--------------------------- MODULE WorkspacesProofs ---------------------------
(***************************************************************************)
(* For any number of requests, host names, bindings, rows and values: a    *)
(* custom domain leads to a workspace only after its own token was found   *)
(* in the DNS, hostMode follows the bindings, secrets stay sealed, and a   *)
(* push leaves a value it does not bring.                                  *)
(*                                                                         *)
(* The argument for hosts: a binding of a custom domain is inserted as     *)
(* pending, and only a request whose query returned its token goes on to   *)
(* write it as active; what a query returned is never taken back.  A       *)
(* transaction that overlaps with no other finds every binding committed,  *)
(* and computes the mode from what it finds.                               *)
(***************************************************************************)
EXTENDS WorkspacesProps, WellFoundedInduction, TLAPS

RowType == [name : HostName \cup {""}, status : {"none", "pending", "active"}]

HostPc == {"idle", "dns", "activate", "delete", "find", "commit"}

HostCallType ==
  [pc : HostPc, op : {"none", "verify", "delete"}, id : {0} \cup BindingId, row : RowType,
   mode : Mode, alone : BOOLEAN]

HostsTypeOK ==
  /\ workspace \in [live : BOOLEAN, hostMode : Mode]
  /\ bindings \in [BindingId -> RowType]
  /\ made \in 0 .. MaxBinding
  /\ dns \in [HostName -> SUBSET BindingId]
  /\ hostCall \in [HostSlot -> HostCallType]
  /\ drifted \in BOOLEAN

\* A row that leads somewhere although nobody owns its name by definition.
NeedsProof(row) == row.status = "active" /\ row.name \notin SharedName

CallProven(c) ==
  /\ c.pc # "idle" => c.id \in BindingId
  /\ c.pc = "activate" => c.id \in proven
  /\ c.pc \in {"find", "commit"} /\ NeedsProof(c.row) => c.id \in proven

ProvenInv ==
  /\ HostsTypeOK
  /\ \A b \in BindingId : NeedsProof(bindings[b]) => b \in proven
  /\ \A s \in HostSlot : CallProven(hostCall[s])

-----------------------------------------------------------------------------
LEMMA NoBindingType == NoBinding \in RowType /\ ~NeedsProof(NoBinding) /\ NoBinding.status = "none"
  BY DEF NoBinding, RowType, NeedsProof

LEMMA NoCallType == NoCall \in HostCallType /\ CallProven(NoCall) /\ NoCall.pc = "idle"
  BY NoBindingType DEF NoCall, HostCallType, HostPc, CallProven, Mode

LEMMA CallTyped ==
  ASSUME HostsTypeOK, NEW s \in HostSlot
  PROVE  hostCall[s] \in HostCallType /\ hostCall[s].row \in RowType
  BY DEF HostsTypeOK, HostCallType

\* The call of one slot changes, and it may be proven.
LEMMA CallChanges ==
  ASSUME ProvenInv, NEW s \in HostSlot, NEW c \in HostCallType, CallProven(c),
         hostCall' = [hostCall EXCEPT ![s] = c],
         UNCHANGED <<workspace, bindings, made, dns, proven, drifted>>
  PROVE  ProvenInv'
  BY DEF ProvenInv, HostsTypeOK, CallProven

\* A call is proven once and for all.
LEMMA ProvenGrows ==
  ASSUME NEW c, CallProven(c), proven \subseteq proven'
  PROVE  CallProven(c)'
  BY DEF CallProven

\* A slot writes a binding: the others learn that they have company.
LEMMA WriteBindingKeeps ==
  ASSUME ProvenInv, NEW s \in HostSlot, NEW b \in BindingId, NEW row \in RowType,
         NeedsProof(row) => b \in proven, WriteBinding(s, b, row)
  PROVE  /\ hostCall' \in [HostSlot -> HostCallType]
         /\ \A t \in HostSlot : CallProven(hostCall'[t])
<1> DEFINE alone == InTransaction = {}
           mine == [hostCall[s] EXCEPT !.pc = "find", !.id = b, !.row = row, !.alone = alone]
           warned(t) == [hostCall[t] EXCEPT !.alone = FALSE]
<1>1. alone \in BOOLEAN
  OBVIOUS
<1>2. hostCall' = [t \in HostSlot |-> IF t = s THEN mine
                                      ELSE IF t \in InTransaction THEN warned(t) ELSE hostCall[t]]
  BY DEF WriteBinding
<1> HIDE DEF alone
<1>3. mine \in HostCallType /\ CallProven(mine)
  <2>1. hostCall[s] \in HostCallType
    BY CallTyped DEF ProvenInv
  <2>2. mine \in HostCallType /\ mine.pc = "find" /\ mine.id = b /\ mine.row = row
    BY <1>1, <2>1 DEF HostCallType, HostPc
  <2> HIDE DEF mine
  <2> QED
    BY <2>2 DEF CallProven
<1>4. ASSUME NEW t \in HostSlot
      PROVE  warned(t) \in HostCallType /\ CallProven(warned(t))
  <2>1. hostCall[t] \in HostCallType /\ CallProven(hostCall[t])
    BY CallTyped DEF ProvenInv
  <2>2. /\ warned(t) \in HostCallType /\ warned(t).pc = hostCall[t].pc
        /\ warned(t).id = hostCall[t].id /\ warned(t).row = hostCall[t].row
    BY <2>1 DEF HostCallType
  <2> HIDE DEF warned
  <2> QED
    BY <2>1, <2>2 DEF CallProven
<1>5. \A t \in HostSlot : hostCall[t] \in HostCallType /\ CallProven(hostCall[t])
  BY CallTyped DEF ProvenInv
<1> HIDE DEF mine, warned
<1> QED
  BY <1>2, <1>3, <1>4, <1>5
-----------------------------------------------------------------------------
(* The statements of a request. *)
LEMMA IdleKeeps ==
  ASSUME ProvenInv, NEW s \in HostSlot, Idle(s),
         UNCHANGED <<workspace, bindings, made, dns, proven, drifted>>
  PROVE  ProvenInv'
  BY NoCallType, CallChanges DEF Idle

LEMMA SyncKeeps ==
  ASSUME ProvenInv, NEW s \in HostSlot, syncHostMode(s)
  PROVE  ProvenInv'
<1> DEFINE active == {b \in BindingId : Seen(s)[b].status = "active"}
           mode == IF active = {} THEN "shared" ELSE KindOf(Seen(s)[Max(active)].name)
           c == [hostCall[s] EXCEPT !.pc = "commit", !.mode = mode]
<1>1. mode \in Mode
  BY DEF Mode, KindOf
<1>2. hostCall[s].pc = "find" /\ hostCall' = [hostCall EXCEPT ![s].pc = "commit", ![s].mode = mode]
      /\ UNCHANGED <<workspace, bindings, made, dns, proven, drifted>>
  BY DEF syncHostMode
<1> HIDE DEF mode, active
<1>3. hostCall[s] \in HostCallType /\ CallProven(hostCall[s])
  BY CallTyped DEF ProvenInv
<1>4. c \in HostCallType /\ c.pc = "commit" /\ c.id = hostCall[s].id /\ c.row = hostCall[s].row
  BY <1>1, <1>3 DEF HostCallType, HostPc
<1>5. hostCall' = [hostCall EXCEPT ![s] = c]
  BY <1>2 DEF ProvenInv, HostsTypeOK
<1> HIDE DEF c
<1>6. CallProven(c)
  BY <1>2, <1>3, <1>4 DEF CallProven
<1> QED
  BY <1>2, <1>4, <1>5, <1>6, CallChanges

LEMMA CommitKeeps ==
  ASSUME ProvenInv, NEW s \in HostSlot, CommitHost(s)
  PROVE  ProvenInv'
<1> DEFINE c == hostCall[s]
<1>1. c \in HostCallType /\ c.row \in RowType /\ CallProven(c) /\ c.pc = "commit"
  BY CallTyped DEF ProvenInv, CommitHost
<1>2. bindings' = [bindings EXCEPT ![c.id] = c.row]
  BY DEF CommitHost, Seen
<1>3. bindings' \in [BindingId -> RowType]
  BY <1>1, <1>2 DEF ProvenInv, HostsTypeOK
<1>4. \A b \in BindingId : NeedsProof(bindings'[b]) => b \in proven
  BY <1>1, <1>2 DEF ProvenInv, HostsTypeOK, CallProven
<1>5. workspace' = [workspace EXCEPT !.hostMode = c.mode] /\ drifted' = ~c.alone
      /\ hostCall' = [hostCall EXCEPT ![s] = NoCall] /\ UNCHANGED <<made, dns, proven>>
  BY DEF CommitHost, Idle
<1>6. workspace' \in [live : BOOLEAN, hostMode : Mode] /\ drifted' \in BOOLEAN
  BY <1>1, <1>5 DEF ProvenInv, HostsTypeOK, HostCallType
<1>7. hostCall' \in [HostSlot -> HostCallType] /\ \A t \in HostSlot : CallProven(hostCall'[t])
  BY <1>5, NoCallType DEF ProvenInv, HostsTypeOK
<1> QED
  BY <1>3, <1>4, <1>5, <1>6, <1>7 DEF ProvenInv, HostsTypeOK, CallProven

\* The query answers: its token is proven, and the request goes on, or nothing is.
LEMMA DnsAnswerKeeps ==
  ASSUME ProvenInv, NEW s \in HostSlot, DnsAnswer(s)
  PROVE  ProvenInv'
<1> DEFINE c == hostCall[s]
           to == [c EXCEPT !.pc = "activate"]
<1>1. c \in HostCallType
  BY CallTyped DEF ProvenInv
<1>2. proven' = proven \cup (dns[c.row.name] \cap {c.id})
      /\ UNCHANGED <<workspace, bindings, made, dns, drifted>>
  BY DEF DnsAnswer
<1>3. \A t \in HostSlot : CallProven(hostCall[t])'
        <=> /\ hostCall'[t].pc # "idle" => hostCall'[t].id \in BindingId
            /\ hostCall'[t].pc = "activate" => hostCall'[t].id \in proven'
            /\ hostCall'[t].pc \in {"find", "commit"} /\ NeedsProof(hostCall'[t].row)
                 => hostCall'[t].id \in proven'
  BY DEF CallProven, NeedsProof
<1>4. CASE Matches(s) /\ hostCall' = [hostCall EXCEPT ![s].pc = "activate"]
  <2>1. hostCall' = [hostCall EXCEPT ![s] = to]
    BY <1>4
  <2>2. to \in HostCallType /\ to.pc = "activate" /\ to.id = c.id
    BY <1>1 DEF HostCallType, HostPc
  <2>3. c.id \in proven'
    BY <1>2, <1>4 DEF Matches
  <2> HIDE DEF to
  <2>4. \A t \in HostSlot : CallProven(hostCall[t])'
    <3>1. hostCall'[s] = to /\ c.id \in BindingId
      BY <1>1, <2>1 DEF ProvenInv, HostsTypeOK, CallProven, DnsAnswer
    <3>2. \A t \in HostSlot \ {s} : hostCall'[t] = hostCall[t]
      BY <2>1 DEF ProvenInv, HostsTypeOK
    <3>3. \A t \in HostSlot : CallProven(hostCall[t]) /\ proven \subseteq proven'
      BY <1>2 DEF ProvenInv
    <3> QED
      BY <1>3, <2>2, <2>3, <3>1, <3>2, <3>3 DEF CallProven
  <2> QED
    BY <1>2, <2>1, <2>2, <2>4 DEF ProvenInv, HostsTypeOK, NeedsProof
<1>5. CASE Idle(s)
  <2>1. hostCall' = [hostCall EXCEPT ![s] = NoCall]
    BY <1>5 DEF Idle
  <2>2. \A t \in HostSlot : CallProven(hostCall[t])'
    BY <1>2, <1>3, <2>1, NoCallType DEF ProvenInv, HostsTypeOK, CallProven
  <2> QED
    BY <1>2, <2>1, <2>2, NoCallType DEF ProvenInv, HostsTypeOK, NeedsProof
<1> QED
  BY <1>4, <1>5 DEF DnsAnswer

LEMMA ActivateKeeps ==
  ASSUME ProvenInv, NEW s \in HostSlot, Activate(s)
  PROVE  ProvenInv'
<1> DEFINE b == hostCall[s].id
           row == [bindings[b] EXCEPT !.status = "active"]
<1>1. CallProven(hostCall[s]) /\ hostCall[s] \in HostCallType /\ hostCall[s].pc = "activate"
  BY CallTyped DEF ProvenInv, Activate
<1>2. UNCHANGED <<workspace, bindings, made, dns, proven, drifted>>
  BY DEF Activate
<1>3. CASE Idle(s)
  BY <1>2, <1>3, IdleKeeps
<1>4. CASE bindings[b].status = "pending" /\ WriteBinding(s, b, row)
  <2>1. b \in proven /\ b \in BindingId
    BY <1>1 DEF CallProven
  <2>2. row \in RowType
    <3>1. bindings[b] \in RowType
      BY <2>1 DEF ProvenInv, HostsTypeOK
    <3> HIDE DEF b
    <3> QED
      BY <3>1 DEF RowType
  <2> QED
    BY <1>2, <1>4, <2>1, <2>2, WriteBindingKeeps DEF ProvenInv, HostsTypeOK, NeedsProof, CallProven
<1> QED
  BY <1>3, <1>4 DEF Activate
LEMMA DeleteRowKeeps ==
  ASSUME ProvenInv, NEW s \in HostSlot, DeleteRow(s)
  PROVE  ProvenInv'
<1>1. hostCall[s].id \in BindingId /\ UNCHANGED <<workspace, bindings, made, dns, proven, drifted>>
  BY DEF ProvenInv, DeleteRow, CallProven
<1>2. CASE Idle(s)
  BY <1>1, <1>2, IdleKeeps
<1>3. CASE WriteBinding(s, hostCall[s].id, NoBinding)
  BY <1>1, <1>3, NoBindingType, WriteBindingKeeps DEF ProvenInv, HostsTypeOK, NeedsProof, CallProven
<1> QED
  BY <1>2, <1>3 DEF DeleteRow

LEMMA HostStatementKeeps ==
  ASSUME ProvenInv, NEW s \in HostSlot, HostStatement(s)
  PROVE  ProvenInv'
<1>1. CASE AbortHost(s)
  BY <1>1, IdleKeeps DEF AbortHost
<1> QED
  BY <1>1, SyncKeeps, CommitKeeps, DnsAnswerKeeps, ActivateKeeps, DeleteRowKeeps DEF HostStatement

-----------------------------------------------------------------------------
(* The requests, the DNS, and the end of a workspace. *)
LEMMA PostHostKeeps ==
  ASSUME ProvenInv, NEW s \in HostSlot, NEW name \in HostName, PostHost(s, name)
  PROVE  ProvenInv'
<1> DEFINE b == made + 1
           active == [name |-> name, status |-> "active"]
           pending == [name |-> name, status |-> "pending"]
<1>1. b \in BindingId /\ made' = b /\ b \in 0 .. MaxBinding
  BY HostsAssumption DEF PostHost, BindingId, ProvenInv, HostsTypeOK
<1>2. UNCHANGED <<workspace, dns, proven, drifted>>
  BY DEF PostHost
<1>3. active \in RowType /\ pending \in RowType /\ ~NeedsProof(pending)
  BY DEF RowType, NeedsProof
<1>4. CASE KindOf(name) = "dedicated_subdomain" /\ WriteBinding(s, b, active) /\ UNCHANGED bindings
  <2>1. ~NeedsProof(active)
    BY <1>4 DEF KindOf, NeedsProof
  <2> HIDE DEF b, active
  <2> QED
    BY <1>1, <1>2, <1>3, <1>4, <2>1, WriteBindingKeeps DEF ProvenInv, HostsTypeOK, NeedsProof, CallProven
<1>5. CASE bindings' = [bindings EXCEPT ![b] = pending] /\ UNCHANGED hostCall
  <2> HIDE DEF b, pending
  <2> QED
    BY <1>1, <1>2, <1>3, <1>5 DEF ProvenInv, HostsTypeOK, NeedsProof, CallProven
<1> QED
  BY <1>4, <1>5 DEF PostHost

LEMMA VerifyDeleteKeep ==
  ASSUME ProvenInv, NEW s \in HostSlot, NEW b \in BindingId, Verify(s, b) \/ DeleteHost(s, b)
  PROVE  ProvenInv'
<1> DEFINE verify == [NoCall EXCEPT !.pc = "dns", !.op = "verify", !.id = b, !.row = bindings[b]]
           delete == [NoCall EXCEPT !.pc = "delete", !.op = "delete", !.id = b]
<1>1. bindings[b] \in RowType
  BY DEF ProvenInv, HostsTypeOK
<1>2. verify \in HostCallType /\ verify.pc = "dns" /\ verify.id = b
      /\ delete \in HostCallType /\ delete.pc = "delete" /\ delete.id = b
  BY <1>1, NoCallType DEF HostCallType, HostPc
<1>3. \E c \in {verify, delete} : hostCall' = [hostCall EXCEPT ![s] = c]
  BY DEF Verify, DeleteHost
<1>4. UNCHANGED <<workspace, bindings, made, dns, proven, drifted>>
  BY DEF Verify, DeleteHost
<1> HIDE DEF verify, delete
<1>5. CallProven(verify) /\ CallProven(delete)
  BY <1>2 DEF CallProven
<1> QED
  BY <1>2, <1>3, <1>4, <1>5, CallChanges

LEMMA ChangeDnsKeeps ==
  ASSUME ProvenInv, ChangeDns
  PROVE  ProvenInv'
<1>1. PICK b \in BindingId, n \in HostName \ SharedName :
        dns' = [dns EXCEPT ![n] = IF b \in @ THEN @ \ {b} ELSE @ \cup {b}]
  BY DEF ChangeDns
<1>2. dns' \in [HostName -> SUBSET BindingId]
  BY <1>1 DEF ProvenInv, HostsTypeOK
<1> QED
  BY <1>2 DEF ChangeDns, ProvenInv, HostsTypeOK, NeedsProof, CallProven

LEMMA DeleteWorkspaceKeeps ==
  ASSUME ProvenInv, DeleteWorkspace
  PROVE  ProvenInv'
<1>1. bindings' = [b \in BindingId |-> NoBinding] /\ workspace' = [workspace EXCEPT !.live = FALSE]
      /\ UNCHANGED <<made, dns, hostCall, proven, drifted>>
  BY DEF DeleteWorkspace
<1> QED
  BY <1>1, NoBindingType DEF ProvenInv, HostsTypeOK, NeedsProof, CallProven

LEMMA HostsUnchanged ==
  ASSUME ProvenInv, UNCHANGED hostVars
  PROVE  ProvenInv'
  BY DEF hostVars, ProvenInv, HostsTypeOK, NeedsProof, CallProven

LEMMA InitProven ==
  ASSUME Init
  PROVE  ProvenInv
<1>1. /\ workspace = [live |-> TRUE, hostMode |-> "shared"] /\ made = 0 /\ drifted = FALSE
      /\ bindings = [b \in BindingId |-> NoBinding] /\ dns = [n \in HostName |-> {}]
      /\ hostCall = [s \in HostSlot |-> NoCall]
  BY DEF Init, HostsInit
<1>2. HostsTypeOK
  <2>1. workspace \in [live : BOOLEAN, hostMode : Mode] /\ made \in 0 .. MaxBinding
    BY <1>1, HostsAssumption DEF Mode
  <2>2. bindings \in [BindingId -> RowType] /\ hostCall \in [HostSlot -> HostCallType]
    BY <1>1, NoBindingType, NoCallType
  <2> QED
    BY <1>1, <2>1, <2>2 DEF HostsTypeOK
<1> QED
  BY <1>1, <1>2, NoBindingType, NoCallType DEF ProvenInv

LEMMA NextProven ==
  ASSUME ProvenInv, [Next]_vars
  PROVE  ProvenInv'
<1>1. CASE HostRequest
  BY <1>1, PostHostKeeps, VerifyDeleteKeep DEF HostRequest
<1>2. CASE VariableRequest \/ UNCHANGED vars
  BY <1>2, HostsUnchanged DEF VariableRequest, vars
<1>3. CASE DeleteWorkspace
  BY <1>3, DeleteWorkspaceKeeps
<1>4. CASE (ChangeDns \/ \E s \in HostSlot : HostStatement(s)) /\ UNCHANGED <<varVars, spent>>
  BY <1>4, ChangeDnsKeeps, HostStatementKeeps
<1>5. CASE (\E s \in VarSlot : VariableStatement(s)) /\ UNCHANGED <<hostVars, spent>>
  BY <1>5, HostsUnchanged
<1> QED
  BY <1>1, <1>2, <1>3, <1>4, <1>5 DEF Next

\* Whoever has a custom domain active has shown its token in the DNS of that name,
\* for any number of requests, names and bindings (hosts.ts:123-137).
THEOREM ActiveDomainsAreProven == Spec => []ActiveWasProven
<1>1. Init => ProvenInv
  BY InitProven
<1>2. ProvenInv /\ [Next]_vars => ProvenInv'
  BY NextProven
<1>3. ProvenInv => ActiveWasProven
  BY DEF ProvenInv, NeedsProof, ActiveWasProven, Resolves
<1> QED
  BY <1>1, <1>2, <1>3, PTL DEF Spec
-----------------------------------------------------------------------------
(***************************************************************************)
(* The mode.  A transaction that is alone from its write to its commit     *)
(* writes the mode of the bindings it leaves: only requests that insert a  *)
(* pending binding may commit beside it, and these change no mode.         *)
(***************************************************************************)
ActiveIn(bs) == {b \in BindingId : bs[b].status = "active"}

ModeOf(bs) == IF ActiveIn(bs) = {} THEN "shared" ELSE KindOf(bs[Max(ActiveIn(bs))].name)

\* The bindings as the transaction of call c leaves them.
Left(c, bs) == [bs EXCEPT ![c.id] = c.row]

Writing(c) == c.pc \in {"find", "commit"}

CallFollows(c, bs, n) ==
  /\ c.pc # "idle" => c.id <= n
  /\ c.pc = "commit" /\ c.alone => c.mode = ModeOf(Left(c, bs))

ModeInv ==
  /\ \A b \in BindingId : b > made => bindings[b].status = "none"
  /\ \A s \in HostSlot : CallFollows(hostCall[s], bindings, made)
  /\ \A s, t \in HostSlot : s # t /\ Writing(hostCall[s]) /\ Writing(hostCall[t]) => ~hostCall[s].alone
  /\ workspace.live /\ ~drifted => workspace.hostMode = ModeOf(bindings)

LEMMA MaxIn ==
  ASSUME NEW S \in SUBSET BindingId, S # {}
  PROVE  Max(S) \in S
<1> DEFINE below == {MaxBinding - b : b \in S}
<1>1. \A b \in S : b \in Nat /\ MaxBinding - b \in Nat
  BY HostsAssumption DEF BindingId
<1>2. below \in SUBSET Nat /\ below # {}
  BY <1>1
<1>3. PICK n \in below : \A m \in below : n <= m
  <2> DEFINE less == {ss \in Nat \X Nat : ss[1] < ss[2]}
  <2> HIDE DEF below
  <2>1. IsWellFoundedOn(less, Nat)
    BY NatLessThanWellFounded, Zenon DEF OpToRel
  <2>2. \A m, n \in Nat : m < n => <<m, n>> \in less
    OBVIOUS
  <2> HIDE DEF less
  <2>3. PICK n \in below : \A m \in below : ~(<<m, n>> \in less)
    BY <1>2, <2>1, WFMin
  <2>4. \A m \in below : m \in Nat /\ n \in Nat /\ ~(m < n)
    BY <1>2, <2>2, <2>3
  <2>5. \A m \in below : n <= m
    BY <2>4
  <2> QED
    BY <2>5
<1>4. PICK x \in S : n = MaxBinding - x
  BY <1>3
<1>5. \A y \in S : x >= y
  <2> SUFFICES ASSUME NEW y \in S
               PROVE  x >= y
    OBVIOUS
  <2>1. MaxBinding - x <= MaxBinding - y
    BY <1>3, <1>4
  <2> QED
    BY <1>1, <2>1, HostsAssumption
<1> QED
  BY <1>5 DEF Max

\* A row that is not active, before and after, does not count.
LEMMA SameMode ==
  ASSUME NEW bs \in [BindingId -> RowType], NEW bt \in [BindingId -> RowType], NEW k,
         \A b \in BindingId \ {k} : bt[b] = bs[b],
         k \in BindingId => bs[k].status # "active" /\ bt[k].status # "active"
  PROVE  ModeOf(bt) = ModeOf(bs)
<1>1. ActiveIn(bt) = ActiveIn(bs)
  BY DEF ActiveIn
<1>2. CASE ActiveIn(bs) = {}
  BY <1>1, <1>2 DEF ModeOf
<1>3. CASE ActiveIn(bs) # {}
  <2> DEFINE m == Max(ActiveIn(bs))
  <2>1. m \in ActiveIn(bs)
    BY <1>3, MaxIn DEF ActiveIn
  <2>2. m \in BindingId /\ bs[m].status = "active"
    BY <2>1 DEF ActiveIn
  <2> HIDE DEF m
  <2>3. bt[m] = bs[m]
    BY <2>2
  <2> QED
    BY <1>1, <1>3, <2>3 DEF ModeOf, m
<1> QED
  BY <1>2, <1>3
LEMMA LeftType ==
  ASSUME ProvenInv, NEW c \in HostCallType
  PROVE  Left(c, bindings) \in [BindingId -> RowType]
  BY DEF Left, HostCallType, ProvenInv, HostsTypeOK

LEMMA NoCallFollows == ASSUME NEW bs, NEW n PROVE CallFollows(NoCall, bs, n) /\ ~Writing(NoCall)
  BY NoCallType DEF CallFollows, Writing

\* One call goes on, and writes only what it has written before.
LEMMA CallModes ==
  ASSUME ProvenInv, ModeInv, NEW s \in HostSlot, NEW c, CallFollows(c, bindings, made),
         Writing(c) => Writing(hostCall[s]) /\ c.alone = hostCall[s].alone,
         hostCall' = [hostCall EXCEPT ![s] = c], UNCHANGED <<workspace, bindings, made, drifted>>
  PROVE  ModeInv'
<1>1. hostCall'[s] = c /\ \A t \in HostSlot \ {s} : hostCall'[t] = hostCall[t]
  BY DEF ProvenInv, HostsTypeOK
<1>2. \A t \in HostSlot : CallFollows(hostCall'[t], bindings, made)
  BY <1>1 DEF ModeInv
<1>3. \A t \in HostSlot : CallFollows(hostCall'[t], bindings', made')
  BY <1>2
<1>4. \A t, u \in HostSlot : t # u /\ Writing(hostCall'[t]) /\ Writing(hostCall'[u]) => ~hostCall'[t].alone
  BY <1>1 DEF ModeInv
<1>5. \A t, u \in HostSlot : t # u /\ Writing(hostCall[t])' /\ Writing(hostCall[u])' => ~hostCall'[t].alone
  BY <1>4 DEF Writing
<1> QED
  BY <1>3, <1>5 DEF ModeInv, ModeOf, ActiveIn

LEMMA IdleModes ==
  ASSUME ProvenInv, ModeInv, NEW s \in HostSlot, Idle(s), UNCHANGED <<workspace, bindings, made, drifted>>
  PROVE  ModeInv'
  BY NoCallFollows, CallModes DEF Idle

LEMMA SyncModes ==
  ASSUME ProvenInv, ModeInv, NEW s \in HostSlot, syncHostMode(s)
  PROVE  ModeInv'
<1> DEFINE seen == Seen(s)
           c == [hostCall[s] EXCEPT !.pc = "commit", !.mode = ModeOf(seen)]
<1>1. seen = Left(hostCall[s], bindings)
  BY DEF Seen, Left
<1>2. hostCall[s].pc = "find" /\ hostCall' = [hostCall EXCEPT ![s].pc = "commit", ![s].mode = ModeOf(seen)]
      /\ UNCHANGED <<workspace, bindings, made, drifted>>
  BY DEF syncHostMode, ModeOf, ActiveIn
<1> HIDE DEF seen
<1>3. hostCall[s] \in HostCallType /\ CallFollows(hostCall[s], bindings, made)
  BY CallTyped DEF ProvenInv, ModeInv
<1>4. /\ c.pc = "commit" /\ c.id = hostCall[s].id /\ c.row = hostCall[s].row
      /\ c.alone = hostCall[s].alone /\ c.mode = ModeOf(seen)
  BY <1>3 DEF HostCallType
<1>5. hostCall' = [hostCall EXCEPT ![s] = c]
  BY <1>2 DEF ProvenInv, HostsTypeOK
<1> HIDE DEF c
<1>6. Left(c, bindings) = seen
  BY <1>1, <1>4 DEF Left
<1>7. CallFollows(c, bindings, made)
  BY <1>2, <1>3, <1>4, <1>6 DEF CallFollows
<1>8. Writing(hostCall[s])
  BY <1>2 DEF Writing
<1> QED
  BY <1>2, <1>4, <1>5, <1>7, <1>8, CallModes

\* Whoever writes while others do is not alone, and they are not any more.
LEMMA WriteModes ==
  ASSUME ProvenInv, ModeInv, NEW s \in HostSlot, NEW b \in BindingId, NEW row,
         WriteBinding(s, b, row), ~Writing(hostCall[s]), made <= made', b <= made', made' \in Nat,
         UNCHANGED <<workspace, bindings, drifted>>
  PROVE  ModeInv'
<1> DEFINE alone == InTransaction = {}
           mine == [hostCall[s] EXCEPT !.pc = "find", !.id = b, !.row = row, !.alone = alone]
           warned(t) == [hostCall[t] EXCEPT !.alone = FALSE]
<1>1. hostCall' = [t \in HostSlot |-> IF t = s THEN mine
                                      ELSE IF t \in InTransaction THEN warned(t) ELSE hostCall[t]]
  BY DEF WriteBinding
<1>2. \A t \in HostSlot : t \in InTransaction <=> Writing(hostCall[t])
  BY DEF InTransaction, Writing
<1>3. mine.pc = "find" /\ mine.id = b /\ mine.alone = alone
  <2>1. hostCall[s] \in HostCallType
    BY CallTyped DEF ProvenInv
  <2> HIDE DEF alone
  <2> QED
    BY <2>1 DEF HostCallType
<1>4. ASSUME NEW t \in HostSlot
      PROVE  /\ hostCall[t] \in HostCallType /\ CallFollows(hostCall[t], bindings, made)
             /\ warned(t).pc = hostCall[t].pc /\ warned(t).id = hostCall[t].id
             /\ warned(t).alone = FALSE
  BY CallTyped DEF ProvenInv, ModeInv, HostCallType
<1> HIDE DEF mine, warned
<1>5. ASSUME NEW t \in HostSlot
      PROVE  CallFollows(hostCall[t], bindings, made)'
  <2>1. made \in Nat /\ (hostCall[t].pc # "idle" => hostCall[t].id <= made /\ hostCall[t].id \in Nat)
    <3>1. made \in Nat
      BY HostsAssumption DEF ProvenInv, HostsTypeOK
    <3>2. hostCall[t].pc # "idle" => hostCall[t].id \in BindingId
      BY DEF ProvenInv, CallProven
    <3>3. hostCall[t].pc # "idle" => hostCall[t].id <= made
      BY DEF ModeInv, CallFollows
    <3>4. hostCall[t].pc # "idle" => hostCall[t].id \in Nat
      BY <3>2 DEF BindingId
    <3> QED
      BY <3>1, <3>3, <3>4
  <2>2. CASE t = s
    <3>1. hostCall'[t] = mine
      BY <1>1, <2>2
    <3> QED
      BY <1>3, <3>1 DEF CallFollows
  <2>3. CASE t # s /\ t \in InTransaction
    <3>1. hostCall'[t] = warned(t)
      BY <1>1, <2>3
    <3>2. hostCall'[t].pc = hostCall[t].pc /\ hostCall'[t].id = hostCall[t].id
          /\ hostCall'[t].alone = FALSE
      BY <1>4, <3>1
    <3>3. hostCall'[t].pc # "idle" => hostCall'[t].id <= made'
      BY <2>1, <3>2
    <3> QED
      BY <3>2, <3>3 DEF CallFollows
  <2>4. CASE t # s /\ t \notin InTransaction
    <3>1. hostCall'[t] = hostCall[t] /\ hostCall[t].pc # "commit"
      BY <1>1, <1>2, <2>4 DEF Writing
    <3> QED
      BY <2>1, <3>1 DEF CallFollows
  <2> QED
    BY <2>2, <2>3, <2>4
<1>6. ASSUME NEW t \in HostSlot, NEW u \in HostSlot, t # u,
             Writing(hostCall'[t]), Writing(hostCall'[u])
      PROVE  ~hostCall'[t].alone
  <2>1. \A v \in HostSlot \ {s} : Writing(hostCall'[v]) =>
          v \in InTransaction /\ hostCall'[v].alone = FALSE
    <3> SUFFICES ASSUME NEW v \in HostSlot \ {s}, Writing(hostCall'[v])
                 PROVE  v \in InTransaction /\ hostCall'[v].alone = FALSE
      OBVIOUS
    <3>1. CASE v \in InTransaction
      BY <1>1, <1>4, <3>1
    <3>2. CASE v \notin InTransaction
      BY <1>1, <1>2, <3>2
    <3> QED
      BY <3>1, <3>2
  <2>2. CASE t = s
    <3>1. InTransaction # {}
      BY <1>6, <2>1, <2>2
    <3> QED
      BY <1>1, <1>3, <2>2, <3>1
  <2>3. CASE t # s
    BY <1>6, <2>1, <2>3
  <2> QED
    BY <2>2, <2>3
<1>7. \A t, u \in HostSlot : t # u /\ Writing(hostCall[t])' /\ Writing(hostCall[u])' => ~hostCall'[t].alone
  BY <1>6 DEF Writing
<1>8. \A c \in BindingId : c > made' => bindings[c].status = "none"
  BY HostsAssumption DEF ModeInv, BindingId, ProvenInv, HostsTypeOK
<1> QED
  BY <1>5, <1>7, <1>8 DEF ModeInv, ModeOf, ActiveIn

\* A pending binding is inserted at once: no mode depends on it.
LEMMA InsertModes ==
  ASSUME ProvenInv, ModeInv, NEW row \in RowType, row.status = "pending", made + 1 \in BindingId,
         bindings' = [bindings EXCEPT ![made + 1] = row], made' = made + 1,
         UNCHANGED <<workspace, hostCall, drifted>>
  PROVE  ModeInv'
<1>1. PICK k \in BindingId : k = made + 1
  OBVIOUS
<1>2. made \in Nat /\ k \in Nat /\ bindings \in [BindingId -> RowType]
      /\ bindings' = [bindings EXCEPT ![k] = row] /\ made' = k
  BY <1>1, HostsAssumption DEF ProvenInv, HostsTypeOK, BindingId
<1>3. bindings' \in [BindingId -> RowType] /\ bindings[k].status = "none" /\ bindings'[k] = row
      /\ \A b \in BindingId \ {k} : bindings'[b] = bindings[b]
  BY <1>1, <1>2 DEF ModeInv
<1>4. ModeOf(bindings') = ModeOf(bindings)
  BY <1>2, <1>3, SameMode
<1>5. ASSUME NEW s \in HostSlot
      PROVE  CallFollows(hostCall[s], bindings, made)'
  <2> DEFINE c == hostCall[s]
  <2>1. c \in HostCallType /\ CallFollows(c, bindings, made)
    BY CallTyped DEF ProvenInv, ModeInv
  <2>2. c.pc # "idle" => c.id <= made /\ c.id \in BindingId /\ c.id # k /\ c.id <= made'
    BY <1>1, <1>2, <2>1 DEF CallFollows, ProvenInv, CallProven, BindingId
  <2>3. CASE c.pc = "commit"
    <3>1. Left(c, bindings) \in [BindingId -> RowType]
      BY <2>1, LeftType
    <3>2. Left(c, bindings') = [bindings' EXCEPT ![c.id] = c.row]
      BY DEF Left
    <3>3. Left(c, bindings') \in [BindingId -> RowType]
      BY <1>3, <2>1, <3>2 DEF HostCallType
    <3>4. Left(c, bindings)[k] = bindings[k] /\ Left(c, bindings')[k] = row
          /\ \A b \in BindingId \ {k} : Left(c, bindings')[b] = Left(c, bindings)[b]
      BY <1>2, <1>3, <2>2, <2>3 DEF Left
    <3>5. ModeOf(Left(c, bindings')) = ModeOf(Left(c, bindings))
      BY <1>3, <3>1, <3>3, <3>4, SameMode
    <3>6. c.alone => c.mode = ModeOf(Left(c, bindings'))
      BY <2>1, <2>3, <3>5 DEF CallFollows
    <3>7. ModeOf(Left(c, bindings)) ' = ModeOf(Left(c, bindings'))
      BY DEF ModeOf, ActiveIn, Left
    <3> QED
      BY <2>2, <2>3, <3>6, <3>7 DEF CallFollows
  <2>4. CASE c.pc # "commit"
    BY <2>2, <2>4 DEF CallFollows
  <2> QED
    BY <2>3, <2>4
<1>6. \A b \in BindingId : b > made' => bindings'[b].status = "none"
  BY <1>1, <1>2, <1>3 DEF ModeInv, BindingId
<1>7. ModeOf(bindings)' = ModeOf(bindings')
  BY DEF ModeOf, ActiveIn
<1> QED
  BY <1>4, <1>5, <1>6, <1>7 DEF ModeInv, Writing
\* The transaction that commits alone leaves the mode it has read; beside another it
\* says nothing.
LEMMA CommitModes ==
  ASSUME ProvenInv, ModeInv, NEW s \in HostSlot, CommitHost(s)
  PROVE  ModeInv'
<1> DEFINE c == hostCall[s]
<1>1. c.pc = "commit" /\ c \in HostCallType /\ CallFollows(c, bindings, made) /\ c.id \in BindingId
  BY CallTyped DEF ProvenInv, ModeInv, CommitHost, CallProven
<1>2. /\ bindings' = Left(c, bindings) /\ drifted' = ~c.alone
      /\ workspace' = [workspace EXCEPT !.hostMode = c.mode]
      /\ hostCall' = [hostCall EXCEPT ![s] = NoCall] /\ UNCHANGED made
  BY DEF CommitHost, Idle, Seen, Left
<1>3. hostCall'[s] = NoCall /\ \A t \in HostSlot \ {s} : hostCall'[t] = hostCall[t]
  BY <1>2 DEF ProvenInv, HostsTypeOK
<1>4. workspace'.hostMode = c.mode /\ (c.alone => c.mode = ModeOf(bindings'))
  BY <1>1, <1>2 DEF CallFollows, ProvenInv, HostsTypeOK
<1>5. c.alone \in BOOLEAN
  BY <1>1 DEF HostCallType
<1>6. ASSUME NEW t \in HostSlot
      PROVE  CallFollows(hostCall'[t], bindings', made')
  <2>1. CASE t = s
    BY <1>3, <2>1, NoCallFollows
  <2>2. CASE t # s
    <3>1. hostCall'[t] = hostCall[t] /\ CallFollows(hostCall[t], bindings, made)
      BY <1>3, <2>2 DEF ModeInv
    <3>2. hostCall[t].pc = "commit" => ~hostCall[t].alone
      BY <1>1, <2>2 DEF ModeInv, Writing
    <3> QED
      BY <1>2, <3>1, <3>2 DEF CallFollows
  <2> QED
    BY <2>1, <2>2
<1>7. \A t, u \in HostSlot : t # u /\ Writing(hostCall'[t]) /\ Writing(hostCall'[u]) => ~hostCall'[t].alone
  BY <1>3, NoCallFollows DEF ModeInv
<1>8. \A b \in BindingId : b > made' => bindings'[b].status = "none"
  <2> SUFFICES ASSUME NEW b \in BindingId, b > made
               PROVE  bindings'[b].status = "none"
    BY <1>2
  <2>1. c.id <= made
    BY <1>1 DEF CallFollows
  <2>2. b # c.id
    BY <1>1, <2>1, HostsAssumption DEF BindingId, ProvenInv, HostsTypeOK
  <2>3. bindings'[b] = bindings[b]
    BY <1>1, <1>2, <2>2 DEF Left, ProvenInv, HostsTypeOK
  <2> QED
    BY <2>3 DEF ModeInv
<1> QED
  BY <1>2, <1>4, <1>5, <1>6, <1>7, <1>8 DEF ModeInv

LEMMA HostStatementModes ==
  ASSUME ProvenInv, ModeInv, NEW s \in HostSlot, HostStatement(s)
  PROVE  ModeInv'
<1>1. CASE AbortHost(s)
  BY <1>1, IdleModes DEF AbortHost
<1>2. CASE DnsAnswer(s)
  <2> DEFINE to == [hostCall[s] EXCEPT !.pc = "activate"]
  <2>1. CASE Idle(s)
    BY <1>2, <2>1, IdleModes DEF DnsAnswer
  <2>2. CASE hostCall' = [hostCall EXCEPT ![s].pc = "activate"]
    <3>1. hostCall[s] \in HostCallType /\ CallFollows(hostCall[s], bindings, made) /\ hostCall[s].pc = "dns"
      BY <1>2, CallTyped DEF ProvenInv, ModeInv, DnsAnswer
    <3>2. to.pc = "activate" /\ to.id = hostCall[s].id
      BY <3>1 DEF HostCallType
    <3>3. hostCall' = [hostCall EXCEPT ![s] = to]
      BY <2>2
    <3> HIDE DEF to
    <3>4. CallFollows(to, bindings, made) /\ ~Writing(to)
      BY <3>1, <3>2 DEF CallFollows, Writing
    <3> QED
      BY <1>2, <3>3, <3>4, CallModes DEF DnsAnswer
  <2> QED
    BY <1>2, <2>1, <2>2 DEF DnsAnswer
<1>3. CASE Activate(s) \/ DeleteRow(s)
  <2> DEFINE b == hostCall[s].id
  <2>1. /\ b \in BindingId /\ b <= made /\ made \in Nat /\ ~Writing(hostCall[s])
        /\ UNCHANGED <<workspace, bindings, made, drifted>>
    BY <1>3, HostsAssumption
    DEF Activate, DeleteRow, ProvenInv, ModeInv, CallProven, CallFollows, Writing, HostsTypeOK
  <2>2. CASE Idle(s)
    BY <2>1, <2>2, IdleModes
  <2>3. CASE \E row \in {[bindings[b] EXCEPT !.status = "active"], NoBinding} : WriteBinding(s, b, row)
    BY <2>1, <2>3, WriteModes
  <2> QED
    BY <1>3, <2>2, <2>3 DEF Activate, DeleteRow
<1> QED
  BY <1>1, <1>2, <1>3, SyncModes, CommitModes DEF HostStatement

-----------------------------------------------------------------------------
LEMMA HostRequestModes ==
  ASSUME ProvenInv, ModeInv, HostRequest
  PROVE  ModeInv'
<1>1. CASE \E s \in HostSlot, name \in HostName : PostHost(s, name)
  <2>1. PICK s \in HostSlot, name \in HostName : PostHost(s, name)
    BY <1>1
  <2> DEFINE active == [name |-> name, status |-> "active"]
             pending == [name |-> name, status |-> "pending"]
  <2>2. made + 1 \in BindingId /\ made \in Nat /\ made' = made + 1 /\ ~Writing(hostCall[s])
        /\ UNCHANGED <<workspace, drifted>>
    BY <2>1, HostsAssumption DEF PostHost, BindingId, ProvenInv, HostsTypeOK, Writing
  <2>3. CASE WriteBinding(s, made + 1, active) /\ UNCHANGED bindings
    BY <2>2, <2>3, WriteModes
  <2>4. CASE bindings' = [bindings EXCEPT ![made + 1] = pending] /\ UNCHANGED hostCall
    <3>1. pending \in RowType /\ pending.status = "pending"
      BY DEF RowType
    <3> HIDE DEF pending
    <3> QED
      BY <2>2, <2>4, <3>1, InsertModes
  <2> QED
    BY <2>1, <2>3, <2>4 DEF PostHost
<1>2. CASE \E s \in HostSlot, b \in BindingId : Verify(s, b) \/ DeleteHost(s, b)
  <2>1. PICK s \in HostSlot, b \in BindingId : Verify(s, b) \/ DeleteHost(s, b)
    BY <1>2
  <2> DEFINE verify == [NoCall EXCEPT !.pc = "dns", !.op = "verify", !.id = b, !.row = bindings[b]]
             delete == [NoCall EXCEPT !.pc = "delete", !.op = "delete", !.id = b]
  <2>2. verify.pc = "dns" /\ verify.id = b /\ delete.pc = "delete" /\ delete.id = b
    BY DEF NoCall
  <2>3. \E c \in {verify, delete} : hostCall' = [hostCall EXCEPT ![s] = c]
    BY <2>1 DEF Verify, DeleteHost
  <2>4. UNCHANGED <<workspace, bindings, made, drifted>> /\ bindings[b].status # "none"
    BY <2>1 DEF Verify, DeleteHost, Exists
  <2> HIDE DEF verify, delete
  <2>5. b <= made
    BY <2>4, HostsAssumption DEF ModeInv, ProvenInv, HostsTypeOK, BindingId
  <2>6. \A c \in {verify, delete} : CallFollows(c, bindings, made) /\ ~Writing(c)
    BY <2>2, <2>5 DEF CallFollows, Writing
  <2> QED
    BY <2>3, <2>4, <2>6, CallModes
<1> QED
  BY <1>1, <1>2 DEF HostRequest

LEMMA DeleteWorkspaceModes ==
  ASSUME ProvenInv, ModeInv, DeleteWorkspace
  PROVE  ModeInv'
<1>1. /\ bindings' = [b \in BindingId |-> NoBinding] /\ workspace' = [workspace EXCEPT !.live = FALSE]
      /\ InTransaction = {} /\ UNCHANGED <<made, hostCall, drifted>>
  BY DEF DeleteWorkspace
<1>2. workspace'.live = FALSE /\ \A b \in BindingId : bindings'[b].status = "none"
  BY <1>1, NoBindingType DEF ProvenInv, HostsTypeOK
<1>3. \A s \in HostSlot : hostCall[s].pc # "commit" /\ ~Writing(hostCall[s])
  BY <1>1 DEF InTransaction, Writing
<1>4. \A s \in HostSlot : CallFollows(hostCall'[s], bindings', made')
  BY <1>1, <1>3 DEF CallFollows, ModeInv
<1> QED
  BY <1>1, <1>2, <1>3, <1>4 DEF ModeInv

LEMMA ModesUnchanged ==
  ASSUME ModeInv, UNCHANGED <<workspace, bindings, made, hostCall, drifted>>
  PROVE  ModeInv'
  BY DEF ModeInv

LEMMA InitModes ==
  ASSUME Init
  PROVE  ModeInv
<1>1. /\ workspace = [live |-> TRUE, hostMode |-> "shared"]
      /\ bindings = [b \in BindingId |-> NoBinding] /\ hostCall = [s \in HostSlot |-> NoCall]
  BY DEF Init, HostsInit
<1>2. ModeOf(bindings) = "shared"
  BY <1>1, NoBindingType DEF ModeOf, ActiveIn
<1>3. \A s \in HostSlot : CallFollows(hostCall[s], bindings, made) /\ ~Writing(hostCall[s])
  BY <1>1, NoCallFollows
<1> QED
  BY <1>1, <1>2, <1>3, NoBindingType DEF ModeInv

LEMMA NextModes ==
  ASSUME ProvenInv, ModeInv, [Next]_vars
  PROVE  ModeInv'
<1>1. CASE HostRequest
  BY <1>1, HostRequestModes
<1>2. CASE DeleteWorkspace
  BY <1>2, DeleteWorkspaceModes
<1>3. CASE \E s \in HostSlot : HostStatement(s)
  BY <1>3, HostStatementModes
<1>4. CASE ChangeDns \/ UNCHANGED hostVars
  BY <1>4, ModesUnchanged DEF ChangeDns, hostVars
<1> QED
  BY <1>1, <1>2, <1>3, <1>4 DEF Next, VariableRequest, vars

\* hostMode is the kind of the newest active binding after every transaction that
\* ran beside no other, whatever aborts, expires or overlapped before it, for any
\* number of bindings and requests (hosts.ts:26-33).
THEOREM ModeFollowsBindings == Spec => []HostModeFollows
<1>1. Init => ModeInv
  BY InitModes
<1>2. ProvenInv /\ ModeInv /\ [Next]_vars => ModeInv'
  BY NextModes
<1>3. ModeInv => HostModeFollows
  BY DEF ModeInv, HostModeFollows, ModeOf, ActiveIn
<1>4. Init => ProvenInv
  BY InitProven
<1>5. ProvenInv /\ [Next]_vars => ProvenInv'
  BY NextProven
<1> QED
  BY <1>1, <1>2, <1>3, <1>4, <1>5, PTL DEF Spec
-----------------------------------------------------------------------------
(***************************************************************************)
(* The rows with keys.                                                     *)
(*                                                                         *)
(* Value, flag and version of a row are written together, from a row that  *)
(* was read before.  A write goes through where the version is still the   *)
(* one that was read; within one life of a row a version is written once,  *)
(* so what was read is what is there, and what is kept is what is stored.  *)
(***************************************************************************)

AnyValue == Text \cup {"", "null", "absent"}
AnyKey == Key \cup {NoKey}
AnyRow == [key : AnyKey, value : AnyValue, sealed : BOOLEAN, secret : BOOLEAN, version : Nat]
AnyBody == [key : AnyKey, value : AnyValue, secret : {"yes", "no", "absent"}]
VarPc == {"idle", "read", "check", "lookup", "write", "find", "delete"}
VarOp == {"none", "push", "drop", "put", "delete"}
VarCallType ==
  [pc : VarPc, op : VarOp, id : VarId \cup {0}, base : Int, body : AnyBody, cur : AnyRow,
   life : Nat]

VarTypeOK ==
  /\ scope \in Scope
  /\ stored \in [VarId -> AnyRow] /\ lives \in [VarId -> Nat]
  /\ varCall \in [VarSlot -> VarCallType]

\* A secret is ciphertext or nothing, a plain value is plain.
SealedRow(row) == IF row.secret THEN row.sealed \/ row.value = "null" ELSE ~row.sealed

\* In some tables no row is a secret, and no body says so.
RowOK(row) == SealedRow(row) /\ (scope = "collection_variable" => ~row.secret)
BodyOK(b) ==
  /\ scope # "global_variable" => b.secret # "absent"
  /\ scope \in {"collection_variable", "collection_version"} => b.secret = "no"

\* A row is what it was, or a later version of it.
Later(old, new) == old.version < new.version \/ old = new

\* What a push has read, against what is there.
ReadOK(c) ==
  c.op = "push" /\ c.pc \in {"check", "write"} =>
    /\ c.life <= lives[c.id]
    /\ scope = "collection_version" => ~There(c.cur)
    /\ There(c.cur) /\ There(stored[c.id]) /\ c.life = lives[c.id] => Later(c.cur, stored[c.id])

VarCallOK(c) ==
  /\ RowOK(c.cur) /\ BodyOK(c.body)
  /\ c.pc \in {"read", "check", "write", "delete"} => c.id \in VarId
  /\ c.pc = "find" => scope = "environment_variable" \/ c.id \in VarId
  /\ c.pc = "lookup" => c.op = "put"
  /\ c.pc = "check" => c.op = "push"
  /\ c.pc = "write" => c.op \in {"push", "put"}
  /\ c.op = "put" => scope = "environment_variable"
  /\ ReadOK(c)

VarInv ==
  /\ VarTypeOK
  /\ \A i \in VarId : RowOK(stored[i])
  /\ \A p \in feed : ~p.sealed
  /\ \A s \in VarSlot : VarCallOK(varCall[s])
LEMMA NoRowTyped == NoRow \in AnyRow /\ RowOK(NoRow) /\ ~There(NoRow) /\ NoRow.version = 0
BY DEF NoRow, AnyRow, AnyKey, AnyValue, RowOK, SealedRow, There

LEMMA NoVarCallTyped ==
  /\ NoVarCall \in VarCallType /\ VarCallOK(NoVarCall)
  /\ NoVarCall.pc = "idle" /\ NoVarCall.cur = NoRow /\ NoVarCall.body = NoBody
<1>1. NoBody \in AnyBody /\ BodyOK(NoBody)
  BY DEF NoBody, AnyBody, AnyKey, AnyValue, BodyOK
<1>2. /\ NoVarCall \in VarCallType
      /\ NoVarCall.pc = "idle" /\ NoVarCall.op = "none"
      /\ NoVarCall.cur = NoRow /\ NoVarCall.body = NoBody
  BY <1>1, NoRowTyped DEF NoVarCall, VarCallType, VarPc, VarOp
<1> QED BY <1>1, <1>2, NoRowTyped DEF VarCallOK, ReadOK

LEMMA VarCallTyped ==
  ASSUME VarInv, NEW s \in VarSlot
  PROVE  /\ varCall[s] \in VarCallType /\ VarCallOK(varCall[s])
         /\ varCall[s].cur \in AnyRow /\ varCall[s].body \in AnyBody
         /\ varCall[s].id \in VarId \cup {0} /\ varCall[s].base \in Int
BY DEF VarInv, VarTypeOK, VarCallType

\* Rows of the workspace and calls stay in order where no row is written.
LEMMA VarCallStep ==
  ASSUME VarInv, NEW s \in VarSlot, NEW c \in VarCallType, VarCallOK(c), Stay,
         varCall' = [varCall EXCEPT ![s] = c]
  PROVE  VarInv'
<1>1. varCall' \in [VarSlot -> VarCallType]
  BY DEF VarInv, VarTypeOK
<1>2. \A t \in VarSlot : varCall'[t] = IF t = s THEN c ELSE varCall[t]
  BY DEF VarInv, VarTypeOK
<1>3. VarTypeOK'
  BY <1>1 DEF VarInv, VarTypeOK, Stay
<1>4. \A t \in VarSlot : VarCallOK(varCall'[t])
  BY <1>2 DEF VarInv
<1>5. \A t \in VarSlot : VarCallOK(varCall[t])'
  BY <1>4 DEF VarCallOK, RowOK, BodyOK, ReadOK, Stay
<1> QED BY <1>3, <1>5 DEF VarInv, RowOK, Stay

LEMMA RefuseVar == ASSUME VarInv, NEW s \in VarSlot, Refuse(s) PROVE VarInv'
BY VarCallStep, NoVarCallTyped DEF Refuse, End

\* Rows come and go: each is what it was, a later version, the first of a new
\* life, or gone.
RowStep(i) ==
  \/ stored'[i] = stored[i] /\ lives'[i] = lives[i]
  \/ stored'[i] = NoRow /\ lives'[i] = lives[i]
  \/ There(stored[i]) /\ Later(stored[i], stored'[i]) /\ lives'[i] = lives[i]
  \/ lives'[i] = lives[i] + 1

LEMMA ReadKept ==
  ASSUME VarInv, NEW s \in VarSlot, scope' = scope, varCall'[s] = varCall[s],
         stored' \in [VarId -> AnyRow], lives' \in [VarId -> Nat],
         \A i \in VarId : RowStep(i)
  PROVE  VarCallOK(varCall[s])'
<1> DEFINE c == varCall[s]
           i == varCall[s].id
<1> USE DEF c
<1>1. VarCallOK(c) /\ c \in VarCallType
  BY VarCallTyped
<1>2. ASSUME varCall[s].op = "push", varCall[s].pc \in {"check", "write"}
      PROVE  /\ c.life <= lives'[i]
             /\ scope = "collection_version" => ~There(c.cur)
             /\ There(c.cur) /\ There(stored'[i]) /\ c.life = lives'[i] => Later(c.cur, stored'[i])
  <2>1. i \in VarId /\ RowStep(i) /\ lives[i] \in Nat /\ lives'[i] \in Nat
    BY <1>1, <1>2 DEF VarCallOK, VarInv, VarTypeOK
  <2>2. /\ c.life <= lives[i]
        /\ scope = "collection_version" => ~There(c.cur)
        /\ There(c.cur) /\ There(stored[i]) /\ c.life = lives[i] => Later(c.cur, stored[i])
    BY <1>1, <1>2 DEF VarCallOK, ReadOK
  <2>3. c.life \in Nat /\ c.cur \in AnyRow
    BY <1>1 DEF VarCallType
  <2>4. c.cur.version \in Nat /\ stored[i].version \in Nat /\ stored'[i].version \in Nat
    BY <2>1, <2>3 DEF AnyRow, VarInv, VarTypeOK
  <2> HIDE DEF c, i
  <2>5. c.life <= lives'[i]
    BY <2>1, <2>2, <2>3 DEF RowStep
  <2>6. There(c.cur) /\ There(stored'[i]) /\ c.life = lives'[i] => Later(c.cur, stored'[i])
    <3>1. CASE stored'[i] = stored[i] /\ lives'[i] = lives[i]
      BY <2>2, <3>1
    <3>2. CASE stored'[i] = NoRow
      BY <3>2, NoRowTyped
    <3>3. CASE There(stored[i]) /\ Later(stored[i], stored'[i]) /\ lives'[i] = lives[i]
      BY <2>2, <2>4, <3>3 DEF Later
    <3>4. CASE lives'[i] = lives[i] + 1
      BY <2>1, <2>2, <2>3, <3>4
    <3> QED BY <2>1, <3>1, <3>2, <3>3, <3>4 DEF RowStep
  <2> QED BY <2>2, <2>5, <2>6
<1>3. /\ RowOK(c.cur) /\ BodyOK(c.body)
      /\ c.pc \in {"read", "check", "write", "delete"} => c.id \in VarId
      /\ c.pc = "find" => scope = "environment_variable" \/ c.id \in VarId
      /\ c.pc = "lookup" => c.op = "put"
      /\ c.pc = "check" => c.op = "push"
      /\ c.pc = "write" => c.op \in {"push", "put"}
      /\ c.op = "put" => scope = "environment_variable"
  BY <1>1 DEF VarCallOK
<1> HIDE DEF c, i
<1>4. varCall'[s] = c
  BY DEF c
<1> QED BY <1>2, <1>3, <1>4 DEF VarCallOK, RowOK, BodyOK, ReadOK, c, i
\* The calls of the others go on after a row was written or deleted.
LEMMA RowsChange ==
  ASSUME VarInv, scope' = scope, stored' \in [VarId -> AnyRow], lives' \in [VarId -> Nat],
         \A i \in VarId : RowOK(stored'[i]) /\ RowStep(i),
         \A p \in feed' : ~p.sealed,
         varCall' \in [VarSlot -> VarCallType],
         \A s \in VarSlot : varCall'[s] \in {varCall[s], NoVarCall}
  PROVE  VarInv'
<1>1. VarTypeOK'
  BY DEF VarInv, VarTypeOK
<1>2. ASSUME NEW s \in VarSlot PROVE VarCallOK(varCall[s])'
  <2>1. CASE varCall'[s] = varCall[s]
    BY <2>1, ReadKept
  <2>2. CASE varCall'[s] = NoVarCall
    <3>1. VarCallOK(NoVarCall) /\ NoVarCall.pc = "idle"
      BY NoVarCallTyped
    <3> QED BY <2>2, <3>1 DEF VarCallOK, RowOK, BodyOK, ReadOK
  <2> QED BY <2>1, <2>2
<1>3. \A i \in VarId : RowOK(stored[i])'
  BY DEF RowOK
<1> QED BY <1>1, <1>2, <1>3 DEF VarInv

\* What a write stores: the flag and the value belong together.
LEMMA NewRowSealed ==
  ASSUME VarInv, NEW s \in VarSlot, varCall[s].pc = "write"
  PROVE  NewRow(s) \in AnyRow /\ RowOK(NewRow(s)) /\ NewRow(s).version = varCall[s].cur.version + 1
<1> DEFINE c == varCall[s]
           b == varCall[s].body
           cur == varCall[s].cur
           secret == Secret(b, cur)
           v == IF c.op = "put" THEN RestValue(b) ELSE SyncValue(b, cur)
<1>1. c \in VarCallType /\ VarCallOK(c) /\ cur \in AnyRow /\ b \in AnyBody
  BY VarCallTyped
<1>2. /\ b.key \in AnyKey /\ b.value \in AnyValue /\ b.secret \in {"yes", "no", "absent"}
      /\ cur.value \in AnyValue /\ cur.secret \in BOOLEAN /\ cur.sealed \in BOOLEAN
      /\ cur.version \in Nat
  BY <1>1 DEF AnyBody, AnyRow
<1>3. /\ scope \in {"environment_variable", "collection_variable", "global_variable",
                    "collection_version"}
      /\ c.op \in {"push", "put"} /\ RowOK(cur) /\ BodyOK(b)
      /\ c.op = "put" => scope = "environment_variable"
  BY <1>1, VariablesAssumption DEF VarCallOK, VarInv, VarTypeOK
<1>4. NewRow(s) = [key |-> b.key, value |-> v.value, sealed |-> v.sealed, secret |-> secret,
                   version |-> cur.version + 1]
  BY DEF NewRow
<1>5. secret \in BOOLEAN
  BY <1>2 DEF Secret
<1> DEFINE Sound(val) ==
             /\ val.value \in AnyValue /\ val.sealed \in BOOLEAN
             /\ IF secret THEN val.sealed \/ val.value = "null" ELSE ~val.sealed
             /\ scope = "collection_variable" => ~secret
<1>6. ASSUME c.op = "put" PROVE Sound(v)
  <2>1. RestValue(b).value = b.value /\ RestValue(b).sealed = (b.secret = "yes")
    BY DEF RestValue
  <2>2. b.secret # "absent"
    BY <1>3, <1>6 DEF BodyOK
  <2>3. secret = (b.secret = "yes")
    BY <2>2 DEF Secret
  <2> QED BY <1>2, <1>3, <1>6, <2>1, <2>3
<1>7. ASSUME c.op # "put", scope = "environment_variable" PROVE Sound(v)
  <2>1. SyncValue(b, cur) = EnvironmentValue(b, cur)
    BY <1>7 DEF SyncValue
  <2>2. secret = (b.secret = "yes")
    BY <1>3, <1>7 DEF BodyOK, Secret
  <2>3. cur.secret => cur.sealed \/ cur.value = "null"
    BY <1>3 DEF RowOK, SealedRow
  <2>4. Sound(EnvironmentValue(b, cur))
    BY <1>2, <1>7, <2>2, <2>3 DEF EnvironmentValue, Kept, Plain, AnyValue
  <2> QED BY <1>7, <2>1, <2>4
<1>8. ASSUME c.op # "put", scope = "collection_variable" PROVE Sound(v)
  <2>1. SyncValue(b, cur) = CollectionValue(b, cur)
    BY <1>8 DEF SyncValue
  <2>2. ~secret /\ ~cur.sealed
    BY <1>3, <1>8 DEF BodyOK, Secret, RowOK, SealedRow
  <2>3. Sound(CollectionValue(b, cur))
    BY <1>2, <2>2 DEF CollectionValue, Kept, Plain, AnyValue
  <2> QED BY <1>8, <2>1, <2>3
<1>9. ASSUME c.op # "put", scope = "global_variable" PROVE Sound(v)
  <2>1. SyncValue(b, cur) = GlobalValue(b, cur)
    BY <1>9 DEF SyncValue
  <2>2. ~cur.secret => ~cur.sealed
    BY <1>3 DEF RowOK, SealedRow
  <2>3. Sound(GlobalValue(b, cur))
    BY <1>2, <1>9, <2>2 DEF GlobalValue, Kept, Plain, AnyValue
  <2> QED BY <1>9, <2>1, <2>3
<1>10. ASSUME c.op # "put", scope = "collection_version" PROVE Sound(v)
  <2>1. SyncValue(b, cur) = VersionValue(b)
    BY <1>10 DEF SyncValue
  <2>2. ~secret
    BY <1>3, <1>10 DEF BodyOK, Secret
  <2>3. Sound(VersionValue(b))
    BY <1>2, <1>10, <2>2 DEF VersionValue, Plain
  <2> QED BY <1>10, <2>1, <2>3
<1>11. Sound(v)
  BY <1>3, <1>6, <1>7, <1>8, <1>9, <1>10
<1> HIDE DEF v, secret
<1>12. cur.version + 1 \in Nat
  BY <1>2
<1>13. NewRow(s) \in AnyRow
  BY <1>2, <1>4, <1>5, <1>11, <1>12 DEF AnyRow
<1>14. RowOK(NewRow(s))
  BY <1>4, <1>11 DEF RowOK, SealedRow
<1> QED BY <1>4, <1>13, <1>14

LEMMA PayloadSealed == ASSUME NEW row, SealedRow(row) PROVE ~Payload(row).sealed
BY DEF SealedRow, Payload
-----------------------------------------------------------------------------
(* Requests and their statements *)

LEMMA BodyTyped ==
  ASSUME VarInv, NEW b \in Body PROVE b \in AnyBody /\ BodyOK(b)
<1>1. scope \in {"environment_variable", "collection_variable", "global_variable",
                 "collection_version"}
  BY VariablesAssumption DEF VarInv, VarTypeOK
<1>2. b.key \in Key /\ b.value \in AnyValue
  BY <1>1 DEF Body, AnyValue
<1>3. ASSUME scope = "environment_variable" PROVE BodyOK(b)
  <2>1. b.secret \in {"yes", "no"}
    BY <1>3 DEF Body
  <2> QED BY <1>3, <2>1 DEF BodyOK
<1>4. ASSUME scope = "global_variable" PROVE BodyOK(b)
  <2>1. b.secret \in {"yes", "no", "absent"}
    BY <1>4 DEF Body
  <2> QED BY <1>4, <2>1 DEF BodyOK
<1>5. ASSUME scope \in {"collection_variable", "collection_version"} PROVE BodyOK(b)
  <2>1. b.secret = "no"
    BY <1>5 DEF Body
  <2> QED BY <1>5, <2>1 DEF BodyOK
<1>6. b.secret \in {"yes", "no", "absent"}
  BY <1>1 DEF Body
<1>7. b = [key |-> b.key, value |-> b.value, secret |-> b.secret]
  BY DEF Body
<1>8. b \in AnyBody
  BY <1>2, <1>6, <1>7 DEF AnyBody, AnyKey
<1> QED BY <1>1, <1>3, <1>4, <1>5, <1>8

LEMMA BeginVarKeeps ==
  ASSUME VarInv, NEW s \in VarSlot, NEW c \in VarCallType, VarCallOK(c), BeginVar(s, c)
  PROVE  VarInv'
BY VarCallStep DEF BeginVar

LEMMA CallTypedVar ==
  ASSUME NEW pc \in VarPc, NEW op \in VarOp, NEW base \in Int
  PROVE  LET c == Call(pc, op, base) IN
         /\ c \in VarCallType /\ c.pc = pc /\ c.op = op
         /\ c.cur = NoRow /\ c.body = NoBody
<1>1. NoVarCall \in VarCallType /\ NoVarCall.cur = NoRow /\ NoVarCall.body = NoBody
  BY NoVarCallTyped
<1> QED BY <1>1 DEF Call, VarCallType

LEMMA BodyNone == BodyOK(NoBody) /\ NoBody \in AnyBody
BY DEF NoBody, BodyOK, AnyBody, AnyKey, AnyValue

LEMMA PushKeeps ==
  ASSUME VarInv, NEW s \in VarSlot, NEW i \in VarId, NEW b \in Body, NEW v \in Version,
         Push(s, i, b, v)
  PROVE  VarInv'
<1> DEFINE k == Call("read", "push", v)
           c == [k EXCEPT !.id = i, !.body = b]
<1>1. k \in VarCallType /\ k.pc = "read" /\ k.op = "push" /\ k.cur = NoRow
  BY CallTypedVar DEF VarPc, VarOp, Version
<1>2. b \in AnyBody /\ BodyOK(b)
  BY BodyTyped
<1>3. BeginVar(s, c)
  BY DEF Push
<1> HIDE DEF k
<1>4. /\ c \in VarCallType /\ c.pc = "read" /\ c.op = "push" /\ c.id = i
      /\ c.body = b /\ c.cur = NoRow
  BY <1>1, <1>2 DEF VarCallType
<1> HIDE DEF c
<1>5. VarCallOK(c)
  BY <1>2, <1>4, NoRowTyped DEF VarCallOK, ReadOK
<1> QED BY <1>3, <1>4, <1>5, BeginVarKeeps

LEMMA DropKeeps ==
  ASSUME VarInv, NEW s \in VarSlot, NEW i \in VarId, NEW v \in Version, Drop(s, i, v)
  PROVE  VarInv'
<1> DEFINE k == Call("read", "drop", v)
           c == [k EXCEPT !.id = i]
<1>1. k \in VarCallType /\ k.pc = "read" /\ k.op = "drop" /\ k.cur = NoRow /\ k.body = NoBody
  BY CallTypedVar DEF VarPc, VarOp, Version
<1>2. BeginVar(s, c)
  BY DEF Drop
<1> HIDE DEF k
<1>3. /\ c \in VarCallType /\ c.pc = "read" /\ c.op = "drop" /\ c.id = i
      /\ c.body = NoBody /\ c.cur = NoRow
  BY <1>1 DEF VarCallType
<1> HIDE DEF c
<1>4. VarCallOK(c)
  BY <1>3, NoRowTyped, BodyNone DEF VarCallOK, ReadOK
<1> QED BY <1>2, <1>3, <1>4, BeginVarKeeps

LEMMA PutKeeps ==
  ASSUME VarInv, NEW s \in VarSlot, NEW k \in Key, NEW t \in Text, NEW secret \in BOOLEAN,
         NEW v \in Version, Put(s, k, t, secret, v)
  PROVE  VarInv'
<1> DEFINE q == Call("lookup", "put", v)
           b == [key |-> k, value |-> t, secret |-> IF secret THEN "yes" ELSE "no"]
           c == [q EXCEPT !.body = b]
<1>1. q \in VarCallType /\ q.pc = "lookup" /\ q.op = "put" /\ q.cur = NoRow
  BY CallTypedVar DEF VarPc, VarOp, Version
<1>2. b \in AnyBody
  BY DEF AnyBody, AnyKey, AnyValue
<1>3. scope = "environment_variable" /\ BeginVar(s, c)
  BY DEF Put
<1>4. BodyOK(b)
  BY <1>3 DEF BodyOK
<1> HIDE DEF q, b
<1>5. c \in VarCallType /\ c.pc = "lookup" /\ c.op = "put" /\ c.body = b /\ c.cur = NoRow
  BY <1>1, <1>2 DEF VarCallType
<1> HIDE DEF c
<1>6. VarCallOK(c)
  BY <1>3, <1>4, <1>5, NoRowTyped DEF VarCallOK, ReadOK
<1> QED BY <1>3, <1>5, <1>6, BeginVarKeeps

LEMMA DeleteKeeps ==
  ASSUME VarInv, NEW s \in VarSlot, NEW k \in Key, NEW v \in Version, Delete(s, k, v)
  PROVE  VarInv'
<1> DEFINE q == Call("find", "delete", v)
           row == [NoRow EXCEPT !.key = k]
           c == [q EXCEPT !.cur = row]
<1>1. /\ q \in VarCallType /\ q.pc = "find" /\ q.op = "delete" /\ q.cur = NoRow
      /\ q.body = NoBody
  BY CallTypedVar DEF VarPc, VarOp, Version
<1>2. row \in AnyRow /\ RowOK(row)
  BY DEF NoRow, AnyRow, AnyKey, AnyValue, RowOK, SealedRow
<1>3. scope = "environment_variable" /\ BeginVar(s, [q EXCEPT !.cur.key = k])
  BY DEF Delete
<1>4. [q EXCEPT !.cur.key = k] = c
  BY <1>1
<1> HIDE DEF q, row
<1>5. c \in VarCallType /\ c.pc = "find" /\ c.op = "delete" /\ c.body = NoBody /\ c.cur = row
  BY <1>1, <1>2 DEF VarCallType
<1> HIDE DEF c
<1>6. VarCallOK(c)
  BY <1>2, <1>3, <1>5, BodyNone DEF VarCallOK, ReadOK
<1> QED BY <1>3, <1>4, <1>5, <1>6, BeginVarKeeps
LEMMA ReadRowKeeps == ASSUME VarInv, NEW s \in VarSlot, ReadRow(s) PROVE VarInv'
<1> DEFINE c == varCall[s]
           row == stored[c.id]
           pc == IF c.op = "push" THEN "check" ELSE "find"
           new == [c EXCEPT !.cur = row, !.life = lives[c.id], !.pc = pc]
<1>1. CASE Refuse(s)
  BY <1>1, RefuseVar
<1>2. CASE ~Refuse(s)
  <2>1. c \in VarCallType /\ VarCallOK(c) /\ c.pc = "read" /\ c.id \in VarId
    BY VarCallTyped DEF ReadRow, VarCallOK
  <2>2. row \in AnyRow /\ RowOK(row) /\ lives[c.id] \in Nat
    BY <2>1 DEF VarInv, VarTypeOK
  <2>3. /\ Stay
        /\ varCall' = [varCall EXCEPT ![s].cur = row, ![s].life = lives[c.id], ![s].pc = pc]
        /\ ~(Immutable(s) /\ There(row))
    BY <1>2 DEF ReadRow
  <2>4. varCall' = [varCall EXCEPT ![s] = new]
    BY <2>3 DEF VarInv, VarTypeOK
  <2>5. pc \in {"check", "find"} /\ (c.op = "push" <=> pc = "check")
    OBVIOUS
  <2>6. scope = "collection_version" /\ c.op = "push" => ~There(row)
    BY <2>3 DEF Immutable
  <2> HIDE DEF row, pc
  <2>7. /\ new \in VarCallType /\ new.pc = pc /\ new.cur = row /\ new.life = lives[c.id]
        /\ new.id = c.id /\ new.op = c.op /\ new.body = c.body
    BY <2>1, <2>2, <2>5 DEF VarCallType, VarPc
  <2> HIDE DEF new
  <2>8. ReadOK(new)
    BY <2>2, <2>6, <2>7 DEF ReadOK, Later, row
  <2>9. VarCallOK(new)
    BY <2>1, <2>2, <2>5, <2>7, <2>8 DEF VarCallOK
  <2> QED BY <2>3, <2>4, <2>7, <2>9, VarCallStep
<1> QED BY <1>1, <1>2

LEMMA CheckKeyKeeps == ASSUME VarInv, NEW s \in VarSlot, CheckKey(s) PROVE VarInv'
<1> DEFINE c == varCall[s]
           new == [c EXCEPT !.pc = "write"]
<1>1. CASE Refuse(s)
  BY <1>1, RefuseVar
<1>2. CASE Advance(s, "write")
  <2>1. c \in VarCallType /\ VarCallOK(c) /\ c.pc = "check"
    BY VarCallTyped DEF CheckKey
  <2>2. Stay /\ varCall' = [varCall EXCEPT ![s] = new]
    BY <1>2 DEF Advance
  <2>3. /\ new \in VarCallType /\ new.pc = "write" /\ new.cur = c.cur /\ new.life = c.life
        /\ new.id = c.id /\ new.op = c.op /\ new.body = c.body
    BY <2>1 DEF VarCallType, VarPc
  <2> HIDE DEF new
  <2>4. VarCallOK(new)
    BY <2>1, <2>3 DEF VarCallOK, ReadOK
  <2> QED BY <2>2, <2>3, <2>4, VarCallStep
<1> QED BY <1>1, <1>2 DEF CheckKey

LEMMA LookupKeyKeeps == ASSUME VarInv, NEW s \in VarSlot, LookupKey(s) PROVE VarInv'
<1> DEFINE c == varCall[s]
<1>1. CASE Refuse(s)
  BY <1>1, RefuseVar
<1>2. CASE ~Refuse(s)
  <2>1. c \in VarCallType /\ VarCallOK(c) /\ c.pc = "lookup" /\ c.op = "put"
    BY VarCallTyped DEF LookupKey, VarCallOK
  <2>2. Stay
    BY <1>2 DEF LookupKey
  <2>3. PICK i \in VarId :
          varCall' = [varCall EXCEPT ![s].pc = "write", ![s].id = i, ![s].cur = stored[i]]
    BY <1>2 DEF LookupKey
  <2> DEFINE new == [c EXCEPT !.pc = "write", !.id = i, !.cur = stored[i]]
  <2>4. varCall' = [varCall EXCEPT ![s] = new]
    BY <2>3 DEF VarInv, VarTypeOK
  <2>5. stored[i] \in AnyRow /\ RowOK(stored[i])
    BY DEF VarInv, VarTypeOK
  <2>6. /\ new \in VarCallType /\ new.pc = "write" /\ new.cur = stored[i]
        /\ new.id = i /\ new.op = c.op /\ new.body = c.body
    BY <2>1, <2>5 DEF VarCallType, VarPc
  <2> HIDE DEF new
  <2>7. VarCallOK(new)
    BY <2>1, <2>5, <2>6 DEF VarCallOK, ReadOK
  <2> QED BY <2>2, <2>4, <2>6, <2>7, VarCallStep
<1> QED BY <1>1, <1>2

\* A version is written once in the life of a row.
LEMMA WriteKeeps == ASSUME VarInv, NEW s \in VarSlot, Write(s) PROVE VarInv'
<1> DEFINE c == varCall[s]
           i == varCall[s].id
           row == NewRow(s)
<1>1. CASE Refuse(s)
  BY <1>1, RefuseVar
<1>2. CASE ~Refuse(s)
  <2>1. c \in VarCallType /\ VarCallOK(c) /\ c.pc = "write" /\ i \in VarId /\ c.cur \in AnyRow
    BY VarCallTyped DEF Write, VarCallOK
  <2>2. /\ Unchanged(s) /\ stored' = [stored EXCEPT ![i] = row]
        /\ lives' = IF There(stored[i]) THEN lives ELSE [lives EXCEPT ![i] = @ + 1]
        /\ feed' = feed \cup {Payload(row)} /\ End(s) /\ scope' = scope
    BY <1>2 DEF Write
  <2>3. row \in AnyRow /\ RowOK(row) /\ row.version = c.cur.version + 1
    BY <2>1, NewRowSealed
  <2>4. stored[i] \in AnyRow /\ lives[i] \in Nat /\ stored[i].version = c.cur.version
    BY <2>1, <2>2 DEF VarInv, VarTypeOK, Unchanged
  <2>5. stored[i].version \in Nat
    BY <2>4 DEF AnyRow
  <2> HIDE DEF row
  <2>6. /\ stored' \in [VarId -> AnyRow] /\ stored'[i] = row
        /\ \A j \in VarId \ {i} : stored'[j] = stored[j]
    BY <2>1, <2>2, <2>3 DEF VarInv, VarTypeOK
  <2>7. /\ lives' \in [VarId -> Nat]
        /\ lives'[i] = IF There(stored[i]) THEN lives[i] ELSE lives[i] + 1
        /\ \A j \in VarId \ {i} : lives'[j] = lives[j]
    BY <2>1, <2>2, <2>4 DEF VarInv, VarTypeOK
  <2>8. \A j \in VarId : RowOK(stored'[j]) /\ RowStep(j)
    <3>1. There(stored[i]) => Later(stored[i], row)
      BY <2>3, <2>4, <2>5 DEF Later
    <3>2. RowStep(i)
      BY <2>6, <2>7, <3>1 DEF RowStep
    <3>3. \A j \in VarId \ {i} : RowStep(j) /\ RowOK(stored'[j])
      BY <2>6, <2>7 DEF RowStep, VarInv
    <3> QED BY <2>3, <2>6, <3>2, <3>3
  <2>9. \A p \in feed' : ~p.sealed
    BY <2>2, <2>3, PayloadSealed DEF VarInv, RowOK
  <2>10. varCall' = [varCall EXCEPT ![s] = NoVarCall]
    BY <2>2 DEF End
  <2>11. /\ varCall' \in [VarSlot -> VarCallType]
         /\ \A t \in VarSlot : varCall'[t] \in {varCall[t], NoVarCall}
    BY <2>10, NoVarCallTyped DEF VarInv, VarTypeOK
  <2> QED BY <2>2, <2>6, <2>7, <2>8, <2>9, <2>11, RowsChange
<1> QED BY <1>1, <1>2

LEMMA FindRowKeeps == ASSUME VarInv, NEW s \in VarSlot, FindRow(s) PROVE VarInv'
<1> DEFINE c == varCall[s]
<1>1. CASE Refuse(s)
  BY <1>1, RefuseVar
<1>2. CASE ~Refuse(s)
  <2> DEFINE found == IF scope = "environment_variable" THEN Holders(c.cur.key)
                      ELSE {i \in {c.id} : There(stored[i])}
  <2>1. c \in VarCallType /\ VarCallOK(c) /\ c.pc = "find"
    BY VarCallTyped DEF FindRow
  <2>2. Stay /\ \E i \in found : varCall' = [varCall EXCEPT ![s].pc = "delete", ![s].id = i]
    BY <1>2 DEF FindRow
  <2>3. \A i \in found : i \in VarId
    BY <2>1 DEF Holders, VarCallOK
  <2>4. PICK i \in VarId : varCall' = [varCall EXCEPT ![s].pc = "delete", ![s].id = i]
    BY <2>2, <2>3
  <2> DEFINE new == [c EXCEPT !.pc = "delete", !.id = i]
  <2>5. varCall' = [varCall EXCEPT ![s] = new]
    BY <2>4 DEF VarInv, VarTypeOK
  <2>6. /\ new \in VarCallType /\ new.pc = "delete" /\ new.cur = c.cur
        /\ new.id = i /\ new.op = c.op /\ new.body = c.body
    BY <2>1 DEF VarCallType, VarPc
  <2> HIDE DEF new
  <2>7. VarCallOK(new)
    BY <2>1, <2>6 DEF VarCallOK, ReadOK
  <2> QED BY <2>2, <2>5, <2>6, <2>7, VarCallStep
<1> QED BY <1>1, <1>2

LEMMA DeleteVariableKeeps == ASSUME VarInv, NEW s \in VarSlot, DeleteVariable(s) PROVE VarInv'
<1> DEFINE i == varCall[s].id
<1>1. i \in VarId
  BY VarCallTyped DEF DeleteVariable, VarCallOK
<1>2. /\ stored' = [stored EXCEPT ![i] = NoRow] /\ lives' = lives /\ feed' = feed
      /\ scope' = scope /\ varCall' = [varCall EXCEPT ![s] = NoVarCall]
  BY DEF DeleteVariable, End
<1>3. stored' \in [VarId -> AnyRow] /\ lives' \in [VarId -> Nat]
  BY <1>2, NoRowTyped DEF VarInv, VarTypeOK
<1>4. \A j \in VarId : stored'[j] = stored[j] \/ stored'[j] = NoRow
  BY <1>1, <1>2 DEF VarInv, VarTypeOK
<1>5. \A j \in VarId : RowOK(stored'[j]) /\ RowStep(j)
  BY <1>2, <1>4, NoRowTyped DEF VarInv, RowStep
<1>6. /\ varCall' \in [VarSlot -> VarCallType]
      /\ \A t \in VarSlot : varCall'[t] \in {varCall[t], NoVarCall}
  BY <1>2, NoVarCallTyped DEF VarInv, VarTypeOK
<1>7. \A p \in feed' : ~p.sealed
  BY <1>2 DEF VarInv
<1> QED BY <1>2, <1>3, <1>5, <1>6, <1>7, RowsChange

\* Everything goes at once, with what it belongs to.
LEMMA AllGone ==
  ASSUME VarInv, stored' = [i \in VarId |-> NoRow], UNCHANGED <<scope, lives, feed, varCall>>
  PROVE  VarInv'
<1>1. stored' \in [VarId -> AnyRow] /\ \A i \in VarId : stored'[i] = NoRow
  BY NoRowTyped
<1>2. \A i \in VarId : RowOK(stored'[i]) /\ RowStep(i)
  BY <1>1, NoRowTyped DEF RowStep
<1>3. lives' \in [VarId -> Nat] /\ varCall' \in [VarSlot -> VarCallType]
  BY DEF VarInv, VarTypeOK
<1>4. \A p \in feed' : ~p.sealed
  BY DEF VarInv
<1> QED BY <1>1, <1>2, <1>3, <1>4, RowsChange

LEMMA VariableStatementKeeps ==
  ASSUME VarInv, NEW s \in VarSlot, VariableStatement(s) PROVE VarInv'
BY ReadRowKeeps, CheckKeyKeeps, LookupKeyKeeps, WriteKeeps, FindRowKeeps, DeleteVariableKeeps,
   RefuseVar DEF VariableStatement, AbortVariable

LEMMA VariableRequestKeeps == ASSUME VarInv, VariableRequest PROVE VarInv'
BY PushKeeps, DropKeeps, PutKeeps, DeleteKeeps, AllGone DEF VariableRequest, DeleteParent

LEMMA InitVar == Init => VarInv
<1> SUFFICES ASSUME Init PROVE VarInv
  OBVIOUS
<1>1. /\ scope \in Scope /\ stored = [i \in VarId |-> NoRow] /\ lives = [i \in VarId |-> 0]
      /\ feed = {} /\ varCall = [s \in VarSlot |-> NoVarCall]
  BY DEF Init, VariablesInit
<1>2. VarTypeOK
  BY <1>1, NoRowTyped, NoVarCallTyped DEF VarTypeOK
<1> QED BY <1>1, <1>2, NoRowTyped, NoVarCallTyped DEF VarInv

LEMMA VarUnchanged == ASSUME VarInv, UNCHANGED <<scope, stored, lives, feed, varCall>> PROVE VarInv'
BY DEF VarInv, VarTypeOK, VarCallOK, RowOK, BodyOK, ReadOK

LEMMA NextVar == VarInv /\ [Next]_vars => VarInv'
<1> SUFFICES ASSUME VarInv, [Next]_vars PROVE VarInv'
  OBVIOUS
<1>1. CASE HostRequest
  BY <1>1, VarUnchanged DEF HostRequest, varVars
<1>2. CASE VariableRequest
  BY <1>2, VariableRequestKeeps
<1>3. CASE DeleteWorkspace
  BY <1>3, AllGone DEF DeleteWorkspace
<1>4. ASSUME NEW s \in VarSlot, VariableStatement(s) PROVE VarInv'
  BY <1>4, VariableStatementKeeps
<1>5. CASE UNCHANGED varVars
  BY <1>5, VarUnchanged DEF varVars
<1> QED BY <1>1, <1>2, <1>3, <1>4, <1>5 DEF Next, vars

\* A value that was given as a secret is stored as ciphertext and told to nobody,
\* and a plain one does not outlive the change of its row to a secret, whichever
\* requests meet on a row (content.ts:531-534, 206).
THEOREM SecretsStaySealed == Spec => []SecretsAreSealed
<1>1. VarInv => SecretsAreSealed
  BY DEF VarInv, SecretsAreSealed, RowOK, SealedRow
<1> QED BY InitVar, NextVar, <1>1, PTL DEF Spec
-----------------------------------------------------------------------------
(* What a push leaves alone *)

\* The row that is written over is the row that was read.
LEMMA PushReads ==
  ASSUME VarInv, NEW s \in VarSlot, KeepsValue(varCall[s]), Unchanged(s)
  PROVE  varCall[s].cur = stored[varCall[s].id] /\ scope # "collection_version"
<1> DEFINE c == varCall[s]
           row == stored[c.id]
<1>1. /\ c.pc = "write" /\ c.op = "push" /\ There(row) /\ c.life = lives[c.id]
      /\ c.cur.version = row.version
  BY DEF KeepsValue, Unchanged
<1>2. c.id \in VarId /\ c.cur \in AnyRow /\ ReadOK(c)
  BY <1>1, VarCallTyped DEF VarCallOK
<1>3. c.cur.version \in Nat /\ There(c.cur)
  BY <1>1, <1>2 DEF AnyRow, There
<1>4. Later(c.cur, row) /\ scope # "collection_version"
  BY <1>1, <1>2, <1>3 DEF ReadOK
<1> QED BY <1>1, <1>3, <1>4 DEF Later

LEMMA WriteLeaves ==
  ASSUME VarInv, NEW s \in VarSlot, KeepsValue(varCall[s]), Write(s)
  PROVE  LET c == varCall[s] IN
         /\ stored'[c.id].value = stored[c.id].value
         /\ stored'[c.id].sealed = stored[c.id].sealed
<1> DEFINE c == varCall[s]
           row == stored[c.id]
<1>1. CASE stored' = stored
  BY <1>1
<1>2. CASE stored' # stored
  <2>1. Unchanged(s) /\ stored' = [stored EXCEPT ![c.id] = NewRow(s)]
    BY <1>2 DEF Write, Refuse, Stay
  <2>2. c.cur = row /\ scope # "collection_version"
    BY <2>1, PushReads
  <2>3. c.op = "push" /\ c.pc = "write" /\ There(row)
    BY DEF KeepsValue
  <2>4. c.id \in VarId
    BY <2>3, VarCallTyped DEF VarCallOK
  <2>5. stored'[c.id] = NewRow(s)
    BY <2>1, <2>4 DEF VarInv, VarTypeOK
  <2>6. /\ NewRow(s).value = SyncValue(c.body, row).value
        /\ NewRow(s).sealed = SyncValue(c.body, row).sealed
    BY <2>2, <2>3 DEF NewRow
  <2>7. SyncValue(c.body, row) = Kept(row)
    <3>1. scope \in {"environment_variable", "collection_variable", "global_variable"}
      BY <2>2, VariablesAssumption DEF VarInv, VarTypeOK
    <3>2. CASE scope = "environment_variable"
      BY <3>2 DEF KeepsValue, SyncValue, EnvironmentValue
    <3>3. CASE scope = "collection_variable"
      BY <2>3, <3>3 DEF KeepsValue, SyncValue, CollectionValue
    <3>4. CASE scope = "global_variable"
      <4>1. c.body.value = "absent" /\ c.body.secret # "yes" /\ ~row.secret
        BY <3>4 DEF KeepsValue
      <4>2. ~Secret(c.body, row)
        BY <4>1 DEF Secret
      <4> QED BY <2>3, <3>4, <4>1, <4>2 DEF SyncValue, GlobalValue
    <3> QED BY <3>1, <3>2, <3>3, <3>4
  <2> QED BY <2>5, <2>6, <2>7 DEF Kept
<1> QED BY <1>1, <1>2
LEMMA PushKeepsStep ==
  ASSUME VarInv, [Next]_vars, NEW s \in VarSlot, KeepsValue(varCall[s]),
         varCall'[s] # varCall[s]
  PROVE  LET c == varCall[s] IN
         /\ stored'[c.id].value = stored[c.id].value
         /\ stored'[c.id].sealed = stored[c.id].sealed
<1>1. CASE stored' = stored
  BY <1>1
<1>2. CASE stored' # stored
  <2>1. varCall' # varCall
    OBVIOUS
  <2>2. \E t \in VarSlot : VariableStatement(t)
    BY <1>2, <2>1 DEF Next, vars, varVars, HostRequest, VariableRequest, Push, Drop, Put, Delete,
                      BeginVar, Stay, DeleteParent, DeleteWorkspace
  <2>3. PICK t \in VarSlot : VariableStatement(t)
    BY <2>2
  <2>4. Write(t) \/ DeleteVariable(t)
    BY <1>2, <2>3 DEF VariableStatement, ReadRow, CheckKey, LookupKey, FindRow, AbortVariable,
                      Refuse, Advance, Stay
  <2>5. End(t)
    BY <1>2, <2>4 DEF Write, DeleteVariable, Refuse, Stay
  <2>6. t = s
    BY <2>5 DEF End, VarInv, VarTypeOK
  <2>7. varCall[s].pc = "write"
    BY DEF KeepsValue
  <2> QED BY <2>4, <2>6, <2>7, WriteLeaves DEF DeleteVariable
<1> QED BY <1>1, <1>2

\* A push that brings no value leaves the one that is stored when it writes, also
\* when a request to the REST API stored it after the push had read the row
\* (content.ts:554, 680): the update matches the version that was read.
THEOREM PushesKeepValues == Spec => PushKeepsValue
<1>1. VarInv /\ [Next]_vars =>
        [\A s \in VarSlot :
           LET c == varCall[s] IN
           KeepsValue(c) /\ varCall'[s] # c =>
             /\ stored'[c.id].value = stored[c.id].value
             /\ stored'[c.id].sealed = stored[c.id].sealed]_vars
  BY PushKeepsStep
<1> QED BY InitVar, NextVar, <1>1, PTL DEF Spec, PushKeepsValue
=============================================================================
