-------------------------- MODULE CloudScansProofs --------------------------
(***************************************************************************)
(* Theorems about CloudScans, CloudAccounts and Drift: for any finite set  *)
(* of accounts, any credentials, any findings and any number of cycles and *)
(* tests at a time.                                                        *)
(***************************************************************************)
EXTENDS CloudScans, FiniteSetTheorems, WellFoundedInduction, TLAPS

(***************************************************************************)
(* The comparison of two scans.                                            *)
(***************************************************************************)

\* A set of numbers has a smallest one.
LEMMA SmallestExists ==
  ASSUME NEW T \in SUBSET Nat, T # {}
  PROVE  \E x \in T : \A y \in T : x <= y
<1>1. PICK x \in T : \A y \in T : ~(<<y, x>> \in OpToRel(<, Nat))
  BY NatLessThanWellFounded, WFMin
<1>2. \A y \in T : ~(y < x)
  BY <1>1 DEF OpToRel
<1> QED BY <1>2

\* The map that is made of the findings has one of a check for each check that
\* has one: the last of them.
LEMMA LastExists ==
  ASSUME NEW s \in Seq(Finding), NEW id, Has(s, id)
  PROVE  \E i \in DOMAIN s : s[i].id = id /\ \A j \in DOMAIN s : s[j].id = id => j <= i
<1> DEFINE With == {i \in DOMAIN s : s[i].id = id}
           Back == {Len(s) - i : i \in With}
<1>1. Len(s) \in Nat /\ DOMAIN s = 1..Len(s)
  OBVIOUS
<1>2. Back \in SUBSET Nat /\ Back # {}
  BY <1>1 DEF Has
<1>3. PICK x \in Back : \A y \in Back : x <= y
  BY <1>2, SmallestExists
<1>4. PICK i \in With : x = Len(s) - i
  OBVIOUS
<1>5. \A j \in With : Len(s) - i <= Len(s) - j
  BY <1>3, <1>4
<1>6. \A j \in With : j <= i
  BY <1>5, <1>1
<1> QED BY <1>6

LEMMA OfIs ==
  ASSUME NEW s \in Seq(Finding), NEW id, Has(s, id)
  PROVE  Of(s, id) \in Finding /\ Of(s, id).id = id /\ Of(s, id) \in FindingsOf(s, id)
<1> DEFINE Final(i) == s[i].id = id /\ \A j \in DOMAIN s : s[j].id = id => j <= i
<1>1. PICK i \in DOMAIN s : Final(i) /\ Of(s, id) = s[i]
  <2>1. \E i \in DOMAIN s : Final(i)
    BY LastExists
  <2>2. Of(s, id) = s[CHOOSE i \in DOMAIN s : Final(i)]
    BY DEF Of
  <2> HIDE DEF Final
  <2> QED BY <2>1, <2>2
<1>2. s[i] \in Finding
  OBVIOUS
<1> QED BY <1>1, <1>2 DEF FindingsOf

\* Without the check there is no finding of it.
LEMMA HasIs ==
  ASSUME NEW s, NEW id
  PROVE  Has(s, id) <=> FindingsOf(s, id) # {}
BY DEF Has, FindingsOf

LEMMA StatusIs ==
  ASSUME NEW s \in Seq(Finding), NEW id
  PROVE  StatusOf(s, id) \in Status \cup {"none"}
BY OfIs DEF StatusOf, Finding

\* What the comparison finds are drifts.
LEMMA CompareTyped ==
  ASSUME NEW before \in Seq(Finding), NEW after \in Seq(Finding)
  PROVE  Compare(before, after) \in SUBSET DriftRecord
<1> SUFFICES ASSUME NEW id \in Checks, Differs(before, after, id)
             PROVE  /\ Of(IF Has(after, id) THEN after ELSE before, id).resource \in Resources
                    /\ StatusOf(before, id) \in Status \cup {"none"}
                    /\ StatusOf(after, id) \in Status \cup {"none"}
  BY DEF Compare, DriftRecord
<1>1. Has(before, id) \/ Has(after, id)
  BY DEF Differs
<1> QED BY <1>1, OfIs, StatusIs DEF Finding

\* compareWithBaseline tells each change of a check with one finding, and nothing
\* else of it, whatever the two lists of findings are.
THEOREM CompareTells ==
  ASSUME NEW before \in Seq(Finding), NEW after \in Seq(Finding)
  PROVE  Tells(Compare(before, after), before, after)
<1> SUFFICES ASSUME NEW id \in Checks,
                    OneFinding(FindingsOf(before, id), FindingsOf(after, id))
             PROVE  LET old == FindingsOf(before, id)
                        new == FindingsOf(after, id)
                        told == {d \in Compare(before, after) : d.id = id}
                        Was(findings) == IF findings = {} THEN {"none"}
                                         ELSE {f.status : f \in findings}
                    IN /\ old = new <=> told = {}
                       /\ \A d \in told : /\ {d.resource} = {f.resource : f \in old \cup new}
                                         /\ {d.before} = Was(old)
                                         /\ {d.after} = Was(new)
  BY DEF Tells
<1> DEFINE old == FindingsOf(before, id)
           new == FindingsOf(after, id)
           told == {d \in Compare(before, after) : d.id = id}
           drift == [id |-> id,
                     resource |-> Of(IF Has(after, id) THEN after ELSE before, id).resource,
                     before |-> StatusOf(before, id),
                     after |-> StatusOf(after, id)]
           Was(findings) == IF findings = {} THEN {"none"} ELSE {f.status : f \in findings}
<1>1. told = IF Differs(before, after, id) THEN {drift} ELSE {}
  BY DEF Compare
<1>2. old = (IF Has(before, id) THEN {Of(before, id)} ELSE {})
  <2>1. CASE Has(before, id)
    BY <2>1, OfIs DEF OneFinding
  <2>2. CASE ~Has(before, id)
    BY <2>2, HasIs
  <2> QED BY <2>1, <2>2
<1>3. new = (IF Has(after, id) THEN {Of(after, id)} ELSE {})
  <2>1. CASE Has(after, id)
    BY <2>1, OfIs DEF OneFinding
  <2>2. CASE ~Has(after, id)
    BY <2>2, HasIs
  <2> QED BY <2>1, <2>2
<1>4. {StatusOf(before, id)} = Was(old) /\ {StatusOf(after, id)} = Was(new)
  BY <1>2, <1>3 DEF StatusOf
<1>5. old = new <=> ~Differs(before, after, id)
  <2>1. CASE Has(before, id) /\ Has(after, id)
    <3>1. Of(before, id) \in Finding /\ Of(after, id) \in Finding
      BY <2>1, OfIs
    <3>2. Of(before, id).id = Of(after, id).id
      BY <2>1, OfIs
    <3>3. Of(before, id).resource = Of(after, id).resource
      BY <2>1, <1>2, <1>3 DEF OneFinding
    <3>4. Of(before, id) = Of(after, id) <=>
            /\ Of(before, id).status = Of(after, id).status
            /\ Of(before, id).severity = Of(after, id).severity
      BY <3>1, <3>2, <3>3 DEF Finding
    <3> QED BY <2>1, <3>4, <1>2, <1>3 DEF Differs
  <2>2. CASE ~(Has(before, id) /\ Has(after, id))
    BY <2>2, <1>2, <1>3 DEF Differs
  <2> QED BY <2>1, <2>2
<1>6. Differs(before, after, id) => {drift.resource} = {f.resource : f \in old \cup new}
  <2> SUFFICES ASSUME Differs(before, after, id)
               PROVE  {drift.resource} = {f.resource : f \in old \cup new}
    OBVIOUS
  <2>1. CASE Has(after, id)
    <3>1. \A f \in old \cup new : f.resource = Of(after, id).resource
      BY <2>1, <1>2, <1>3 DEF OneFinding
    <3> QED BY <3>1, <2>1, <1>3
  <2>2. CASE ~Has(after, id)
    <3>1. Has(before, id)
      BY <2>2 DEF Differs
    <3> QED BY <3>1, <2>2, <1>2, <1>3
  <2> QED BY <2>1, <2>2
<1>7. \A d \in told : /\ {d.resource} = {f.resource : f \in old \cup new}
                     /\ {d.before} = Was(old)
                     /\ {d.after} = Was(new)
  <2>1. ASSUME NEW d \in told
        PROVE  d = drift /\ Differs(before, after, id)
    <3> HIDE DEF told, drift
    <3> QED BY <1>1
  <2>2. drift.before = StatusOf(before, id) /\ drift.after = StatusOf(after, id)
    OBVIOUS
  <2> HIDE DEF told, drift, old, new, Was
  <2> QED BY <2>1, <2>2, <1>4, <1>6
<1> HIDE DEF drift
<1> QED BY <1>1, <1>5, <1>7

-----------------------------------------------------------------------------
(***************************************************************************)
(* The shapes of the state.                                                *)
(***************************************************************************)
CycleState ==
  [pc: {"wait", "prowler", "compare", "insert", "drifts", "health", "error"},
   todo: Seq(Job), job: Job \cup {None}, findings: Postures \cup {None}, left: SUBSET DriftRecord]

AccountsTyped ==
  /\ row \in [Accounts -> Row \cup {None}]
  /\ registered \in [Accounts -> 0..MaxIds]
  /\ test \in [Tests -> Job \cup {None}]
  /\ worked \in [Accounts -> SUBSET Credentials]

\* What a cycle has at each place.
CyclesTyped ==
  /\ cycles \in [Cycles -> CycleState]
  /\ \A c \in Cycles :
       /\ At(c, "wait") => cycles[c] = Waiting
       /\ ~At(c, "wait") => cycles[c].job \in Job
       /\ cycles[c].pc \in {"compare", "insert"} => cycles[c].findings \in Postures

ScansTyped ==
  /\ posture \in [Accounts -> Postures]
  /\ last \in [Accounts -> Scan \cup {None}]

TypeOK == AccountsTyped /\ CyclesTyped /\ ScansTyped

LEMMA TypeInit == Init => TypeOK
BY AccountsAssumption
   DEF Init, AccountInit, TypeOK, AccountsTyped, CyclesTyped, ScansTyped, CycleState, Waiting, At

\* What is read of a row is a job.
LEMMA JobOfTyped ==
  ASSUME AccountsTyped, NEW a \in Accounts, row[a] # None
  PROVE  JobOf(a) \in Job
BY DEF AccountsTyped, JobOf, Job, Row

\* A registered account is healthy or not: the types stay.
LEMMA SetHealthTyped ==
  ASSUME AccountsTyped, NEW checker, NEW job \in Job, NEW status \in {"healthy", "error"},
         SetHealth(checker, job, status)
  PROVE  /\ row' \in [Accounts -> Row \cup {None}]
         /\ worked' \in [Accounts -> SUBSET Credentials]
<1>1. job.account \in Accounts /\ job.credential \in Credentials
  BY DEF Job
<1>2. CASE ~Current(job)
  BY <1>2 DEF SetHealth, AccountsTyped
<1>3. CASE Current(job)
  <2>1. row[job.account] \in Row
    BY <1>1, <1>3 DEF Current, AccountsTyped
  <2>2. row' = [row EXCEPT ![job.account].status = status]
    BY <1>3 DEF SetHealth
  <2>3. [row[job.account] EXCEPT !.status = status] \in Row
    BY <2>1 DEF Row
  <2>4. row' \in [Accounts -> Row \cup {None}]
    BY <2>2, <2>3, <1>1 DEF AccountsTyped
  <2>5. worked' \in [Accounts -> SUBSET Credentials]
    BY <1>1, <1>3 DEF SetHealth, AccountsTyped
  <2> QED BY <2>4, <2>5
<1> QED BY <1>2, <1>3

\* Calls of the API keep the accounts' types.
LEMMA RegistrationTyped ==
  ASSUME TypeOK, NEW a \in Accounts, Registration(a)
  PROVE  AccountsTyped'
<1> USE DEF TypeOK, AccountsTyped
<1>1. CASE InsertCloudAccount(a)
  <2>1. PICK credential \in Credentials :
          row' = [row EXCEPT ![a] = [id |-> registered[a] + 1, enabled |-> TRUE,
                                     credential |-> credential, status |-> "unknown",
                                     due |-> TRUE]]
    BY <1>1 DEF InsertCloudAccount
  <2>2. registered[a] + 1 \in 1..MaxIds
    BY <1>1, AccountsAssumption DEF InsertCloudAccount
  <2>3. row' \in [Accounts -> Row \cup {None}]
    BY <2>1, <2>2 DEF Row
  <2>4. registered' \in [Accounts -> 0..MaxIds]
    BY <1>1, <2>2 DEF InsertCloudAccount
  <2> QED BY <1>1, <2>3, <2>4 DEF InsertCloudAccount
<1>2. CASE UpdateCloudAccount(a, InFlight(a))
  <2>1. row[a] \in Row
    BY <1>2 DEF UpdateCloudAccount
  <2>2. PICK enabled \in BOOLEAN, credential \in Credentials \cup {None} :
          row' = [row EXCEPT ![a].enabled = enabled,
                             ![a].credential = IF credential = None THEN @ ELSE credential]
    BY <1>2 DEF UpdateCloudAccount
  <2>3. row' \in [Accounts -> Row \cup {None}]
    BY <2>1, <2>2 DEF Row
  <2> QED BY <1>2, <2>3 DEF UpdateCloudAccount
<1>3. CASE DeleteCloudAccount(a)
  BY <1>3 DEF DeleteCloudAccount, accountHistory
<1> QED BY <1>1, <1>2, <1>3 DEF Registration

\* Tests keep them, and so does an account that comes due.
LEMMA TestingTyped ==
  ASSUME TypeOK, NEW t \in Tests, Testing(t)
  PROVE  AccountsTyped'
<1>1. CASE \E a \in Accounts : BeginTest(t, a)
  BY <1>1, JobOfTyped DEF BeginTest, accountHistory, TypeOK, AccountsTyped
<1>2. CASE EndTest(t)
  <2>1. PICK status \in {"healthy", "error"} : SetHealth(t, test[t], status)
    BY <1>2 DEF EndTest
  <2>2. test[t] \in Job
    BY <1>2 DEF EndTest, TypeOK, AccountsTyped
  <2> QED BY <1>2, <2>1, <2>2, SetHealthTyped DEF EndTest, TypeOK, AccountsTyped
<1>3. CASE TestDies(t)
  BY <1>3 DEF TestDies, TypeOK, AccountsTyped
<1> QED BY <1>1, <1>2, <1>3 DEF Testing

LEMMA DueTyped ==
  ASSUME TypeOK, NEW a \in Accounts, ComesDue(a)
  PROVE  AccountsTyped'
<1>1. row[a] \in Row
  BY DEF ComesDue, TypeOK, AccountsTyped
<1> QED BY <1>1 DEF ComesDue, accountHistory, TypeOK, AccountsTyped, Row

\* The jobs of a cycle are of due accounts, one of each.
LEMMA JobsTyped ==
  ASSUME TypeOK, NEW due \in SetToSeqs(Due)
  PROVE  /\ [i \in DOMAIN due |-> JobOf(due[i])] \in Seq(Job)
         /\ \A i \in DOMAIN due : due[i] \in Due
         /\ \A i, j \in DOMAIN due : i # j => due[i] # due[j]
<1>1. Cardinality(Due) \in Nat
  BY AccountsAssumption, FS_Subset, FS_CardinalityType DEF Due
<1>2. due \in [1..Cardinality(Due) -> Due] /\ \A i, j \in DOMAIN due : i # j => due[i] # due[j]
  BY DEF SetToSeqs
<1>3. \A a \in Due : JobOf(a) \in Job
  BY JobOfTyped DEF Due, TypeOK
<1>4. [i \in DOMAIN due |-> JobOf(due[i])] \in [1..Cardinality(Due) -> Job]
  BY <1>2, <1>3
<1> QED BY <1>1, <1>2, <1>4

\* The next job is begun with what such a cycle has.
LEMMA BeginTyped ==
  ASSUME CyclesTyped, NEW c \in Cycles, NEW jobs \in Seq(Job), Begin(c, jobs)
  PROVE  /\ CyclesTyped'
         /\ \A b \in Cycles : b # c => cycles'[b] = cycles[b]
         /\ jobs = <<>> => cycles'[c] = Waiting
         /\ jobs # <<>> => /\ cycles'[c].pc = "prowler"
                           /\ cycles'[c].job = Head(jobs)
                           /\ cycles'[c].todo = Tail(jobs)
<1>1. Waiting \in CycleState
  BY DEF Waiting, CycleState
<1>2. CASE jobs = <<>>
  <2>1. cycles' = [cycles EXCEPT ![c] = Waiting]
    BY <1>2 DEF Begin
  <2>2. cycles' \in [Cycles -> CycleState] /\ cycles'[c] = Waiting
    BY <1>1, <2>1 DEF CyclesTyped
  <2>3. \A b \in Cycles : b # c => cycles'[b] = cycles[b]
    BY <2>1 DEF CyclesTyped
  <2>4. Waiting.pc = "wait"
    BY DEF Waiting
  <2> QED BY <1>2, <2>2, <2>3, <2>4 DEF CyclesTyped, At
<1>3. CASE jobs # <<>>
  <2>1. Head(jobs) \in Job /\ Tail(jobs) \in Seq(Job)
    BY <1>3
  <2> DEFINE begun == [Waiting EXCEPT !.pc = "prowler", !.job = Head(jobs), !.todo = Tail(jobs)]
  <2>2. cycles' = [cycles EXCEPT ![c] = begun]
    BY <1>3 DEF Begin
  <2>3. /\ begun \in CycleState
        /\ begun.pc = "prowler"
        /\ begun.job = Head(jobs)
        /\ begun.todo = Tail(jobs)
    BY <2>1 DEF Waiting, CycleState
  <2> HIDE DEF begun
  <2>4. cycles' \in [Cycles -> CycleState] /\ cycles'[c] = begun
    BY <2>2, <2>3 DEF CyclesTyped
  <2>5. \A b \in Cycles : b # c => cycles'[b] = cycles[b]
    BY <2>2 DEF CyclesTyped
  <2> QED BY <1>3, <2>1, <2>3, <2>4, <2>5 DEF CyclesTyped, At
<1> QED BY <1>2, <1>3

\* A scan that is stored, and what is said of it later.
LEMMA StoreTyped ==
  ASSUME ScansTyped, NEW a \in Accounts, NEW findings \in Postures,
         NEW by \in Cycles \cup Outcomes, Store(a, findings, by)
  PROVE  last' \in [Accounts -> Scan \cup {None}]
<1> DEFINE scan == [findings |-> findings, drifts |-> {}, by |-> by,
                    before |-> IF last[a] = None THEN None ELSE last[a].findings]
<1>1. scan \in Scan
  BY DEF Scan, ScansTyped
<1> HIDE DEF scan
<1>2. last' = [last EXCEPT ![a] = scan]
  BY DEF Store, scan
<1> QED BY <1>1, <1>2 DEF ScansTyped

LEMMA EndScanTyped ==
  ASSUME ScansTyped, NEW c \in Cycles, NEW a \in Accounts, NEW by \in Outcomes
  PROVE  EndScan(c, a, by) \in [Accounts -> Scan \cup {None}]
<1>1. CASE Own(c, a)
  <2>1. last[a] \in Scan
    BY <1>1 DEF Own, ScansTyped
  <2>2. [last[a] EXCEPT !.by = by] \in Scan
    BY <2>1 DEF Scan
  <2>3. EndScan(c, a, by) = [last EXCEPT ![a] = [last[a] EXCEPT !.by = by]]
    BY <1>1 DEF EndScan
  <2> QED BY <2>2, <2>3 DEF ScansTyped
<1>2. CASE ~Own(c, a)
  BY <1>2 DEF EndScan, ScansTyped
<1> QED BY <1>1, <1>2

\* A cycle that moves on keeps the shapes.
LEMMA CycleTyped ==
  ASSUME TypeOK, NEW c \in Cycles, Cycle(c)
  PROVE  TypeOK'
<1>1. cycles[c] \in CycleState
  BY DEF TypeOK, CyclesTyped
<1>2. ASSUME ~At(c, "wait")
      PROVE  cycles[c].job \in Job /\ AccountOf(c) \in Accounts /\ cycles[c].todo \in Seq(Job)
  BY <1>1, <1>2 DEF TypeOK, CyclesTyped, CycleState, AccountOf, Job
<1>3. CASE StartCycle(c)
  <2>1. PICK due \in SetToSeqs(Due) : Begin(c, [i \in DOMAIN due |-> JobOf(due[i])])
    BY <1>3 DEF StartCycle
  <2>2. CyclesTyped'
    BY <2>1, JobsTyped, BeginTyped DEF TypeOK
  <2> QED BY <1>3, <2>2 DEF StartCycle, accountVars, accountHistory, TypeOK, AccountsTyped, ScansTyped
<1>4. CASE ProwlerFinds(c)
  <2>1. posture[AccountOf(c)] \in Postures
    BY <1>2, <1>4 DEF ProwlerFinds, At, TypeOK, ScansTyped
  <2>2. CyclesTyped'
    BY <1>4, <1>1, <2>1 DEF ProwlerFinds, TypeOK, CyclesTyped, CycleState, At
  <2> QED BY <1>4, <2>2 DEF ProwlerFinds, accountVars, accountHistory, TypeOK, AccountsTyped, ScansTyped
<1>5. CASE CompareWithLatest(c)
  <2> DEFINE stored == last[AccountOf(c)]
             left == IF stored = None THEN {} ELSE Compare(stored.findings, cycles[c].findings)
  <2>1. left \in SUBSET DriftRecord
    <3>1. cycles[c].findings \in Seq(Finding)
      BY <1>5, ScansAssumption DEF CompareWithLatest, At, TypeOK, CyclesTyped
    <3>2. stored # None => stored.findings \in Seq(Finding)
      BY <1>2, <1>5, ScansAssumption DEF CompareWithLatest, At, TypeOK, ScansTyped, Scan
    <3> QED BY <3>1, <3>2, CompareTyped
  <2>2. At(c, "compare") /\ cycles' = [cycles EXCEPT ![c].pc = "insert", ![c].left = left]
    BY <1>5 DEF CompareWithLatest
  <2> HIDE DEF left
  <2>3. CyclesTyped'
    BY <1>1, <2>1, <2>2 DEF TypeOK, CyclesTyped, CycleState, At
  <2> QED BY <1>5, <2>3
          DEF CompareWithLatest, accountVars, accountHistory, TypeOK, AccountsTyped, ScansTyped
<1>6. CASE InsertScan(c)
  <2>1. cycles[c].findings \in Postures
    BY <1>6 DEF InsertScan, At, TypeOK, CyclesTyped
  <2>2. last' \in [Accounts -> Scan \cup {None}]
    BY <1>2, <1>6, <2>1, StoreTyped DEF InsertScan, At, TypeOK
  <2>3. CyclesTyped'
    BY <1>6, <1>1 DEF InsertScan, TypeOK, CyclesTyped, CycleState, At
  <2> QED BY <1>6, <2>2, <2>3 DEF InsertScan, accountVars, accountHistory, TypeOK, AccountsTyped, ScansTyped
<1>7. CASE InsertDrift(c)
  <2>1. PICK drift \in cycles[c].left :
          /\ last' = IF Own(c, AccountOf(c)) THEN [last EXCEPT ![AccountOf(c)].drifts = @ \cup {drift}]
                     ELSE last
          /\ cycles' = [cycles EXCEPT ![c].left = @ \ {drift}]
    BY <1>7 DEF InsertDrift
  <2>2. drift \in DriftRecord
    BY <1>1 DEF CycleState
  <2>3. last' \in [Accounts -> Scan \cup {None}]
    <3>1. CASE Own(c, AccountOf(c))
      <4>1. last[AccountOf(c)] \in Scan
        BY <1>2, <1>7, <3>1 DEF InsertDrift, At, Own, TypeOK, ScansTyped
      <4>2. [last[AccountOf(c)] EXCEPT !.drifts = @ \cup {drift}] \in Scan
        BY <4>1, <2>2 DEF Scan
      <4> QED BY <3>1, <2>1, <4>2 DEF TypeOK, ScansTyped
    <3>2. CASE ~Own(c, AccountOf(c))
      BY <3>2, <2>1 DEF TypeOK, ScansTyped
    <3> QED BY <3>1, <3>2
  <2>4. CyclesTyped'
    BY <1>7, <1>1, <2>1 DEF InsertDrift, TypeOK, CyclesTyped, CycleState, At, Waiting
  <2> QED BY <1>7, <2>3, <2>4 DEF InsertDrift, accountVars, accountHistory, TypeOK, AccountsTyped, ScansTyped
<1>8. CASE Touch(c)
  <2>1. /\ AccountOf(c) = cycles[c].job.account
        /\ AccountOf(c) \in Accounts
        /\ cycles[c].job \in Job
    BY <1>2, <1>8 DEF Touch, At, AccountOf
  <2>2. last' \in [Accounts -> Scan \cup {None}]
    BY <1>8, <2>1, EndScanTyped DEF Touch, TypeOK, Outcomes
  <2>3. row' \in [Accounts -> Row \cup {None}]
    <3>1. CASE Current(cycles[c].job)
      <4>1. row[AccountOf(c)] \in Row
        BY <2>1, <3>1 DEF Current, TypeOK, AccountsTyped
      <4>2. row' = [row EXCEPT ![AccountOf(c)].due = FALSE]
        BY <1>8, <3>1, <2>1 DEF Touch, TouchRow
      <4> QED BY <4>1, <4>2, <2>1 DEF TypeOK, AccountsTyped, Row
    <3>2. CASE ~Current(cycles[c].job)
      BY <1>8, <3>2 DEF Touch, TouchRow, TypeOK, AccountsTyped
    <3> QED BY <3>1, <3>2
  <2>4. CyclesTyped'
    BY <1>8, <1>1 DEF Touch, Go, TypeOK, CyclesTyped, CycleState, At
  <2> QED BY <1>8, <2>2, <2>3, <2>4 DEF Touch, TypeOK, AccountsTyped, ScansTyped
<1>9. CASE NoteHealthy(c)
  <2>1. cycles[c].job \in Job /\ cycles[c].todo \in Seq(Job)
    BY <1>2, <1>9 DEF NoteHealthy, At
  <2>2. /\ row' \in [Accounts -> Row \cup {None}]
        /\ worked' \in [Accounts -> SUBSET Credentials]
    BY <1>9, <2>1, SetHealthTyped DEF NoteHealthy, TypeOK
  <2>3. CyclesTyped'
    BY <1>9, <2>1, BeginTyped DEF NoteHealthy, TypeOK
  <2> QED BY <1>9, <2>2, <2>3 DEF NoteHealthy, TypeOK, AccountsTyped, ScansTyped
<1>10. CASE ScanFails(c)
  <2>1. AccountOf(c) \in Accounts
    BY <1>2, <1>10 DEF ScanFails, At
  <2>2. last' \in [Accounts -> Scan \cup {None}]
    BY <1>10, <2>1, EndScanTyped DEF ScanFails, TypeOK, Outcomes
  <2>3. CyclesTyped'
    BY <1>10, <1>1 DEF ScanFails, TypeOK, CyclesTyped, CycleState, At
  <2> QED BY <1>10, <2>2, <2>3 DEF ScanFails, accountVars, accountHistory, TypeOK, AccountsTyped, ScansTyped
<1>11. CASE NoteError(c)
  <2>1. cycles[c].job \in Job /\ cycles[c].todo \in Seq(Job)
    BY <1>2, <1>11 DEF NoteError, At
  <2>2. /\ row' \in [Accounts -> Row \cup {None}]
        /\ worked' \in [Accounts -> SUBSET Credentials]
    BY <1>11, <2>1, SetHealthTyped DEF NoteError, TypeOK, AccountsTyped
  <2>3. CyclesTyped'
    BY <1>11, <2>1, BeginTyped DEF NoteError, TypeOK
  <2> QED BY <1>11, <2>2, <2>3 DEF NoteError, TypeOK, AccountsTyped, ScansTyped
<1> QED BY <1>3, <1>4, <1>5, <1>6, <1>7, <1>8, <1>9, <1>10, <1>11 DEF Cycle

LEMMA WorkerDiesTyped ==
  ASSUME TypeOK, WorkerDies
  PROVE  TypeOK'
<1>1. \A a \in Accounts : last[a] \in Scan => [last[a] EXCEPT !.by = "lost"] \in Scan
  BY DEF Scan, Outcomes
<1>2. \A a \in Accounts : last'[a] \in Scan \cup {None}
  BY <1>1 DEF WorkerDies, Own, TypeOK, ScansTyped
<1>3. last' \in [Accounts -> Scan \cup {None}]
  BY <1>2 DEF WorkerDies
<1>4. CyclesTyped'
  BY DEF WorkerDies, CyclesTyped, CycleState, Waiting, At
<1> QED BY <1>3, <1>4 DEF WorkerDies, TypeOK, AccountsTyped, ScansTyped

LEMMA TypeStep == TypeOK /\ [Next]_vars => TypeOK'
<1> SUFFICES ASSUME TypeOK, [Next]_vars PROVE TypeOK'
  OBVIOUS
<1>1. ASSUME NEW a \in Accounts, Registration(a) PROVE TypeOK'
  BY <1>1, RegistrationTyped DEF Registration, scanVars, TypeOK, CyclesTyped, ScansTyped, At
<1>2. ASSUME NEW a \in Accounts, GoesStale(a) PROVE TypeOK'
  BY <1>2, DueTyped DEF GoesStale, scanVars, TypeOK, CyclesTyped, ScansTyped, At
<1>3. ASSUME NEW a \in Accounts, Post(a) PROVE TypeOK'
  <2>1. last' \in [Accounts -> Scan \cup {None}]
    BY <1>3, StoreTyped DEF Post, TypeOK, Outcomes
  <2> QED BY <1>3, <2>1
          DEF Post, accountVars, accountHistory, TypeOK, AccountsTyped, CyclesTyped, ScansTyped, At
<1>4. ASSUME NEW a \in Accounts, PostureChanges(a) PROVE TypeOK'
  BY <1>4 DEF PostureChanges, accountVars, accountHistory, TypeOK, AccountsTyped, CyclesTyped, ScansTyped, At
<1>5. ASSUME NEW t \in Tests, Testing(t) PROVE TypeOK'
  BY <1>5, TestingTyped DEF Testing, scanVars, TypeOK, CyclesTyped, ScansTyped, At
<1>6. CASE \E c \in Cycles : Cycle(c)
  BY <1>6, CycleTyped
<1>7. CASE WorkerDies
  BY <1>7, WorkerDiesTyped
<1>8. CASE UNCHANGED vars
  BY <1>8 DEF vars, accountVars, accountHistory, scanVars, TypeOK, AccountsTyped, CyclesTyped, ScansTyped, At
<1> QED BY <1>1, <1>2, <1>3, <1>4, <1>5, <1>6, <1>7, <1>8 DEF Next

\* Rows, tests, scans and cycles keep their shapes, and a cycle at work has a job.
THEOREM ScansTypeCorrect == Spec => []TypeOK
BY TypeInit, TypeStep, PTL DEF Spec

-----------------------------------------------------------------------------
(***************************************************************************)
(* Health. Who has read a credential writes what came of it when the row   *)
(* may have another one, or be another row. Its job is of a row that has   *)
(* been registered by then. If the row is still there, and its credential  *)
(* was not replaced meanwhile, it is the one that was checked: for this a  *)
(* cycle must not have two jobs of one account, as it is noted only once   *)
(* that a credential was replaced.                                         *)
(***************************************************************************)
HasJob(checker, job) ==
  \/ checker \in Tests /\ job = test[checker]
  \/ /\ checker \in Cycles
     /\ ~At(checker, "wait")
     /\ \/ job = cycles[checker].job
        \/ \E i \in DOMAIN cycles[checker].todo : job = cycles[checker].todo[i]

Holds(checker, job) ==
  /\ job.id <= registered[job.account]
  /\ Current(job) /\ <<checker, job.account>> \notin stale =>
       job.credential = row[job.account].credential

IdsInv == \A a \in Accounts : row[a] # None => row[a].id <= registered[a]

JobsInv ==
  \A checker \in Tests \cup Cycles, job \in Job : HasJob(checker, job) => Holds(checker, job)

OncePerCycle ==
  \A c \in Cycles : ~At(c, "wait") =>
    LET todo == cycles[c].todo
    IN /\ \A i \in DOMAIN todo : todo[i].account # AccountOf(c)
       /\ \A i, j \in DOMAIN todo : i # j => todo[i].account # todo[j].account

HealthInv == IdsInv /\ JobsInv /\ OncePerCycle /\ HealthyMeansWorked

LEMMA HealthInit == Init => HealthInv
BY AccountsAssumption
   DEF Init, AccountInit, HealthInv, IdsInv, JobsInv, OncePerCycle, HealthyMeansWorked, HasJob, At, Waiting

\* A row may go, or stay with what a job has of it.
RowsStay ==
  /\ registered' = registered
  /\ \A a \in Accounts : row'[a] # None => /\ row[a] # None
                                           /\ row'[a].id = row[a].id
                                           /\ row'[a].credential = row[a].credential

LEMMA RowsUnchanged == UNCHANGED <<row, registered>> => RowsStay
BY DEF RowsStay

LEMMA IdsKept == IdsInv /\ RowsStay => IdsInv'
BY DEF IdsInv, RowsStay

\* As long as rows stay, and nobody forgets that a credential was replaced, a
\* job goes on to hold.
LEMMA HoldsKept ==
  ASSUME RowsStay, NEW checker, NEW job \in Job, Holds(checker, job),
         <<checker, job.account>> \in stale => <<checker, job.account>> \in stale'
  PROVE  Holds(checker, job)'
<1>1. job.account \in Accounts
  BY DEF Job
<1> QED BY <1>1 DEF Holds, RowsStay, Current

\* What was just read of a row holds.
LEMMA FreshHolds ==
  ASSUME IdsInv, NEW a \in Accounts, row[a] # None, NEW checker, NEW job, job = JobOf(a),
         UNCHANGED <<row, registered>>
  PROVE  Holds(checker, job)'
BY DEF IdsInv, Holds, JobOf, Current

\* Nothing changes that the health of an account depends on.
LEMMA HealthyKept ==
  ASSUME HealthyMeansWorked, UNCHANGED <<worked, doubted>>,
         \A a \in Accounts : row'[a] # None => /\ row[a] # None
                                               /\ row'[a].status = row[a].status
                                               /\ row'[a].credential = row[a].credential
  PROVE  HealthyMeansWorked'
BY DEF HealthyMeansWorked

\* The result of a check of a job that holds.
LEMMA SetHealthKeeps ==
  ASSUME AccountsTyped, HealthyMeansWorked, NEW checker, NEW job \in Job, Holds(checker, job),
         NEW status \in {"healthy", "error"}, SetHealth(checker, job, status),
         UNCHANGED registered
  PROVE  RowsStay /\ HealthyMeansWorked'
<1> DEFINE a == job.account
<1>1. a \in Accounts /\ job.credential \in Credentials
  BY DEF Job
<1>2. CASE ~Current(job)
  <2>1. UNCHANGED <<row, worked, doubted>>
    BY <1>2 DEF SetHealth
  <2> QED BY <2>1, HealthyKept DEF RowsStay
<1>3. CASE Current(job)
  <2>1. /\ row' = [row EXCEPT ![a].status = status]
        /\ worked' = IF status = "healthy" THEN [worked EXCEPT ![a] = @ \cup {job.credential}]
                     ELSE worked
        /\ doubted' = IF <<checker, a>> \in stale THEN doubted \cup {a} ELSE doubted \ {a}
    BY <1>3 DEF SetHealth
  <2>2. row[a] \in Row /\ row[a] # None
    BY <1>1, <1>3 DEF Current, AccountsTyped
  <2>3. /\ row'[a].id = row[a].id
        /\ row'[a].credential = row[a].credential
        /\ row'[a].status = status
    BY <1>1, <2>1, <2>2 DEF AccountsTyped, Row
  <2>4. \A b \in Accounts : b # a => /\ row'[b] = row[b]
                                     /\ worked'[b] = worked[b]
                                     /\ b \in doubted' <=> b \in doubted
    BY <1>1, <2>1 DEF AccountsTyped
  <2>5. RowsStay
    BY <2>2, <2>3, <2>4 DEF RowsStay
  <2>6. ASSUME a \notin doubted', status = "healthy"
        PROVE  row'[a].credential \in worked'[a]
    <3>1. <<checker, a>> \notin stale
      BY <2>1, <2>6
    <3>2. job.credential = row[a].credential
      BY <1>3, <3>1 DEF Holds
    <3>3. job.credential \in worked'[a]
      BY <1>1, <2>1, <2>6 DEF AccountsTyped
    <3> QED BY <2>3, <3>2, <3>3
  <2>7. HealthyMeansWorked'
    BY <2>3, <2>4, <2>6 DEF HealthyMeansWorked
  <2> QED BY <2>5, <2>7
<1> QED BY <1>2, <1>3

\* A new row has an id that no job has.
LEMMA InsertKeeps ==
  ASSUME AccountsTyped, NEW a \in Accounts, InsertCloudAccount(a), UNCHANGED cycles, HealthInv
  PROVE  HealthInv'
<1>1. PICK credential \in Credentials :
        row' = [row EXCEPT ![a] = [id |-> registered[a] + 1, enabled |-> TRUE,
                                   credential |-> credential, status |-> "unknown",
                                   due |-> TRUE]]
  BY DEF InsertCloudAccount
<1>2. /\ row'[a].id = registered[a] + 1
      /\ row'[a].status = "unknown"
      /\ registered' = [registered EXCEPT ![a] = @ + 1]
      /\ \A b \in Accounts : b # a => row'[b] = row[b]
  BY <1>1 DEF AccountsTyped, InsertCloudAccount
<1>3. IdsInv'
  BY <1>2 DEF IdsInv, HealthInv, AccountsTyped
<1>4. JobsInv'
  <2> SUFFICES ASSUME NEW checker \in Tests \cup Cycles, NEW job \in Job, HasJob(checker, job)'
               PROVE  Holds(checker, job)'
    BY DEF JobsInv
  <2>1. Holds(checker, job)
    BY DEF HealthInv, JobsInv, HasJob, InsertCloudAccount, At
  <2>2. job.account \in Accounts /\ job.id \in Nat
    BY AccountsAssumption DEF Job
  <2>3. CASE job.account = a
    <3>1. job.id <= registered[a] /\ registered[a] \in Nat
      BY <2>1, <2>3 DEF Holds, AccountsTyped
    <3>2. ~Current(job)' /\ job.id <= registered'[a]
      BY <1>2, <2>2, <2>3, <3>1 DEF Current, AccountsTyped
    <3> QED BY <2>3, <3>2 DEF Holds
  <2>4. CASE job.account # a
    <3>1. row'[job.account] = row[job.account] /\ registered'[job.account] = registered[job.account]
      BY <1>2, <2>2, <2>4 DEF AccountsTyped
    <3> QED BY <2>1, <3>1 DEF Holds, Current, InsertCloudAccount
  <2> QED BY <2>3, <2>4
<1>5. HealthyMeansWorked'
  <2>1. \A b \in Accounts : b # a => worked'[b] = worked[b] /\ (b \in doubted' <=> b \in doubted)
    BY DEF InsertCloudAccount, AccountsTyped
  <2> QED BY <1>2, <2>1 DEF HealthyMeansWorked, HealthInv
<1> QED BY <1>3, <1>4, <1>5 DEF HealthInv, OncePerCycle, At, AccountOf

\* A credential that is replaced makes the account doubted, and each job of it
\* stale.
LEMMA UpdateKeeps ==
  ASSUME TypeOK, NEW a \in Accounts, UpdateCloudAccount(a, InFlight(a)), UNCHANGED cycles, HealthInv
  PROVE  HealthInv'
<1> USE DEF TypeOK, AccountsTyped
<1>1. PICK enabled \in BOOLEAN, credential \in Credentials \cup {None} :
        /\ row' = [row EXCEPT ![a].enabled = enabled,
                              ![a].credential = IF credential = None THEN @ ELSE credential]
        /\ IF credential = None THEN UNCHANGED <<stale, doubted>>
           ELSE /\ stale' = stale \cup InFlight(a) \X {a}
                /\ doubted' = doubted \cup {a}
  BY DEF UpdateCloudAccount
<1>2. row[a] # None /\ row[a] \in Row /\ UNCHANGED <<registered, test, worked>>
  BY DEF UpdateCloudAccount
<1>3. /\ row'[a].id = row[a].id
      /\ row'[a].status = row[a].status
      /\ credential = None => row'[a].credential = row[a].credential
      /\ \A b \in Accounts : b # a => row'[b] = row[b]
  BY <1>1, <1>2 DEF Row
<1>4. IdsInv'
  BY <1>2, <1>3 DEF IdsInv, HealthInv
<1>5. JobsInv'
  <2> SUFFICES ASSUME NEW checker \in Tests \cup Cycles, NEW job \in Job, HasJob(checker, job)'
               PROVE  Holds(checker, job)'
    BY DEF JobsInv
  <2>1. HasJob(checker, job)
    BY <1>2 DEF HasJob, At
  <2>2. Holds(checker, job)
    BY <2>1 DEF HealthInv, JobsInv
  <2>3. job.account \in Accounts
    BY DEF Job
  <2>4. CASE job.account = a /\ credential # None
    <3>1. checker \in InFlight(a)
      <4>1. CASE checker \in Tests /\ job = test[checker]
        BY <4>1, <2>4, AccountsAssumption DEF InFlight
      <4>2. CASE /\ checker \in Cycles
                 /\ ~At(checker, "wait")
                 /\ \/ job = cycles[checker].job
                    \/ \E i \in DOMAIN cycles[checker].todo : job = cycles[checker].todo[i]
        <5>1. cycles[checker].job # None
          BY <4>2, AccountsAssumption DEF CyclesTyped
        <5> QED BY <4>2, <5>1, <2>4 DEF InFlight, AccountOf
      <4> QED BY <2>1, <4>1, <4>2 DEF HasJob
    <3>2. <<checker, job.account>> \in stale'
      BY <1>1, <2>4, <3>1
    <3> QED BY <2>2, <3>2, <1>2 DEF Holds
  <2>5. CASE job.account # a \/ credential = None
    BY <2>2, <2>3, <2>5, <1>1, <1>2, <1>3 DEF Holds, Current
  <2> QED BY <2>4, <2>5
<1>6. HealthyMeansWorked'
  BY <1>1, <1>2, <1>3 DEF HealthyMeansWorked, HealthInv
<1> QED BY <1>4, <1>5, <1>6 DEF HealthInv, OncePerCycle, At, AccountOf

\* Steps in which rows stay, nobody gets a job, and only those who end one
\* forget that a credential was replaced.
LEMMA JobsKept ==
  ASSUME JobsInv, RowsStay,
         \A checker \in Tests \cup Cycles, job \in Job :
           HasJob(checker, job)' =>
             /\ HasJob(checker, job)
             /\ <<checker, job.account>> \in stale => <<checker, job.account>> \in stale'
  PROVE  JobsInv'
BY HoldsKept DEF JobsInv

\* An account is deleted, or comes due.
LEMMA OtherRowsKeep ==
  ASSUME TypeOK, NEW a \in Accounts, DeleteCloudAccount(a) \/ ComesDue(a), UNCHANGED cycles, HealthInv
  PROVE  HealthInv'
<1>1. /\ UNCHANGED <<registered, test, worked, stale, doubted>>
      /\ \A b \in Accounts : row'[b] # None => /\ row[b] # None
                                               /\ row'[b].id = row[b].id
                                               /\ row'[b].status = row[b].status
                                               /\ row'[b].credential = row[b].credential
  <2>1. row[a] # None /\ row[a] \in Row
    BY DEF DeleteCloudAccount, ComesDue, TypeOK, AccountsTyped
  <2>2. CASE DeleteCloudAccount(a)
    BY <2>2 DEF DeleteCloudAccount, accountHistory, TypeOK, AccountsTyped
  <2>3. CASE ComesDue(a)
    BY <2>1, <2>3 DEF ComesDue, accountHistory, TypeOK, AccountsTyped, Row
  <2> QED BY <2>2, <2>3
<1>2. RowsStay
  BY <1>1 DEF RowsStay
<1>3. IdsInv' /\ HealthyMeansWorked'
  BY <1>1, <1>2, IdsKept, HealthyKept DEF HealthInv
<1>4. JobsInv'
  BY <1>1, <1>2, JobsKept DEF HealthInv, HasJob, At
<1> QED BY <1>3, <1>4 DEF HealthInv, OncePerCycle, At, AccountOf

\* Tests of connections.
LEMMA TestingKeeps ==
  ASSUME TypeOK, NEW t \in Tests, Testing(t), HealthInv
  PROVE  HealthInv'
<1> USE DEF TypeOK, AccountsTyped
<1>1. UNCHANGED cycles
  BY DEF Testing, scanVars
<1>2. ASSUME NEW a \in Accounts, BeginTest(t, a)
      PROVE  HealthInv'
  <2>1. /\ UNCHANGED <<row, registered, worked, stale, doubted>>
        /\ test' = [test EXCEPT ![t] = JobOf(a)]
        /\ row[a] # None
    BY <1>2 DEF BeginTest, accountHistory
  <2>2. RowsStay
    BY <2>1, RowsUnchanged
  <2>3. JobsInv'
    <3> SUFFICES ASSUME NEW checker \in Tests \cup Cycles, NEW job \in Job, HasJob(checker, job)'
                 PROVE  Holds(checker, job)'
      BY DEF JobsInv
    <3>1. CASE HasJob(checker, job)
      BY <2>1, <2>2, <3>1, HoldsKept DEF HealthInv, JobsInv
    <3>2. CASE ~HasJob(checker, job)
      <4>1. job = JobOf(a)
        BY <1>1, <2>1, <3>2 DEF HasJob, At
      <4> QED BY <2>1, <4>1, FreshHolds DEF HealthInv
    <3> QED BY <3>1, <3>2
  <2>4. IdsInv' /\ HealthyMeansWorked'
    BY <2>1, <2>2, IdsKept, HealthyKept DEF HealthInv
  <2> QED BY <1>1, <2>3, <2>4 DEF HealthInv, OncePerCycle, At, AccountOf
<1>3. ASSUME test[t] # None, test' = [test EXCEPT ![t] = None], stale' = stale \ ({t} \X Accounts),
             RowsStay, HealthyMeansWorked'
      PROVE  HealthInv'
  <2>1. ASSUME NEW checker \in Tests \cup Cycles, NEW job \in Job, HasJob(checker, job)'
        PROVE  HasJob(checker, job) /\ checker # t
    BY <1>1, <1>3, <2>1, AccountsAssumption DEF HasJob, At
  <2>2. JobsInv'
    <3>1. \A checker, a : checker # t /\ <<checker, a>> \in stale => <<checker, a>> \in stale'
      BY <1>3
    <3> QED BY <1>3, <2>1, <3>1, JobsKept DEF HealthInv
  <2>3. IdsInv'
    BY <1>3, IdsKept DEF HealthInv
  <2> QED BY <1>1, <1>3, <2>2, <2>3 DEF HealthInv, OncePerCycle, At, AccountOf
<1>4. CASE EndTest(t)
  <2>1. PICK status \in {"healthy", "error"} : SetHealth(t, test[t], status)
    BY <1>4 DEF EndTest
  <2>2. test[t] \in Job /\ test[t] # None /\ UNCHANGED registered
    BY <1>4 DEF EndTest
  <2>3. Holds(t, test[t])
    BY <2>2 DEF HealthInv, JobsInv, HasJob
  <2>4. RowsStay /\ HealthyMeansWorked'
    BY <2>1, <2>2, <2>3, SetHealthKeeps DEF HealthInv
  <2> QED BY <1>3, <1>4, <2>4 DEF EndTest
<1>5. CASE TestDies(t)
  <2>1. HealthyMeansWorked'
    BY <1>5, HealthyKept DEF TestDies, HealthInv
  <2> QED BY <1>3, <1>5, <2>1, RowsUnchanged DEF TestDies
<1> QED BY <1>2, <1>4, <1>5 DEF Testing

\* Of jobs of different accounts the first is of another one than the rest.
OneOfEach(jobs) == \A i, j \in DOMAIN jobs : i # j => jobs[i].account # jobs[j].account

LEMMA TailOnce ==
  ASSUME NEW jobs \in Seq(Job), jobs # <<>>, OneOfEach(jobs)
  PROVE  /\ \A i \in DOMAIN Tail(jobs) : Tail(jobs)[i].account # Head(jobs).account
         /\ \A i, j \in DOMAIN Tail(jobs) : i # j => Tail(jobs)[i].account # Tail(jobs)[j].account
<1>1. /\ Head(jobs) = jobs[1]
      /\ 1 \in DOMAIN jobs
      /\ \A i \in DOMAIN Tail(jobs) : /\ Tail(jobs)[i] = jobs[i + 1]
                                      /\ i + 1 \in DOMAIN jobs
                                      /\ i \in Nat /\ i # 0
  OBVIOUS
<1>2. \A i \in DOMAIN Tail(jobs) : i + 1 # 1
  BY <1>1
<1>3. \A i, j \in DOMAIN Tail(jobs) : i # j => i + 1 # j + 1
  BY <1>1
<1> QED BY <1>1, <1>2, <1>3 DEF OneOfEach

\* A cycle starts with jobs that are just read.
LEMMA StartKeeps ==
  ASSUME TypeOK, NEW c \in Cycles, StartCycle(c), HealthInv
  PROVE  HealthInv'
<1>1. PICK due \in SetToSeqs(Due) : Begin(c, [i \in DOMAIN due |-> JobOf(due[i])])
  BY DEF StartCycle
<1> DEFINE jobs == [i \in DOMAIN due |-> JobOf(due[i])]
<1>2. /\ jobs \in Seq(Job)
      /\ \A i \in DOMAIN jobs : due[i] \in Due /\ jobs[i] = JobOf(due[i]) /\ jobs[i].account = due[i]
      /\ \A i, j \in DOMAIN jobs : i # j => jobs[i].account # jobs[j].account
  BY JobsTyped DEF JobOf
<1> HIDE DEF jobs
<1>3. /\ \A b \in Cycles : b # c => cycles'[b] = cycles[b]
      /\ jobs = <<>> => cycles'[c] = Waiting
      /\ jobs # <<>> => /\ cycles'[c].pc = "prowler"
                        /\ cycles'[c].job = Head(jobs)
                        /\ cycles'[c].todo = Tail(jobs)
  BY <1>1, <1>2, BeginTyped DEF TypeOK, jobs
<1>4. UNCHANGED <<row, registered, test, worked, stale, doubted>>
  BY DEF StartCycle, accountVars, accountHistory
<1>5. RowsStay
  BY <1>4, RowsUnchanged
<1>6. ASSUME NEW job \in Job, HasJob(c, job)', ~HasJob(c, job)
      PROVE  \E i \in DOMAIN jobs : job = jobs[i]
  <2>1. jobs # <<>> /\ (job = Head(jobs) \/ \E i \in DOMAIN Tail(jobs) : job = Tail(jobs)[i])
    BY <1>3, <1>4, <1>6 DEF HasJob, At, Waiting
  <2> QED BY <1>2, <2>1
<1>7. JobsInv'
  <2> SUFFICES ASSUME NEW checker \in Tests \cup Cycles, NEW job \in Job, HasJob(checker, job)'
               PROVE  Holds(checker, job)'
    BY DEF JobsInv
  <2>1. CASE HasJob(checker, job)
    BY <1>4, <1>5, <2>1, HoldsKept DEF HealthInv, JobsInv
  <2>2. CASE ~HasJob(checker, job)
    <3>1. checker = c
      BY <1>3, <1>4, <2>2 DEF HasJob, At
    <3>2. PICK a \in Due : job = JobOf(a)
      BY <1>2, <1>6, <2>2, <3>1
    <3> QED BY <1>4, <3>2, FreshHolds DEF HealthInv, Due
  <2> QED BY <2>1, <2>2
<1>8. OncePerCycle'
  <2> SUFFICES ASSUME NEW b \in Cycles, ~At(b, "wait")'
               PROVE  LET todo == cycles'[b].todo
                      IN /\ \A i \in DOMAIN todo : todo[i].account # cycles'[b].job.account
                         /\ \A i, j \in DOMAIN todo : i # j => todo[i].account # todo[j].account
    BY DEF OncePerCycle, AccountOf
  <2>1. CASE b # c
    BY <1>3, <2>1 DEF HealthInv, OncePerCycle, At, AccountOf
  <2>2. CASE b = c
    <3>1. jobs # <<>>
      BY <1>3, <2>2 DEF At, Waiting
    <3>2. cycles'[b].todo = Tail(jobs) /\ cycles'[b].job = Head(jobs)
      BY <1>3, <2>2, <3>1
    <3>3. OneOfEach(jobs)
      BY <1>2 DEF OneOfEach
    <3> QED BY <1>2, <3>1, <3>2, <3>3, TailOnce
  <2> QED BY <2>1, <2>2
<1>9. IdsInv' /\ HealthyMeansWorked'
  BY <1>4, <1>5, IdsKept, HealthyKept DEF HealthInv
<1> QED BY <1>7, <1>8, <1>9 DEF HealthInv

\* It goes on with the next of its jobs, which is of another account.
LEMMA NextJobKeeps ==
  ASSUME TypeOK, NEW c \in Cycles, ~At(c, "wait"), Begin(c, cycles[c].todo), HealthInv,
         UNCHANGED test, stale' = stale \ {<<c, AccountOf(c)>>}, RowsStay, HealthyMeansWorked'
  PROVE  HealthInv'
<1> DEFINE todo == cycles[c].todo
<1>1. todo \in Seq(Job)
  BY DEF TypeOK, CyclesTyped, CycleState
<1> HIDE DEF todo
<1>2. /\ \A b \in Cycles : b # c => cycles'[b] = cycles[b]
      /\ todo = <<>> => cycles'[c] = Waiting
      /\ todo # <<>> => /\ cycles'[c].pc = "prowler"
                        /\ cycles'[c].job = Head(todo)
                        /\ cycles'[c].todo = Tail(todo)
  BY <1>1, BeginTyped DEF TypeOK, todo
<1>3. todo # <<>> => /\ Head(todo) = todo[1]
                     /\ DOMAIN Tail(todo) = 1..(Len(todo) - 1)
                     /\ \A i \in DOMAIN Tail(todo) : Tail(todo)[i] = todo[i + 1] /\ i + 1 \in DOMAIN todo
                     /\ 1 \in DOMAIN todo
  BY <1>1
<1>4. /\ \A i \in DOMAIN todo : todo[i].account # AccountOf(c)
      /\ \A i, j \in DOMAIN todo : i # j => todo[i].account # todo[j].account
  BY DEF HealthInv, OncePerCycle, todo
<1>5. ASSUME NEW job \in Job, HasJob(c, job)', c \notin Tests
      PROVE  \E i \in DOMAIN todo : job = todo[i]
  BY <1>2, <1>3, <1>5 DEF HasJob, At, Waiting
<1>6. ASSUME NEW checker \in Tests \cup Cycles, NEW job \in Job, HasJob(checker, job)'
      PROVE  /\ HasJob(checker, job)
             /\ <<checker, job.account>> \in stale => <<checker, job.account>> \in stale'
  <2>1. CASE checker = c
    <3>1. c \notin Tests
      BY AccountsAssumption
    <3>2. PICK i \in DOMAIN todo : job = todo[i]
      BY <1>5, <1>6, <2>1, <3>1
    <3> QED BY <1>4, <2>1, <3>2 DEF HasJob, todo
  <2>2. CASE checker # c
    BY <1>2, <1>6, <2>2 DEF HasJob, At
  <2> QED BY <2>1, <2>2
<1>7. JobsInv'
  BY <1>6, JobsKept DEF HealthInv
<1>8. OncePerCycle'
  <2> SUFFICES ASSUME NEW b \in Cycles, ~At(b, "wait")'
               PROVE  /\ \A i \in DOMAIN cycles'[b].todo :
                           cycles'[b].todo[i].account # cycles'[b].job.account
                      /\ \A i, j \in DOMAIN cycles'[b].todo :
                           i # j => cycles'[b].todo[i].account # cycles'[b].todo[j].account
    BY DEF OncePerCycle, AccountOf
  <2>1. CASE b # c
    BY <1>2, <2>1 DEF HealthInv, OncePerCycle, At, AccountOf
  <2>2. CASE b = c
    <3>1. todo # <<>>
      BY <1>2, <2>2 DEF At, Waiting
    <3>2. cycles'[b].todo = Tail(todo) /\ cycles'[b].job = Head(todo)
      BY <1>2, <2>2, <3>1
    <3>3. OneOfEach(todo)
      BY <1>4 DEF OneOfEach
    <3> QED BY <1>1, <3>1, <3>2, <3>3, TailOnce
  <2> QED BY <2>1, <2>2
<1> QED BY <1>7, <1>8, IdsKept DEF HealthInv

\* Between its first and its last step of an account a cycle keeps its jobs.
LEMMA MidwayKeeps ==
  ASSUME TypeOK, NEW c \in Cycles, NEW k \in CycleState, cycles' = [cycles EXCEPT ![c] = k],
         ~At(c, "wait"), k.pc # "wait", k.job = cycles[c].job, k.todo = cycles[c].todo,
         HealthInv, UNCHANGED <<test, stale>>, RowsStay, HealthyMeansWorked'
  PROVE  HealthInv'
<1>1. \A b \in Cycles : /\ At(b, "wait")' = At(b, "wait")
                        /\ cycles'[b].job = cycles[b].job
                        /\ cycles'[b].todo = cycles[b].todo
  BY DEF TypeOK, CyclesTyped, At
<1>2. \A checker \in Tests \cup Cycles, job \in Job : HasJob(checker, job)' => HasJob(checker, job)
  BY <1>1 DEF HasJob
<1>3. JobsInv'
  BY <1>2, JobsKept DEF HealthInv
<1>4. OncePerCycle'
  BY <1>1 DEF HealthInv, OncePerCycle, AccountOf
<1> QED BY <1>3, <1>4, IdsKept DEF HealthInv

LEMMA CycleKeepsHealth ==
  ASSUME TypeOK, NEW c \in Cycles, Cycle(c), HealthInv
  PROVE  HealthInv'
<1>1. cycles[c] \in CycleState
  BY DEF TypeOK, CyclesTyped
<1>2. UNCHANGED <<row, registered, worked, doubted>> => RowsStay /\ HealthyMeansWorked'
  BY RowsUnchanged, HealthyKept DEF HealthInv
<1>3. CASE StartCycle(c)
  BY <1>3, StartKeeps
<1>4. CASE ProwlerFinds(c)
  <2> DEFINE k == [cycles[c] EXCEPT !.pc = "compare", !.findings = posture[AccountOf(c)]]
  <2>1. ~At(c, "wait") /\ AccountOf(c) \in Accounts
    BY <1>4 DEF ProwlerFinds, At, TypeOK, CyclesTyped, AccountOf, Job
  <2>2. k \in CycleState /\ k.pc # "wait" /\ k.job = cycles[c].job /\ k.todo = cycles[c].todo
    BY <1>1, <2>1 DEF CycleState, TypeOK, ScansTyped
  <2>3. cycles' = [cycles EXCEPT ![c] = k]
    BY <1>4 DEF ProwlerFinds
  <2> HIDE DEF k
  <2> QED BY <1>2, <1>4, <2>1, <2>2, <2>3, MidwayKeeps DEF ProwlerFinds, accountVars, accountHistory
<1>5. CASE CompareWithLatest(c)
  <2> DEFINE left == cycles'[c].left
             k == [cycles[c] EXCEPT !.pc = "insert", !.left = left]
  <2>1. ~At(c, "wait")
    BY <1>5 DEF CompareWithLatest, At
  <2>2. cycles' = [cycles EXCEPT ![c] = k]
    BY <1>5, <1>1 DEF CompareWithLatest, TypeOK, CyclesTyped, CycleState
  <2>3. left \in SUBSET DriftRecord
    <3>1. CyclesTyped'
      BY <1>5, CycleTyped DEF Cycle, TypeOK
    <3> QED BY <3>1 DEF CyclesTyped, CycleState
  <2> HIDE DEF left
  <2>4. k \in CycleState /\ k.pc # "wait" /\ k.job = cycles[c].job /\ k.todo = cycles[c].todo
    BY <1>1, <2>3 DEF CycleState
  <2> HIDE DEF k
  <2> QED BY <1>2, <1>5, <2>1, <2>2, <2>4, MidwayKeeps DEF CompareWithLatest, accountVars, accountHistory
<1>6. CASE InsertScan(c)
  <2> DEFINE k == [cycles[c] EXCEPT !.pc = "drifts", !.findings = None]
  <2>1. k \in CycleState /\ k.pc # "wait" /\ k.job = cycles[c].job /\ k.todo = cycles[c].todo
    BY <1>1 DEF CycleState
  <2>2. cycles' = [cycles EXCEPT ![c] = k] /\ ~At(c, "wait")
    BY <1>6 DEF InsertScan, At
  <2> HIDE DEF k
  <2> QED BY <1>2, <1>6, <2>1, <2>2, MidwayKeeps DEF InsertScan, accountVars, accountHistory
<1>7. CASE InsertDrift(c)
  <2>1. PICK drift \in cycles[c].left : cycles' = [cycles EXCEPT ![c].left = @ \ {drift}]
    BY <1>7 DEF InsertDrift
  <2> DEFINE k == [cycles[c] EXCEPT !.left = @ \ {drift}]
  <2>2. k \in CycleState /\ k.pc # "wait" /\ k.job = cycles[c].job /\ k.todo = cycles[c].todo
    BY <1>1, <1>7 DEF CycleState, InsertDrift, At
  <2>3. cycles' = [cycles EXCEPT ![c] = k] /\ ~At(c, "wait")
    BY <2>1, <1>7 DEF InsertDrift, At
  <2> HIDE DEF k
  <2> QED BY <1>2, <1>7, <2>2, <2>3, MidwayKeeps DEF InsertDrift, accountVars, accountHistory
<1>8. CASE Touch(c)
  <2> DEFINE k == [cycles[c] EXCEPT !.pc = "health"]
             job == cycles[c].job
  <2>1. k \in CycleState /\ k.pc # "wait" /\ k.job = cycles[c].job /\ k.todo = cycles[c].todo
    BY <1>1 DEF CycleState
  <2>2. cycles' = [cycles EXCEPT ![c] = k] /\ ~At(c, "wait")
    BY <1>8 DEF Touch, Go, At
  <2> HIDE DEF k
  <2>3. job \in Job /\ job.account \in Accounts
    BY <1>8 DEF Touch, At, TypeOK, CyclesTyped, Job
  <2>4. \A a \in Accounts : row'[a] # None => /\ row[a] # None
                                              /\ row'[a].id = row[a].id
                                              /\ row'[a].status = row[a].status
                                              /\ row'[a].credential = row[a].credential
    <3>1. CASE Current(job)
      <4>1. row[job.account] # None /\ row[job.account] \in Row
        BY <2>3, <3>1 DEF Current, TypeOK, AccountsTyped
      <4>2. row' = [row EXCEPT ![job.account].due = FALSE]
        BY <1>8, <3>1 DEF Touch, TouchRow
      <4> QED BY <2>3, <4>1, <4>2 DEF TypeOK, AccountsTyped, Row
    <3>2. CASE ~Current(job)
      BY <1>8, <3>2 DEF Touch, TouchRow
    <3> QED BY <3>1, <3>2
  <2>5. RowsStay /\ HealthyMeansWorked'
    BY <1>8, <2>4, HealthyKept DEF Touch, RowsStay, HealthInv
  <2> QED BY <1>8, <2>1, <2>2, <2>5, MidwayKeeps DEF Touch
<1>9. ASSUME NoteHealthy(c) \/ NoteError(c)
      PROVE  HealthInv'
  <2>1. ~At(c, "wait") /\ cycles[c].job \in Job
    BY <1>9 DEF NoteHealthy, NoteError, At, TypeOK, CyclesTyped
  <2>2. Holds(c, cycles[c].job)
    BY <2>1 DEF HealthInv, JobsInv, HasJob
  <2>3. RowsStay /\ HealthyMeansWorked'
    <3>1. UNCHANGED registered
      BY <1>9 DEF NoteHealthy, NoteError
    <3>2. CASE SetHealth(c, cycles[c].job, "healthy") \/ SetHealth(c, cycles[c].job, "error")
      BY <2>1, <2>2, <3>1, <3>2, SetHealthKeeps DEF TypeOK, HealthInv
    <3>3. CASE UNCHANGED <<row, worked, doubted>>
      BY <1>2, <3>1, <3>3
    <3> QED BY <1>9, <3>2, <3>3 DEF NoteHealthy, NoteError
  <2> QED BY <1>9, <2>1, <2>3, NextJobKeeps DEF NoteHealthy, NoteError
<1>10. CASE ScanFails(c)
  <2> DEFINE k == [cycles[c] EXCEPT !.pc = "error", !.findings = None, !.left = {}]
  <2>1. k \in CycleState /\ k.pc # "wait" /\ k.job = cycles[c].job /\ k.todo = cycles[c].todo
    BY <1>1 DEF CycleState
  <2>2. cycles' = [cycles EXCEPT ![c] = k] /\ ~At(c, "wait")
    BY <1>10 DEF ScanFails, At
  <2> HIDE DEF k
  <2> QED BY <1>2, <1>10, <2>1, <2>2, MidwayKeeps DEF ScanFails, accountVars, accountHistory
<1> QED BY <1>3, <1>4, <1>5, <1>6, <1>7, <1>8, <1>9, <1>10 DEF Cycle

LEMMA HealthStep == TypeOK /\ HealthInv /\ [Next]_vars => HealthInv'
<1> SUFFICES ASSUME TypeOK, HealthInv, [Next]_vars PROVE HealthInv'
  OBVIOUS
<1>1. ASSUME NEW a \in Accounts, Registration(a) PROVE HealthInv'
  BY <1>1, InsertKeeps, UpdateKeeps, OtherRowsKeep DEF Registration, scanVars, TypeOK
<1>2. ASSUME NEW a \in Accounts, GoesStale(a) PROVE HealthInv'
  BY <1>2, OtherRowsKeep DEF GoesStale, scanVars
<1>3. ASSUME NEW t \in Tests, Testing(t) PROVE HealthInv'
  BY <1>3, TestingKeeps
<1>4. CASE \E c \in Cycles : Cycle(c)
  BY <1>4, CycleKeepsHealth
<1>5. CASE WorkerDies
  <2>1. UNCHANGED <<row, registered, test, worked, doubted>>
    BY <1>5 DEF WorkerDies
  <2>2. \A c \in Cycles : At(c, "wait")'
    BY <1>5 DEF WorkerDies, At, Waiting
  <2>3. ASSUME NEW checker \in Tests \cup Cycles, NEW job \in Job, HasJob(checker, job)'
        PROVE  /\ HasJob(checker, job)
               /\ <<checker, job.account>> \in stale => <<checker, job.account>> \in stale'
    BY <1>5, <2>1, <2>2, <2>3, AccountsAssumption DEF HasJob, WorkerDies
  <2>4. JobsInv'
    BY <2>1, <2>3, RowsUnchanged, JobsKept DEF HealthInv
  <2>5. OncePerCycle'
    BY <2>2 DEF OncePerCycle
  <2> QED BY <2>1, <2>4, <2>5, RowsUnchanged, IdsKept, HealthyKept DEF HealthInv
<1>6. CASE \/ \E a \in Accounts : Post(a) \/ PostureChanges(a)
           \/ UNCHANGED vars
  <2>1. UNCHANGED <<row, registered, test, worked, stale, doubted, cycles>>
    BY <1>6 DEF Post, PostureChanges, vars, accountVars, accountHistory, scanVars
  <2>2. JobsInv'
    BY <2>1, RowsUnchanged, JobsKept DEF HealthInv, HasJob, At
  <2> QED BY <2>1, <2>2, RowsUnchanged, IdsKept, HealthyKept
          DEF HealthInv, OncePerCycle, At, AccountOf
<1> QED BY <1>1, <1>2, <1>3, <1>4, <1>5, <1>6 DEF Next

\* An account is shown healthy only with a credential that worked for its row, or
\* one that was replaced while it was checked.
THEOREM HealthIsOfTheRow == Spec => []HealthyMeansWorked
<1>1. HealthInv => HealthyMeansWorked
  BY DEF HealthInv
<1> QED BY <1>1, ScansTypeCorrect, HealthInit, HealthStep, PTL DEF Spec

-----------------------------------------------------------------------------
(***************************************************************************)
(* Accounts that are put off. No more than the types is needed: a new row  *)
(* is due, and only the last step of a scan of the same row puts it off.   *)
(***************************************************************************)
LEMMA PutOffStep == TypeOK /\ PutOffWhenScanned /\ [Next]_vars => PutOffWhenScanned'
<1> SUFFICES ASSUME TypeOK, PutOffWhenScanned, [Next]_vars PROVE PutOffWhenScanned'
  OBVIOUS
<1> USE DEF TypeOK, AccountsTyped
<1>1. ASSUME UNCHANGED complete,
             \A a \in Accounts : row'[a] # None /\ ~row'[a].due => row[a] # None /\ ~row[a].due
      PROVE  PutOffWhenScanned'
  BY <1>1 DEF PutOffWhenScanned
<1>2. ASSUME NEW checker, NEW job \in Job, NEW status, SetHealth(checker, job, status)
      PROVE  \A a \in Accounts : row'[a] # None /\ ~row'[a].due => row[a] # None /\ ~row[a].due
  <2>1. CASE Current(job)
    <3>1. row[job.account] # None /\ row[job.account] \in Row /\ job.account \in Accounts
      BY <2>1 DEF Current, Job
    <3>2. row' = [row EXCEPT ![job.account].status = status]
      BY <1>2, <2>1 DEF SetHealth
    <3> QED BY <3>1, <3>2 DEF Row
  <2>2. CASE ~Current(job)
    BY <1>2, <2>2 DEF SetHealth
  <2> QED BY <2>1, <2>2
<1>3. ASSUME NEW a \in Accounts, InsertCloudAccount(a)
      PROVE  PutOffWhenScanned'
  <2>1. PICK credential \in Credentials :
          row' = [row EXCEPT ![a] = [id |-> registered[a] + 1, enabled |-> TRUE,
                                     credential |-> credential, status |-> "unknown",
                                     due |-> TRUE]]
    BY <1>3 DEF InsertCloudAccount
  <2> QED BY <1>3, <2>1 DEF InsertCloudAccount, PutOffWhenScanned
<1>4. ASSUME NEW a \in Accounts, UpdateCloudAccount(a, InFlight(a))
      PROVE  PutOffWhenScanned'
  <2>1. PICK enabled \in BOOLEAN, credential \in Credentials \cup {None} :
          row' = [row EXCEPT ![a].enabled = enabled,
                             ![a].credential = IF credential = None THEN @ ELSE credential]
    BY <1>4 DEF UpdateCloudAccount
  <2>2. row[a] # None /\ row[a] \in Row
    BY <1>4 DEF UpdateCloudAccount
  <2> QED BY <1>1, <1>4, <2>1, <2>2 DEF UpdateCloudAccount, Row
<1>5. ASSUME NEW a \in Accounts, Registration(a)
      PROVE  PutOffWhenScanned'
  BY <1>1, <1>3, <1>4, <1>5 DEF Registration, DeleteCloudAccount, accountHistory
<1>6. ASSUME NEW a \in Accounts, GoesStale(a)
      PROVE  PutOffWhenScanned'
  BY <1>1, <1>6 DEF GoesStale, ComesDue, accountHistory, Row
<1>7. ASSUME NEW t \in Tests, Testing(t)
      PROVE  PutOffWhenScanned'
  <2>1. CASE EndTest(t)
    BY <1>1, <1>2, <2>1 DEF EndTest
  <2>2. CASE ~EndTest(t)
    BY <1>1, <1>7, <2>2 DEF Testing, BeginTest, TestDies, accountHistory
  <2> QED BY <2>1, <2>2
<1>8. ASSUME NEW c \in Cycles, Touch(c)
      PROVE  PutOffWhenScanned'
  <2> DEFINE job == cycles[c].job
  <2>1. job \in Job /\ job.account \in Accounts
    BY <1>8 DEF Touch, At, CyclesTyped, Job
  <2>2. CASE Current(job)
    <3>1. row' = [row EXCEPT ![job.account].due = FALSE] /\ complete' = complete \cup {job.account}
      BY <1>8, <2>2 DEF Touch, TouchRow
    <3> QED BY <2>1, <3>1 DEF PutOffWhenScanned
  <2>3. CASE ~Current(job)
    BY <1>8, <2>3 DEF Touch, TouchRow, PutOffWhenScanned
  <2> QED BY <2>2, <2>3
<1>9. ASSUME NEW c \in Cycles, Cycle(c)
      PROVE  PutOffWhenScanned'
  <2>1. CASE NoteHealthy(c) \/ NoteError(c)
    <3>1. cycles[c].job \in Job
      BY <2>1 DEF NoteHealthy, NoteError, At, CyclesTyped
    <3> QED BY <1>1, <1>2, <2>1, <3>1 DEF NoteHealthy, NoteError
  <2>2. CASE StartCycle(c) \/ ProwlerFinds(c) \/ CompareWithLatest(c)
    BY <1>1, <2>2 DEF StartCycle, ProwlerFinds, CompareWithLatest, accountVars, accountHistory
  <2>3. CASE InsertScan(c) \/ InsertDrift(c) \/ ScanFails(c)
    BY <1>1, <2>3 DEF InsertScan, InsertDrift, ScanFails, accountVars, accountHistory
  <2> QED BY <1>8, <1>9, <2>1, <2>2, <2>3 DEF Cycle
<1>10. CASE \/ \E a \in Accounts : Post(a) \/ PostureChanges(a)
            \/ WorkerDies
            \/ UNCHANGED vars
  BY <1>1, <1>10 DEF Post, PostureChanges, WorkerDies, vars, accountVars, accountHistory
<1> QED BY <1>5, <1>6, <1>7, <1>9, <1>10 DEF Next

\* An account is put off only by a whole scan of its own row.
THEOREM PutOffByOwnScan == Spec => []PutOffWhenScanned
<1>1. Init => PutOffWhenScanned
  BY DEF Init, AccountInit, PutOffWhenScanned
<1> QED BY <1>1, PutOffStep, ScansTypeCorrect, PTL DEF Spec

-----------------------------------------------------------------------------
(***************************************************************************)
(* Drifts. What a cycle has to store is what it has found to differ from   *)
(* the last scan, as long as no other scan is stored in between. What it   *)
(* has stored, with what it has left, is the whole of it.                  *)
(***************************************************************************)
ToTell(stored, findings) ==
  IF stored = None THEN {} ELSE Compare(stored.findings, findings)

Compared(c) ==
  At(c, "insert") /\ c \notin overtaken =>
    cycles[c].left = ToTell(last[AccountOf(c)], cycles[c].findings)

Owned(c, a) ==
  Own(c, a) => /\ At(c, "drifts")
               /\ AccountOf(c) = a
               /\ c \notin overtaken /\ last[a].before # None =>
                    last[a].drifts \cup cycles[c].left = Compare(last[a].before, last[a].findings)

Told(a) ==
  last[a] # None /\ last[a].by = "done" /\ last[a].before # None =>
    last[a].drifts = Compare(last[a].before, last[a].findings)

DriftsInv ==
  /\ \A c \in Cycles : Compared(c)
  /\ \A c \in Cycles, a \in Accounts : Owned(c, a)
  /\ \A a \in Accounts : Told(a)

LEMMA DriftsInit == Init => DriftsInv
BY DEF Init, DriftsInv, Compared, Owned, Told, Own, At, Waiting

\* A cycle that neither has compared nor stores its drifts moves on.
LEMMA QuietKeeps ==
  ASSUME DriftsInv, NEW c \in Cycles, UNCHANGED <<last, overtaken>>,
         \A b \in Cycles : b # c => cycles'[b] = cycles[b],
         ~At(c, "drifts"), ~At(c, "insert")'
  PROVE  DriftsInv'
<1>1. ASSUME NEW b \in Cycles PROVE Compared(b)'
  <2>1. CASE b = c
    BY <2>1 DEF Compared
  <2>2. CASE b # c
    BY <2>2 DEF DriftsInv, Compared, At, AccountOf
  <2> QED BY <2>1, <2>2
<1>2. ASSUME NEW b \in Cycles, NEW a \in Accounts PROVE Owned(b, a)'
  <2>1. CASE b = c
    BY <2>1 DEF DriftsInv, Owned, Own
  <2>2. CASE b # c
    BY <2>2 DEF DriftsInv, Owned, Own, At, AccountOf
  <2> QED BY <2>1, <2>2
<1>3. \A a \in Accounts : Told(a)'
  BY DEF DriftsInv, Told
<1> QED BY <1>1, <1>2, <1>3 DEF DriftsInv

\* The scan that is stored, and those of other accounts.
LEMMA StoreIs ==
  ASSUME ScansTyped, NEW a \in Accounts, NEW findings, NEW by, Store(a, findings, by)
  PROVE  /\ last'[a].findings = findings
         /\ last'[a].drifts = {}
         /\ last'[a].by = by
         /\ last'[a].before = IF last[a] = None THEN None ELSE last[a].findings
         /\ \A b \in Accounts : b # a => last'[b] = last[b]
<1> DEFINE scan == [findings |-> findings, drifts |-> {}, by |-> by,
                    before |-> IF last[a] = None THEN None ELSE last[a].findings]
<1>1. last' = [last EXCEPT ![a] = scan]
  BY DEF Store
<1>2. /\ scan.findings = findings
      /\ scan.drifts = {}
      /\ scan.by = by
      /\ scan.before = IF last[a] = None THEN None ELSE last[a].findings
  OBVIOUS
<1> HIDE DEF scan
<1>3. last'[a] = scan /\ \A b \in Accounts : b # a => last'[b] = last[b]
  BY <1>1 DEF ScansTyped
<1> QED BY <1>2, <1>3

\* A client's scan overtakes the cycles that have compared.
LEMMA PostKeeps ==
  ASSUME TypeOK, DriftsInv, NEW a \in Accounts, Post(a)
  PROVE  DriftsInv'
<1>1. UNCHANGED cycles /\ overtaken' = overtaken \cup Comparing(a)
  BY DEF Post
<1>2. last'[a].by = "posted" /\ \A b \in Accounts : b # a => last'[b] = last[b]
  BY StoreIs DEF Post, TypeOK
<1>3. ASSUME NEW c \in Cycles PROVE Compared(c)'
  <2> SUFFICES ASSUME At(c, "insert")', c \notin overtaken'
               PROVE  cycles'[c].left = ToTell(last'[AccountOf(c)'], cycles'[c].findings)
    BY DEF Compared, ToTell
  <2>1. At(c, "insert") /\ c \notin overtaken /\ AccountOf(c)' = AccountOf(c)
    BY <1>1 DEF At, AccountOf
  <2>2. AccountOf(c) # a
    BY <1>1, <2>1 DEF Comparing, At, AccountOf
  <2>3. AccountOf(c) \in Accounts
    BY <2>1 DEF TypeOK, CyclesTyped, At, AccountOf, Job
  <2> QED BY <1>1, <1>2, <2>1, <2>2, <2>3 DEF DriftsInv, Compared
<1>4. ASSUME NEW c \in Cycles, NEW b \in Accounts PROVE Owned(c, b)'
  <2>1. CASE b = a
    BY <1>2, <2>1, ScansAssumption DEF Owned, Own, Outcomes
  <2>2. CASE b # a
    BY <1>1, <1>2, <2>2 DEF DriftsInv, Owned, Own, At, AccountOf
  <2> QED BY <2>1, <2>2
<1>5. ASSUME NEW b \in Accounts PROVE Told(b)'
  BY <1>2 DEF DriftsInv, Told
<1> QED BY <1>3, <1>4, <1>5 DEF DriftsInv

\* A cycle's scan overtakes the others, and what the cycle has left is all that
\* there is to tell of it.
LEMMA InsertScanKeeps ==
  ASSUME TypeOK, DriftsInv, NEW c \in Cycles, InsertScan(c)
  PROVE  DriftsInv'
<1> DEFINE a == AccountOf(c)
<1>1. /\ At(c, "insert")
      /\ a \in Accounts
      /\ overtaken' = overtaken \cup (Comparing(a) \ {c})
      /\ cycles' = [cycles EXCEPT ![c].pc = "drifts", ![c].findings = None]
  BY DEF InsertScan, TypeOK, CyclesTyped, At, AccountOf, Job
<1>2. /\ cycles'[c].pc = "drifts"
      /\ cycles'[c].job = cycles[c].job
      /\ cycles'[c].left = cycles[c].left
      /\ \A b \in Cycles : b # c => cycles'[b] = cycles[b]
  BY <1>1 DEF TypeOK, CyclesTyped, CycleState
<1>3. /\ last'[a].findings = cycles[c].findings
      /\ last'[a].drifts = {}
      /\ last'[a].by = c
      /\ last'[a].before = IF last[a] = None THEN None ELSE last[a].findings
      /\ \A b \in Accounts : b # a => last'[b] = last[b]
  <2>1. ScansTyped /\ Store(a, cycles[c].findings, c)
    BY DEF InsertScan, TypeOK
  <2> HIDE DEF a
  <2> QED BY <1>1, <2>1, StoreIs
<1>4. ASSUME NEW b \in Cycles PROVE Compared(b)'
  <2> SUFFICES ASSUME At(b, "insert")', b \notin overtaken'
               PROVE  cycles'[b].left = ToTell(last'[AccountOf(b)'], cycles'[b].findings)
    BY DEF Compared, ToTell
  <2>1. b # c /\ cycles'[b] = cycles[b]
    BY <1>2 DEF At
  <2>2. At(b, "insert") /\ b \notin overtaken /\ AccountOf(b)' = AccountOf(b)
    BY <1>1, <2>1 DEF At, AccountOf
  <2>3. AccountOf(b) # a
    BY <1>1, <2>1, <2>2 DEF Comparing, At, AccountOf
  <2>4. AccountOf(b) \in Accounts
    BY <2>2 DEF TypeOK, CyclesTyped, At, AccountOf, Job
  <2>5. last'[AccountOf(b)'] = last[AccountOf(b)]
    BY <1>3, <2>2, <2>3, <2>4
  <2> QED BY <2>1, <2>2, <2>5 DEF DriftsInv, Compared
<1>5. ASSUME NEW b \in Cycles, NEW d \in Accounts PROVE Owned(b, d)'
  <2>1. CASE d # a
    <3>1. Own(b, d)' => Own(b, d) /\ b # c
      BY <1>1, <1>3, <2>1 DEF Own, DriftsInv, Owned, At
    <3>2. b \notin overtaken' => b \notin overtaken
      BY <1>1
    <3>3. b # c => cycles'[b] = cycles[b]
      BY <1>2
    <3>4. last'[d] = last[d]
      BY <1>3, <2>1
    <3> HIDE DEF a
    <3> QED BY <3>1, <3>2, <3>3, <3>4 DEF Owned, DriftsInv, At, AccountOf
  <2>2. CASE d = a /\ b # c
    BY <1>3, <2>2 DEF Owned, Own
  <2>3. CASE d = a /\ b = c
    <3>1. At(c, "drifts")' /\ AccountOf(c)' = a
      BY <1>2 DEF At, AccountOf
    <3>2. ASSUME c \notin overtaken', last'[a].before # None
          PROVE  last'[a].drifts \cup cycles'[c].left = Compare(last'[a].before, last'[a].findings)
      <4>1. c \notin overtaken
        BY <1>1, <3>2
      <4>2. last[a] # None /\ last'[a].before = last[a].findings
        BY <1>3, <3>2
      <4>3. cycles[c].left = Compare(last[a].findings, cycles[c].findings)
        BY <1>1, <4>1, <4>2 DEF DriftsInv, Compared, ToTell
      <4> QED BY <1>2, <1>3, <4>2, <4>3
    <3> QED BY <2>3, <3>1, <3>2 DEF Owned
  <2> QED BY <2>1, <2>2, <2>3
<1>6. ASSUME NEW d \in Accounts PROVE Told(d)'
  <2>1. CASE d = a
    BY <1>3, <2>1, ScansAssumption DEF Told, Outcomes
  <2>2. CASE d # a
    BY <1>3, <2>2 DEF Told, DriftsInv
  <2> QED BY <2>1, <2>2
<1> QED BY <1>4, <1>5, <1>6 DEF DriftsInv

\* A drift that is stored is not left any more.
LEMMA InsertDriftKeeps ==
  ASSUME TypeOK, DriftsInv, NEW c \in Cycles, InsertDrift(c)
  PROVE  DriftsInv'
<1> DEFINE a == AccountOf(c)
<1>1. PICK drift \in cycles[c].left :
        /\ last' = IF Own(c, a) THEN [last EXCEPT ![a].drifts = @ \cup {drift}] ELSE last
        /\ cycles' = [cycles EXCEPT ![c].left = @ \ {drift}]
  BY DEF InsertDrift
<1>2. At(c, "drifts") /\ a \in Accounts /\ UNCHANGED overtaken
  BY DEF InsertDrift, TypeOK, CyclesTyped, At, AccountOf, Job
<1>3. /\ cycles'[c].pc = cycles[c].pc
      /\ cycles'[c].job = cycles[c].job
      /\ cycles'[c].left = cycles[c].left \ {drift}
      /\ \A b \in Cycles : b # c => cycles'[b] = cycles[b]
  BY <1>1 DEF TypeOK, CyclesTyped, CycleState
<1>4. \A d \in Accounts : d # a => last'[d] = last[d]
  BY <1>1, <1>2 DEF TypeOK, ScansTyped
<1>5. CASE Own(c, a)
  <2>1. last[a] \in Scan /\ last[a] # None /\ last[a].by = c
    BY <1>2, <1>5 DEF Own, TypeOK, ScansTyped
  <2>2. /\ last'[a].drifts = last[a].drifts \cup {drift}
        /\ last'[a].findings = last[a].findings
        /\ last'[a].before = last[a].before
        /\ last'[a].by = c
    BY <1>1, <1>2, <1>5, <2>1 DEF TypeOK, ScansTyped, Scan
  <2>3. last'[a] # None
    <3>1. last'[a] = [last[a] EXCEPT !.drifts = @ \cup {drift}]
      BY <1>1, <1>2, <1>5 DEF TypeOK, ScansTyped
    <3>2. drift \in DriftRecord
      BY DEF TypeOK, CyclesTyped, CycleState
    <3>3. last'[a] \in Scan
      BY <2>1, <3>1, <3>2 DEF Scan
    <3> QED BY <3>3, ScansAssumption
  <2>4. ASSUME NEW b \in Cycles PROVE Compared(b)'
    <3> SUFFICES ASSUME At(b, "insert")', b \notin overtaken'
                 PROVE  cycles'[b].left = ToTell(last'[AccountOf(b)'], cycles'[b].findings)
      BY DEF Compared, ToTell
    <3>1. b # c /\ cycles'[b] = cycles[b]
      BY <1>2, <1>3 DEF At
    <3>2. At(b, "insert") /\ b \notin overtaken /\ AccountOf(b)' = AccountOf(b)
      BY <1>2, <3>1 DEF At, AccountOf
    <3>3. AccountOf(b) \in Accounts
      BY <3>2 DEF TypeOK, CyclesTyped, At, AccountOf, Job
    <3>4. ToTell(last'[AccountOf(b)], cycles[b].findings) = ToTell(last[AccountOf(b)], cycles[b].findings)
      <4>1. CASE AccountOf(b) # a
        BY <1>4, <3>3, <4>1
      <4>2. CASE AccountOf(b) = a
        BY <2>1, <2>2, <2>3, <4>2 DEF ToTell
      <4> QED BY <4>1, <4>2
    <3> QED BY <3>1, <3>2, <3>4 DEF DriftsInv, Compared
  <2>5. ASSUME NEW b \in Cycles, NEW d \in Accounts PROVE Owned(b, d)'
    <3>1. CASE d = a
      <4>1. CASE b = c
        BY <1>2, <1>3, <1>5, <2>2, <3>1, <4>1 DEF DriftsInv, Owned, At, AccountOf
      <4>2. CASE b # c
        BY <2>2, <3>1, <4>2 DEF Owned, Own
      <4> QED BY <4>1, <4>2
    <3>2. CASE d # a
      <4>1. Own(b, d)' => Own(b, d) /\ b # c
        BY <1>4, <3>2 DEF Own, DriftsInv, Owned
      <4> QED BY <1>2, <1>3, <1>4, <3>2, <4>1 DEF Owned, DriftsInv, At, AccountOf
    <3> QED BY <3>1, <3>2
  <2>6. ASSUME NEW d \in Accounts PROVE Told(d)'
    <3>1. CASE d = a
      BY <2>2, <3>1, ScansAssumption DEF Told, Outcomes
    <3>2. CASE d # a
      BY <1>4, <3>2 DEF Told, DriftsInv
    <3> QED BY <3>1, <3>2
  <2> QED BY <2>4, <2>5, <2>6 DEF DriftsInv
<1>6. CASE ~Own(c, a)
  <2>1. UNCHANGED last
    BY <1>1, <1>6
  <2>2. ASSUME NEW b \in Cycles PROVE Compared(b)'
    BY <1>2, <1>3, <2>1 DEF DriftsInv, Compared, At, AccountOf
  <2>3. ASSUME NEW b \in Cycles, NEW d \in Accounts PROVE Owned(b, d)'
    <3>1. CASE b = c
      BY <1>6, <2>1, <3>1 DEF DriftsInv, Owned, Own
    <3>2. CASE b # c
      BY <1>2, <1>3, <2>1, <3>2 DEF DriftsInv, Owned, Own, At, AccountOf
    <3> QED BY <3>1, <3>2
  <2>4. \A d \in Accounts : Told(d)'
    BY <2>1 DEF DriftsInv, Told
  <2> QED BY <2>2, <2>3, <2>4 DEF DriftsInv
<1> QED BY <1>5, <1>6

\* How a scan has ended is noted, and nothing else of any scan.
LEMMA EndScanIs ==
  ASSUME ScansTyped, NEW c \in Cycles, NEW a \in Accounts, NEW by \in Outcomes, NEW d \in Accounts
  PROVE  /\ EndScan(c, a, by)[d] = None <=> last[d] = None
         /\ last[d] # None =>
              /\ EndScan(c, a, by)[d].findings = last[d].findings
              /\ EndScan(c, a, by)[d].drifts = last[d].drifts
              /\ EndScan(c, a, by)[d].before = last[d].before
              /\ EndScan(c, a, by)[d].by = IF d = a /\ Own(c, a) THEN by ELSE last[d].by
<1>1. CASE d = a /\ Own(c, a)
  <2>1. last[d] \in Scan /\ last[d] # None
    BY <1>1 DEF Own, ScansTyped
  <2>2. EndScan(c, a, by)[d] = [last[d] EXCEPT !.by = by]
    BY <1>1 DEF EndScan, ScansTyped
  <2>3. [last[d] EXCEPT !.by = by] \in Scan
    BY <2>1 DEF Scan
  <2> QED BY <1>1, <2>1, <2>2, <2>3, ScansAssumption DEF Scan
<1>2. CASE ~(d = a /\ Own(c, a))
  <2>1. EndScan(c, a, by)[d] = last[d]
    BY <1>2 DEF EndScan, ScansTyped
  <2> QED BY <1>2, <2>1
<1> QED BY <1>1, <1>2

\* A cycle ends a scan, or what it had begun of one: it is told in full if its
\* drifts were all stored.
LEMMA EndKeeps ==
  ASSUME TypeOK, DriftsInv, NEW c \in Cycles, NEW by \in Outcomes,
         ~At(c, "wait"), ~At(c, "insert")', ~At(c, "drifts")',
         \A b \in Cycles : b # c => cycles'[b] = cycles[b],
         last' = EndScan(c, AccountOf(c), by), overtaken' = overtaken \ {c},
         by = "done" => c \notin overtaken /\ cycles[c].left = {}
  PROVE  DriftsInv'
<1> DEFINE a == AccountOf(c)
<1>1. a \in Accounts
  BY DEF TypeOK, CyclesTyped, AccountOf, Job
<1> HIDE DEF a
<1>2. ASSUME NEW d \in Accounts
      PROVE  /\ last'[d] = None <=> last[d] = None
             /\ last[d] # None => /\ last'[d].findings = last[d].findings
                                  /\ last'[d].drifts = last[d].drifts
                                  /\ last'[d].before = last[d].before
                                  /\ last'[d].by = IF d = a /\ Own(c, a) THEN by ELSE last[d].by
  BY <1>1, EndScanIs DEF TypeOK, a
<1>3. ASSUME NEW b \in Cycles PROVE Compared(b)'
  <2> SUFFICES ASSUME At(b, "insert")', b \notin overtaken'
               PROVE  cycles'[b].left = ToTell(last'[AccountOf(b)'], cycles'[b].findings)
    BY DEF Compared, ToTell
  <2>1. b # c /\ cycles'[b] = cycles[b] /\ b \notin overtaken
    OBVIOUS
  <2>2. At(b, "insert") /\ AccountOf(b)' = AccountOf(b)
    BY <2>1 DEF At, AccountOf
  <2>3. AccountOf(b) \in Accounts
    BY <2>2 DEF TypeOK, CyclesTyped, At, AccountOf, Job
  <2>4. ToTell(last'[AccountOf(b)], cycles[b].findings) = ToTell(last[AccountOf(b)], cycles[b].findings)
    BY <1>2, <2>3 DEF ToTell
  <2> QED BY <2>1, <2>2, <2>4 DEF DriftsInv, Compared
<1>4. ASSUME NEW b \in Cycles, NEW d \in Accounts PROVE Owned(b, d)'
  <2> SUFFICES ASSUME Own(b, d)'
               PROVE  /\ At(b, "drifts")'
                      /\ AccountOf(b)' = d
                      /\ b \notin overtaken' /\ last'[d].before # None =>
                           last'[d].drifts \cup cycles'[b].left
                             = Compare(last'[d].before, last'[d].findings)
    BY DEF Owned
  <2>1. last[d] # None /\ last'[d].by = b
    BY <1>2 DEF Own
  <2>2. last'[d].by = last[d].by /\ Own(b, d)
    BY <1>2, <2>1, ScansAssumption DEF Own
  <2>3. b # c
    <3> SUFFICES ASSUME b = c PROVE FALSE
      OBVIOUS
    <3>1. d = a
      BY <2>2 DEF DriftsInv, Owned, a
    <3> QED BY <1>2, <2>1, <2>2, <3>1, ScansAssumption
  <2>4. b \notin overtaken' => b \notin overtaken
    BY <2>3
  <2> QED BY <1>2, <2>1, <2>2, <2>3, <2>4 DEF DriftsInv, Owned, At, AccountOf
<1>5. ASSUME NEW d \in Accounts PROVE Told(d)'
  <2>1. CASE d = a /\ Own(c, a) /\ by = "done"
    <3>1. last[d].before # None => last[d].drifts = Compare(last[d].before, last[d].findings)
      BY <2>1 DEF DriftsInv, Owned
    <3> QED BY <1>2, <3>1 DEF Told
  <2>2. CASE ~(d = a /\ Own(c, a) /\ by = "done")
    BY <1>2, <2>2 DEF Told, DriftsInv
  <2> QED BY <2>1, <2>2
<1> QED BY <1>3, <1>4, <1>5 DEF DriftsInv

\* With the worker all cycles are over, and no scan of theirs is whole.
LEMMA WorkerDiesKeeps ==
  ASSUME TypeOK, DriftsInv, WorkerDies
  PROVE  DriftsInv'
<1>1. \A c \in Cycles : cycles'[c].pc = "wait"
  BY DEF WorkerDies, Waiting
<1>2. ASSUME NEW a \in Accounts
      PROVE  IF \E c \in Cycles : Own(c, a) THEN last'[a].by = "lost" ELSE last'[a] = last[a]
  <2>1. last[a] # None => last[a] \in Scan
    BY DEF TypeOK, ScansTyped
  <2> QED BY <2>1 DEF WorkerDies, Own, Scan
<1>3. ASSUME NEW c \in Cycles, NEW a \in Accounts PROVE Owned(c, a)'
  BY <1>2, ScansAssumption DEF Owned, Own, Outcomes
<1>4. ASSUME NEW a \in Accounts PROVE Told(a)'
  BY <1>2 DEF Told, DriftsInv
<1> QED BY <1>1, <1>3, <1>4 DEF DriftsInv, Compared, At

LEMMA CycleKeepsDrifts ==
  ASSUME TypeOK, DriftsInv, NEW c \in Cycles, Cycle(c)
  PROVE  DriftsInv'
<1>1. cycles[c] \in CycleState
  BY DEF TypeOK, CyclesTyped
<1>2. CASE StartCycle(c)
  <2>1. PICK due \in SetToSeqs(Due) : Begin(c, [i \in DOMAIN due |-> JobOf(due[i])])
    BY <1>2 DEF StartCycle
  <2>2. /\ \A b \in Cycles : b # c => cycles'[b] = cycles[b]
        /\ cycles'[c] = Waiting \/ cycles'[c].pc = "prowler"
    BY <2>1, JobsTyped, BeginTyped DEF TypeOK
  <2> QED BY <1>2, <2>2, QuietKeeps DEF StartCycle, At, Waiting
<1>3. CASE ProwlerFinds(c)
  <2>1. cycles'[c].pc = "compare" /\ \A b \in Cycles : b # c => cycles'[b] = cycles[b]
    BY <1>1, <1>3 DEF ProwlerFinds, TypeOK, CyclesTyped, CycleState
  <2> QED BY <1>3, <2>1, QuietKeeps DEF ProwlerFinds, At
<1>4. CASE CompareWithLatest(c)
  <2> DEFINE left == ToTell(last[AccountOf(c)], cycles[c].findings)
  <2>1. /\ At(c, "compare")
        /\ UNCHANGED <<last, overtaken>>
        /\ cycles' = [cycles EXCEPT ![c].pc = "insert", ![c].left = left]
    BY <1>4 DEF CompareWithLatest, ToTell
  <2> HIDE DEF left
  <2>2. /\ cycles'[c].pc = "insert"
        /\ cycles'[c].job = cycles[c].job
        /\ cycles'[c].findings = cycles[c].findings
        /\ cycles'[c].left = left
        /\ \A b \in Cycles : b # c => cycles'[b] = cycles[b]
    BY <1>1, <2>1 DEF TypeOK, CyclesTyped, CycleState
  <2>3. ASSUME NEW b \in Cycles PROVE Compared(b)'
    <3>1. CASE b = c
      BY <2>1, <2>2, <3>1 DEF Compared, AccountOf, ToTell, left
    <3>2. CASE b # c
      BY <2>1, <2>2, <3>2 DEF DriftsInv, Compared, At, AccountOf, ToTell
    <3> QED BY <3>1, <3>2
  <2>4. ASSUME NEW b \in Cycles, NEW a \in Accounts PROVE Owned(b, a)'
    <3>1. CASE b = c
      BY <2>1, <3>1 DEF DriftsInv, Owned, Own, At
    <3>2. CASE b # c
      <4>1. cycles'[b] = cycles[b] /\ UNCHANGED <<last, overtaken>> /\ Owned(b, a)
        BY <2>1, <2>2, <3>2 DEF DriftsInv
      <4> QED BY <4>1 DEF Owned, Own, At, AccountOf
    <3> QED BY <3>1, <3>2
  <2>5. \A a \in Accounts : Told(a)'
    BY <2>1 DEF DriftsInv, Told
  <2> QED BY <2>3, <2>4, <2>5 DEF DriftsInv
<1>5. CASE Touch(c)
  <2>1. /\ ~At(c, "wait")
        /\ cycles[c].left = {}
        /\ AccountOf(c) = cycles[c].job.account
        /\ overtaken' = overtaken \ {c}
        /\ cycles' = [cycles EXCEPT ![c].pc = "health"]
    BY <1>5 DEF Touch, At, Go, AccountOf
  <2>2. cycles'[c].pc = "health" /\ \A b \in Cycles : b # c => cycles'[b] = cycles[b]
    BY <1>1, <2>1 DEF TypeOK, CyclesTyped, CycleState
  <2>3. CASE c \in overtaken
    BY <1>5, <2>1, <2>2, <2>3, EndKeeps DEF Touch, At, Outcomes
  <2>4. CASE c \notin overtaken
    BY <1>5, <2>1, <2>2, <2>4, EndKeeps DEF Touch, At, Outcomes
  <2> QED BY <2>3, <2>4
<1>6. CASE NoteHealthy(c) \/ NoteError(c)
  <2>1. /\ ~At(c, "drifts")
        /\ UNCHANGED <<last, overtaken>>
        /\ Begin(c, cycles[c].todo)
    BY <1>6 DEF NoteHealthy, NoteError, At
  <2>2. cycles[c].todo \in Seq(Job)
    BY <1>1 DEF CycleState
  <2>3. /\ \A b \in Cycles : b # c => cycles'[b] = cycles[b]
        /\ cycles'[c] = Waiting \/ cycles'[c].pc = "prowler"
    BY <2>1, <2>2, BeginTyped DEF TypeOK
  <2> QED BY <2>1, <2>3, QuietKeeps DEF At, Waiting
<1>7. CASE ScanFails(c)
  <2>1. /\ ~At(c, "wait")
        /\ last' = EndScan(c, AccountOf(c), "lost")
        /\ overtaken' = overtaken \ {c}
    BY <1>7 DEF ScanFails, At
  <2>2. cycles'[c].pc = "error" /\ \A b \in Cycles : b # c => cycles'[b] = cycles[b]
    BY <1>1, <1>7 DEF ScanFails, TypeOK, CyclesTyped, CycleState
  <2> QED BY <2>1, <2>2, EndKeeps DEF At, Outcomes
<1> QED BY <1>2, <1>3, <1>4, <1>5, <1>6, <1>7, InsertScanKeeps, InsertDriftKeeps DEF Cycle

LEMMA DriftsStep == TypeOK /\ DriftsInv /\ [Next]_vars => DriftsInv'
<1> SUFFICES ASSUME TypeOK, DriftsInv, [Next]_vars PROVE DriftsInv'
  OBVIOUS
<1>1. CASE UNCHANGED <<last, cycles, overtaken>>
  BY <1>1 DEF DriftsInv, Compared, Owned, Told, Own, At, AccountOf, ToTell
<1>2. ASSUME NEW a \in Accounts, Registration(a) \/ GoesStale(a) \/ PostureChanges(a)
      PROVE  UNCHANGED <<last, cycles, overtaken>>
  BY <1>2 DEF Registration, GoesStale, PostureChanges, scanVars
<1>3. ASSUME NEW t \in Tests, Testing(t)
      PROVE  UNCHANGED <<last, cycles, overtaken>>
  BY <1>3 DEF Testing, scanVars
<1>4. CASE UNCHANGED vars
  BY <1>1, <1>4 DEF vars, scanVars
<1> QED BY <1>1, <1>2, <1>3, <1>4, PostKeeps, CycleKeepsDrifts, WorkerDiesKeeps DEF Next

\* The drifts of a scan that was neither lost nor overtaken tell what changed
\* since the scan before, each change of a check with one finding once.
THEOREM DriftsTell == Spec => []DriftsTellChanges
<1>1. TypeOK /\ DriftsInv => DriftsTellChanges
  <2> SUFFICES ASSUME TypeOK, DriftsInv, NEW a \in Accounts,
                      last[a] # None, last[a].by = "done", last[a].before # None
               PROVE  Tells(last[a].drifts, last[a].before, last[a].findings)
    BY DEF DriftsTellChanges
  <2>1. last[a].drifts = Compare(last[a].before, last[a].findings)
    BY DEF DriftsInv, Told
  <2>2. last[a].before \in Seq(Finding) /\ last[a].findings \in Seq(Finding)
    BY ScansAssumption DEF TypeOK, ScansTyped, Scan
  <2> QED BY <2>1, <2>2, CompareTells
<1> QED BY <1>1, ScansTypeCorrect, DriftsInit, DriftsStep, PTL DEF Spec
=============================================================================
