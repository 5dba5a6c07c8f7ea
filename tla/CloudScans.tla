----------------------------- MODULE CloudScans -----------------------------
(***************************************************************************)
(* DurtGuardian (apps/durtguardian): cycles that a timer starts, whether   *)
(* or not the last one has ended, list the cloud accounts that are due,    *)
(* and for one after the other run Prowler, compare what it finds with the *)
(* last scan stored, store the scan and its drifts one by one, and note    *)
(* the scan and the health of the account. Clients of the API store scans  *)
(* of their own (POST /cspm/scans).                                        *)
(*                                                                         *)
(* Simplifications.                                                        *)
(*  - Of the scans of an account the last is kept, as the code reads no    *)
(*    other. The order of the drifts of a scan is arbitrary.               *)
(*  - Prowler sees an account as it is when Prowler ends, and a credential *)
(*    opens its own account.                                               *)
(*  - A client's drifts, which the API stores and publishes as they come,  *)
(*    the heartbeat and the baseline hash, which are not read, and the     *)
(*    file in which Prowler finds a credential of GCP are left out.        *)
(***************************************************************************)
EXTENDS CloudAccounts, Drift

CONSTANTS
  Postures,  \* what Prowler may find in an account
  Reliable   \* accounts that Prowler does not fail to scan for ever

\* How the scan of a cycle has ended, or that it is not of a cycle.
Outcomes == {"done", "overtaken", "lost", "posted"}

\* by: the cycle that still stores its drifts, or how that has ended. before, a
\* history variable: the findings of the scan stored before.
Scan == [findings: Postures, drifts: SUBSET DriftRecord, before: Postures \cup {None},
         by: Cycles \cup Outcomes]

ASSUME ScansAssumption ==
  /\ Postures \subseteq Seq(Finding)
  /\ Cycles \cap Outcomes = {}
  /\ None \notin Scan

VARIABLES
  posture,   \* posture[a]: what Prowler finds in account a
  last,      \* last[a]: the last scan that is stored of a
  cycles,    \* cycles[c]: a cycle of DurtGuardian
  overtaken  \* history: cycles that compare with what is not the last scan now

scanVars == <<posture, last, cycles, overtaken>>
vars == <<accountVars, scanVars>>

Waiting == [pc |-> "wait", todo |-> <<>>, job |-> None, findings |-> None, left |-> {}]

Init ==
  /\ AccountInit
  /\ posture \in [Accounts -> Postures]
  /\ last = [a \in Accounts |-> None]
  /\ cycles = [c \in Cycles |-> Waiting]
  /\ overtaken = {}

\* The account changes. Nothing notices before it is scanned.
PostureChanges(a) ==
  /\ \E findings \in Postures : posture' = [posture EXCEPT ![a] = findings]
  /\ UNCHANGED <<accountVars, last, cycles, overtaken>>

(***************************************************************************)
(* The table of scans.                                                     *)
(***************************************************************************)
\* Cycles that have compared with the last scan of an account, and not stored.
Comparing(a) == {c \in Cycles : cycles[c].pc = "insert" /\ cycles[c].job.account = a}

Store(a, findings, by) ==
  last' = [last EXCEPT ![a] =
    [findings |-> findings, drifts |-> {}, by |-> by,
     before |-> IF last[a] = None THEN None ELSE last[a].findings]]

\* POST /cspm/scans
Post(a) ==
  /\ \E findings \in Postures : Store(a, findings, "posted")
  /\ overtaken' = overtaken \cup Comparing(a)
  /\ UNCHANGED <<accountVars, posture, cycles>>

\* The scan a cycle has stored, unless another scan has been stored after it.
Own(c, a) == last[a] # None /\ last[a].by = c

EndScan(c, a, by) == IF Own(c, a) THEN [last EXCEPT ![a].by = by] ELSE last

(***************************************************************************)
(* A cycle.                                                                *)
(***************************************************************************)
At(c, pc) == cycles[c].pc = pc
Go(c, pc) == cycles' = [cycles EXCEPT ![c].pc = pc]
AccountOf(c) == cycles[c].job.account

\* The first of the jobs is begun: credentialEnv, and Prowler is started. Without
\* jobs the cycle has ended.
Begin(c, jobs) ==
  cycles' = [cycles EXCEPT ![c] =
    IF jobs = <<>> THEN Waiting
    ELSE [Waiting EXCEPT !.pc = "prowler", !.job = Head(jobs), !.todo = Tail(jobs)]]

\* Those who have read the credential of an account and not finished with it.
InFlight(a) ==
  {t \in Tests : test[t] # None /\ test[t].account = a}
    \cup {c \in Cycles : \/ cycles[c].job # None /\ AccountOf(c) = a
                         \/ \E i \in DOMAIN cycles[c].todo : cycles[c].todo[i].account = a}

Due == {a \in Accounts : row[a] # None /\ row[a].enabled /\ row[a].due}
Comes(a, b) == \E i, j \in DOMAIN order : i < j /\ order[i] = a /\ order[j] = b

\* listDueCloudAccounts: the credentials are read for the whole cycle.
StartCycle(c) ==
  /\ At(c, "wait")
  /\ Due # {}
  /\ \E due \in SetToSeqs(Due) :
       /\ \A i, j \in DOMAIN due : i < j => Comes(due[i], due[j])
       /\ Begin(c, [i \in DOMAIN due |-> JobOf(due[i])])
  /\ UNCHANGED <<accountVars, posture, last, overtaken>>

\* Prowler ends with what it has found.
ProwlerFinds(c) ==
  /\ At(c, "prowler")
  /\ cycles' = [cycles EXCEPT ![c].pc = "compare", ![c].findings = posture[AccountOf(c)]]
  /\ UNCHANGED <<accountVars, posture, last, overtaken>>

\* Mutant: the scan before the last is taken.
CompareWithFirst(c) ==
  LET stored == last[AccountOf(c)]
  IN /\ At(c, "compare")
     /\ cycles' = [cycles EXCEPT ![c].pc = "insert",
          ![c].left = IF stored = None \/ stored.before = None THEN {}
                      ELSE Compare(stored.before, cycles[c].findings)]
     /\ UNCHANGED <<accountVars, posture, last, overtaken>>

\* getLatestScan: the first scan of an account has nothing to differ from.
CompareWithLatest(c) ==
  LET stored == last[AccountOf(c)]
  IN /\ At(c, "compare")
     /\ cycles' = [cycles EXCEPT ![c].pc = "insert",
          ![c].left = IF stored = None THEN {} ELSE Compare(stored.findings, cycles[c].findings)]
     /\ UNCHANGED <<accountVars, posture, last, overtaken>>

\* persistScan: the scan first.
InsertScan(c) ==
  LET a == AccountOf(c)
  IN /\ At(c, "insert")
     /\ Store(a, cycles[c].findings, c)
     /\ overtaken' = overtaken \cup (Comparing(a) \ {c})
     /\ cycles' = [cycles EXCEPT ![c].pc = "drifts", ![c].findings = None]
     /\ UNCHANGED <<accountVars, posture>>

\* persistScan: a drift after the other.
InsertDrift(c) ==
  /\ At(c, "drifts")
  /\ \E drift \in cycles[c].left :
       /\ last' = IF Own(c, AccountOf(c)) THEN [last EXCEPT ![AccountOf(c)].drifts = @ \cup {drift}]
                  ELSE last
       /\ cycles' = [cycles EXCEPT ![c].left = @ \ {drift}]
  /\ UNCHANGED <<accountVars, posture, overtaken>>

\* The drifts are stored, and the account is put off.
Touch(c) ==
  LET job == cycles[c].job
  IN /\ At(c, "drifts")
     /\ cycles[c].left = {}
     /\ last' = EndScan(c, job.account, IF c \in overtaken THEN "overtaken" ELSE "done")
     /\ overtaken' = overtaken \ {c}
     /\ TouchRow(job)
     /\ complete' = IF Current(job) THEN complete \cup {job.account} ELSE complete
     /\ Go(c, "health")
     /\ UNCHANGED <<registered, test, worked, stale, doubted, posture>>

NoteHealthy(c) ==
  /\ At(c, "health")
  /\ SetHealth(c, cycles[c].job, "healthy")
  /\ Begin(c, cycles[c].todo)
  /\ stale' = stale \ {<<c, AccountOf(c)>>}
  /\ UNCHANGED <<registered, order, test, complete, posture, last, overtaken>>

\* Prowler, a statement or anything else of a scan fails, and leaves what has
\* been stored before.
ScanFails(c) ==
  /\ cycles[c].pc \in {"prowler", "compare", "insert", "drifts", "health"}
  /\ last' = EndScan(c, AccountOf(c), "lost")
  /\ overtaken' = overtaken \ {c}
  /\ cycles' = [cycles EXCEPT ![c].pc = "error", ![c].findings = None, ![c].left = {}]
  /\ UNCHANGED <<accountVars, posture>>

\* Mutant: the cycle ends with an account that cannot be scanned.
NoteErrorLast(c) ==
  /\ At(c, "error")
  /\ SetHealth(c, cycles[c].job, "error") \/ UNCHANGED <<row, worked, doubted>>
  /\ Begin(c, <<>>)
  /\ stale' = stale \ {<<c, AccountOf(c)>>}
  /\ UNCHANGED <<registered, order, test, complete, posture, last, overtaken>>

\* The error is noted, or that fails as well.
NoteError(c) ==
  /\ At(c, "error")
  /\ SetHealth(c, cycles[c].job, "error") \/ UNCHANGED <<row, worked, doubted>>
  /\ Begin(c, cycles[c].todo)
  /\ stale' = stale \ {<<c, AccountOf(c)>>}
  /\ UNCHANGED <<registered, order, test, complete, posture, last, overtaken>>

\* The worker dies, as it also does when the accounts cannot be listed.
WorkerDies ==
  /\ cycles' = [c \in Cycles |-> Waiting]
  /\ last' = [a \in Accounts |->
       IF \E c \in Cycles : Own(c, a) THEN [last[a] EXCEPT !.by = "lost"] ELSE last[a]]
  /\ overtaken' = {}
  /\ stale' = stale \ (Cycles \X Accounts)
  /\ UNCHANGED <<row, registered, order, test, worked, doubted, complete, posture>>

Cycle(c) ==
  \/ StartCycle(c)
  \/ ProwlerFinds(c)
  \/ CompareWithLatest(c)
  \/ InsertScan(c)
  \/ InsertDrift(c)
  \/ Touch(c)
  \/ NoteHealthy(c)
  \/ ScanFails(c)
  \/ NoteError(c)

Registration(a) ==
  /\ InsertCloudAccount(a) \/ UpdateCloudAccount(a, InFlight(a)) \/ DeleteCloudAccount(a)
  /\ UNCHANGED scanVars

Testing(t) ==
  /\ (\E a \in Accounts : BeginTest(t, a)) \/ EndTest(t) \/ TestDies(t)
  /\ UNCHANGED scanVars

GoesStale(a) == ComesDue(a) /\ UNCHANGED scanVars

Next ==
  \/ \E a \in Accounts : \/ Registration(a)
                         \/ GoesStale(a)
                         \/ Post(a)
                         \/ PostureChanges(a)
  \/ \E t \in Tests : Testing(t)
  \/ \E c \in Cycles : Cycle(c)
  \/ WorkerDies

Spec == Init /\ [][Next]_vars

On(c, a) == cycles[c].job # None /\ AccountOf(c) = a

Goes == \E c \in Cycles : Cycle(c)
IsTried(a) == \E c \in Cycles : On(c, a) /\ (Touch(c) \/ ScanFails(c))
IsNoted(a) == \E c \in Cycles : On(c, a) /\ (NoteHealthy(c) \/ NoteError(c))
IsFound(a) == \E c \in Cycles : On(c, a) /\ ProwlerFinds(c)
IsCompared(a) == \E c \in Cycles : On(c, a) /\ CompareWithLatest(c)
IsStored(a) == \E c \in Cycles : On(c, a) /\ InsertScan(c)

\* The timer fires, and calls and statements end in one way or another. So does
\* Prowler, for which the code sets no deadline: its end is assumed.
\* The worker is not killed each time before it is done with an account. A
\* reliable account is not left without findings, or without a scan stored of
\* them, for ever.
Fairness ==
  /\ WF_vars(Goes)
  /\ \A a \in Accounts : WF_vars(GoesStale(a)) /\ SF_vars(IsTried(a)) /\ SF_vars(IsNoted(a))
  /\ \A a \in Reliable : SF_vars(IsFound(a)) /\ SF_vars(IsCompared(a)) /\ SF_vars(IsStored(a))

FairSpec == Spec /\ Fairness

-----------------------------------------------------------------------------
(***************************************************************************)
(* Properties.                                                             *)
(***************************************************************************)

\* The drifts of a scan tell what has changed since the scan stored before it,
\* each change once, for a check with one finding, unless the scan has failed on
\* the way or another scan of the account was stored between the comparison and
\* the insert. (Of a check with several findings the last one counts.)
DriftsTellChanges ==
  \A a \in Accounts :
    last[a] # None /\ last[a].by = "done" /\ last[a].before # None =>
      Tells(last[a].drifts, last[a].before, last[a].findings)

\* What an account has come to be is found in its last scan again and again,
\* though an account that fails is tried before it in every cycle.
Settled(a, findings) ==
  /\ row[a] # None
  /\ row[a].enabled
  /\ posture[a] = findings

ScansFollowPosture ==
  \A a \in Reliable, findings \in Postures :
    <>[]Settled(a, findings) => []<>(last[a] # None /\ last[a].findings = findings)
=============================================================================
