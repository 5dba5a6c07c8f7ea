--------------------------- MODULE CloudAccounts ---------------------------
(***************************************************************************)
(* The cloud accounts of a tenant: their rows, which the API inserts,      *)
(* updates, deletes and tests (apps/api/src/index.ts, storage.ts), and     *)
(* which DurtGuardian scans (CloudScans).                                  *)
(*                                                                         *)
(* An account that is deleted and registered again gets a new row, with a  *)
(* new id. Whatever checks a credential has read it some time before it    *)
(* writes what came of it.                                                 *)
(*                                                                         *)
(* Simplifications.                                                        *)
(*  - Names and regions are left out. The ids of an account's rows are     *)
(*    counted.                                                             *)
(*  - order is the order of last_scan_at, nulls first, and due whether it  *)
(*    is old enough.                                                       *)
(***************************************************************************)
EXTENDS FiniteSets, Naturals, Sequences, SequencesExt

CONSTANTS
  Accounts,    \* pairs of provider and account id
  Credentials,
  Cycles,      \* slots for cycles of DurtGuardian
  Tests,       \* slots for tests of a connection
  None,
  MaxIds       \* bound: how often an account is registered

VARIABLES
  row,         \* row[a]: the row of account a, if it has one
  registered,  \* registered[a]: how many rows it has had
  order,       \* accounts, the one scanned the longest time ago first
  test,        \* test[t]: the account and id that t tests, and the credential
  (* History variables: no action reads them. *)
  worked,      \* worked[a]: credentials that a check of this row found to work
  stale,       \* checks in flight that have read a credential replaced since
  doubted,     \* accounts whose status is of a credential replaced since
  complete     \* accounts of which a whole scan was stored for this row

accountHistory == <<worked, stale, doubted, complete>>
accountVars == <<row, registered, order, test, accountHistory>>

Row == [id: 1..MaxIds, enabled: BOOLEAN, credential: Credentials,
        status: {"unknown", "healthy", "error"}, due: BOOLEAN]

\* What a checker has read of a row.
Job == [account: Accounts, id: 1..MaxIds, credential: Credentials]

ASSUME AccountsAssumption ==
  /\ IsFiniteSet(Accounts)
  /\ MaxIds \in Nat
  /\ None \notin Job
  /\ Cycles \cap Tests = {}

JobOf(a) == [account |-> a, id |-> row[a].id, credential |-> row[a].credential]

AccountInit ==
  /\ row = [a \in Accounts |-> None]
  /\ registered = [a \in Accounts |-> 0]
  /\ order \in SetToSeqs(Accounts)
  /\ test = [t \in Tests |-> None]
  /\ worked = [a \in Accounts |-> {}]
  /\ stale = {}
  /\ doubted = {}
  /\ complete = {}

\* Without a last scan it is the first.
InsertCloudAccount(a) ==
  /\ row[a] = None
  /\ registered[a] < MaxIds
  /\ \E credential \in Credentials :
       row' = [row EXCEPT ![a] = [id |-> registered[a] + 1, enabled |-> TRUE,
                                  credential |-> credential, status |-> "unknown", due |-> TRUE]]
  /\ registered' = [registered EXCEPT ![a] = @ + 1]
  /\ order' = <<a>> \o SelectSeq(order, LAMBDA b : b # a)
  /\ worked' = [worked EXCEPT ![a] = {}]
  /\ doubted' = doubted \ {a}
  /\ complete' = complete \ {a}
  /\ UNCHANGED <<test, stale>>

\* A new credential leaves the status as it is, and what is under way.
UpdateCloudAccount(a, inFlight) ==
  /\ row[a] # None
  /\ \E enabled \in BOOLEAN, credential \in Credentials \cup {None} :
       /\ row' = [row EXCEPT ![a].enabled = enabled,
                             ![a].credential = IF credential = None THEN @ ELSE credential]
       /\ IF credential = None THEN UNCHANGED <<stale, doubted>>
          ELSE /\ stale' = stale \cup inFlight \X {a}
               /\ doubted' = doubted \cup {a}
  /\ UNCHANGED <<registered, order, test, worked, complete>>

DeleteCloudAccount(a) ==
  /\ row[a] # None
  /\ row' = [row EXCEPT ![a] = None]
  /\ UNCHANGED <<registered, order, test, accountHistory>>

Current(job) == row[job.account] # None /\ row[job.account].id = job.id

\* Mutant: a row is found by its account.
SetHealthOfAccount(checker, job, status) ==
  LET a == job.account
  IN IF row[a] = None THEN UNCHANGED <<row, worked, doubted>>
     ELSE /\ row' = [row EXCEPT ![a].status = status]
          /\ worked' = [worked EXCEPT ![a] =
               IF status = "healthy" /\ Current(job) THEN @ \cup {job.credential} ELSE @]
          /\ doubted' = IF <<checker, a>> \in stale THEN doubted \cup {a} ELSE doubted \ {a}

\* updateCloudAccountHealth, of the API and of DurtGuardian: without the row
\* nothing is updated.
SetHealth(checker, job, status) ==
  LET a == job.account
  IN IF ~Current(job) THEN UNCHANGED <<row, worked, doubted>>
     ELSE /\ row' = [row EXCEPT ![a].status = status]
          /\ worked' = IF status = "healthy" THEN [worked EXCEPT ![a] = @ \cup {job.credential}]
                       ELSE worked
          /\ doubted' = IF <<checker, a>> \in stale THEN doubted \cup {a} ELSE doubted \ {a}

BeginTest(t, a) ==
  /\ test[t] = None
  /\ row[a] # None
  /\ test' = [test EXCEPT ![t] = JobOf(a)]
  /\ UNCHANGED <<row, registered, order, accountHistory>>

\* The provider accepts the credential or not.
EndTest(t) ==
  /\ test[t] # None
  /\ \E status \in {"healthy", "error"} : SetHealth(t, test[t], status)
  /\ test' = [test EXCEPT ![t] = None]
  /\ stale' = stale \ ({t} \X Accounts)
  /\ UNCHANGED <<registered, order, complete>>

\* The statement fails, or the process dies.
TestDies(t) ==
  /\ test[t] # None
  /\ test' = [test EXCEPT ![t] = None]
  /\ stale' = stale \ ({t} \X Accounts)
  /\ UNCHANGED <<row, registered, order, worked, doubted, complete>>

\* Its last scan is long enough ago.
ComesDue(a) ==
  /\ row[a] # None
  /\ row' = [row EXCEPT ![a].due = TRUE]
  /\ UNCHANGED <<registered, order, test, accountHistory>>

\* Mutant: a row is found by its account.
TouchAccount(job) ==
  LET a == job.account
  IN IF row[a] = None THEN UNCHANGED <<row, order>>
     ELSE /\ row' = [row EXCEPT ![a].due = FALSE]
          /\ order' = Append(SelectSeq(order, LAMBDA b : b # a), a)

\* touchCloudAccountScan
TouchRow(job) ==
  LET a == job.account
  IN IF ~Current(job) THEN UNCHANGED <<row, order>>
     ELSE /\ row' = [row EXCEPT ![a].due = FALSE]
          /\ order' = Append(SelectSeq(order, LAMBDA b : b # a), a)

-----------------------------------------------------------------------------
(***************************************************************************)
(* Properties.                                                             *)
(***************************************************************************)

\* An account that is shown healthy has a credential that worked in a scan or a
\* test of its own row, unless the credential was replaced after that check had
\* read it (PUT leaves the status): an account that is registered again does not
\* take over the result of a check that began before it was deleted.
HealthyMeansWorked ==
  \A a \in Accounts :
    row[a] # None /\ a \notin doubted =>
      (row[a].status = "healthy" => row[a].credential \in worked[a])

\* An account is put off only by a scan of its own row that is stored with all
\* of its drifts: not by the scan of a row that was deleted, nor by one that
\* failed on the way, whose account is scanned again.
PutOffWhenScanned ==
  \A a \in Accounts : row[a] # None /\ ~row[a].due => a \in complete
=============================================================================
