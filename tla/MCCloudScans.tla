---------------------------- MODULE MCCloudScans ----------------------------
(***************************************************************************)
(* A small instance of CloudScans for TLC: see MCCloudScans.cfg. A         *)
(* behaviour shows one of three things, so that their states add up. With  *)
(* its liveness property symmetry would not be sound.                      *)
(***************************************************************************)
EXTENDS CloudScans, TLC

CONSTANTS account, other, cycle, credential

VARIABLE shows

F(id, resource, status, severity) ==
  [id |-> id, resource |-> resource, status |-> status, severity |-> severity]

\* Two checks, of which one may look at two resources.
Clean == <<F(1, "x", "PASS", "low")>>
Worse == <<F(1, "x", "PASS", "high"), F(2, "y", "FAIL", "high")>>
Shared == <<F(1, "x", "FAIL", "high"), F(1, "y", "PASS", "low")>>
MCPostures == {<<>>, Clean, Worse, Shared}

FirstRow == [id |-> 1, enabled |-> TRUE, credential |-> credential, status |-> "healthy", due |-> TRUE]
FirstScan == [findings |-> Clean, drifts |-> {}, before |-> None, by |-> "done"]

\* The accounts in scanned have been registered and scanned once.
Begun(scanned) ==
  /\ row = [a \in Accounts |-> IF a \in scanned THEN FirstRow ELSE None]
  /\ registered = [a \in Accounts |-> IF a \in scanned THEN 1 ELSE 0]
  /\ order = <<account, other>>
  /\ test = [t \in Tests |-> None]
  /\ worked = [a \in Accounts |-> IF a \in scanned THEN {credential} ELSE {}]
  /\ stale = {}
  /\ doubted = {}
  /\ complete = scanned
  /\ posture = [a \in Accounts |-> Clean]
  /\ last = [a \in Accounts |-> IF a \in scanned THEN FirstScan ELSE None]
  /\ cycles = [c \in Cycles |-> Waiting]
  /\ overtaken = {}

MCInit ==
  \/ shows = "drifts" /\ Begun({account})
  \/ shows = "rows" /\ Begun({})
  \/ shows = "failures" /\ Begun(Accounts)

OnlyAccount == row'[other] = None /\ last'[other] = None /\ posture'[other] = posture[other]
OneCycle == \A c \in Cycles : c # cycle => cycles'[c] = Waiting
NoPost == \A a \in Accounts : last'[a] # None => last'[a].by # "posted"

\* Two cycles scan one account while it changes.
Drifts ==
  /\ UNCHANGED <<test, stale, doubted, registered>>
  /\ Next
  /\ OnlyAccount
  /\ row'[account] # None
  /\ row'[account] = [row[account] EXCEPT !.due = row'[account].due]
  /\ posture'[account] \in {Clean, Worse}
  /\ NoPost

\* One account is configured, deleted and registered again while it is tested
\* and scanned, and clients store scans of it.
Rows ==
  /\ posture' = posture
  /\ Next
  /\ OnlyAccount
  /\ row'[account] # None =>
       row'[account].enabled /\ (row'[account].id = 2 => row'[account].credential = credential)
  /\ OneCycle
  /\ last'[account] # last[account] /\ last'[account].by = "posted" =>
       last'[account].findings = Shared /\ registered[account] = 1

\* Two accounts, one of which may be disabled or fail for ever.
Failures ==
  /\ UNCHANGED <<test, stale, doubted, registered>>
  /\ Next
  /\ \A a \in Accounts : /\ row'[a] # None
                         /\ row'[a].credential = credential
                         /\ row'[a].status = "healthy"
  /\ row'[account].enabled
  /\ posture'[account] \in {Clean, Worse}
  /\ posture'[other] = Clean
  /\ OneCycle
  /\ NoPost

MCNext ==
  /\ \/ shows = "drifts" /\ Drifts
     \/ shows = "rows" /\ Rows
     \/ shows = "failures" /\ Failures
  /\ UNCHANGED shows

\* Fairness, where the liveness property is checked: elsewhere it would only cost.
Live == shows = "failures"
MCFairness ==
  /\ WF_vars(Live /\ Goes)
  /\ \A a \in Accounts : /\ WF_vars(Live /\ GoesStale(a))
                         /\ SF_vars(Live /\ IsTried(a))
                         /\ SF_vars(Live /\ IsNoted(a))
  /\ \A a \in Reliable : /\ SF_vars(Live /\ IsFound(a))
                         /\ SF_vars(Live /\ IsCompared(a))
                         /\ SF_vars(Live /\ IsStored(a))

\* The liveness property, where an account may fail for ever, with one cycle at
\* a time and no scans stored by clients.
FailuresAreIsolated == Live => ScansFollowPosture

MCSpec == MCInit /\ [][MCNext]_<<vars, shows>> /\ MCFairness
=============================================================================
