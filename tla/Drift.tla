------------------------------- MODULE Drift -------------------------------
(***************************************************************************)
(* What Prowler finds in a cloud account, and compareWithBaseline of       *)
(* apps/durtguardian/src/cspm.ts, which tells how two scans differ.        *)
(*                                                                         *)
(* A finding has the id of its check, which it shares with the findings of *)
(* the check's other resources. The comparison goes by that id. A drift is *)
(* stored without the id and the kind: the id keeps two drifts of one      *)
(* resource apart here, and the kind is which of the statuses is missing.  *)
(***************************************************************************)
EXTENDS Naturals, Sequences

CONSTANTS Checks, Resources

Status == {"PASS", "FAIL"}

Finding == [id: Checks, resource: Resources, status: Status, severity: {"low", "high"}]

DriftRecord ==
  [id: Checks, resource: Resources, before: Status \cup {"none"}, after: Status \cup {"none"}]

Has(findings, id) == \E i \in DOMAIN findings : findings[i].id = id

\* A map is made of the findings: the last with an id stays in it.
Of(findings, id) ==
  findings[CHOOSE i \in DOMAIN findings :
             findings[i].id = id /\ \A j \in DOMAIN findings : findings[j].id = id => j <= i]

StatusOf(findings, id) == IF Has(findings, id) THEN Of(findings, id).status ELSE "none"

\* Mutant: what is missing from the new scan is not looked for.
DiffersKnown(before, after, id) ==
  /\ Has(after, id)
  /\ Has(before, id) => \/ Of(before, id).status # Of(after, id).status
                        \/ Of(before, id).severity # Of(after, id).severity

Differs(before, after, id) ==
  IF Has(before, id) /\ Has(after, id)
  THEN \/ Of(before, id).status # Of(after, id).status
       \/ Of(before, id).severity # Of(after, id).severity
  ELSE Has(before, id) \/ Has(after, id)

\* compareWithBaseline
Compare(before, after) ==
  {[id |-> id,
    resource |-> Of(IF Has(after, id) THEN after ELSE before, id).resource,
    before |-> StatusOf(before, id),
    after |-> StatusOf(after, id)] : id \in {c \in Checks : Differs(before, after, c)}}

-----------------------------------------------------------------------------
(***************************************************************************)
(* What the drifts of two scans should tell, said without the comparison.  *)
(***************************************************************************)
FindingsOf(findings, id) == {findings[i] : i \in {j \in DOMAIN findings : findings[j].id = id}}

\* In each of the scans the check has one finding at most, of one resource.
OneFinding(old, new) ==
  /\ \A f, g \in old : f = g
  /\ \A f, g \in new : f = g
  /\ \A f \in old, g \in new : f.resource = g.resource

\* Each change of such a check is told once, with its resource, and with what it
\* was and has become.
Tells(drifts, before, after) ==
  \A id \in Checks :
    LET old == FindingsOf(before, id)
        new == FindingsOf(after, id)
        told == {d \in drifts : d.id = id}
        Was(findings) == IF findings = {} THEN {"none"} ELSE {f.status : f \in findings}
    IN OneFinding(old, new) =>
         /\ old = new <=> told = {}
         /\ \A d \in told : /\ {d.resource} = {f.resource : f \in old \cup new}
                           /\ {d.before} = Was(old)
                           /\ {d.after} = Was(new)
=============================================================================
