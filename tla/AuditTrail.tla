----------------------------- MODULE AuditTrail -----------------------------
(***************************************************************************)
(* The audit log of one tenant (recordAuditLog in storage.ts): each record *)
(* carries the hash of the one before it, which is read first and by a     *)
(* statement of its own. Records are made by handlers and by the events    *)
(* that they publish and do not wait for (eventBus.ts, index.ts).          *)
(*                                                                         *)
(* Simplifications.                                                        *)
(*  - A record's hash is its number in the order of created_at, which is   *)
(*    that of the inserts. What it says is left out.                       *)
(***************************************************************************)
EXTENDS Sequences, Naturals

CONSTANTS
  Recorders,  \* bound: the events and handlers that record at a time
  MaxRecords  \* bound: the records

VARIABLES
  trail,     \* the rows of audit_logs: the hash each one carries, and whether
             \* another recorder was at work between its two statements (a
             \* history variable)
  recorder   \* recorder[a]: where a is in recordAuditLog

auditVars == <<trail, recorder>>

AtRest == [pc |-> "idle", previous |-> 0, met |-> FALSE]

AuditInit ==
  /\ trail = <<>>
  /\ recorder = [a \in Recorders |-> AtRest]

\* An event reaches its handler, which lists the identities first.
BeginRecord(a) ==
  /\ recorder[a] = AtRest
  /\ recorder' = [recorder EXCEPT ![a].pc = "read"]
  /\ UNCHANGED trail

AtWork(a) == {b \in Recorders \ {a} : recorder[b].pc = "insert"}

\* Mutant: the first record is taken for the last one.
ReadFirst(a) ==
  /\ recorder[a].pc = "read"
  /\ recorder' = [recorder EXCEPT ![a] =
       [pc |-> "insert", previous |-> IF trail = <<>> THEN 0 ELSE 1, met |-> AtWork(a) # {}]]
  /\ UNCHANGED trail

ReadLast(a) ==
  /\ recorder[a].pc = "read"
  /\ recorder' =
       [b \in Recorders |->
          IF b = a THEN [pc |-> "insert", previous |-> Len(trail), met |-> AtWork(a) # {}]
          ELSE IF b \in AtWork(a) THEN [recorder[b] EXCEPT !.met = TRUE]
          ELSE recorder[b]]
  /\ UNCHANGED trail

InsertRecord(a) ==
  /\ recorder[a].pc = "insert"
  /\ Len(trail) < MaxRecords
  /\ trail' = Append(trail, [previous |-> recorder[a].previous, met |-> recorder[a].met])
  /\ recorder' = [recorder EXCEPT ![a] = AtRest]

\* The rejection is nobody's: the event is published and not waited for.
RecordFails(a) ==
  /\ recorder[a].pc # "idle"
  /\ recorder' = [recorder EXCEPT ![a] = AtRest]
  /\ UNCHANGED trail

Recording(a) == ReadLast(a) \/ InsertRecord(a) \/ RecordFails(a)

RecordersDie ==
  /\ recorder' = [a \in Recorders |-> AtRest]
  /\ UNCHANGED trail

AuditNext ==
  \/ \E a \in Recorders : BeginRecord(a) \/ Recording(a)
  \/ RecordersDie

AuditSpec == AuditInit /\ [][AuditNext]_auditVars

\* The records form one chain, each carrying the hash of the one before it,
\* but where two were being made at once: a fork or a gap in the audit log that
\* has another cause would be a record that was removed or forged.
ForksNeedOverlap ==
  \A i \in DOMAIN trail : trail[i].previous = i - 1 \/ trail[i].met

\* For the proofs: recorders between their statements have met each other, and
\* one that has met nobody has read the last record.
RecordersMeet ==
  \A a \in Recorders : recorder[a].pc = "insert" =>
    /\ AtWork(a) # {} => recorder[a].met
    /\ recorder[a].met \/ recorder[a].previous = Len(trail)
=============================================================================
