--------------------------- MODULE MCTenantIngest ---------------------------
(***************************************************************************)
(* A small instance of TenantIngest for TLC: see MCTenantIngest.cfg. A     *)
(* behaviour shows one of three things, so that their states add up: the   *)
(* rate limit, with requests that bring no logs; the endpoints, without    *)
(* attacks; the audit log, with requests that bring attacks only.          *)
(***************************************************************************)
EXTENDS TenantIngest, TLC

VARIABLE shows

MCPaths == {<<"users", "me">>, <<"users", "1">>}
MCDocuments == {{<<"users", Param>>}, {<<"users", "me">>}, {<<"users">>}}

MCInit ==
  /\ Init
  /\ shows \in {"limit", "endpoints", "audit"}
  /\ redis = (shows = "limit")

MCNext ==
  /\ \/ shows = "limit" /\ Next /\ <<store, document, rows, recorder>>' = <<store, document, rows, recorder>>
          /\ \A h \in Handlers : ingest'[h].attacks = 0
     \/ shows = "endpoints" /\ Next /\ recorder' = recorder
          /\ \A h \in Handlers : ingest'[h].attacks = 0
     \/ shows = "audit" /\ Next /\ <<store, document, rows>>' = <<store, document, rows>>
  /\ UNCHANGED shows

Symmetry == Permutations(Handlers) \cup Permutations(Recorders)

MCSpec == MCInit /\ [][MCNext]_<<vars, shows>>
=============================================================================
