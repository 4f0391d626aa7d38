------------------------- MODULE MCDtlsAssociations --------------------------
(***************************************************************************)
(* Instances of DtlsAssociations for TLC.                                  *)
(***************************************************************************)
EXTENDS DtlsAssociations

CONSTANTS e1, e2, join, moved

TwoEndpoints == {e1, e2}
JoinAndMigration == {join, moved}
MigrationOnly == {moved}

(* One client joins and migrates; another migrates. *)
Joining == {<<e1, join>>, <<e1, moved>>}
TwoClients == Joining \cup {<<e2, moved>>}

(* The first client tries twice to migrate. *)
TwoAttempts == [p \in TwoClients |-> IF p = <<e1, moved>> THEN 2 ELSE 1]
=============================================================================
