----------------------------- MODULE SyncTypes -----------------------------
(* What the phone and the server of offline synchronisation share: the operations and *)
(* enum SyncStatus of backend/prisma/schema.prisma.                                   *)

CONSTANT Op     \* operations, by their uuid: clientOperationId, the id of the phone's row

Recorded == {"PENDING", "SYNCED", "CONFLICT", "FAILED"}      \* enum SyncStatus
Failure  == {"CONFLICT", "FAILED"}
=============================================================================
