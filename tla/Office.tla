------------------------------- MODULE Office -------------------------------
(***************************************************************************)
(* What the back office keeps up and who copies it: the rows of Catalog,   *)
(* the purchases of Suppliers, the phone of ReferenceCache and the dumps   *)
(* of Backups, on one database and one clock.                              *)
(***************************************************************************)
EXTENDS Suppliers, ReferenceCache, Backups

officeVars == <<scene, catalogVars, cacheVars, supplierVars, backupVars>>

OfficeTypeOK == CatalogTypeOK /\ CacheTypeOK /\ SuppliersTypeOK /\ BackupsTypeOK

OfficeInit == CatalogInit /\ CacheInit /\ SuppliersInit /\ BackupsInit

CatalogStep ==
  /\ \/ Tick
     \/ \E x \in Row : RowStep(x)
     \/ \E c \in Change : ChangeStep(c)
  /\ UNCHANGED cacheVars

OfficeNext ==
  /\ \/ (CatalogStep \/ \E x \in Row : RowAppears(x)) /\ UNCHANGED <<supplierVars, backupVars>>
     \/ PullStep     /\ UNCHANGED <<catalogVars, supplierVars, backupVars>>
     \/ SupplierStep /\ UNCHANGED <<catalogVars, cacheVars, backupVars>>
     \/ BackupStep   /\ UNCHANGED <<catalogVars, cacheVars, supplierVars>>
  /\ UNCHANGED scene

OfficeSpec == OfficeInit /\ [][OfficeNext]_officeVars
=============================================================================
