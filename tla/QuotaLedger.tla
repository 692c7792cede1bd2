---------------------------- MODULE QuotaLedger ----------------------------
(***************************************************************************)
(* The storage account of each user: one row of user_storage_quota in      *)
(* MySQL.  Every operator below is one SQL statement (or one transaction)  *)
(* of internal/repository/mysql/storage.go; MySQL executes each of them    *)
(* atomically, and nothing else in the program writes the row.             *)
(*                                                                         *)
(* LedgerSpec is the promise the account makes to the rest of the system:  *)
(* whatever callers do, in whatever order, the row only moves by these     *)
(* statements, under their WHERE clauses.                                  *)
(***************************************************************************)
EXTENDS Integers

CONSTANTS
    Users,   \* users that own a quota row
    Quota,   \* quota_bytes of each row, fixed at registration; 0 = unlimited
    Sizes    \* byte counts a caller passes; callers reject size <= 0

ASSUME QuotaAssumption ==
    /\ Quota \in [Users -> Nat]
    /\ Sizes \subseteq Nat \ {0}

VARIABLES
    used,       \* used_bytes
    reserved    \* reserved_bytes

ledgerVars == <<used, reserved>>

LedgerTypeOK ==
    /\ used \in [Users -> Nat]
    /\ reserved \in [Users -> Nat]

LedgerInit ==
    /\ used = [u \in Users |-> 0]
    /\ reserved = [u \in Users |-> 0]

-----------------------------------------------------------------------------

\* Mutant of Exceeds: the bytes other uploads reserved are not counted.
ExceedsUsedOnly(u, n) == Quota[u] > 0 /\ n > Quota[u] - used[u]

\* The test ReserveStorage makes under SELECT ... FOR UPDATE.  Its order keeps
\* the unsigned subtractions from wrapping: each is reached only when defined.
Exceeds(u, n) ==
    /\ Quota[u] > 0
    /\ \/ used[u] > Quota[u]
       \/ reserved[u] > Quota[u] - used[u]
       \/ n > Quota[u] - used[u] - reserved[u]

\* Mutant of ReserveStorage: the transaction is never committed.
ReserveRolledBack(u, n) == ~Exceeds(u, n) /\ UNCHANGED ledgerVars

ReserveStorage(u, n) ==
    /\ ~Exceeds(u, n)
    /\ reserved' = [reserved EXCEPT ![u] = @ + n]
    /\ UNCHANGED used

\* Mutant of HasReserved: the UPDATE has no reserved_bytes >= ? condition.
AnyReserved(u, n) == TRUE

\* The WHERE clause shared by CommitStorage and ReleaseStorage; a statement
\* that matches no row reports "storage reservation not found".
HasReserved(u, n) == reserved[u] >= n

CommitStorage(u, n) ==
    /\ HasReserved(u, n)
    /\ reserved' = [reserved EXCEPT ![u] = @ - n]
    /\ used' = [used EXCEPT ![u] = @ + n]

ReleaseStorage(u, n) ==
    /\ HasReserved(u, n)
    /\ reserved' = [reserved EXCEPT ![u] = @ - n]
    /\ UNCHANGED used

ReleaseAllReservedStorage(u) ==
    /\ reserved' = [reserved EXCEPT ![u] = 0]
    /\ UNCHANGED used

ResetStorageQuota(u) ==
    /\ used' = [used EXCEPT ![u] = 0]
    /\ reserved' = [reserved EXCEPT ![u] = 0]

LedgerNext ==
    \E u \in Users :
        \/ \E n \in Sizes : ReserveStorage(u, n)
        \/ \E n \in Sizes : CommitStorage(u, n)
        \/ \E n \in Sizes : ReleaseStorage(u, n)
        \/ ReleaseAllReservedStorage(u)
        \/ ResetStorageQuota(u)

LedgerSpec == LedgerInit /\ [][LedgerNext]_ledgerVars

-----------------------------------------------------------------------------

\* A limited user never holds more than the quota, counting both the bytes
\* charged for uploaded objects and the bytes promised to pending uploads.
QuotaBound ==
    \A u \in Users : Quota[u] > 0 => used[u] + reserved[u] <= Quota[u]
=============================================================================
