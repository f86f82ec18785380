------------------------------ MODULE CaseLedger ------------------------------
(***************************************************************************)
(* What resumable runs of a release split promise, whatever faults, retries *)
(* and crashes they meet: cases are committed to disk in release order, one *)
(* at a time, and a committed case never changes.  The one thing that can   *)
(* be lost is a ledger that holds every case, when the process dies inside  *)
(* the final save; such a ledger stays lost.                                *)
(***************************************************************************)
EXTENDS Integers

CONSTANTS LedgerCases,   \* the cases that are committed, numbered in order
          NotCommitted   \* stands for the answers of a case that has none

VARIABLES ledger,        \* the answers committed for each case
          lost           \* the ledger cannot be read any more

ledgerVars == <<ledger, lost>>

LedgerInit ==
    /\ ledger = [c \in LedgerCases |-> NotCommitted]
    /\ lost = FALSE

Commit(c) ==
    /\ ~lost /\ ledger[c] = NotCommitted
    /\ \A d \in LedgerCases : d < c => ledger[d] # NotCommitted
    /\ ledger'[c] # NotCommitted
    /\ ledger' = [ledger EXCEPT ![c] = ledger'[c]]
    /\ UNCHANGED lost

Lose ==
    /\ ~lost /\ \A c \in LedgerCases : ledger[c] # NotCommitted
    /\ lost' = TRUE
    /\ ledger' = [c \in LedgerCases |-> NotCommitted]

LedgerNext == Lose \/ \E c \in LedgerCases : Commit(c)

LedgerSpec == LedgerInit /\ [][LedgerNext]_ledgerVars

=============================================================================
