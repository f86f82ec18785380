----------------------------- MODULE ResumableRun -----------------------------
(***************************************************************************)
(* ReleaseRun restricted to what a release run that is resumed until it is *)
(* done uses: every invocation resumes, all select the same cases, and     *)
(* every selected case has queries.  Under that discipline the predictions *)
(* file is a ledger (CaseLedger).  Without it, it is not: a checkpoint     *)
(* holds only the cases the loop has taken up, so that a case with nothing *)
(* to skip (newly selected, or without queries) in front of finished ones  *)
(* takes these off the disk until the loop has passed them.                *)
(***************************************************************************)
EXTENDS ReleaseRun

CONSTANT NotCommitted   \* stands for the answers of a case that has none on disk

\* all invocations select the same cases, each with a query to answer
OneSelection ==
    /\ \A s, t \in Scopes : s = t
    /\ \A c \in UNION Scopes : QueriesOf(c) # {}

Resumable == OneSelection /\ ResumeChoices = {TRUE}

ASSUME NotCommittedAssumption ==
    NotCommitted \notin UNION {[QueriesOf(c) -> Prediction] : c \in Cases}

-----------------------------------------------------------------------------
\* run_state.json never reports more completed cases, or more predictions, than
\* the predictions file holds: whoever watches it can trust its counts even when
\* the process died between the writes of the two files.  This takes a
\* checkpoint, written first, but no resume.
LiveNeverAheadOfDisk ==
    fileState # "torn" =>
        /\ live.completed <= Cardinality({c \in Cases :
                                 \A q \in QueriesOf(c) : file[q] # NoPrediction})
        /\ live.predictions <= Count(file)

\* An invocation never changes or loses a prediction of a case that was
\* complete on disk.
DurableCasesAreFinal ==
    [][\A c \in Cases : CaseComplete(file, c) /\ fileState' = "whole" =>
          \A q \in QueriesOf(c) : file'[q] = file[q]]_vars

-----------------------------------------------------------------------------
\* while the final save rewrites the file, the process still holds the answers
committed == IF pc = "saving" THEN Ordered(preds) ELSE file

AnswersOf(c) == [q \in QueriesOf(c) |-> committed[q]]

ledgerOfRun ==
    [c \in UNION Scopes |->
        IF CaseComplete(committed, c) THEN AnswersOf(c) ELSE NotCommitted]

lostOfRun == fileState = "torn" /\ pc # "saving"

Ledger == INSTANCE CaseLedger WITH
            LedgerCases <- UNION Scopes, ledger <- ledgerOfRun, lost <- lostOfRun

\* Resumed runs implement the ledger: cases reach the disk in release order and
\* a case on disk is final, across faults, retries and crashes.
ImplementsLedger == Ledger!LedgerSpec

=============================================================================
