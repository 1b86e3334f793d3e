----------------------------- MODULE Validation -----------------------------
(***************************************************************************)
(* The stateless decisions of flashblocks/src/validation.rs: where an      *)
(* incoming flashblock stands relative to the last one held, how a         *)
(* canonical block compares with what was tracked for it, and what is      *)
(* done with the pending snapshot when a canonical block arrives.          *)
(*                                                                         *)
(* The counts the Rust variants carry are diagnostics and are left out.    *)
(***************************************************************************)
EXTENDS Integers, Sequences

\* u64::saturating_sub.
SaturatingSub(a, b) == IF a >= b THEN a - b ELSE 0

SequenceValidationResult ==
    {"NextInSequence", "FirstOfNextBlock", "NewPayloadForCurrentBlock",
     "Duplicate", "NonSequentialGap", "InvalidNewBlockIndex"}

\* Mutant of Validate: any flashblock of the next block starts it.
ValidateAnyIndex(latest, incoming) ==
    IF /\ incoming.block = latest.block
       /\ incoming.index = 0
       /\ incoming.payload # latest.payload
    THEN "NewPayloadForCurrentBlock"
    ELSE IF incoming.block = latest.block /\ incoming.index = latest.index + 1
    THEN "NextInSequence"
    ELSE IF incoming.block = latest.block + 1
    THEN "FirstOfNextBlock"
    ELSE IF incoming.block # latest.block
    THEN "InvalidNewBlockIndex"
    ELSE IF incoming.index = latest.index
    THEN "Duplicate"
    ELSE "NonSequentialGap"

(***************************************************************************)
(* FlashblockSequenceValidator::validate.  Both arguments have the fields  *)
(* block, index and payload; `latest' is the last flashblock held.  The    *)
(* order of the tests is the code's, and only the first one looks at the   *)
(* payload.                                                                *)
(***************************************************************************)
Validate(latest, incoming) ==
    IF /\ incoming.block = latest.block
       /\ incoming.index = 0
       /\ incoming.payload # latest.payload
    THEN "NewPayloadForCurrentBlock"
    ELSE IF incoming.block = latest.block /\ incoming.index = latest.index + 1
    THEN "NextInSequence"
    ELSE IF incoming.block = latest.block + 1 /\ incoming.index = 0
    THEN "FirstOfNextBlock"
    ELSE IF incoming.block # latest.block
    THEN "InvalidNewBlockIndex"
    ELSE IF incoming.index = latest.index
    THEN "Duplicate"
    ELSE "NonSequentialGap"

-----------------------------------------------------------------------------
ReorgDetectionResult ==
    {"NoReorg", "Untracked", "CanonicalExtendsTracked", "ReorgDetected"}

\* slice::starts_with.
StartsWith(seq, prefix) ==
    /\ Len(prefix) <= Len(seq)
    /\ \A i \in 1..Len(prefix) : prefix[i] = seq[i]

\* ReorgDetector::detect, on the transaction hashes of one block.
Detect(tracked, canonical) ==
    IF tracked = <<>> /\ canonical # <<>>
    THEN "Untracked"
    ELSE IF tracked = canonical
    THEN "NoReorg"
    ELSE IF StartsWith(canonical, tracked)
    THEN "CanonicalExtendsTracked"
    ELSE "ReorgDetected"

\* ReorgDetectionResult::requires_rebuild: anything short of an exact match.
RequiresRebuild(result) == result # "NoReorg"

-----------------------------------------------------------------------------
ReconciliationStrategy ==
    {"CatchUp", "HandleReorg", "DepthLimitExceeded", "Continue"}

(***************************************************************************)
(* CanonicalBlockReconciler::reconcile for a pending state that exists;    *)
(* its only caller has already returned when there is none.                *)
(***************************************************************************)
Reconcile(earliest, latest, canonical, maxDepth, rebuild) ==
    IF latest <= canonical
    THEN "CatchUp"
    ELSE IF rebuild
    THEN "HandleReorg"
    ELSE IF SaturatingSub(canonical, earliest) > maxDepth
    THEN "DepthLimitExceeded"
    ELSE "Continue"
=============================================================================
