----------------------------- MODULE Validator ------------------------------
(***************************************************************************)
(* The block simulator's validation API (simulator/src/validation/mod.rs,  *)
(* blacklist.rs): requests that validate submitted blocks side by side,    *)
(* the task that refreshes the disallow list below them, and the cache of  *)
(* state reads that they share.                                            *)
(*                                                                         *)
(* The disallow list is a concurrent set: each lookup of a request and     *)
(* each insertion of the refresh is a step of its own.  Consensus rules    *)
(* and EVM execution are external: a submission says which of them it      *)
(* fails, what executing it reads and what it pays.                        *)
(***************************************************************************)
EXTENDS Integers, Sequences, FiniteSets, Payment

CONSTANTS
    Requests,           \* requests that can run side by side
    Submissions,        \* what they validate: see Submission
    Addresses,
    Lists,              \* what the blacklist endpoint can answer
    ValidationWindow,   \* validation_window
    MaxHeight           \* bound: height of the node

\* The checks outside this model that a submission can fail, in their order.
Defects == {"none", "blobs", "malformed", "size", "header", "consensus",
            "parentRules", "execution", "accessList", "postExecution", "stateRoot"}

Versions == {"v1", "v2", "v3", "v4", "v5", "v6"}

(***************************************************************************)
(* named     beneficiary, fee recipient, senders and called addresses      *)
(* accessed  every account that execution reads                            *)
(* list      the inclusion list: whether each transaction is in the block, *)
(*           decodes, and is valid on top of the block (`transact' answers  *)
(*           Ok for one that reverts, too)                                 *)
(* base      base_payment_tx_index of a merged block                       *)
(***************************************************************************)
Submission ==
    [version : Versions, merged : BOOLEAN, base : Nat, parent : Nat, defect : Defects,
     apply : BOOLEAN, named : SUBSET Addresses, accessed : SUBSET Addresses,
     list : Seq([included : BOOLEAN, decodes : BOOLEAN, valid : BOOLEAN]),
     value : Nat,
     block : [before : Nat, after : Nat, withdrawn : Nat, txs : Seq(PaidTransaction)]]

ASSUME SubmissionsAssumption ==
    /\ Submissions \subseteq Submission
    /\ \A s \in Submissions :
          s.named \subseteq s.accessed /\ (s.merged => s.version \in {"v5", "v6"})
ASSUME ListsAssumption == Lists \subseteq SUBSET Addresses
ASSUME WindowAssumption == ValidationWindow \in Nat /\ MaxHeight \in Nat

VARIABLES
    height,     \* the node's latest block
    deployedAt, \* the block that deployed the payment forwarder, if it is that high
    disallow,   \* the disallow list
    refresh,    \* the refresh task: where it stands
    toInsert,   \* the refresh task: fetched addresses not yet inserted
    loaded,     \* disallow_loaded
    size,       \* disallow_size
    hash,       \* current_hash: <<>> or <<list>>, a digest stands for its list
    hashGauges, \* the hashes whose gauge is one
    cacheHead,  \* cached_state.0, -1 before the first request
    cacheReads, \* cached_state.1: the heads its reads were made at
    at,         \* each request: where it stands
    sub,        \* each request: its submission
    todo,       \* each request: addresses still to be looked up
    reads,      \* each request: its request_cache
    fetched,    \* history: the list of the last successful fetch
    throughout  \* history: each request: addresses listed since it began

refreshVars == <<disallow, refresh, toInsert, loaded, size, hash, hashGauges, fetched>>
cacheVars == <<cacheHead, cacheReads>>
requestVars == <<at, sub, todo, reads>>
vars == <<height, deployedAt, refreshVars, cacheVars, requestVars, throughout>>

NoSubmission == [version |-> "none"]

\* Where a request that has its answer stands.
Accepted == "accepted"
Rejected == "rejected"

Init ==
    /\ height = 0
    /\ deployedAt \in 0..(MaxHeight + 1)
    /\ disallow = {}
    /\ refresh = "waiting"
    /\ toInsert = {}
    /\ loaded = FALSE
    /\ size = 0
    /\ hash = <<>>
    /\ hashGauges = {}
    /\ cacheHead = -1
    /\ cacheReads = {}
    /\ at = [r \in Requests |-> "idle"]
    /\ sub = [r \in Requests |-> NoSubmission]
    /\ todo = [r \in Requests |-> {}]
    /\ reads = [r \in Requests |-> {}]
    /\ fetched = {}
    /\ throughout = [r \in Requests |-> {}]

\* The node commits a block.
Grow ==
    /\ height < MaxHeight
    /\ height' = height + 1
    /\ UNCHANGED <<deployedAt, refreshVars, cacheVars, requestVars, throughout>>

-----------------------------------------------------------------------------
(***************************************************************************)
(* The refresh task: fetch at each tick, then clear, insert and report.    *)
(***************************************************************************)
Fetch(list) ==
    /\ refresh = "waiting"
    /\ refresh' = "clear"
    /\ toInsert' = list
    /\ fetched' = list
    /\ UNCHANGED <<height, deployedAt, disallow, loaded, size, hash, hashGauges,
                   cacheVars, requestVars, throughout>>

\* Mutant of Clear: the old entries stay.
ClearNothing ==
    /\ refresh = "clear"
    /\ refresh' = "insert"
    /\ UNCHANGED <<height, deployedAt, disallow, toInsert, loaded, size, hash,
                   hashGauges, fetched, cacheVars, requestVars, throughout>>

Clear ==
    /\ refresh = "clear"
    /\ refresh' = "insert"
    /\ disallow' = {}
    /\ throughout' = [r \in Requests |-> {}]
    /\ UNCHANGED <<height, deployedAt, toInsert, loaded, size, hash, hashGauges,
                   fetched, cacheVars, requestVars>>

Insert ==
    /\ refresh = "insert"
    /\ \E a \in toInsert :
          /\ disallow' = disallow \cup {a}
          /\ toInsert' = toInsert \ {a}
    /\ UNCHANGED <<height, deployedAt, refresh, loaded, size, hash, hashGauges,
                   fetched, cacheVars, requestVars, throughout>>

\* changed_disallow_hash: a digest stands for the set it is computed from, in
\* whatever order the set is iterated.
ChangedDisallowHash(list, previous) == previous # <<list>>

\* The gauges, and the hash when the list changed; the old hash's gauge is reset.
Report ==
    /\ refresh = "insert"
    /\ toInsert = {}
    /\ size' = Cardinality(disallow)
    /\ loaded' = TRUE
    /\ IF ChangedDisallowHash(disallow, hash)
       THEN /\ hash' = <<disallow>>
            /\ hashGauges' = (hashGauges \ Range(hash)) \cup {disallow}
       ELSE UNCHANGED <<hash, hashGauges>>
    /\ refresh' = "waiting"
    /\ UNCHANGED <<height, deployedAt, disallow, toInsert, fetched, cacheVars,
                   requestVars, throughout>>

\* A failing fetch is only logged, so it is a step that changes nothing.
RefreshStep == (\E list \in Lists : Fetch(list)) \/ Clear \/ Insert \/ Report

-----------------------------------------------------------------------------
(***************************************************************************)
(* A request                                                               *)
(***************************************************************************)
outside == <<height, deployedAt, refreshVars>>

Goto(r, step) == at' = [at EXCEPT ![r] = step]

\* Move on to `step' if the check passes, reject otherwise.
Require(r, check, step) ==
    /\ Goto(r, IF check THEN step ELSE Rejected)
    /\ UNCHANGED <<outside, cacheVars, sub, todo, reads, throughout>>

\* The methods of v1 to v3 answer that they are not implemented.
Submit(r, s) ==
    /\ at[r] = "idle"
    /\ sub' = [sub EXCEPT ![r] = s]
    /\ Goto(r, IF s.version \in {"v1", "v2", "v3"} THEN Rejected ELSE "payload")
    /\ throughout' = [throughout EXCEPT ![r] = disallow]
    /\ UNCHANGED <<outside, cacheVars, todo, reads>>

\* validate_blobs_bundle and validate_blobs_bundle_v2.
ValidBlobsBundle(s) == s.defect # "blobs"

\* payload_into_block: a well-formed block within the size limit.
PayloadIntoBlock(s) == ValidBlobsBundle(s) /\ s.defect \notin {"malformed", "size"}

\* v4 converts the payload itself and does not look at the size.
CheckPayload(r) ==
    LET s == sub[r]
    IN  /\ at[r] = "payload"
        /\ Require(r, IF s.version = "v4"
                      THEN ValidBlobsBundle(s) /\ s.defect # "malformed"
                      ELSE PayloadIntoBlock(s),
                   "header")

\* The disallow list is looked at only if it is not empty and the relay asks for it.
Lookups(r, addresses) ==
    IF disallow # {} /\ sub[r].apply THEN addresses ELSE {}

\* validate_message_against_header: the bid's fields are the header's.
MessageMatchesHeader(s) == s.defect # "header"

\* The header against the bid, and the rules that need no parent.
CheckHeader(r) ==
    /\ at[r] = "header"
    /\ IF ~MessageMatchesHeader(sub[r]) \/ sub[r].defect = "consensus"
       THEN Goto(r, Rejected) /\ UNCHANGED todo
       ELSE Goto(r, "named") /\ todo' = [todo EXCEPT ![r] = Lookups(r, sub[r].named)]
    /\ UNCHANGED <<outside, cacheVars, sub, reads, throughout>>

\* One lookup, or the end of them.
LookUp(r, step) ==
    \/ todo[r] = {} /\ Require(r, TRUE, step)
    \/ \E a \in todo[r] :
          /\ IF a \in disallow
             THEN Goto(r, Rejected) /\ todo' = [todo EXCEPT ![r] = {}]
             ELSE todo' = [todo EXCEPT ![r] = @ \ {a}] /\ UNCHANGED at
          /\ UNCHANGED <<outside, cacheVars, sub, reads, throughout>>

LookUpNamed(r) == at[r] = "named" /\ LookUp(r, "parent")

\* get_parent_header, and the rules against the parent.
CheckParent(r) ==
    /\ at[r] = "parent"
    /\ Require(r, /\ sub[r].parent <= height
                  /\ height - sub[r].parent <= ValidationWindow
                  /\ sub[r].defect # "parentRules",
               "load")

\* cached_reads.
LoadReads(r) ==
    /\ at[r] = "load"
    /\ reads' = [reads EXCEPT ![r] =
                    IF cacheHead = sub[r].parent THEN cacheReads ELSE {}]
    /\ Goto(r, "execute")
    /\ UNCHANGED <<outside, cacheVars, sub, todo, throughout>>

\* Mutant of Execute: the accounts it read are not looked up.
ExecuteUnscreened(r) ==
    /\ at[r] = "execute"
    /\ IF sub[r].defect \in {"execution", "accessList"}
       THEN Goto(r, Rejected) /\ UNCHANGED <<todo, reads>>
       ELSE /\ Goto(r, "accessed")
            /\ reads' = [reads EXCEPT ![r] = @ \cup {sub[r].parent}]
            /\ todo' = [todo EXCEPT ![r] = {}]
    /\ UNCHANGED <<outside, cacheVars, sub, throughout>>

\* execute_block up to the disallow list: what is not in the request's cache is
\* read from the parent's state.
Execute(r) ==
    /\ at[r] = "execute"
    /\ IF sub[r].defect \in {"execution", "accessList"}
       THEN Goto(r, Rejected) /\ UNCHANGED <<todo, reads>>
       ELSE /\ Goto(r, "accessed")
            /\ reads' = [reads EXCEPT ![r] = @ \cup {sub[r].parent}]
            /\ todo' = [todo EXCEPT ![r] = Lookups(r, sub[r].accessed)]
    /\ UNCHANGED <<outside, cacheVars, sub, throughout>>

LookUpAccessed(r) == at[r] = "accessed" /\ LookUp(r, "list")

\* validate_inclusion_list_constraint.
SatisfiesList(list) ==
    \A i \in DOMAIN list :
        list[i].included \/ (list[i].decodes /\ ~list[i].valid)

CheckInclusionList(r) ==
    /\ at[r] = "list"
    /\ Require(r, SatisfiesList(sub[r].list), "update")

\* Mutant of UpdateReads: the reads are added whatever the head.
UpdateReadsOfAnyHead(r) ==
    /\ at[r] = "update"
    /\ cacheHead' = sub[r].parent
    /\ cacheReads' = cacheReads \cup reads[r]
    /\ Goto(r, "settle")
    /\ UNCHANGED <<outside, sub, todo, reads, throughout>>

\* update_cached_reads.
UpdateReads(r) ==
    /\ at[r] = "update"
    /\ cacheHead' = sub[r].parent
    /\ cacheReads' = IF cacheHead = sub[r].parent THEN cacheReads \cup reads[r]
                     ELSE reads[r]
    /\ Goto(r, "settle")
    /\ UNCHANGED <<outside, sub, todo, reads, throughout>>

\* The payment forwarder is in the state of this block.
Deployed(number) == deployedAt <= number

\* The payment checks that found the forwarder; a read that fails finds nothing.
CanFind == IF Deployed(height) THEN {"last", "base"} ELSE {}

\* The rules after execution, the payment and the state root.
Settle(r) ==
    LET s == sub[r]
    IN  /\ at[r] = "settle"
        /\ \E found \in SUBSET CanFind :
              Require(r, /\ s.defect \notin {"postExecution", "stateRoot"}
                         /\ IF s.merged
                            THEN EnsureMergedPayment(s.block, s.value, found, s.base)
                            ELSE EnsurePayment(s.block, s.value, "last" \in found),
                      Accepted)

Finish(r) ==
    /\ at[r] \in {Accepted, Rejected}
    /\ Goto(r, "idle")
    /\ sub' = [sub EXCEPT ![r] = NoSubmission]
    /\ reads' = [reads EXCEPT ![r] = {}]
    /\ throughout' = [throughout EXCEPT ![r] = {}]
    /\ UNCHANGED <<outside, cacheVars, todo>>

RequestStep(r) ==
    \/ \E s \in Submissions : Submit(r, s)
    \/ CheckPayload(r)
    \/ CheckHeader(r)
    \/ LookUpNamed(r)
    \/ CheckParent(r)
    \/ LoadReads(r)
    \/ Execute(r)
    \/ LookUpAccessed(r)
    \/ CheckInclusionList(r)
    \/ UpdateReads(r)
    \/ Settle(r)
    \/ Finish(r)

Next == Grow \/ RefreshStep \/ \E r \in Requests : RequestStep(r)

Spec == Init /\ [][Next]_vars
-----------------------------------------------------------------------------
(***************************************************************************)
(* Properties                                                              *)
(***************************************************************************)

\* The shared cache holds reads of one head, its own, whichever requests on
\* whichever parents load and update it in turn; and no request executes on
\* reads of another block than its parent.
ReadsOfOneHead ==
    /\ cacheReads \subseteq {cacheHead}
    /\ \A r \in Requests : at[r] # "idle" => reads[r] \subseteq {sub[r].parent}

\* A block that reads an account which is on the disallow list from the request's
\* start to its end is not accepted when the relay asks for the list.  An address
\* that the refresh takes off the list and puts back is not covered.
ListedThroughoutIsRejected ==
    \A r \in Requests :
        at[r] = Accepted /\ sub[r].apply => sub[r].accessed \cap throughout[r] = {}

\* Between two refreshes the list is the one fetched last, whatever fetches
\* failed since, and the gauges describe it: its size, and its hash alone.
SettledListIsFetched ==
    refresh = "waiting" /\ loaded =>
        /\ disallow = fetched
        /\ size = Cardinality(fetched)
        /\ hashGauges = {fetched}

\* The transactions the payment check counts: the last, and the one at
\* base_payment_tx_index of a merged block.
Counted(s) ==
    {s.block.txs[i] : i \in DOMAIN s.block.txs \cap
                              ({Len(s.block.txs)} \cup (IF s.merged THEN {s.base + 1} ELSE {}))}

\* What the check takes on trust: that a batch it counts moved its entries, and that
\* a forwarder it finds now was there already in the parent.
OnTrust(s) ==
    \E tx \in Counted(s) :
        \/ s.merged /\ tx.input = "batch" /\ tx.delegate /\ ~tx.moves
        \/ Forwards(tx) /\ Deployed(height) /\ ~Deployed(s.parent)

\* An accepted block pays the proposer the value of its bid: no transaction counts
\* twice, none that failed counts, and none through a forwarder that is not deployed
\* (ensure_payment, ensure_merged_payment).  The one exception is a counted
\* transaction of the two kinds that the check takes on trust.
AcceptedIsPaid ==
    \A r \in Requests : at[r] = Accepted =>
        \/ PaidInFull(sub[r].block, sub[r].value, Deployed(sub[r].parent))
        \/ OnTrust(sub[r])
-----------------------------------------------------------------------------
(***************************************************************************)
(* What a comment says and the code does not do                            *)
(***************************************************************************)

\* A wrong base_payment_tx_index fails closed and never lets an underpaid block
\* through (ensure_merged_payment): a merged block whose index names a transaction
\* that moves nothing to the proposer is accepted only if the others pay in full.
WrongIndexFailsClosed ==
    \A r \in Requests :
        at[r] = Accepted /\ sub[r].merged =>
            LET s == sub[r]
                paid == Deployed(s.parent)
            IN  s.base + 1 \in DOMAIN s.block.txs /\ Credits(s.block.txs[s.base + 1], paid) = 0
                    => PaidInFull(s.block, s.value, paid)
=============================================================================
