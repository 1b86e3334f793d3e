--------------------------- MODULE ValidatorProofs ---------------------------
(***************************************************************************)
(* Proofs about Validator, for any number of requests side by side, any    *)
(* submissions and any lists the blacklist endpoint answers.               *)
(***************************************************************************)
EXTENDS Validator, DataProofs

(***************************************************************************)
(* The inductive invariant                                                 *)
(***************************************************************************)
Steps == {"idle", "payload", "header", "named", "parent", "load", "execute",
          "accessed", "list", "update", "settle", Accepted, Rejected}

TableType ==
    /\ at \in [Requests -> Steps]
    /\ sub \in [Requests -> Submissions \cup {NoSubmission}]
    /\ todo \in [Requests -> SUBSET Addresses]
    /\ reads \in [Requests -> SUBSET Nat]
    /\ throughout \in [Requests -> SUBSET Addresses]
    /\ disallow \in SUBSET Addresses
    /\ toInsert \in SUBSET Addresses
    /\ fetched \in SUBSET Addresses
    /\ \A r \in Requests : at[r] # "idle" => sub[r] \in Submissions

\* A request starts without reads, and its reads and those of the cache are of
\* one block each.
ReadsInv ==
    /\ cacheReads \subseteq {cacheHead}
    /\ \A r \in Requests : at[r] = "idle" => reads[r] = {}
    /\ \A r \in Requests : at[r] # "idle" => reads[r] \subseteq {sub[r].parent}

\* What the refresh task still has to do, and what the gauges say.
RefreshInv ==
    /\ refresh \in {"waiting", "clear", "insert"}
    /\ refresh = "waiting" /\ loaded => disallow = fetched
    /\ refresh = "clear" => toInsert = fetched
    /\ refresh = "insert" => disallow \cup toInsert = fetched
    /\ refresh = "waiting" /\ loaded => size = Cardinality(fetched) /\ hash = <<fetched>>
    /\ \/ hash = <<>> /\ hashGauges = {}
       \/ \E d : hash = <<d>> /\ hashGauges = {d}

\* Addresses listed throughout a request are on the list; once the accounts it
\* read are being looked up, those among them are found or still to be looked up.
Screened(r) ==
    /\ throughout[r] \subseteq disallow
    /\ sub[r].apply /\ at[r] = "accessed" =>
          sub[r].accessed \cap throughout[r] \subseteq todo[r]
    /\ sub[r].apply /\ at[r] \in {"list", "update", "settle", Accepted} =>
          sub[r].accessed \cap throughout[r] = {}

ScreenedInv == \A r \in Requests : Screened(r)

IndInv == TableType /\ ReadsInv /\ RefreshInv /\ ScreenedInv

-----------------------------------------------------------------------------
\* The fields of a submission.
LEMMA SubmissionType ==
    ASSUME NEW s \in Submissions
    PROVE  /\ s.parent \in Nat
           /\ s.apply \in BOOLEAN
           /\ s.named \in SUBSET Addresses
           /\ s.accessed \in SUBSET Addresses
BY SubmissionsAssumption DEF Submission

\* At first the list and the caches are empty and no request runs.
LEMMA InitInv == Init => IndInv
<1> SUFFICES ASSUME Init PROVE IndInv
  OBVIOUS
<1>1. TableType
  BY DEF Init, TableType, Steps
<1>2. ReadsInv
  BY DEF Init, ReadsInv
<1>3. RefreshInv
  BY DEF Init, RefreshInv
<1>4. ScreenedInv
  BY DEF Init, ScreenedInv, Screened, Accepted
<1> QED BY <1>1, <1>2, <1>3, <1>4 DEF IndInv

\* The refresh task leaves the requests alone, but for what was listed throughout.
LEMMA RefreshKeeps == IndInv /\ RefreshStep => IndInv'
<1> SUFFICES ASSUME IndInv, RefreshStep PROVE IndInv'
  OBVIOUS
<1> USE DEF IndInv, requestVars, cacheVars
<1>1. CASE \E list \in Lists : Fetch(list)
  <2>1. PICK list \in Lists : Fetch(list)
    BY <1>1
  <2>2. list \in SUBSET Addresses
    BY ListsAssumption
  <2>3. TableType' /\ ReadsInv'
    BY <2>1, <2>2 DEF Fetch, TableType, ReadsInv
  <2>4. RefreshInv'
    BY <2>1 DEF Fetch, RefreshInv
  <2>5. ScreenedInv'
    BY <2>1 DEF Fetch, ScreenedInv, Screened
  <2> QED BY <2>3, <2>4, <2>5
<1>2. CASE Clear
  <2>1. TableType' /\ ReadsInv'
    BY <1>2 DEF Clear, TableType, ReadsInv
  <2>2. RefreshInv'
    BY <1>2 DEF Clear, RefreshInv
  <2>3. ScreenedInv'
    BY <1>2 DEF Clear, ScreenedInv, Screened
  <2> QED BY <2>1, <2>2, <2>3
<1>3. CASE Insert
  <2>1. TableType' /\ ReadsInv'
    BY <1>3 DEF Insert, TableType, ReadsInv
  <2>2. RefreshInv'
    BY <1>3 DEF Insert, RefreshInv
  <2>3. ScreenedInv'
    BY <1>3 DEF Insert, ScreenedInv, Screened
  <2> QED BY <2>1, <2>2, <2>3
<1>4. CASE Report
  <2>1. TableType' /\ ReadsInv'
    BY <1>4 DEF Report, TableType, ReadsInv
  <2>2. disallow = fetched
    BY <1>4 DEF Report, RefreshInv
  <2>3. hash' = <<fetched>> /\ hashGauges' = {fetched}
    <3>1. CASE hash = <<>>
      BY <1>4, <2>2, <3>1 DEF Report, RefreshInv, ChangedDisallowHash, Range
    <3>2. CASE hash # <<>>
      <4>1. PICK d : hash = <<d>> /\ hashGauges = {d}
        BY <3>2 DEF RefreshInv
      <4>2. Range(hash) = {d}
        BY <4>1 DEF Range
      <4> QED BY <1>4, <2>2, <4>1, <4>2 DEF Report, ChangedDisallowHash
    <3> QED BY <3>1, <3>2
  <2>4. RefreshInv'
    BY <1>4, <2>2, <2>3 DEF Report, RefreshInv
  <2>5. ScreenedInv'
    BY <1>4 DEF Report, ScreenedInv, Screened
  <2> QED BY <2>1, <2>4, <2>5
<1> QED BY <1>1, <1>2, <1>3, <1>4 DEF RefreshStep

\* A check of a request, passed or not, that looks at no account.
LEMMA RequireKeeps ==
    ASSUME IndInv, NEW q \in Requests, NEW check, NEW step \in Steps,
           at[q] # "idle", step # "idle",
           step = "accessed" => at[q] = "accessed",
           step \in {"list", "update", "settle", Accepted} =>
               \/ at[q] \in {"list", "update", "settle"}
               \/ at[q] = "accessed" /\ todo[q] = {},
           Require(q, check, step)
    PROVE  TableType' /\ ReadsInv' /\ ScreenedInv'
<1>1. /\ at' = [at EXCEPT ![q] = IF check THEN step ELSE Rejected]
      /\ UNCHANGED <<disallow, toInsert, fetched, cacheHead, cacheReads, sub, todo,
                     reads, throughout>>
  BY DEF Require, Goto, outside, refreshVars, cacheVars
<1>2. PICK s \in Steps : at' = [at EXCEPT ![q] = s] /\ (s = step \/ s = Rejected)
  BY <1>1 DEF Steps
<1>3. TableType'
  BY <1>1, <1>2 DEF IndInv, TableType
<1>4. ReadsInv'
  BY <1>1, <1>2 DEF IndInv, TableType, ReadsInv, Rejected
<1>5. ASSUME NEW r \in Requests PROVE Screened(r)'
  <2>1. CASE r = q
    <3>1. Screened(q) /\ at'[q] = s
      BY <1>2 DEF IndInv, ScreenedInv, TableType
    <3> QED BY <1>1, <1>2, <2>1, <3>1 DEF Screened, Accepted, Rejected
  <2>2. CASE r # q
    <3>1. Screened(r) /\ at'[r] = at[r]
      BY <1>2, <2>2 DEF IndInv, ScreenedInv, TableType
    <3> QED BY <1>1, <3>1 DEF Screened
  <2> QED BY <2>1, <2>2
<1> QED BY <1>3, <1>4, <1>5 DEF ScreenedInv

\* A step that looks accounts up one by one, as `accessed' or before it.
LEMMA LookUpKeeps ==
    ASSUME IndInv, NEW q \in Requests, NEW step \in Steps,
           \/ at[q] = "named" /\ step = "parent"
           \/ at[q] = "accessed" /\ step = "list",
           LookUp(q, step)
    PROVE  TableType' /\ ReadsInv' /\ ScreenedInv'
<1>1. CASE todo[q] = {} /\ Require(q, TRUE, step)
  BY <1>1, RequireKeeps DEF Accepted
<1>2. CASE \E a \in todo[q] :
          /\ IF a \in disallow
             THEN Goto(q, Rejected) /\ todo' = [todo EXCEPT ![q] = {}]
             ELSE todo' = [todo EXCEPT ![q] = @ \ {a}] /\ UNCHANGED at
          /\ UNCHANGED <<outside, cacheVars, sub, reads, throughout>>
  <2>1. PICK a \in todo[q] :
          /\ IF a \in disallow
             THEN Goto(q, Rejected) /\ todo' = [todo EXCEPT ![q] = {}]
             ELSE todo' = [todo EXCEPT ![q] = @ \ {a}] /\ UNCHANGED at
          /\ UNCHANGED <<outside, cacheVars, sub, reads, throughout>>
    BY <1>2
  <2>2. UNCHANGED <<disallow, toInsert, fetched, cacheHead, cacheReads, sub, reads,
                    throughout>>
    BY <2>1 DEF outside, refreshVars, cacheVars
  <2>3. CASE a \in disallow
    <3>1. /\ at' = [at EXCEPT ![q] = Rejected]
          /\ todo' = [todo EXCEPT ![q] = {}]
      BY <2>1, <2>3 DEF Goto
    <3>2. TableType' /\ ReadsInv'
      BY <2>2, <3>1 DEF IndInv, TableType, ReadsInv, Steps, Rejected
    <3>3. ScreenedInv'
      BY <2>2, <3>1 DEF IndInv, TableType, ScreenedInv, Screened, Rejected, Accepted
    <3> QED BY <3>2, <3>3
  <2>4. CASE a \notin disallow
    <3>1. todo' = [todo EXCEPT ![q] = @ \ {a}] /\ UNCHANGED at
      BY <2>1, <2>4
    <3>2. TableType' /\ ReadsInv'
      BY <2>2, <3>1 DEF IndInv, TableType, ReadsInv
    <3>3. ScreenedInv'
      BY <2>2, <2>4, <3>1 DEF IndInv, TableType, ScreenedInv, Screened
    <3> QED BY <3>2, <3>3
  <2> QED BY <2>3, <2>4
<1> QED BY <1>1, <1>2 DEF LookUp

-----------------------------------------------------------------------------
\* The steps of a request, between which the refresh and other requests may fall.
LEMMA RequestKeeps ==
    ASSUME IndInv, NEW q \in Requests, RequestStep(q)
    PROVE  IndInv'
<1> USE DEF IndInv
<1>1. RefreshInv'
  <2>1. UNCHANGED refreshVars
    BY DEF RequestStep, Submit, CheckPayload, CheckHeader, LookUpNamed, CheckParent,
           LoadReads, Execute, LookUpAccessed, CheckInclusionList, UpdateReads,
           Settle, Finish, LookUp, Require, outside
  <2> QED BY <2>1 DEF refreshVars, RefreshInv
<1>2. CASE \E s \in Submissions : Submit(q, s)
  <2>1. PICK s \in Submissions : Submit(q, s)
    BY <1>2
  <2>2. PICK step \in {Rejected, "payload"} : at' = [at EXCEPT ![q] = step]
    BY <2>1 DEF Submit, Goto
  <2>3. /\ at[q] = "idle"
        /\ sub' = [sub EXCEPT ![q] = s]
        /\ throughout' = [throughout EXCEPT ![q] = disallow]
        /\ UNCHANGED <<disallow, toInsert, fetched, cacheHead, cacheReads, todo, reads>>
    BY <2>1 DEF Submit, outside, refreshVars, cacheVars
  <2>4. TableType' /\ ReadsInv'
    BY <2>2, <2>3 DEF TableType, ReadsInv, Steps, Rejected
  <2>5. ScreenedInv'
    BY <2>2, <2>3 DEF TableType, ScreenedInv, Screened, Rejected, Accepted
  <2> QED BY <1>1, <2>4, <2>5
<1>3. CASE CheckPayload(q)
  <2>1. PICK check : Require(q, check, "header") /\ at[q] = "payload"
    BY <1>3 DEF CheckPayload
  <2> QED BY <1>1, <2>1, RequireKeeps DEF Steps, Accepted
<1>4. CASE CheckHeader(q)
  <2>1. PICK step \in {Rejected, "named"}, addresses \in SUBSET Addresses :
           at' = [at EXCEPT ![q] = step] /\ todo' = [todo EXCEPT ![q] = addresses]
    <3>1. CASE ~MessageMatchesHeader(sub[q]) \/ sub[q].defect = "consensus"
      <4>1. at' = [at EXCEPT ![q] = Rejected] /\ todo' = [todo EXCEPT ![q] = todo[q]]
        BY <1>4, <3>1 DEF CheckHeader, Goto, TableType
      <4>2. todo[q] \in SUBSET Addresses
        BY DEF TableType
      <4> QED BY <4>1, <4>2
    <3>2. CASE ~(~MessageMatchesHeader(sub[q]) \/ sub[q].defect = "consensus")
      <4>1. /\ at' = [at EXCEPT ![q] = "named"]
            /\ todo' = [todo EXCEPT ![q] = Lookups(q, sub[q].named)]
        BY <1>4, <3>2 DEF CheckHeader, Goto
      <4>2. sub[q] \in Submissions
        BY <1>4 DEF CheckHeader, TableType
      <4>3. Lookups(q, sub[q].named) \in SUBSET Addresses
        BY <4>2, SubmissionType DEF Lookups
      <4> QED BY <4>1, <4>3
    <3> QED BY <3>1, <3>2
  <2>2. /\ at[q] = "header"
        /\ UNCHANGED <<disallow, toInsert, fetched, cacheHead, cacheReads, sub, reads,
                       throughout>>
    BY <1>4 DEF CheckHeader, outside, refreshVars, cacheVars
  <2>3. TableType' /\ ReadsInv'
    BY <2>1, <2>2 DEF TableType, ReadsInv, Steps, Rejected
  <2>4. ScreenedInv'
    BY <2>1, <2>2 DEF TableType, ScreenedInv, Screened, Rejected, Accepted
  <2> QED BY <1>1, <2>3, <2>4
<1>5. CASE LookUpNamed(q)
  BY <1>1, <1>5, LookUpKeeps DEF LookUpNamed, Steps
<1>6. CASE CheckParent(q)
  <2>1. PICK check : Require(q, check, "load") /\ at[q] = "parent"
    BY <1>6 DEF CheckParent
  <2> QED BY <1>1, <2>1, RequireKeeps DEF Steps, Accepted
<1>7. CASE LoadReads(q)
  <2>1. /\ at[q] = "load"
        /\ at' = [at EXCEPT ![q] = "execute"]
        /\ reads' = [reads EXCEPT ![q] =
                        IF cacheHead = sub[q].parent THEN cacheReads ELSE {}]
        /\ UNCHANGED <<disallow, toInsert, fetched, cacheHead, cacheReads, sub, todo,
                       throughout>>
    BY <1>7 DEF LoadReads, Goto, outside, refreshVars, cacheVars
  <2>2. sub[q].parent \in Nat
    BY <2>1, SubmissionType DEF TableType
  <2>3. PICK R \in SUBSET {sub[q].parent} : reads' = [reads EXCEPT ![q] = R]
    BY <2>1 DEF ReadsInv
  <2>4. TableType' /\ ReadsInv'
    BY <2>1, <2>2, <2>3 DEF TableType, ReadsInv, Steps
  <2>5. ScreenedInv'
    BY <2>1 DEF TableType, ScreenedInv, Screened, Accepted
  <2> QED BY <1>1, <2>4, <2>5
<1>8. CASE Execute(q)
  <2>1. /\ at[q] = "execute"
        /\ UNCHANGED <<disallow, toInsert, fetched, cacheHead, cacheReads, sub,
                       throughout>>
    BY <1>8 DEF Execute, outside, refreshVars, cacheVars
  <2>2. sub[q] \in Submissions
    BY <2>1 DEF TableType
  <2>3. sub[q].parent \in Nat /\ sub[q].accessed \in SUBSET Addresses
    BY <2>2, SubmissionType
  <2>4. CASE sub[q].defect \in {"execution", "accessList"}
    <3>1. at' = [at EXCEPT ![q] = Rejected] /\ UNCHANGED <<todo, reads>>
      BY <1>8, <2>4 DEF Execute, Goto
    <3>2. TableType' /\ ReadsInv'
      BY <2>1, <3>1 DEF TableType, ReadsInv, Steps, Rejected
    <3>3. ScreenedInv'
      BY <2>1, <3>1 DEF TableType, ScreenedInv, Screened, Rejected, Accepted
    <3> QED BY <1>1, <3>2, <3>3
  <2>5. CASE sub[q].defect \notin {"execution", "accessList"}
    <3>1. /\ at' = [at EXCEPT ![q] = "accessed"]
          /\ reads' = [reads EXCEPT ![q] = @ \cup {sub[q].parent}]
          /\ todo' = [todo EXCEPT ![q] = Lookups(q, sub[q].accessed)]
      BY <1>8, <2>5 DEF Execute, Goto
    <3>2. Lookups(q, sub[q].accessed) \in SUBSET Addresses
      BY <2>3 DEF Lookups
    <3>3. TableType' /\ ReadsInv'
      BY <2>1, <2>3, <3>1, <3>2 DEF TableType, ReadsInv, Steps
    <3>4. sub[q].apply => sub[q].accessed \cap throughout[q]
                              \subseteq Lookups(q, sub[q].accessed)
      BY DEF ScreenedInv, Screened, Lookups
    <3>5. ScreenedInv'
      BY <2>1, <3>1, <3>4 DEF TableType, ScreenedInv, Screened, Accepted
    <3> QED BY <1>1, <3>3, <3>5
  <2> QED BY <2>4, <2>5
<1>9. CASE LookUpAccessed(q)
  BY <1>1, <1>9, LookUpKeeps DEF LookUpAccessed, Steps
<1>10. CASE CheckInclusionList(q)
  <2>1. PICK check : Require(q, check, "update") /\ at[q] = "list"
    BY <1>10 DEF CheckInclusionList
  <2> QED BY <1>1, <2>1, RequireKeeps DEF Steps
<1>11. CASE UpdateReads(q)
  <2>1. /\ at[q] = "update"
        /\ at' = [at EXCEPT ![q] = "settle"]
        /\ cacheHead' = sub[q].parent
        /\ cacheReads' = IF cacheHead = sub[q].parent THEN cacheReads \cup reads[q]
                         ELSE reads[q]
        /\ UNCHANGED <<disallow, toInsert, fetched, sub, todo, reads, throughout>>
    BY <1>11 DEF UpdateReads, Goto, outside, refreshVars
  <2>2. TableType' /\ ReadsInv'
    BY <2>1 DEF TableType, ReadsInv, Steps
  <2>3. ScreenedInv'
    BY <2>1 DEF TableType, ScreenedInv, Screened, Accepted
  <2> QED BY <1>1, <2>2, <2>3
<1>12. CASE Settle(q)
  <2>1. PICK check : Require(q, check, Accepted) /\ at[q] = "settle"
    BY <1>12 DEF Settle
  <2> QED BY <1>1, <2>1, RequireKeeps DEF Steps, Accepted
<1>13. CASE Finish(q)
  <2>1. /\ at' = [at EXCEPT ![q] = "idle"]
        /\ sub' = [sub EXCEPT ![q] = NoSubmission]
        /\ reads' = [reads EXCEPT ![q] = {}]
        /\ throughout' = [throughout EXCEPT ![q] = {}]
        /\ UNCHANGED <<disallow, toInsert, fetched, cacheHead, cacheReads, todo>>
    BY <1>13 DEF Finish, Goto, outside, refreshVars, cacheVars
  <2>2. TableType' /\ ReadsInv'
    BY <2>1 DEF TableType, ReadsInv, Steps
  <2>3. ScreenedInv'
    BY <2>1 DEF TableType, ScreenedInv, Screened, Accepted
  <2> QED BY <1>1, <2>2, <2>3
<1> QED
  BY <1>2, <1>3, <1>4, <1>5, <1>6, <1>7, <1>8, <1>9, <1>10, <1>11, <1>12, <1>13
  DEF RequestStep

\* Every step keeps the invariant.
LEMMA NextInv == IndInv /\ [Next]_vars => IndInv'
<1> SUFFICES ASSUME IndInv, [Next]_vars PROVE IndInv'
  OBVIOUS
<1>1. CASE Grow \/ UNCHANGED vars
  <2>1. UNCHANGED <<refreshVars, cacheVars, requestVars, throughout>>
    BY <1>1 DEF Grow, vars
  <2> QED
    BY <2>1 DEF refreshVars, cacheVars, requestVars, IndInv, TableType, ReadsInv,
                RefreshInv, ScreenedInv, Screened
<1>2. CASE RefreshStep
  BY <1>2, RefreshKeeps
<1>3. CASE \E r \in Requests : RequestStep(r)
  BY <1>3, RequestKeeps
<1> QED BY <1>1, <1>2, <1>3 DEF Next

\* However requests, refreshes and commits interleave in ValidationApi, its cache, its
\* list and the marks of the requests in flight stay related as IndInv says.
THEOREM Invariance == Spec => []IndInv
BY InitInv, NextInv, PTL DEF Spec

-----------------------------------------------------------------------------
(***************************************************************************)
(* update_cached_reads and cached_reads never mix the state of two blocks, *)
(* however many requests on however many parents run side by side.         *)
(***************************************************************************)
THEOREM CacheIsOfOneHead == Spec => []ReadsOfOneHead
<1>1. IndInv => ReadsOfOneHead
  BY DEF IndInv, ReadsInv, ReadsOfOneHead
<1> QED BY <1>1, Invariance, PTL

(***************************************************************************)
(* An address that is listed for as long as a request runs cannot be read  *)
(* by a block that the request accepts: validate_message_against_block     *)
(* looks every account up while the refresh goes on beside it.             *)
(***************************************************************************)
THEOREM ListedIsRejected == Spec => []ListedThroughoutIsRejected
<1>1. IndInv => ListedThroughoutIsRejected
  BY DEF IndInv, ScreenedInv, Screened, ListedThroughoutIsRejected
<1> QED BY <1>1, Invariance, PTL

(***************************************************************************)
(* Between two refreshes the list in force is the last one fetched, and    *)
(* the size and hash gauges describe it and nothing else.                  *)
(***************************************************************************)
THEOREM ListIsFetched == Spec => []SettledListIsFetched
<1>1. IndInv => SettledListIsFetched
  <2> SUFFICES ASSUME RefreshInv, refresh = "waiting", loaded
               PROVE  /\ disallow = fetched
                      /\ size = Cardinality(fetched)
                      /\ hashGauges = {fetched}
    BY DEF IndInv, SettledListIsFetched
  <2>1. disallow = fetched /\ size = Cardinality(fetched) /\ hash = <<fetched>>
    BY DEF RefreshInv
  <2>2. PICK d : hash = <<d>> /\ hashGauges = {d}
    BY <2>1 DEF RefreshInv
  <2> QED BY <2>1, <2>2
<1> QED BY <1>1, Invariance, PTL

-------------------------------------------------------------------------
(***************************************************************************)
(* The payment.  What a check of it recognises in a transaction is at most *)
(* what the transaction moves, and the block moves at least what any two   *)
(* of its transactions do.                                                 *)
(***************************************************************************)

\* The fields of a transaction.
LEMMA TransactionType ==
    ASSUME NEW tx \in PaidTransaction
    PROVE  /\ tx.value \in Nat
           /\ tx.entries \in Seq([to : {"recipient", "other"}, value : Nat])
           /\ tx.to \in {"recipient", "forwarder", "other"}
           /\ tx.input \in {"empty", "forwards", "batch", "other"}
BY DEF PaidTransaction

\* The entries of a batch add up to an amount.
LEMMA MultisendIsAmount ==
    ASSUME NEW tx \in PaidTransaction
    PROVE  MultisendPaidAmount(tx) \in Nat
<1> DEFINE es == tx.entries
           n == Len(es)
           Eq(f) == f = [s \in SUBSET DOMAIN es |->
                            IF s = {} THEN 0
                            ELSE IF es[Max(s)].to = "recipient"
                                 THEN f[s \ {Max(s)}] + es[Max(s)].value
                                 ELSE f[s \ {Max(s)}]]
           f == CHOOSE f : Eq(f)
           step == [i \in 1..n |-> [a \in Nat |->
                       IF es[i].to = "recipient" THEN a + es[i].value ELSE a]]
<1>1. es \in Seq([to : {"recipient", "other"}, value : Nat])
  BY TransactionType
<1>2. n \in Nat /\ DOMAIN es = 1..n /\ \A i \in 1..n : es[i].value \in Nat
  <2> HIDE DEF es
  <2>1. n \in Nat /\ DOMAIN es = 1..n
    BY <1>1
  <2> DEFINE Entry == [to : {"recipient", "other"}, value : Nat]
  <2>2. \A i \in 1..n : es[i] \in Entry
    <3>1. es \in Seq(Entry)
      BY <1>1
    <3> HIDE DEF Entry
    <3> QED BY <3>1
  <2> QED BY <2>1, <2>2
<1>3. MultisendPaidAmount(tx) = IF tx.input = "batch" /\ tx.delegate THEN f[DOMAIN es] ELSE 0
  BY DEF MultisendPaidAmount, FoldLeft, MapThenFoldSet
<1> HIDE DEF es, n
<1>4. step \in [1..n -> [Nat -> Nat]]
  BY <1>2
<1>5. \E g : Eq(g)
  <2> HIDE DEF step
  <2>1. PICK g : ListFoldOf(n, Nat, 0, step, g)
    BY <1>2, <1>4, ListFoldExists
  <2>2. ASSUME NEW s \in SUBSET (1..n), s # {}
        PROVE  g[s] = IF es[Max(s)].to = "recipient"
                      THEN g[s \ {Max(s)}] + es[Max(s)].value ELSE g[s \ {Max(s)}]
    <3>1. Max(s) \in 1..n
      BY <1>2, <2>2, MaxIn
    <3>2. g[s \ {Max(s)}] \in Nat /\ g[s] = step[Max(s)][g[s \ {Max(s)}]]
      BY <2>1, <2>2 DEF ListFoldOf
    <3> QED BY <3>1, <3>2 DEF step
  <2>3. g = [s \in SUBSET (1..n) |-> g[s]] /\ g[{}] = 0
    BY <2>1 DEF ListFoldOf
  <2>4. Eq(g)
    BY <1>2, <2>2, <2>3
  <2> HIDE DEF Eq
  <2> QED BY <2>4
<1>6. Eq(f)
  <2> HIDE DEF Eq
  <2> QED BY <1>5, Zenon DEF f
<1> HIDE DEF f
<1> DEFINE S == {i \in Nat : i <= n => f[1..i] \in Nat}
<1>7. 0 \in S
  <2>1. 1..0 = {}
    OBVIOUS
  <2>2. f[{}] = 0
    BY <1>6
  <2> QED BY <2>1, <2>2
<1>8. ASSUME NEW i \in Nat, i \in S PROVE i + 1 \in S
  <2>1. ASSUME i + 1 <= n PROVE f[1..(i + 1)] \in Nat
    <3> DEFINE s == 1..(i + 1)
    <3>1. i + 1 \in 1..n /\ (i + 1) - 1 = i /\ i <= n
      BY <1>2, <2>1
    <3>2. s \in SUBSET (1..n) /\ s # {} /\ Max(s) = i + 1 /\ s \ {i + 1} = 1..i
      BY <1>2, <3>1, PrefixPositions
    <3>3. f[s] = IF es[i + 1].to = "recipient" THEN f[1..i] + es[i + 1].value ELSE f[1..i]
      <4> HIDE DEF s
      <4>1. f[s] = IF es[Max(s)].to = "recipient"
                   THEN f[s \ {Max(s)}] + es[Max(s)].value ELSE f[s \ {Max(s)}]
        BY <1>2, <1>6, <3>2
      <4> QED BY <3>2, <4>1
    <3>4. f[1..i] \in Nat /\ es[i + 1].value \in Nat
      BY <1>2, <1>8, <3>1
    <3> QED BY <3>3, <3>4
  <2> QED BY <2>1
<1>9. \A i \in Nat : i \in S
  <2> HIDE DEF S
  <2> QED BY <1>7, <1>8, Induction
<1>10. f[1..n] \in Nat
  BY <1>2, <1>9
<1> QED BY <1>2, <1>3, <1>10

\* What a transaction moves is an amount,
LEMMA CreditsAreAmounts ==
    ASSUME NEW tx \in PaidTransaction, NEW d \in BOOLEAN
    PROVE  Credits(tx, d) \in Nat
BY TransactionType, MultisendIsAmount DEF Credits

\* and no less than what recognized_payment_at counts, save what it takes on trust.
LEMMA RecognizedIsMoved ==
    ASSUME NEW tx \in PaidTransaction, NEW b \in BOOLEAN, NEW d \in BOOLEAN, tx.status,
           Forwards(tx) /\ b => d,
           \/ PaidDirectly(tx) \/ PaidViaForwarder(tx, b)
           \/ tx.input = "batch" /\ tx.delegate => tx.moves
    PROVE  (IF PaidDirectly(tx) \/ PaidViaForwarder(tx, b) THEN tx.value
            ELSE MultisendPaidAmount(tx)) <= Credits(tx, d)
<1>1. tx.value \in Nat /\ MultisendPaidAmount(tx) \in Nat /\ Credits(tx, d) \in Nat
  BY TransactionType, MultisendIsAmount, CreditsAreAmounts
<1>2. CASE PaidDirectly(tx) \/ PaidViaForwarder(tx, b)
  <2>1. Credits(tx, d) = tx.value + (IF tx.moves THEN MultisendPaidAmount(tx) ELSE 0)
    BY <1>2 DEF Credits, PaidDirectly, PaidViaForwarder
  <2> QED BY <1>1, <1>2, <2>1
<1>3. CASE ~(PaidDirectly(tx) \/ PaidViaForwarder(tx, b)) /\ tx.moves
  <2>1. Credits(tx, d) >= MultisendPaidAmount(tx)
    BY <1>1, <1>3 DEF Credits
  <2> QED BY <1>1, <1>3, <2>1
<1>4. CASE ~(PaidDirectly(tx) \/ PaidViaForwarder(tx, b)) /\ ~tx.moves
  <2>1. MultisendPaidAmount(tx) = 0
    BY <1>4 DEF MultisendPaidAmount
  <2> QED BY <1>1, <1>4, <2>1
<1> QED BY <1>2, <1>3, <1>4

\* The block moves at least what two of its transactions do.
LEMMA MovedTogether ==
    ASSUME NEW txs \in Seq(PaidTransaction), NEW d \in BOOLEAN
    PROVE  LET total == MapThenSumSet(LAMBDA i : Credits(txs[i], d), DOMAIN txs)
           IN  /\ total \in Nat
               /\ \A i \in DOMAIN txs : Credits(txs[i], d) <= total
               /\ \A i, j \in DOMAIN txs :
                     i # j => Credits(txs[i], d) + Credits(txs[j], d) <= total
<1> DEFINE D == DOMAIN txs
           w == [i \in D |-> Credits(txs[i], d)]
           total == MapThenSumSet(LAMBDA i : Credits(txs[i], d), DOMAIN txs)
           Eq(f) == f = [s \in SUBSET D |->
                            IF s = {} THEN 0
                            ELSE Credits(txs[CHOOSE x \in s : TRUE], d)
                                     + f[s \ {CHOOSE x \in s : TRUE}]]
           f == CHOOSE f : Eq(f)
<1>1. D = 1..Len(txs) /\ Len(txs) \in Nat
  OBVIOUS
<1>2. IsFiniteSet(D)
  BY <1>1, FS_Interval
<1>3. w \in [D -> Nat]
  BY CreditsAreAmounts
<1>4. total = f[D]
  BY DEF MapThenSumSet, MapThenFoldSet
<1>5. ASSUME NEW g PROVE SumOf(D, w, g) <=> Eq(g)
  <2>1. ASSUME NEW s \in SUBSET D, s # {}
        PROVE  w[Member(s)] = Credits(txs[CHOOSE x \in s : TRUE], d)
    BY <2>1, MemberIn DEF Member
  <2>2. [s \in SUBSET D |-> IF s = {} THEN 0 ELSE w[Member(s)] + g[s \ {Member(s)}]]
        = [s \in SUBSET D |->
                            IF s = {} THEN 0
                            ELSE Credits(txs[CHOOSE x \in s : TRUE], d)
                                     + g[s \ {CHOOSE x \in s : TRUE}]]
    <3> HIDE DEF w, D
    <3> QED BY <2>1 DEF Member
  <2> HIDE DEF w, D
  <2> QED BY <2>2 DEF SumOf
<1> HIDE DEF D, w, total
<1>6. SumOf(D, w, f)
  <2>1. \E g : Eq(g)
    <3>1. PICK g : SumOf(D, w, g)
      BY <1>2, <1>3, SumExists
    <3> HIDE DEF Eq
    <3> QED BY <1>5, <3>1
  <2>2. Eq(f)
    <3> HIDE DEF Eq
    <3> QED BY <2>1, Zenon DEF f
  <2> HIDE DEF f, Eq
  <2> QED BY <1>5, <2>2
<1> HIDE DEF f, Eq
<1>7. \A s \in SUBSET D : f[s] \in Nat /\ \A x \in s : f[s] = w[x] + f[s \ {x}]
  <2>1. Additive(D, w, f)
    BY <1>2, <1>3, <1>6, SumRemove
  <2> QED BY <2>1 DEF Additive
<1>8. total \in Nat
  BY <1>4, <1>7
<1>9. ASSUME NEW i \in D PROVE w[i] <= total /\ w[i] \in Nat
  <2>1. D \ {i} \in SUBSET D /\ f[D \ {i}] \in Nat
    BY <1>7
  <2>2. f[D] = w[i] + f[D \ {i}]
    BY <1>7
  <2> QED BY <1>3, <1>4, <2>1, <2>2
<1>10. ASSUME NEW i \in D, NEW j \in D, i # j PROVE w[i] + w[j] <= total
  <2>1. j \in D \ {i} /\ D \ {i} \in SUBSET D /\ (D \ {i}) \ {j} \in SUBSET D
    BY <1>10
  <2>2. f[D] = w[i] + f[D \ {i}]
    BY <1>7
  <2>3. f[D \ {i}] = w[j] + f[(D \ {i}) \ {j}] /\ f[(D \ {i}) \ {j}] \in Nat
    BY <1>7, <2>1
  <2> QED BY <1>4, <1>9, <2>2, <2>3
<1> QED BY <1>8, <1>9, <1>10 DEF total, w, D

\* The payment of a block, as the requests check it.
LEMMA EnsuredIsPaid ==
    ASSUME NEW s \in Submissions, NEW d \in BOOLEAN, NEW found,
           \A tx \in Counted(s) :
              /\ s.merged /\ tx.input = "batch" /\ tx.delegate => tx.moves
              /\ Forwards(tx) /\ ("last" \in found \/ "base" \in found) => d,
           IF s.merged THEN EnsureMergedPayment(s.block, s.value, found, s.base)
           ELSE EnsurePayment(s.block, s.value, "last" \in found)
    PROVE  PaidInFull(s.block, s.value, d)
<1> DEFINE txs == s.block.txs
           total == MapThenSumSet(LAMBDA i : Credits(txs[i], d), DOMAIN txs)
           last == Len(txs) - 1
<1>1. txs \in Seq(PaidTransaction) /\ s.value \in Nat /\ s.base \in Nat
  BY SubmissionsAssumption DEF Submission
<1>2. SUFFICES ASSUME ~BalanceCovers(s.block, s.value) PROVE total >= s.value
  BY DEF PaidInFull
<1>3. /\ total \in Nat
      /\ \A i \in DOMAIN txs : Credits(txs[i], d) <= total
      /\ \A i, j \in DOMAIN txs :
            i # j => Credits(txs[i], d) + Credits(txs[j], d) <= total
  BY <1>1, MovedTogether
<1>4. /\ Len(txs) \in Nat /\ DOMAIN txs = 1..Len(txs)
      /\ \A i \in DOMAIN txs : txs[i] \in PaidTransaction
  BY <1>1
<1>5. ASSUME NEW i \in DOMAIN txs, i = Len(txs) \/ (s.merged /\ i = s.base + 1)
      PROVE  /\ s.merged /\ txs[i].input = "batch" /\ txs[i].delegate => txs[i].moves
             /\ Forwards(txs[i]) /\ ("last" \in found \/ "base" \in found) => d
  <2>1. txs[i] \in Counted(s)
    BY <1>5 DEF Counted
  <2> QED BY <2>1
<1>6. \A i \in DOMAIN txs : Credits(txs[i], d) \in Nat
  BY <1>4, CreditsAreAmounts
<1> HIDE DEF total
<1>7. CASE ~s.merged
  <2>1. /\ txs # <<>> /\ txs[Len(txs)].status /\ txs[Len(txs)].value = s.value
        /\ PaidDirectly(txs[Len(txs)]) \/ PaidViaForwarder(txs[Len(txs)], "last" \in found)
    BY <1>2, <1>7 DEF EnsurePayment, Last
  <2>2. Len(txs) \in DOMAIN txs
    BY <1>1, <1>4, <2>1
  <2>3. s.value <= Credits(txs[Len(txs)], d)
    <3>1. ("last" \in found) \in BOOLEAN
      OBVIOUS
    <3>2. Forwards(txs[Len(txs)]) /\ "last" \in found => d
      BY <1>5, <2>2
    <3>3. (IF PaidDirectly(txs[Len(txs)]) \/ PaidViaForwarder(txs[Len(txs)], "last" \in found)
           THEN txs[Len(txs)].value ELSE MultisendPaidAmount(txs[Len(txs)]))
             <= Credits(txs[Len(txs)], d)
      BY <1>4, <2>1, <2>2, <3>1, <3>2, RecognizedIsMoved
    <3> QED BY <2>1, <3>3
  <2> QED BY <1>1, <1>3, <1>6, <2>2, <2>3
<1>8. CASE s.merged
  <2> DEFINE Recognized(p, ix) == RecognizedPaymentAt(s.block, p \in found, ix)
  <2>1. /\ txs # <<>>
        /\ Recognized("last", last)
               + (IF s.base # last THEN Recognized("base", s.base) ELSE 0) >= s.value
    BY <1>2, <1>8 DEF EnsureMergedPayment
  <2>2. ASSUME NEW ix \in Nat, NEW p \in {"last", "base"}, ix = last \/ ix = s.base
        PROVE  /\ Recognized(p, ix) \in Nat
               /\ ix + 1 \notin DOMAIN txs => Recognized(p, ix) = 0
               /\ ix + 1 \in DOMAIN txs => Recognized(p, ix) <= Credits(txs[ix + 1], d)
    <3>1. CASE ix >= Len(txs)
      <4>1. Recognized(p, ix) = 0
        BY <3>1 DEF RecognizedPaymentAt
      <4> QED BY <1>4, <3>1, <4>1
    <3>2. CASE ~(ix >= Len(txs))
      <4> DEFINE tx == txs[ix + 1]
      <4>1. ix + 1 \in DOMAIN txs /\ tx \in PaidTransaction
        BY <1>4, <3>2
      <4>2. tx.value \in Nat /\ MultisendPaidAmount(tx) \in Nat
        BY <4>1, TransactionType, MultisendIsAmount
      <4>3. ix + 1 = Len(txs) \/ ix + 1 = s.base + 1
        BY <1>4, <2>2
      <4>4. /\ tx.input = "batch" /\ tx.delegate => tx.moves
            /\ Forwards(tx) /\ p \in found => d
        BY <1>5, <1>8, <2>2, <4>1, <4>3
      <4>5. CASE tx.status /\ tx.chain /\ tx.tip = 0
        <5>1. Recognized(p, ix)
                = IF PaidDirectly(tx) \/ PaidViaForwarder(tx, p \in found) THEN tx.value
                  ELSE MultisendPaidAmount(tx)
          BY <3>2, <4>5 DEF RecognizedPaymentAt
        <5>2. (p \in found) \in BOOLEAN
          OBVIOUS
        <5> HIDE DEF tx, Recognized
        <5>3. Recognized(p, ix) <= Credits(tx, d)
          BY <4>1, <4>4, <4>5, <5>1, <5>2, RecognizedIsMoved
        <5> QED BY <4>1, <4>2, <5>1, <5>3 DEF tx
      <4>6. CASE ~(tx.status /\ tx.chain /\ tx.tip = 0)
        <5>1. Recognized(p, ix) = 0
          BY <3>2, <4>6 DEF RecognizedPaymentAt
        <5> QED BY <1>6, <4>1, <5>1
      <4> QED BY <4>5, <4>6
    <3> QED BY <3>1, <3>2
  <2> HIDE DEF Recognized
  <2>3. last \in Nat /\ last + 1 \in DOMAIN txs /\ last + 1 = Len(txs)
    BY <1>1, <1>4, <2>1
  <2>4. /\ Recognized("last", last) \in Nat
        /\ Recognized("last", last) <= Credits(txs[last + 1], d)
    BY <2>2, <2>3
  <2> HIDE DEF last
  <2>5. CASE s.base # last /\ s.base + 1 \in DOMAIN txs
    <3>1. /\ Recognized("base", s.base) \in Nat
          /\ Recognized("base", s.base) <= Credits(txs[s.base + 1], d)
      BY <1>1, <2>2, <2>5
    <3>2. last + 1 # s.base + 1
      BY <1>1, <2>3, <2>5
    <3>3. Credits(txs[last + 1], d) + Credits(txs[s.base + 1], d) <= total
      BY <1>3, <2>3, <2>5, <3>2
    <3>4. Credits(txs[last + 1], d) \in Nat /\ Credits(txs[s.base + 1], d) \in Nat
      BY <1>6, <2>3, <2>5
    <3>5. Recognized("last", last) + Recognized("base", s.base)
             >= s.value
      BY <2>1, <2>5
    <3> QED BY <1>1, <1>3, <2>4, <3>1, <3>3, <3>4, <3>5
  <2>6. CASE ~(s.base # last /\ s.base + 1 \in DOMAIN txs)
    <3>1. Recognized("last", last) >= s.value
      <4>1. s.base # last => Recognized("base", s.base) = 0
        BY <1>1, <2>2, <2>6
      <4> QED BY <1>1, <2>1, <2>4, <4>1
    <3>2. Credits(txs[last + 1], d) <= total /\ Credits(txs[last + 1], d) \in Nat
      BY <1>3, <1>6, <2>3
    <3> QED BY <1>1, <1>3, <2>4, <3>1, <3>2
  <2> QED BY <2>5, <2>6
<1> QED BY <1>7, <1>8

-----------------------------------------------------------------------------
PaysOrTrusts(s) ==
    PaidInFull(s.block, s.value, Deployed(s.parent)) \/ OnTrust(s)

\* The forwarder stays where it is deployed, and what is accepted is paid.
PaidInv == deployedAt \in Nat /\ height \in Nat /\ AcceptedIsPaid

\* What is taken on trust stays so: the chain only grows.
LEMMA PaysLasts ==
    ASSUME deployedAt \in Nat, height \in Nat, deployedAt' = deployedAt,
           height' \in {height, height + 1}, NEW s, PaysOrTrusts(s)
    PROVE  PaysOrTrusts(s)'
<1>1. Deployed(height) => Deployed(height)'
  BY DEF Deployed
<1>2. Deployed(s.parent) <=> Deployed(s.parent)'
  BY DEF Deployed
<1>3. OnTrust(s) => OnTrust(s)'
  BY <1>1, <1>2 DEF OnTrust
<1>4. PaidInFull(s.block, s.value, Deployed(s.parent)) =>
         PaidInFull(s.block, s.value, Deployed(s.parent))'
  BY DEF Deployed
<1> QED BY <1>3, <1>4 DEF PaysOrTrusts

\* A request is accepted by Settle alone, and its submission stays.
LEMMA AcceptedBySettle ==
    ASSUME IndInv, NEW q \in Requests, RequestStep(q), NEW r \in Requests,
           at'[r] = Accepted, ~(r = q /\ Settle(q))
    PROVE  at[r] = Accepted /\ sub'[r] = sub[r]
<1> USE DEF IndInv, TableType, Accepted, Rejected
<1>1. CASE \E s \in Submissions : Submit(q, s)
  BY <1>1 DEF Submit, Goto
<1>2. CASE CheckPayload(q)
  BY <1>2 DEF CheckPayload, Require, Goto
<1>3. CASE CheckHeader(q)
  BY <1>3 DEF CheckHeader, Goto
<1>4. CASE LookUpNamed(q) \/ LookUpAccessed(q)
  BY <1>4 DEF LookUpNamed, LookUpAccessed, LookUp, Require, Goto
<1>5. CASE CheckParent(q)
  BY <1>5 DEF CheckParent, Require, Goto
<1>6. CASE LoadReads(q)
  BY <1>6 DEF LoadReads, Goto
<1>7. CASE Execute(q)
  BY <1>7 DEF Execute, Goto
<1>8. CASE CheckInclusionList(q)
  BY <1>8 DEF CheckInclusionList, Require, Goto
<1>9. CASE UpdateReads(q)
  BY <1>9 DEF UpdateReads, Goto
<1>10. CASE Settle(q)
  BY <1>10 DEF Settle, Require, Goto
<1>11. CASE Finish(q)
  BY <1>11 DEF Finish, Goto
<1> QED
  BY <1>1, <1>2, <1>3, <1>4, <1>5, <1>6, <1>7, <1>8, <1>9, <1>10, <1>11 DEF RequestStep

\* A request that Settle accepts.
LEMMA SettlePays ==
    ASSUME IndInv, deployedAt \in Nat, NEW q \in Requests, Settle(q), at'[q] = Accepted
    PROVE  PaysOrTrusts(sub[q])
<1>1. PICK found \in SUBSET CanFind :
         IF sub[q].merged
         THEN EnsureMergedPayment(sub[q].block, sub[q].value, found, sub[q].base)
         ELSE EnsurePayment(sub[q].block, sub[q].value, "last" \in found)
  BY DEF Settle, Require, Goto, Accepted, Rejected, IndInv, TableType
<1>2. sub[q] \in Submissions
  BY DEF Settle, IndInv, TableType
<1>3. "last" \in found \/ "base" \in found => Deployed(height)
  BY DEF CanFind
<1>4. SUFFICES ASSUME ~OnTrust(sub[q])
               PROVE  PaidInFull(sub[q].block, sub[q].value, Deployed(sub[q].parent))
  BY DEF PaysOrTrusts
<1>5. \A tx \in Counted(sub[q]) :
         /\ sub[q].merged /\ tx.input = "batch" /\ tx.delegate => tx.moves
         /\ Forwards(tx) /\ ("last" \in found \/ "base" \in found) => Deployed(sub[q].parent)
  BY <1>3, <1>4 DEF OnTrust
<1>6. Deployed(sub[q].parent) \in BOOLEAN
  BY DEF Deployed
<1> QED BY <1>1, <1>2, <1>5, <1>6, EnsuredIsPaid

\* Every step keeps it.
LEMMA NextPaid == IndInv /\ PaidInv /\ [Next]_vars => PaidInv'
<1> SUFFICES ASSUME IndInv, PaidInv, [Next]_vars PROVE PaidInv'
  OBVIOUS
<1>1. deployedAt' = deployedAt /\ height' \in {height, height + 1}
  <2>1. CASE Grow \/ UNCHANGED vars
    BY <2>1 DEF Grow, vars
  <2>2. CASE RefreshStep
    BY <2>2 DEF RefreshStep, Fetch, Clear, Insert, Report
  <2>3. CASE \E r \in Requests : RequestStep(r)
    BY <2>3 DEF RequestStep, Submit, CheckPayload, CheckHeader, LookUpNamed, CheckParent,
                LoadReads, Execute, LookUpAccessed, CheckInclusionList, UpdateReads,
                Settle, Finish, LookUp, Require, outside
  <2> QED BY <2>1, <2>2, <2>3 DEF Next
<1>2. SUFFICES ASSUME NEW r \in Requests, at'[r] = Accepted
               PROVE  PaysOrTrusts(sub'[r]) /\ sub'[r] = sub[r]
  <2>1. ASSUME NEW r \in Requests, at'[r] = Accepted PROVE PaysOrTrusts(sub[r])'
    <3>1. PICK s : s = sub[r] /\ s = sub'[r] /\ PaysOrTrusts(s)
      BY <1>2, <2>1
    <3>2. PaysOrTrusts(s)'
      BY <1>1, <3>1, PaysLasts DEF PaidInv
    <3> QED BY <3>1, <3>2 DEF PaysOrTrusts, OnTrust, Counted, Deployed
  <2> QED BY <1>1, <2>1 DEF PaidInv, AcceptedIsPaid, PaysOrTrusts
<1>3. at[r] = Accepted => PaysOrTrusts(sub[r])
  BY DEF PaidInv, AcceptedIsPaid, PaysOrTrusts
<1>4. CASE Grow \/ RefreshStep \/ UNCHANGED vars
  <2>1. UNCHANGED <<at, sub>>
    BY <1>4 DEF Grow, vars, RefreshStep, Fetch, Clear, Insert, Report, requestVars
  <2> QED BY <1>2, <1>3, <2>1
<1>5. CASE \E q \in Requests : RequestStep(q)
  <2>1. PICK q \in Requests : RequestStep(q)
    BY <1>5
  <2>2. CASE r = q /\ Settle(q)
    <3>1. sub' = sub
      BY <2>2 DEF Settle, Require
    <3>2. PaysOrTrusts(sub[q])
      BY <1>2, <2>2, SettlePays DEF PaidInv
    <3> QED BY <2>2, <3>1, <3>2
  <2>3. CASE ~(r = q /\ Settle(q))
    <3>1. at[r] = Accepted /\ sub'[r] = sub[r]
      BY <1>2, <2>1, <2>3, AcceptedBySettle
    <3> QED BY <1>3, <3>1
  <2> QED BY <2>2, <2>3
<1> QED BY <1>4, <1>5 DEF Next

(***************************************************************************)
(* A block that the requests accept pays its bid, for any transactions: a  *)
(* payment that ensure_payment or ensure_merged_payment recognises was     *)
(* moved, and the base and the last payment of a merged block are two.     *)
(* What is excepted is what the check takes on trust of the transactions   *)
(* it counts: a batch that moved less than its entries, and a forwarder    *)
(* deployed after the block's parent.                                      *)
(***************************************************************************)
THEOREM AcceptedBlocksPay == Spec => []AcceptedIsPaid
<1>1. Init => PaidInv
  BY WindowAssumption DEF Init, PaidInv, AcceptedIsPaid, Accepted
<1>2. PaidInv => AcceptedIsPaid
  BY DEF PaidInv
<1> QED BY <1>1, <1>2, NextPaid, Invariance, PTL DEF Spec
=============================================================================
