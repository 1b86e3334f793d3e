---------------------------- MODULE EthApiProofs -----------------------------
(***************************************************************************)
(* Proofs about the requests of EthApi: what a waiting submission hears,   *)
(* why it may time out early, what `pending' means to a request that       *)
(* nothing disturbed, what the deltas of the subscriptions add up to, and  *)
(* which logs are answered.  They hold for every finite set of flashblocks *)
(* and bodies, every capacity of the channels, and every publisher.        *)
(***************************************************************************)
EXTENDS EthApi, DataProofs

(***************************************************************************)
(* The wait of eth_sendRawTransactionSync.  From the submission on both    *)
(* receivers are taken; what became due since is in one of them; and a     *)
(* transaction that was notified is sealed, or it was removed afterwards.  *)
(***************************************************************************)
Entries == SUBSET Requested

QueueInv ==
    /\ flashQ \in Seq(Entries) /\ Len(flashQ) <= BroadcastCapacity
    /\ canonQ \in Seq(Entries) /\ Len(canonQ) <= BroadcastCapacity
    /\ chain \in Seq(Block) /\ minted \in Nat

Submitted == pc \in {"submit", "look", "wait"}

ListenInv ==
    /\ pc = "subscribeCanonical" => "flashblocks" \in listening
    /\ Submitted => "flashblocks" \in listening /\ "canonical" \in listening
    /\ pc = "idle" => listening = {} /\ flashQ = <<>> /\ canonQ = <<>>

HeardInv ==
    /\ pc \in {"idle", "subscribe", "subscribeCanonical"} => ~due
    /\ Submitted /\ due /\ ~lagged => HoldsEntry(flashQ) \/ HoldsEntry(canonQ)

NotifiedInv == pc = "fetch" \/ HoldsEntry(canonQ) => Sealed(tx) \/ removed

TimeoutInv ==
    /\ pc # "done" => answer = NoAnswer
    /\ answer.from = "noReceipt" => removed

WaitInv == QueueInv /\ ListenInv /\ HeardInv /\ NotifiedInv /\ TimeoutInv

(***************************************************************************)
(* State at pending, as long as nothing disturbs the request: what it has  *)
(* loaded is the snapshot served, and each look it took still holds.       *)
(***************************************************************************)
CacheInv == cached # <<>> => cached[2] = FromBundle(cached[1])

HoldsSnapshot == IsSome(pending) /\ snap = FromBundle(pending)

Looked ==
    /\ pc \in {"engine", "anchor", "open", "balanceEngine", "balanceAnchor"} =>
          HoldsSnapshot
    /\ pc \in {"anchor", "open", "balanceAnchor"} => ~EngineCovers(snap.latest)
    /\ pc = "open" => OnChain(snap.anchor)
    /\ pc \in {"loadBalance", "balanceEngine", "balanceAnchor"} => kind = "balance"
    /\ pc \in {"fee", "feeBlock", "baseFee"} => kind # "balance"

\* The environment of a call, once it is taken.
EnvTaken ==
    kind \in {"call", "estimate"} =>
        /\ pc \in {"overlay", "engine", "anchor"} =>
              stage = "env" \/ env = <<FromBundle(pending)>>
        /\ pc = "open" => env = <<FromBundle(pending)>>

ResolvedInv ==
    /\ CacheInv
    /\ pc # "done" => answer = NoAnswer
    /\ ~disturbed => Looked /\ EnvTaken
    /\ OnePending
    /\ FailsOnlyIfDisturbed

-----------------------------------------------------------------------------
\* Every method begins with one of these reads.
LEMMA FirstSteps ==
    ASSUME NEW k \in Kinds
    PROVE  /\ FirstStep[k] \in {"canonical", "block", "subscribe", "loadLogs",
                                "loadBalance", "overlay", "choose", "fee"}
           /\ k = "estimate" => FirstStep[k] = "choose"
           /\ FirstStep[k] = "loadBalance" <=> k = "balance"
<1>1. SyncSteps[1] = "subscribe"
  BY DEF SyncSteps
<1>2. k \in AllKinds
  BY KindsAssumption
<1> QED BY <1>1, <1>2 DEF FirstStep, AllKinds

\* The steps of eth_sendRawTransactionSync, in their order.
LEMMA SyncOrder ==
    /\ SyncAfter("subscribe") = "subscribeCanonical"
    /\ SyncAfter("subscribeCanonical") = "submit"
    /\ SyncAfter("submit") = "look"
    /\ SyncAfter("look") = "wait"
<1>1. /\ DOMAIN SyncSteps = 1..5
      /\ SyncSteps[1] = "subscribe" /\ SyncSteps[2] = "subscribeCanonical"
      /\ SyncSteps[3] = "submit" /\ SyncSteps[4] = "look" /\ SyncSteps[5] = "wait"
  BY DEF SyncSteps
<1>2. ASSUME NEW n \in 1..4
      PROVE  (CHOOSE j \in DOMAIN SyncSteps : SyncSteps[j] = SyncSteps[n]) = n
  <2>1. \A j \in 1..5 : SyncSteps[j] = SyncSteps[n] => j = n
    <3>1. n = 1 \/ n = 2 \/ n = 3 \/ n = 4
      OBVIOUS
    <3>2. \A j \in 1..5 : j = 1 \/ j = 2 \/ j = 3 \/ j = 4 \/ j = 5
      OBVIOUS
    <3> QED BY <1>1, <3>1, <3>2
  <2> QED BY <1>1, <2>1
<1>3. \A n \in 1..4 : SyncAfter(SyncSteps[n]) = SyncSteps[n + 1]
  BY <1>2 DEF SyncAfter
<1>4. /\ SyncAfter(SyncSteps[1]) = SyncSteps[2] /\ SyncAfter(SyncSteps[2]) = SyncSteps[3]
      /\ SyncAfter(SyncSteps[3]) = SyncSteps[4] /\ SyncAfter(SyncSteps[4]) = SyncSteps[5]
  BY <1>3
<1> QED BY <1>1, <1>4

-----------------------------------------------------------------------------
(***************************************************************************)
(* State at pending                                                        *)
(***************************************************************************)

\* At first no request runs.
LEMMA InitResolved == ApiInit => ResolvedInv
BY DEF ApiInit, ResolvedInv, CacheInv, Looked, EnvTaken, OnePending, FailsOnlyIfDisturbed,
       NoAnswer

\* What a step that disturbs the request, or one before it begins, leaves to show.
LEMMA Disturbed ==
    ASSUME ResolvedInv, cached' = cached, answer' = answer, pc' = pc, pc # "done",
           disturbed' \/ pc = "idle"
    PROVE  ResolvedInv'
<1>1. answer = NoAnswer /\ NoAnswer.from = "none"
  BY DEF ResolvedInv, NoAnswer
<1>2. CacheInv' /\ OnePending' /\ FailsOnlyIfDisturbed'
  BY <1>1 DEF ResolvedInv, CacheInv, OnePending, FailsOnlyIfDisturbed, FromBundle
<1>3. ~disturbed' => Looked' /\ EnvTaken'
  BY DEF Looked, EnvTaken
<1> QED BY <1>1, <1>2, <1>3 DEF ResolvedInv

\* The environment disturbs a request that runs, except with a broadcast, which
\* changes nothing the request reads.
LEMMA EnvironmentResolved == ResolvedInv /\ Environment => ResolvedInv'
<1> SUFFICES ASSUME ResolvedInv, Environment
             PROVE  ResolvedInv'
  OBVIOUS
<1> USE DEF requestVars, registers, historyVars
<1>1. pc # "done"
  BY DEF Environment
<1>2. ASSUME Moved, UNCHANGED <<cached, pc, answer>>
      PROVE  ResolvedInv'
  <2>1. disturbed' \/ pc = "idle"
    BY <1>1, <1>2 DEF Moved, Running
  <2> QED BY <1>1, <1>2, <2>1, Disturbed
<1>3. ASSUME NEW view, NEW told, Publishes(view, told)
      PROVE  ResolvedInv'
  <2>1. UNCHANGED <<chain, pending, engine, cached, pc, kind, snap, stage, env, answer,
                    disturbed>>
    BY <1>3 DEF Publishes, Publish, chainVars
  <2>2. CacheInv' /\ OnePending' /\ FailsOnlyIfDisturbed'
    BY <2>1 DEF ResolvedInv, CacheInv, OnePending, FailsOnlyIfDisturbed, PendingIsSnapshot,
                FromBundle, EngineCovers, OnChain, Best
  <2>3. Looked => Looked'
    BY <2>1 DEF Looked, HoldsSnapshot, FromBundle, EngineCovers, OnChain, Best
  <2>4. EnvTaken => EnvTaken'
    BY <2>1 DEF EnvTaken, FromBundle
  <2> QED BY <2>1, <2>2, <2>3, <2>4 DEF ResolvedInv
<1>4. ASSUME NEW keep, NEW bodies, NodeCommits(keep, bodies)
      PROVE  ResolvedInv'
  BY <1>2, <1>4 DEF NodeCommits
<1> QED BY <1>2, <1>3, <1>4 DEF Environment, EngineExecutes, Moves

\* A request that takes another read.
LEMMA GoesOn ==
    ASSUME ResolvedInv, pc # "done", NEW step, step # "done", Goto(step), CacheInv',
           ~disturbed /\ Looked /\ EnvTaken => Looked' /\ EnvTaken'
    PROVE  ResolvedInv'
<1>1. answer' = NoAnswer /\ NoAnswer.from = "none" /\ pc' # "done"
  BY DEF ResolvedInv, NoAnswer, Goto
<1>2. disturbed' = disturbed
  BY DEF Goto, historyVars
<1> QED BY <1>1, <1>2 DEF ResolvedInv, OnePending, FailsOnlyIfDisturbed

\* A request that answers from what it has read.
LEMMA Answers ==
    ASSUME ResolvedInv, NEW value, Answer(value),
           value.from = "error" => disturbed,
           ~disturbed /\ Looked /\ EnvTaken =>
               /\ kind = "balance" /\ value.from = "builder" => PendingIsSnapshot
               /\ value.from = "overlay" =>
                     /\ PendingIsSnapshot
                     /\ value.overlay = FromBundle(pending)
                     /\ kind \in {"call", "estimate"} => env = <<value.overlay>>
               /\ kind \in {"balance", "state", "call", "estimate"}
                     /\ value.from = "provider" => ~PendingIsSnapshot
    PROVE  ResolvedInv'
<1> USE DEF outside, registers, receivers, historyVars, publisherVars, chainVars
<1>1. /\ pc' = "done" /\ answer' = value
      /\ UNCHANGED <<chain, pending, engine, cached, kind, env, disturbed>>
  BY DEF Answer
<1>2. CacheInv' /\ FailsOnlyIfDisturbed'
  BY <1>1 DEF ResolvedInv, CacheInv, FailsOnlyIfDisturbed, FromBundle
<1>3. OnePending'
  BY <1>1 DEF ResolvedInv, OnePending, PendingIsSnapshot, FromBundle, EngineCovers, OnChain,
              Best
<1>4. Looked' /\ EnvTaken'
  BY <1>1 DEF Looked, EnvTaken
<1> QED BY <1>1, <1>2, <1>3, <1>4 DEF ResolvedInv

\* served_overlay and what surrounds it.
LEMMA StateStepResolved == ResolvedInv /\ StateStep => ResolvedInv'
<1> SUFFICES ASSUME ResolvedInv, StateStep
             PROVE  ResolvedInv'
  OBVIOUS
<1> USE DEF outside, registers, receivers, historyVars, publisherVars, chainVars, From
<1>1. /\ FromBundle(pending).latest = LatestBlock(pending.fbs)
      /\ FromBundle(pending).anchor = pending.anchor
  BY DEF FromBundle
<1>2. CacheInv /\ (~disturbed => Looked /\ EnvTaken)
  BY DEF ResolvedInv
<1>3. ASSUME NEW step, Goto(step), pc # "done", step # "done", UNCHANGED cached,
             ~disturbed /\ Looked /\ EnvTaken => Looked' /\ EnvTaken'
      PROVE  ResolvedInv'
  <2>1. CacheInv'
    BY <1>2, <1>3 DEF CacheInv, FromBundle
  <2> QED BY <1>3, <2>1, GoesOn
<1>4. CASE ChooseBlock
  <2>1. CASE Answer(From("latest"))
    BY <2>1, Answers
  <2>2. CASE stage' = "env" /\ Goto("overlay") /\ UNCHANGED cached
    <3>1. Looked' /\ EnvTaken'
      BY <2>2 DEF Goto, Looked, EnvTaken
    <3> QED BY <1>3, <1>4, <2>2, <3>1 DEF ChooseBlock
  <2> QED BY <1>4, <2>1, <2>2 DEF ChooseBlock
<1>5. CASE LoadOverlay
  <2>1. CASE IsSome(pending)
    <3>1. /\ pc = "overlay" /\ snap' = cached'[2] /\ Goto("engine")
          /\ cached' = IF CachedOverlay THEN cached ELSE <<pending, FromBundle(pending)>>
          /\ UNCHANGED <<stage, env>>
      BY <1>5, <2>1 DEF LoadOverlay
    <3>2. UNCHANGED <<pending, kind>> /\ pc' = "engine"
      BY <3>1 DEF Goto
    <3>3. cached'[2] = FromBundle(pending) /\ cached'[1] = pending
      BY <1>2, <3>1 DEF CachedOverlay, CacheInv
    <3>4. CacheInv'
      BY <3>2, <3>3 DEF CacheInv, FromBundle
    <3>5. Looked'
      BY <2>1, <3>1, <3>2, <3>3 DEF Looked, HoldsSnapshot, FromBundle, IsSome
    <3>6. EnvTaken => EnvTaken'
      BY <3>1, <3>2 DEF EnvTaken, FromBundle
    <3> QED BY <3>1, <3>4, <3>5, <3>6, GoesOn
  <2>2. CASE ~IsSome(pending)
    <3>1. /\ cached' = <<>> /\ pc' = "done" /\ answer' = From("provider")
          /\ UNCHANGED <<chain, pending, engine, kind, env, disturbed>>
      BY <1>5, <2>2 DEF LoadOverlay
    <3>2. answer'.from = "provider"
      BY <3>1
    <3>3. ~PendingIsSnapshot'
      BY <2>2, <3>1 DEF PendingIsSnapshot, IsSome
    <3>4. CacheInv' /\ FailsOnlyIfDisturbed' /\ OnePending' /\ Looked' /\ EnvTaken'
      BY <3>1, <3>2, <3>3
      DEF CacheInv, FailsOnlyIfDisturbed, OnePending, Looked, EnvTaken
    <3> QED BY <3>1, <3>4 DEF ResolvedInv
  <2> QED BY <2>1, <2>2
<1>6. CASE CheckEngine
  <2>1. CASE EngineCovers(snap.latest) /\ ToProvider
    <3>1. ~disturbed => ~PendingIsSnapshot
      BY <1>1, <1>2, <1>6, <2>1 DEF CheckEngine, Looked, HoldsSnapshot, PendingIsSnapshot
    <3> QED BY <2>1, <3>1, Answers DEF ToProvider
  <2>2. CASE /\ ~EngineCovers(snap.latest) /\ Goto("anchor")
             /\ UNCHANGED <<cached, registers, receivers>>
    <3>1. pc = "engine" /\ pc' = "anchor"
      BY <1>6, <2>2 DEF CheckEngine, Goto
    <3>2. UNCHANGED <<chain, pending, engine, snap, stage, env, kind>>
      BY <2>2 DEF Goto
    <3>3. Looked /\ EnvTaken => Looked' /\ EnvTaken'
      BY <2>2, <3>1, <3>2
      DEF Looked, EnvTaken, HoldsSnapshot, EngineCovers, FromBundle, Best
    <3> QED BY <1>3, <2>2, <3>1, <3>3
  <2> QED BY <1>6, <2>1, <2>2 DEF CheckEngine
<1>7. CASE CheckAnchor
  <2>1. CASE ~OnChain(snap.anchor) /\ ToProvider
    <3>1. ~disturbed => ~PendingIsSnapshot
      BY <1>1, <1>2, <1>7, <2>1 DEF CheckAnchor, Looked, HoldsSnapshot, PendingIsSnapshot
    <3> QED BY <2>1, <3>1, Answers DEF ToProvider
  <2>2. CASE OnChain(snap.anchor) /\ ServeOverlay
    <3>1. CASE stage = "env"
      <4>1. /\ pc = "anchor" /\ env' = <<snap>> /\ stage' = "state" /\ Goto("overlay")
            /\ UNCHANGED cached
        BY <1>7, <2>2, <3>1 DEF CheckAnchor, ServeOverlay
      <4>2. Looked /\ EnvTaken => Looked' /\ EnvTaken'
        BY <4>1 DEF Goto, Looked, EnvTaken, HoldsSnapshot, FromBundle
      <4> QED BY <1>3, <4>1, <4>2
    <3>2. CASE stage # "env"
      <4>1. /\ pc = "anchor" /\ env' = env /\ snap' = snap /\ stage' = "state"
            /\ Goto("open") /\ UNCHANGED cached
        BY <1>7, <2>2, <3>2 DEF CheckAnchor, ServeOverlay
      <4>2. UNCHANGED <<chain, pending, engine, kind>> /\ pc' = "open"
        BY <4>1 DEF Goto
      <4>3. Looked => Looked'
        BY <2>2, <4>1, <4>2
        DEF Looked, HoldsSnapshot, EngineCovers, OnChain, FromBundle, Best
      <4>4. EnvTaken => EnvTaken'
        BY <3>2, <4>1, <4>2 DEF EnvTaken, FromBundle
      <4> QED BY <1>3, <4>1, <4>3, <4>4
    <3> QED BY <3>1, <3>2
  <2> QED BY <1>7, <2>1, <2>2 DEF CheckAnchor
<1>8. CASE OpenState
  <2>1. CASE OnChain(snap.anchor)
    <3> DEFINE value == [from |-> "overlay", overlay |-> snap]
    <3>1. pc = "open" /\ Answer(value)
      BY <1>8, <2>1 DEF OpenState
    <3>2. value.from = "overlay" /\ value.overlay = snap
      OBVIOUS
    <3>3. ~disturbed => /\ PendingIsSnapshot /\ snap = FromBundle(pending)
                        /\ kind \in {"call", "estimate"} => env = <<snap>>
      BY <1>1, <1>2, <2>1, <3>1
      DEF Looked, EnvTaken, HoldsSnapshot, PendingIsSnapshot
    <3> HIDE DEF value
    <3> QED BY <3>1, <3>2, <3>3, Answers
  <2>2. CASE ~OnChain(snap.anchor)
    <3>1. disturbed
      BY <1>2, <1>8, <2>2 DEF OpenState, Looked
    <3> QED BY <1>8, <2>2, <3>1, Answers DEF OpenState
  <2> QED BY <2>1, <2>2
<1>9. ASSUME NoBuilderBalance, pc \in {"balanceEngine", "balanceAnchor"}
      PROVE  ResolvedInv'
  <2>1. Looked => Looked' /\ EnvTaken'
    BY <1>9 DEF NoBuilderBalance, Goto, Looked, EnvTaken
  <2> QED BY <1>3, <1>9, <2>1 DEF NoBuilderBalance
<1>10. CASE LoadForBalance
  <2>1. CASE IsSome(pending)
    <3>1. /\ pc = "loadBalance" /\ snap' = FromBundle(pending) /\ Goto("balanceEngine")
          /\ UNCHANGED cached
      BY <1>10, <2>1 DEF LoadForBalance
    <3>2. UNCHANGED <<pending, kind>> /\ pc' = "balanceEngine"
      BY <3>1 DEF Goto
    <3>3. Looked => Looked' /\ EnvTaken'
      BY <2>1, <3>1, <3>2 DEF Looked, EnvTaken, HoldsSnapshot, FromBundle, IsSome
    <3> QED BY <1>3, <3>1, <3>3
  <2>2. CASE ~IsSome(pending)
    <3>1. pc = "loadBalance" /\ Goto("overlay") /\ UNCHANGED cached
      BY <1>10, <2>2 DEF LoadForBalance
    <3>2. UNCHANGED kind /\ pc' = "overlay"
      BY <3>1 DEF Goto
    <3>3. Looked => Looked' /\ EnvTaken'
      BY <3>1, <3>2 DEF Looked, EnvTaken
    <3> QED BY <1>3, <3>1, <3>3
  <2> QED BY <2>1, <2>2
<1>11. CASE CheckEngineForBalance
  <2>1. CASE NoBuilderBalance
    BY <1>9, <1>11, <2>1 DEF CheckEngineForBalance
  <2>2. CASE /\ ~EngineCovers(snap.latest) /\ Goto("balanceAnchor")
             /\ UNCHANGED <<cached, registers, receivers>>
    <3>1. pc = "balanceEngine" /\ pc' = "balanceAnchor"
      BY <1>11, <2>2 DEF CheckEngineForBalance, Goto
    <3>2. UNCHANGED <<chain, pending, engine, snap, stage, env, kind>>
      BY <2>2 DEF Goto
    <3>3. Looked => Looked' /\ EnvTaken'
      BY <2>2, <3>1, <3>2
      DEF Looked, EnvTaken, HoldsSnapshot, EngineCovers, FromBundle, Best
    <3> QED BY <1>3, <2>2, <3>1, <3>3
  <2> QED BY <1>11, <2>1, <2>2 DEF CheckEngineForBalance
<1>12. CASE CheckAnchorForBalance
  <2>1. CASE OnChain(snap.anchor) /\ Answer(From("builder"))
    <3>1. ~disturbed => PendingIsSnapshot
      BY <1>1, <1>2, <1>12, <2>1
      DEF CheckAnchorForBalance, Looked, HoldsSnapshot, PendingIsSnapshot
    <3> QED BY <2>1, <3>1, Answers
  <2>2. CASE NoBuilderBalance
    BY <1>9, <1>12, <2>2 DEF CheckAnchorForBalance
  <2> QED BY <1>12, <2>1, <2>2 DEF CheckAnchorForBalance
<1> QED
  BY <1>4, <1>5, <1>6, <1>7, <1>8, <1>10, <1>11, <1>12 DEF StateStep

\* The labels at which Looked and EnvTaken say something.
StateLabels == {"overlay", "engine", "anchor", "open", "loadBalance", "balanceEngine",
                "balanceAnchor", "fee", "feeBlock", "baseFee"}

\* The other requests say nothing of the state at pending.
LEMMA OtherStepResolved ==
    ResolvedInv /\ (ReadBlock \/ ReadCanonical \/ ReadSnapshot \/ SyncStep \/ LogStep \/ FeeStep)
        => ResolvedInv'
<1> SUFFICES ASSUME ResolvedInv, ReadBlock \/ ReadCanonical \/ ReadSnapshot \/ SyncStep
                                     \/ LogStep \/ FeeStep
             PROVE  ResolvedInv'
  OBVIOUS
<1> USE DEF outside, registers, receivers, historyVars, From, NoAnswer
<1>1. ASSUME NEW step, Goto(step), pc # "done", step \notin StateLabels \cup {"done"},
             UNCHANGED cached
      PROVE  ResolvedInv'
  <2>1. CacheInv'
    BY <1>1 DEF ResolvedInv, CacheInv, FromBundle
  <2>2. Looked' /\ EnvTaken'
    BY <1>1 DEF Goto, Looked, EnvTaken, StateLabels
  <2> QED BY <1>1, <2>1, <2>2, GoesOn
<1>2. ASSUME NEW value, Answer(value),
             value.from \notin {"error", "overlay", "provider"},
             value.from = "builder" => disturbed \/ kind # "balance"
      PROVE  ResolvedInv'
  BY <1>2, Answers
<1>3. CASE ReadBlock
  <2>1. Answer(BlockByNumber) /\ BlockByNumber.from \in {"snapshot", "engine", "latest"}
    BY <1>3 DEF ReadBlock, BlockByNumber, LocalPendingBlock
  <2> QED BY <1>2, <2>1
<1>4. CASE ReadCanonical \/ ReadSnapshot
  <2>1. CASE Answer(From("canonical")) \/ Answer(From("snapshot")) \/ Answer(NoAnswer)
    BY <1>2, <2>1
  <2>2. CASE pc # "done" /\ Goto("snapshot") /\ UNCHANGED cached
    BY <1>1, <2>2 DEF StateLabels
  <2> QED BY <1>4, <2>1, <2>2 DEF ReadCanonical, ReadSnapshot
<1>5. CASE SyncStep
  <2>1. CASE \E source \in {"rejected", "snapshot", "flashblock", "canonical", "noReceipt",
                            "timeout"} : Answer(From(source))
    BY <1>2, <2>1
  <2>2. CASE /\ pc # "done" /\ UNCHANGED cached
             /\ \E step \in {"subscribeCanonical", "submit", "look", "wait", "fetch"} :
                   Goto(step)
    BY <1>1, <2>2 DEF StateLabels
  <2>3. CASE Subscribe \/ Submit \/ Look
    BY <2>1, <2>2, <2>3, SyncOrder DEF Subscribe, Submit, Look
  <2>4. CASE ReceiveFlashblock \/ ReceiveCanonical \/ Fetch \/ TimeOut
    BY <2>1, <2>2, <2>4 DEF ReceiveFlashblock, ReceiveCanonical, Fetch, TimeOut
  <2> QED BY <1>5, <2>3, <2>4 DEF SyncStep
<1>6. CASE LogStep
  <2>1. CASE pc # "done" /\ UNCHANGED cached /\ (Goto("historical") \/ Goto("join"))
    BY <1>1, <2>1 DEF StateLabels
  <2>2. CASE Answer(LocalPendingBlock)
    BY <1>2, <2>2 DEF LocalPendingBlock
  <2>3. CASE JoinLogs
    <3> DEFINE value == [from |-> "logs",
                         logs |-> logs \cup {l \in PendingLogs(snap.fbs) : NotFetched(l)}]
    <3>1. Answer(value) /\ value.from = "logs"
      BY <2>3 DEF JoinLogs
    <3> HIDE DEF value
    <3> QED BY <1>2, <3>1
  <2> QED BY <1>6, <2>1, <2>2, <2>3 DEF LogStep, LoadLogs, FetchHistoricalLogs
<1>7. CASE FeeStep
  <2>1. ~disturbed => Looked
    BY DEF ResolvedInv
  <2>2. ASSUME NEW step \in {"feeBlock", "baseFee"}, Goto(step),
               pc \in {"fee", "feeBlock"}, UNCHANGED cached
        PROVE  ResolvedInv'
    <3>1. CacheInv'
      BY <2>2 DEF ResolvedInv, CacheInv, FromBundle
    <3>2. Looked => Looked' /\ EnvTaken'
      BY <2>2 DEF Goto, Looked, EnvTaken
    <3> QED BY <2>2, <3>1, <3>2, GoesOn
  <2>3. CASE Answer(From("fallback"))
    BY <1>2, <2>3
  <2>4. ASSUME pc \in {"feeBlock", "baseFee"}, NEW value, Answer(value),
               value.from = "builder"
        PROVE  ResolvedInv'
    BY <1>2, <2>1, <2>4 DEF Looked
  <2>5. CASE ReadBaseFee
    <3>1. [from |-> "builder", base |-> Best + 1].from = "builder"
      OBVIOUS
    <3> QED BY <2>4, <2>5, <3>1 DEF ReadBaseFee
  <2>6. CASE LoadFee
    BY <2>2, <2>3, <2>6 DEF LoadFee
  <2>7. CASE CheckFeeBlock
    BY <2>2, <2>3, <2>4, <2>7 DEF CheckFeeBlock
  <2> QED BY <1>7, <2>5, <2>6, <2>7 DEF FeeStep
<1> QED BY <1>3, <1>4, <1>5, <1>6, <1>7

\* Every step keeps what a request knows of the state at pending.
LEMMA NextResolved == ResolvedInv /\ [ApiNext]_vars => ResolvedInv'
<1> SUFFICES ASSUME ResolvedInv, [ApiNext]_vars
             PROVE  ResolvedInv'
  OBVIOUS
<1> USE DEF outside, registers, receivers, historyVars, requestVars, publisherVars, chainVars
<1>1. CASE \E k \in Kinds, t \in Requested : Begin(k, t)
  <2>1. PICK k \in Kinds, t \in Requested : Begin(k, t)
    BY <1>1
  <2>2. /\ pc = "idle" /\ pc' = FirstStep[k] /\ kind' = k
        /\ stage' = IF k = "call" THEN "env" ELSE IF k = "state" THEN "state" ELSE "none"
        /\ UNCHANGED <<cached, answer, disturbed>>
    BY <2>1 DEF Begin
  <2>3. CacheInv' /\ answer' = NoAnswer /\ NoAnswer.from = "none"
    BY <2>2 DEF ResolvedInv, CacheInv, FromBundle, NoAnswer
  <2>4. Looked' /\ EnvTaken' /\ pc' # "done"
    BY <2>2, FirstSteps DEF Looked, EnvTaken
  <2> QED BY <2>3, <2>4 DEF ResolvedInv, OnePending, FailsOnlyIfDisturbed
<1>2. CASE Finish
  <2>1. pc' = "idle" /\ answer' = NoAnswer /\ NoAnswer.from = "none" /\ UNCHANGED cached
    BY <1>2 DEF Finish, NoAnswer
  <2>2. CacheInv' /\ Looked' /\ EnvTaken'
    BY <2>1 DEF ResolvedInv, CacheInv, FromBundle, Looked, EnvTaken
  <2> QED BY <2>1, <2>2 DEF ResolvedInv, OnePending, FailsOnlyIfDisturbed
<1>3. CASE ReadFails
  <2>1. disturbed' /\ UNCHANGED cached
    BY <1>3 DEF ReadFails
  <2>2. pc' # "done" => answer' = answer
    BY <1>3 DEF ReadFails
  <2>3. pc # "done"
    BY <1>3 DEF ReadFails
  <2>4. CacheInv' /\ OnePending' /\ FailsOnlyIfDisturbed'
    BY <2>1 DEF ResolvedInv, CacheInv, FromBundle, OnePending, FailsOnlyIfDisturbed
  <2> QED BY <2>1, <2>2, <2>3, <2>4 DEF ResolvedInv
<1>4. CASE UNCHANGED vars
  <2>1. UNCHANGED <<chain, pending, engine, cached, pc, kind, snap, stage, env, answer,
                    disturbed>>
    BY <1>4 DEF vars
  <2>2. CacheInv' /\ OnePending' /\ FailsOnlyIfDisturbed'
    BY <2>1 DEF ResolvedInv, CacheInv, OnePending, FailsOnlyIfDisturbed, PendingIsSnapshot,
                FromBundle, EngineCovers, OnChain, Best
  <2>3. (Looked => Looked') /\ (EnvTaken => EnvTaken')
    BY <2>1 DEF Looked, EnvTaken, HoldsSnapshot, FromBundle, EngineCovers, OnChain, Best
  <2> QED BY <2>1, <2>2, <2>3 DEF ResolvedInv
<1> QED
  BY <1>1, <1>2, <1>3, <1>4, EnvironmentResolved, StateStepResolved, OtherStepResolved
  DEF ApiNext, Request

(***************************************************************************)
(* Whatever path a request at pending takes (the builder's map, the cached *)
(* overlay, the environment and then the state), one that nothing          *)
(* disturbed resolves `pending' to the snapshot served exactly when that   *)
(* is not covered by the engine and its anchor is on the chain.            *)
(***************************************************************************)
THEOREM PendingIsOne == ApiSpec => []OnePending
<1>1. ResolvedInv => OnePending
  BY DEF ResolvedInv
<1> QED BY <1>1, InitResolved, NextResolved, PTL DEF ApiSpec

(***************************************************************************)
(* The state of an anchor that was on the chain opens, unless the chain    *)
(* moved in between or a read failed.                                      *)
(***************************************************************************)
THEOREM FailureIsDisturbance == ApiSpec => []FailsOnlyIfDisturbed
<1>1. ResolvedInv => FailsOnlyIfDisturbed
  BY DEF ResolvedInv
<1> QED BY <1>1, InitResolved, NextResolved, PTL DEF ApiSpec

-----------------------------------------------------------------------------
(***************************************************************************)
(* The wait of eth_sendRawTransactionSync                                  *)
(***************************************************************************)

\* The first place a channel keeps.
LEMMA FirstKept ==
    ASSUME NEW n \in Nat, n <= BroadcastCapacity + 1
    PROVE  Max({1, n - BroadcastCapacity + 1}) =
               IF n = BroadcastCapacity + 1 THEN 2 ELSE 1
<1>1. BroadcastCapacity \in Nat
  BY CapacityAssumption
<1>2. ASSUME NEW a \in Int, NEW b \in {1, a}, b >= 1, b >= a
      PROVE  Max({1, a}) = b
  <2>1. \A y \in {1, a} : b >= y
    BY <1>2
  <2>2. Max({1, a}) \in {1, a} /\ \A y \in {1, a} : Max({1, a}) >= y
    BY <2>1 DEF Max
  <2>3. Max({1, a}) >= b /\ b >= Max({1, a})
    BY <2>1, <2>2
  <2> QED BY <1>2, <2>2, <2>3
<1>3. CASE n = BroadcastCapacity + 1
  <2>1. n - BroadcastCapacity + 1 = 2
    BY <1>1, <1>3
  <2>2. Max({1, 2}) = 2
    BY <1>2
  <2> QED BY <1>3, <2>1, <2>2
<1>4. CASE n # BroadcastCapacity + 1
  <2>1. n - BroadcastCapacity + 1 \in Int /\ 1 >= n - BroadcastCapacity + 1
    BY <1>1, <1>4
  <2>2. Max({1, n - BroadcastCapacity + 1}) = 1
    BY <1>2, <2>1
  <2> QED BY <1>4, <2>2
<1> QED BY <1>3, <1>4

\* A channel after a broadcast: it holds nothing but what it held and the entry,
\* and all of that unless it was full.
LEMMA BroadcastEntries ==
    ASSUME NEW channel, NEW queue \in Seq(Entries), Len(queue) <= BroadcastCapacity,
           NEW entry \in Entries
    PROVE  /\ Broadcast(channel, queue, entry) \in Seq(Entries)
           /\ Len(Broadcast(channel, queue, entry)) <= BroadcastCapacity
           /\ HoldsEntry(Broadcast(channel, queue, entry)) =>
                 HoldsEntry(queue) \/ tx \in entry
           /\ HoldsEntry(queue) /\ ~Overflows(channel, queue) =>
                 HoldsEntry(Broadcast(channel, queue, entry))
           /\ channel \in listening /\ tx \in entry /\ ~Overflows(channel, queue) =>
                 HoldsEntry(Broadcast(channel, queue, entry))
           /\ channel \notin listening => Broadcast(channel, queue, entry) = queue
<1> DEFINE all == Append(queue, entry)
           first == Max({1, Len(all) - BroadcastCapacity + 1})
           kept == SubSeq(all, first, Len(all))
<1>1. CASE channel \notin listening
  BY <1>1 DEF Broadcast, Overflows
<1>2. CASE channel \in listening
  <2>1. Broadcast(channel, queue, entry) = kept
    BY <1>2 DEF Broadcast
  <2>2. /\ all \in Seq(Entries) /\ Len(all) = Len(queue) + 1 /\ Len(queue) \in Nat
        /\ \A i \in 1..Len(queue) : all[i] = queue[i]
        /\ all[Len(queue) + 1] = entry
    OBVIOUS
  <2>3. BroadcastCapacity \in Nat \ {0}
    BY CapacityAssumption
  <2>4. first = IF Len(queue) = BroadcastCapacity THEN 2 ELSE 1
    <3>1. Len(all) \in Nat /\ Len(all) <= BroadcastCapacity + 1
      BY <2>2, <2>3
    <3>2. first = IF Len(all) = BroadcastCapacity + 1 THEN 2 ELSE 1
      BY <3>1, FirstKept
    <3> QED BY <2>2, <2>3, <3>2
  <2> HIDE DEF first, all
  <2>5. /\ kept \in Seq(Entries) /\ Len(kept) = Len(all) - first + 1
        /\ DOMAIN kept = 1..Len(kept)
        /\ \A i \in 1..Len(kept) : kept[i] = all[first + i - 1]
    <3> HIDE DEF kept
    <3>0. first \in Nat /\ Len(all) \in Nat /\ 1 <= first /\ first <= Len(all)
      <4>1. first = 1 \/ (first = 2 /\ Len(queue) = BroadcastCapacity)
        BY <2>4
      <4> QED BY <2>2, <2>3, <4>1
    <3>1. PICK f \in Nat, l \in Nat : f = first /\ l = Len(all) /\ 1 <= f /\ f <= l
      BY <3>0
    <3>2. kept = SubSeq(all, f, l)
      BY <3>1 DEF kept
    <3>3. kept \in Seq(Entries)
      BY <2>2, <3>1, <3>2
    <3>4. Len(kept) = l - f + 1 /\ DOMAIN kept = 1..Len(kept)
      BY <2>2, <3>1, <3>2
    <3>5. ASSUME NEW i \in 1..Len(kept)
          PROVE  kept[i] = all[f + i - 1]
      BY <2>2, <3>1, <3>2, <3>4
    <3> QED BY <3>1, <3>3, <3>4, <3>5
  <2> HIDE DEF kept
  <2>6. DOMAIN queue = 1..Len(queue)
    OBVIOUS
  <2>7. Len(kept) <= BroadcastCapacity
    BY <2>2, <2>3, <2>4, <2>5
  <2>8. HoldsEntry(kept) => HoldsEntry(queue) \/ tx \in entry
    <3>1. SUFFICES ASSUME NEW i \in 1..Len(kept), tx \in kept[i]
                   PROVE  HoldsEntry(queue) \/ tx \in entry
      BY <2>5 DEF HoldsEntry
    <3>2. PICK j \in 1..(Len(queue) + 1) : j = first + i - 1
      BY <2>2, <2>4, <2>5
    <3>3. j \in 1..Len(queue) \/ j = Len(queue) + 1
      BY <2>2
    <3>4. kept[i] = all[j]
      BY <2>5, <3>2
    <3> QED BY <2>2, <2>6, <3>1, <3>3, <3>4 DEF HoldsEntry
  <2>9. ASSUME ~Overflows(channel, queue)
        PROVE  /\ \A i \in 1..Len(queue) : i \in 1..Len(kept) /\ kept[i] = queue[i]
               /\ Len(queue) + 1 \in 1..Len(kept) /\ kept[Len(queue) + 1] = entry
    <3>1. first = 1 /\ Len(kept) = Len(queue) + 1
      BY <1>2, <2>2, <2>4, <2>5, <2>9 DEF Overflows
    <3>2. \A i \in 1..Len(kept) : kept[i] = all[i]
      BY <2>2, <2>5, <3>1
    <3> QED BY <2>2, <3>1, <3>2
  <2>10. ~Overflows(channel, queue) /\ (HoldsEntry(queue) \/ tx \in entry) => HoldsEntry(kept)
    BY <2>5, <2>6, <2>9 DEF HoldsEntry
  <2> QED BY <1>2, <2>1, <2>5, <2>7, <2>8, <2>10
<1> QED BY <1>1, <1>2

\* What is left of a channel when its first entry, which does not name the
\* transaction, is taken.
LEMMA TailHolds ==
    ASSUME NEW queue \in Seq(Entries), queue # <<>>, Len(queue) <= BroadcastCapacity
    PROVE  /\ Tail(queue) \in Seq(Entries) /\ Len(Tail(queue)) <= BroadcastCapacity
           /\ HoldsEntry(Tail(queue)) => HoldsEntry(queue)
           /\ tx \notin Head(queue) /\ HoldsEntry(queue) => HoldsEntry(Tail(queue))
           /\ tx \in Head(queue) => HoldsEntry(queue)
<1>1. /\ Tail(queue) \in Seq(Entries) /\ Len(queue) \in Nat \ {0}
      /\ Len(Tail(queue)) = Len(queue) - 1 /\ Head(queue) = queue[1]
      /\ DOMAIN queue = 1..Len(queue) /\ DOMAIN Tail(queue) = 1..Len(Tail(queue))
      /\ \A i \in 1..Len(Tail(queue)) : i + 1 \in 1..Len(queue) /\ Tail(queue)[i] = queue[i + 1]
  OBVIOUS
<1>2. Len(Tail(queue)) <= BroadcastCapacity
  BY <1>1, CapacityAssumption
<1>3. HoldsEntry(Tail(queue)) => HoldsEntry(queue)
  BY <1>1 DEF HoldsEntry
<1>4. ASSUME tx \notin Head(queue), HoldsEntry(queue)
      PROVE  HoldsEntry(Tail(queue))
  <2>1. PICK i \in 1..Len(queue) : tx \in queue[i]
    BY <1>1, <1>4 DEF HoldsEntry
  <2>2. i # 1
    BY <1>1, <1>4, <2>1
  <2>3. i - 1 \in 1..Len(Tail(queue)) /\ Tail(queue)[i - 1] = queue[i]
    BY <1>1, <2>2
  <2> QED BY <1>1, <2>1, <2>3 DEF HoldsEntry
<1>5. tx \in Head(queue) => HoldsEntry(queue)
  BY <1>1 DEF HoldsEntry
<1> QED BY <1>1, <1>2, <1>3, <1>4, <1>5

\* A commit: the chain is the blocks that are kept and the new ones.
LEMMA CommitSeals ==
    ASSUME QueueInv, NEW keep \in 0..Best, NEW k \in Nat, NEW bodies \in BodyLists(keep, k),
           Commit(keep, bodies)
    PROVE  /\ chain' \in Seq(Block) /\ minted' \in Nat
           /\ \A t : (\E i \in DOMAIN bodies : t \in Range(bodies[i])) => SealedIn(chain', t)
<1> DEFINE kept == SubSeq(chain, 1, keep)
           new == NewBlocks(keep, minted, bodies)
<1>1. chain \in Seq(Block) /\ minted \in Nat /\ Best \in Nat /\ keep \in Nat
  BY DEF QueueInv, Best
<1>2. bodies \in [1..k -> TxLists] /\ DOMAIN bodies = 1..k
  BY DEF BodyLists
<1>3. bodies \in Seq(TxLists) /\ Len(bodies) = k
  BY <1>2
<1>4. kept \in Seq(Block) /\ Len(kept) = keep
  BY <1>1 DEF Best
<1>5. new \in [1..k -> Block] /\ \A i \in 1..k : new[i].txs = bodies[i]
  <2>1. new = [i \in 1..k |-> [number |-> keep + i, id |-> minted + i, txs |-> bodies[i]]]
    BY <1>2 DEF NewBlocks
  <2>2. \A i \in 1..k : keep + i \in Nat /\ minted + i \in Nat /\ bodies[i] \in TxLists
    BY <1>1, <1>2
  <2> HIDE DEF new
  <2> QED BY <2>1, <2>2 DEF Block, BlockIds
<1>6. new \in Seq(Block) /\ Len(new) = k
  BY <1>5
<1> HIDE DEF new, kept
<1>7. chain' = kept \o new /\ minted' = minted + Len(bodies)
  BY DEF Commit, kept, new
<1>8. /\ chain' \in Seq(Block) /\ DOMAIN chain' = 1..(keep + k)
      /\ \A i \in 1..k : chain'[keep + i] = new[i] /\ keep + i \in 1..(keep + k)
  BY <1>1, <1>4, <1>6, <1>7
<1>9. minted' \in Nat
  BY <1>1, <1>3, <1>7
<1>10. \A i \in 1..k : keep + i \in DOMAIN chain' /\ chain'[keep + i].txs = bodies[i]
  BY <1>5, <1>8
<1> QED BY <1>2, <1>8, <1>9, <1>10 DEF SealedIn

\* At first no request waits.
LEMMA InitWait == ApiInit => WaitInv
<1> SUFFICES ASSUME ApiInit PROVE WaitInv
  OBVIOUS
<1>1. chain = FirstBlocks /\ minted = StartHeight /\ StartHeight \in Nat
  BY HeightAssumption DEF ApiInit, Init
<1>2. chain \in Seq(Block)
  <2>1. FirstBlocks \in [1..StartHeight -> Block]
    BY <1>1 DEF FirstBlocks, Block, BlockIds, TxLists
  <2> QED BY <1>1, <2>1
<1>3. flashQ = <<>> /\ canonQ = <<>> /\ pc = "idle" /\ ~due /\ answer = NoAnswer /\ listening = {}
  BY DEF ApiInit
<1>4. QueueInv
  BY <1>1, <1>2, <1>3, CapacityAssumption DEF QueueInv
<1>5. ~HoldsEntry(canonQ)
  BY <1>3 DEF HoldsEntry
<1>6. NoAnswer.from = "none"
  BY DEF NoAnswer
<1> QED BY <1>3, <1>4, <1>5, <1>6
        DEF WaitInv, ListenInv, HeardInv, NotifiedInv, TimeoutInv, Submitted

\* The labels of a submission that waits, or may come to.
WaitLabels == {"idle", "subscribe", "subscribeCanonical", "submit", "look", "wait", "fetch"}

\* A step to another label, of a request that is not about a wait or that is over.
LEMMA Elsewhere ==
    ASSUME WaitInv, UNCHANGED <<chain, minted, tx, receivers>>, removed => removed',
           pc' \notin WaitLabels, TimeoutInv'
    PROVE  WaitInv'
<1>1. UNCHANGED <<flashQ, canonQ, chain, minted, tx>>
  BY DEF receivers
<1>2. QueueInv'
  BY <1>1 DEF WaitInv, QueueInv, Entries
<1>3. ListenInv' /\ HeardInv'
  BY DEF ListenInv, HeardInv, Submitted, WaitLabels
<1>4. NotifiedInv'
  BY <1>1 DEF WaitInv, NotifiedInv, HoldsEntry, Sealed, SealedIn, WaitLabels
<1> QED BY <1>2, <1>3, <1>4 DEF WaitInv

\* A request that is answered, but for want of a receipt only if it was removed.
LEMMA WaitAnswers ==
    ASSUME WaitInv, NEW value, Answer(value), value.from = "noReceipt" => removed
    PROVE  WaitInv'
<1>1. /\ UNCHANGED <<chain, minted, tx, receivers, removed>>
      /\ pc' = "done" /\ answer' = value
  BY DEF Answer, outside, publisherVars, chainVars, historyVars
<1>2. TimeoutInv'
  BY <1>1 DEF TimeoutInv
<1> QED BY <1>1, <1>2, Elsewhere DEF WaitLabels

\* A request that takes another read.
LEMMA WaitGoesOn ==
    ASSUME WaitInv, pc # "done", NEW step, step \notin WaitLabels, step # "done", Goto(step),
           UNCHANGED receivers
    PROVE  WaitInv'
<1>1. /\ UNCHANGED <<chain, minted, tx, receivers, removed, answer>>
      /\ pc' = step
  BY DEF Goto, outside, publisherVars, chainVars, historyVars
<1>2. TimeoutInv'
  BY <1>1 DEF WaitInv, TimeoutInv
<1> QED BY <1>1, <1>2, Elsewhere

\* A commit reaches the canonical receiver; a transaction that leaves the chain
\* with it is removed, also when that very notification names it.
LEMMA CommitWait ==
    ASSUME WaitInv, pc # "done", NEW keep \in 0..Best, NEW k \in Nat,
           NEW bodies \in BodyLists(keep, k), NodeCommits(keep, bodies)
    PROVE  WaitInv'
<1> DEFINE new == {t \in Requested : \E i \in DOMAIN bodies : t \in Range(bodies[i])}
           reverted == {t \in Requested :
                           \E n \in DOMAIN chain : n > keep /\ t \in Range(chain[n].txs)}
           named == new \cup reverted
           queue == Broadcast("canonical", canonQ, named)
<1>1. /\ Commit(keep, bodies) /\ canonQ' = queue
      /\ UNCHANGED <<pc, kind, tx, answer, listening, flashQ>>
  BY DEF NodeCommits, requestVars
<1>2. /\ due' <=> due \/ (Submitting /\ tx \in new)
      /\ lagged' <=> lagged \/ Overflows("canonical", canonQ)
      /\ removed' <=> removed \/ (Running /\ Sealed(tx) /\ ~SealedIn(chain', tx))
  BY Zenon DEF NodeCommits
<1>3. /\ named \in Entries
      /\ \A t \in new : \E i \in DOMAIN bodies : t \in Range(bodies[i])
      /\ \A t \in reverted : SealedIn(chain, t)
  BY DEF Entries, SealedIn
<1>0. new \subseteq named /\ named \subseteq new \cup reverted
  OBVIOUS
<1> HIDE DEF new, reverted, named
<1>4. QueueInv /\ ListenInv /\ HeardInv /\ NotifiedInv /\ TimeoutInv
  BY DEF WaitInv
<1>5. canonQ \in Seq(Entries) /\ Len(canonQ) <= BroadcastCapacity
  BY <1>4 DEF QueueInv
<1>6. /\ queue \in Seq(Entries) /\ Len(queue) <= BroadcastCapacity
      /\ HoldsEntry(queue) => HoldsEntry(canonQ) \/ tx \in named
      /\ HoldsEntry(canonQ) /\ ~Overflows("canonical", canonQ) => HoldsEntry(queue)
      /\ "canonical" \in listening /\ tx \in named /\ ~Overflows("canonical", canonQ) =>
            HoldsEntry(queue)
      /\ "canonical" \notin listening => queue = canonQ
  BY <1>3, <1>5, BroadcastEntries
<1> HIDE DEF queue
<1>7. /\ chain' \in Seq(Block) /\ minted' \in Nat
      /\ tx \in new => SealedIn(chain', tx)
  BY <1>1, <1>3, <1>4, CommitSeals
<1>8. (HoldsEntry(canonQ)' <=> HoldsEntry(queue)) /\ (HoldsEntry(flashQ)' <=> HoldsEntry(flashQ))
  BY <1>1 DEF HoldsEntry
<1>9. QueueInv'
  BY <1>1, <1>4, <1>6, <1>7 DEF QueueInv, Entries
<1>10. ListenInv'
  BY <1>1, <1>4, <1>6 DEF ListenInv, Submitted
<1>11. HeardInv'
  BY <1>0, <1>1, <1>2, <1>4, <1>6, <1>8 DEF HeardInv, ListenInv, Submitted, Submitting
<1>12. NotifiedInv'
  <2>1. SUFFICES ASSUME \/ pc = "fetch" \/ HoldsEntry(canonQ)
                        \/ "canonical" \in listening /\ tx \in named
                 PROVE  SealedIn(chain', tx) \/ removed'
    BY <1>1, <1>6, <1>8 DEF NotifiedInv, Sealed
  <2>2. pc # "idle"
    BY <1>4, <2>1 DEF ListenInv, HoldsEntry
  <2>3. Sealed(tx) \/ removed \/ tx \in new
    BY <1>0, <1>3, <1>4, <2>1 DEF NotifiedInv, Sealed
  <2> QED BY <1>2, <1>7, <2>2, <2>3 DEF Running
<1>13. TimeoutInv'
  BY <1>1, <1>2, <1>4 DEF TimeoutInv
<1> QED BY <1>9, <1>10, <1>11, <1>12, <1>13 DEF WaitInv

\* A snapshot that is told reaches the flashblocks receiver.
LEMMA PublishWait ==
    ASSUME WaitInv, pc # "done", NEW view, NEW told \in BOOLEAN, Publishes(view, told)
    PROVE  WaitInv'
<1> DEFINE held == {t \in Requested : HoldsTransaction(view.fbs, t)}
           queue == Broadcast("flashblocks", flashQ, held)
<1>1. /\ flashQ' = IF told THEN queue ELSE flashQ
      /\ UNCHANGED <<chain, minted, pc, kind, tx, answer, listening, canonQ, removed>>
  BY DEF Publishes, Publish, chainVars, requestVars
<1>2. /\ due' <=> due \/ (told /\ Submitting /\ tx \in held)
      /\ lagged' <=> lagged \/ (told /\ Overflows("flashblocks", flashQ))
  BY Zenon DEF Publishes
<1>3. held \in Entries
  BY DEF Entries
<1> HIDE DEF held
<1>4. QueueInv /\ ListenInv /\ HeardInv /\ NotifiedInv /\ TimeoutInv
  BY DEF WaitInv
<1>5. flashQ \in Seq(Entries) /\ Len(flashQ) <= BroadcastCapacity
  BY <1>4 DEF QueueInv
<1>6. /\ queue \in Seq(Entries) /\ Len(queue) <= BroadcastCapacity
      /\ HoldsEntry(flashQ) /\ ~Overflows("flashblocks", flashQ) => HoldsEntry(queue)
      /\ "flashblocks" \in listening /\ tx \in held /\ ~Overflows("flashblocks", flashQ) =>
            HoldsEntry(queue)
      /\ "flashblocks" \notin listening => queue = flashQ
  BY <1>3, <1>5, BroadcastEntries
<1> HIDE DEF queue
<1>7. /\ told => (HoldsEntry(flashQ)' <=> HoldsEntry(queue))
      /\ ~told => (HoldsEntry(flashQ)' <=> HoldsEntry(flashQ))
      /\ HoldsEntry(canonQ)' <=> HoldsEntry(canonQ)
  BY <1>1 DEF HoldsEntry
<1>8. QueueInv'
  BY <1>1, <1>4, <1>6 DEF QueueInv, Entries
<1>9. ListenInv'
  BY <1>1, <1>4, <1>6 DEF ListenInv, Submitted
<1>10. HeardInv'
  BY <1>1, <1>2, <1>4, <1>6, <1>7 DEF HeardInv, ListenInv, Submitted, Submitting
<1>11. NotifiedInv' /\ TimeoutInv'
  BY <1>1, <1>4, <1>7 DEF NotifiedInv, TimeoutInv, Sealed, SealedIn
<1> QED BY <1>8, <1>9, <1>10, <1>11 DEF WaitInv

\* A step that leaves the wait, its receivers and the chain alone.
LEMMA WaitAlone ==
    ASSUME WaitInv, UNCHANGED <<chain, minted, pc, tx, answer, receivers, due, lagged, removed>>
    PROVE  WaitInv'
<1> USE DEF receivers
<1>1. QueueInv'
  BY DEF WaitInv, QueueInv, Entries
<1>2. ListenInv' /\ HeardInv'
  BY DEF WaitInv, ListenInv, HeardInv, Submitted, HoldsEntry
<1>3. NotifiedInv' /\ TimeoutInv'
  BY DEF WaitInv, NotifiedInv, TimeoutInv, HoldsEntry, Sealed, SealedIn
<1> QED BY <1>1, <1>2, <1>3 DEF WaitInv

\* The environment.
LEMMA EnvironmentWait == WaitInv /\ Environment => WaitInv'
<1> SUFFICES ASSUME WaitInv, Environment
             PROVE  WaitInv'
  OBVIOUS
<1>1. pc # "done"
  BY DEF Environment
<1>2. CASE \E keep \in 0..Best, k \in 1..MaxCommit :
              \E bodies \in BodyLists(keep, k) : NodeCommits(keep, bodies)
  <2>1. PICK keep \in 0..Best, k \in 1..MaxCommit :
                \E bodies \in BodyLists(keep, k) : NodeCommits(keep, bodies)
    BY <1>2
  <2>2. PICK bodies \in BodyLists(keep, k) : NodeCommits(keep, bodies)
    BY <2>1
  <2>3. k \in Nat
    BY ChainBoundsAssumption
  <2> QED BY <1>1, <2>2, <2>3, CommitWait
<1>3. CASE EngineExecutes \/ Moves
  <2>1. UNCHANGED <<chain, minted, pc, tx, answer, receivers, due, lagged, removed>>
    BY <1>3 DEF EngineExecutes, Moves, Store, Drop, publisherVars, chainVars, requestVars
  <2> QED BY <2>1, WaitAlone
<1>4. CASE \E view \in Views, told \in BOOLEAN : Publishes(view, told)
  BY <1>1, <1>4, PublishWait
<1> QED BY <1>2, <1>3, <1>4 DEF Environment

\* The steps of the submission itself: the receivers are taken before it, and
\* an entry that is taken from one either names the transaction or does not.
LEMMA SyncStepWait == WaitInv /\ SyncStep => WaitInv'
<1> SUFFICES ASSUME WaitInv, SyncStep
             PROVE  WaitInv'
  OBVIOUS
<1>1. QueueInv /\ ListenInv /\ HeardInv /\ NotifiedInv /\ TimeoutInv
  BY DEF WaitInv
<1>2. ASSUME NEW source, Answer(From(source)), source # "noReceipt" \/ removed
      PROVE  WaitInv'
  <2>1. From(source).from = source
    BY DEF From
  <2> QED BY <1>2, <2>1, WaitAnswers
<1>3. ASSUME NEW step, Goto(step)
      PROVE  /\ pc' = step
             /\ UNCHANGED <<chain, minted, tx, answer, due, lagged, removed>>
  BY <1>3 DEF Goto, outside, publisherVars, chainVars, historyVars
<1>4. ASSUME NEW step, Goto(step), pc \notin {"idle", "done"}, step # "done",
             UNCHANGED <<flashQ, canonQ>>
      PROVE  /\ QueueInv' /\ TimeoutInv'
             /\ HoldsEntry(flashQ)' <=> HoldsEntry(flashQ)
             /\ HoldsEntry(canonQ)' <=> HoldsEntry(canonQ)
             /\ step # "fetch" => NotifiedInv'
  <2>1. pc' = step /\ UNCHANGED <<chain, minted, tx, answer, removed>>
    BY <1>3, <1>4
  <2>2. QueueInv' /\ TimeoutInv'
    BY <1>1, <1>4, <2>1 DEF QueueInv, TimeoutInv, Entries
  <2>3. /\ HoldsEntry(flashQ)' <=> HoldsEntry(flashQ)
        /\ HoldsEntry(canonQ)' <=> HoldsEntry(canonQ)
    BY <1>4, <2>1 DEF HoldsEntry
  <2>4. step # "fetch" => NotifiedInv'
    BY <1>1, <2>1, <2>3 DEF NotifiedInv, Sealed, SealedIn
  <2> QED BY <2>2, <2>3, <2>4
<1>5. CASE Subscribe
  <2>1. /\ pc \in {"subscribe", "subscribeCanonical"} /\ Goto(SyncAfter(pc))
        /\ listening' = listening \cup
                          {IF pc = "subscribe" THEN "flashblocks" ELSE "canonical"}
        /\ UNCHANGED <<flashQ, canonQ>>
    BY <1>5 DEF Subscribe
  <2>2. PICK step : step = SyncAfter(pc)
    OBVIOUS
  <2>3. /\ pc = "subscribe" => step = "subscribeCanonical"
        /\ pc = "subscribeCanonical" => step = "submit"
        /\ Goto(step)
    BY <2>1, <2>2, SyncOrder
  <2>4. pc' = step /\ due' = due /\ lagged' = lagged
    BY <1>3, <2>3
  <2>5. QueueInv' /\ TimeoutInv' /\ NotifiedInv'
    BY <1>4, <2>1, <2>3
  <2>6. ListenInv' /\ HeardInv'
    BY <1>1, <2>1, <2>3, <2>4 DEF ListenInv, HeardInv, Submitted
  <2> QED BY <2>5, <2>6 DEF WaitInv
<1>6. CASE Submit \/ Look
  <2>1. CASE Answer(From("rejected")) \/ Answer(From("snapshot"))
    BY <1>2, <2>1
  <2>2. CASE pc \in {"submit", "look"} /\ Goto(SyncAfter(pc)) /\ UNCHANGED receivers
    <3>1. PICK step : step = SyncAfter(pc)
      OBVIOUS
    <3>2. step \in {"look", "wait"} /\ Goto(step)
      BY <2>2, <3>1, SyncOrder
    <3>3. pc' = step /\ due' = due /\ lagged' = lagged
      BY <1>3, <3>2
    <3>4. UNCHANGED <<listening, flashQ, canonQ>>
      BY <2>2 DEF receivers
    <3>5. /\ QueueInv' /\ TimeoutInv' /\ NotifiedInv'
          /\ HoldsEntry(flashQ)' <=> HoldsEntry(flashQ)
          /\ HoldsEntry(canonQ)' <=> HoldsEntry(canonQ)
      BY <1>4, <2>2, <3>2, <3>4
    <3>6. ListenInv' /\ HeardInv'
      BY <1>1, <2>2, <3>2, <3>3, <3>4, <3>5 DEF ListenInv, HeardInv, Submitted
    <3> QED BY <3>5, <3>6 DEF WaitInv
  <2> QED BY <1>6, <2>1, <2>2 DEF Submit, Look
<1>7. CASE ReceiveFlashblock
  <2>1. CASE tx \in Head(flashQ)
    BY <1>2, <1>7, <2>1 DEF ReceiveFlashblock
  <2>2. CASE tx \notin Head(flashQ)
    <3>1. /\ pc \in {"wait", "fetch"} /\ flashQ # <<>> /\ flashQ' = Tail(flashQ)
          /\ Goto(pc) /\ UNCHANGED <<listening, canonQ>>
      BY <1>7, <2>2 DEF ReceiveFlashblock
    <3>2. UNCHANGED <<chain, minted, pc, tx, answer, due, lagged, removed>>
      BY <1>3, <3>1
    <3>3. PICK rest : rest = Tail(flashQ)
      OBVIOUS
    <3>4. /\ rest \in Seq(Entries) /\ Len(rest) <= BroadcastCapacity
          /\ HoldsEntry(flashQ) => HoldsEntry(rest)
      BY <1>1, <2>2, <3>1, <3>3, TailHolds DEF QueueInv
    <3>5. /\ HoldsEntry(flashQ)' <=> HoldsEntry(rest)
          /\ HoldsEntry(canonQ)' <=> HoldsEntry(canonQ)
      BY <3>1, <3>2, <3>3 DEF HoldsEntry
    <3>6. QueueInv'
      BY <1>1, <3>1, <3>2, <3>3, <3>4 DEF QueueInv, Entries
    <3>7. ListenInv' /\ HeardInv' /\ TimeoutInv'
      BY <1>1, <3>1, <3>2, <3>4, <3>5 DEF ListenInv, HeardInv, TimeoutInv, Submitted
    <3>8. NotifiedInv'
      BY <1>1, <3>2, <3>5 DEF NotifiedInv, Sealed, SealedIn
    <3> QED BY <3>6, <3>7, <3>8 DEF WaitInv
  <2> QED BY <2>1, <2>2
<1>8. CASE ReceiveCanonical
  <2>1. /\ pc = "wait" /\ canonQ # <<>> /\ canonQ' = Tail(canonQ)
        /\ Goto(IF tx \in Head(canonQ) THEN "fetch" ELSE "wait")
        /\ UNCHANGED <<listening, flashQ>>
    BY <1>8 DEF ReceiveCanonical
  <2>2. /\ pc' = (IF tx \in Head(canonQ) THEN "fetch" ELSE "wait")
        /\ UNCHANGED <<chain, minted, tx, answer, due, lagged, removed>>
    BY <1>3, <2>1
  <2>3. PICK rest : rest = Tail(canonQ)
    OBVIOUS
  <2>4. /\ rest \in Seq(Entries) /\ Len(rest) <= BroadcastCapacity
        /\ HoldsEntry(rest) => HoldsEntry(canonQ)
        /\ tx \notin Head(canonQ) /\ HoldsEntry(canonQ) => HoldsEntry(rest)
        /\ tx \in Head(canonQ) => HoldsEntry(canonQ)
    BY <1>1, <2>1, <2>3, TailHolds DEF QueueInv
  <2>5. /\ HoldsEntry(canonQ)' <=> HoldsEntry(rest)
        /\ HoldsEntry(flashQ)' <=> HoldsEntry(flashQ)
    BY <2>1, <2>2, <2>3 DEF HoldsEntry
  <2>6. QueueInv'
    BY <1>1, <2>1, <2>2, <2>3, <2>4 DEF QueueInv, Entries
  <2>7. ListenInv' /\ HeardInv' /\ TimeoutInv'
    BY <1>1, <2>1, <2>2, <2>4, <2>5 DEF ListenInv, HeardInv, TimeoutInv, Submitted
  <2>8. NotifiedInv'
    BY <1>1, <2>2, <2>4, <2>5 DEF NotifiedInv, Sealed, SealedIn
  <2> QED BY <2>6, <2>7, <2>8 DEF WaitInv
<1>9. CASE Fetch
  <2>1. pc = "fetch" /\ (Sealed(tx) \/ removed)
    BY <1>1, <1>9 DEF Fetch, NotifiedInv
  <2> QED BY <1>2, <1>9, <2>1 DEF Fetch
<1>10. CASE TimeOut
  BY <1>2, <1>10 DEF TimeOut
<1> QED BY <1>5, <1>6, <1>7, <1>8, <1>9, <1>10 DEF SyncStep

\* The requests that wait for nothing.
LEMMA OtherStepWait ==
    WaitInv /\ (ReadBlock \/ ReadCanonical \/ ReadSnapshot \/ LogStep \/ StateStep \/ FeeStep)
        => WaitInv'
<1> SUFFICES ASSUME WaitInv, ReadBlock \/ ReadCanonical \/ ReadSnapshot \/ LogStep
                                 \/ StateStep \/ FeeStep
             PROVE  WaitInv'
  OBVIOUS
<1>1. ASSUME NEW source, Answer(From(source)), source # "noReceipt"
      PROVE  WaitInv'
  <2>1. From(source).from = source
    BY DEF From
  <2> QED BY <1>1, <2>1, WaitAnswers
<1>2. ASSUME NEW step, Goto(step), UNCHANGED receivers, pc # "done",
             step \in {"snapshot", "historical", "join", "overlay", "engine", "anchor", "open",
                       "balanceEngine", "balanceAnchor", "feeBlock", "baseFee"}
      PROVE  WaitInv'
  BY <1>2, WaitGoesOn DEF WaitLabels
<1>3. ASSUME Answer(LocalPendingBlock)
      PROVE  WaitInv'
  BY <1>1, <1>3 DEF LocalPendingBlock
<1>4. CASE ReadBlock
  <2> DEFINE value == [from |-> "snapshot", txs |-> LatestBlockTransactions(pending.fbs)]
  <2>1. value.from = "snapshot"
    OBVIOUS
  <2>2. Answer(value) \/ Answer(LocalPendingBlock)
    BY <1>4 DEF ReadBlock, BlockByNumber
  <2> HIDE DEF value
  <2> QED BY <1>3, <2>1, <2>2, WaitAnswers
<1>5. CASE ReadCanonical \/ ReadSnapshot
  <2>1. NoAnswer = From("none")
    BY DEF NoAnswer, From
  <2> QED BY <1>1, <1>2, <1>5, <2>1 DEF ReadCanonical, ReadSnapshot
<1>6. CASE LogStep
  <2>1. CASE LoadLogs \/ FetchHistoricalLogs
    BY <1>2, <1>3, <2>1 DEF LoadLogs, FetchHistoricalLogs
  <2>2. CASE JoinLogs
    <3> DEFINE value == [from |-> "logs",
                         logs |-> logs \cup {l \in PendingLogs(snap.fbs) : NotFetched(l)}]
    <3>1. Answer(value) /\ value.from = "logs"
      BY <2>2 DEF JoinLogs
    <3> HIDE DEF value
    <3> QED BY <3>1, WaitAnswers
  <2> QED BY <1>6, <2>1, <2>2 DEF LogStep
<1>7. CASE StateStep
  <2>1. CASE LoadOverlay
    <3>1. CASE IsSome(pending)
      BY <1>2, <2>1, <3>1 DEF LoadOverlay
    <3>2. CASE ~IsSome(pending)
      <4>1. /\ pc' = "done" /\ answer' = From("provider")
            /\ UNCHANGED <<chain, minted, tx, receivers, removed>>
        BY <2>1, <3>2 DEF LoadOverlay, outside, publisherVars, chainVars, historyVars
      <4>2. TimeoutInv'
        BY <4>1 DEF TimeoutInv, From
      <4> QED BY <4>1, <4>2, Elsewhere DEF WaitLabels
    <3> QED BY <3>1, <3>2
  <2>2. CASE ChooseBlock \/ CheckEngine
    BY <1>1, <1>2, <2>2 DEF ChooseBlock, CheckEngine, ToProvider
  <2>3. CASE CheckAnchor
    BY <1>1, <1>2, <2>3 DEF CheckAnchor, ServeOverlay, ToProvider
  <2>4. CASE OpenState
    <3> DEFINE value == [from |-> "overlay", overlay |-> snap]
    <3>1. value.from = "overlay"
      OBVIOUS
    <3>2. Answer(value) \/ Answer(From("error"))
      BY <2>4 DEF OpenState
    <3> HIDE DEF value
    <3> QED BY <1>1, <3>1, <3>2, WaitAnswers
  <2>5. CASE LoadForBalance
    BY <1>2, <2>5 DEF LoadForBalance
  <2>6. CASE CheckEngineForBalance \/ CheckAnchorForBalance
    BY <1>1, <1>2, <2>6 DEF CheckEngineForBalance, CheckAnchorForBalance, NoBuilderBalance
  <2> QED BY <1>7, <2>1, <2>2, <2>3, <2>4, <2>5, <2>6 DEF StateStep
<1>8. CASE FeeStep
  <2>1. CASE LoadFee \/ CheckFeeBlock
    BY <1>1, <1>2, <2>1 DEF LoadFee, CheckFeeBlock
  <2>2. CASE ReadBaseFee
    <3> DEFINE value == [from |-> "builder", base |-> Best + 1]
    <3>1. Answer(value) /\ value.from = "builder"
      BY <2>2 DEF ReadBaseFee
    <3> HIDE DEF value
    <3> QED BY <3>1, WaitAnswers
  <2> QED BY <1>8, <2>1, <2>2 DEF FeeStep
<1> QED BY <1>4, <1>5, <1>6, <1>7, <1>8

\* Every step keeps what a waiting submission relies on.
LEMMA NextWait == WaitInv /\ [ApiNext]_vars => WaitInv'
<1> SUFFICES ASSUME WaitInv, [ApiNext]_vars
             PROVE  WaitInv'
  OBVIOUS
<1> USE DEF outside, registers, historyVars, publisherVars, chainVars
<1>1. QueueInv /\ ListenInv /\ HeardInv /\ NotifiedInv /\ TimeoutInv
  BY DEF WaitInv
<1>2. CASE \E k \in Kinds, t \in Requested : Begin(k, t)
  <2>1. PICK k \in Kinds, t \in Requested : Begin(k, t)
    BY <1>2
  <2>2. /\ pc = "idle" /\ pc' = FirstStep[k]
        /\ UNCHANGED <<chain, minted, receivers, answer, due, lagged, removed>>
    BY <2>1 DEF Begin
  <2>3. pc' \notin {"done", "idle", "subscribeCanonical", "submit", "look", "wait", "fetch"}
    BY <2>2, FirstSteps
  <2>4. canonQ' = <<>> /\ ~due' /\ answer' = NoAnswer
    BY <1>1, <2>2 DEF ListenInv, HeardInv, TimeoutInv, receivers
  <2>5. ~HoldsEntry(canonQ)'
    BY <2>4 DEF HoldsEntry
  <2>6. QueueInv'
    BY <1>1, <2>2 DEF QueueInv, Entries, receivers
  <2>7. ListenInv' /\ HeardInv' /\ NotifiedInv' /\ TimeoutInv'
    BY <2>3, <2>4, <2>5 DEF ListenInv, HeardInv, NotifiedInv, TimeoutInv, Submitted, NoAnswer
  <2> QED BY <2>6, <2>7 DEF WaitInv
<1>3. CASE Finish
  <2>1. /\ pc' = "idle" /\ listening' = {} /\ flashQ' = <<>> /\ canonQ' = <<>>
        /\ answer' = NoAnswer /\ ~due' /\ UNCHANGED <<chain, minted>>
    BY <1>3 DEF Finish
  <2>2. ~HoldsEntry(canonQ)'
    BY <2>1 DEF HoldsEntry
  <2>3. QueueInv'
    BY <1>1, <2>1, CapacityAssumption DEF QueueInv, Entries
  <2>4. ListenInv' /\ HeardInv' /\ NotifiedInv' /\ TimeoutInv'
    BY <2>1, <2>2 DEF ListenInv, HeardInv, NotifiedInv, TimeoutInv, Submitted, NoAnswer
  <2> QED BY <2>3, <2>4 DEF WaitInv
<1>4. CASE ReadFails
  <2>1. /\ UNCHANGED <<chain, minted, tx, receivers>> /\ pc # "done"
        /\ removed' <=> removed \/ pc = "fetch"
    BY <1>4 DEF ReadFails
  <2>2. /\ pc' \in {"anchor", "balanceAnchor", "overlay", "baseFee", "done"}
        /\ pc' # "done" => answer' = answer
        /\ pc' = "done" => \/ answer' \in {From("error"), From("fallback"), From("builder")}
                           \/ pc = "fetch" /\ answer' = From("noReceipt")
    BY <1>4 DEF ReadFails
  <2>3. TimeoutInv'
    BY <1>1, <2>1, <2>2 DEF TimeoutInv, From, NoAnswer
  <2> QED BY <2>1, <2>2, <2>3, Elsewhere DEF WaitLabels
<1>5. CASE UNCHANGED vars
  BY <1>5, WaitAlone DEF vars, requestVars
<1> QED
  BY <1>2, <1>3, <1>4, <1>5, EnvironmentWait, SyncStepWait, OtherStepWait DEF ApiNext, Request

(***************************************************************************)
(* eth_sendRawTransactionSync misses nothing: what was broadcast or sealed *)
(* since the submission began is in a receiver of the request that waits,  *)
(* because both were taken before the pool was given the transaction.      *)
(***************************************************************************)
THEOREM SubmissionIsHeard == ApiSpec => []SubmittedIsHeard
<1>1. WaitInv => SubmittedIsHeard
  BY DEF WaitInv, HeardInv, Submitted, SubmittedIsHeard
<1> QED BY <1>1, InitWait, NextWait, PTL DEF ApiSpec

(***************************************************************************)
(* It answers a timeout before its timer only if the transaction left the  *)
(* chain after its notification, or the read of its receipt failed.        *)
(***************************************************************************)
THEOREM EarlyTimeoutIsReorg == ApiSpec => []EarlyTimeoutOnlyByReorg
<1>1. WaitInv => EarlyTimeoutOnlyByReorg
  BY DEF WaitInv, TimeoutInv, EarlyTimeoutOnlyByReorg
<1> QED BY <1>1, InitWait, NextWait, PTL DEF ApiSpec

-----------------------------------------------------------------------------
(***************************************************************************)
(* The list of a snapshot's flashblocks and of their transactions          *)
(***************************************************************************)
\* No place of a block is taken twice.
Placed(F) == \A f, g \in F : f.block = g.block /\ f.index = g.index => f = g

\* The flashblocks before each.
Before(F) == [f \in F |-> {g \in F : BeforeFlashblock(g, f)}]

\* The places of a snapshot's flashblocks order them.
LEMMA FlashblocksOrdered ==
    ASSUME NEW F \in SUBSET Flashblocks, Placed(F)
    PROVE  IsFiniteSet(F) /\ Ordered(F, Before(F))
<1>1. IsFiniteSet(F)
  BY StreamAssumption, FS_Subset
<1>2. \A f \in F : f.block \in Nat /\ f.index \in Nat
  BY FlashblocksAssumption
<1>3. Before(F) \in [F -> SUBSET F]
  BY DEF Before
<1>4. \A e, f \in F : f \in Before(F)[e] <=> BeforeFlashblock(f, e)
  BY DEF Before
<1>5. \A e \in F : e \notin Before(F)[e]
  BY <1>2, <1>4 DEF BeforeFlashblock
<1>6. ASSUME NEW e \in F, NEW f \in F, NEW g \in F, f \in Before(F)[e], g \in Before(F)[f]
      PROVE  g \in Before(F)[e]
  BY <1>2, <1>4, <1>6 DEF BeforeFlashblock
<1>7. ASSUME NEW e \in F, NEW f \in F, e # f
      PROVE  f \in Before(F)[e] \/ e \in Before(F)[f]
  BY <1>2, <1>4, <1>7 DEF BeforeFlashblock, Placed
<1> QED BY <1>1, <1>3, <1>5, <1>6, <1>7 DEF Ordered

\* The list of flashblocks is in that order.
LEMMA InOrderRanked ==
    ASSUME NEW F \in SUBSET Flashblocks, Placed(F)
    PROVE  Ranked(F, Before(F), InOrder(F))
<1> DEFINE B == Before(F)
           Place(i) == CHOOSE f \in F : Cardinality({g \in F : BeforeFlashblock(g, f)}) = i - 1
<1>1. IsFiniteSet(F) /\ Ordered(F, B)
  BY FlashblocksOrdered
<1>2. \A f \in F : B[f] = {g \in F : BeforeFlashblock(g, f)}
  BY DEF Before
<1> HIDE DEF B
<1>3. \A i \in 1..Cardinality(F) : \E f \in F : Cardinality(B[f]) = i - 1
  BY <1>1, Ranks
<1>4. ASSUME NEW i \in 1..Cardinality(F)
      PROVE  Place(i) \in F /\ Cardinality(B[Place(i)]) = i - 1
  <2>1. \E f \in F : Cardinality({g \in F : BeforeFlashblock(g, f)}) = i - 1
    BY <1>2, <1>3
  <2>2. Place(i) \in F /\ Cardinality({g \in F : BeforeFlashblock(g, Place(i))}) = i - 1
    BY <2>1, Zenon
  <2> HIDE DEF Place
  <2> QED BY <1>2, <2>2
<1>5. InOrder(F) = [i \in 1..Cardinality(F) |-> Place(i)]
  BY DEF InOrder
<1>6. Ranked(F, B, InOrder(F))
  <2> HIDE DEF Place
  <2> QED BY <1>4, <1>5 DEF Ranked
<1> QED BY <1>6 DEF B

\* It ends with the latest flashblock, which all others are before,
LEMMA ListEnds ==
    ASSUME NEW F \in SUBSET Flashblocks, Placed(F), F # {}
    PROVE  /\ Cardinality(F) \in Nat \ {0}
           /\ LatestFlashblock(F) \in F
           /\ LatestFlashblock(F) = InOrder(F)[Cardinality(F)]
           /\ \A g \in F : g # LatestFlashblock(F) =>
                 BeforeFlashblock(g, LatestFlashblock(F))
<1> DEFINE n == Cardinality(F)
           L == InOrder(F)
           B == Before(F)
           l == LatestFlashblock(F)
           IsLast(f) == \A g \in F : \/ g.block < f.block
                                     \/ g.block = f.block /\ g.index <= f.index
<1>1. IsFiniteSet(F) /\ Ordered(F, B) /\ Ranked(F, B, L)
  BY FlashblocksOrdered, InOrderRanked
<1>2. n \in Nat \ {0}
  BY <1>1, FS_CardinalityType, FS_EmptySet
<1>3. \A f \in F : f.block \in Nat /\ f.index \in Nat
  BY FlashblocksAssumption
<1>4. l = CHOOSE f \in F : IsLast(f)
  BY DEF LatestFlashblock
<1>5. \A e, f \in F : f \in B[e] <=> BeforeFlashblock(f, e)
  BY DEF Before
<1> HIDE DEF n, L, B, l
<1>6. /\ \A e \in F : \E i \in 1..n : L[i] = e
      /\ \A i, j \in 1..n : i < j <=> L[i] \in B[L[j]]
  BY <1>1, Ranking DEF n
<1>7. L \in [1..n -> F]
  BY <1>1 DEF Ranked, n
<1>8. L[n] \in F
  BY <1>2, <1>7
<1>9. \A g \in F : g = L[n] \/ BeforeFlashblock(g, L[n])
  <2> TAKE g \in F
  <2>1. PICK i \in 1..n : L[i] = g
    BY <1>6
  <2>2. CASE i = n
    BY <2>1, <2>2
  <2>3. CASE i # n
    <3>1. i < n /\ n \in 1..n
      BY <1>2, <2>3
    <3>2. L[i] \in B[L[n]]
      BY <1>6, <3>1
    <3> QED BY <1>5, <1>8, <2>1, <3>2
  <2> QED BY <2>2, <2>3
<1>10. IsLast(L[n])
  BY <1>3, <1>8, <1>9 DEF BeforeFlashblock
<1>11. l \in F /\ IsLast(l)
  <2> HIDE DEF IsLast
  <2> QED BY <1>4, <1>8, <1>10, Zenon
<1>12. l = L[n]
  <2>1. l = L[n] \/ BeforeFlashblock(l, L[n])
    BY <1>9, <1>11
  <2>2. ~BeforeFlashblock(l, L[n])
    BY <1>3, <1>8, <1>11 DEF BeforeFlashblock
  <2> QED BY <2>1, <2>2
<1> QED BY <1>2, <1>8, <1>9, <1>12 DEF n, L, l

\* and without it, it is that of the others.
LEMMA ListBegins ==
    ASSUME NEW F \in SUBSET Flashblocks, Placed(F), F # {},
           NEW G, G = F \ {LatestFlashblock(F)}
    PROVE  /\ G \in SUBSET Flashblocks /\ Placed(G)
           /\ Cardinality(G) = Cardinality(F) - 1
           /\ \A i \in 1..Cardinality(G) : InOrder(G)[i] = InOrder(F)[i]
<1> DEFINE n == Cardinality(F)
           l == LatestFlashblock(F)
<1>1. G \in SUBSET Flashblocks /\ Placed(G)
  BY DEF Placed
<1>2. /\ n \in Nat \ {0} /\ l \in F /\ l = InOrder(F)[n]
      /\ \A g \in F : g # l => BeforeFlashblock(g, l)
  BY ListEnds
<1>3. IsFiniteSet(F) /\ Ordered(F, Before(F)) /\ Ranked(F, Before(F), InOrder(F))
  BY FlashblocksOrdered, InOrderRanked
<1>4. IsFiniteSet(G) /\ Ordered(G, Before(G)) /\ Ranked(G, Before(G), InOrder(G))
  BY <1>1, FlashblocksOrdered, InOrderRanked
<1>5. G = F \ {l}
  OBVIOUS
<1> HIDE DEF n, l
<1>6. Cardinality(G) = n - 1
  BY <1>2, <1>3, <1>5, FS_RemoveElement DEF n
<1>7. \A f \in F : f.block \in Nat /\ f.index \in Nat
  BY FlashblocksAssumption
<1>8. ASSUME NEW f \in G PROVE Before(G)[f] = Before(F)[f]
  <2>1. ~BeforeFlashblock(l, f)
    BY <1>2, <1>5, <1>7 DEF BeforeFlashblock
  <2>2. f \in F
    BY <1>5
  <2> QED BY <1>5, <2>1, <2>2 DEF Before
<1>9. ASSUME NEW i \in 1..(n - 1) PROVE InOrder(G)[i] = InOrder(F)[i]
  <2> DEFINE a == InOrder(G)[i]
             b == InOrder(F)[i]
  <2>1. a \in G /\ Cardinality(Before(G)[a]) = i - 1
    BY <1>4, <1>6 DEF Ranked
  <2>2. i \in 1..n
    BY <1>2
  <2>3. b \in F /\ Cardinality(Before(F)[b]) = i - 1
    BY <1>3, <2>2 DEF Ranked, n
  <2>4. a \in F /\ Cardinality(Before(F)[a]) = i - 1
    BY <1>5, <1>8, <2>1
  <2> HIDE DEF a, b
  <2>5. /\ \A e, f \in F : f \in Before(F)[e] =>
              Cardinality(Before(F)[f]) < Cardinality(Before(F)[e])
        /\ \A e \in F : Cardinality(Before(F)[e]) \in 0..(n - 1)
    BY <1>3, Ranks DEF n
  <2>6. a # b => b \in Before(F)[a] \/ a \in Before(F)[b]
    BY <1>3, <2>3, <2>4 DEF Ordered
  <2>7. i \in Int
    OBVIOUS
  <2>8. a = b
    BY <2>3, <2>4, <2>5, <2>6, <2>7
  <2> QED BY <2>8 DEF a, b
<1> QED BY <1>1, <1>6, <1>9 DEF n

-----------------------------------------------------------------------------
\* The transactions of the stream.
Streamable == UNION {Range(f.txs) : f \in Flashblocks}

\* A flashblock's transactions are some of them.
LEMMA FlashblockTxs == \A f \in Flashblocks : f.txs \in Seq(Streamable)
<1> SUFFICES ASSUME NEW f \in Flashblocks PROVE f.txs \in Seq(Streamable)
  OBVIOUS
<1>1. f.txs \in Seq(Range(f.txs))
  BY StreamAssumption
<1>2. Range(f.txs) \subseteq Streamable
  BY DEF Streamable
<1> QED BY <1>1, <1>2

\* The transactions of flashblocks, one after the other.
TxsOf(held) == [i \in 1..Len(held) |-> held[i].txs]

\* They are sequences of transactions, and a flashblock at the end adds its own.
LEMMA TxsOfAppend ==
    ASSUME NEW held \in Seq(Flashblocks), NEW f \in Flashblocks
    PROVE  /\ TxsOf(held) \in Seq(Seq(Streamable)) /\ f.txs \in Seq(Streamable)
           /\ TxsOf(Append(held, f)) = Append(TxsOf(held), f.txs)
           /\ FlattenSeq(TxsOf(held)) \in Seq(Streamable)
           /\ FlattenSeq(TxsOf(Append(held, f))) = FlattenSeq(TxsOf(held)) \o f.txs
<1>1. TxsOf(held) \in Seq(Seq(Streamable)) /\ Len(TxsOf(held)) = Len(held)
  <2>1. \A i \in 1..Len(held) : held[i].txs \in Seq(Streamable)
    BY FlashblockTxs
  <2>2. Len(held) \in Nat
    OBVIOUS
  <2>3. TxsOf(held) \in [1..Len(held) -> Seq(Streamable)]
    BY <2>1 DEF TxsOf
  <2> QED BY <2>2, <2>3
<1>2. f.txs \in Seq(Streamable)
  BY FlashblockTxs
<1>3. TxsOf(Append(held, f)) = Append(TxsOf(held), f.txs)
  <2> DEFINE more == Append(held, f)
  <2>1. /\ Len(more) = Len(held) + 1 /\ more[Len(held) + 1] = f /\ Len(held) \in Nat
        /\ \A i \in 1..Len(held) : more[i] = held[i]
    OBVIOUS
  <2> HIDE DEF more
  <2>2. \A i \in 1..(Len(held) + 1) :
           (IF i = Len(held) + 1 THEN f.txs ELSE held[i].txs) = more[i].txs
    BY <2>1
  <2>3. /\ Append(TxsOf(held), f.txs) \in Seq(Seq(Streamable))
        /\ Len(Append(TxsOf(held), f.txs)) = Len(held) + 1
        /\ \A i \in 1..(Len(held) + 1) : Append(TxsOf(held), f.txs)[i] =
              IF i = Len(held) + 1 THEN f.txs ELSE TxsOf(held)[i]
    BY <1>1, <1>2
  <2>4. \A i \in 1..Len(held) : TxsOf(held)[i] = held[i].txs
    BY DEF TxsOf
  <2>5. Append(TxsOf(held), f.txs) = [i \in 1..(Len(held) + 1) |-> more[i].txs]
    BY <2>1, <2>2, <2>3, <2>4
  <2>6. TxsOf(more) = [i \in 1..(Len(held) + 1) |-> more[i].txs]
    BY <2>1 DEF TxsOf
  <2> QED BY <2>5, <2>6 DEF more
<1>4. /\ FlattenSeq(TxsOf(held)) \in Seq(Streamable)
      /\ FlattenSeq(Append(TxsOf(held), f.txs)) = FlattenSeq(TxsOf(held)) \o f.txs
  BY <1>1, <1>2, FlattenAppend
<1> QED BY <1>1, <1>2, <1>3, <1>4

\* The list of a snapshot's flashblocks, as a sequence.
LEMMA InOrderList ==
    ASSUME NEW F \in SUBSET Flashblocks, Placed(F)
    PROVE  /\ InOrder(F) \in Seq(Flashblocks) /\ Len(InOrder(F)) = Cardinality(F)
           /\ Transactions(F) = FlattenSeq(TxsOf(InOrder(F)))
<1>1. Cardinality(F) \in Nat
  BY FlashblocksOrdered, FS_CardinalityType
<1>2. InOrder(F) \in [1..Cardinality(F) -> F]
  BY InOrderRanked DEF Ranked
<1>3. InOrder(F) \in Seq(Flashblocks) /\ Len(InOrder(F)) = Cardinality(F)
  BY <1>1, <1>2
<1> QED BY <1>3 DEF Transactions, TxsOf

\* A snapshot's transactions end with those of its latest flashblock.
LEMMA TransactionsAppend ==
    ASSUME NEW F \in SUBSET Flashblocks, Placed(F), F # {}
    PROVE  LET l == LatestFlashblock(F)
           IN  /\ l.txs \in Seq(Streamable)
               /\ Transactions(F \ {l}) \in Seq(Streamable)
               /\ Transactions(F) = Transactions(F \ {l}) \o l.txs
<1> DEFINE l == LatestFlashblock(F)
           G == F \ {l}
           n == Cardinality(F)
<1>1. n \in Nat \ {0} /\ l \in F /\ l = InOrder(F)[n]
  BY ListEnds
<1>2. /\ G \in SUBSET Flashblocks /\ Placed(G) /\ Cardinality(G) = n - 1
      /\ \A i \in 1..(n - 1) : InOrder(G)[i] = InOrder(F)[i]
  <2>1. /\ G \in SUBSET Flashblocks /\ Placed(G) /\ Cardinality(G) = n - 1
        /\ \A i \in 1..Cardinality(G) : InOrder(G)[i] = InOrder(F)[i]
    BY ListBegins
  <2> QED BY <2>1
<1> HIDE DEF l, G, n
<1>3. /\ InOrder(G) \in Seq(Flashblocks) /\ Len(InOrder(G)) = n - 1
      /\ Transactions(G) = FlattenSeq(TxsOf(InOrder(G)))
  BY <1>2, InOrderList
<1>4. /\ InOrder(F) \in Seq(Flashblocks) /\ Len(InOrder(F)) = n
      /\ Transactions(F) = FlattenSeq(TxsOf(InOrder(F)))
  BY InOrderList DEF n
<1>5. l \in Flashblocks
  BY <1>1
<1>6. InOrder(F) = Append(InOrder(G), l)
  <2>1. /\ Append(InOrder(G), l) \in Seq(Flashblocks) /\ Len(Append(InOrder(G), l)) = n
        /\ \A i \in 1..n : Append(InOrder(G), l)[i] = IF i = n THEN l ELSE InOrder(G)[i]
    BY <1>1, <1>3, <1>5
  <2>2. \A i \in 1..n : Append(InOrder(G), l)[i] = InOrder(F)[i]
    BY <1>1, <1>2, <2>1
  <2> QED BY <1>4, <2>1, <2>2
<1>7. /\ l.txs \in Seq(Streamable) /\ Transactions(G) \in Seq(Streamable)
      /\ Transactions(F) = Transactions(G) \o l.txs
  BY <1>3, <1>4, <1>5, <1>6, TxsOfAppend
<1> QED BY <1>7 DEF G, l

\* Without flashblocks there are none.
LEMMA NoTransactions == Transactions({}) = <<>>
<1>1. Cardinality({}) = 0
  BY FS_EmptySet
<1>2. [i \in 1..Cardinality({}) |-> InOrder({})[i].txs] = <<>>
  BY <1>1
<1> QED BY <1>2, FlattenNone DEF Transactions

-----------------------------------------------------------------------------
\* The number of transactions of a set of flashblocks.
TxCount(F) == MapThenSumSet(LAMBDA f : Len(f.txs), F)

TxLengths == [f \in Flashblocks |-> Len(f.txs)]

\* It is a sum over the flashblocks of the stream.
LEMMA TxCountIsSum ==
    ASSUME NEW g, SumOf(Flashblocks, TxLengths, g), NEW F \in SUBSET Flashblocks
    PROVE  TxCount(F) = g[F]
<1> DEFINE w == [f \in F |-> Len(f.txs)]
           Eq(k) == k = [s \in SUBSET F |->
                            IF s = {} THEN 0
                            ELSE Len((CHOOSE x \in s : TRUE).txs)
                                     + k[s \ {CHOOSE x \in s : TRUE}]]
           f == CHOOSE k : Eq(k)
<1>1. IsFiniteSet(F) /\ IsFiniteSet(Flashblocks)
  BY StreamAssumption, FS_Subset
<1>2. w \in [F -> Nat]
  <2>1. \A x \in F : Len(x.txs) \in Nat
    BY FlashblockTxs
  <2> QED BY <2>1
<1>3. TxCount(F) = f[F]
  BY DEF TxCount, MapThenSumSet, MapThenFoldSet
<1>4. ASSUME NEW k PROVE SumOf(F, w, k) <=> Eq(k)
  <2>1. ASSUME NEW s \in SUBSET F, s # {}
        PROVE  w[Member(s)] = Len((CHOOSE x \in s : TRUE).txs)
    BY <2>1, MemberIn DEF Member
  <2>2. [s \in SUBSET F |-> IF s = {} THEN 0 ELSE w[Member(s)] + k[s \ {Member(s)}]]
        = [s \in SUBSET F |->
              IF s = {} THEN 0
              ELSE Len((CHOOSE x \in s : TRUE).txs) + k[s \ {CHOOSE x \in s : TRUE}]]
    <3> HIDE DEF w
    <3> QED BY <2>1 DEF Member
  <2> HIDE DEF w
  <2> QED BY <2>2 DEF SumOf
<1>5. \A x \in F : TxLengths[x] = w[x]
  BY DEF TxLengths
<1> HIDE DEF w
<1>6. SumOf(F, w, f)
  <2>1. \E k : Eq(k)
    <3>1. PICK k : SumOf(F, w, k)
      BY <1>1, <1>2, SumExists
    <3> HIDE DEF Eq
    <3> QED BY <1>4, <3>1
  <2>2. Eq(f)
    <3> HIDE DEF Eq
    <3> QED BY <2>1, Zenon DEF f
  <2> HIDE DEF f, Eq
  <2> QED BY <1>4, <2>2
<1> HIDE DEF f, Eq
<1>7. g[F] = f[F]
  BY <1>1, <1>5, <1>6, SumUnique
<1> QED BY <1>3, <1>7

\* The places of its flashblocks distinct, a snapshot has as many transactions as
\* they hold together.
LEMMA TransactionsCounted ==
    ASSUME NEW F \in SUBSET Flashblocks, Placed(F)
    PROVE  Transactions(F) \in Seq(Streamable) /\ Len(Transactions(F)) = TxCount(F)
<1> DEFINE Good(G) == Transactions(G) \in Seq(Streamable) /\ Len(Transactions(G)) = TxCount(G)
           S == {n \in Nat : \A G \in SUBSET Flashblocks :
                    Placed(G) /\ Cardinality(G) = n => Good(G)}
<1>1. IsFiniteSet(Flashblocks) /\ TxLengths \in [Flashblocks -> Nat]
  <2>1. \A f \in Flashblocks : Len(f.txs) \in Nat
    BY FlashblockTxs
  <2> QED BY <2>1, StreamAssumption DEF TxLengths
<1>2. PICK g : SumOf(Flashblocks, TxLengths, g)
  BY <1>1, SumExists
<1>3. \A G \in SUBSET Flashblocks : TxCount(G) = g[G]
  BY <1>2, TxCountIsSum
<1>4. \A G \in SUBSET Flashblocks :
         g[G] \in Nat /\ \A f \in G : g[G] = TxLengths[f] + g[G \ {f}]
  <2>1. Additive(Flashblocks, TxLengths, g)
    BY <1>1, <1>2, SumRemove
  <2> QED BY <2>1 DEF Additive
<1>5. 0 \in S
  <2>1. ASSUME NEW G \in SUBSET Flashblocks, Cardinality(G) = 0 PROVE Good(G)
    <3>1. G = {}
      BY <1>1, <2>1, Remaining
    <3>2. g[{}] = 0
      BY <1>2, SumUnfold
    <3>3. TxCount({}) = 0
      BY <1>3, <3>2
    <3>4. <<>> \in Seq(Streamable) /\ Len(<<>>) = 0
      OBVIOUS
    <3>5. Good({})
      BY <3>3, <3>4, NoTransactions
    <3> HIDE DEF Good
    <3> QED BY <3>1, <3>5
  <2> QED BY <2>1
<1>6. ASSUME NEW n \in Nat, n \in S PROVE n + 1 \in S
  <2>1. ASSUME NEW G \in SUBSET Flashblocks, Placed(G), Cardinality(G) = n + 1 PROVE Good(G)
    <3> DEFINE l == LatestFlashblock(G)
               H == G \ {l}
    <3>1. G # {}
      BY <2>1, FS_EmptySet
    <3>2. l \in G
      BY <2>1, <3>1, ListEnds
    <3>3. H \in SUBSET Flashblocks /\ Placed(H) /\ Cardinality(H) = n
      BY <2>1, <3>1, ListBegins
    <3>4. /\ l.txs \in Seq(Streamable) /\ Transactions(H) \in Seq(Streamable)
          /\ Transactions(G) = Transactions(H) \o l.txs
      BY <2>1, <3>1, TransactionsAppend
    <3>5. g[G] = Len(l.txs) + g[H] /\ g[H] \in Nat
      BY <1>4, <3>2, <3>3 DEF TxLengths
    <3> HIDE DEF l, H
    <3>6. Good(H)
      BY <1>6, <3>3
    <3>7. TxCount(G) = g[G] /\ TxCount(H) = g[H]
      BY <1>3, <3>3
    <3> QED BY <3>4, <3>5, <3>6, <3>7
  <2> HIDE DEF Good
  <2> QED BY <2>1
<1>7. \A n \in Nat : n \in S
  <2> HIDE DEF S
  <2> QED BY <1>5, <1>6, Induction
<1>8. Cardinality(F) \in Nat
  BY FlashblocksOrdered, FS_CardinalityType
<1> QED BY <1>7, <1>8

\* The latest delta is what the latest flashblock holds.
LEMMA DeltaIsLast ==
    ASSUME NEW F \in SUBSET Flashblocks, Placed(F), F # {}
    PROVE  LatestDelta(F) = LatestFlashblock(F).txs
<1> DEFINE l == LatestFlashblock(F)
           H == F \ {l}
           a == Transactions(H)
           b == l.txs
<1>1. /\ b \in Seq(Streamable) /\ a \in Seq(Streamable)
      /\ Transactions(F) = a \o b
  BY TransactionsAppend
<1>2. H \in SUBSET Flashblocks /\ Placed(H)
  BY ListBegins
<1>3. Len(a) = TxCount(H)
  BY <1>2, TransactionsCounted
<1>4. PreviousTxCount(F) = TxCount(H)
  BY DEF PreviousTxCount, TxCount
<1>5. LatestDelta(F) = SubSeq(a \o b, Len(a) + 1, Len(a \o b))
  BY <1>1, <1>3, <1>4 DEF LatestDelta
<1> HIDE DEF a, b
<1>6. SubSeq(a \o b, Len(a) + 1, Len(a \o b)) = b
  <2>1. /\ a \o b \in Seq(Streamable) /\ Len(a \o b) = Len(a) + Len(b)
        /\ Len(a) \in Nat /\ Len(b) \in Nat
        /\ \A i \in 1..Len(b) : (a \o b)[Len(a) + i] = b[i]
    BY <1>1
  <2> DEFINE c == SubSeq(a \o b, Len(a) + 1, Len(a \o b))
  <2>2. /\ c \in Seq(Streamable) /\ Len(c) = Len(b)
        /\ \A i \in 1..Len(b) : c[i] = (a \o b)[Len(a) + i]
    BY <2>1
  <2> HIDE DEF c
  <2>3. c = b
    BY <1>1, <2>1, <2>2
  <2> QED BY <2>3 DEF c
<1> QED BY <1>5, <1>6 DEF b

-----------------------------------------------------------------------------
\* `held' is each flashblock of G once, by its index.
Lists(held, G) ==
    /\ held \in Seq(Flashblocks)
    /\ \A i \in 1..Len(held) : held[i] \in G /\ held[i].index = i - 1
    /\ \A g \in G : g.index + 1 \in 1..Len(held) /\ held[g.index + 1] = g

\* So it is the list of G.
LEMMA ListedInOrder ==
    ASSUME NEW G \in SUBSET Flashblocks, Placed(G), NEW number,
           \A g \in G : g.block = number, NEW held, Lists(held, G)
    PROVE  held = InOrder(G)
<1> DEFINE n == Len(held)
<1>1. /\ held \in Seq(Flashblocks) /\ n \in Nat
      /\ \A i \in 1..n : held[i] \in G /\ held[i].index = i - 1
      /\ \A g \in G : g.index + 1 \in 1..n /\ held[g.index + 1] = g
  BY DEF Lists
<1>2. \A f \in G : f.block \in Nat /\ f.index \in Nat
  BY FlashblocksAssumption
<1> HIDE DEF n
<1>3. ASSUME NEW T \in SUBSET G, NEW m \in 0..n, \A g \in G : g \in T <=> g.index < m
      PROVE  Cardinality(T) = m
  <2> DEFINE h == [i \in 1..m |-> held[i]]
  <2>1. ASSUME NEW i \in 1..m PROVE i \in 1..n /\ held[i] \in T
    <3>1. i \in 1..n /\ i - 1 < m
      BY <1>1
    <3>2. held[i] \in G /\ held[i].index < m
      BY <1>1, <3>1
    <3> QED BY <1>3, <3>1, <3>2
  <2>2. h \in [1..m -> T]
    BY <2>1
  <2>3. \A i, j \in 1..m : h[i] = h[j] => i = j
    <3>1. \A i \in 1..m : held[i].index = i - 1
      BY <1>1, <2>1
    <3>2. \A i, j \in 1..m : i - 1 = j - 1 => i = j
      OBVIOUS
    <3> QED BY <3>1, <3>2
  <2>4. \A g \in T : \E i \in 1..m : h[i] = g
    <3> TAKE g \in T
    <3>1. g.index + 1 \in 1..m /\ held[g.index + 1] = g
      BY <1>1, <1>2, <1>3
    <3> QED BY <3>1
  <2>5. ExistsBijection(1..m, T)
    <3> HIDE DEF h
    <3>1. h \in Injection(1..m, T) /\ h \in Surjection(1..m, T)
      BY <2>2, <2>3, <2>4 DEF Injection, Surjection, IsInjective
    <3> QED BY <3>1 DEF ExistsBijection, Bijection
  <2>6. m \in Nat /\ IsFiniteSet(1..m) /\ Cardinality(1..m) = m
    <3>1. m \in Nat
      OBVIOUS
    <3> QED BY <3>1, FS_Interval
  <2> QED BY <2>5, <2>6, FS_Bijection
<1>4. Cardinality(G) = n
  <2>1. \A g \in G : g.index < n
    BY <1>1, <1>2
  <2> QED BY <1>1, <1>3, <2>1
<1>5. IsFiniteSet(G) /\ Ordered(G, Before(G)) /\ Ranked(G, Before(G), InOrder(G))
  BY FlashblocksOrdered, InOrderRanked
<1>6. ASSUME NEW f \in G PROVE Cardinality(Before(G)[f]) = f.index
  <2>1. Before(G)[f] \in SUBSET G /\ \A g \in G : g \in Before(G)[f] <=> g.index < f.index
    BY <1>2 DEF Before, BeforeFlashblock
  <2>2. f.index \in 0..n
    BY <1>1, <1>2
  <2> QED BY <1>3, <2>1, <2>2
<1>7. ASSUME NEW i \in 1..n PROVE InOrder(G)[i] = held[i]
  <2>1. InOrder(G)[i] \in G /\ Cardinality(Before(G)[InOrder(G)[i]]) = i - 1
    BY <1>4, <1>5 DEF Ranked
  <2>2. InOrder(G)[i].index = i - 1
    BY <1>6, <2>1
  <2>3. InOrder(G)[i].index + 1 = i
    BY <2>2
  <2> QED BY <1>1, <2>1, <2>3
<1>8. InOrder(G) \in Seq(Flashblocks) /\ Len(InOrder(G)) = n
  BY <1>4, InOrderList
<1> QED BY <1>1, <1>7, <1>8 DEF n

\* What was streamed once of a snapshot holds the transactions of its latest block.
LEMMA StreamedIsBlock ==
    ASSUME NEW F \in SUBSET Flashblocks, F # {}, GapFree(F),
           NEW held \in Seq(Flashblocks), StreamedOnce(held, F)
    PROVE  LatestBlockTransactions(F) = FlattenSeq(TxsOf(held))
<1> DEFINE l == LatestFlashblock(F)
           G == OfBlock(F, LatestBlock(F))
<1>1. Placed(F)
  BY DEF GapFree, Placed
<1>2. l \in F /\ \A g \in F : g # l => BeforeFlashblock(g, l)
  BY <1>1, ListEnds
<1>3. \A g : g \in G <=> g \in F /\ g.block = l.block
  BY DEF OfBlock, LatestBlock
<1>4. /\ Len(held) = l.index + 1
      /\ \A i \in 1..Len(held) : held[i] \in G /\ held[i].index = i - 1
  BY DEF StreamedOnce
<1> HIDE DEF l, G
<1>5. \A f \in F : f.block \in Nat /\ f.index \in Nat
  BY FlashblocksAssumption
<1>6. G \in SUBSET Flashblocks /\ Placed(G)
  BY <1>1, <1>3 DEF Placed
<1>7. ASSUME NEW g \in G PROVE g.index + 1 \in 1..Len(held) /\ held[g.index + 1] = g
  <2>1. g \in F /\ g.block = l.block /\ g.index <= l.index
    BY <1>2, <1>3, <1>5 DEF BeforeFlashblock
  <2>2. g.index \in Nat /\ l.index \in Nat
    BY <1>2, <1>5, <2>1
  <2>3. g.index + 1 \in 1..Len(held)
    BY <1>4, <2>1, <2>2
  <2>4. PICK k \in 1..Len(held) : k = g.index + 1
    BY <2>3
  <2>5. held[k] \in G /\ held[k].index = k - 1
    BY <1>4, <2>4
  <2>6. held[k].block = g.block /\ held[k].index = g.index
    BY <1>3, <2>1, <2>4, <2>5, <2>2
  <2>7. held[k] = g
    BY <1>6, <2>5, <2>6 DEF Placed
  <2> QED BY <2>3, <2>4, <2>7
<1>8. Lists(held, G)
  BY <1>4, <1>7 DEF Lists
<1>9. held = InOrder(G)
  BY <1>3, <1>6, <1>8, ListedInOrder
<1>10. LatestBlockTransactions(F) = Transactions(G)
  BY DEF LatestBlockTransactions, TransactionsForBlock, G
<1> QED BY <1>6, <1>9, <1>10, InOrderList

-----------------------------------------------------------------------------
(***************************************************************************)
(* The client that adds up the deltas: what it holds are the transactions  *)
(* of the flashblocks that were announced, and these are the latest block  *)
(* of the snapshot that was published last.                                *)
(***************************************************************************)
SoundView(view) ==
    /\ view.fbs \in SUBSET Flashblocks
    /\ IsSome(view) => GapFree(view.fbs) /\ ~HasDuplicateTransaction(view.fbs)

AnnouncedView(view) == IsSome(view) => StreamedOnce(announced, view.fbs)

StreamInv ==
    /\ announced \in Seq(Flashblocks)
    /\ streamed = FlattenSeq(TxsOf(announced))
    /\ SoundView(pending)
    /\ next # <<>> => SoundView(next[1]) /\ AnnouncedView(next[1])
    /\ next = <<>> => AnnouncedView(pending)

\* At first nothing is announced.
LEMMA InitStream == ApiInit => StreamInv
<1> SUFFICES ASSUME ApiInit PROVE StreamInv
  OBVIOUS
<1>1. announced = <<>> /\ streamed = <<>> /\ pending = NoView /\ next = <<>>
  BY DEF ApiInit, Init
<1>2. TxsOf(<<>>) = <<>>
  BY DEF TxsOf
<1>3. FlattenSeq(TxsOf(announced)) = <<>>
  BY <1>1, <1>2, FlattenNone
<1>4. ~IsSome(pending) /\ pending.fbs = {}
  BY <1>1 DEF NoView, IsSome
<1> QED BY <1>1, <1>3, <1>4 DEF StreamInv, SoundView, AnnouncedView

\* A step that leaves the publisher and the client alone.
LEMMA StreamAlone ==
    ASSUME StreamInv, UNCHANGED <<pending, next, announced, streamed>>
    PROVE  StreamInv'
BY DEF StreamInv, SoundView, AnnouncedView, IsSome, TxsOf

\* A broadcast adds the latest flashblock on both sides.
LEMMA PublishesStream ==
    ASSUME StreamInv, NEW view, NEW told \in BOOLEAN, Publishes(view, told)
    PROVE  StreamInv'
<1> DEFINE l == LatestFlashblock(view.fbs)
<1>1. /\ next' = <<view>> /\ next' \in Seq(View) /\ next'[1] = view /\ next' # <<>>
      /\ pending' = pending
      /\ announced' = IF told THEN ApplyBatch(announced, view) ELSE announced
      /\ streamed' = IF told THEN Streamed(streamed, view) ELSE streamed
      /\ told => IsSome(view)
      /\ IsSome(view) => /\ GapFree(view.fbs) /\ ~HasDuplicateTransaction(view.fbs)
                         /\ StreamedOnce(announced', view.fbs)
  BY DEF Publishes, Publish
<1>2. view \in View /\ view.fbs \in SUBSET Flashblocks
  <2>1. view \in View
    BY <1>1
  <2> QED BY <2>1 DEF View
<1>3. SoundView(pending)' /\ SoundView(next[1])' /\ AnnouncedView(next[1])'
  BY <1>1, <1>2 DEF StreamInv, SoundView, AnnouncedView, IsSome
<1>4. announced' \in Seq(Flashblocks) /\ streamed' = FlattenSeq(TxsOf(announced'))
  <2>1. announced \in Seq(Flashblocks) /\ streamed = FlattenSeq(TxsOf(announced))
    BY DEF StreamInv
  <2>2. CASE ~told
    BY <1>1, <2>1, <2>2
  <2>3. CASE told
    <3>1. view.fbs # {} /\ Placed(view.fbs)
      BY <1>1, <2>3 DEF IsSome, GapFree, Placed
    <3>2. l \in Flashblocks /\ LatestDelta(view.fbs) = l.txs
      BY <1>2, <3>1, ListEnds, DeltaIsLast
    <3>3. /\ announced' = IF l.index = 0 THEN <<l>> ELSE Append(announced, l)
          /\ streamed' = IF l.index = 0 THEN LatestDelta(view.fbs)
                                        ELSE streamed \o LatestDelta(view.fbs)
      BY <1>1, <2>3 DEF ApplyBatch, Streamed
    <3> HIDE DEF l
    <3>4. CASE l.index = 0
      <4>1. <<>> \in Seq(Flashblocks) /\ Append(<<>>, l) = <<l>> /\ TxsOf(<<>>) = <<>>
        BY DEF TxsOf
      <4>2. /\ l.txs \in Seq(Streamable)
            /\ FlattenSeq(TxsOf(<<l>>)) = FlattenSeq(<<>>) \o l.txs
        BY <3>2, <4>1, TxsOfAppend
      <4>3. <<>> \o l.txs = l.txs
        BY <4>2
      <4> QED BY <3>2, <3>3, <3>4, <4>2, <4>3, FlattenNone
    <3>5. CASE l.index # 0
      <4>1. FlattenSeq(TxsOf(Append(announced, l))) = FlattenSeq(TxsOf(announced)) \o l.txs
        BY <2>1, <3>2, TxsOfAppend
      <4> QED BY <2>1, <3>2, <3>3, <3>5, <4>1
    <3> QED BY <3>4, <3>5
  <2> QED BY <2>2, <2>3
<1>5. TxsOf(announced)' = TxsOf(announced')
  BY DEF TxsOf
<1> QED BY <1>1, <1>3, <1>4, <1>5 DEF StreamInv

\* A store or a drop.
LEMMA MovesStream == StreamInv /\ Moves => StreamInv'
<1> SUFFICES ASSUME StreamInv, Moves PROVE StreamInv'
  OBVIOUS
<1>1. UNCHANGED <<announced, streamed>>
  BY DEF Moves, Store, Drop
<1>2. announced' \in Seq(Flashblocks) /\ (streamed = FlattenSeq(TxsOf(announced)))'
  BY <1>1 DEF StreamInv, TxsOf
<1>3. CASE Store
  <2>1. pending' = next[1] /\ next # <<>> /\ next' = <<>>
    BY <1>3 DEF Store
  <2>2. SoundView(pending)' /\ AnnouncedView(pending)'
    BY <1>1, <2>1 DEF StreamInv, SoundView, AnnouncedView, IsSome
  <2> QED BY <1>2, <2>1, <2>2 DEF StreamInv
<1>4. CASE Drop
  <2>1. pending' = NoView /\ next' = next
    BY <1>4 DEF Drop
  <2>2. SoundView(pending)' /\ AnnouncedView(pending)'
    BY <2>1 DEF SoundView, AnnouncedView, NoView, IsSome
  <2>3. next' # <<>> => SoundView(next[1])' /\ AnnouncedView(next[1])'
    BY <1>1, <2>1 DEF StreamInv, SoundView, AnnouncedView, IsSome
  <2> QED BY <1>2, <2>2, <2>3 DEF StreamInv
<1> QED BY <1>3, <1>4 DEF Moves

\* Every other step leaves them alone.
LEMMA RequestStream == Request => UNCHANGED <<pending, next, announced, streamed>>
<1> SUFFICES ASSUME Request PROVE UNCHANGED outside
  BY DEF outside, publisherVars
<1>1. ASSUME NEW step, Goto(step) PROVE UNCHANGED outside
  BY <1>1 DEF Goto
<1>2. ASSUME NEW value, Answer(value) PROVE UNCHANGED outside
  BY <1>2 DEF Answer
<1>3. CASE (\E k \in Kinds, t \in Requested : Begin(k, t)) \/ Finish
  BY <1>3 DEF Begin, Finish
<1>4. CASE ReadBlock \/ ReadCanonical \/ ReadSnapshot
  BY <1>1, <1>2, <1>4 DEF ReadBlock, ReadCanonical, ReadSnapshot
<1>5. CASE SyncStep
  BY <1>1, <1>2, <1>5 DEF SyncStep, Subscribe, Submit, Look, ReceiveFlashblock,
                          ReceiveCanonical, Fetch, TimeOut
<1>6. CASE LogStep
  BY <1>1, <1>2, <1>6 DEF LogStep, LoadLogs, FetchHistoricalLogs, JoinLogs
<1>7. CASE StateStep
  <2>1. CASE ChooseBlock \/ LoadOverlay \/ CheckEngine
    BY <1>1, <1>2, <2>1 DEF ChooseBlock, LoadOverlay, CheckEngine, ToProvider
  <2>2. CASE CheckAnchor \/ OpenState
    BY <1>1, <1>2, <2>2 DEF CheckAnchor, ServeOverlay, ToProvider, OpenState
  <2>3. CASE LoadForBalance \/ CheckEngineForBalance \/ CheckAnchorForBalance
    BY <1>1, <1>2, <2>3 DEF LoadForBalance, CheckEngineForBalance, CheckAnchorForBalance,
                            NoBuilderBalance
  <2> QED BY <1>7, <2>1, <2>2, <2>3 DEF StateStep
<1>8. CASE FeeStep
  BY <1>1, <1>2, <1>8 DEF FeeStep, LoadFee, CheckFeeBlock, ReadBaseFee
<1>9. CASE ReadFails
  BY <1>9 DEF ReadFails
<1> QED BY <1>3, <1>4, <1>5, <1>6, <1>7, <1>8, <1>9 DEF Request

\* Every step keeps what the client holds and what was announced alike.
LEMMA NextStream == StreamInv /\ [ApiNext]_vars => StreamInv'
<1> SUFFICES ASSUME StreamInv, [ApiNext]_vars PROVE StreamInv'
  OBVIOUS
<1>1. CASE Request
  BY <1>1, RequestStream, StreamAlone
<1>2. ASSUME NEW keep, NEW bodies, NodeCommits(keep, bodies) PROVE StreamInv'
  BY <1>2, StreamAlone DEF NodeCommits, Commit
<1>3. CASE EngineExecutes \/ UNCHANGED vars
  BY <1>3, StreamAlone DEF EngineExecutes, vars, publisherVars
<1>4. CASE Moves
  BY <1>4, MovesStream
<1>5. CASE \E view \in Views, told \in BOOLEAN : Publishes(view, told)
  BY <1>5, PublishesStream
<1> QED BY <1>1, <1>2, <1>3, <1>4, <1>5 DEF ApiNext, Environment

(***************************************************************************)
(* The deltas that are streamed add up to the block eth_getBlockByNumber   *)
(* answers at pending, whatever blocks the snapshot spans.                 *)
(***************************************************************************)
THEOREM StreamAddsUp == ApiSpec => []DeltasAddUpToBlock
<1>1. StreamInv => DeltasAddUpToBlock
  <2> SUFFICES ASSUME StreamInv, IsSome(pending), next = <<>>
               PROVE  streamed = LatestBlockTransactions(pending.fbs)
    BY DEF DeltasAddUpToBlock
  <2>1. /\ pending.fbs \in SUBSET Flashblocks /\ pending.fbs # {} /\ GapFree(pending.fbs)
        /\ announced \in Seq(Flashblocks) /\ StreamedOnce(announced, pending.fbs)
        /\ streamed = FlattenSeq(TxsOf(announced))
    BY DEF StreamInv, SoundView, AnnouncedView, IsSome
  <2> QED BY <2>1, StreamedIsBlock
<1> QED BY <1>1, InitStream, NextStream, PTL DEF ApiSpec

-----------------------------------------------------------------------------
(***************************************************************************)
(* eth_getLogs to pending                                                  *)
(***************************************************************************)

\* Each transaction of a snapshot is one of a flashblock of it.
LEMMA TransactionsComeFrom ==
    ASSUME NEW F \in SUBSET Flashblocks, Placed(F)
    PROVE  /\ Transactions(F) \in Seq(Streamable)
           /\ \A i \in DOMAIN Transactions(F) : HoldsTransaction(F, Transactions(F)[i])
           /\ ~HasDuplicateTransaction(F) =>
                 \A i, j \in DOMAIN Transactions(F) :
                    Transactions(F)[i] = Transactions(F)[j] => i = j
<1> DEFINE Held(G) == \A i \in DOMAIN Transactions(G) : HoldsTransaction(G, Transactions(G)[i])
           Once(G) == ~HasDuplicateTransaction(G) =>
                         \A i, j \in DOMAIN Transactions(G) :
                            Transactions(G)[i] = Transactions(G)[j] => i = j
           S == {n \in Nat : \A G \in SUBSET Flashblocks :
                    Placed(G) /\ Cardinality(G) = n => Held(G) /\ Once(G)}
<1>1. 0 \in S
  <2>1. ASSUME NEW G \in SUBSET Flashblocks, Cardinality(G) = 0 PROVE Held(G) /\ Once(G)
    <3>1. G = {}
      BY <2>1, StreamAssumption, Remaining
    <3>2. DOMAIN Transactions(G) = {}
      <4>1. Transactions(G) = <<>> /\ DOMAIN <<>> = {}
        BY <3>1, NoTransactions
      <4> QED BY <4>1
    <3> QED BY <3>2
  <2> HIDE DEF Held, Once
  <2> QED BY <2>1
<1>2. ASSUME NEW n \in Nat, n \in S PROVE n + 1 \in S
  <2>1. ASSUME NEW G \in SUBSET Flashblocks, Placed(G), Cardinality(G) = n + 1
        PROVE  Held(G) /\ Once(G)
    <3> DEFINE l == LatestFlashblock(G)
               H == G \ {l}
               a == Transactions(H)
               b == l.txs
    <3>1. G # {}
      BY <2>1, FS_EmptySet
    <3>2. l \in G /\ H \subseteq G /\ l \notin H
      BY <2>1, <3>1, ListEnds
    <3>3. H \in SUBSET Flashblocks /\ Placed(H) /\ Cardinality(H) = n
      BY <2>1, <3>1, ListBegins
    <3>4. a \in Seq(Streamable) /\ b \in Seq(Streamable) /\ Transactions(G) = a \o b
      BY <2>1, <3>1, TransactionsAppend
    <3>5. Held(H) /\ Once(H)
      <4> HIDE DEF Held, Once, H
      <4> QED BY <1>2, <3>3
    <3>6. /\ \A i \in 1..Len(a) : HoldsTransaction(H, a[i])
          /\ ~HasDuplicateTransaction(H) => \A i, j \in 1..Len(a) : a[i] = a[j] => i = j
      <4>1. DOMAIN a = 1..Len(a)
        <5> HIDE DEF a, b
        <5> QED BY <3>4
      <4> HIDE DEF H
      <4> QED BY <3>5, <4>1
    <3> HIDE DEF l, H, a
    <3>7. /\ DOMAIN Transactions(G) = 1..(Len(a) + Len(b)) /\ Len(a) \in Nat /\ Len(b) \in Nat
          /\ DOMAIN b = 1..Len(b)
          /\ \A i \in 1..(Len(a) + Len(b)) :
                Transactions(G)[i] = IF i <= Len(a) THEN a[i] ELSE b[i - Len(a)]
      <4> HIDE DEF b
      <4> QED BY <3>4
    <3>8. ASSUME NEW i \in DOMAIN Transactions(G)
          PROVE  \/ i \in 1..Len(a) /\ Transactions(G)[i] = a[i]
                 \/ i - Len(a) \in DOMAIN b /\ Transactions(G)[i] = b[i - Len(a)]
      <4> HIDE DEF b
      <4> QED BY <3>7, <3>8
    <3>9. Held(G)
      <4> SUFFICES ASSUME NEW i \in DOMAIN Transactions(G)
                   PROVE  HoldsTransaction(G, Transactions(G)[i])
        OBVIOUS
      <4>1. CASE i \in 1..Len(a) /\ Transactions(G)[i] = a[i]
        BY <3>2, <3>6, <4>1 DEF HoldsTransaction
      <4>2. CASE i - Len(a) \in DOMAIN b /\ Transactions(G)[i] = b[i - Len(a)]
        BY <3>2, <4>2 DEF HoldsTransaction
      <4> QED BY <3>8, <4>1, <4>2
    <3>10. Once(G)
      <4> SUFFICES ASSUME ~HasDuplicateTransaction(G),
                          NEW i \in DOMAIN Transactions(G), NEW j \in DOMAIN Transactions(G),
                          Transactions(G)[i] = Transactions(G)[j]
                   PROVE  i = j
        OBVIOUS
      <4>1. ~HasDuplicateTransaction(H)
        BY <3>2 DEF HasDuplicateTransaction
      <4>2. ASSUME NEW k \in 1..Len(a), NEW m \in DOMAIN b PROVE a[k] # b[m]
        <5>1. PICK f \in H : \E p \in DOMAIN f.txs : f.txs[p] = a[k]
          BY <3>6 DEF HoldsTransaction
        <5>2. PICK p \in DOMAIN f.txs : f.txs[p] = a[k]
          BY <5>1
        <5>3. f \in G /\ f # l /\ <<f, p>> # <<l, m>>
          BY <3>2
        <5> QED BY <3>2, <5>2, <5>3 DEF HasDuplicateTransaction
      <4>3. ASSUME NEW k \in DOMAIN b, NEW m \in DOMAIN b, b[k] = b[m] PROVE k = m
        BY <3>2, <4>3 DEF HasDuplicateTransaction
      <4>4. CASE i \in 1..Len(a) /\ Transactions(G)[i] = a[i]
        BY <3>6, <3>8, <4>1, <4>2, <4>4
      <4>5. CASE i - Len(a) \in DOMAIN b /\ Transactions(G)[i] = b[i - Len(a)]
        <5>1. j - Len(a) \in DOMAIN b /\ Transactions(G)[j] = b[j - Len(a)]
          BY <3>8, <4>2, <4>5
        <5>2. i - Len(a) = j - Len(a)
          BY <4>3, <4>5, <5>1
        <5>3. i \in Int /\ j \in Int /\ Len(a) \in Int
          <6> HIDE DEF b
          <6> QED BY <3>7
        <5> HIDE DEF b
        <5> QED BY <5>2, <5>3
      <4> QED BY <3>8, <4>4, <4>5
    <3> QED BY <3>9, <3>10
  <2> HIDE DEF Held, Once
  <2> QED BY <2>1
<1>3. \A n \in Nat : n \in S
  <2> HIDE DEF S
  <2> QED BY <1>1, <1>2, Induction
<1>4. Cardinality(F) \in Nat
  BY FlashblocksOrdered, FS_CardinalityType
<1>5. Held(F) /\ Once(F)
  BY <1>3, <1>4
<1> QED BY <1>5, TransactionsCounted

\* A snapshot that holds no transaction twice has one log of each.
LEMMA PendingLogsOnce ==
    ASSUME NEW F \in SUBSET Flashblocks, Placed(F), ~HasDuplicateTransaction(F),
           NEW l \in PendingLogs(F), NEW m \in PendingLogs(F), l.tx = m.tx
    PROVE  l = m
<1>1. ASSUME NEW n
      PROVE  LET G == OfBlock(F, n)
             IN  G \in SUBSET F /\ Placed(G) /\ ~HasDuplicateTransaction(G)
  BY DEF OfBlock, Placed, HasDuplicateTransaction
<1>2. ASSUME NEW h \in PendingLogs(F)
      PROVE  \E n, i : LET txs == Transactions(OfBlock(F, n))
                       IN  /\ i \in DOMAIN txs
                           /\ h = [block |-> n, index |-> i - 1, tx |-> txs[i],
                                   sealed |-> FALSE]
  BY DEF PendingLogs, LogsOf, TransactionsForBlock
<1>3. PICK n, i : /\ i \in DOMAIN Transactions(OfBlock(F, n))
                  /\ l = [block |-> n, index |-> i - 1,
                          tx |-> Transactions(OfBlock(F, n))[i], sealed |-> FALSE]
  BY <1>2
<1>4. PICK o, j : /\ j \in DOMAIN Transactions(OfBlock(F, o))
                  /\ m = [block |-> o, index |-> j - 1,
                          tx |-> Transactions(OfBlock(F, o))[j], sealed |-> FALSE]
  BY <1>2
<1> DEFINE G == OfBlock(F, n)
           H == OfBlock(F, o)
<1>5. /\ G \in SUBSET Flashblocks /\ Placed(G) /\ ~HasDuplicateTransaction(G)
      /\ H \in SUBSET Flashblocks /\ Placed(H) /\ ~HasDuplicateTransaction(H)
  BY <1>1
<1>6. l.tx = Transactions(G)[i] /\ m.tx = Transactions(H)[j]
  BY <1>3, <1>4
<1>7. HoldsTransaction(G, l.tx) /\ HoldsTransaction(H, m.tx)
  <2> HIDE DEF G, H
  <2> QED BY <1>3, <1>4, <1>5, <1>6, TransactionsComeFrom DEF G, H
<1>8. n = o
  <2>1. PICK f \in G : \E p \in DOMAIN f.txs : f.txs[p] = l.tx
    BY <1>7 DEF HoldsTransaction
  <2>2. PICK p \in DOMAIN f.txs : f.txs[p] = l.tx
    BY <2>1
  <2>3. PICK g \in H : \E q \in DOMAIN g.txs : g.txs[q] = m.tx
    BY <1>7 DEF HoldsTransaction
  <2>4. PICK q \in DOMAIN g.txs : g.txs[q] = m.tx
    BY <2>3
  <2>5. f \in F /\ g \in F /\ f.block = n /\ g.block = o
    BY DEF OfBlock
  <2>6. <<f, p>> = <<g, q>>
    BY <2>2, <2>4, <2>5 DEF HasDuplicateTransaction
  <2> QED BY <2>5, <2>6
<1>9. i = j
  <2> HIDE DEF G, H
  <2>1. \A a, b \in DOMAIN Transactions(G) :
           Transactions(G)[a] = Transactions(G)[b] => a = b
    BY <1>5, TransactionsComeFrom
  <2>2. i \in DOMAIN Transactions(G) /\ j \in DOMAIN Transactions(G)
    BY <1>3, <1>4, <1>8 DEF G
  <2>3. Transactions(G)[i] = Transactions(G)[j]
    BY <1>6, <1>8 DEF G, H
  <2> QED BY <2>1, <2>2, <2>3
<1> QED BY <1>3, <1>4, <1>8, <1>9

(***************************************************************************)
(* A request for logs loads one snapshot, which holds no transaction       *)
(* twice, and joins it with what it has fetched.                           *)
(***************************************************************************)
SoundSnap ==
    /\ snap.fbs \in SUBSET Flashblocks
    /\ GapFree(snap.fbs) /\ ~HasDuplicateTransaction(snap.fbs)

Joined == logs \cup {l \in PendingLogs(snap.fbs) : NotFetched(l)}

LogInv ==
    /\ pc \in {"historical", "join"} => SoundSnap
    /\ pc # "done" => answer = NoAnswer
    /\ answer.from = "logs" => SoundSnap /\ answer.logs = Joined

\* A request that answers anything else.
LEMMA LogAnswers ==
    ASSUME NEW value, Answer(value), value.from # "logs"
    PROVE  LogInv'
BY DEF Answer, LogInv

\* A request that takes a read of anything else.
LEMMA LogGoesOn ==
    ASSUME LogInv, pc # "done", NEW step, Goto(step), step \notin {"historical", "join", "done"}
    PROVE  LogInv'
<1>1. answer' = NoAnswer /\ NoAnswer.from = "none" /\ pc' = step
  BY DEF LogInv, Goto, NoAnswer
<1> QED BY <1>1 DEF LogInv

\* get_logs: the snapshot loaded is the one served, and it stays loaded.
LEMMA LogStepLogs == StreamInv /\ LogInv /\ LogStep => LogInv'
<1> SUFFICES ASSUME StreamInv, LogInv, LogStep PROVE LogInv'
  OBVIOUS
<1>1. NoAnswer.from = "none" /\ (pc # "done" => answer = NoAnswer)
  BY DEF LogInv, NoAnswer
<1>2. CASE LoadLogs
  <2>1. CASE ~IsSome(pending)
    <3>1. Answer(LocalPendingBlock) /\ LocalPendingBlock.from \in {"engine", "latest"}
      BY <1>2, <2>1 DEF LoadLogs, LocalPendingBlock, From
    <3> QED BY <3>1, LogAnswers
  <2>2. CASE IsSome(pending)
    <3>1. /\ snap' = FromBundle(pending) /\ answer' = NoAnswer
          /\ pc' \in {"historical", "join"}
      BY <1>1, <1>2, <2>2 DEF LoadLogs, Goto
    <3>2. SoundSnap'
      BY <2>2, <3>1 DEF StreamInv, SoundView, SoundSnap, FromBundle
    <3> QED BY <1>1, <3>1, <3>2 DEF LogInv
  <2> QED BY <2>1, <2>2
<1>3. CASE FetchHistoricalLogs
  <2>1. pc = "historical" /\ pc' = "join" /\ answer' = NoAnswer /\ snap' = snap
    BY <1>1, <1>3 DEF FetchHistoricalLogs, Goto
  <2>2. SoundSnap'
    BY <2>1 DEF LogInv, SoundSnap
  <2> QED BY <1>1, <2>1, <2>2 DEF LogInv
<1>4. CASE JoinLogs
  <2>1. /\ pc = "join" /\ pc' = "done" /\ answer' = [from |-> "logs", logs |-> Joined]
        /\ UNCHANGED <<snap, logs>>
    BY <1>4 DEF JoinLogs, Answer, Joined, registers
  <2>2. SoundSnap' /\ Joined' = Joined
    BY <2>1 DEF LogInv, SoundSnap, Joined, NotFetched
  <2> QED BY <2>1, <2>2 DEF LogInv
<1> QED BY <1>2, <1>3, <1>4 DEF LogStep

\* The other requests answer no logs.
LEMMA OtherStepLogs ==
    LogInv /\ (ReadBlock \/ ReadCanonical \/ ReadSnapshot \/ SyncStep \/ StateStep \/ FeeStep)
        => LogInv'
<1> SUFFICES ASSUME LogInv, ReadBlock \/ ReadCanonical \/ ReadSnapshot \/ SyncStep
                                \/ StateStep \/ FeeStep
             PROVE  LogInv'
  OBVIOUS
<1>1. ASSUME NEW source, source # "logs", Answer(From(source)) PROVE LogInv'
  <2>1. From(source).from # "logs"
    BY <1>1 DEF From
  <2> QED BY <1>1, <2>1, LogAnswers
<1>2. ASSUME NEW step, Goto(step), pc # "done", step \notin {"historical", "join", "done"}
      PROVE  LogInv'
  BY <1>2, LogGoesOn
<1>3. CASE ReadBlock
  <2>1. Answer(BlockByNumber) /\ BlockByNumber.from \in {"snapshot", "engine", "latest"}
    BY <1>3 DEF ReadBlock, BlockByNumber, LocalPendingBlock, From
  <2> QED BY <2>1, LogAnswers
<1>4. CASE ReadCanonical \/ ReadSnapshot
  <2>1. NoAnswer.from # "logs"
    BY DEF NoAnswer
  <2> QED BY <1>1, <1>2, <1>4, <2>1, LogAnswers DEF ReadCanonical, ReadSnapshot
<1>5. CASE SyncStep
  <2>1. CASE Subscribe \/ Submit \/ Look
    BY <1>1, <1>2, <2>1, SyncOrder DEF Subscribe, Submit, Look
  <2>2. CASE ReceiveFlashblock \/ ReceiveCanonical \/ Fetch \/ TimeOut
    BY <1>1, <1>2, <2>2 DEF ReceiveFlashblock, ReceiveCanonical, Fetch, TimeOut
  <2> QED BY <1>5, <2>1, <2>2 DEF SyncStep
<1>6. CASE StateStep
  <2>1. CASE ChooseBlock \/ CheckEngine
    BY <1>1, <1>2, <2>1 DEF ChooseBlock, CheckEngine, ToProvider
  <2>2. CASE LoadOverlay
    <3>1. CASE IsSome(pending)
      BY <1>2, <2>2, <3>1 DEF LoadOverlay
    <3>2. CASE ~IsSome(pending)
      <4>1. pc' = "done" /\ answer'.from = "provider"
        BY <2>2, <3>2 DEF LoadOverlay, From
      <4> QED BY <4>1 DEF LogInv
    <3> QED BY <3>1, <3>2
  <2>3. CASE CheckAnchor
    BY <1>1, <1>2, <2>3 DEF CheckAnchor, ServeOverlay, ToProvider
  <2>4. CASE OpenState
    <3>1. [from |-> "overlay", overlay |-> snap].from # "logs"
      OBVIOUS
    <3> QED BY <1>1, <2>4, <3>1, LogAnswers DEF OpenState
  <2>5. CASE LoadForBalance \/ CheckEngineForBalance \/ CheckAnchorForBalance
    BY <1>1, <1>2, <2>5 DEF LoadForBalance, CheckEngineForBalance, CheckAnchorForBalance,
                            NoBuilderBalance
  <2> QED BY <1>6, <2>1, <2>2, <2>3, <2>4, <2>5 DEF StateStep
<1>7. CASE FeeStep
  <2>1. [from |-> "builder", base |-> Best + 1].from # "logs"
    OBVIOUS
  <2> QED BY <1>1, <1>2, <1>7, <2>1, LogAnswers DEF FeeStep, LoadFee, CheckFeeBlock, ReadBaseFee
<1> QED BY <1>3, <1>4, <1>5, <1>6, <1>7

\* Every step keeps the request on one snapshot.
LEMMA NextLogs == StreamInv /\ LogInv /\ [ApiNext]_vars => LogInv'
<1> SUFFICES ASSUME StreamInv, LogInv, [ApiNext]_vars PROVE LogInv'
  OBVIOUS
<1>1. ASSUME UNCHANGED requestVars PROVE LogInv'
  BY <1>1 DEF requestVars, registers, LogInv, SoundSnap, Joined, NotFetched
<1>2. CASE Environment
  <2>1. ASSUME NEW keep, NEW bodies, NodeCommits(keep, bodies) PROVE LogInv'
    BY <1>1, <2>1 DEF NodeCommits
  <2>2. ASSUME NEW view, NEW told, Publishes(view, told) PROVE LogInv'
    BY <1>1, <2>2 DEF Publishes
  <2> QED BY <1>1, <1>2, <2>1, <2>2 DEF Environment, EngineExecutes, Moves
<1>3. CASE \E k \in Kinds, t \in Requested : Begin(k, t)
  <2>1. PICK k \in Kinds, t \in Requested : Begin(k, t)
    BY <1>3
  <2>2. pc = "idle" /\ pc' = FirstStep[k] /\ answer' = answer
    BY <2>1 DEF Begin
  <2>3. answer' = NoAnswer /\ NoAnswer.from = "none"
    BY <2>2 DEF LogInv, NoAnswer
  <2>4. pc' \notin {"historical", "join"}
    BY <2>2, FirstSteps
  <2> QED BY <2>3, <2>4 DEF LogInv
<1>4. CASE Finish
  <2>1. pc' = "idle" /\ answer' = NoAnswer /\ NoAnswer.from = "none"
    BY <1>4 DEF Finish, NoAnswer
  <2> QED BY <2>1 DEF LogInv
<1>5. CASE ReadFails
  <2>1. NoAnswer.from = "none" /\ (pc # "done" => answer = NoAnswer)
    BY DEF LogInv, NoAnswer
  <2>2. \/ pc' \in {"anchor", "balanceAnchor", "overlay", "baseFee"} /\ answer' = NoAnswer
        \/ /\ pc' = "done"
           /\ answer' \in {From("noReceipt"), From("error"), From("fallback"), From("builder")}
    BY <1>5, <2>1 DEF ReadFails
  <2>3. /\ From("noReceipt").from # "logs" /\ From("error").from # "logs"
        /\ From("fallback").from # "logs" /\ From("builder").from # "logs"
    BY DEF From
  <2> QED BY <2>1, <2>2, <2>3 DEF LogInv
<1>6. CASE UNCHANGED vars
  BY <1>1, <1>6 DEF vars
<1> QED BY <1>2, <1>3, <1>4, <1>5, <1>6, LogStepLogs, OtherStepLogs DEF ApiNext, Request

(***************************************************************************)
(* eth_getLogs to pending answers no log twice, although a block of the    *)
(* snapshot was committed between its two reads, as long as what was       *)
(* streamed is sealed as it was streamed.                                  *)
(***************************************************************************)
THEOREM LogsAnsweredOnce == ApiSpec => []LogsOnce
<1>1. LogInv => LogsOnce
  <2> SUFFICES ASSUME LogInv, answer.from = "logs", SealedOnce, SealedAsStreamed,
                      NEW l \in answer.logs, NEW m \in answer.logs, l.tx = m.tx
               PROVE  l = m
    BY DEF LogsOnce
  <2>1. /\ snap.fbs \in SUBSET Flashblocks /\ Placed(snap.fbs)
        /\ ~HasDuplicateTransaction(snap.fbs) /\ answer.logs = Joined
    BY DEF LogInv, SoundSnap, GapFree, Placed
  <2>2. \A k \in answer.logs : k \in logs \/ (k \in PendingLogs(snap.fbs) /\ NotFetched(k))
    BY <2>1 DEF Joined
  <2>3. ASSUME NEW h \in logs, NEW k \in PendingLogs(snap.fbs), h.tx = k.tx
        PROVE  ~NotFetched(k)
    BY <2>3 DEF SealedAsStreamed, NotFetched
  <2>4. CASE l \in logs /\ m \in logs
    BY <2>4 DEF SealedOnce
  <2>5. CASE l \in PendingLogs(snap.fbs) /\ m \in PendingLogs(snap.fbs)
    BY <2>1, <2>5, PendingLogsOnce
  <2> QED BY <2>2, <2>3, <2>4, <2>5
<1>2. ApiInit => LogInv
  BY DEF ApiInit, LogInv, NoAnswer
<1> QED BY <1>1, <1>2, InitStream, NextStream, NextLogs, PTL DEF ApiSpec
=============================================================================
