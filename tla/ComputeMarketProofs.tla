------------------------ MODULE ComputeMarketProofs ------------------------
(* Theorems about the market of module ComputeMarket, for every value of its constants. *)
EXTENDS ComputeMarket, Sums

\* A dispute is about a job that was created.
DisputedJobsExist == \A d \in DisputeId : disputes[d] # None => jobs[disputes[d].job] # None

\* A job that holds a provider's capacity is on the list its exit looks at.
WorkIsListed == \A j \in Job, p \in Provider : Occupies(j, p) => j \in providerJobs[p]

MarketInv ==
  /\ TypeOK
  /\ DisputedJobsExist
  /\ WorkIsListed
  /\ ExitedHasNoWork
  /\ OpenDisputesMatchJobs

----------------------------------------------------------------------------
(* Types *)

\* Saturating subtraction stays a natural number.
LEMMA Max0Type ==
  ASSUME NEW m \in Nat, NEW n \in Nat
  PROVE  Max0(m - n) \in Nat
  BY DEF Max0

\* An entry of the map of providers, when there is one, is a record with its fields.
LEMMA ProviderFields ==
  ASSUME TypeOK, NEW p \in Provider, providers[p] # None
  PROVE  /\ providers[p] \in ProviderInfo
         /\ providers[p].capacity \in Nat /\ providers[p].available \in Nat
         /\ providers[p].stake \in Nat /\ providers[p].status \in {"Active", "Paused", "Exited"}
  BY DEF TypeOK, ProviderInfo, Amount

\* So is an entry of the map of jobs.
LEMMA JobFields ==
  ASSUME TypeOK, NEW j \in Job, jobs[j] # None
  PROVE  /\ jobs[j] \in ComputeJob
         /\ jobs[j].capacity \in Nat /\ jobs[j].escrow \in Nat
         /\ jobs[j].provider \in Provider \cup {None}
         /\ jobs[j].status \in JobStatus
  BY DEF TypeOK, ComputeJob, Amount

\* What a slash takes is at most the stake.
LEMMA SlashedType ==
  ASSUME TypeOK, NEW p \in Provider, providers[p] # None, NEW slash \in Slashes
  PROVE  /\ Slashed(p, slash) \in Nat
         /\ providers[p].stake - Slashed(p, slash) \in Nat
  BY ProviderFields, InputsTyped DEF Slashed, Amount

\* Giving capacity back keeps the map of providers typed, and every status.
LEMMA RestoredType ==
  ASSUME TypeOK, NEW j \in Job, jobs[j] # None
  PROVE  /\ Restored(j) \in [Provider -> ProviderInfo \cup {None}]
         /\ \A p \in Provider : (Restored(j)[p] = None) <=> (providers[p] = None)
         /\ \A p \in Provider : providers[p] # None => Restored(j)[p].status = providers[p].status
  <1>1. CASE jobs[j].provider = None \/ providers[jobs[j].provider] = None
    BY <1>1 DEF Restored, TypeOK
  <1>2. CASE ~(jobs[j].provider = None \/ providers[jobs[j].provider] = None)
    <2> DEFINE q == jobs[j].provider
               new == [providers[q] EXCEPT !.available = @ + jobs[j].capacity]
    <2>1. q \in Provider /\ jobs[j].capacity \in Nat
      BY <1>2, JobFields
    <2>2. /\ providers[q] \in ProviderInfo /\ providers[q].available \in Nat
      BY <1>2, <2>1, ProviderFields
    <2>3. new \in ProviderInfo /\ new.status = providers[q].status
      BY <2>1, <2>2 DEF ProviderInfo
    <2>4. Restored(j) = [providers EXCEPT ![q] = new]
      BY <1>2 DEF Restored
    <2>5. new # None /\ providers[q] # None
      BY <2>3, <1>2, NoneIsNothing
    <2> HIDE DEF new
    <2> QED BY <2>1, <2>3, <2>4, <2>5 DEF TypeOK
  <1> QED BY <1>1, <1>2

\* So does a change of capacity.
LEMMA ReconfiguredType ==
  ASSUME TypeOK, NEW p \in Provider, providers[p] # None, NEW c \in NewCapacities[p] \cup {None}
  PROVE  /\ Reconfigured(p, c) \in ProviderInfo
         /\ Reconfigured(p, c).status = providers[p].status
         /\ Reconfigured(p, c).stake = providers[p].stake
         /\ OverGivenBy(p, c) \subseteq Provider
  <1>1. providers[p] \in ProviderInfo
    BY ProviderFields
  <1>2. c # None => c \in Nat
    BY InputsTyped
  <1> QED BY <1>1, <1>2 DEF Reconfigured, OverGivenBy, ProviderInfo, TypeOK

----------------------------------------------------------------------------
(* Each action keeps the types *)

LEMMA ProviderTypeStep ==
  ASSUME TypeOK, NEW p \in Provider, ProviderStep(p)
  PROVE  TypeOK'
  <1>1. ASSUME NEW c \in Capacities[p], NEW stake \in Stakes, RegisterProvider(p, c, stake)
        PROVE  TypeOK'
    <2>1. c \in Nat /\ stake \in Nat
      BY InputsTyped DEF Amount
    <2>2. [status |-> "Active", capacity |-> c, available |-> c, stake |-> stake] \in ProviderInfo
      BY <2>1 DEF ProviderInfo, Amount
    <2> QED BY <1>1, <2>1, <2>2 DEF RegisterProvider, TypeOK, Amount, history
  <1>2. ASSUME NEW c \in NewCapacities[p] \cup {None}, NEW s \in {"Active", "Paused", None},
               NEW stake \in Stakes \cup {None}, UpdateProvider(p, c, s, stake)
        PROVE  TypeOK'
    <2> DEFINE added == IF stake = None THEN 0 ELSE stake
               info == Reconfigured(p, c)
               new == [info EXCEPT !.status = IF s = None THEN @ ELSE s, !.stake = @ + added]
    <2>1. providers[p] # None
      BY <1>2 DEF UpdateProvider
    <2>2. added \in Nat
      BY InputsTyped DEF Amount
    <2>3. info \in ProviderInfo /\ OverGivenBy(p, c) \subseteq Provider
      BY <2>1, ReconfiguredType
    <2>4. s # None => s \in {"Active", "Paused"}
      OBVIOUS
    <2> HIDE DEF added, info
    <2>8. /\ info.stake + added \in Nat
          /\ (IF s = None THEN info.status ELSE s) \in {"Active", "Paused", "Exited"}
      BY <2>2, <2>3, <2>4 DEF ProviderInfo, Amount
    <2>5. new \in ProviderInfo
      BY <2>3, <2>8 DEF ProviderInfo, Amount
    <2>6. ActiveAfter(p, s) \in Nat
      BY Max0Type DEF ActiveAfter, TypeOK
    <2>7. /\ providers' = [providers EXCEPT ![p] = new]
          /\ totalStake' = totalStake + added
          /\ activeProviders' = ActiveAfter(p, s) /\ overGiven' = OverGivenBy(p, c)
          /\ UNCHANGED <<jobs, providerJobs, disputes, totalEscrow, now, reopened>>
      BY <1>2 DEF UpdateProvider, new, added, info
    <2> HIDE DEF new
    <2> QED BY <2>2, <2>3, <2>5, <2>6, <2>7 DEF TypeOK, Amount
  <1>3. ASSUME NEW c \in NewCapacities[p] \cup {None}, UpdateRejected(p, c)
        PROVE  TypeOK'
    BY <1>3, ReconfiguredType DEF UpdateRejected, TypeOK
  <1>4. ASSUME ProviderExit(p)
        PROVE  TypeOK'
    <2>1. providers[p] # None
      BY <1>4 DEF ProviderExit
    <2>2. /\ providers[p] \in ProviderInfo /\ providers[p].stake \in Nat
      BY <2>1, ProviderFields
    <2>3. [providers[p] EXCEPT !.status = "Exited"] \in ProviderInfo
      BY <2>2 DEF ProviderInfo
    <2>4. Max0(totalStake - providers[p].stake) \in Nat /\ Max0(activeProviders - 1) \in Nat
      BY <2>2, Max0Type DEF TypeOK, Amount
    <2> QED BY <1>4, <2>3, <2>4 DEF ProviderExit, TypeOK, Amount
  <1> QED BY <1>1, <1>2, <1>3, <1>4 DEF ProviderStep

\* The job that was created or went on is on record.
LEMMA JobTypeStep ==
  ASSUME TypeOK, NEW j \in Job, JobStep(j)
  PROVE  TypeOK' /\ jobs'[j] \in ComputeJob
  <1>1. ASSUME NEW r \in Requests[j], CreateJob(j, r)
        PROVE  TypeOK' /\ jobs'[j] \in ComputeJob
    <2>1. r \in Request
      BY InputsTyped
    <2>2. [user |-> r.user, provider |-> r.provider, kind |-> r.kind, capacity |-> r.capacity,
           escrow |-> r.escrow, status |-> "Pending", endedAt |-> None] \in ComputeJob
      BY <2>1 DEF Request, ComputeJob, JobStatus
    <2>3. r.escrow \in Nat
      BY <2>1 DEF Request, Amount
    <2> QED BY <1>1, <2>2, <2>3 DEF CreateJob, TypeOK, Amount, history
  <1>2. ASSUME NEW p \in Provider, AcceptJob(j, p)
        PROVE  TypeOK' /\ jobs'[j] \in ComputeJob
    <2>1. jobs[j] # None /\ providers[p] # None
      BY <1>2 DEF AcceptJob, InState, Active
    <2>2. /\ jobs[j] \in ComputeJob /\ jobs[j].capacity \in Nat
          /\ providers[p] \in ProviderInfo /\ providers[p].available \in Nat
      BY <2>1, JobFields, ProviderFields
    <2>3. providers[p].available - jobs[j].capacity \in Nat
      BY <1>2, <2>2 DEF AcceptJob
    <2>4. [providers[p] EXCEPT !.available = @ - jobs[j].capacity] \in ProviderInfo
      BY <2>2, <2>3 DEF ProviderInfo
    <2>5. [jobs[j] EXCEPT !.provider = p, !.status = "Matched"] \in ComputeJob
      BY <2>2 DEF ComputeJob, JobStatus
    <2> QED BY <1>2, <2>4, <2>5 DEF AcceptJob, TypeOK, history
  <1>3. ASSUME NEW p \in Provider, StartJob(j, p)
        PROVE  TypeOK' /\ jobs'[j] \in ComputeJob
    <2>1. jobs[j] \in ComputeJob
      BY <1>3, JobFields DEF StartJob, InState
    <2>2. [jobs[j] EXCEPT !.status = "Running"] \in ComputeJob
      BY <2>1 DEF ComputeJob, JobStatus
    <2> QED BY <1>3, <2>2 DEF StartJob, TypeOK, history
  <1>4. ASSUME SettleJob(j)
        PROVE  TypeOK' /\ jobs'[j] \in ComputeJob
    <2>1. jobs[j] # None
      BY <1>4 DEF SettleJob, InState
    <2>2. jobs[j] \in ComputeJob /\ jobs[j].escrow \in Nat
      BY <2>1, JobFields
    <2>3. [jobs[j] EXCEPT !.status = "Completed", !.endedAt = now] \in ComputeJob
      BY <2>2 DEF ComputeJob, JobStatus, TypeOK
    <2>4. Max0(totalEscrow - jobs[j].escrow) \in Nat
      BY <2>2, Max0Type DEF TypeOK, Amount
    <2> QED BY <1>4, <2>1, <2>3, <2>4, RestoredType DEF SettleJob, TypeOK, history, Amount
  <1>5. ASSUME NEW who \in User \cup Provider, CancelJob(j, who)
        PROVE  TypeOK' /\ jobs'[j] \in ComputeJob
    <2>1. jobs[j] # None
      BY <1>5 DEF CancelJob, InState
    <2>2. /\ jobs[j] \in ComputeJob /\ jobs[j].escrow \in Nat
          /\ jobs[j].provider # None => jobs[j].provider \in Provider
      BY <2>1, JobFields
    <2>3. [jobs[j] EXCEPT !.status = "Cancelled"] \in ComputeJob
      BY <2>2 DEF ComputeJob, JobStatus
    <2>4. Max0(totalEscrow - jobs[j].escrow) \in Nat
      BY <2>2, Max0Type DEF TypeOK, Amount
    <2>5. overGiven' \subseteq Provider
      BY <1>5, <2>2 DEF CancelJob, TypeOK
    <2> QED BY <1>5, <2>1, <2>3, <2>4, <2>5, RestoredType DEF CancelJob, TypeOK, Amount
  <1> QED BY <1>1, <1>2, <1>3, <1>4, <1>5 DEF JobStep

LEMMA DisputeTypeStep ==
  ASSUME TypeOK, DisputedJobsExist, NEW d \in DisputeId, DisputeStep(d)
  PROVE  TypeOK'
  <1>1. ASSUME NEW j \in Job, NEW who \in User \cup Provider, OpenDispute(d, j, who)
        PROVE  TypeOK'
    <2>1. jobs[j] \in ComputeJob
      BY <1>1, JobFields DEF OpenDispute, InState
    <2>2. [jobs[j] EXCEPT !.status = "Disputed"] \in ComputeJob
      BY <2>1 DEF ComputeJob, JobStatus
    <2>3. [job |-> j, resolved |-> FALSE] \in ComputeDispute
      BY DEF ComputeDispute
    <2> QED BY <1>1, <2>2, <2>3 DEF OpenDispute, TypeOK
  <1>2. ASSUME NEW slash \in Slashes, NEW o \in {"Failed", "Completed"},
               ResolveDispute(d, slash, o)
        PROVE  TypeOK'
    <2> DEFINE j == disputes[d].job
               p == jobs[j].provider
    <2>1. disputes[d] # None /\ disputes[d] \in ComputeDispute /\ j \in Job /\ jobs[j] # None
      BY <1>2 DEF ResolveDispute, TypeOK, ComputeDispute, DisputedJobsExist
    <2>2. /\ jobs[j] \in ComputeJob /\ jobs[j].escrow \in Nat
          /\ p # None => p \in Provider
      BY <2>1, JobFields
    <2>3. [jobs[j] EXCEPT !.status = o] \in ComputeJob
      BY <2>2 DEF ComputeJob, JobStatus
    <2>4. [disputes[d] EXCEPT !.resolved = TRUE] \in ComputeDispute
      BY <2>1 DEF ComputeDispute
    <2>5. Max0(totalEscrow - jobs[j].escrow) \in Nat
      BY <2>2, Max0Type DEF TypeOK, Amount
    <2>6. providers' \in [Provider -> ProviderInfo \cup {None}] /\ totalStake' \in Nat
      <3>1. CASE p # None /\ providers[p] # None
        <4>1. p \in Provider /\ providers[p] \in ProviderInfo
          BY <3>1, <2>2, ProviderFields
        <4>2. Slashed(p, slash) \in Nat /\ providers[p].stake - Slashed(p, slash) \in Nat
          BY <3>1, <4>1, SlashedType
        <4>3. [providers[p] EXCEPT !.stake = @ - Slashed(p, slash)] \in ProviderInfo
          BY <4>1, <4>2 DEF ProviderInfo, Amount
        <4>4. Max0(totalStake - Slashed(p, slash)) \in Nat
          BY <4>2, Max0Type DEF TypeOK, Amount
        <4> QED BY <1>2, <3>1, <4>3, <4>4 DEF ResolveDispute, TypeOK
      <3>2. CASE ~(p # None /\ providers[p] # None)
        BY <1>2, <3>2 DEF ResolveDispute, TypeOK, Amount
      <3> QED BY <3>1, <3>2
    <2> HIDE DEF p
    <2> QED BY <1>2, <2>3, <2>4, <2>5, <2>6 DEF ResolveDispute, TypeOK, history, Amount
  <1> QED BY <1>1, <1>2 DEF DisputeStep
----------------------------------------------------------------------------
(* What one step does to the work of providers and to the disputes *)

\* Which job occupies which provider depends on the jobs alone.
LEMMA ProviderInvStep ==
  ASSUME MarketInv, NEW p \in Provider, ProviderStep(p)
  PROVE  MarketInv'
  <1>1. TypeOK'
    BY ProviderTypeStep DEF MarketInv
  <1>2. UNCHANGED <<jobs, providerJobs, disputes>>
    BY DEF ProviderStep, RegisterProvider, UpdateProvider, UpdateRejected, ProviderExit
  <1>3. DisputedJobsExist' /\ WorkIsListed' /\ OpenDisputesMatchJobs'
    BY <1>2 DEF MarketInv, DisputedJobsExist, WorkIsListed, OpenDisputesMatchJobs, Occupies, InState
  <1>4. ASSUME NEW q \in Provider, NEW j \in Job, providers'[q] # None,
               providers'[q].status = "Exited", Occupies(j, q)'
        PROVE  FALSE
    <2>1. Occupies(j, q) /\ j \in providerJobs[q]
      BY <1>2, <1>4 DEF Occupies, InState, MarketInv, WorkIsListed
    <2>2. CASE providers[q] # None /\ providers[q].status = "Exited"
      BY <2>1, <2>2 DEF MarketInv, ExitedHasNoWork
    <2>3. CASE ~(providers[q] # None /\ providers[q].status = "Exited")
      <3>1. ASSUME NEW c \in Capacities[p], NEW stake \in Stakes, RegisterProvider(p, c, stake)
            PROVE  FALSE
        BY <1>4, <2>3, <3>1 DEF RegisterProvider, MarketInv, TypeOK
      <3>2. ASSUME NEW c \in NewCapacities[p] \cup {None}, NEW s \in {"Active", "Paused", None},
                   NEW stake \in Stakes \cup {None}, UpdateProvider(p, c, s, stake)
            PROVE  FALSE
        <4>1. providers[p] # None /\ Reconfigured(p, c) \in ProviderInfo
              /\ Reconfigured(p, c).status = providers[p].status
          BY <3>2, ReconfiguredType DEF UpdateProvider, MarketInv
        <4>2. p = q
          BY <1>4, <2>3, <3>2 DEF UpdateProvider, MarketInv, TypeOK
        <4>3. providers'[p].status = IF s = None THEN providers[p].status ELSE s
          BY <3>2, <4>1 DEF UpdateProvider, MarketInv, TypeOK, ProviderInfo
        <4> QED BY <1>4, <2>3, <4>1, <4>2, <4>3
      <3>3. ASSUME NEW c \in NewCapacities[p] \cup {None}, UpdateRejected(p, c)
            PROVE  FALSE
        BY <1>4, <2>3, <3>3, ReconfiguredType DEF UpdateRejected, MarketInv, TypeOK
      <3>4. ASSUME ProviderExit(p)
            PROVE  FALSE
        <4>1. p = q
          BY <1>4, <2>3, <3>4 DEF ProviderExit, MarketInv, TypeOK
        <4> QED BY <2>1, <3>4, <4>1 DEF ProviderExit, Occupies, InState
      <3> QED BY <3>1, <3>2, <3>3, <3>4 DEF ProviderStep
    <2> QED BY <2>2, <2>3
  <1>5. ExitedHasNoWork'
    BY <1>4 DEF ExitedHasNoWork
  <1> QED BY <1>1, <1>3, <1>5 DEF MarketInv

\* A step on a job leaves the others, the disputes and the providers' statuses alone; a
\* provider that the job occupies afterwards and not before lists it and is active.
LEMMA JobEffect ==
  ASSUME TypeOK, NEW j \in Job, JobStep(j)
  PROVE  /\ UNCHANGED disputes
         /\ \A k \in Job \ {j} : jobs'[k] = jobs[k]
         /\ ~InState(j, {"Disputed"})
         /\ \A p \in Provider : providerJobs[p] \subseteq providerJobs'[p]
         /\ \A p \in Provider : (providers'[p] = None) <=> (providers[p] = None)
         /\ \A p \in Provider : providers[p] # None => providers'[p].status = providers[p].status
         /\ \A p \in Provider : Occupies(j, p)' =>
              \/ Occupies(j, p)
              \/ Active(p) /\ j \in providerJobs'[p]
  <1> DEFINE Effect ==
         /\ UNCHANGED disputes
         /\ \A k \in Job \ {j} : jobs'[k] = jobs[k]
         /\ ~InState(j, {"Disputed"})
         /\ \A p \in Provider : providerJobs[p] \subseteq providerJobs'[p]
         /\ \A p \in Provider : (providers'[p] = None) <=> (providers[p] = None)
         /\ \A p \in Provider : providers[p] # None => providers'[p].status = providers[p].status
         /\ \A p \in Provider : Occupies(j, p)' =>
              \/ Occupies(j, p)
              \/ Active(p) /\ j \in providerJobs'[p]
  <1>1. ASSUME NEW r \in Requests[j], CreateJob(j, r)
        PROVE  Effect
    BY <1>1 DEF CreateJob, InState, Occupies, TypeOK
  <1>2. ASSUME NEW q \in Provider, AcceptJob(j, q)
        PROVE  Effect
    <2>1. jobs[j] # None /\ providers[q] # None /\ Active(q)
      BY <1>2 DEF AcceptJob, InState, Active
    <2>2. /\ jobs[j] \in ComputeJob /\ providers[q] \in ProviderInfo
          /\ providers[q].available - jobs[j].capacity \in Nat
      BY <1>2, <2>1, JobFields, ProviderFields DEF AcceptJob
    <2> DEFINE new == [providers[q] EXCEPT !.available = @ - jobs[j].capacity]
    <2>3. new \in ProviderInfo /\ new.status = providers[q].status
      BY <2>2 DEF ProviderInfo
    <2>4. new # None
      BY <2>3, NoneIsNothing
    <2>5. providers' = [providers EXCEPT ![q] = new]
      BY <1>2 DEF AcceptJob
    <2>6. /\ jobs'[j].provider = q
          /\ providerJobs' = [providerJobs EXCEPT ![q] = @ \cup {j}]
      BY <1>2, <2>2 DEF AcceptJob, TypeOK, ComputeJob
    <2>7. /\ UNCHANGED disputes
          /\ \A k \in Job \ {j} : jobs'[k] = jobs[k]
          /\ ~InState(j, {"Disputed"})
      BY <1>2 DEF AcceptJob, InState, TypeOK
    <2> HIDE DEF new
    <2>8. \A p \in Provider :
            /\ providerJobs[p] \subseteq providerJobs'[p]
            /\ (providers'[p] = None) <=> (providers[p] = None)
            /\ providers[p] # None => providers'[p].status = providers[p].status
      BY <2>1, <2>3, <2>4, <2>5, <2>6 DEF TypeOK
    <2>9. \A p \in Provider : Occupies(j, p)' => Active(p) /\ j \in providerJobs'[p]
      BY <2>1, <2>6 DEF Occupies, TypeOK
    <2> QED BY <2>7, <2>8, <2>9
  <1>3. ASSUME NEW q \in Provider, StartJob(j, q)
        PROVE  Effect
    <2>1. jobs[j] \in ComputeJob
      BY <1>3, JobFields DEF StartJob, InState
    <2> QED BY <1>3, <2>1 DEF StartJob, InState, Occupies, TypeOK, ComputeJob
  <1>4. ASSUME SettleJob(j)
        PROVE  Effect
    <2>1. jobs[j] # None /\ jobs[j] \in ComputeJob
      BY <1>4, JobFields DEF SettleJob, InState
    <2>2. jobs'[j].status = "Completed"
      BY <1>4, <2>1 DEF SettleJob, TypeOK, ComputeJob
    <2>3. \A p \in Provider : ~Occupies(j, p)'
      BY <2>2 DEF Occupies, InState
    <2> QED BY <1>4, <2>1, <2>3, RestoredType DEF SettleJob, InState, TypeOK
  <1>5. ASSUME NEW who \in User \cup Provider, CancelJob(j, who)
        PROVE  Effect
    <2>1. jobs[j] # None /\ jobs[j] \in ComputeJob
      BY <1>5, JobFields DEF CancelJob, InState
    <2>2. jobs'[j].status = "Cancelled"
      BY <1>5, <2>1 DEF CancelJob, TypeOK, ComputeJob
    <2>3. \A p \in Provider : ~Occupies(j, p)'
      BY <2>2 DEF Occupies, InState
    <2> QED BY <1>5, <2>1, <2>3, RestoredType DEF CancelJob, InState, TypeOK
  <1> HIDE DEF Effect
  <1>6. Effect
    BY <1>1, <1>2, <1>3, <1>4, <1>5 DEF JobStep
  <1> QED BY <1>6 DEF Effect

\* A step on a job keeps the invariant.
LEMMA JobInvStep ==
  ASSUME MarketInv, NEW j \in Job, JobStep(j)
  PROVE  MarketInv'
  <1> USE DEF MarketInv
  <1>1. TypeOK' /\ jobs'[j] # None
    BY JobTypeStep, NoneIsNothing
  <1>2. /\ UNCHANGED disputes
        /\ \A k \in Job \ {j} : jobs'[k] = jobs[k]
        /\ ~InState(j, {"Disputed"})
    BY JobEffect
  <1>3. DisputedJobsExist'
    BY <1>1, <1>2 DEF DisputedJobsExist, TypeOK, ComputeDispute
  <1>4. OpenDisputesMatchJobs'
    BY <1>2 DEF OpenDisputesMatchJobs, TypeOK, ComputeDispute, InState
  <1>5. /\ \A p \in Provider : providerJobs[p] \subseteq providerJobs'[p]
        /\ \A p \in Provider : (providers'[p] = None) <=> (providers[p] = None)
        /\ \A p \in Provider : providers[p] # None => providers'[p].status = providers[p].status
        /\ \A p \in Provider : Occupies(j, p)' =>
             \/ Occupies(j, p)
             \/ Active(p) /\ j \in providerJobs'[p]
    BY JobEffect
  <1>6. ASSUME NEW k \in Job, NEW p \in Provider, Occupies(k, p)'
        PROVE  \/ Occupies(k, p)
               \/ Active(p) /\ k \in providerJobs'[p]
    BY <1>2, <1>5, <1>6 DEF Occupies, InState
  <1>7. WorkIsListed'
    BY <1>5, <1>6 DEF WorkIsListed
  <1>8. ExitedHasNoWork'
    BY <1>5, <1>6 DEF ExitedHasNoWork, Active
  <1> QED BY <1>1, <1>3, <1>4, <1>7, <1>8

\* Opening a dispute and ruling on it leave who is in the market alone, and take work
\* from providers, never to them.
LEMMA DisputeEffect ==
  ASSUME MarketInv, NEW d \in DisputeId, DisputeStep(d)
  PROVE  /\ UNCHANGED providerJobs
         /\ \A p \in Provider : (providers'[p] = None) <=> (providers[p] = None)
         /\ \A p \in Provider : providers[p] # None => providers'[p].status = providers[p].status
         /\ \A j \in Job, p \in Provider : Occupies(j, p)' => Occupies(j, p)
  <1> USE DEF MarketInv
  <1>1. ASSUME NEW j \in Job, NEW who \in User \cup Provider, OpenDispute(d, j, who)
        PROVE  UNCHANGED <<providers, providerJobs>>
               /\ \A k \in Job, p \in Provider : Occupies(k, p)' => Occupies(k, p)
    <2>1. jobs[j] \in ComputeJob
      BY <1>1, JobFields DEF OpenDispute, InState
    <2>2. jobs'[j].status = "Disputed" /\ \A k \in Job \ {j} : jobs'[k] = jobs[k]
      BY <1>1, <2>1 DEF OpenDispute, TypeOK, ComputeJob
    <2>3. \A k \in Job, p \in Provider : Occupies(k, p)' => Occupies(k, p)
      BY <2>2 DEF Occupies, InState
    <2> QED BY <1>1, <2>3 DEF OpenDispute
  <1>2. ASSUME NEW slash \in Slashes, NEW o \in {"Failed", "Completed"},
               ResolveDispute(d, slash, o)
        PROVE  /\ UNCHANGED providerJobs
               /\ \A p \in Provider : (providers'[p] = None) <=> (providers[p] = None)
               /\ \A p \in Provider : providers[p] # None =>
                    providers'[p].status = providers[p].status
               /\ \A j \in Job, p \in Provider : Occupies(j, p)' => Occupies(j, p)
    <2> DEFINE j == disputes[d].job
               q == jobs[j].provider
               new == [providers[q] EXCEPT !.stake = @ - Slashed(q, slash)]
    <2>1. j \in Job /\ jobs[j] # None
      BY <1>2 DEF ResolveDispute, TypeOK, ComputeDispute, DisputedJobsExist
    <2>2. jobs[j] \in ComputeJob /\ (q # None => q \in Provider)
      BY <2>1, JobFields
    <2>3. jobs'[j].status = o /\ \A k \in Job \ {j} : jobs'[k] = jobs[k]
      BY <1>2, <2>1, <2>2 DEF ResolveDispute, TypeOK, ComputeJob
    <2>4. \A k \in Job, p \in Provider : Occupies(k, p)' => Occupies(k, p)
      BY <2>3 DEF Occupies, InState
    <2>5. CASE q # None /\ providers[q] # None
      <3>1. q \in Provider /\ providers[q] \in ProviderInfo
            /\ providers[q].stake - Slashed(q, slash) \in Nat
        BY <2>2, <2>5, ProviderFields, SlashedType
      <3>2. new \in ProviderInfo /\ new.status = providers[q].status
        BY <3>1 DEF ProviderInfo, Amount
      <3>3. new # None
        BY <3>2, NoneIsNothing
      <3>4. providers' = [providers EXCEPT ![q] = new]
        BY <1>2, <2>5 DEF ResolveDispute
      <3> HIDE DEF new, q
      <3>5. \A p \in Provider :
              /\ (providers'[p] = None) <=> (providers[p] = None)
              /\ providers[p] # None => providers'[p].status = providers[p].status
        BY <2>5, <3>1, <3>2, <3>3, <3>4 DEF TypeOK
      <3> QED BY <1>2, <2>4, <3>5 DEF ResolveDispute
    <2>6. CASE ~(q # None /\ providers[q] # None)
      <3>1. UNCHANGED <<providers, providerJobs>>
        BY <1>2, <2>6 DEF ResolveDispute
      <3> QED BY <3>1, <2>4
    <2> QED BY <2>5, <2>6
  <1> QED BY <1>1, <1>2 DEF DisputeStep

\* A dispute is opened about a job that no open dispute is about, because such a job is
\* Disputed and open_dispute refuses it; a ruling ends the only open dispute about its job.
LEMMA DisputeInvStep ==
  ASSUME MarketInv, NEW d \in DisputeId, DisputeStep(d)
  PROVE  MarketInv'
  <1> USE DEF MarketInv
  <1>1. TypeOK'
    BY DisputeTypeStep
  <1>2. WorkIsListed' /\ ExitedHasNoWork'
    <2>1. /\ UNCHANGED providerJobs
          /\ \A p \in Provider : (providers'[p] = None) <=> (providers[p] = None)
          /\ \A p \in Provider : providers[p] # None => providers'[p].status = providers[p].status
          /\ \A j \in Job, p \in Provider : Occupies(j, p)' => Occupies(j, p)
      BY DisputeEffect
    <2> QED BY <2>1 DEF WorkIsListed, ExitedHasNoWork
  <1>3. ASSUME NEW j \in Job, NEW who \in User \cup Provider, OpenDispute(d, j, who)
        PROVE  DisputedJobsExist' /\ OpenDisputesMatchJobs'
    <2>1. jobs[j] \in ComputeJob /\ jobs[j].status # "Disputed"
      BY <1>3, JobFields DEF OpenDispute, InState
    <2>2. /\ jobs'[j].status = "Disputed" /\ jobs'[j] \in ComputeJob
          /\ \A k \in Job \ {j} : jobs'[k] = jobs[k]
      BY <1>3, <2>1 DEF OpenDispute, TypeOK, ComputeJob, JobStatus
    <2>3. jobs'[j] # None
      BY <2>2, NoneIsNothing
    <2> DEFINE new == [job |-> j, resolved |-> FALSE]
    <2>4. new # None /\ new.job = j
      <3>1. new \in ComputeDispute
        BY DEF ComputeDispute
      <3> QED BY <3>1, NoneIsNothing
    <2>5. disputes'[d] = new /\ \A e \in DisputeId \ {d} : disputes'[e] = disputes[e]
      BY <1>3 DEF OpenDispute, TypeOK
    <2>6. \A e \in DisputeId : disputes[e] # None => disputes[e].job \in Job
      BY DEF TypeOK, ComputeDispute
    <2>7. \A e \in DisputeId : disputes[e] # None /\ ~disputes[e].resolved => disputes[e].job # j
      BY <2>1 DEF OpenDisputesMatchJobs, InState
    <2> HIDE DEF new
    <2>8. DisputedJobsExist'
      BY <2>2, <2>3, <2>4, <2>5, <2>6 DEF DisputedJobsExist
    <2>9. OpenDisputesMatchJobs'
      BY <2>2, <2>3, <2>4, <2>5, <2>6, <2>7 DEF OpenDisputesMatchJobs, InState
    <2> QED BY <2>8, <2>9
  <1>4. ASSUME NEW slash \in Slashes, NEW o \in {"Failed", "Completed"},
               ResolveDispute(d, slash, o)
        PROVE  DisputedJobsExist' /\ OpenDisputesMatchJobs'
    <2> DEFINE j == disputes[d].job
               new == [disputes[d] EXCEPT !.resolved = TRUE]
    <2>1. /\ disputes[d] # None /\ ~disputes[d].resolved
          /\ disputes[d] \in ComputeDispute /\ j \in Job /\ jobs[j] # None
      BY <1>4 DEF ResolveDispute, TypeOK, ComputeDispute, DisputedJobsExist
    <2>2. /\ jobs'[j] \in ComputeJob
          /\ \A k \in Job \ {j} : jobs'[k] = jobs[k]
      <3>1. jobs[j] \in ComputeJob
        BY <2>1, JobFields
      <3> QED BY <1>4, <2>1, <3>1 DEF ResolveDispute, TypeOK, ComputeJob, JobStatus
    <2>3. jobs'[j] # None
      BY <2>2, NoneIsNothing
    <2>4. new.resolved /\ new.job = j
      BY <2>1 DEF ComputeDispute
    <2>5. disputes'[d] = new /\ \A e \in DisputeId \ {d} : disputes'[e] = disputes[e]
      BY <1>4 DEF ResolveDispute, TypeOK
    <2>6. \A e \in DisputeId : disputes[e] # None => disputes[e].job \in Job
      BY DEF TypeOK, ComputeDispute
    <2>7. \A e \in DisputeId \ {d} :
            disputes[e] # None /\ ~disputes[e].resolved => disputes[e].job # j
      BY <2>1 DEF OpenDisputesMatchJobs
    <2> HIDE DEF new
    <2>8. DisputedJobsExist'
      BY <2>1, <2>2, <2>3, <2>4, <2>5, <2>6 DEF DisputedJobsExist
    <2>9. OpenDisputesMatchJobs'
      BY <2>2, <2>3, <2>4, <2>5, <2>6, <2>7 DEF OpenDisputesMatchJobs, InState
    <2> QED BY <2>8, <2>9
  <1> QED BY <1>1, <1>2, <1>3, <1>4 DEF DisputeStep

----------------------------------------------------------------------------
(* The invariant *)

\* MarketInv holds at the start, and every step keeps it.
LEMMA MarketInvariant == Spec => []MarketInv
  <1>1. Init => MarketInv
    BY InputsTyped DEF Init, MarketInv, TypeOK, DisputedJobsExist, WorkIsListed, ExitedHasNoWork,
       OpenDisputesMatchJobs, Occupies, InState, Amount
  <1>2. ASSUME MarketInv, [Next]_vars
        PROVE  MarketInv'
    <2>1. CASE Tick
      BY <1>2, <2>1 DEF Tick, market, history, MarketInv, TypeOK, DisputedJobsExist, WorkIsListed,
         ExitedHasNoWork, OpenDisputesMatchJobs, Occupies, InState
    <2>2. CASE \E p \in Provider : ProviderStep(p)
      BY <1>2, <2>2, ProviderInvStep
    <2>3. CASE \E j \in Job : JobStep(j)
      BY <1>2, <2>3, JobInvStep
    <2>4. CASE \E d \in DisputeId : DisputeStep(d)
      BY <1>2, <2>4, DisputeInvStep
    <2>5. CASE UNCHANGED vars
      BY <1>2, <2>5 DEF vars, market, history, MarketInv, TypeOK, DisputedJobsExist, WorkIsListed,
         ExitedHasNoWork, OpenDisputesMatchJobs, Occupies, InState
    <2> QED BY <1>2, <2>1, <2>2, <2>3, <2>4, <2>5 DEF Next
  <1> QED BY <1>1, <1>2, PTL DEF Spec

\* The market's state keeps its types: every amount and every count stays a natural number
\* through all calls (compute_market/), for any number of providers, jobs and disputes.
THEOREM MarketTypeCorrect == Spec => []TypeOK
  <1>1. MarketInv => TypeOK
    BY DEF MarketInv
  <1> QED BY <1>1, MarketInvariant, PTL

\* No call, in whatever order, leaves a provider that has exited with a job to do
\* (providers.rs:116): accept_job needs an active provider and lists the job at once.
THEOREM ExitedProviderHasNoWork == Spec => []ExitedHasNoWork
  <1>1. MarketInv => ExitedHasNoWork
    BY DEF MarketInv
  <1> QED BY <1>1, MarketInvariant, PTL

\* A job is never ruled on by two disputes: an open dispute is about a disputed job and is
\* the only open one about it (disputes.rs:28, 76).
THEOREM OneOpenDisputePerJob == Spec => []OpenDisputesMatchJobs
  <1>1. MarketInv => OpenDisputesMatchJobs
    BY DEF MarketInv
  <1> QED BY <1>1, MarketInvariant, PTL

----------------------------------------------------------------------------
(* The count of active providers *)

ActiveSet == {p \in Provider : Active(p)}

\* The set of active providers is finite, and counts one more or one less when one provider
\* joins or leaves it.
LEMMA ActiveSetCount ==
  /\ IsFiniteSet(ActiveSet) /\ Cardinality(ActiveSet) \in Nat
  /\ \A p \in ActiveSet : /\ Cardinality(ActiveSet \ {p}) = Cardinality(ActiveSet) - 1
                          /\ Cardinality(ActiveSet) > 0
  /\ \A p \in Provider \ ActiveSet : Cardinality(ActiveSet \cup {p}) = Cardinality(ActiveSet) + 1
  <1>1. IsFiniteSet(ActiveSet)
    BY ProvidersFinite, FS_Subset DEF ActiveSet
  <1>2. Cardinality(ActiveSet) \in Nat
    BY <1>1, FS_CardinalityType
  <1>3. ASSUME NEW p \in ActiveSet
        PROVE  /\ Cardinality(ActiveSet \ {p}) = Cardinality(ActiveSet) - 1
               /\ Cardinality(ActiveSet) > 0
    <2>1. ActiveSet # {}
      BY <1>3
    <2>2. Cardinality(ActiveSet) # 0
      BY <1>1, <2>1, FS_EmptySet
    <2>3. Cardinality(ActiveSet \ {p}) = Cardinality(ActiveSet) - 1
      BY <1>1, FS_RemoveElement
    <2> QED BY <1>2, <2>2, <2>3
  <1>4. ASSUME NEW p \in Provider \ ActiveSet
        PROVE  Cardinality(ActiveSet \cup {p}) = Cardinality(ActiveSet) + 1
    BY <1>1, <1>4, FS_AddElement
  <1> QED BY <1>1, <1>2, <1>3, <1>4

\* The calls of providers move the count with the set, and never above it.
LEMMA ProviderCountStep ==
  ASSUME TypeOK, ActiveNotOvercounted, NEW p \in Provider, ProviderStep(p)
  PROVE  ActiveNotOvercounted'
  <1> DEFINE n == Cardinality(ActiveSet)
  <1>0. /\ n \in Nat /\ activeProviders \in Nat /\ activeProviders <= n
        /\ ActiveSet \subseteq Provider
    BY ActiveSetCount DEF ActiveNotOvercounted, ActiveSet, TypeOK
  <1>1. ASSUME NEW c \in Capacities[p], NEW stake \in Stakes, RegisterProvider(p, c, stake)
        PROVE  activeProviders' <= Cardinality(ActiveSet')
    <2>1. p \notin ActiveSet
      BY <1>1 DEF RegisterProvider, ActiveSet, Active
    <2>2. [status |-> "Active", capacity |-> c, available |-> c, stake |-> stake] # None
      <3>1. c \in Nat /\ stake \in Nat
        BY InputsTyped DEF Amount
      <3>2. [status |-> "Active", capacity |-> c, available |-> c, stake |-> stake]
              \in ProviderInfo
        BY <3>1 DEF ProviderInfo, Amount
      <3> QED BY <3>2, NoneIsNothing
    <2>3. ActiveSet' = ActiveSet \cup {p}
      BY <1>1, <2>2 DEF RegisterProvider, ActiveSet, Active, TypeOK
    <2>4. activeProviders' = activeProviders + 1
      BY <1>1 DEF RegisterProvider
    <2>5. Cardinality(ActiveSet') = n + 1
      BY <2>1, <2>3, ActiveSetCount
    <2> QED BY <1>0, <2>4, <2>5
  <1>2. ASSUME NEW c \in NewCapacities[p] \cup {None}, NEW s \in {"Active", "Paused", None},
               NEW stake \in Stakes \cup {None}, UpdateProvider(p, c, s, stake)
        PROVE  activeProviders' <= Cardinality(ActiveSet')
    <2> DEFINE after == IF s = None THEN providers[p].status ELSE s
    <2>1. providers[p] # None
      BY <1>2 DEF UpdateProvider
    <2>2. /\ Reconfigured(p, c) \in ProviderInfo
          /\ Reconfigured(p, c).status = providers[p].status
      BY <2>1, ReconfiguredType
    <2>3. /\ providers'[p].status = after
          /\ \A q \in Provider \ {p} : providers'[q] = providers[q]
      BY <1>2, <2>2 DEF UpdateProvider, TypeOK, ProviderInfo
    <2>4. providers'[p] # None
      <3>1. providers'[p] = [Reconfigured(p, c) EXCEPT
               !.status = IF s = None THEN @ ELSE s,
               !.stake = @ + IF stake = None THEN 0 ELSE stake]
        BY <1>2 DEF UpdateProvider, TypeOK
      <3>2. Reconfigured(p, c).stake + (IF stake = None THEN 0 ELSE stake) \in Nat
        BY <2>2, InputsTyped DEF ProviderInfo, Amount
      <3>3. (IF s = None THEN Reconfigured(p, c).status ELSE s) \in {"Active", "Paused", "Exited"}
        BY <2>2 DEF ProviderInfo
      <3>4. providers'[p] \in ProviderInfo
        BY <2>2, <3>1, <3>2, <3>3 DEF ProviderInfo, Amount
      <3> QED BY <3>4, NoneIsNothing
    <2>5. activeProviders' = ActiveAfter(p, s)
      BY <1>2 DEF UpdateProvider
    <2>6. Active(p) <=> p \in ActiveSet
      BY DEF ActiveSet
    <2>7. CASE Active(p) /\ s = "Paused"
      <3>1. ActiveSet' = ActiveSet \ {p}
        BY <2>3, <2>7, NoneIsNothing DEF ActiveSet, Active
      <3>2. activeProviders' = Max0(activeProviders - 1)
        BY <2>5, <2>7 DEF ActiveAfter
      <3>3. Cardinality(ActiveSet') = n - 1 /\ n > 0
        BY <2>6, <2>7, <3>1, ActiveSetCount
      <3> QED BY <1>0, <3>2, <3>3 DEF Max0
    <2>8. CASE ~Active(p) /\ s = "Active"
      <3>1. s # None
        BY <2>8, NoneIsNothing
      <3>2. ActiveSet' = ActiveSet \cup {p}
        BY <2>3, <2>4, <2>8, <3>1 DEF ActiveSet, Active
      <3>3. activeProviders' = activeProviders + 1
        BY <2>5, <2>8 DEF ActiveAfter
      <3>4. Cardinality(ActiveSet') = n + 1
        BY <2>6, <2>8, <3>2, ActiveSetCount
      <3> QED BY <1>0, <3>3, <3>4
    <2>9. CASE ~(Active(p) /\ s = "Paused") /\ ~(~Active(p) /\ s = "Active")
      <3>1. ActiveSet' = ActiveSet
        BY <2>1, <2>3, <2>4, <2>9 DEF ActiveSet, Active
      <3>2. activeProviders' = activeProviders
        BY <2>5, <2>9 DEF ActiveAfter
      <3> QED BY <1>0, <3>1, <3>2
    <2> QED BY <2>7, <2>8, <2>9
  <1>3. ASSUME NEW c \in NewCapacities[p] \cup {None}, UpdateRejected(p, c)
        PROVE  activeProviders' <= Cardinality(ActiveSet')
    <2>1. providers[p] # None /\ Reconfigured(p, c) \in ProviderInfo
          /\ Reconfigured(p, c).status = providers[p].status
      BY <1>3, ReconfiguredType DEF UpdateRejected
    <2>2. Reconfigured(p, c) # None
      BY <2>1, NoneIsNothing
    <2>3. ActiveSet' = ActiveSet /\ activeProviders' = activeProviders
      BY <1>3, <2>1, <2>2 DEF UpdateRejected, ActiveSet, Active, TypeOK
    <2> QED BY <1>0, <2>3
  <1>4. ASSUME ProviderExit(p)
        PROVE  activeProviders' <= Cardinality(ActiveSet')
    <2>1. providers[p] \in ProviderInfo
      BY <1>4, ProviderFields DEF ProviderExit
    <2>2. ActiveSet' = ActiveSet \ {p}
      BY <1>4, <2>1 DEF ProviderExit, ActiveSet, Active, TypeOK, ProviderInfo
    <2>3. activeProviders' = Max0(activeProviders - 1)
      BY <1>4 DEF ProviderExit
    <2>4. CASE p \in ActiveSet
      <3>1. Cardinality(ActiveSet') = n - 1 /\ n > 0
        BY <2>2, <2>4, ActiveSetCount
      <3> QED BY <1>0, <2>3, <3>1 DEF Max0
    <2>5. CASE p \notin ActiveSet
      <3>1. ActiveSet' = ActiveSet
        BY <2>2, <2>5
      <3> QED BY <1>0, <2>3, <3>1 DEF Max0
    <2> QED BY <2>4, <2>5
  <1>5. activeProviders' <= Cardinality(ActiveSet')
    BY <1>1, <1>2, <1>3, <1>4 DEF ProviderStep
  <1> QED BY <1>5 DEF ActiveNotOvercounted, ActiveSet

\* Steps on jobs and disputes leave the set and the count alone.
LEMMA OtherCountStep ==
  ASSUME MarketInv, ActiveNotOvercounted,
         \/ \E j \in Job : JobStep(j)
         \/ \E d \in DisputeId : DisputeStep(d)
  PROVE  ActiveNotOvercounted'
  <1>1. /\ \A p \in Provider : (providers'[p] = None) <=> (providers[p] = None)
        /\ \A p \in Provider : providers[p] # None => providers'[p].status = providers[p].status
    BY JobEffect, DisputeEffect DEF MarketInv
  <1>2. UNCHANGED activeProviders
    BY DEF JobStep, CreateJob, AcceptJob, StartJob, SettleJob, CancelJob,
           DisputeStep, OpenDispute, ResolveDispute
  <1>3. {p \in Provider : Active(p)}' = {p \in Provider : Active(p)}
    BY <1>1 DEF Active
  <1> QED BY <1>2, <1>3 DEF ActiveNotOvercounted

\* stats.active_providers never exceeds the number of active providers, in whatever order
\* they pause, come back and leave (providers.rs:86, 132).
THEOREM ActiveProvidersNotOvercounted == Spec => []ActiveNotOvercounted
  <1>1. Init => ActiveNotOvercounted
    <2>1. SUFFICES ASSUME Init PROVE ActiveNotOvercounted
      OBVIOUS
    <2>2. activeProviders = 0 /\ {p \in Provider : Active(p)} = {}
      BY <2>1 DEF Init, Active
    <2> QED BY <2>2, FS_EmptySet DEF ActiveNotOvercounted
  <1>2. ASSUME MarketInv, ActiveNotOvercounted, [Next]_vars
        PROVE  ActiveNotOvercounted'
    <2>1. CASE Tick \/ UNCHANGED vars
      BY <1>2, <2>1 DEF Tick, vars, market, history, ActiveNotOvercounted, Active
    <2>2. CASE \E p \in Provider : ProviderStep(p)
      BY <1>2, <2>2, ProviderCountStep DEF MarketInv
    <2>3. CASE (\E j \in Job : JobStep(j)) \/ \E d \in DisputeId : DisputeStep(d)
      BY <1>2, <2>3, OtherCountStep
    <2> QED BY <1>2, <2>1, <2>2, <2>3 DEF Next
  <1> QED BY <1>1, <1>2, MarketInvariant, PTL DEF Spec

----------------------------------------------------------------------------
(* The books: escrows, capacities and stakes *)

\* A job that was disputed after its settlement does not run again.
ReopenedAreOver == \A j \in reopened : InState(j, {"Disputed", "Completed", "Failed"})

\* A provider that a job occupies is on record.
OccupiedExist == \A j \in Job, p \in Provider : Occupies(j, p) => providers[p] # None

BooksInv ==
  /\ ReopenedAreOver
  /\ OccupiedExist
  /\ EscrowAccounted
  /\ NotOverbooked
  /\ StakeAccounted

\* What the sums add up are natural numbers, and so are the sums.
LEMMA BooksTyped ==
  ASSUME TypeOK
  PROVE  /\ \A j \in Job : Escrow(j) \in Nat /\ Escrow(j) <= HeldEscrow
         /\ \A j \in Job, p \in Provider : Share(j, p) \in Nat
         /\ \A p \in Provider : Taken(p) \in Nat
         /\ \A p \in Provider : StakeOf(p) \in Nat /\ StakeOf(p) <= StakeOnRecord
         /\ HeldEscrow \in Nat /\ StakeOnRecord \in Nat
  <1>1. ASSUME NEW j \in Job PROVE Escrow(j) \in Nat
    BY JobFields DEF Escrow, InState
  <1>2. ASSUME NEW j \in Job, NEW p \in Provider PROVE Share(j, p) \in Nat
    BY JobFields DEF Share, Occupies, InState
  <1>3. ASSUME NEW p \in Provider PROVE StakeOf(p) \in Nat
    BY ProviderFields DEF StakeOf
  <1>4. HeldEscrow \in Nat /\ \A j \in Job : Escrow(j) <= HeldEscrow
    <2> DEFINE f == [j \in Job |-> Escrow(j)]
    <2>1. f \in [Job -> Nat] /\ \A j \in Job : f[j] = Escrow(j)
      BY <1>1
    <2>2. HeldEscrow = SumFunction(f)
      BY DEF HeldEscrow
    <2> HIDE DEF f
    <2> QED BY <2>1, <2>2, JobsFinite, SumNat, SumAtLeast
  <1>5. ASSUME NEW p \in Provider PROVE Taken(p) \in Nat
    <2> DEFINE f == [j \in Job |-> Share(j, p)]
    <2>1. f \in [Job -> Nat] /\ Taken(p) = SumFunction(f)
      BY <1>2 DEF Taken
    <2> HIDE DEF f
    <2> QED BY <2>1, JobsFinite, SumNat
  <1>6. StakeOnRecord \in Nat /\ \A p \in Provider : StakeOf(p) <= StakeOnRecord
    <2> DEFINE f == [p \in Provider |-> StakeOf(p)]
    <2>1. f \in [Provider -> Nat] /\ \A p \in Provider : f[p] = StakeOf(p)
      BY <1>3
    <2>2. StakeOnRecord = SumFunction(f)
      BY DEF StakeOnRecord
    <2> HIDE DEF f
    <2> QED BY <2>1, <2>2, ProvidersFinite, SumNat, SumAtLeast
  <1> QED BY <1>1, <1>2, <1>3, <1>4, <1>5, <1>6

\* The same after a step.
LEMMA NextBooksTyped ==
  ASSUME TypeOK'
  PROVE  /\ \A j \in Job : Escrow(j)' \in Nat
         /\ \A j \in Job, p \in Provider : Share(j, p)' \in Nat
         /\ \A p \in Provider : StakeOf(p)' \in Nat
  BY DEF TypeOK, Escrow, Share, Occupies, InState, StakeOf, ComputeJob, ProviderInfo, Amount

\* A step on one job changes the escrow held by what it does to that job's.
LEMMA HeldAfter ==
  ASSUME TypeOK, TypeOK', NEW j \in Job, \A k \in Job \ {j} : Escrow(k)' = Escrow(k)
  PROVE  HeldEscrow' = HeldEscrow - Escrow(j) + Escrow(j)'
  <1> DEFINE f == [k \in Job |-> Escrow(k)]
             g == [k \in Job |-> Escrow(k)']
  <1>1. f \in [Job -> Int] /\ g \in [Job -> Int] /\ \A k \in Job \ {j} : g[k] = f[k]
    BY BooksTyped, NextBooksTyped
  <1>2. SumFunction(g) = SumFunction(f) - f[j] + g[j]
    <2> HIDE DEF f, g
    <2> QED BY <1>1, JobsFinite, SumUpdate
  <1> QED BY <1>2 DEF HeldEscrow

\* So for the capacity taken from a provider.
LEMMA TakenAfter ==
  ASSUME TypeOK, TypeOK', NEW p \in Provider, NEW j \in Job,
         \A k \in Job \ {j} : Share(k, p)' = Share(k, p)
  PROVE  Taken(p)' = Taken(p) - Share(j, p) + Share(j, p)'
  <1> DEFINE f == [k \in Job |-> Share(k, p)]
             g == [k \in Job |-> Share(k, p)']
  <1>1. f \in [Job -> Int] /\ g \in [Job -> Int] /\ \A k \in Job \ {j} : g[k] = f[k]
    BY BooksTyped, NextBooksTyped
  <1>2. SumFunction(g) = SumFunction(f) - f[j] + g[j]
    <2> HIDE DEF f, g
    <2> QED BY <1>1, JobsFinite, SumUpdate
  <1> QED BY <1>2 DEF Taken

\* And for the stakes, when one provider's record changes.
LEMMA StakeAfter ==
  ASSUME TypeOK, TypeOK', NEW p \in Provider,
         \A q \in Provider \ {p} : StakeOf(q)' = StakeOf(q)
  PROVE  StakeOnRecord' = StakeOnRecord - StakeOf(p) + StakeOf(p)'
  <1> DEFINE f == [q \in Provider |-> StakeOf(q)]
             g == [q \in Provider |-> StakeOf(q)']
  <1>1. f \in [Provider -> Int] /\ g \in [Provider -> Int] /\ \A q \in Provider \ {p} : g[q] = f[q]
    BY BooksTyped, NextBooksTyped
  <1>2. SumFunction(g) = SumFunction(f) - f[p] + g[p]
    <2> HIDE DEF f, g
    <2> QED BY <1>1, ProvidersFinite, SumUpdate
  <1> QED BY <1>2 DEF StakeOnRecord

\* Nothing is taken from a provider that no job occupies.
LEMMA NothingTaken ==
  ASSUME NEW p \in Provider, \A j \in Job : ~Occupies(j, p)
  PROVE  Taken(p) = 0
  <1> DEFINE f == [j \in Job |-> Share(j, p)]
  <1>1. DOMAIN f = Job /\ (\A j \in Job : f[j] = 0) /\ Taken(p) = SumFunction(f)
    BY DEF Share, Taken
  <1> HIDE DEF f
  <1> QED BY <1>1, JobsFinite, SumZero
----------------------------------------------------------------------------
(* Calls of providers and the books *)

\* p has room for what its jobs take.
HasRoom(p) == providers[p].available + Taken(p) <= providers[p].capacity

\* The record that each call writes.
LEMMA ProviderRecord ==
  ASSUME TypeOK, NEW p \in Provider, ProviderStep(p)
  PROVE  /\ UNCHANGED <<jobs, providerJobs, disputes, totalEscrow, reopened>>
         /\ overGiven \subseteq overGiven'
         /\ \A q \in Provider \ {p} : providers'[q] = providers[q]
         /\ providers'[p] # None
         /\ \/ /\ providers[p] = None /\ totalStake' = totalStake + providers'[p].stake
               /\ providers'[p].available = providers'[p].capacity
            \/ /\ providers[p] # None
               /\ \/ totalStake' = totalStake + (providers'[p].stake - providers[p].stake)
                  \/ /\ totalStake' = Max0(totalStake - providers[p].stake)
                     /\ providers'[p].stake = providers[p].stake
               /\ \/ /\ providers'[p].available = providers[p].available
                     /\ providers'[p].capacity = providers[p].capacity
                  \/ /\ providers'[p].available = providers'[p].capacity
                     /\ p \notin overGiven' => \A j \in Job : ~Occupies(j, p)
  <1> DEFINE Written ==
         /\ UNCHANGED <<jobs, providerJobs, disputes, totalEscrow, reopened>>
         /\ overGiven \subseteq overGiven'
         /\ \A q \in Provider \ {p} : providers'[q] = providers[q]
         /\ providers'[p] # None
         /\ \/ /\ providers[p] = None /\ totalStake' = totalStake + providers'[p].stake
               /\ providers'[p].available = providers'[p].capacity
            \/ /\ providers[p] # None
               /\ \/ totalStake' = totalStake + (providers'[p].stake - providers[p].stake)
                  \/ /\ totalStake' = Max0(totalStake - providers[p].stake)
                     /\ providers'[p].stake = providers[p].stake
               /\ \/ /\ providers'[p].available = providers[p].available
                     /\ providers'[p].capacity = providers[p].capacity
                  \/ /\ providers'[p].available = providers'[p].capacity
                     /\ p \notin overGiven' => \A j \in Job : ~Occupies(j, p)
  <1>1. ASSUME NEW c \in Capacities[p], NEW stake \in Stakes, RegisterProvider(p, c, stake)
        PROVE  Written
    <2> DEFINE new == [status |-> "Active", capacity |-> c, available |-> c, stake |-> stake]
    <2>1. new \in ProviderInfo
      BY InputsTyped DEF Amount, ProviderInfo
    <2>2. new # None /\ new.stake = stake /\ new.available = new.capacity
      BY <2>1, NoneIsNothing
    <2>3. providers' = [providers EXCEPT ![p] = new]
      BY <1>1 DEF RegisterProvider
    <2> HIDE DEF new
    <2>4. providers'[p] = new /\ \A q \in Provider \ {p} : providers'[q] = providers[q]
      BY <2>3 DEF TypeOK
    <2> QED BY <1>1, <2>2, <2>4 DEF RegisterProvider, history
  <1>2. ASSUME NEW c \in NewCapacities[p] \cup {None}, NEW s \in {"Active", "Paused", None},
               NEW stake \in Stakes \cup {None}, UpdateProvider(p, c, s, stake)
        PROVE  Written
    <2> DEFINE added == IF stake = None THEN 0 ELSE stake
               info == Reconfigured(p, c)
               new == [info EXCEPT !.status = IF s = None THEN @ ELSE s, !.stake = @ + added]
    <2>1. providers[p] # None
      BY <1>2 DEF UpdateProvider
    <2>2. added \in Nat
      BY InputsTyped DEF Amount
    <2>3. info \in ProviderInfo /\ info.stake = providers[p].stake /\ info.stake \in Nat
      BY <2>1, ReconfiguredType DEF ProviderInfo, Amount
    <2>4. \/ info.available = providers[p].available /\ info.capacity = providers[p].capacity
          \/ /\ info.available = info.capacity
             /\ p \notin OverGivenBy(p, c) => \A j \in Job : ~Occupies(j, p)
      BY <2>1, ProviderFields DEF Reconfigured, OverGivenBy, ProviderInfo
    <2>5. s # None => s \in {"Active", "Paused"}
      OBVIOUS
    <2>6. /\ providers' = [providers EXCEPT ![p] = new]
          /\ totalStake' = totalStake + added /\ overGiven' = OverGivenBy(p, c)
          /\ UNCHANGED <<jobs, providerJobs, disputes, totalEscrow, now, reopened>>
      BY <1>2 DEF UpdateProvider
    <2> HIDE DEF added, info
    <2>7. /\ info.stake + added \in Nat
          /\ (IF s = None THEN info.status ELSE s) \in {"Active", "Paused", "Exited"}
      BY <2>2, <2>3, <2>5 DEF ProviderInfo
    <2>8. /\ new \in ProviderInfo /\ new.available = info.available
          /\ new.capacity = info.capacity /\ new.stake = info.stake + added
      BY <2>3, <2>7 DEF ProviderInfo, Amount
    <2>9. new # None
      BY <2>8, NoneIsNothing
    <2> HIDE DEF new
    <2>10. providers'[p] = new /\ \A q \in Provider \ {p} : providers'[q] = providers[q]
      BY <2>6 DEF TypeOK
    <2>11. added = providers'[p].stake - providers[p].stake
      BY <2>2, <2>3, <2>8, <2>10
    <2>12. overGiven \subseteq overGiven'
      BY <2>6 DEF OverGivenBy
    <2> QED BY <2>1, <2>4, <2>6, <2>8, <2>9, <2>10, <2>11, <2>12
  <1>3. ASSUME NEW c \in NewCapacities[p] \cup {None}, UpdateRejected(p, c)
        PROVE  Written
    <2> DEFINE info == Reconfigured(p, c)
    <2>1. providers[p] # None
      BY <1>3 DEF UpdateRejected
    <2>2. /\ info \in ProviderInfo /\ info.stake = providers[p].stake /\ info.stake \in Nat
          /\ totalStake \in Nat
      BY <2>1, ReconfiguredType DEF ProviderInfo, Amount, TypeOK
    <2>3. \/ info.available = providers[p].available /\ info.capacity = providers[p].capacity
          \/ /\ info.available = info.capacity
             /\ p \notin OverGivenBy(p, c) => \A j \in Job : ~Occupies(j, p)
      BY <2>1, ProviderFields DEF Reconfigured, OverGivenBy, ProviderInfo
    <2>4. /\ providers' = [providers EXCEPT ![p] = info]
          /\ totalStake' = totalStake /\ overGiven' = OverGivenBy(p, c)
          /\ UNCHANGED <<jobs, providerJobs, disputes, totalEscrow, now, reopened>>
      BY <1>3 DEF UpdateRejected
    <2>5. info # None
      BY <2>2, NoneIsNothing
    <2> HIDE DEF info
    <2>6. providers'[p] = info /\ \A q \in Provider \ {p} : providers'[q] = providers[q]
      BY <2>4 DEF TypeOK
    <2>7. totalStake' = totalStake + (providers'[p].stake - providers[p].stake)
      BY <2>2, <2>4, <2>6
    <2>8. overGiven \subseteq overGiven'
      BY <2>4 DEF OverGivenBy
    <2> QED BY <2>1, <2>3, <2>4, <2>5, <2>6, <2>7, <2>8
  <1>4. ASSUME ProviderExit(p)
        PROVE  Written
    <2> DEFINE new == [providers[p] EXCEPT !.status = "Exited"]
    <2>1. providers[p] # None /\ providers[p] \in ProviderInfo
      BY <1>4, ProviderFields DEF ProviderExit
    <2>2. /\ new \in ProviderInfo /\ new.stake = providers[p].stake
          /\ new.available = providers[p].available /\ new.capacity = providers[p].capacity
      BY <2>1 DEF ProviderInfo
    <2>3. new # None
      BY <2>2, NoneIsNothing
    <2>4. /\ providers' = [providers EXCEPT ![p] = new]
          /\ totalStake' = Max0(totalStake - providers[p].stake)
          /\ UNCHANGED <<jobs, providerJobs, disputes, totalEscrow, reopened, overGiven>>
      BY <1>4 DEF ProviderExit
    <2> HIDE DEF new
    <2>5. providers'[p] = new /\ \A q \in Provider \ {p} : providers'[q] = providers[q]
      BY <2>4 DEF TypeOK
    <2> QED BY <2>1, <2>2, <2>3, <2>4, <2>5
  <1> HIDE DEF Written
  <1>5. Written
    BY <1>1, <1>2, <1>3, <1>4 DEF ProviderStep
  <1> QED BY <1>5 DEF Written

\* A call of a provider leaves what the jobs take alone; a capacity replaced while jobs hold
\* some of the old one puts the provider on the list of those given too much.
LEMMA ProviderBooksStep ==
  ASSUME MarketInv, BooksInv, NEW p \in Provider, ProviderStep(p)
  PROVE  BooksInv'
  <1>1. TypeOK /\ TypeOK'
    BY ProviderTypeStep DEF MarketInv
  <1>2. /\ UNCHANGED <<jobs, providerJobs, disputes, totalEscrow, reopened>>
        /\ overGiven \subseteq overGiven'
        /\ \A q \in Provider \ {p} : providers'[q] = providers[q]
        /\ providers'[p] # None
    BY <1>1, ProviderRecord
  <1>3. ReopenedAreOver' /\ OccupiedExist'
    BY <1>2 DEF BooksInv, ReopenedAreOver, OccupiedExist, Occupies, InState
  <1>4. EscrowAccounted'
    <2>1. HeldEscrow' = HeldEscrow
      BY <1>2 DEF HeldEscrow, Escrow, InState
    <2> QED BY <1>2, <2>1 DEF BooksInv, EscrowAccounted
  <1>5. NotOverbooked'
    <2> SUFFICES ASSUME NEW q \in Provider, q \notin overGiven', providers'[q] # None
                 PROVE  HasRoom(q)'
      BY DEF NotOverbooked, HasRoom
    <2>1. Taken(q)' = Taken(q) /\ Taken(q) \in Nat
      BY <1>1, <1>2, BooksTyped DEF Taken, Share, Occupies, InState
    <2>2. providers[q] # None => HasRoom(q)
      BY <1>2 DEF BooksInv, NotOverbooked, HasRoom
    <2>3. CASE q # p
      BY <1>2, <2>1, <2>2, <2>3 DEF HasRoom
    <2>4. CASE q = p
      <3>1. \/ providers[p] # None /\ providers'[p].available = providers[p].available
               /\ providers'[p].capacity = providers[p].capacity
            \/ /\ providers'[p].available = providers'[p].capacity
               /\ \A j \in Job : ~Occupies(j, p)
        BY <1>1, <2>4, ProviderRecord DEF BooksInv, OccupiedExist
      <3>2. providers'[p].capacity \in Nat
        BY <1>1, <1>2 DEF TypeOK, ProviderInfo
      <3>3. CASE providers[p] # None /\ providers'[p].available = providers[p].available
                 /\ providers'[p].capacity = providers[p].capacity
        BY <2>1, <2>2, <2>4, <3>3 DEF HasRoom
      <3>4. CASE /\ providers'[p].available = providers'[p].capacity
                 /\ \A j \in Job : ~Occupies(j, p)
        <4>1. Taken(p)' = 0
          BY <2>1, <2>4, <3>4, NothingTaken
        <4> QED BY <2>4, <3>2, <3>4, <4>1 DEF HasRoom
      <3> QED BY <3>1, <3>3, <3>4
    <2> QED BY <2>3, <2>4
  <1>6. StakeAccounted'
    <2> DEFINE before == StakeOnRecord   after == StakeOnRecord'
               old == StakeOf(p)         new == StakeOf(p)'
               total == totalStake       totalNext == totalStake'
    <2>1. \A q \in Provider \ {p} : StakeOf(q)' = StakeOf(q)
      BY <1>2 DEF StakeOf
    <2>2. after = before - old + new
      BY <1>1, <2>1, StakeAfter
    <2>3. before \in Nat /\ old \in Nat /\ new \in Nat /\ total \in Nat /\ total <= before
      BY <1>1, BooksTyped, NextBooksTyped DEF BooksInv, StakeAccounted, TypeOK, Amount
    <2>4. \/ totalNext = total + (new - old)
          \/ totalNext = Max0(total - old) /\ new = old
      <3>1. new = providers'[p].stake
        BY <1>2 DEF StakeOf
      <3>2. CASE providers[p] = None
        <4>1. totalNext = total + new /\ old = 0
          BY <1>1, <3>1, <3>2, ProviderRecord DEF StakeOf
        <4> HIDE DEF totalNext, total, new, old
        <4> QED BY <2>3, <4>1
      <3>3. CASE providers[p] # None
        <4>1. old = providers[p].stake
          BY <3>3 DEF StakeOf
        <4> QED BY <1>1, <3>1, <3>3, <4>1, ProviderRecord
      <3> QED BY <3>2, <3>3
    <2>5. totalNext <= after
      <3> HIDE DEF before, after, old, new, total, totalNext
      <3> QED BY <2>2, <2>3, <2>4 DEF Max0
    <2> QED BY <2>5 DEF StakeAccounted
  <1> QED BY <1>3, <1>4, <1>5, <1>6 DEF BooksInv
----------------------------------------------------------------------------
(* Calls on jobs and disputes and the books *)

\* The three ways a call on job j moves the total: with what j holds, by releasing that, or,
\* for a job that was disputed after its settlement, downwards.
EscrowMoves(j) ==
  /\ reopened \subseteq reopened'
  /\ \A k \in Job \ {j} : Escrow(k)' = Escrow(k)
  /\ \/ totalEscrow' = totalEscrow + (Escrow(j)' - Escrow(j))
     \/ totalEscrow' = Max0(totalEscrow - Escrow(j)) /\ Escrow(j)' = 0
     \/ reopened' # {} /\ totalEscrow' <= totalEscrow /\ Escrow(j)' = Escrow(j)

\* A provider not given too much has no less room than j's share asks for.
CapacityMoves(j) ==
  /\ overGiven \subseteq overGiven'
  /\ \A k \in Job \ {j}, p \in Provider : Share(k, p)' = Share(k, p)
  /\ \A p \in Provider : providers'[p] # None =>
       /\ providers[p] # None /\ providers'[p].capacity = providers[p].capacity
       /\ p \notin overGiven' =>
            providers'[p].available + Share(j, p)' <= providers[p].available + Share(j, p)

LEMMA EscrowStaysAccounted ==
  ASSUME TypeOK, TypeOK', EscrowAccounted, NEW j \in Job, EscrowMoves(j)
  PROVE  EscrowAccounted'
  <1> DEFINE before == HeldEscrow   after == HeldEscrow'
             old == Escrow(j)       new == Escrow(j)'
             total == totalEscrow   totalNext == totalEscrow'
  <1>1. after = before - old + new
    BY HeldAfter DEF EscrowMoves
  <1>2. /\ before \in Nat /\ old \in Nat /\ new \in Nat /\ total \in Nat /\ totalNext \in Nat
        /\ old <= before
    BY BooksTyped, NextBooksTyped DEF TypeOK, Amount
  <1>3. /\ total <= before /\ (reopened = {} => total = before)
        /\ reopened' = {} => reopened = {}
    BY DEF EscrowAccounted, EscrowMoves
  <1>4. \/ totalNext = total + (new - old)
        \/ totalNext = Max0(total - old) /\ new = 0
        \/ reopened' # {} /\ totalNext <= total /\ new = old
    BY DEF EscrowMoves
  <1>5. totalNext <= after /\ (reopened' = {} => totalNext = after)
    <2> HIDE DEF before, after, old, new, total, totalNext
    <2>1. CASE totalNext = total + (new - old)
      BY <1>1, <1>2, <1>3, <2>1
    <2>2. CASE totalNext = Max0(total - old) /\ new = 0
      BY <1>1, <1>2, <1>3, <2>2 DEF Max0
    <2>3. CASE reopened' # {} /\ totalNext <= total /\ new = old
      BY <1>1, <1>2, <1>3, <2>3
    <2> QED BY <1>4, <2>1, <2>2, <2>3
  <1> QED BY <1>5 DEF EscrowAccounted

LEMMA CapacityStaysTaken ==
  ASSUME TypeOK, TypeOK', NotOverbooked, NEW j \in Job, CapacityMoves(j)
  PROVE  NotOverbooked'
  <1> SUFFICES ASSUME NEW p \in Provider, p \notin overGiven', providers'[p] # None
               PROVE  HasRoom(p)'
    BY DEF NotOverbooked, HasRoom
  <1> DEFINE before == Taken(p)   after == Taken(p)'
             old == Share(j, p)   new == Share(j, p)'
             room == providers[p].available   roomNext == providers'[p].available
             all == providers[p].capacity
  <1>1. after = before - old + new
    BY TakenAfter DEF CapacityMoves
  <1>2. /\ providers[p] # None /\ providers'[p].capacity = all
        /\ roomNext + new <= room + old
    BY DEF CapacityMoves
  <1>3. /\ before \in Nat /\ old \in Nat /\ new \in Nat /\ room \in Nat /\ roomNext \in Nat
        /\ all \in Nat
    BY <1>2, BooksTyped, NextBooksTyped, ProviderFields DEF TypeOK, ProviderInfo
  <1>4. room + before <= all
    BY <1>2 DEF NotOverbooked, CapacityMoves
  <1>5. roomNext + after <= all
    <2> HIDE DEF before, after, old, new, room, roomNext, all
    <2> QED BY <1>1, <1>2, <1>3, <1>4
  <1> QED BY <1>2, <1>5 DEF HasRoom

\* A provider whose capacity is given back has the same record otherwise.
LEMMA RestoredValue ==
  ASSUME TypeOK, NEW j \in Job, jobs[j] # None, NEW p \in Provider, providers[p] # None
  PROVE  /\ Restored(j)[p].capacity = providers[p].capacity
         /\ Restored(j)[p].stake = providers[p].stake
         /\ Restored(j)[p].available =
              providers[p].available + IF jobs[j].provider = p THEN jobs[j].capacity ELSE 0
  <1>1. /\ providers[p] \in ProviderInfo /\ providers[p].available \in Nat
        /\ jobs[j].capacity \in Nat /\ p # None
    BY ProviderFields, JobFields, NoneIsNothing
  <1>2. CASE jobs[j].provider = p
    <2> DEFINE new == [providers[p] EXCEPT !.available = @ + jobs[j].capacity]
    <2>1. Restored(j)[p] = new
      BY <1>1, <1>2 DEF Restored, TypeOK
    <2>2. /\ new.capacity = providers[p].capacity /\ new.stake = providers[p].stake
          /\ new.available = providers[p].available + jobs[j].capacity
      BY <1>1 DEF ProviderInfo
    <2> QED BY <1>2, <2>1, <2>2
  <1>3. CASE jobs[j].provider # p
    <2>1. Restored(j)[p] = providers[p]
      BY <1>3, JobFields DEF Restored, TypeOK
    <2> QED BY <1>1, <1>3, <2>1
  <1> QED BY <1>2, <1>3

\* What a call on a job does to the books.
LEMMA JobBooksEffect ==
  ASSUME TypeOK, TypeOK', ReopenedAreOver, OccupiedExist, NEW j \in Job, JobStep(j)
  PROVE  /\ EscrowMoves(j) /\ CapacityMoves(j)
         /\ \A p \in Provider : StakeOf(p)' = StakeOf(p)
         /\ UNCHANGED <<totalStake, reopened>>
         /\ j \notin reopened
  <1> DEFINE Effect ==
         /\ EscrowMoves(j) /\ CapacityMoves(j)
         /\ \A p \in Provider : StakeOf(p)' = StakeOf(p)
         /\ UNCHANGED <<totalStake, reopened>>
         /\ j \notin reopened
  <1>0. /\ \A k \in Job \ {j} : jobs'[k] = jobs[k]
        /\ \A p \in Provider : (providers'[p] = None) <=> (providers[p] = None)
    BY JobEffect
  <1>9. ASSUME reopened' = reopened
        PROVE  /\ \A k \in Job \ {j} : Escrow(k)' = Escrow(k)
               /\ \A k \in Job \ {j}, p \in Provider : Share(k, p)' = Share(k, p)
    BY <1>0, <1>9 DEF Escrow, Share, Occupies, InState
  <1>1. ASSUME NEW r \in Requests[j], CreateJob(j, r)
        PROVE  Effect
    <2>1. /\ jobs[j] = None /\ totalEscrow' = totalEscrow + r.escrow
          /\ UNCHANGED <<providers, totalStake, reopened, overGiven>>
      BY <1>1 DEF CreateJob, history
    <2>2. jobs'[j] # None /\ jobs'[j].status = "Pending" /\ jobs'[j].escrow = r.escrow
      BY <1>1, JobTypeStep, NoneIsNothing DEF CreateJob, TypeOK
    <2>3. Escrow(j) = 0 /\ Escrow(j)' = r.escrow /\ r.escrow \in Nat
      BY <2>1, <2>2, NextBooksTyped DEF Escrow, InState
    <2>4. \A p \in Provider : Share(j, p) = 0 /\ Share(j, p)' = 0
      BY <2>1, <2>2 DEF Share, Occupies, InState
    <2>5. EscrowMoves(j)
      BY <1>9, <2>1, <2>3 DEF EscrowMoves
    <2>6. CapacityMoves(j)
      BY <1>9, <2>1, <2>4, ProviderFields DEF CapacityMoves
    <2> QED BY <2>1, <2>5, <2>6 DEF StakeOf, ReopenedAreOver, InState
  <1>2. ASSUME NEW q \in Provider, AcceptJob(j, q)
        PROVE  Effect
    <2> DEFINE new == [providers[q] EXCEPT !.available = @ - jobs[j].capacity]
    <2>1. /\ InState(j, {"Pending"}) /\ jobs[j] # None /\ providers[q] # None
          /\ UNCHANGED <<totalEscrow, totalStake, reopened, overGiven>>
      BY <1>2 DEF AcceptJob, InState, Active, history
    <2>2. /\ jobs[j] \in ComputeJob /\ providers[q] \in ProviderInfo
          /\ jobs[j].capacity \in Nat /\ providers[q].available \in Nat
          /\ providers' = [providers EXCEPT ![q] = new]
      BY <1>2, <2>1, JobFields, ProviderFields DEF AcceptJob
    <2>3. /\ new.available = providers[q].available - jobs[j].capacity
          /\ new.capacity = providers[q].capacity /\ new.stake = providers[q].stake
      BY <2>2 DEF ProviderInfo
    <2>4. /\ jobs'[j].provider = q /\ jobs'[j].status = "Matched" /\ jobs'[j] # None
          /\ jobs'[j].capacity = jobs[j].capacity /\ jobs'[j].escrow = jobs[j].escrow
      <3>1. jobs' = [jobs EXCEPT ![j] = [jobs[j] EXCEPT !.provider = q, !.status = "Matched"]]
        BY <1>2 DEF AcceptJob, TypeOK
      <3>2. jobs'[j] = [jobs[j] EXCEPT !.provider = q, !.status = "Matched"]
        BY <3>1 DEF TypeOK
      <3>3. jobs'[j] # None
        BY JobTypeStep, NoneIsNothing
      <3> QED BY <2>2, <3>2, <3>3 DEF ComputeJob
    <2> HIDE DEF new
    <2>5. providers'[q] = new /\ \A p \in Provider \ {q} : providers'[p] = providers[p]
      BY <2>2 DEF TypeOK
    <2>6. Escrow(j)' = Escrow(j) /\ Escrow(j) \in Nat
      BY <2>1, <2>4, BooksTyped DEF Escrow, InState
    <2>7. \A p \in Provider : Share(j, p) = 0
                              /\ Share(j, p)' = IF p = q THEN jobs[j].capacity ELSE 0
      BY <2>1, <2>4 DEF Share, Occupies, InState
    <2>8. EscrowMoves(j)
      BY <1>9, <2>1, <2>6 DEF EscrowMoves, TypeOK, Amount
    <2>9. CapacityMoves(j)
      BY <1>0, <1>9, <2>1, <2>2, <2>3, <2>5, <2>7, ProviderFields DEF CapacityMoves
    <2> QED BY <1>0, <2>1, <2>3, <2>5, <2>8, <2>9 DEF StakeOf, ReopenedAreOver, InState
  <1>3. ASSUME NEW q \in Provider, StartJob(j, q)
        PROVE  Effect
    <2>1. /\ InState(j, {"Matched"})
          /\ UNCHANGED <<providers, totalEscrow, totalStake, reopened, overGiven>>
      BY <1>3 DEF StartJob, history
    <2>2. jobs[j] # None /\ jobs[j] \in ComputeJob
      BY <2>1, JobFields DEF InState
    <2>3. /\ jobs'[j].provider = jobs[j].provider /\ jobs'[j].status = "Running"
          /\ jobs'[j] # None
          /\ jobs'[j].capacity = jobs[j].capacity /\ jobs'[j].escrow = jobs[j].escrow
      BY <1>3, <2>2, JobTypeStep, NoneIsNothing DEF StartJob, TypeOK, ComputeJob
    <2>4. /\ Escrow(j)' = Escrow(j) /\ Escrow(j) \in Nat
          /\ \A p \in Provider : Share(j, p)' = Share(j, p) /\ Share(j, p) \in Nat
      BY <2>1, <2>3, BooksTyped DEF Escrow, Share, Occupies, InState
    <2>5. EscrowMoves(j)
      BY <1>9, <2>1, <2>4 DEF EscrowMoves, TypeOK, Amount
    <2>6. CapacityMoves(j)
      BY <1>9, <2>1, <2>4, ProviderFields DEF CapacityMoves
    <2> QED BY <2>1, <2>5, <2>6 DEF StakeOf, ReopenedAreOver, InState
  <1>4. ASSUME SettleJob(j) \/ \E who \in User \cup Provider : CancelJob(j, who)
        PROVE  Effect
    <2>1. /\ InState(j, {"Pending", "Matched", "Running"})
          /\ providers' = Restored(j)
          /\ totalEscrow' = Max0(totalEscrow - jobs[j].escrow)
          /\ UNCHANGED <<totalStake, reopened>> /\ overGiven \subseteq overGiven'
      BY <1>4 DEF SettleJob, CancelJob, InState, history
    <2>2. /\ jobs[j] # None /\ jobs[j] \in ComputeJob /\ jobs[j].capacity \in Nat
          /\ j \notin reopened
      BY <2>1, JobFields DEF InState, ReopenedAreOver
    <2>3. jobs'[j].status \in {"Completed", "Cancelled"}
      BY <1>4, <2>2 DEF SettleJob, CancelJob, TypeOK, ComputeJob
    <2>4. \/ InState(j, {"Matched", "Running"})
          \/ jobs[j].provider # None => jobs[j].provider \in overGiven'
      BY <1>4 DEF SettleJob, CancelJob, InState
    <2>5. Escrow(j) = jobs[j].escrow /\ Escrow(j)' = 0
      BY <2>1, <2>3 DEF Escrow, InState
    <2>6. \A p \in Provider : Share(j, p)' = 0
      BY <2>3 DEF Share, Occupies, InState
    <2>7. EscrowMoves(j)
      BY <1>9, <2>1, <2>5 DEF EscrowMoves
    <2>8. \A p \in Provider \ overGiven' :
            Share(j, p) = IF jobs[j].provider = p THEN jobs[j].capacity ELSE 0
      BY <2>2, <2>4, NoneIsNothing DEF Share, Occupies
    <2>9. CapacityMoves(j)
      <3> SUFFICES ASSUME NEW p \in Provider, providers'[p] # None
                   PROVE  /\ providers[p] # None
                          /\ providers'[p].capacity = providers[p].capacity
                          /\ p \notin overGiven' =>
                               providers'[p].available + Share(j, p)'
                                 <= providers[p].available + Share(j, p)
        BY <1>9, <2>1 DEF CapacityMoves
      <3>1. providers[p] # None /\ providers[p].available \in Nat
        BY <1>0, ProviderFields
      <3>2. /\ providers'[p].capacity = providers[p].capacity
            /\ providers'[p].available =
                 providers[p].available + IF jobs[j].provider = p THEN jobs[j].capacity ELSE 0
        BY <2>1, <2>2, <3>1, RestoredValue
      <3> QED BY <2>2, <2>6, <2>8, <3>1, <3>2
    <2>10. \A p \in Provider : StakeOf(p)' = StakeOf(p)
      BY <1>0, <2>1, <2>2, RestoredValue DEF StakeOf
    <2> QED BY <2>1, <2>2, <2>7, <2>9, <2>10
  <1> HIDE DEF Effect
  <1>5. Effect
    BY <1>1, <1>2, <1>3, <1>4 DEF JobStep
  <1> QED BY <1>5 DEF Effect

\* A call on a job keeps the books.
LEMMA JobBooksStep ==
  ASSUME MarketInv, BooksInv, NEW j \in Job, JobStep(j)
  PROVE  BooksInv'
  <1>1. TypeOK /\ TypeOK' /\ ReopenedAreOver /\ OccupiedExist
    BY JobTypeStep DEF MarketInv, BooksInv
  <1>2. /\ EscrowMoves(j) /\ CapacityMoves(j)
        /\ \A p \in Provider : StakeOf(p)' = StakeOf(p)
        /\ UNCHANGED <<totalStake, reopened>>
        /\ j \notin reopened
    BY <1>1, JobBooksEffect
  <1>3. /\ \A k \in Job \ {j} : jobs'[k] = jobs[k]
        /\ \A p \in Provider : (providers'[p] = None) <=> (providers[p] = None)
        /\ \A p \in Provider : Occupies(j, p)' => Occupies(j, p) \/ Active(p)
    BY <1>1, JobEffect
  <1>4. ReopenedAreOver'
    BY <1>1, <1>2, <1>3 DEF ReopenedAreOver, InState, TypeOK
  <1>5. OccupiedExist'
    <2> SUFFICES ASSUME NEW k \in Job, NEW p \in Provider, Occupies(k, p)'
                 PROVE  providers[p] # None
      BY <1>3 DEF OccupiedExist
    <2>1. CASE k = j
      BY <1>1, <1>3, <2>1 DEF OccupiedExist, Active
    <2>2. CASE k # j
      BY <1>1, <1>3, <2>2 DEF OccupiedExist, Occupies, InState
    <2> QED BY <2>1, <2>2
  <1>6. EscrowAccounted' /\ NotOverbooked'
    BY <1>1, <1>2, EscrowStaysAccounted, CapacityStaysTaken DEF BooksInv
  <1>7. StakeAccounted'
    <2>1. StakeOnRecord' = StakeOnRecord
      BY <1>2 DEF StakeOnRecord
    <2> QED BY <1>2, <2>1 DEF BooksInv, StakeAccounted
  <1> QED BY <1>4, <1>5, <1>6, <1>7 DEF BooksInv
\* What opening a dispute and ruling on it do to the books.
LEMMA DisputeBooksStep ==
  ASSUME MarketInv, BooksInv, NEW d \in DisputeId, DisputeStep(d)
  PROVE  BooksInv'
  <1>1. TypeOK /\ TypeOK' /\ DisputedJobsExist /\ ReopenedAreOver /\ OccupiedExist
    BY DisputeTypeStep DEF MarketInv, BooksInv
  <1>2. /\ \A p \in Provider : (providers'[p] = None) <=> (providers[p] = None)
        /\ \A j \in Job, p \in Provider : Occupies(j, p)' => Occupies(j, p)
    BY DisputeEffect
  <1>3. OccupiedExist'
    BY <1>1, <1>2 DEF OccupiedExist
  <1>4. ASSUME NEW j \in Job, NEW who \in User \cup Provider, OpenDispute(d, j, who)
        PROVE  ReopenedAreOver' /\ EscrowAccounted' /\ NotOverbooked' /\ StakeAccounted'
    <2>1. /\ InState(j, {"Running", "Completed"})
          /\ reopened' = IF jobs[j].status = "Completed" THEN reopened \cup {j} ELSE reopened
          /\ UNCHANGED <<providers, totalEscrow, totalStake, overGiven>>
      BY <1>4 DEF OpenDispute
    <2>2. jobs[j] # None /\ jobs[j] \in ComputeJob
      BY <2>1, JobFields, <1>1 DEF InState
    <2>3. /\ jobs'[j] = [jobs[j] EXCEPT !.status = "Disputed"]
          /\ \A k \in Job \ {j} : jobs'[k] = jobs[k]
      BY <1>1, <1>4 DEF OpenDispute, TypeOK
    <2>4. /\ jobs'[j].status = "Disputed" /\ jobs'[j].escrow = jobs[j].escrow /\ jobs'[j] # None
      <3>1. [jobs[j] EXCEPT !.status = "Disputed"] \in ComputeJob
        BY <2>2 DEF ComputeJob, JobStatus
      <3> QED BY <2>2, <2>3, <3>1, NoneIsNothing DEF ComputeJob
    <2>5. ReopenedAreOver'
      BY <1>1, <2>1, <2>2, <2>3, <2>4 DEF ReopenedAreOver, InState, TypeOK
    <2>6. EscrowMoves(j)
      <3>1. \A k \in Job \ {j} : Escrow(k)' = Escrow(k)
        BY <2>1, <2>3 DEF Escrow, InState
      <3>2. Escrow(j)' = Escrow(j) /\ Escrow(j) \in Nat
        BY <1>1, <2>1, <2>2, <2>4, BooksTyped DEF Escrow, InState, ReopenedAreOver
      <3> QED BY <1>1, <2>1, <3>1, <3>2 DEF EscrowMoves, TypeOK, Amount
    <2>7. CapacityMoves(j)
      <3>1. \A k \in Job \ {j}, p \in Provider : Share(k, p)' = Share(k, p)
        BY <2>3 DEF Share, Occupies, InState
      <3>2. \A p \in Provider : Share(j, p)' = 0 /\ Share(j, p) \in Nat
        BY <1>1, <2>4, BooksTyped DEF Share, Occupies, InState
      <3> QED BY <1>1, <2>1, <3>1, <3>2, ProviderFields DEF CapacityMoves
    <2>8. StakeAccounted'
      <3>1. StakeOnRecord' = StakeOnRecord
        BY <2>1 DEF StakeOnRecord, StakeOf
      <3> QED BY <2>1, <3>1 DEF BooksInv, StakeAccounted
    <2> QED BY <1>1, <2>5, <2>6, <2>7, <2>8, EscrowStaysAccounted, CapacityStaysTaken DEF BooksInv
  <1>5. ASSUME NEW slash \in Slashes, NEW o \in {"Failed", "Completed"},
               ResolveDispute(d, slash, o)
        PROVE  ReopenedAreOver' /\ EscrowAccounted' /\ NotOverbooked' /\ StakeAccounted'
    <2>0. PICK j, q : j = disputes[d].job /\ q = jobs[j].provider
      OBVIOUS
    <2> DEFINE new == [providers[q] EXCEPT !.stake = @ - Slashed(q, slash)]
    <2>1. /\ disputes[d] # None /\ ~disputes[d].resolved /\ j \in Job /\ jobs[j] # None
          /\ UNCHANGED <<reopened, overGiven>>
      BY <1>1, <1>5, <2>0 DEF ResolveDispute, TypeOK, ComputeDispute, DisputedJobsExist, history
    <2>2. InState(j, {"Disputed"})
      BY <2>0, <2>1 DEF MarketInv, OpenDisputesMatchJobs
    <2>3. jobs[j] \in ComputeJob /\ jobs[j].escrow \in Nat /\ (q # None => q \in Provider)
      BY <1>1, <2>0, <2>1, JobFields
    <2>4. /\ jobs'[j] = [jobs[j] EXCEPT !.status = o]
          /\ \A k \in Job \ {j} : jobs'[k] = jobs[k]
          /\ totalEscrow' = Max0(totalEscrow - jobs[j].escrow)
      BY <1>1, <1>5, <2>0, <2>1 DEF ResolveDispute, TypeOK
    <2>5. jobs'[j].status = o /\ jobs'[j] # None
      <3>1. [jobs[j] EXCEPT !.status = o] \in ComputeJob
        BY <2>3 DEF ComputeJob, JobStatus
      <3> QED BY <2>3, <2>4, <3>1, NoneIsNothing DEF ComputeJob
    <2>6. \/ /\ q \in Provider /\ providers[q] # None /\ providers' = [providers EXCEPT ![q] = new]
             /\ totalStake' = Max0(totalStake - Slashed(q, slash))
          \/ UNCHANGED <<providers, totalStake>>
      BY <1>5, <2>0, <2>3 DEF ResolveDispute
    <2>7. \/ UNCHANGED <<providers, totalStake>>
          \/ /\ q \in Provider /\ providers[q] # None /\ providers'[q] # None
             /\ \A p \in Provider \ {q} : providers'[p] = providers[p]
             /\ totalStake' = Max0(totalStake - Slashed(q, slash))
             /\ providers'[q].stake = providers[q].stake - Slashed(q, slash)
             /\ providers'[q].available = providers[q].available
             /\ providers'[q].capacity = providers[q].capacity
      <3>1. CASE UNCHANGED <<providers, totalStake>>
        BY <3>1
      <3>2. CASE /\ q \in Provider /\ providers[q] # None
                 /\ providers' = [providers EXCEPT ![q] = new]
                 /\ totalStake' = Max0(totalStake - Slashed(q, slash))
        <4>1. providers[q] \in ProviderInfo /\ providers[q].stake - Slashed(q, slash) \in Nat
          BY <1>1, <3>2, ProviderFields, SlashedType
        <4>2. /\ new \in ProviderInfo /\ new.stake = providers[q].stake - Slashed(q, slash)
              /\ new.available = providers[q].available /\ new.capacity = providers[q].capacity
          BY <4>1 DEF ProviderInfo, Amount
        <4>3. new # None
          BY <4>2, NoneIsNothing
        <4> HIDE DEF new
        <4>4. providers'[q] = new /\ \A p \in Provider \ {q} : providers'[p] = providers[p]
          BY <1>1, <3>2 DEF TypeOK
        <4> QED BY <3>2, <4>2, <4>3, <4>4
      <3> QED BY <2>6, <3>1, <3>2
    <2> HIDE DEF new
    <2>8. ReopenedAreOver'
      BY <1>1, <2>1, <2>4, <2>5 DEF ReopenedAreOver, InState, TypeOK
    <2>9. EscrowMoves(j)
      <3> DEFINE e == jobs[j].escrow   total == totalEscrow
      <3>1. \A k \in Job \ {j} : Escrow(k)' = Escrow(k)
        BY <2>1, <2>4 DEF Escrow, InState
      <3>2. Escrow(j)' = 0 /\ Escrow(j) = IF j \in reopened THEN 0 ELSE e
        BY <2>2, <2>5 DEF Escrow, InState
      <3>3. Max0(total - e) <= total
        <4>1. total \in Nat /\ e \in Nat
          BY <1>1, <2>3 DEF TypeOK, Amount
        <4> HIDE DEF total, e
        <4> QED BY <4>1 DEF Max0
      <3> QED BY <2>1, <2>4, <3>1, <3>2, <3>3 DEF EscrowMoves
    <2>10. CapacityMoves(j)
      <3>1. \A k \in Job \ {j}, p \in Provider : Share(k, p)' = Share(k, p)
        BY <2>4 DEF Share, Occupies, InState
      <3>2. \A p \in Provider : Share(j, p)' = 0 /\ Share(j, p) = 0
        BY <2>2, <2>5 DEF Share, Occupies, InState
      <3>3. \A p \in Provider : providers'[p] # None =>
              /\ providers[p] # None /\ providers'[p].capacity = providers[p].capacity
              /\ providers'[p].available = providers[p].available
        BY <2>7
      <3> QED BY <1>1, <2>1, <3>1, <3>2, <3>3, ProviderFields DEF CapacityMoves
    <2>11. StakeAccounted'
      <3>1. CASE UNCHANGED <<providers, totalStake>>
        <4>1. StakeOnRecord' = StakeOnRecord
          BY <3>1 DEF StakeOnRecord, StakeOf
        <4> QED BY <3>1, <4>1 DEF BooksInv, StakeAccounted
      <3>2. CASE ~UNCHANGED <<providers, totalStake>>
        <4> DEFINE before == StakeOnRecord   after == StakeOnRecord'
                   cut == Slashed(q, slash)  stake == StakeOf(q)
                   total == totalStake
        <4>1. /\ q \in Provider /\ providers[q] # None
              /\ \A p \in Provider \ {q} : StakeOf(p)' = StakeOf(p)
              /\ stake = providers[q].stake /\ StakeOf(q)' = stake - cut
              /\ totalStake' = Max0(total - cut)
          BY <2>7, <3>2 DEF StakeOf
        <4>2. after = before - stake + (stake - cut)
          <5>1. after = before - stake + StakeOf(q)'
            BY <1>1, <4>1, StakeAfter
          <5> QED BY <4>1, <5>1
        <4>3. /\ before \in Nat /\ stake \in Nat /\ cut \in Nat /\ stake - cut \in Nat
              /\ total \in Nat /\ stake <= before /\ total <= before
          BY <1>1, <4>1, BooksTyped, SlashedType
             DEF BooksInv, StakeAccounted, TypeOK, Amount
        <4>4. Max0(total - cut) <= after
          <5> HIDE DEF before, after, cut, stake, total
          <5> QED BY <4>2, <4>3 DEF Max0
        <4> QED BY <4>1, <4>4 DEF StakeAccounted
      <3> QED BY <3>1, <3>2
    <2> QED BY <1>1, <2>1, <2>8, <2>9, <2>10, <2>11, EscrowStaysAccounted, CapacityStaysTaken
           DEF BooksInv
  <1> QED BY <1>3, <1>4, <1>5 DEF DisputeStep, BooksInv

\* The books are in order at the start, and every step keeps them so.
LEMMA BooksInvariant == Spec => []BooksInv
  <1>1. Init => BooksInv
    <2> SUFFICES ASSUME Init PROVE BooksInv
      OBVIOUS
    <2>1. ReopenedAreOver /\ OccupiedExist /\ NotOverbooked
      BY DEF Init, ReopenedAreOver, OccupiedExist, Occupies, InState, NotOverbooked
    <2>2. HeldEscrow = 0
      <3> DEFINE f == [j \in Job |-> Escrow(j)]
      <3>1. DOMAIN f = Job /\ (\A j \in Job : f[j] = 0) /\ HeldEscrow = SumFunction(f)
        BY DEF Init, Escrow, InState, HeldEscrow
      <3> HIDE DEF f
      <3> QED BY <3>1, JobsFinite, SumZero
    <2>3. StakeOnRecord = 0
      <3> DEFINE f == [p \in Provider |-> StakeOf(p)]
      <3>1. DOMAIN f = Provider /\ (\A p \in Provider : f[p] = 0) /\ StakeOnRecord = SumFunction(f)
        BY DEF Init, StakeOf, StakeOnRecord
      <3> HIDE DEF f
      <3> QED BY <3>1, ProvidersFinite, SumZero
    <2> QED BY <2>1, <2>2, <2>3 DEF Init, BooksInv, EscrowAccounted, StakeAccounted
  <1>2. ASSUME MarketInv, BooksInv, [Next]_vars
        PROVE  BooksInv'
    <2>1. CASE Tick \/ UNCHANGED vars
      BY <1>2, <2>1 DEF Tick, vars, market, history, BooksInv, ReopenedAreOver, OccupiedExist,
         EscrowAccounted, HeldEscrow, Escrow, NotOverbooked, Taken, Share, Occupies, InState,
         StakeAccounted, StakeOnRecord, StakeOf
    <2>2. CASE \E p \in Provider : ProviderStep(p)
      BY <1>2, <2>2, ProviderBooksStep
    <2>3. CASE \E j \in Job : JobStep(j)
      BY <1>2, <2>3, JobBooksStep
    <2>4. CASE \E d \in DisputeId : DisputeStep(d)
      BY <1>2, <2>4, DisputeBooksStep
    <2> QED BY <1>2, <2>1, <2>2, <2>3, <2>4 DEF Next
  <1> QED BY <1>1, <1>2, MarketInvariant, PTL DEF Spec

\* total_escrow never exceeds what the unfinished jobs hold, and is exactly that until a
\* settled job is disputed (jobs.rs:199, 247, disputes.rs:123), for any number of jobs.
THEOREM EscrowIsAccounted == Spec => []EscrowAccounted
  <1>1. BooksInv => EscrowAccounted
    BY DEF BooksInv
  <1> QED BY <1>1, BooksInvariant, PTL

\* What a provider's jobs take fits into its capacity, unless it was given capacity back
\* that no job had taken (jobs.rs:110, 193, 241, providers.rs:64).
THEOREM CapacityIsNotOverbooked == Spec => []NotOverbooked
  <1>1. BooksInv => NotOverbooked
    BY DEF BooksInv
  <1> QED BY <1>1, BooksInvariant, PTL

\* total_provider_stake never claims more than the stakes on record (providers.rs:98, 130,
\* disputes.rs:90), whatever is added, slashed and paid out.
THEOREM StakesAreOnRecord == Spec => []StakeAccounted
  <1>1. BooksInv => StakeAccounted
    BY DEF BooksInv
  <1> QED BY <1>1, BooksInvariant, PTL
=============================================================================
