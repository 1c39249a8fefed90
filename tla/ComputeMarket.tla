--------------------------- MODULE ComputeMarket ---------------------------
(***************************************************************************)
(* The compute marketplace (compute_market/): providers that stake and     *)
(* offer capacity, users that escrow a payment for a job, the life of a    *)
(* job from request to settlement or cancellation, and disputes.           *)
(*                                                                         *)
(* Every operation is one &mut self call on ComputeMarketState, so it is   *)
(* one action; any caller may make any call with any arguments.  Capacity  *)
(* is one number: the code compares, takes and gives back its four fields  *)
(* alike.  What a settlement pays is a result handed to the caller and     *)
(* changes nothing here but the escrow; the treasury, the reputations and  *)
(* the display counters other than active_providers are left out.  Sums of *)
(* amounts are taken not to reach 2^128, which no call checks.             *)
(***************************************************************************)
EXTENDS Integers, FiniteSets, Functions

CONSTANTS
  Provider,        \* provider addresses
  User,            \* user addresses
  Job,             \* job ids
  DisputeId,       \* dispute ids, chosen by the caller
  None,            \* a missing map entry or an absent option
  ResourceType,    \* kinds of resources
  Supports,        \* the kinds each provider registers with
  MinStake,        \* PROVIDER_MIN_STAKE
  DisputeWindow,   \* DISPUTE_WINDOW_SECS, in units of the clock
  Stakes,          \* stakes a provider may put in
  Capacities,      \* capacities that each provider may register with
  NewCapacities,   \* and may change to
  Requests,        \* what each job may ask for: user, provider or None, kind, capacity, escrow
  Slashes          \* amounts a ruling may slash

\* Bounds of the exploration, which the code does not have.
CONSTANTS
  MaxTime,         \* the clock
  MaxStake         \* the stake up to which a provider adds to it

Amount == Nat

JobStatus == {"Pending", "Matched", "Running", "Completed", "Failed", "Cancelled", "Disputed"}

\* Pending and Suspended providers do not occur: nothing sets these statuses.
ProviderInfo ==
  [status : {"Active", "Paused", "Exited"}, capacity : Nat, available : Nat, stake : Amount]

Request ==
  [user : User, provider : Provider \cup {None}, kind : ResourceType,
   capacity : Nat, escrow : Amount]

ComputeJob ==
  [user : User, provider : Provider \cup {None}, kind : ResourceType, capacity : Nat,
   escrow : Amount, status : JobStatus, endedAt : Nat \cup {None}]

ComputeDispute == [job : Job, resolved : BOOLEAN]

ASSUME NoneIsNothing ==
  /\ None \notin Provider \cup Nat \cup {"Active", "Paused"}
  /\ None \notin ProviderInfo \cup ComputeJob \cup ComputeDispute
ASSUME InputsTyped ==
  /\ Requests \in [Job -> SUBSET Request]
  /\ Supports \in [Provider -> SUBSET ResourceType]
  /\ Stakes \subseteq Amount /\ Capacities \in [Provider -> SUBSET Nat]
  /\ NewCapacities \in [Provider -> SUBSET Nat] /\ Slashes \subseteq Amount
  /\ MinStake \in Amount
  /\ DisputeWindow \in Nat /\ MaxTime \in Nat /\ MaxStake \in Nat
ASSUME ProvidersFinite == IsFiniteSet(Provider)
ASSUME JobsFinite == IsFiniteSet(Job)

VARIABLES
  providers,        \* ProviderInfo by address
  jobs,             \* ComputeJob by id
  providerJobs,     \* the jobs each provider accepted
  disputes,         \* ComputeDispute by id
  totalEscrow,      \* total_escrow
  totalStake,       \* total_provider_stake
  activeProviders,  \* stats.active_providers
  now               \* the timestamp the next call carries

\* History, which the code does not keep.
VARIABLES
  reopened,         \* jobs disputed after they had been settled
  overGiven         \* providers given capacity that none of their jobs had taken

market == <<providers, jobs, providerJobs, disputes, totalEscrow, totalStake, activeProviders>>
history == <<reopened, overGiven>>
vars == <<market, now, history>>

\* Mutant: subtraction that does not stop at zero.
Unsaturated(n) == n

Max0(n) == IF n > 0 THEN n ELSE 0      \* saturating_sub

Active(p) == providers[p] # None /\ providers[p].status = "Active"

InState(j, states) == jobs[j] # None /\ jobs[j].status \in states

\* A job that holds capacity of p.
Occupies(j, p) == InState(j, {"Matched", "Running"}) /\ jobs[j].provider = p

Init ==
  /\ providers = [p \in Provider |-> None]
  /\ jobs = [j \in Job |-> None]
  /\ providerJobs = [p \in Provider |-> {}]
  /\ disputes = [d \in DisputeId |-> None]
  /\ totalEscrow = 0 /\ totalStake = 0 /\ activeProviders = 0
  /\ now = 0
  /\ reopened = {} /\ overGiven = {}

\* Timestamps come from the callers' clock, which only grows.
Tick ==
  /\ now < MaxTime
  /\ now' = now + 1
  /\ UNCHANGED <<market, history>>

----------------------------------------------------------------------------
(* Providers *)

RegisterProvider(p, capacity, stake) ==
  /\ providers[p] = None /\ stake >= MinStake
  /\ providers' = [providers EXCEPT ![p] =
       [status |-> "Active", capacity |-> capacity, available |-> capacity, stake |-> stake]]
  /\ totalStake' = totalStake + stake
  /\ activeProviders' = activeProviders + 1
  /\ UNCHANGED <<jobs, providerJobs, disputes, totalEscrow, now, history>>

\* Mutant: coming back counts whatever the status was.
ActiveAlways(p, status) ==
  CASE Active(p) /\ status = "Paused" -> Max0(activeProviders - 1)
    [] status = "Active" -> activeProviders + 1
    [] OTHER -> activeProviders

\* How a change of p's status moves the count of active providers.
ActiveAfter(p, status) ==
  CASE Active(p) /\ status = "Paused" -> Max0(activeProviders - 1)
    [] ~Active(p) /\ status = "Active" -> activeProviders + 1
    [] OTHER -> activeProviders

\* A new capacity is all available, whatever the jobs hold.
Reconfigured(p, capacity) ==
  IF capacity = None THEN providers[p]
  ELSE [providers[p] EXCEPT !.capacity = capacity, !.available = capacity]

OverGivenBy(p, capacity) ==
  IF capacity # None /\ \E j \in Job : Occupies(j, p) THEN overGiven \cup {p} ELSE overGiven

\* update_provider, with None for an option that is not given.
UpdateProvider(p, capacity, status, stake) ==
  /\ providers[p] # None
  /\ LET added == IF stake = None THEN 0 ELSE stake
     IN /\ providers[p].stake + added <= MaxStake
        /\ providers' = [providers EXCEPT ![p] =
             [Reconfigured(p, capacity) EXCEPT
                !.status = IF status = None THEN @ ELSE status, !.stake = @ + added]]
        /\ totalStake' = totalStake + added
  /\ activeProviders' = ActiveAfter(p, status)
  /\ overGiven' = OverGivenBy(p, capacity)
  /\ UNCHANGED <<jobs, providerJobs, disputes, totalEscrow, now, reopened>>

\* Any status but Active and Paused is an error, which update_provider returns after it
\* has replaced the capacity.
UpdateRejected(p, capacity) ==
  /\ providers[p] # None
  /\ providers' = [providers EXCEPT ![p] = Reconfigured(p, capacity)]
  /\ overGiven' = OverGivenBy(p, capacity)
  /\ UNCHANGED <<jobs, providerJobs, disputes, totalEscrow, totalStake, activeProviders, now,
                 reopened>>

\* Mutant: only running jobs keep a provider from leaving.
ExitUnlessRunning(p) ==
  /\ providers[p] # None
  /\ \A j \in providerJobs[p] : ~InState(j, {"Running"})
  /\ providers' = [providers EXCEPT ![p].status = "Exited"]
  /\ totalStake' = Max0(totalStake - providers[p].stake)
  /\ activeProviders' = Max0(activeProviders - 1)
  /\ UNCHANGED <<jobs, providerJobs, disputes, totalEscrow, now, reopened, overGiven>>

\* The stake is paid out, and stays on the record.
ProviderExit(p) ==
  /\ providers[p] # None
  /\ \A j \in providerJobs[p] : ~InState(j, {"Pending", "Matched", "Running"})
  /\ providers' = [providers EXCEPT ![p].status = "Exited"]
  /\ totalStake' = Max0(totalStake - providers[p].stake)
  /\ activeProviders' = Max0(activeProviders - 1)
  /\ UNCHANGED <<jobs, providerJobs, disputes, totalEscrow, now, reopened, overGiven>>

----------------------------------------------------------------------------
(* Jobs *)

\* A named provider must be able to take the job now; nothing is reserved.
CreateJob(j, r) ==
  /\ jobs[j] = None
  /\ r.provider # None =>
       /\ Active(r.provider)
       /\ r.kind \in Supports[r.provider]
       /\ providers[r.provider].available >= r.capacity
  /\ jobs' = [jobs EXCEPT ![j] =
       [user |-> r.user, provider |-> r.provider, kind |-> r.kind, capacity |-> r.capacity,
        escrow |-> r.escrow, status |-> "Pending", endedAt |-> None]]
  /\ totalEscrow' = totalEscrow + r.escrow
  /\ UNCHANGED <<providers, providerJobs, disputes, totalStake, activeProviders, now, history>>

\* Mutant: the capacity is taken without asking whether it is there.
AcceptUnchecked(j, p) ==
  /\ InState(j, {"Pending"})
  /\ jobs[j].provider \in {None, p}
  /\ Active(p)
  /\ providers' = [providers EXCEPT ![p].available = Max0(@ - jobs[j].capacity)]
  /\ jobs' = [jobs EXCEPT ![j].provider = p, ![j].status = "Matched"]
  /\ providerJobs' = [providerJobs EXCEPT ![p] = @ \cup {j}]
  /\ UNCHANGED <<disputes, totalEscrow, totalStake, activeProviders, now, history>>

\* accept_job at a price within the user's maximum.  The job's kind is not compared.
AcceptJob(j, p) ==
  /\ InState(j, {"Pending"})
  /\ jobs[j].provider \in {None, p}
  /\ Active(p)
  /\ providers[p].available >= jobs[j].capacity
  /\ providers' = [providers EXCEPT ![p].available = @ - jobs[j].capacity]
  /\ jobs' = [jobs EXCEPT ![j].provider = p, ![j].status = "Matched"]
  /\ providerJobs' = [providerJobs EXCEPT ![p] = @ \cup {j}]
  /\ UNCHANGED <<disputes, totalEscrow, totalStake, activeProviders, now, history>>

StartJob(j, p) ==
  /\ InState(j, {"Matched"}) /\ jobs[j].provider = p
  /\ jobs' = [jobs EXCEPT ![j].status = "Running"]
  /\ UNCHANGED <<providers, providerJobs, disputes, totalEscrow, totalStake, activeProviders,
                 now, history>>

\* Give job j's capacity back to its provider.
Restored(j) ==
  IF jobs[j].provider = None \/ providers[jobs[j].provider] = None THEN providers
  ELSE [providers EXCEPT ![jobs[j].provider].available = @ + jobs[j].capacity]

\* Anyone may report the usage; the escrow is released.
SettleJob(j) ==
  /\ InState(j, {"Running"}) /\ jobs[j].provider # None
  /\ jobs' = [jobs EXCEPT ![j].status = "Completed", ![j].endedAt = now]
  /\ providers' = Restored(j)
  /\ totalEscrow' = Max0(totalEscrow - jobs[j].escrow)
  /\ UNCHANGED <<providerJobs, disputes, totalStake, activeProviders, now, history>>

\* Mutant: the escrow of a job cancelled by its provider is not released.
CancelForUser(j, who) ==
  /\ InState(j, {"Pending", "Matched"}) /\ who \in {jobs[j].user, jobs[j].provider}
  /\ jobs' = [jobs EXCEPT ![j].status = "Cancelled"]
  /\ providers' = Restored(j)
  /\ totalEscrow' = Max0(totalEscrow - IF who = jobs[j].user THEN jobs[j].escrow ELSE 0)
  /\ overGiven' = IF jobs[j].status = "Pending" /\ jobs[j].provider # None
                  THEN overGiven \cup {jobs[j].provider} ELSE overGiven
  /\ UNCHANGED <<providerJobs, disputes, totalStake, activeProviders, now, reopened>>

\* cancel_job by the user or the provider.  A named provider gets the capacity back
\* even when it had not accepted yet.  The end time of a cancelled job is never read.
CancelJob(j, who) ==
  /\ InState(j, {"Pending", "Matched"}) /\ who \in {jobs[j].user, jobs[j].provider}
  /\ jobs' = [jobs EXCEPT ![j].status = "Cancelled"]
  /\ providers' = Restored(j)
  /\ totalEscrow' = Max0(totalEscrow - jobs[j].escrow)
  /\ overGiven' = IF jobs[j].status = "Pending" /\ jobs[j].provider # None
                  THEN overGiven \cup {jobs[j].provider} ELSE overGiven
  /\ UNCHANGED <<providerJobs, disputes, totalStake, activeProviders, now, reopened>>

----------------------------------------------------------------------------
(* Disputes *)

\* Mutant: a disputed job may be disputed again.
DisputeAnyTime(d, j, who) ==
  /\ InState(j, {"Running", "Completed", "Disputed"}) /\ who \in {jobs[j].user, jobs[j].provider}
  /\ jobs' = [jobs EXCEPT ![j].status = "Disputed"]
  /\ disputes' = [disputes EXCEPT ![d] = [job |-> j, resolved |-> FALSE]]
  /\ reopened' = IF jobs[j].status = "Completed" THEN reopened \cup {j} ELSE reopened
  /\ UNCHANGED <<providers, providerJobs, totalEscrow, totalStake, activeProviders, now, overGiven>>

\* open_dispute.  A job completed by a ruling has no end time, so its window never
\* closes; a dispute id in use is overwritten.
OpenDispute(d, j, who) ==
  /\ InState(j, {"Running", "Completed"}) /\ who \in {jobs[j].user, jobs[j].provider}
  /\ jobs[j].status = "Completed" /\ jobs[j].endedAt # None =>
       now <= jobs[j].endedAt + DisputeWindow
  /\ jobs' = [jobs EXCEPT ![j].status = "Disputed"]
  /\ disputes' = [disputes EXCEPT ![d] = [job |-> j, resolved |-> FALSE]]
  /\ reopened' = IF jobs[j].status = "Completed" THEN reopened \cup {j} ELSE reopened
  /\ UNCHANGED <<providers, providerJobs, totalEscrow, totalStake, activeProviders, now, overGiven>>

\* What a ruling takes from p's stake, at most all of it.
Slashed(p, slash) == IF slash < providers[p].stake THEN slash ELSE providers[p].stake

\* Mutant: the stake is taken from the provider only.
ResolveRecordOnly(d, slash, outcome) ==
  /\ disputes[d] # None /\ ~disputes[d].resolved
  /\ LET j == disputes[d].job
         p == jobs[j].provider
     IN /\ jobs' = [jobs EXCEPT ![j].status = outcome]
        /\ totalEscrow' = Max0(totalEscrow - jobs[j].escrow)
        /\ providers' = [providers EXCEPT ![p].stake = @ - Slashed(p, slash)]
        /\ UNCHANGED totalStake
  /\ disputes' = [disputes EXCEPT ![d].resolved = TRUE]
  /\ UNCHANGED <<providerJobs, activeProviders, now, history>>

\* resolve_dispute, which anyone may call with any ruling.  The job fails when the
\* user's refund exceeds the provider's payment; the escrow is released again, and
\* the capacity of a job that was running is not given back.
ResolveDispute(d, slash, outcome) ==
  /\ disputes[d] # None /\ ~disputes[d].resolved
  /\ LET j == disputes[d].job
         p == jobs[j].provider
     IN /\ jobs' = [jobs EXCEPT ![j].status = outcome]
        /\ totalEscrow' = Max0(totalEscrow - jobs[j].escrow)
        /\ IF p # None /\ providers[p] # None
           THEN /\ providers' = [providers EXCEPT ![p].stake = @ - Slashed(p, slash)]
                /\ totalStake' = Max0(totalStake - Slashed(p, slash))
           ELSE UNCHANGED <<providers, totalStake>>
  /\ disputes' = [disputes EXCEPT ![d].resolved = TRUE]
  /\ UNCHANGED <<providerJobs, activeProviders, now, history>>

----------------------------------------------------------------------------

ProviderStep(p) ==
  \/ \E capacity \in Capacities[p], stake \in Stakes : RegisterProvider(p, capacity, stake)
  \/ \E capacity \in NewCapacities[p] \cup {None} :
       \/ \E status \in {"Active", "Paused", None}, stake \in Stakes \cup {None} :
            UpdateProvider(p, capacity, status, stake)
       \/ UpdateRejected(p, capacity)
  \/ ProviderExit(p)

JobStep(j) ==
  \/ \E r \in Requests[j] : CreateJob(j, r)
  \/ \E p \in Provider : AcceptJob(j, p) \/ StartJob(j, p)
  \/ SettleJob(j)
  \/ \E who \in User \cup Provider : CancelJob(j, who)

DisputeStep(d) ==
  \/ \E j \in Job, who \in User \cup Provider : OpenDispute(d, j, who)
  \/ \E slash \in Slashes, outcome \in {"Failed", "Completed"} :
       ResolveDispute(d, slash, outcome)

Next ==
  \/ Tick
  \/ \E p \in Provider : ProviderStep(p)
  \/ \E j \in Job : JobStep(j)
  \/ \E d \in DisputeId : DisputeStep(d)

Spec == Init /\ [][Next]_vars

----------------------------------------------------------------------------
(* Properties *)

\* Types of the market's state.
TypeOK ==
  /\ providers \in [Provider -> ProviderInfo \cup {None}]
  /\ jobs \in [Job -> ComputeJob \cup {None}]
  /\ providerJobs \in [Provider -> SUBSET Job]
  /\ disputes \in [DisputeId -> ComputeDispute \cup {None}]
  /\ totalEscrow \in Amount /\ totalStake \in Amount
  /\ activeProviders \in Nat /\ now \in Nat
  /\ reopened \subseteq Job /\ overGiven \subseteq Provider

\* The escrow a job still holds: a job disputed after its settlement holds none.
Escrow(j) ==
  IF \/ InState(j, {"Pending", "Matched", "Running"})
     \/ InState(j, {"Disputed"}) /\ j \notin reopened
  THEN jobs[j].escrow ELSE 0

HeldEscrow == SumFunction([j \in Job |-> Escrow(j)])

\* total_escrow is never more than what the unfinished jobs hold, and is exactly that
\* until a settled job is disputed: every way a job can end releases its escrow,
\* once (jobs.rs:199, 247, disputes.rs:123).
EscrowAccounted ==
  /\ totalEscrow <= HeldEscrow
  /\ reopened = {} => totalEscrow = HeldEscrow

\* "Total value locked in escrow" (types.rs:26): the total covers every job whose payment
\* is still to come.
EscrowCoversJobs == totalEscrow >= HeldEscrow

\* What job j takes of p's capacity, and all that p's jobs take.
Share(j, p) == IF Occupies(j, p) THEN jobs[j].capacity ELSE 0

Taken(p) == SumFunction([j \in Job |-> Share(j, p)])

\* The jobs that a provider accepted and that are not over fit into the capacity it
\* offers, unless it was given capacity back that no job had taken (jobs.rs:110, 193).
NotOverbooked ==
  \A p \in Provider \ overGiven : providers[p] # None =>
    providers[p].available + Taken(p) <= providers[p].capacity

\* A provider that has left the market, and did not come back, has no job to do: none can
\* reach it between its exit's check and the end of its jobs (providers.rs:116).
ExitedHasNoWork ==
  \A p \in Provider : providers[p] # None /\ providers[p].status = "Exited" =>
    \A j \in Job : ~Occupies(j, p)

\* A dispute that waits for a ruling is about a job that is disputed, and no two of them are
\* about the same job: no job is ruled on twice (disputes.rs:28, 76).
OpenDisputesMatchJobs ==
  LET Open(d) == disputes[d] # None /\ ~disputes[d].resolved
  IN \A d \in DisputeId : Open(d) =>
       /\ InState(disputes[d].job, {"Disputed"})
       /\ \A e \in DisputeId : Open(e) /\ disputes[e].job = disputes[d].job => e = d

StakeOf(p) == IF providers[p] = None THEN 0 ELSE providers[p].stake

StakeOnRecord == SumFunction([p \in Provider |-> StakeOf(p)])

\* total_provider_stake never claims more than the stakes on record: slashes and additions
\* move both (providers.rs:98, disputes.rs:90).
StakeAccounted == totalStake <= StakeOnRecord

\* stats.active_providers never counts a provider that is not active, in whatever order
\* providers pause, come back and leave (providers.rs:86, 132).
ActiveNotOvercounted == activeProviders <= Cardinality({p \in Provider : Active(p)})
=============================================================================
