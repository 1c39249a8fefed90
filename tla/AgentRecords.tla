---------------------------- MODULE AgentRecords ----------------------------
(***************************************************************************)
(* What is known of agents: their registration, capabilities and jobs      *)
(* (agent_registry/registry.rs), and their reputation                      *)
(* (reputation/system.rs).  They are two tables: an administrator writes   *)
(* the score that the registry ranks by.                                   *)
(*                                                                         *)
(* ScoreModulus stands for 2^32: the points of a slash or a bonus are an   *)
(* unsigned number that the code reads as a signed one.  Left out: names,  *)
(* prices, revenues and response times, the index by owner, and the set of *)
(* updaters, which no call asks.                                           *)
(***************************************************************************)
EXTENDS Common, Sequences

CONSTANTS
  RecordAgent, NoRecord,                \* agents, and a missing map entry
  RecordCaller, RegistryAdmin,          \* addresses, and the admin of both tables
  Capability, CapabilityLists,          \* lists that owners register
  Scores, Points,                       \* what callers pass
  MaxScore, ScoreModulus,               \* MAX_SCORE
  SuccessDelta, FailureDelta,           \* SUCCESS_DELTA, ...
  DisputeWinDelta, DisputeLossDelta,
  InitialScore, DecayRate,              \* parameters of the system
  InactivityThreshold,
  MaxEvents                             \* bound of the exploration

AgentStatus == {"Active", "Inactive", "Suspended", "Deregistered"}

EventType == {"JobCompleted", "JobFailed", "DisputeWon", "DisputeLost", "SlashPenalty",
              "BonusReward"}

AgentRegistration ==
  [owner : RecordCaller, capabilities : CapabilityLists, score : Nat, totalJobs : Nat,
   successfulJobs : Nat, status : AgentStatus]

ReputationRecord ==
  [score : Nat, total : Nat, successful : Nat, failed : Nat, lastUpdated : Nat,
   history : Seq([type : EventType, delta : Int, height : Nat])]

ASSUME RecordsTyped ==
  /\ NoRecord \notin AgentRegistration \cup ReputationRecord
  /\ RegistryAdmin \in RecordCaller /\ CapabilityLists \subseteq Seq(Capability)
  /\ Scores \cup Points \subseteq Nat
  /\ {MaxScore, ScoreModulus, InitialScore, DecayRate, InactivityThreshold} \subseteq Nat
  /\ {SuccessDelta, FailureDelta, DisputeWinDelta, DisputeLossDelta} \subseteq Int

VARIABLES
  registered,      \* agents
  byCapability,    \* agents_by_capability
  reputations,     \* records of the reputation system
  decays           \* history: how much of each score has decayed

registryVars == <<registered, byCapability>>
reputationVars == <<reputations, decays>>
recordVars == <<registryVars, reputationVars>>

RecordsInit ==
  /\ registered = [a \in RecordAgent |-> NoRecord]
  /\ byCapability = [c \in Capability |-> <<>>]
  /\ reputations = [a \in RecordAgent |-> NoRecord]
  /\ decays = [a \in RecordAgent |-> 0]

----------------------------------------------------------------------------
(* The registry *)

\* The index lists an agent once for each time that it names the capability.
RegisterAgent(a, owner, capabilities) ==
  /\ registered[a] = NoRecord /\ capabilities # <<>>
  /\ registered' = [registered EXCEPT ![a] =
       [owner |-> owner, capabilities |-> capabilities, score |-> 0, totalJobs |-> 0,
        successfulJobs |-> 0, status |-> "Active"]]
  /\ byCapability' = [c \in Capability |->
       byCapability[c] \o
         [i \in 1 .. Cardinality({k \in DOMAIN capabilities : capabilities[k] = c}) |-> a]]

\* Deregister and update_status: an owner sets any status, also that of a suspended agent.
SetAgentStatus(a, status, caller) ==
  /\ registered[a] # NoRecord /\ registered[a].owner = caller
  /\ registered' = [registered EXCEPT ![a].status = status]
  /\ UNCHANGED byCapability

RecordJob(a, success) ==
  /\ registered[a] # NoRecord /\ registered[a].totalJobs < MaxEvents
  /\ registered' = [registered EXCEPT ![a].totalJobs = @ + 1,
                      ![a].successfulJobs = IF success THEN @ + 1 ELSE @]
  /\ UNCHANGED byCapability

UpdateReputation(a, score, caller) ==
  /\ caller = RegistryAdmin /\ registered[a] # NoRecord
  /\ registered' = [registered EXCEPT ![a].score = Min({score, MaxScore})]
  /\ UNCHANGED byCapability

----------------------------------------------------------------------------
(* The reputation *)

\* "as i32": the upper half of the numbers are negative.
Signed(n) == IF 2 * n < ScoreModulus THEN n ELSE n - ScoreModulus

\* The negation of the least one is itself in a release build.
Negated(n) == IF 2 * n = -ScoreModulus THEN n ELSE -n

\* apply_delta
Clamped(score) == Max({0, Min({score, MaxScore})})

\* A new agent counts as last updated at height 0.
RegisterReputation(a) ==
  /\ reputations[a] = NoRecord
  /\ reputations' = [reputations EXCEPT ![a] =
       [score |-> InitialScore, total |-> 0, successful |-> 0, failed |-> 0,
        lastUpdated |-> 0, history |-> <<>>]]
  /\ UNCHANGED decays

\* What every event does to a record.
AddEvent(a, type, delta) ==
  /\ reputations[a] # NoRecord /\ Len(reputations[a].history) < MaxEvents
  /\ LET record == reputations[a] IN
     reputations' = [reputations EXCEPT ![a] =
       [record EXCEPT !.score = Clamped(@ + delta), !.lastUpdated = now,
          !.history = Append(@, [type |-> type, delta |-> delta, height |-> now]),
          !.total = IF type \in {"JobCompleted", "JobFailed"} THEN @ + 1 ELSE @,
          !.successful = IF type = "JobCompleted" THEN @ + 1 ELSE @,
          !.failed = IF type = "JobFailed" THEN @ + 1 ELSE @]]
  /\ UNCHANGED decays

RecordSuccess(a) == AddEvent(a, "JobCompleted", SuccessDelta)
RecordFailure(a) == AddEvent(a, "JobFailed", FailureDelta)

RecordDispute(a, won) ==
  IF won THEN AddEvent(a, "DisputeWon", DisputeWinDelta)
  ELSE AddEvent(a, "DisputeLost", DisputeLossDelta)

ApplySlash(a, points) == AddEvent(a, "SlashPenalty", Negated(Signed(points)))
ApplyBonus(a, points) == AddEvent(a, "BonusReward", Signed(points))

\* An agent decays again at each call, until its next event.
DecayInactive ==
  LET inactive == {a \in RecordAgent :
        reputations[a] # NoRecord /\ now - reputations[a].lastUpdated > InactivityThreshold}
  IN
  /\ reputations' = [a \in RecordAgent |->
       IF a \in inactive THEN [reputations[a] EXCEPT !.score = Monus(@, DecayRate)]
       ELSE reputations[a]]
  /\ decays' = [a \in RecordAgent |->
       IF a \in inactive THEN decays[a] + Min({DecayRate, reputations[a].score}) ELSE decays[a]]

RegistryNext ==
  \E a \in RecordAgent, caller \in RecordCaller :
    \/ \E list \in CapabilityLists : RegisterAgent(a, caller, list)
    \/ \E status \in AgentStatus : SetAgentStatus(a, status, caller)
    \/ \E score \in Scores : UpdateReputation(a, score, caller)
    \/ \E success \in BOOLEAN : RecordJob(a, success)

ReputationNext ==
  \/ \E a \in RecordAgent :
       \/ RegisterReputation(a) \/ RecordSuccess(a) \/ RecordFailure(a)
       \/ \E won \in BOOLEAN : RecordDispute(a, won)
       \/ \E points \in Points : ApplySlash(a, points) \/ ApplyBonus(a, points)
  \/ DecayInactive

----------------------------------------------------------------------------
(* Properties *)

\* Types of both tables.
RecordsTypeOK ==
  /\ registered \in [RecordAgent -> AgentRegistration \cup {NoRecord}]
  /\ byCapability \in [Capability -> Seq(RecordAgent)]
  /\ \A a \in RecordAgent : reputations[a] # NoRecord =>
       /\ {reputations[a].total, reputations[a].successful, reputations[a].failed,
           reputations[a].score, reputations[a].lastUpdated, decays[a]} \subseteq Nat
       /\ \A i \in DOMAIN reputations[a].history : reputations[a].history[i].type \in EventType

\* A score is never out of its range, also when points wrap around, and it is explained: at
\* most all gains above the initial score, at least all losses and decays below it.  The
\* index knows of each agent what its registration says, whatever its status became
\* (reputation/system.rs:186, 214, 302; agent_registry/registry.rs:61).
RecordsExplained ==
  /\ \A a \in RecordAgent : reputations[a] # NoRecord =>
       LET record == reputations[a]
           events(S) == {i \in DOMAIN record.history : record.history[i].type \in S}
           sum(I) == SumOver(LAMBDA i : record.history[i].delta, I)
           gains == sum({i \in DOMAIN record.history : record.history[i].delta > 0})
           losses == sum({i \in DOMAIN record.history : record.history[i].delta < 0})
       IN
       /\ record.score <= Larger(InitialScore, MaxScore)
       /\ record.score <= InitialScore + gains
       /\ record.score >= Min({InitialScore, MaxScore}) + losses - decays[a]
       /\ record.successful = Cardinality(events({"JobCompleted"}))
       /\ record.failed = Cardinality(events({"JobFailed"}))
       /\ record.total = record.successful + record.failed
  /\ \A a \in RecordAgent, c \in Capability :
       Cardinality({i \in DOMAIN byCapability[c] : byCapability[c][i] = a}) =
         IF registered[a] = NoRecord THEN 0
         ELSE Cardinality({i \in DOMAIN registered[a].capabilities :
                             registered[a].capabilities[i] = c})
=============================================================================
