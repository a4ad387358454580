------------------------------ MODULE ArrayRound ------------------------------
(***************************************************************************)
(* The reconciliation loop of a k8s array task:                           *)
(* LaunchAndCheckSubTasksState (plugins/array/k8s/monitor.go) called      *)
(* round after round by the host while the array is in                    *)
(* CheckingSubTaskExecutions, together with the actors it shares the      *)
(* world with: the cluster, which runs (and may delete) the subtask pods, *)
(* and the admission-control resource manager, whose tokens other         *)
(* executions also take.                                                  *)
(*                                                                         *)
(* One round is one call.  Its loop over the subtasks is one step per     *)
(* index, because each index calls the resource manager and the cluster, *)
(* whose state other actors change between those calls.  A round ends    *)
(* either by returning a new state, which the host persists, or by        *)
(* returning an error (or the process restarting), after which the host   *)
(* keeps the state persisted by the last good round; what the round did   *)
(* to the cluster and the resource manager stays done.                    *)
(*                                                                         *)
(* Subtask index i of the model is childIdx i-1 of the code.             *)
(***************************************************************************)
EXTENDS Integers, FiniteSets, Sequences, SubTaskPhase, ArraySummary
LOCAL INSTANCE Functions

CONSTANTS
  N,                    \* ExecutionArraySize
  OriginalArraySize,    \* size before catalog cache hits shrank it
  OriginalMinSuccesses,
  MaxArrayJobSizes,     \* values config.MaxArrayJobSize may have
  ResourceCap,          \* tokens the resource manager grants at once
  MaxOtherGrants,       \* tokens other executions take over a behaviour
  PodStates,            \* pod statuses the cluster may report
  InitialPod,           \* the status of a pod just created
  MaxDeletions,         \* pods deleted from outside over a behaviour
  TimeoutSet            \* config MaxSystemLevelTimeout > 0

Pods == INSTANCE PodStatus

ASSUME N \in Nat \ {0} /\ N <= OriginalArraySize
ASSUME ResourceCap \in Nat \ {0}
ASSUME InitialPod \in PodStates /\ InitialPod.phase = "Pending"

VARIABLES
  maxArrayJobSize,  \* config.MaxArrayJobSize of the running process
  state,            \* the persisted arrayCore.State
  pc,               \* "idle" between rounds, "loop" inside one
  idx,              \* the subtask the loop is at
  newDetailed,      \* newArrayStatus.Detailed of the running round
  newSummary,       \* newArrayStatus.Summary of the running round
  pods,             \* the pod of each subtask, or Absent
  tokens,           \* subtasks holding a resource-manager token
  others,           \* tokens held by other executions
  otherGrants,      \* tokens granted to other executions so far
  deletions         \* pods deleted from outside so far

vars == <<maxArrayJobSize, state, pc, idx, newDetailed, newSummary,
          pods, tokens, others, otherGrants, deletions>>
round == <<pc, idx, newDetailed, newSummary>>
world == <<pods, tokens, others, otherGrants, deletions>>

Idx    == 1..N
Absent == [phase |-> "Absent"]   \* no pod: the NotFound of the client

ArrayPhases == {"CheckingSubTaskExecutions", "WriteToDiscovery",
                "WriteToDiscoveryThenFail", "PermanentFailure"}

\* The minimum successes once cache hits removed subtasks (monitor.go:130).
MinSuccesses == OriginalMinSuccesses - OriginalArraySize + N

(***************************************************************************)
(* The phase recorded for subtask i by the last persisted round.  Before  *)
(* the first round Detailed is empty and every subtask is Undefined       *)
(* (monitor.go:57-59 puts a fresh status of size N in its place).         *)
(***************************************************************************)
Existing(i) == IF Len(state.detailed) = 0 THEN PhaseUndefined
               ELSE state.detailed[i]

(***************************************************************************)
(* SummaryToPhase (array/core, spec section 4.5): the array phase from    *)
(* the summary alone.  Success once enough subtasks succeeded and none is *)
(* still running; failure once the running and succeeded ones together    *)
(* cannot reach the minimum, written out first if any succeeded.         *)
(***************************************************************************)
SummaryToPhase(minSuccesses, summary) ==
  LET successes == Count(summary, PhaseSuccess)
      failures  == Count(summary, PhaseRetryableFailure)
                     + Count(summary, PhasePermanentFailure)
      running   == Total(summary) - successes - failures
  IN CASE successes >= minSuccesses /\ running = 0 -> "WriteToDiscovery"
       []  running + successes < minSuccesses ->
             IF successes > 0 THEN "WriteToDiscoveryThenFail" ELSE "PermanentFailure"
       []  OTHER -> "CheckingSubTaskExecutions"

\* newPhaseVersion += uint32(phase) * uint32(count), monitor.go:137-142.
\* The uint32 sum cannot wrap below 2^32 / 7 subtasks, far above any
\* array the model (or a MaxArrayJobSize) allows, so no modulus is taken.
PhaseVersion(summary) ==
  SumFunction([p \in DOMAIN summary |-> p * summary[p]])

(***************************************************************************)
(* AllocateToken of the resource manager (spec section 6): granted to a  *)
(* subtask that already holds its token, or when one is free.            *)
(***************************************************************************)
Grantable(i) == i \in tokens \/ Cardinality(tokens) + others < ResourceCap

\* Task.Monitor's read of the pod: CheckPodStatus (monitor.go:162-179),
\* a pod that is gone being a retryable failure.
ReadPod(pod) == IF pod = Absent THEN Pods!Info(PhaseRetryableFailure)
                ELSE Pods!CheckPodStatus(pod)

-----------------------------------------------------------------------------
Init ==
  /\ maxArrayJobSize \in MaxArrayJobSizes
  /\ state = [phase |-> "CheckingSubTaskExecutions", phaseVersion |-> 0,
              detailed |-> <<>>, summary |-> EmptySummary]
  /\ pc = "idle"
  /\ idx = 1
  /\ newDetailed = <<>>
  /\ newSummary = EmptySummary
  /\ pods = [i \in Idx |-> Absent]
  /\ tokens = {}
  /\ others = 0
  /\ otherGrants = 0
  /\ deletions = 0

\* monitor.go:40-45: an array larger than allowed fails with no cluster call.
TooLarge ==
  /\ pc = "idle"
  /\ state.phase = "CheckingSubTaskExecutions"
  /\ N > maxArrayJobSize
  /\ state' = [state EXCEPT !.phase = "PermanentFailure", !.phaseVersion = 0]
  /\ UNCHANGED <<maxArrayJobSize, round, world>>

\* monitor.go:47-59: a round starts with an empty summary and Detailed.
BeginRound ==
  /\ pc = "idle"
  /\ state.phase = "CheckingSubTaskExecutions"
  /\ N <= maxArrayJobSize
  /\ pc' = "loop"
  /\ idx' = 1
  /\ newDetailed' = [i \in Idx |-> PhaseUndefined]
  /\ newSummary' = EmptySummary
  /\ UNCHANGED <<maxArrayJobSize, state, world>>

InLoop == pc = "loop" /\ idx <= N

Record(p) ==
  /\ newDetailed' = [newDetailed EXCEPT ![idx] = p]
  /\ newSummary' = Inc(newSummary, p)
  /\ idx' = idx + 1

\* The round returns an error: nothing of it is persisted.
Abort == pc' = "idle" /\ UNCHANGED <<idx, newDetailed, newSummary>>

\* Fault variant: the terminal subtask is copied into Detailed only, not
\* counted in the summary.
ReleaseTerminalNoInc ==
  /\ InLoop
  /\ IsTerminal(Existing(idx))
  /\ tokens' = tokens \ {idx}
  /\ newDetailed' = [newDetailed EXCEPT ![idx] = Existing(idx)]
  /\ idx' = idx + 1
  /\ UNCHANGED <<maxArrayJobSize, state, pc, newSummary, pods, others, otherGrants, deletions>>

\* Fault variant: the terminal subtask is copied without releasing its token.
ReleaseTerminalKeepsToken ==
  /\ InLoop
  /\ IsTerminal(Existing(idx))
  /\ Record(Existing(idx))
  /\ UNCHANGED <<maxArrayJobSize, state, pc, world>>

\* monitor.go:65-80: a subtask already terminal releases its token and is
\* copied into the new status without a cluster call.
ReleaseTerminal ==
  /\ InLoop
  /\ IsTerminal(Existing(idx))
  /\ tokens' = tokens \ {idx}
  /\ Record(Existing(idx))
  /\ UNCHANGED <<maxArrayJobSize, state, pc, pods, others, otherGrants, deletions>>

\* monitor.go:70-74: releasing the token fails.
DeallocateFailed ==
  /\ InLoop
  /\ IsTerminal(Existing(idx))
  /\ Abort
  /\ UNCHANGED <<maxArrayJobSize, state, world>>

\* Task.Launch, handed NewArrayStatus (monitor.go:85), records a subtask
\* denied a token as WaitingForResources (spec sections 3, 4.1 and 8: the
\* summary counts every subtask).
DeniedPhase == PhaseWaitingForResources

\* monitor.go:91-107: the resource manager denies a token; the loop goes on
\* to the next subtask, which is retried next round.
LaunchWaiting ==
  /\ InLoop
  /\ ~IsTerminal(Existing(idx))
  /\ ~Grantable(idx)
  /\ Record(DeniedPhase)
  /\ UNCHANGED <<maxArrayJobSize, state, pc, world>>

\* monitor.go:94-103: the token is granted but creating the pod fails.
LaunchFailed ==
  /\ InLoop
  /\ ~IsTerminal(Existing(idx))
  /\ Grantable(idx)
  /\ pods[idx] = Absent
  /\ tokens' = tokens \cup {idx}
  /\ Abort
  /\ UNCHANGED <<maxArrayJobSize, state, pods, others, otherGrants, deletions>>

\* Launch: the token is granted and the pod created unless it exists.
Launched == [pods EXCEPT ![idx] = IF @ = Absent THEN InitialPod ELSE @]

\* Fault variant: terminal subtasks are monitored again as well.
MonitorSubTaskAll ==
  /\ InLoop
  /\ Grantable(idx)
  /\ ReadPod(Launched[idx]).code # Pods!Panic
  /\ tokens' = tokens \cup {idx}
  /\ pods' = Launched
  /\ Record(ReadPod(Launched[idx]).phase)
  /\ UNCHANGED <<maxArrayJobSize, state, pc, others, otherGrants, deletions>>

\* Fault variant: the token is taken under the 0-based childIdx.
MonitorSubTaskZeroBased ==
  /\ InLoop
  /\ ~IsTerminal(Existing(idx))
  /\ Grantable(idx)
  /\ ReadPod(Launched[idx]).code # Pods!Panic
  /\ tokens' = tokens \cup {idx - 1}
  /\ pods' = Launched
  /\ Record(ReadPod(Launched[idx]).phase)
  /\ UNCHANGED <<maxArrayJobSize, state, pc, others, otherGrants, deletions>>

\* Fault variant: the phase persisted last round is recorded, not the one read.
MonitorSubTaskStale ==
  /\ InLoop
  /\ ~IsTerminal(Existing(idx))
  /\ Grantable(idx)
  /\ ReadPod(Launched[idx]).code # Pods!Panic
  /\ tokens' = tokens \cup {idx}
  /\ pods' = Launched
  /\ Record(Existing(idx))
  /\ UNCHANGED <<maxArrayJobSize, state, pc, others, otherGrants, deletions>>

\* monitor.go:94-117: Launch then Monitor, which records the phase read.
MonitorSubTask ==
  /\ InLoop
  /\ ~IsTerminal(Existing(idx))
  /\ Grantable(idx)
  /\ ReadPod(Launched[idx]).code # Pods!Panic
  /\ tokens' = tokens \cup {idx}
  /\ pods' = Launched
  /\ Record(ReadPod(Launched[idx]).phase)
  /\ UNCHANGED <<maxArrayJobSize, state, pc, others, otherGrants, deletions>>

\* monitor.go:94-117 with the pod deleted between Launch's Create and the
\* Get of CheckPodStatus: NotFound (166-176) records a retryable failure.
MonitorPodGone ==
  /\ InLoop
  /\ ~IsTerminal(Existing(idx))
  /\ Grantable(idx)
  /\ deletions < MaxDeletions
  /\ tokens' = tokens \cup {idx}
  /\ pods' = [pods EXCEPT ![idx] = Absent]
  /\ deletions' = deletions + 1
  /\ Record(ReadPod(Absent).phase)
  /\ UNCHANGED <<maxArrayJobSize, state, pc, others, otherGrants>>

\* Fault variant: the error path of Monitor gives the token back.
MonitorFailedReleases ==
  /\ InLoop
  /\ ~IsTerminal(Existing(idx))
  /\ Grantable(idx)
  /\ tokens' = tokens \ {idx}
  /\ pods' = Launched
  /\ Abort
  /\ UNCHANGED <<maxArrayJobSize, state, others, otherGrants, deletions>>

\* The errors CheckPodStatus returns for a pod: a Get that fails otherwise
\* than with NotFound (monitor.go:178), and, for a pod neither Pending nor
\* Unknown, log links that cannot be built (monitor.go:186-191).
ReadErrors(pod) ==
  {"get"} \cup IF pod # Absent /\ pod.phase \notin {"Pending", "Unknown"}
                THEN {"logs"} ELSE {}

\* monitor.go:112-116: Launch succeeds, then reading the pod fails.
MonitorFailed ==
  /\ InLoop
  /\ ~IsTerminal(Existing(idx))
  /\ Grantable(idx)
  /\ ReadErrors(Launched[idx]) # {}
  /\ tokens' = tokens \cup {idx}
  /\ pods' = Launched
  /\ Abort
  /\ UNCHANGED <<maxArrayJobSize, state, others, otherGrants, deletions>>

\* monitor.go:120-149: the new status and the phase it implies are returned.
FinishRound ==
  /\ pc = "loop"
  /\ idx > N
  /\ LET phase == SummaryToPhase(MinSuccesses, newSummary)
     IN  state' = [phase        |-> phase,
                   phaseVersion |-> IF phase = "CheckingSubTaskExecutions"
                                    THEN PhaseVersion(newSummary) ELSE 0,
                   detailed     |-> newDetailed,
                   summary      |-> newSummary]
  /\ pc' = "idle"
  /\ UNCHANGED <<maxArrayJobSize, idx, newDetailed, newSummary, world>>

\* monitor.go:123-128: reading the task template fails after the loop.
TemplateReadFailed ==
  /\ pc = "loop"
  /\ idx > N
  /\ Abort
  /\ UNCHANGED <<maxArrayJobSize, state, world>>

\* The process restarts in the middle of a round.
Restart ==
  /\ pc = "loop"
  /\ Abort
  /\ UNCHANGED <<maxArrayJobSize, state, world>>

-----------------------------------------------------------------------------
(* The cluster and the other executions.                                  *)

\* The kubelet moves a live pod on; a started pod never returns to Pending.
PodChanges(i) ==
  /\ Pods!IsLive(pods[i])
  /\ \E q \in PodStates \ {pods[i]} :
       /\ pods[i].phase # "Pending" => q.phase # "Pending"
       /\ pods' = [pods EXCEPT ![i] = q]
  /\ UNCHANGED <<maxArrayJobSize, state, round, tokens, others, otherGrants, deletions>>

\* Someone deletes the pod, or it is garbage collected.
PodDeleted(i) ==
  /\ pods[i] # Absent
  /\ deletions < MaxDeletions
  /\ pods' = [pods EXCEPT ![i] = Absent]
  /\ deletions' = deletions + 1
  /\ UNCHANGED <<maxArrayJobSize, state, round, tokens, others, otherGrants>>

OtherAllocate ==
  /\ otherGrants < MaxOtherGrants
  /\ Cardinality(tokens) + others < ResourceCap
  /\ others' = others + 1
  /\ otherGrants' = otherGrants + 1
  /\ UNCHANGED <<maxArrayJobSize, state, round, pods, tokens, deletions>>

OtherRelease ==
  /\ others > 0
  /\ others' = others - 1
  /\ UNCHANGED <<maxArrayJobSize, state, round, pods, tokens, otherGrants, deletions>>

\* The host stops calling once the array left CheckingSubTaskExecutions.
Finished ==
  /\ pc = "idle"
  /\ state.phase # "CheckingSubTaskExecutions"
  /\ UNCHANGED vars

Next ==
  \/ TooLarge \/ BeginRound
  \/ ReleaseTerminal \/ DeallocateFailed
  \/ LaunchWaiting \/ LaunchFailed \/ MonitorSubTask \/ MonitorPodGone
  \/ MonitorFailed
  \/ FinishRound \/ TemplateReadFailed \/ Restart
  \/ \E i \in Idx : PodChanges(i) \/ PodDeleted(i)
  \/ OtherAllocate \/ OtherRelease
  \/ Finished

(***************************************************************************)
(* Fairness.  The host calls again after every round, and a round runs    *)
(* its loop to the end: weak fairness.  Errors and restarts are transient:*)
(* a step that keeps becoming possible is taken (strong fairness on the   *)
(* steps that succeed).  This assumes every error of ReadErrors passes;   *)
(* log links that fail for a finished pod on every read would abort every *)
(* round.  Subtask workloads finish, and other executions give their      *)
(* tokens back.                                                           *)
(***************************************************************************)
PodFinishes(i) == PodChanges(i) /\ ~Pods!IsLive(pods'[i])

Fairness ==
  /\ WF_vars(TooLarge)
  /\ WF_vars(BeginRound) /\ SF_vars(FinishRound)
  /\ \A i \in Idx : SF_vars(idx = i /\ ReleaseTerminal)
  /\ \A i \in Idx : SF_vars(idx = i /\ MonitorSubTask)
  /\ WF_vars(LaunchWaiting)
  /\ \A i \in Idx : WF_vars(PodFinishes(i))
  /\ WF_vars(OtherRelease)

Spec == Init /\ [][Next]_vars /\ Fairness

-----------------------------------------------------------------------------
(* Properties.                                                            *)

TypeOK ==
  /\ maxArrayJobSize \in MaxArrayJobSizes
  /\ state.phase \in ArrayPhases
  /\ state.phaseVersion \in Nat
  /\ state.detailed \in {<<>>} \cup [Idx -> Phase]
  /\ DOMAIN state.summary \subseteq Phase
  /\ pc \in {"idle", "loop"}
  /\ idx \in 1..(N + 1)
  /\ pods \in [Idx -> PodStates \cup {Absent}]
  /\ tokens \subseteq Idx
  /\ others \in 0..ResourceCap
  /\ otherGrants \in 0..MaxOtherGrants
  /\ deletions \in 0..MaxDeletions

RecordedCount(p) == Cardinality({i \in Idx : state.detailed[i] = p})

(* The persisted summary is the count of the persisted Detailed, phase by *)
(* phase: every subtask the last round went through is counted under its *)
(* phase, whether it was copied as terminal (monitor.go:75-76), denied a *)
(* token or read from its pod, so the counts add up to the array size.   *)
SummaryConsistent ==
  Len(state.detailed) = N =>
    /\ \A p \in Phase : Count(state.summary, p) = RecordedCount(p)
    /\ \A p \in DOMAIN state.summary : state.summary[p] > 0

(* Admission control covers every pod the array runs: a live pod of a     *)
(* subtask not yet recorded terminal holds its subtask's token, across    *)
(* failed launches, failed reads and restarts.                            *)
LivePodHoldsToken ==
  \A i \in Idx :
    Pods!IsLive(pods[i]) /\ ~IsTerminal(Existing(i))
      => i \in tokens

(***************************************************************************)
(* The rounds implement the array job of module ArrayJob: the persisted   *)
(* phase is the job's phase and the persisted Detailed its recorded       *)
(* phases, every subtask Undefined before the first round persisted.      *)
(***************************************************************************)
Job == INSTANCE ArrayJob
         WITH Recordable <- Phase,
              phase    <- state.phase,
              detailed <- IF Len(state.detailed) = 0 THEN [i \in Idx |-> PhaseUndefined]
                          ELSE state.detailed

(* Every persisted round is one step of the array job: a subtask recorded *)
(* terminal keeps its phase even after its pod is deleted (monitor.go:65- *)
(* 80), the outcome is decided once and then never changes, success only  *)
(* with enough successes and nothing counted as running, failure only     *)
(* with too few successes, across aborted rounds, restarts, token denials *)
(* and a changing cluster.                                                *)
ImplementsArrayJobSafety == Job!SafetySpec

(***************************************************************************)
(* Under the fairness of the host's polling, every array is eventually    *)
(* decided (monitor.go:130-149), across denied tokens, aborted rounds and  *)
(* restarts.  This is the fairness of ArrayJob's Spec: a job that checks   *)
(* can always decide (record every open subtask terminal), so weak        *)
(* fairness on Decide or Reject says exactly that the job leaves          *)
(* CheckingSubTaskExecutions.  With ImplementsArrayJobSafety it gives     *)
(* Job!Spec.                                                               *)
(***************************************************************************)
ArrayDecided == <>(state.phase # "CheckingSubTaskExecutions")

(* A token held by a subtask that the persisted state records terminal,  *)
(* while the array is still checking, is eventually given back by a later *)
(* round (monitor.go:65-80), whatever failed releases, aborted rounds and *)
(* restarts come in between.                                              *)
TerminalTokenReleased ==
  \A i \in Idx :
    (/\ state.phase = "CheckingSubTaskExecutions"
     /\ Len(state.detailed) = N /\ IsTerminal(state.detailed[i])
     /\ i \in tokens)
      ~> i \notin tokens

(* Admission control bounds the pods that run: the live pods of this      *)
(* array and the tokens of other executions never exceed the capacity    *)
(* (spec section 5).                                                      *)
LivePodsWithinCapacity ==
  Cardinality({i \in Idx : Pods!IsLive(pods[i])}) + others
    <= ResourceCap
================================================================================
