------------------------------ MODULE PodStatus ------------------------------
(***************************************************************************)
(* Translation of a Kubernetes pod status into the phase of an array      *)
(* subtask: the part of CheckPodStatus (plugins/array/k8s/monitor.go) that *)
(* runs once the pod was read, and the helpers it calls in                *)
(* pluginmachinery/flytek8s/pod_helper.go.                                *)
(*                                                                         *)
(* A pod status keeps what the translation tests: the pod phase and       *)
(* reason, the conditions in order (type, and whether the status is       *)
(* False), the init-container and container statuses in order, the        *)
(* interruptible label, whether the status has a start time, whether the  *)
(* system-level timeout has elapsed since the pod was created and since  *)
(* it started, and the start and finish times of terminated containers   *)
(* (small integers, 0 for unset).  Messages and log links, which only end *)
(* up in text, are left out.                                              *)
(***************************************************************************)
EXTENDS Naturals, Sequences, SubTaskPhase
LOCAL INSTANCE SequencesExt

CONSTANT TimeoutSet   \* config MaxSystemLevelTimeout > 0

None    == "none"
NoState == [reason |-> "none", exitCode |-> 0,   \* a nil *ContainerStateTerminated
            startedAt |-> 0, finishedAt |-> 0]
Panic == "panic"      \* a nil dereference: the call panics

PodPhases         == {"Pending", "Running", "Succeeded", "Failed", "Unknown"}
ConditionTypes    == {"PodScheduled", "Ready", "Initialized"}
WaitingReasons    == {"ErrImagePull", "ContainerCreating", "PodInitializing",
                      "CreateContainerError", "ImagePullBackOff", "CrashLoopBackOff"}
TerminatedReasons == {"Completed", "Error", "OOMKilled", "ContainerStatusUnknown"}
ExitCodes         == {0, 1, 137}
PodReasons        == {None, "Evicted"}

OOMKilled   == "OOMKilled"
Interrupted == "Interrupted"
SIGKILL     == 137

\* v1.ContainerStateTerminated, and a container status: its current state
\* (waiting or terminated; neither means running) and its last termination.
Terminated      == [reason : TerminatedReasons, exitCode : ExitCodes,
                    startedAt : Nat, finishedAt : Nat]
ContainerStatus == [ready : BOOLEAN,
                    waiting : WaitingReasons \cup {None},
                    terminated : Terminated \cup {NoState},
                    lastTerminated : Terminated \cup {NoState}]
Condition       == [type : ConditionTypes, false : BOOLEAN]

\* The PhaseInfo a translation returns: the phase, and the error code that
\* ConvertPodFailureToError derives (None where no code is derived).
Info(p) == [phase |-> p, code |-> None]

\* A call that dereferenced nil: the round panics, and no phase is returned.
PanicInfo == [phase |-> PhaseUndefined, code |-> Panic]

\* Container statuses in the order the failure and success checks visit them
\* (ephemeral containers are never added to array pods).
AllStatuses(pod) == pod.initContainerStatuses \o pod.containerStatuses

(***************************************************************************)
(* ToK8sPodSpec, pod_helper.go:25-65: the pod spec of a subtask.  A task  *)
(* template that cannot be read, has no container, or whose container or *)
(* co-pilot conversion fails gives no spec.  Otherwise the spec holds the *)
(* one container of the template and RestartPolicyNever; AddCoPilotToPod *)
(* (not under src/) may add a sidecar and an init container.  Tolerations,*)
(* node selectors and the service account only steer scheduling.         *)
(***************************************************************************)
\* The nil *PodSpec returned with an error.
NoSpec == [restartPolicy |-> None, containers |-> 0, initContainers |-> 0]

\* Fault variant: the pod is built with RestartPolicyOnFailure.
ToK8sPodSpecOnFailure(t) ==
  IF t.readErr \/ ~t.hasContainer \/ t.convertErr THEN NoSpec
  ELSE [restartPolicy  |-> "OnFailure",
        containers     |-> IF t.coPilot THEN 2 ELSE 1,
        initContainers |-> IF t.coPilot THEN 1 ELSE 0]

ToK8sPodSpec(t) ==
  IF t.readErr \/ ~t.hasContainer \/ t.convertErr THEN NoSpec
  ELSE [restartPolicy  |-> "Never",
        containers     |-> IF t.coPilot THEN 2 ELSE 1,
        initContainers |-> IF t.coPilot THEN 1 ELSE 0]

(***************************************************************************)
(* DemystifyPending, pod_helper.go:97-224.  The conditions are visited in *)
(* order and the first one that decides returns.  A Ready=False condition *)
(* decides only when some unready container is waiting; the first such   *)
(* container decides.  The "Unschedulable" case compares a condition type *)
(* with a reason and never matches a real pod.                            *)
(***************************************************************************)
WaitingContainer(c) == ~c.ready /\ c.waiting # None

\* Fault variant: the system-level timeout is not checked.
ReadyFalseNoTimeout(pod, c) ==
  CASE c.waiting \in {"ErrImagePull", "ContainerCreating", "PodInitializing"} ->
         Info(PhaseInitializing)
    []  c.waiting = "CreateContainerError" -> Info(PhasePermanentFailure)
    []  OTHER                              -> Info(PhaseRetryableFailure)

\* time.Since(status.StartTime.Time) reads through a nil StartTime.
ReadyFalse(pod, c) ==
  CASE c.waiting \in {"ErrImagePull", "ContainerCreating", "PodInitializing"} ->
         CASE TimeoutSet /\ ~pod.hasStartTime     -> PanicInfo
           [] TimeoutSet /\ pod.startedPastTimeout -> Info(PhaseRetryableFailure)
           [] OTHER                                -> Info(PhaseInitializing)
    []  c.waiting = "CreateContainerError" -> Info(PhasePermanentFailure)
    []  c.waiting = "ImagePullBackOff"     -> Info(PhaseRetryableFailure)
    []  OTHER                              -> Info(PhaseRetryableFailure)

RECURSIVE PendingFrom(_, _)
PendingFrom(pod, i) ==
  IF i > Len(pod.conditions) THEN Info(PhaseQueued)
  ELSE LET c       == pod.conditions[i]
           waiting == SelectSeq(pod.containerStatuses, WaitingContainer)
       IN CASE c.type = "PodScheduled" /\ c.false ->
                 IF pod.interruptible /\ TimeoutSet /\ pod.createdPastTimeout
                 THEN Info(PhaseRetryableFailure)
                 ELSE Info(PhaseQueued)
            []  c.type = "Unschedulable" -> Info(PhaseQueued)
            []  c.type = "Ready" /\ c.false /\ waiting # <<>> ->
                 ReadyFalse(pod, Head(waiting))
            []  OTHER -> PendingFrom(pod, i + 1)

DemystifyPending(pod) == PendingFrom(pod, 1)

\* DemystifySuccess, pod_helper.go:226-235.
DemystifySuccess(pod) ==
  IF \E c \in ToSet(AllStatuses(pod)) :
        c.terminated # NoState /\ c.terminated.reason = OOMKilled
  THEN [phase |-> PhaseRetryableFailure, code |-> OOMKilled]
  ELSE Info(PhaseSuccess)

(***************************************************************************)
(* ConvertPodFailureToError, pod_helper.go:237-277: the code starts as    *)
(* the pod reason (or UnknownError) and each container with a terminated  *)
(* state, last termination first, may overwrite it: OOMKilled when the    *)
(* container's CURRENT terminated reason says so, else Interrupted when   *)
(* the chosen state's exit code is SIGKILL.  Reading the current reason   *)
(* of a container whose current state is not terminated is a nil          *)
(* dereference.                                                           *)
(***************************************************************************)
FailureCodeStep(code, c) ==
  LET st == IF c.lastTerminated # NoState THEN c.lastTerminated ELSE c.terminated
  IN CASE code = Panic \/ st = NoState   -> code
       []  c.terminated = NoState          -> Panic
       []  c.terminated.reason = OOMKilled -> OOMKilled
       []  st.exitCode = SIGKILL         -> Interrupted
       []  OTHER                         -> code

ConvertPodFailureToError(pod) ==
  FoldLeft(FailureCodeStep,
           IF pod.reason # None THEN pod.reason ELSE "UnknownError",
           AllStatuses(pod))

(***************************************************************************)
(* GetLastTransitionOccurredAt, pod_helper.go:279-299: over the container *)
(* statuses, then the init-container statuses, a last termination whose *)
(* finish is later than the time kept so far replaces it, by its START.   *)
(* The kubelet records only terminated last states, so the branch for a   *)
(* running last state (283-286) never applies.  The zero time left when   *)
(* nothing replaced it becomes the time of the read, now.                 *)
(***************************************************************************)
LastTransitionStep(t, c) ==
  IF c.lastTerminated # NoState /\ c.lastTerminated.finishedAt > t
  THEN c.lastTerminated.startedAt ELSE t

GetLastTransitionOccurredAt(pod, now) ==
  LET t == FoldLeft(LastTransitionStep, 0,
                    pod.containerStatuses \o pod.initContainerStatuses)
  IN  IF t = 0 THEN now ELSE t

(***************************************************************************)
(* CheckPodStatus, monitor.go:186-207, once the pod was read: dispatch on *)
(* the pod phase.  A Running pod (and any phase not listed) is Running.  *)
(***************************************************************************)
CheckPodStatus(pod) ==
  CASE pod.phase = "Succeeded" -> DemystifySuccess(pod)
    []  pod.phase = "Failed"    -> [phase |-> PhaseRetryableFailure,
                                    code  |-> ConvertPodFailureToError(pod)]
    []  pod.phase = "Pending"   -> DemystifyPending(pod)
    []  pod.phase = "Unknown"   -> Info(PhaseUndefined)
    []  OTHER                   -> Info(PhaseRunning)

\* A pod the cluster still runs or may still run.
IsLive(pod) == pod.phase \in {"Pending", "Running", "Unknown"}
================================================================================
