---------------------------- MODULE PodTranslation ----------------------------
(***************************************************************************)
(* The pod-status translation of PodStatus checked against the policy of  *)
(* the design (spec.md section 4.4, "Pod-backend status translation").   *)
(* A state is one pod status the cluster may report for a pod built by    *)
(* ToK8sPodSpec from some task template; the translation is a pure        *)
(* function of it, so every state is checked on its own and Next leaves   *)
(* the pod as it is.                                                      *)
(***************************************************************************)
EXTENDS Naturals, Sequences, SubTaskPhase, PodStatus
LOCAL INSTANCE SequencesExt

CONSTANTS
  PodSpace,    \* candidate pod statuses
  Templates,   \* task templates, as ToK8sPodSpec reads them
  Now          \* the time of the read, after every time a status records

ASSUME \A p \in PodSpace : \A c \in ToSet(AllStatuses(p)) :
         c.terminated.finishedAt < Now /\ c.lastTerminated.finishedAt < Now

VARIABLE pod

(***************************************************************************)
(* What the kubelet reports for a pod of spec s: at most the containers   *)
(* the spec declares; container statuses only once it accepted the pod,  *)
(* which sets the start time first.  Under RestartPolicyNever a container *)
(* is never restarted, yet the kubelet records a last termination for one *)
(* it lost (ContainerStatusUnknown, exit code 137) and shows it Waiting   *)
(* again; other policies restart containers after any termination.        *)
(***************************************************************************)
KubeletReports(s, p) ==
  /\ Len(p.containerStatuses) <= s.containers
  /\ Len(p.initContainerStatuses) <= s.initContainers
  /\ AllStatuses(p) # <<>> => p.hasStartTime
  /\ s.restartPolicy = "Never" =>
       \A c \in ToSet(AllStatuses(p)) :
          \/ c.lastTerminated = NoState
          \/ /\ c.lastTerminated.reason = "ContainerStatusUnknown"
             /\ c.lastTerminated.exitCode = SIGKILL
             /\ c.terminated = NoState /\ c.waiting # None

Init == pod \in {p \in PodSpace :
                   \E t \in Templates : /\ ToK8sPodSpec(t) # NoSpec
                                        /\ KubeletReports(ToK8sPodSpec(t), p)}
Next == UNCHANGED pod
Spec == Init /\ [][Next]_pod

-----------------------------------------------------------------------------
(***************************************************************************)
(* The policy as the design states it, written declaratively: which       *)
(* conditions and containers are present, not the order the code visits   *)
(* them in.                                                                *)
(***************************************************************************)
HasCondition(p, type) == \E i \in DOMAIN p.conditions :
                           p.conditions[i].type = type /\ p.conditions[i].false

\* "PodReady=False with a waiting container": the first unready waiting one.
SpecWaitingPhase(p, reason) ==
  CASE reason \in {"ErrImagePull", "ContainerCreating", "PodInitializing"} ->
         IF TimeoutSet /\ p.startedPastTimeout THEN PhaseRetryableFailure
                                               ELSE PhaseInitializing
    []  reason = "CreateContainerError" -> PhasePermanentFailure
    []  OTHER                           -> PhaseRetryableFailure

SpecPendingPhase(p) ==
  LET waiting == SelectSeq(p.containerStatuses, WaitingContainer)
  IN  CASE HasCondition(p, "PodScheduled") ->
             IF p.interruptible /\ TimeoutSet /\ p.createdPastTimeout
             THEN PhaseRetryableFailure ELSE PhaseQueued
        []  HasCondition(p, "Ready") /\ waiting # <<>> ->
             SpecWaitingPhase(p, Head(waiting).waiting)
        []  OTHER -> PhaseQueued

\* "override apparent success with Retryable failure" on an OOM marker.
ShowsOOM(p) == \E c \in ToSet(AllStatuses(p)) :
                 c.terminated # NoState /\ c.terminated.reason = OOMKilled

SpecPhase(p) ==
  CASE p.phase = "Succeeded" -> IF ShowsOOM(p) THEN PhaseRetryableFailure
                                               ELSE PhaseSuccess
    []  p.phase = "Failed"    -> PhaseRetryableFailure
    []  OTHER                 -> SpecPendingPhase(p)

\* "tag the code OOM-marker if any container shows it, or an interrupted
\* marker if a container's exit code equals the SIGKILL numeric code".
SpecFailureCode(p) ==
  CASE ShowsOOM(p) -> OOMKilled
    []  \E c \in ToSet(AllStatuses(p)) :
           c.terminated # NoState /\ c.terminated.exitCode = SIGKILL -> Interrupted
    []  OTHER -> IF p.reason # None THEN p.reason ELSE "UnknownError"

-----------------------------------------------------------------------------
(* For every pod that is Pending, Succeeded or Failed (the phases the     *)
(* design's policy covers), CheckPodStatus with DemystifyPending,         *)
(* DemystifySuccess and the Failed branch yields the phase the policy     *)
(* prescribes: the order in which DemystifyPending visits conditions and  *)
(* containers, its early returns, and the timeout checks agree with it.   *)
TranslationMatchesPolicy ==
  pod.phase \in {"Pending", "Succeeded", "Failed"} =>
    CheckPodStatus(pod).phase = SpecPhase(pod)

(* No status a subtask's pod can report makes CheckPodStatus dereference *)
(* nil: not the start time of a Pending pod with a waiting container      *)
(* (pod_helper.go:174), nor the current terminated state of a container  *)
(* of a Failed pod that has only a last termination (pod_helper.go:257), *)
(* as a container the kubelet lost and shows Waiting again has.           *)
NoPanic == CheckPodStatus(pod).code # Panic

(* A failed pod is tagged OOMKilled when any container was OOM-killed,    *)
(* else Interrupted when any container was killed by SIGKILL              *)
(* (ConvertPodFailureToError), whenever the conversion returns at all     *)
(* (NoPanic is about the pods on which it does not).                      *)
FailureCodeMatchesPolicy ==
  pod.phase = "Failed" /\ CheckPodStatus(pod).code # Panic =>
    CheckPodStatus(pod).code = SpecFailureCode(pod)
================================================================================
