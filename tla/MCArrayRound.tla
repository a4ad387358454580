----------------------------- MODULE MCArrayRound -----------------------------
(***************************************************************************)
(* Model-checking instance of ArrayRound: the pod statuses the cluster     *)
(* may report are one representative of each way CheckPodStatus decides.  *)
(***************************************************************************)
EXTENDS ArrayRound

NoCtr  == <<>>
NoTerm == [reason |-> "none", exitCode |-> 0, startedAt |-> 0, finishedAt |-> 0]

\* A container status: waiting for reason w, running (w = "none"), or
\* terminated with t.
Waiting(w)  == [ready |-> FALSE, waiting |-> w, terminated |-> NoTerm, lastTerminated |-> NoTerm]
RunningCtr  == [ready |-> TRUE, waiting |-> "none", terminated |-> NoTerm, lastTerminated |-> NoTerm]
Ended(r, e) == [ready |-> FALSE, waiting |-> "none",
                terminated |-> [reason |-> r, exitCode |-> e, startedAt |-> 1, finishedAt |-> 2],
                lastTerminated |-> NoTerm]

Pod(phase, conds, ctrs, startedLate) ==
  [phase |-> phase, reason |-> "none", conditions |-> conds,
   initContainerStatuses |-> <<>>, containerStatuses |-> ctrs,
   interruptible |-> FALSE, hasStartTime |-> ctrs # NoCtr, createdPastTimeout |-> FALSE,
   startedPastTimeout |-> startedLate]

NotReady == <<[type |-> "PodScheduled", false |-> FALSE], [type |-> "Ready", false |-> TRUE]>>

\* Pending and not yet scheduled: Queued.
MCScheduling   == Pod("Pending", <<>>, NoCtr, FALSE)
\* Pending, the container being created: Initializing.
MCCreating     == Pod("Pending", NotReady, <<Waiting("ContainerCreating")>>, FALSE)
\* The same past the system-level timeout: a retryable failure.
MCCreatingLate == Pod("Pending", NotReady, <<Waiting("ContainerCreating")>>, TRUE)
\* Pending, the image pull backing off: a retryable failure.
MCPullBackOff  == Pod("Pending", NotReady, <<Waiting("ImagePullBackOff")>>, FALSE)
MCRunning      == Pod("Running", <<>>, <<RunningCtr>>, FALSE)
MCSucceeded    == Pod("Succeeded", <<>>, <<Ended("Completed", 0)>>, FALSE)
MCFailed       == Pod("Failed", <<>>, <<Ended("Error", 1)>>, FALSE)
MCUnknown      == Pod("Unknown", <<>>, <<RunningCtr>>, FALSE)

MCPodStates == {MCScheduling, MCCreating, MCCreatingLate, MCPullBackOff,
                MCRunning, MCSucceeded, MCFailed, MCUnknown}
================================================================================
