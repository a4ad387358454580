--------------------------- MODULE MCPodTranslation ---------------------------
(***************************************************************************)
(* Candidate pod statuses, over-approximating what the cluster reports:   *)
(* with and without a start time, and with containers that were restarted *)
(* after a termination or lost.  PodTranslation keeps those the kubelet reports  *)
(* for a spec ToK8sPodSpec builds.  Terminated containers ran from time 1 *)
(* to 2, or 2 to 3; the read happens at time 4.                           *)
(***************************************************************************)
EXTENDS PodTranslation

Ctr(ready, w, t, last) == [ready |-> ready, waiting |-> w, terminated |-> t,
                           lastTerminated |-> last]
Term(r, e, s, f) == [reason |-> r, exitCode |-> e, startedAt |-> s, finishedAt |-> f]
End(r, e) == Ctr(FALSE, None, Term(r, e, 1, 2), NoState)

Ended   == {End("Completed", 0), End("Error", 1), End("Error", SIGKILL),
            End("OOMKilled", SIGKILL)}
Started == {Ctr(TRUE, None, NoState, NoState), Ctr(FALSE, None, NoState, NoState)}
Waits   == {Ctr(FALSE, w, NoState, NoState) : w \in WaitingReasons}

\* Containers that terminated from 1 to 2 and were started again: running,
\* backing off, or terminated once more from 2 to 3.
Restarted == {Ctr(TRUE, None, NoState, Term("Error", 1, 1, 2)),
              Ctr(FALSE, "CrashLoopBackOff", NoState, Term("OOMKilled", SIGKILL, 1, 2)),
              Ctr(FALSE, None, Term("Completed", 0, 2, 3), Term("Error", 1, 1, 2))}

\* A container the kubelet lost while it ran from 1 to 2, shown Waiting again.
Lost == {Ctr(FALSE, "ContainerCreating", NoState,
             Term("ContainerStatusUnknown", SIGKILL, 1, 2))}

\* One or two container statuses drawn from S.
Ctrs(S) == {<<c>> : c \in S} \cup {<<c, d>> : c, d \in S}

Cond(type, f) == [type |-> type, false |-> f]
PendingConds == {<<>>, <<Cond("PodScheduled", TRUE)>>,
                 <<Cond("PodScheduled", FALSE), Cond("Ready", TRUE)>>,
                 <<Cond("Ready", TRUE), Cond("PodScheduled", FALSE)>>,
                 <<Cond("PodScheduled", FALSE), Cond("Ready", FALSE)>>}

PodRec(ph, r, conds, init, ctrs, intr, st, late1, late2) ==
  [phase |-> ph, reason |-> r, conditions |-> conds,
   initContainerStatuses |-> init, containerStatuses |-> ctrs,
   interruptible |-> intr, hasStartTime |-> st, createdPastTimeout |-> late1,
   startedPastTimeout |-> late2]

MCPodSpace ==
     {PodRec("Pending", None, cs, <<>>, ctrs, intr, st, l1, l2) :
        cs \in PendingConds, ctrs \in {<<>>} \cup Ctrs(Waits \cup Started),
        intr \in BOOLEAN, st \in BOOLEAN, l1 \in BOOLEAN, l2 \in BOOLEAN}
  \cup {PodRec("Running", None, <<>>, <<>>, ctrs, FALSE, TRUE, FALSE, FALSE) :
          ctrs \in Ctrs(Started \cup Ended \cup Restarted \cup Lost)}
  \cup {PodRec("Succeeded", None, <<>>, init, ctrs, FALSE, TRUE, FALSE, FALSE) :
          init \in {<<>>} \cup Ctrs(Ended), ctrs \in Ctrs(Ended \cup Restarted)}
  \cup {PodRec("Failed", r, <<>>, <<>>, ctrs, FALSE, TRUE, FALSE, FALSE) :
          r \in PodReasons, ctrs \in Ctrs(Ended \cup Restarted \cup Lost)}
  \cup {PodRec("Unknown", None, <<>>, <<>>, <<>>, FALSE, TRUE, FALSE, FALSE)}

\* Task templates: read or not, with a container or not, converting or not,
\* with the co-pilot or without.
MCTemplates == [readErr : BOOLEAN, hasContainer : BOOLEAN,
                convertErr : BOOLEAN, coPilot : BOOLEAN]
================================================================================
