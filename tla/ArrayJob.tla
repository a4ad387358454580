------------------------------- MODULE ArrayJob -------------------------------
(***************************************************************************)
(* What the reconciliation of an array task promises, seen from the state *)
(* the host persists (spec sections 3 and 4.5), with rounds, tokens, pods *)
(* and errors hidden.  The array holds one recorded phase per subtask and *)
(* an array phase.  While the array is checking, a round may record a new *)
(* observation of every subtask at once, but a subtask recorded terminal  *)
(* keeps its phase.  The same step may decide the outcome, and only as    *)
(* the recorded phases allow: success once enough subtasks succeeded and *)
(* none is still counted as running, failure (with or without writing   *)
(* partial results) only while too few succeeded.  An array too large is *)
(* rejected before anything is recorded.  Once decided, nothing changes, *)
(* and under fairness every array is eventually decided.                  *)
(***************************************************************************)
EXTENDS Integers, FiniteSets, SubTaskPhase

CONSTANTS
  N,              \* ExecutionArraySize
  MinSuccesses,   \* successes needed once cache hits shrank the array
  Recordable      \* the subtask phases a round may record

ASSUME Recordable \subseteq Phase /\ PhaseUndefined \in Recordable

VARIABLES
  phase,          \* the array phase
  detailed        \* the phase recorded for each subtask

vars == <<phase, detailed>>

Idx      == 1..N
Checking == "CheckingSubTaskExecutions"
Outcomes == {"WriteToDiscovery", "WriteToDiscoveryThenFail", "PermanentFailure"}

Unobserved == [i \in Idx |-> PhaseUndefined]

Successes(d) == Cardinality({i \in Idx : IsSuccess(d[i])})

\* Every subtask is terminal: none is still counted as running.
Settled(d) == \A i \in Idx : IsTerminal(d[i])

\* The outcomes a round may decide on the phases it records.
Allowed(o, d) ==
  CASE o = "WriteToDiscovery"         -> Successes(d) >= MinSuccesses /\ Settled(d)
    [] o = "WriteToDiscoveryThenFail" -> 0 < Successes(d) /\ Successes(d) < MinSuccesses
    [] o = "PermanentFailure"         -> Successes(d) = 0 /\ Successes(d) < MinSuccesses
    [] OTHER                          -> TRUE

\* The recorded phases a round may leave: terminal ones are kept.
Observations == {d \in [Idx -> Recordable] :
                   \A i \in Idx : IsTerminal(detailed[i]) => d[i] = detailed[i]}

Init ==
  /\ phase = Checking
  /\ detailed = Unobserved

\* A round that records its observation and keeps checking, or decides.
Round(o) ==
  /\ phase = Checking
  /\ detailed' \in Observations
  /\ Allowed(o, detailed')
  /\ phase' = o

Observe == Round(Checking)
Decide  == \E o \in Outcomes : Round(o)

\* The array is rejected before any subtask was observed.
Reject ==
  /\ phase = Checking
  /\ detailed = Unobserved
  /\ phase' = "PermanentFailure"
  /\ UNCHANGED detailed

Next == Observe \/ Decide \/ Reject

SafetySpec == Init /\ [][Next]_vars

Spec == SafetySpec /\ WF_vars(Decide \/ Reject)
================================================================================
