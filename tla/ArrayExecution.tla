---------------------------- MODULE ArrayExecution ----------------------------
(***************************************************************************)
(* One array task from its first round to its final phase: the array job *)
(* of ArrayJob decides, and a decision to write results hands the final   *)
(* Detailed array to the assembler of OutputAssembler.  WriteToDiscovery *)
(* calls AssembleFinalOutputs with the outputs assembler and Success as   *)
(* terminal phase; WriteToDiscoveryThenFail calls it with the errors      *)
(* assembler and RetryableFailure (the executor's phase switch, spec      *)
(* sections 4.5 and 4.6).  What each subtask left in the store follows    *)
(* from its recorded phase: a successful subtask its outputs, a failed    *)
(* one an error file or nothing.                                          *)
(***************************************************************************)
EXTENDS Integers, SubTaskPhase

CONSTANTS
  N, MinSuccesses, Recordable,
  VarNames, MaxRetries, MaxEvictions, MaxRestarts

VARIABLES
  jobPhase, detailed,             \* the array job
  errorFile,                      \* failed subtasks that wrote an error file
  outputVars, asmPhase, execErr, item, orphans, written, evictions, restarts

jobVars == <<jobPhase, detailed>>
asmVars == <<outputVars, asmPhase, execErr, item, orphans, written, evictions, restarts>>
vars    == <<jobVars, errorFile, asmVars>>

Idx == 1..N

AssemblyPhases == {"WriteToDiscovery", "WriteToDiscoveryThenFail"}

KindOf(p) == IF p = "WriteToDiscoveryThenFail" THEN "errors" ELSE "outputs"

Artifact == [i \in Idx |->
               CASE IsSuccess(detailed[i])                  -> "outputs"
                 [] IsFailure(detailed[i]) /\ errorFile[i] -> "error"
                 [] OTHER                                   -> "none"]

Job == INSTANCE ArrayJob WITH phase <- jobPhase

Asm == INSTANCE OutputAssembler
         WITH kind <- KindOf(jobPhase), finalPhases <- detailed, artifact <- Artifact,
              phase <- asmPhase, FinalPhaseSet <- [k \in {"outputs", "errors"} |-> Recordable]

\* The phase the host sees: the job's, until assembly moved it on.
ArrayPhase == IF jobPhase \in AssemblyPhases /\ asmPhase # "Assembling"
              THEN asmPhase ELSE jobPhase

Init == Job!Init /\ errorFile \in [Idx -> BOOLEAN] /\ Asm!Init

JobStep(A) == A /\ UNCHANGED <<errorFile, asmVars>>

\* The assembler runs only once the job decided to write results.
AsmStep(A) == jobPhase \in AssemblyPhases /\ UNCHANGED <<jobVars, errorFile>> /\ A

\* The host stops calling on a final phase.
Done == ArrayPhase \in {"Success", "RetryableFailure", "PermanentFailure"} /\ UNCHANGED vars

Next ==
  \/ JobStep(Job!Observe) \/ JobStep(Job!Decide) \/ JobStep(Job!Reject)
  \/ AsmStep(Asm!AssembleNoOutputs) \/ AsmStep(Asm!AssembleEnqueue)
  \/ AsmStep(Asm!AssembleSucceeded) \/ AsmStep(Asm!AssembleFailed)
  \/ AsmStep(Asm!ProcessSucceeded) \/ AsmStep(Asm!ProcessFailed)
  \/ AsmStep(Asm!OrphanProcessed) \/ AsmStep(Asm!Evict) \/ AsmStep(Asm!Restart)
  \/ Done

Fairness ==
  /\ WF_vars(JobStep(Job!Decide \/ Job!Reject))
  /\ WF_vars(AsmStep(Asm!Poll))
  /\ WF_vars(AsmStep(Asm!ProcessSucceeded \/ Asm!ProcessFailed))

Spec == Init /\ [][Next]_vars /\ Fairness
-----------------------------------------------------------------------------
TypeOK == Asm!TypeOK /\ jobPhase \in {Job!Checking} \cup Job!Outcomes

(* Every combined output a worker writes keeps, in each variable's list,  *)
(* the payloads of the job's successful subtasks in index order, and      *)
(* nothing else but placeholders.                                         *)
CombinedOutputsInOrder == Asm!CombinedOutputsInOrder

(* Every array reaches a final phase: the job decides, and assembly ends   *)
(* in its terminal phase or, once the queue gives the item up, in a        *)
(* retryable failure.                                                      *)
ExecutionCompletes ==
  <>(ArrayPhase \in {"Success", "RetryableFailure", "PermanentFailure"})
================================================================================
