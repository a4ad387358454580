--------------------------- MODULE OutputAssembler ---------------------------
(***************************************************************************)
(* The background assembly of an array task's combined outputs or errors  *)
(* (plugins/array/outputs.go).  The polling loop calls                    *)
(* AssembleFinalOutputs once per poll; a worker of the indexed work queue  *)
(* runs Process on the queued item; the queue keeps at most one item per  *)
(* execution, retries a failed Process up to MaxRetries times, may evict  *)
(* an item from its index cache, and loses everything on a restart of the *)
(* process.  The array's final per-index phases and what each subtask     *)
(* left in the store are fixed when assembly starts.                      *)
(***************************************************************************)
EXTENDS Naturals, Sequences, SubTaskPhase
LOCAL INSTANCE SequencesExt

CONSTANTS
  N,              \* ExecutionArraySize
  VarNames,       \* the output variables a task template may declare
  FinalPhaseSet,  \* per kind, the subtask phases the array may end with
  MaxRetries,     \* workqueue per-item retry count
  MaxEvictions,   \* bound on index-cache evictions
  MaxRestarts     \* bound on process restarts

Kinds == {"outputs", "errors"}

ASSUME FinalPhaseSet \in [Kinds -> SUBSET Phase]

\* Work statuses of the queue, and the entry of an id it does not hold.
NotDone   == "NotDone"
Succeeded == "Succeeded"
Failed    == "Failed"
Absent    == [status |-> "Absent", retries |-> 0, varNames |-> {}]

NilLiteral == 0           \* the placeholder; payloads are the indices 1..N

VARIABLES
  kind,          \* "outputs" (assembleOutputsWorker) or "errors" (assembleErrorsWorker)
  outputVars,    \* the outputs the task template declares ({} or VarNames)
  finalPhases,   \* state.ArrayStatus.Detailed
  artifact,      \* per index: "outputs", "error" or "none" in the store
  phase,         \* the persisted phase: "Assembling", TerminalPhase, "RetryableFailure"
  execErr,       \* state.SetExecutionErr was called
  item,          \* the work item under the execution's id, or Absent
  orphans,       \* evicted items a worker still holds
  written,       \* every Put to the final output location, in order
  evictions, restarts

vars == <<kind, outputVars, finalPhases, artifact, phase, execErr, item, orphans, written,
          evictions, restarts>>

Indices == 1..N

\* The phase AssembleFinalOutputs is called with: success after outputs,
\* a retryable failure after errors (WriteToDiscoveryThenFail).
TerminalPhase == IF kind = "outputs" THEN "Success" ELSE "RetryableFailure"

(***************************************************************************)
(* Process of the two workers as pure functions of the item.              *)
(***************************************************************************)
\* Fault variant: a fresh list replaces the variable's list on every append.
appendOneItemFresh(outs, varName, literal) == (varName :> <<literal>>) @@ outs

\* appendOneItem, outputs.go:91-110: a variable's list is created on first use.
appendOneItem(outs, varName, literal) ==
  IF varName \in DOMAIN outs
  THEN [outs EXCEPT ![varName] = Append(@, literal)]
  ELSE (varName :> <<literal>>) @@ outs

\* appendSubTaskOutput (112-118): every variable the subtask wrote; a
\* subtask writes every declared variable, its payload being its index.
appendSubTaskOutput(outs, idx) ==
  FoldSet(LAMBDA v, o : appendOneItem(o, v, idx), outs, outputVars)

\* appendEmptyOutputs (120-124): a placeholder for each of the item's varNames.
appendEmptyOutputs(outs, names) ==
  FoldSet(LAMBDA v, o : appendOneItem(o, v, NilLiteral), outs, names)

\* The read of a successful index returns its outputs unless it left an error.
HasOutputs(idx) == IsSuccess(finalPhases[idx]) /\ artifact[idx] = "outputs"

\* assembleOutputsWorker.Process, 62-81, once every read succeeded.
AssembleOutputs(names) ==
  FoldLeft(LAMBDA outs, idx : IF HasOutputs(idx)
                              THEN appendSubTaskOutput(outs, idx)
                              ELSE appendEmptyOutputs(outs, names),
           [v \in {} |-> NilLiteral], [i \in Indices |-> i])

\* assembleErrorsWorker.Process, 207-226: the failed indices whose error is
\* present, collected in index order (the messages are left out).
AssembleErrors ==
  SelectSeq([i \in Indices |-> i],
            LAMBDA idx : IsFailure(finalPhases[idx]) /\ artifact[idx] = "error")

Assembled(names) == IF kind = "outputs" THEN AssembleOutputs(names) ELSE AssembleErrors

-----------------------------------------------------------------------------

Consistent(p, a) ==
  CASE IsSuccess(p) -> a = "outputs"
    [] IsFailure(p) -> a \in {"error", "none"}
    [] OTHER        -> a = "none"

Init ==
  /\ kind \in Kinds
  /\ outputVars \in {{}, VarNames}
  /\ finalPhases \in [Indices -> FinalPhaseSet[kind]]
  /\ artifact \in {a \in [Indices -> {"outputs", "error", "none"}] :
                     \A i \in Indices : Consistent(finalPhases[i], a[i])}
  /\ phase = "Assembling"
  /\ execErr = FALSE
  /\ item = Absent
  /\ orphans = 0
  /\ written = <<>>
  /\ evictions = 0
  /\ restarts = 0

Unchanged(vs) == UNCHANGED <<kind, outputVars, finalPhases, artifact, evictions, restarts>> /\ UNCHANGED vs

(***************************************************************************)
(* AssembleFinalOutputs, outputs.go:128-194, one action per way a poll    *)
(* changes the state; a poll that finds the item NotDone, or whose        *)
(* template read, Queue or Put fails, returns without a change.           *)
(***************************************************************************)
\* 141-152: not found, and the task declares no outputs: finish at once.
AssembleNoOutputs ==
  /\ phase = "Assembling" /\ item = Absent /\ outputVars = {}
  /\ phase' = TerminalPhase
  /\ Unchanged(<<execErr, item, orphans, written>>)

\* 154-174: not found: queue an item carrying Detailed and varNames, which
\* is made with capacity len(outputs) and never filled.  The Get right
\* after finds it NotDone.
AssembleEnqueue ==
  /\ phase = "Assembling" /\ item = Absent /\ outputVars # {}
  /\ item' = [status |-> NotDone, retries |-> 0, varNames |-> {}]
  /\ Unchanged(<<phase, execErr, orphans, written>>)

\* 178-184: the worker succeeded: promote the written output, set the phase.
AssembleSucceeded ==
  /\ phase = "Assembling" /\ item.status = Succeeded
  /\ phase' = TerminalPhase
  /\ Unchanged(<<execErr, item, orphans, written>>)

\* 185-190: the worker failed: attach its error, retryable failure.
AssembleFailed ==
  /\ phase = "Assembling" /\ item.status = Failed
  /\ execErr' = TRUE
  /\ phase' = "RetryableFailure"
  /\ Unchanged(<<item, orphans, written>>)

(***************************************************************************)
(* A worker runs Process on the queued item.  It either reads everything  *)
(* and Puts the assembled artifact (returning WorkStatusSucceeded), or a  *)
(* read or the Put fails (WorkStatusNotDone with an error) and the queue  *)
(* counts a retry, failing the item once MaxRetries are spent.            *)
(***************************************************************************)
ProcessSucceeded ==
  /\ item.status = NotDone
  /\ written' = Append(written, Assembled(item.varNames))
  /\ item' = [item EXCEPT !.status = Succeeded]
  /\ Unchanged(<<phase, execErr, orphans>>)

\* Fault variants of the retry count: compared with > instead of >=; kept
\* modulo MaxRetries, so it wraps instead of failing the item.
ProcessFailedOffByOne ==
  /\ item.status = NotDone
  /\ item' = [item EXCEPT !.retries = @ + 1,
                          !.status = IF item.retries + 1 > MaxRetries THEN Failed
                                                                     ELSE NotDone]
  /\ Unchanged(<<phase, execErr, orphans, written>>)

ProcessFailedWraps ==
  /\ item.status = NotDone
  /\ item' = [item EXCEPT !.retries = (@ + 1) % MaxRetries]
  /\ Unchanged(<<phase, execErr, orphans, written>>)

ProcessFailed ==
  /\ item.status = NotDone
  /\ item' = [item EXCEPT !.retries = @ + 1,
                          !.status = IF item.retries + 1 >= MaxRetries THEN Failed
                                                                      ELSE NotDone]
  /\ Unchanged(<<phase, execErr, orphans, written>>)

\* A worker still holding an evicted item finishes it, writing or not.
OrphanProcessed ==
  /\ orphans > 0
  /\ orphans' = orphans - 1
  /\ \/ written' = Append(written, Assembled({}))
     \/ UNCHANGED written
  /\ Unchanged(<<phase, execErr, item>>)

\* The index cache evicts the item; one not yet done stays with its worker.
Evict ==
  /\ item # Absent /\ evictions < MaxEvictions
  /\ item' = Absent
  /\ orphans' = orphans + (IF item.status = NotDone THEN 1 ELSE 0)
  /\ evictions' = evictions + 1
  /\ UNCHANGED <<kind, outputVars, finalPhases, artifact, phase, execErr, written, restarts>>

\* The process restarts: the in-memory queue and its workers are gone; the
\* persisted state and what was written stay.
Restart ==
  /\ restarts < MaxRestarts
  /\ item' = Absent /\ orphans' = 0
  /\ restarts' = restarts + 1
  /\ UNCHANGED <<kind, outputVars, finalPhases, artifact, phase, execErr, written, evictions>>

\* The array left the assembly phase; the host stops polling.
Finished == phase # "Assembling" /\ UNCHANGED vars

Poll == AssembleNoOutputs \/ AssembleEnqueue \/ AssembleSucceeded \/ AssembleFailed

Next ==
  \/ Poll
  \/ ProcessSucceeded \/ ProcessFailed \/ OrphanProcessed
  \/ Evict \/ Restart
  \/ Finished

\* The host polls on a fixed interval and the worker pool serves the queue.
Fairness == WF_vars(Poll) /\ WF_vars(ProcessSucceeded \/ ProcessFailed)

Spec == Init /\ [][Next]_vars /\ Fairness
-----------------------------------------------------------------------------
TypeOK ==
  /\ kind \in Kinds
  /\ outputVars \subseteq VarNames
  /\ finalPhases \in [Indices -> Phase]
  /\ phase \in {"Assembling", TerminalPhase, "RetryableFailure"}
  /\ execErr \in BOOLEAN
  /\ item.status \in {"Absent", NotDone, Succeeded, Failed}
  /\ item.retries \in 0..MaxRetries
  /\ orphans \in 0..MaxEvictions
  /\ evictions \in 0..MaxEvictions /\ restarts \in 0..MaxRestarts

\* The indices whose outputs the combined output must carry, in order.
SuccessfulIndices == SelectSeq([i \in Indices |-> i], HasOutputs)

(* In every combined output a worker writes, each variable's list holds   *)
(* the payloads of the successful subtasks in index order, as the loop    *)
(* over finalPhases with appendOneItem builds it, and nothing else but    *)
(* placeholders.                                                          *)
CombinedOutputsInOrder ==
  kind = "outputs" =>
    \A k \in DOMAIN written :
      /\ SuccessfulIndices # <<>> => DOMAIN written[k] = outputVars
      /\ \A v \in DOMAIN written[k] :
           SelectSeq(written[k][v], LAMBDA e : e # NilLiteral) = SuccessfulIndices

WrittenOnce == Len(written) <= 1
================================================================================
