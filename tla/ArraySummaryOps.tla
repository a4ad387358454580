---------------------------- MODULE ArraySummaryOps ----------------------------
(***************************************************************************)
(* An ArraySummary value driven through every operation of status.go:     *)
(* Inc, Dec, IncByCount and MergeFrom, each called by any caller with any *)
(* argument from small sets.  `updated` keeps what the last MergeFrom     *)
(* returned.                                                              *)
(***************************************************************************)
EXTENDS Integers, SubTaskPhase, ArraySummary

CONSTANTS
  Phases,       \* the phases used as keys
  Deltas,       \* counts passed to IncByCount
  Others,       \* non-nil summaries passed to MergeFrom
  MaxCount      \* bound on the absolute value of a count

VARIABLES summary, updated
vars == <<summary, updated>>

InBound(s) == \A p \in DOMAIN s : -MaxCount <= s[p] /\ s[p] <= MaxCount

Init == summary = EmptySummary /\ updated = FALSE

DoInc(p) ==
  /\ InBound(Inc(summary, p))
  /\ summary' = Inc(summary, p)
  /\ UNCHANGED updated

DoDec(p) ==
  /\ InBound(Dec(summary, p))
  /\ summary' = Dec(summary, p)
  /\ UNCHANGED updated

DoIncByCount(p, c) ==
  /\ InBound(IncByCount(summary, p, c))
  /\ summary' = IncByCount(summary, p, c)
  /\ UNCHANGED updated

DoMergeFrom(o) ==
  /\ summary' = MergeFrom(summary, o).summary
  /\ updated' = MergeFrom(summary, o).updated

DoMergeFromNil ==
  /\ summary' = MergeFromNil(summary).summary
  /\ updated' = MergeFromNil(summary).updated

Next ==
  \/ \E p \in Phases : DoInc(p) \/ DoDec(p)
  \/ \E p \in Phases, c \in Deltas : DoIncByCount(p, c)
  \/ \E o \in Others : DoMergeFrom(o)
  \/ DoMergeFromNil

Spec == Init /\ [][Next]_vars

-----------------------------------------------------------------------------
(* MergeFrom replaces the summary by other as the code reads it: after    *)
(* the merge every phase counts what other counts (an absent key reading *)
(* as 0), whatever the summary held before, zero entries included.       *)
MergeFromAgrees ==
  [][\A o \in Others :
       DoMergeFrom(o) => \A p \in Phases : Count(summary', p) = Count(o, p)]_vars

(* MergeFrom is idempotent (spec section 8): merging the same other a     *)
(* second time changes nothing and reports no update, nil included.      *)
MergeFromIdempotent ==
  /\ \A o \in Others :
       LET once == MergeFrom(summary, o).summary
       IN  MergeFrom(once, o) = [summary |-> once, updated |-> FALSE]
  /\ LET once == MergeFromNil(summary).summary
     IN  MergeFromNil(once) = [summary |-> once, updated |-> FALSE]

(* A phase with count 0 is never stored (spec sections 3 and 4.1): a key  *)
(* whose count reaches 0 is removed.                                      *)
NoZeroCount == \A p \in DOMAIN summary : summary[p] # 0

(* MergeFrom reports every change it makes to the summary (spec 4.1:     *)
(* "report whether any change occurred").                                 *)
MergeFromReportsChange ==
  [][(DoMergeFromNil \/ \E o \in Others : DoMergeFrom(o))
        /\ summary' # summary => updated']_vars
================================================================================
