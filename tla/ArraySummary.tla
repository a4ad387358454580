----------------------------- MODULE ArraySummary -----------------------------
(***************************************************************************)
(* ArraySummary of plugins/array/arraystatus/status.go: a Go map from     *)
(* phase to int64 count.  A map is a TLA+ function whose domain is the    *)
(* set of keys present; a key present with count 0 is distinct from an    *)
(* absent key, as it is in Go.  A nil map (other == nil in MergeFrom) is  *)
(* MergeFromNil.                                                         *)
(***************************************************************************)
EXTENDS Integers, TLC
LOCAL INSTANCE Functions

EmptySummary == [p \in {} |-> 0]

\* summary[key] in Go: the zero value for an absent key.
Count(summary, key) == IF key \in DOMAIN summary THEN summary[key] ELSE 0

\* Sum of all counts, over every key present.
Total(summary) == SumFunction(summary)

deleteOrSet(summary, key, value) ==
  IF value = 0 THEN Restrict(summary, DOMAIN summary \ {key})
  ELSE (key :> value) @@ summary

IncByCount(in, phase, count) ==
  IF phase \notin DOMAIN in THEN (phase :> count) @@ in
  ELSE [in EXCEPT ![phase] = @ + count]

Inc(in, phase) == IncByCount(in, phase, 1)

Dec(in, phase) == IncByCount(in, phase, -1)

\* Fault variants of MergeFrom: NoDelete leaves out the second loop, so the
\* keys other lacks survive; SetsOnFound sets updated for every key found.
MergeFromNoDelete(in, other) ==
  LET Changed(k) == k \in DOMAIN in /\ in[k] # other[k]
      Kept       == {k \in DOMAIN other :
                       IF Changed(k) THEN other[k] # 0
                       ELSE k \in DOMAIN in \/ other[k] # 0}
  IN  [summary |-> [k \in Kept |-> other[k]]
                     @@ Restrict(in, DOMAIN in \ DOMAIN other),
       updated |-> \E k \in DOMAIN other :
                     Changed(k) \/ (k \notin DOMAIN in /\ other[k] # 0)]

MergeFromSetsOnFound(in, other) ==
  [summary |-> [k \in {j \in DOMAIN other : other[j] # 0} |-> other[k]],
   updated |-> \E k \in DOMAIN other : k \in DOMAIN in \/ other[k] # 0]

(***************************************************************************)
(* MergeFrom(other) rebuilds `in` in place and returns `updated`.  The    *)
(* result is [summary, updated].  With other == nil every key is deleted  *)
(* and updated is set when there was one (MergeFromNil).  Otherwise the  *)
(* first loop visits the keys of other: a key present in `in` with a     *)
(* different count is deleteOrSet to other's count, an absent key is     *)
(* added when its count is not 0; both set updated.  The second loop     *)
(* deletes the keys of `in` that other lacks, without setting updated.   *)
(***************************************************************************)
MergeFromNil(in) == [summary |-> EmptySummary, updated |-> DOMAIN in # {}]

MergeFrom(in, other) ==
  LET Changed(k) == k \in DOMAIN in /\ in[k] # other[k]
      Added(k)   == k \notin DOMAIN in /\ other[k] # 0
      Kept       == {k \in DOMAIN other :
                       IF Changed(k) THEN other[k] # 0
                       ELSE k \in DOMAIN in \/ other[k] # 0}
  IN  [summary |-> [k \in Kept |-> other[k]],
       updated |-> \E k \in DOMAIN other : Changed(k) \/ Added(k)]
================================================================================
