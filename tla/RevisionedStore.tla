--------------------------- MODULE RevisionedStore ---------------------------
(***************************************************************************)
(* What the model registry promises to the processes that share it: one    *)
(* value, in which no change undoes what an earlier one recorded, each     *)
(* change one revision further; every process keeps a copy of a value that *)
(* was committed, and a copy never goes back.                              *)
(***************************************************************************)
EXTENDS Naturals

CONSTANTS
  Processes,
  InitValue,
  Rev(_),           \* the revision of a value
  Follows(_, _)     \* Follows(v, w): w keeps everything v recorded

VARIABLES value, copy

vars == <<value, copy>>

Init == value = InitValue /\ copy = [p \in Processes |-> InitValue]

\* A process catches up; it may then keep that copy for any time.
Refresh(p) ==
  /\ Rev(copy[p]) < Rev(value)
  /\ copy' = [copy EXCEPT ![p] = value]
  /\ UNCHANGED value

\* A process replaces the value by one that follows it. Its copy is then the new
\* value, or the one that was replaced when the write was reported as failed, or it
\* keeps no copy.
Commit(p) ==
  /\ Rev(value') = Rev(value) + 1
  /\ Follows(value, value')
  /\ \/ copy' = [copy EXCEPT ![p] = value']
     \/ copy' = [copy EXCEPT ![p] = value]
     \/ UNCHANGED copy

Next == \E p \in Processes : Refresh(p) \/ Commit(p)

Spec == Init /\ [][Next]_vars
=============================================================================
