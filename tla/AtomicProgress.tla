---------------------------- MODULE AtomicProgress ----------------------------
(***************************************************************************)
(* What the watermark table promises its callers, without transactions:    *)
(* the related identities of one pipeline hold either nothing, or one      *)
(* vector of committed values that is created whole and then only moves    *)
(* forward as a whole, the anchor identity strictly.  A table with two     *)
(* physical rows for an identity is corrupt and holds no progress; it      *)
(* never becomes usable again by itself.                                   *)
(***************************************************************************)
EXTENDS Integers

CONSTANTS
  Identities,  \* the related watermark identities of one pipeline
  Anchor,      \* the identity every commit advances
  Values       \* the committed values a row can hold

VARIABLES
  status,      \* "absent", "ready" or "corrupt"
  progress     \* the vector of committed values, while status is "ready"

Vector == [Identities -> Values]

Nothing == [i \in Identities |-> 0]

Init == status = "absent" /\ progress = Nothing

\* initialize_watermarks_atomically: the whole set appears at once.
Create ==
  /\ status = "absent"
  /\ status' = "ready"
  /\ progress' \in Vector

\* commit_watermarks_atomically: the whole set moves forward at once.
Advance ==
  /\ status = "ready"
  /\ progress' \in Vector
  /\ \A i \in Identities : progress[i] <= progress'[i]
  /\ progress[Anchor] < progress'[Anchor]
  /\ UNCHANGED status

\* Two concurrent initializations both inserted their rows.
Collide ==
  /\ status = "ready"
  /\ status' = "corrupt"
  /\ progress' = Nothing

Next == Create \/ Advance \/ Collide

Spec == Init /\ [][Next]_<<status, progress>>

================================================================================
