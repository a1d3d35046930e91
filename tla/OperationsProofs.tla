---------------------------- MODULE OperationsProofs ---------------------------
(***************************************************************************)
(* What TLAPS proves of the operational side, for any processes, run ids,  *)
(* loads, alert keys, thresholds and bounds on faults: of PipelineLease,   *)
(* PipelineRuns and HealthAlerts, in this order.                           *)
(*                                                                         *)
(* PipelineLease.  Whoever holds a handle holds a version that no other    *)
(* handle and no late release has (Distinct, LateIsStale), because a       *)
(* version is given out by the transaction that installs it, under the     *)
(* lock, over the row its SELECT saw (Serialized).  A handle with the      *)
(* version of the row describes the row (Latest); one with an older        *)
(* version lost it to an acquisition, which came after the expiry          *)
(* (Superseded): the processes that released or renewed had the version of *)
(* the row, so nobody else had.                                            *)
(*                                                                         *)
(* PipelineRuns.  What a row claims and what its children have merged and  *)
(* not yet added to it (Owed) is at most what they merged                  *)
(* (NothingIsInvented), and all of it unless a write was lost or the run   *)
(* has failed (NothingIsForgotten).  A finish overwrites the counters with *)
(* what was read back, so no child may still owe when it is read           *)
(* (Succeeding) and nobody else may write the row in between (Observed).   *)
(*                                                                         *)
(* HealthAlerts.  A version that is still the row's identifies the row as  *)
(* it was read (VersionsIdentifyRows), so the compare-and-set decides on   *)
(* the row it changes.  The events of the past are not ahead of a row      *)
(* (EventsAreBehind): what a transition persists is new, and stays with    *)
(* the one evaluation that made it (EventsAreApart).                       *)
(***************************************************************************)
EXTENDS PipelineLease, PipelineRuns, HealthAlerts, FiniteSetTheorems, TLAPS

-------------------------------------------------------------------------------
\* ---- PipelineLease ----

InTransaction(w) == pc[w] \in {"commit", "orphan"}

\* The lock is held by the one transaction that has updated the row, which is
\* still as that transaction saw it.
Serialized ==
  \A w \in Workers :
    /\ InTransaction(w) <=> lock = w
    /\ InTransaction(w) => seen[w] = lease.version /\ Available(now[w])

\* What a process has read lies in the past.
ReadBefore ==
  \A w \in Workers : now[w] <= clock /\ (pc[w] = "update" => seen[w] <= lease.version)

\* A handle that has the version of the row describes the row.
Latest ==
  \A w \in Workers :
    pc[w] = "work" /\ handle[w].version = lease.version =>
      lease.owner = RunOf[w] /\ lease.expires = handle[w].expires

\* Any other handle is older than the row, and has expired.
Superseded ==
  \A w \in Workers :
    pc[w] = "work" /\ handle[w].version # lease.version =>
      handle[w].version < lease.version /\ handle[w].expires <= clock

Distinct ==
  \A v, w \in Workers :
    pc[v] = "work" /\ pc[w] = "work" /\ handle[v].version = handle[w].version => v = w

\* No late release names a version that a process holds or will get.
LateIsStale ==
  \A release \in late :
    /\ release.version <= lease.version
    /\ \A w \in Workers : pc[w] = "work" => release.version # handle[w].version

IInv ==
  /\ TypeOK /\ Serialized /\ ReadBefore /\ ConflictMeansChange
  /\ Latest /\ Superseded /\ Distinct /\ LateIsStale

-------------------------------------------------------------------------------

USE RunsAssumption, WorkersAssumption, TtlAssumption, TimeoutAssumption,
    BoundsAssumption

LEMMA TypingStep ==
  ASSUME TypeOK, [Next]_vars
  PROVE  TypeOK'
<1> USE DEF TypeOK, Phases, Rows, Handles, Releases, Goto, NoHandle
<1>1. CASE UNCHANGED vars
  BY <1>1 DEF vars
<1>2. ASSUME NEW w \in Workers, End(w), UNCHANGED clock, lease' \in Rows,
             lock' \in Workers \cup {NoWorker}, late' \subseteq Releases
      PROVE  TypeOK'
  BY <1>2 DEF End
<1>3. \A w \in Workers : Granted(w) \in Rows
  BY DEF Granted
<1>4. \A release \in Releases : Freed(release) \in Rows
  BY DEF Freed
<1>5. \A w \in Workers : ReleaseOf(w) \in Releases
  BY DEF ReleaseOf
<1>6. ASSUME NEW w \in Workers, Start(w) \/ Select(w) \/ Update(w)
      PROVE  TypeOK'
  <2>1. \A phase \in Phases : [pc EXCEPT ![w] = phase] \in [Workers -> Phases]
    OBVIOUS
  <2>2. /\ [now EXCEPT ![w] = clock] \in [Workers -> Nat]
        /\ [seen EXCEPT ![w] = lease.version] \in [Workers -> Nat]
    OBVIOUS
  <2>3. CASE Start(w)
    BY <2>1, <2>2, <2>3 DEF Start
  <2>4. CASE Select(w)
    BY <2>1, <2>2, <2>4 DEF Select
  <2>5. CASE Update(w)
    BY <2>1, <2>5 DEF Update
  <2> QED
    BY <1>6, <2>3, <2>4, <2>5
<1>7. ASSUME NEW w \in Workers, Held(w) \/ Conflict(w) \/ RenewRejected(w)
      PROVE  TypeOK'
  BY <1>7, <1>2 DEF Held, Conflict, RenewRejected
<1>8. ASSUME NEW w \in Workers, Commit(w)
      PROVE  TypeOK'
  BY <1>8, <1>3 DEF Commit, Granted
<1>9. ASSUME NEW w \in Workers, EndOrphan(w)
      PROVE  TypeOK'
  BY <1>9, <1>2, <1>3 DEF EndOrphan
<1>10. ASSUME NEW w \in Workers, Renew(w)
       PROVE  TypeOK'
  <2>1. lease' \in Rows
    <3>1. \A row \in Rows, e \in Nat, v \in Nat :
            [row EXCEPT !.expires = e, !.version = v] \in Rows
      OBVIOUS
    <3>2. clock + Ttl \in Nat /\ lease.version + 1 \in Nat
      OBVIOUS
    <3>3. lease' = [lease EXCEPT !.expires = clock + Ttl, !.version = lease.version + 1]
      BY <1>10 DEF Renew
    <3> HIDE DEF Rows
    <3> QED
      BY <3>1, <3>2, <3>3
  <2>2. [version |-> handle[w].version + 1, expires |-> clock + Ttl] \in Handles
    OBVIOUS
  <2>3. handle' \in [Workers -> Handles]
    <3> HIDE DEF Handles
    <3> QED
      BY <1>10, <2>2 DEF Renew
  <2> QED
    BY <1>10, <2>1, <2>3 DEF Renew
<1>11. ASSUME NEW w \in Workers, Release(w)
       PROVE  TypeOK'
  BY <1>11, <1>2, <1>4, <1>5 DEF Release
<1>12. ASSUME NEW w \in Workers, Die(w)
       PROVE  TypeOK'
  <2>1. late' \subseteq Releases
    BY <1>12, <1>5 DEF Die
  <2> QED
    BY <1>12, <1>2, <2>1 DEF Die
<1>13. CASE LateRelease
  BY <1>13, <1>4 DEF LateRelease
<1>14. CASE Tick
  BY <1>14 DEF Tick
<1> QED
  BY <1>1, <1>6, <1>7, <1>8, <1>9, <1>10, <1>11, <1>12, <1>13, <1>14
     DEF Next, Acquire, Hold

-------------------------------------------------------------------------------

\* A process that ends leaves the others, and the row if it does not change.
LEMMA EndingStep ==
  ASSUME IInv, TypeOK', NEW w \in Workers, End(w), ~InTransaction(w),
         UNCHANGED <<clock, lease, lock>>, late' = late
  PROVE  IInv'
<1> USE DEF IInv, TypeOK, End, Goto, InTransaction, Phases
<1>1. Serialized' /\ ReadBefore' /\ ConflictMeansChange'
  BY DEF Serialized, ReadBefore, ConflictMeansChange, Available
<1>2. Latest' /\ Superseded' /\ Distinct'
  BY DEF Latest, Superseded, Distinct
<1>3. LateIsStale'
  BY DEF LateIsStale
<1> QED
  BY <1>1, <1>2, <1>3

LEMMA InvariantStep ==
  ASSUME IInv, [Next]_vars
  PROVE  IInv'
<1> USE DEF IInv
<1>0. TypeOK'
  BY TypingStep
<1>1. CASE UNCHANGED vars
  BY <1>1, <1>0 DEF vars, Serialized, InTransaction, ReadBefore,
     ConflictMeansChange, Available, Latest, Superseded, Distinct, LateIsStale
<1>2. ASSUME NEW w \in Workers, Start(w) \/ Select(w)
      PROVE  IInv'
  <2> USE <1>2 DEF TypeOK, Start, Select, Goto, Phases
  <2>1. Serialized'
    BY DEF Serialized, InTransaction, Available
  <2>2. ReadBefore' /\ ConflictMeansChange'
    BY DEF ReadBefore, ConflictMeansChange, Available, Rows
  <2>3. Latest' /\ Superseded' /\ Distinct' /\ LateIsStale'
    BY DEF Latest, Superseded, Distinct, LateIsStale
  <2> QED
    BY <1>0, <2>1, <2>2, <2>3
<1>3. ASSUME NEW w \in Workers, Held(w) \/ Conflict(w) \/ RenewRejected(w)
      PROVE  IInv'
  BY <1>3, <1>0, EndingStep DEF Held, Conflict, RenewRejected, InTransaction
<1>4. ASSUME NEW w \in Workers, Update(w)
      PROVE  IInv'
  <2> USE <1>4 DEF TypeOK, Update, Goto, Phases
  <2>1. Serialized'
    BY DEF Serialized, InTransaction, Available, Matches
  <2>2. ReadBefore' /\ ConflictMeansChange'
    BY DEF ReadBefore, ConflictMeansChange, Available
  <2>3. Latest' /\ Superseded' /\ Distinct' /\ LateIsStale'
    BY DEF Latest, Superseded, Distinct, LateIsStale
  <2> QED
    BY <1>0, <2>1, <2>2, <2>3
<1>5. ASSUME NEW w \in Workers, InTransaction(w), lease' = Granted(w)
      PROVE  /\ lease'.version = lease.version + 1
             /\ lease'.owner = RunOf[w] /\ lease'.expires = now[w] + Ttl
             /\ lease.version \in Nat /\ clock \in Nat
             /\ \A v \in Workers : pc[v] = "work" =>
                  /\ handle[v].version \in Nat /\ handle[v].expires \in Nat
                  /\ handle[v].version <= lease.version
                  /\ handle[v].expires <= clock
  <2> USE <1>5 DEF TypeOK, Rows, Handles
  <2>1. seen[w] = lease.version /\ Available(now[w]) /\ now[w] <= clock
    BY DEF Serialized, ReadBefore
  <2>2. ASSUME NEW v \in Workers, pc[v] = "work"
        PROVE  handle[v].version <= lease.version /\ handle[v].expires <= clock
    <3>1. CASE handle[v].version = lease.version
      <4>1. lease.owner = RunOf[v] /\ lease.expires = handle[v].expires
        BY <2>2, <3>1 DEF Latest
      <4>2. lease.expires <= now[w]
        BY <4>1, <2>1 DEF Available
      <4> QED
        BY <2>1, <3>1, <4>1, <4>2
    <3> QED
      BY <2>2, <3>1 DEF Superseded
  <2> QED
    BY <2>1, <2>2 DEF Granted
<1>6. ASSUME NEW w \in Workers, Commit(w)
      PROVE  IInv'
  <2> USE <1>6 DEF Commit, Goto, TypeOK, Phases, Handles, Rows
  <2>1. InTransaction(w) /\ lease' = Granted(w)
    BY DEF InTransaction
  <2>2. Serialized'
    BY <2>1 DEF Serialized, InTransaction
  <2>3. ReadBefore' /\ ConflictMeansChange'
    BY <2>1, <1>5 DEF ReadBefore, ConflictMeansChange
  <2>4. /\ handle'[w].version = lease'.version /\ handle'[w].expires = lease'.expires
        /\ \A v \in Workers \ {w} :
             handle'[v] = handle[v] /\ (pc'[v] = "work" => pc[v] = "work")
    BY <2>1
  <2>5. Latest' /\ Superseded' /\ Distinct'
    BY <2>1, <2>4, <1>5 DEF Latest, Superseded, Distinct
  <2>6. LateIsStale'
    BY <2>1, <2>4, <1>5 DEF LateIsStale, Releases
  <2> QED
    BY <1>0, <2>2, <2>3, <2>5, <2>6
<1>7. ASSUME NEW w \in Workers, EndOrphan(w)
      PROVE  IInv'
  <2> USE <1>7 DEF EndOrphan, End, Goto, TypeOK, Phases, Rows, Handles
  <2>1. InTransaction(w)
    BY DEF InTransaction
  <2>2. Serialized'
    BY <2>1 DEF Serialized, InTransaction
  <2>3. ReadBefore' /\ ConflictMeansChange'
    BY <2>1, <1>5 DEF ReadBefore, ConflictMeansChange, Available
  <2>4. \A v \in Workers :
          pc'[v] = "work" => v # w /\ pc[v] = "work" /\ handle'[v] = handle[v]
    OBVIOUS
  <2>5. Latest' /\ Superseded' /\ Distinct'
    BY <2>1, <2>4, <1>5 DEF Latest, Superseded, Distinct
  <2>6. LateIsStale'
    BY <2>1, <2>4, <1>5 DEF LateIsStale, Releases
  <2> QED
    BY <1>0, <2>2, <2>3, <2>5, <2>6
<1>8. ASSUME NEW release \in Releases, IsCurrent(release), lock = NoWorker,
             lease' = Freed(release)
      PROVE  /\ lease'.version = lease.version + 1
             /\ lease'.owner = NoRun /\ lease'.expires = 0
             /\ lease.version = release.version
             /\ lease.version \in Nat
             /\ \A v \in Workers : ~InTransaction(v)
  BY <1>8 DEF IsCurrent, NamesRow, Freed, Serialized, TypeOK, Rows
<1>9. ASSUME NEW w \in Workers, Release(w)
      PROVE  IInv'
  <2>1. CASE ~IsCurrent(ReleaseOf(w))
    BY <1>9, <2>1, <1>0, EndingStep DEF Release, InTransaction
  <2>2. CASE IsCurrent(ReleaseOf(w))
    <3> USE <1>9, <2>2 DEF Release, End, Goto, TypeOK, Phases, Rows, Handles
    <3>1. ReleaseOf(w) \in Releases /\ ReleaseOf(w).version = handle[w].version
      BY DEF ReleaseOf, Releases
    <3>2. Serialized'
      BY <3>1, <1>8 DEF Serialized, InTransaction
    <3>3. ReadBefore' /\ ConflictMeansChange'
      BY <3>1, <1>8 DEF ReadBefore, ConflictMeansChange
    <3>4. \A v \in Workers :
            pc'[v] = "work" =>
              /\ v # w /\ pc[v] = "work" /\ handle'[v] = handle[v]
              /\ handle[v].version # lease.version
      BY <3>1, <1>8 DEF Distinct
    <3>5. Latest' /\ Superseded' /\ Distinct'
      BY <3>1, <3>4, <1>8 DEF Latest, Superseded, Distinct
    <3>6. LateIsStale'
      BY <3>1, <3>4, <1>8 DEF LateIsStale, Releases
    <3> QED
      BY <1>0, <3>2, <3>3, <3>5, <3>6
  <2> QED
    BY <2>1, <2>2
<1>10. ASSUME NEW w \in Workers, Renew(w)
       PROVE  IInv'
  <2> USE <1>10 DEF Renew, TypeOK, Phases, Rows, Handles
  <2>1. /\ handle[w].version = lease.version /\ lease.owner = RunOf[w]
        /\ lease'.version = lease.version + 1 /\ lease'.owner = lease.owner
        /\ handle'[w].version = lease'.version
        /\ handle'[w].expires = lease'.expires
    BY DEF NamesRow, ReleaseOf
  <2>2. Serialized'
    BY DEF Serialized, InTransaction
  <2>3. ReadBefore' /\ ConflictMeansChange'
    BY <2>1 DEF ReadBefore, ConflictMeansChange
  <2>4. \A v \in Workers \ {w} :
          pc'[v] = "work" =>
            /\ pc[v] = "work" /\ handle'[v] = handle[v]
            /\ handle[v].version # lease.version
    BY <2>1 DEF Distinct
  <2>5. Latest' /\ Superseded' /\ Distinct'
    BY <2>1, <2>4 DEF Latest, Superseded, Distinct
  <2>6. LateIsStale'
    BY <2>1, <2>4 DEF LateIsStale, Releases
  <2> QED
    BY <1>0, <2>2, <2>3, <2>5, <2>6
<1>11. ASSUME NEW w \in Workers, Die(w)
       PROVE  IInv'
  <2> USE <1>11 DEF Die, Alive, End, Goto, TypeOK, Phases, Handles, Rows
  <2>1. Serialized'
    BY DEF Serialized, InTransaction, Available
  <2>2. ReadBefore' /\ ConflictMeansChange'
    BY DEF ReadBefore, ConflictMeansChange, Available
  <2>3. \A v \in Workers :
          pc'[v] = "work" => v # w /\ pc[v] = "work" /\ handle'[v] = handle[v]
    OBVIOUS
  <2>4. Latest' /\ Superseded' /\ Distinct'
    BY <2>3 DEF Latest, Superseded, Distinct
  <2>5. LateIsStale'
    <3>1. ASSUME pc[w] = "work"
          PROVE  /\ ReleaseOf(w).version <= lease.version
                 /\ \A v \in Workers \ {w} :
                      pc[v] = "work" => ReleaseOf(w).version # handle[v].version
      <4>1. ReleaseOf(w).version = handle[w].version
        BY DEF ReleaseOf
      <4>2. handle[w].version <= lease.version
        BY <3>1 DEF Superseded
      <4> QED
        BY <3>1, <4>1, <4>2 DEF Distinct
    <3> QED
      BY <2>3, <3>1 DEF LateIsStale
  <2> QED
    BY <1>0, <2>1, <2>2, <2>4, <2>5
<1>12. CASE LateRelease
  <2> USE DEF TypeOK, Rows, Handles
  <2>1. PICK release \in late :
          /\ lease' = IF IsCurrent(release) THEN Freed(release) ELSE lease
          /\ late' = late \ {release}
    BY <1>12 DEF LateRelease
  <2>2. /\ lock = NoWorker /\ release \in Releases
        /\ UNCHANGED <<clock, lock, pc, now, seen, handle>>
    BY <1>12 DEF LateRelease
  <2>3. CASE ~IsCurrent(release)
    BY <1>0, <2>1, <2>2, <2>3 DEF Serialized, InTransaction, ReadBefore,
       ConflictMeansChange, Available, Latest, Superseded, Distinct, LateIsStale
  <2>4. CASE IsCurrent(release)
    <3>1. lease' = Freed(release)
      BY <2>1, <2>4
    <3>2. Serialized' /\ ReadBefore' /\ ConflictMeansChange'
      BY <2>2, <2>4, <3>1, <1>8
         DEF Serialized, InTransaction, ReadBefore, ConflictMeansChange
    <3>3. \A w \in Workers : pc[w] = "work" => handle[w].version # lease.version
      BY <2>2, <2>4, <3>1, <1>8 DEF LateIsStale
    <3>4. Latest' /\ Superseded' /\ Distinct'
      BY <2>2, <2>4, <3>1, <3>3, <1>8 DEF Latest, Superseded, Distinct
    <3>5. LateIsStale'
      BY <2>1, <2>2, <2>4, <3>1, <1>8 DEF LateIsStale, Releases
    <3> QED
      BY <1>0, <3>2, <3>4, <3>5
  <2> QED
    BY <2>3, <2>4
<1>13. CASE Tick
  BY <1>0, <1>13 DEF Tick, TypeOK, Handles, Serialized, InTransaction, ReadBefore,
     ConflictMeansChange, Available, Latest, Superseded, Distinct, LateIsStale
<1> QED
  BY <1>1, <1>2, <1>3, <1>4, <1>6, <1>7, <1>9, <1>10, <1>11, <1>12, <1>13
     DEF Next, Acquire, Hold

-------------------------------------------------------------------------------

LEMMA InitialState ==
  Init => IInv
BY DEF Init, IInv, TypeOK, Phases, Rows, Handles, Releases, NoHandle, Serialized,
   InTransaction, ReadBefore, ConflictMeansChange, Latest, Superseded, Distinct,
   LateIsStale

\* The inductive invariant holds in every reachable state.
THEOREM Inductive == Spec => []IInv
BY InitialState, InvariantStep, PTL DEF Spec

\* Every variable keeps its type: the row, the handles and the late releases
\* that acquire, renew and release leave behind.
THEOREM Typing == Spec => []TypeOK
<1>1. IInv => TypeOK
  BY DEF IInv
<1> QED
  BY <1>1, Inductive, PTL

\* renew and release cannot mutate a takeover: of all the processes that
\* acquired the lease, with whatever run ids, at most one can change the row.
THEOREM OneHandleIsValid == Spec => []UniqueHandle
<1>1. IInv => UniqueHandle
  BY DEF IInv, UniqueHandle, Valid, NamesRow, ReleaseOf, Distinct
<1> QED
  BY <1>1, Inductive, PTL

\* Nobody takes, renews or releases the lease of a process before the expiry
\* its handle names.
LEMMA Protection == IInv => HolderProtected
BY DEF IInv, HolderProtected, TypeOK, Handles, Valid, NamesRow, ReleaseOf, Latest,
   Superseded

THEOREM HolderIsProtected == Spec => []HolderProtected
BY Protection, Inductive, PTL

\* The UPDATE of acquire is rejected only if the version moved: its availability
\* predicate never disagrees with the SELECT that preceded it.
THEOREM ConflictsAreReal == Spec => []ConflictMeansChange
<1>1. IInv => ConflictMeansChange
  BY DEF IInv
<1> QED
  BY <1>1, Inductive, PTL

\* lease_version counts the changes of the row: none is overwritten.
THEOREM VersionsCountChanges == Spec => OneVersionPerChange
<1>1. IInv /\ [Next]_vars => [lease' # lease => lease'.version = lease.version + 1]_vars
  <2> SUFFICES ASSUME IInv, Next, lease' # lease
               PROVE  lease'.version = lease.version + 1
    BY DEF vars
  <2> USE DEF IInv
  <2>1. ASSUME NEW w \in Workers, Commit(w) \/ EndOrphan(w)
        PROVE  lease'.version = lease.version + 1
    BY <2>1 DEF Commit, EndOrphan, Granted, Serialized, InTransaction
  <2>2. ASSUME NEW w \in Workers, Renew(w)
        PROVE  lease'.version = lease.version + 1
    BY <2>2 DEF Renew, TypeOK, Rows
  <2>3. ASSUME NEW release, IsCurrent(release), lease' = Freed(release)
        PROVE  lease'.version = lease.version + 1
    BY <2>3 DEF IsCurrent, NamesRow, Freed
  <2>4. ASSUME NEW w \in Workers, Release(w)
        PROVE  lease'.version = lease.version + 1
    BY <2>4, <2>3 DEF Release
  <2>5. CASE LateRelease
    BY <2>5, <2>3 DEF LateRelease
  <2> QED
    BY <2>1, <2>2, <2>4, <2>5
       DEF Next, Acquire, Hold, Start, Select, Held, Update, Conflict, RenewRejected,
           Die, Tick
<1> QED
  BY <1>1, Inductive, PTL DEF Spec, OneVersionPerChange

-------------------------------------------------------------------------------

\* Of two processes at work the one with the older acquisition is past the
\* expiry it was granted, and can neither renew nor release any more.
OverlapIsPastExpiry ==
  \A v, w \in Workers :
    pc[v] = "work" /\ pc[w] = "work" /\ v # w =>
      /\ handle[v].version # handle[w].version
      /\ handle[v].version < handle[w].version => handle[v].expires <= clock /\ ~Valid(v)

\* What the lease gives without a heartbeat, whatever the timeouts of the
\* processes are: not exclusion (LeaseExclusion fails), but every overlap is the
\* fault of a process that works on after its lease ran out.
THEOREM OverlapsFollowExpiry == Spec => []OverlapIsPastExpiry
<1>1. IInv => OverlapIsPastExpiry
  <2> SUFFICES ASSUME IInv, NEW v \in Workers, NEW w \in Workers,
                      pc[v] = "work", pc[w] = "work", v # w
               PROVE  /\ handle[v].version # handle[w].version
                      /\ handle[v].version < handle[w].version
                           => handle[v].expires <= clock /\ ~Valid(v)
    BY DEF OverlapIsPastExpiry
  <2>1. handle[v].version # handle[w].version
    BY DEF IInv, Distinct
  <2>2. ASSUME handle[v].version < handle[w].version
        PROVE  handle[v].expires <= clock /\ ~Valid(v)
    <3>1. handle[w].version <= lease.version
      BY DEF IInv, Superseded, TypeOK, Handles, Rows
    <3>2. handle[v].version # lease.version
      BY <2>2, <3>1 DEF IInv, TypeOK, Handles, Rows
    <3> QED
      BY <3>2 DEF IInv, Superseded, Valid, NamesRow, ReleaseOf
  <2> QED
    BY <2>1, <2>2
<1> QED
  BY <1>1, Inductive, PTL

-------------------------------------------------------------------------------
\* ---- PipelineRuns ----

Statuses == {"ABSENT", "RUNNING"} \cup Terminal
RowsOfRuns == [status : Statuses, inserted : Nat]
RunnerStates ==
  [pc : {"idle", "retry", "source", "load", "count", "commit", "combine", "finish"},
   run : Identities, attempt : Nat, store : BOOLEAN, fresh : {0, 1}, seen : Nat,
   outcome : {"SUCCEEDED", "NO_OP"}]
Commands == {"no", "get", "finish", "done"}
DagStates ==
  [stage : {"off", "loads", "success", "failed", "timeout"}, success : Commands,
   callback : Commands, successSeen : Nat, callbackSeen : Nat]
LoadStates ==
  [pc : {"todo", "merged", "done", "failed"}, in : BOOLEAN, fresh : {0, 1},
   attempt : Nat]

RunsTypeOK ==
  /\ rows \in [Identities -> RowsOfRuns]
  /\ runner \in RunnerStates
  /\ dag \in DagStates
  /\ load \in [Loads -> LoadStates]
  /\ merged \in [Identities -> Nat]
  /\ faults \in Nat

\* The loads that have merged a row and not yet said so, in any state of them.
OwingIn(ld) == {l \in Loads : ld[l].pc = "merged" /\ ld[l].fresh = 1}
InRawIn(ld) == {l \in Loads : ld[l].in}

\* The rows a run's children have merged and not yet added to its row.
Owed(id) ==
  IF id = DailyRun THEN Cardinality(OwingIn(load))
  ELSE IF id = runner.run /\ runner.pc = "count" THEN runner.fresh ELSE 0

\* What the row claims and what is owed to it is not more than the loads did.
NothingIsInvented ==
  \A id \in Identities : rows[id].inserted + Owed(id) <= merged[id]

\* It is all they did, unless a write was lost or the run has failed.
NothingIsForgotten ==
  \A id \in Identities :
    id \notin lossy /\ rows[id].status # "FAILED"
      => rows[id].inserted + Owed(id) = merged[id]

\* The row of the forward run: an observer has a row that is RUNNING.
Observed ==
  /\ runner.pc # "idle" =>
       runner.run # DailyRun /\ rows[runner.run].status \notin {"SUCCEEDED", "NO_OP"}
  /\ runner.pc \notin {"idle", "retry"} /\ runner.store
       => rows[runner.run].status = "RUNNING"
  /\ \A id \in Identities : id > runner.run => rows[id].status = "ABSENT"

\* What the runner finishes its row with.
SeenByRunner ==
  /\ runner.pc \notin {"idle", "retry", "finish"} => runner.seen = OwnInserted
  /\ runner.pc = "finish" =>
       /\ runner.seen <= merged[runner.run]
       /\ runner.store /\ runner.run \notin lossy
            => runner.seen = merged[runner.run]

\* What the daily commands finish theirs with.
SeenByCommands ==
  /\ dag.success = "finish" /\ rows[DailyRun].status = "RUNNING"
       => dag.successSeen = rows[DailyRun].inserted
  /\ dag.callback = "finish" /\ rows[DailyRun].status = "RUNNING"
       => dag.callbackSeen <= rows[DailyRun].inserted

\* The success command comes after all loads.
Succeeding ==
  /\ dag.stage = "off" => dag.success = "no" /\ dag.callback = "no"
  /\ dag.success # "no" => \A l \in Loads : load[l].pc = "done"
  /\ rows[DailyRun].status = "SUCCEEDED" => dag.success # "no"

Bookkeeping ==
  /\ \A id \in Identities : rows[id].status = "ABSENT" => rows[id].inserted = 0
  /\ merged[DailyRun] = Cardinality(InRawIn(load))

RunsInv ==
  /\ RunsTypeOK /\ NothingIsInvented /\ NothingIsForgotten /\ Observed
  /\ SeenByRunner /\ SeenByCommands /\ Succeeding /\ Bookkeeping

-------------------------------------------------------------------------------

USE HistoryAssumption

LEMMA IdentitiesAreNaturals ==
  /\ DailyRun \in Identities
  /\ \A id \in Identities : id \in Nat
BY DEF Identities, DailyRun

\* What the statements of the store do to the table, row by row.
LEMMA TableWrites ==
  ASSUME RunsTypeOK, NEW id \in Identities, NEW n \in Nat, NEW status \in Statuses
  PROVE  /\ Started(id) \in [Identities -> RowsOfRuns]
         /\ Finished(id, status, n) \in [Identities -> RowsOfRuns]
         /\ Incremented(id, n) \in [Identities -> RowsOfRuns]
         /\ \A other \in Identities : other # id =>
              /\ Started(id)[other] = rows[other]
              /\ Finished(id, status, n)[other] = rows[other]
              /\ Incremented(id, n)[other] = rows[other]
         /\ Started(id)[id].status = "RUNNING" /\ Started(id)[id].inserted = 0
         /\ rows[id].status # "RUNNING" =>
              Finished(id, status, n) = rows /\ Incremented(id, n) = rows
         /\ rows[id].status = "RUNNING" =>
              /\ Finished(id, status, n)[id].status = status
              /\ Finished(id, status, n)[id].inserted = n
              /\ Incremented(id, n)[id].status = "RUNNING"
              /\ Incremented(id, n)[id].inserted = rows[id].inserted + n
<1> DEFINE started == [status |-> "RUNNING", inserted |-> 0]
           finished == [status |-> status, inserted |-> n]
           counted == [status |-> rows[id].status, inserted |-> rows[id].inserted + n]
<1> USE DEF RunsTypeOK
<1>1. started \in RowsOfRuns /\ finished \in RowsOfRuns /\ counted \in RowsOfRuns
  BY DEF RowsOfRuns, Statuses
<1>2. Started(id) = [rows EXCEPT ![id] = started]
  BY DEF Started
<1>3. rows[id].status # "RUNNING" => Finished(id, status, n) = rows
  BY DEF Finished
<1>4. rows[id].status # "RUNNING" => Incremented(id, n) = rows
  <2>1. [rows[id] EXCEPT !.inserted = rows[id].inserted] = rows[id]
    BY DEF RowsOfRuns
  <2> QED
    BY <2>1 DEF Incremented
<1>5. rows[id].status = "RUNNING" => Finished(id, status, n) = [rows EXCEPT ![id] = finished]
  BY DEF Finished
<1>7. rows[id].status = "RUNNING" => Incremented(id, n) = [rows EXCEPT ![id] = counted]
  <2>1. ASSUME rows[id].status = "RUNNING"
        PROVE  /\ Incremented(id, n)
                    = [rows EXCEPT ![id].inserted = rows[id].inserted + n]
               /\ rows[id].inserted + n \in Nat
    BY <2>1 DEF Incremented, RowsOfRuns
  <2> QED
    BY <2>1 DEF RowsOfRuns
<1>8. /\ started.status = "RUNNING" /\ started.inserted = 0
      /\ finished.status = status /\ finished.inserted = n
      /\ counted.status = rows[id].status /\ counted.inserted = rows[id].inserted + n
  OBVIOUS
<1> HIDE DEF started, finished, counted, RowsOfRuns
<1> QED
  BY <1>1, <1>2, <1>3, <1>4, <1>5, <1>7, <1>8, ZenonT(40)

\* The additions of a load, made or lost.
LEMMA Counting ==
  ASSUME RunsTypeOK, NEW id \in Identities, NEW n \in Nat, Count(id, n)
  PROVE  /\ rows' \in [Identities -> RowsOfRuns]
         /\ faults' \in Nat
         /\ lossy \subseteq lossy'
         /\ \A other \in Identities :
              /\ rows'[other].status = rows[other].status
              /\ other # id => rows'[other] = rows[other]
              /\ other \notin lossy /\ other # id => other \notin lossy'
         /\ id \notin lossy' => rows'[id].inserted = rows[id].inserted + n
         /\ \/ rows'[id].inserted = rows[id].inserted
            \/ rows'[id].inserted = rows[id].inserted + n
         /\ rows[id].status \in {"ABSENT"} \cup Terminal => rows' = rows
<1>1. PICK status \in Statuses : TRUE
  BY DEF Statuses
<1>2. rows' = Incremented(id, n) \/ rows' = rows
  BY DEF Count
<1>3. faults' \in Nat
  BY DEF Count, RunsTypeOK
<1>4. /\ lossy' = lossy \/ lossy' = lossy \cup {id}
      /\ id \notin lossy' => rows' = Incremented(id, n) /\ rows[id].status = "RUNNING"
  BY DEF Count
<1>5. rows \in [Identities -> RowsOfRuns]
  BY DEF RunsTypeOK
<1> QED
  BY <1>2, <1>3, <1>4, <1>5, TableWrites DEF Terminal

LEMMA OwedIsNatural ==
  ASSUME RunsTypeOK
  PROVE  /\ \A id \in Identities : Owed(id) \in Nat
         /\ IsFiniteSet(OwingIn(load)) /\ IsFiniteSet(InRawIn(load))
<1>1. IsFiniteSet(OwingIn(load)) /\ IsFiniteSet(InRawIn(load))
  BY FS_Subset DEF OwingIn, InRawIn
<1>2. Cardinality(OwingIn(load)) \in Nat
  BY <1>1, FS_CardinalityType
<1>3. runner.fresh \in Nat
  BY DEF RunsTypeOK, RunnerStates
<1> QED
  BY <1>1, <1>2, <1>3 DEF Owed

\* A step of the runner touches nothing of the daily run.
LEMMA RunnerFrame ==
  ASSUME RunsInv, RunsTypeOK', UNCHANGED <<dag, load>>,
         rows'[DailyRun] = rows[DailyRun], merged'[DailyRun] = merged[DailyRun],
         DailyRun \in lossy' <=> DailyRun \in lossy
  PROVE  /\ SeenByCommands' /\ Succeeding'
         /\ merged'[DailyRun] = Cardinality(InRawIn(load'))
         /\ Owed(DailyRun)' = Owed(DailyRun)
         /\ rows'[DailyRun].inserted + Owed(DailyRun)' <= merged'[DailyRun]
         /\ DailyRun \notin lossy' /\ rows'[DailyRun].status # "FAILED"
              => rows'[DailyRun].inserted + Owed(DailyRun)' = merged'[DailyRun]
<1> USE IdentitiesAreNaturals DEF RunsInv
<1>1. load' = load /\ dag' = dag
  OBVIOUS
<1>2. SeenByCommands'
  BY <1>1 DEF SeenByCommands
<1>3. Succeeding'
  BY <1>1 DEF Succeeding
<1>4. merged'[DailyRun] = Cardinality(InRawIn(load'))
  BY <1>1 DEF Bookkeeping
<1>5. Owed(DailyRun)' = Owed(DailyRun)
  BY <1>1 DEF Owed
<1> QED
  BY <1>2, <1>3, <1>4, <1>5 DEF NothingIsInvented, NothingIsForgotten

\* A step of the daily run touches nothing of the forward runs.
LEMMA DailyFrame ==
  ASSUME RunsInv, RunsTypeOK', runner' = runner,
         \A id \in Identities : id # DailyRun =>
           /\ rows'[id] = rows[id] /\ merged'[id] = merged[id]
           /\ id \in lossy' <=> id \in lossy
  PROVE  /\ Observed' /\ SeenByRunner'
         /\ \A id \in Identities : id # DailyRun =>
              /\ rows'[id].inserted + Owed(id)' <= merged'[id]
              /\ id \notin lossy' /\ rows'[id].status # "FAILED"
                   => rows'[id].inserted + Owed(id)' = merged'[id]
<1> USE IdentitiesAreNaturals DEF RunsInv
<1>1. runner.run \in Identities
  BY DEF RunsTypeOK, RunnerStates
<1>2. \A id \in Identities : id > runner.run => id # DailyRun
  BY <1>1 DEF DailyRun
<1>3. Observed'
  BY <1>1, <1>2 DEF Observed
<1>4. runner.pc = "finish" => runner.run # DailyRun
  BY DEF Observed
<1>5. SeenByRunner'
  BY <1>1, <1>4 DEF SeenByRunner
<1>6. \A id \in Identities : id # DailyRun => Owed(id)' = Owed(id)
  BY DEF Owed
<1> QED
  BY <1>3, <1>5, <1>6 DEF NothingIsInvented, NothingIsForgotten

\* The beginning of an attempt, observed or not.
LEMMA ObserveStep ==
  ASSUME RunsInv, NEW run \in Identities, run # DailyRun, NEW attempt \in Nat,
         Observe(run, attempt),
         runner.pc \in {"idle", "retry"}, run >= runner.run,
         rows[run].status \notin {"SUCCEEDED", "NO_OP"},
         UNCHANGED <<dag, load, merged, lossy>>
  PROVE  RunsInv'
<1> USE IdentitiesAreNaturals
<1> USE DEF RunsInv
<1>1. /\ rows' = rows \/ (rows' = Started(run) /\ rows[run].status = "ABSENT")
      /\ runner'.store => rows' = Started(run)
  BY DEF Observe, CanStart, Idle
<1>2. /\ rows' \in [Identities -> RowsOfRuns]
      /\ \A id \in Identities : id # run => rows'[id] = rows[id]
      /\ rows' = rows \/ (/\ rows'[run].status = "RUNNING" /\ rows'[run].inserted = 0
                          /\ rows[run].status = "ABSENT")
      /\ runner'.store => rows'[run].status = "RUNNING"
  <2>1. 0 \in Nat /\ "FAILED" \in Statuses
    BY DEF Statuses, Terminal
  <2>2. rows \in [Identities -> RowsOfRuns]
    BY DEF RunsTypeOK
  <2> QED
    BY <1>1, <2>1, <2>2, TableWrites
<1>3. /\ runner' \in RunnerStates
      /\ runner'.pc = "source" /\ runner'.run = run /\ runner'.seen = 0
  <2>1. CanStart(run) \in BOOLEAN
    BY DEF CanStart
  <2>2. \/ runner' = [Idle EXCEPT !.pc = "source", !.run = run, !.attempt = attempt,
                                  !.store = CanStart(run)]
        \/ runner' = [Idle EXCEPT !.pc = "source", !.run = run, !.attempt = attempt]
    BY Zenon DEF Observe
  <2>3. Idle \in RunnerStates
    BY DEF Idle, RunnerStates, DailyRun
  <2>4. \A store \in BOOLEAN :
          LET attempted == [Idle EXCEPT !.pc = "source", !.run = run,
                                        !.attempt = attempt, !.store = store]
          IN  attempted \in RunnerStates /\ attempted.pc = "source" /\ attempted.run = run
              /\ attempted.seen = 0
    BY <2>3 DEF RunnerStates, Idle
  <2>5. LET attempted == [Idle EXCEPT !.pc = "source", !.run = run, !.attempt = attempt]
        IN  attempted \in RunnerStates /\ attempted.pc = "source" /\ attempted.run = run
              /\ attempted.seen = 0
    BY <2>3 DEF RunnerStates, Idle
  <2> QED
    BY <2>1, <2>2, <2>4, <2>5
<1>4. RunsTypeOK'
  <2>1. faults' \in Nat
    BY DEF Observe, RunsTypeOK
  <2> QED
    BY <1>2, <1>3, <2>1 DEF RunsTypeOK
<1>5. rows[run].status = "ABSENT" => rows[run].inserted = 0
  BY DEF Bookkeeping
<1>6. rows'[DailyRun] = rows[DailyRun]
  BY <1>2
<1>7. \A id \in Identities : id # DailyRun => Owed(id) = 0 /\ Owed(id)' = 0
  BY <1>3 DEF Owed
<1>8. \A id \in Identities : rows'[id].inserted = rows[id].inserted
  BY <1>2, <1>5
<1>9. \A id \in Identities : rows'[id].status = "FAILED" <=> rows[id].status = "FAILED"
  BY <1>2
<1>10. NothingIsInvented' /\ NothingIsForgotten' /\ SeenByCommands' /\ Succeeding'
       /\ merged'[DailyRun] = Cardinality(InRawIn(load'))
  <2>1. \A id \in Identities : Owed(id)' = Owed(id)
    BY <1>4, <1>6, <1>7, RunnerFrame
  <2> QED
    BY <1>4, <1>6, <1>8, <1>9, <2>1, RunnerFrame DEF NothingIsInvented, NothingIsForgotten
<1>11. Observed'
  <2>1. \A id \in Identities : id > run => id # run /\ id > runner.run
    BY DEF RunsTypeOK, RunnerStates
  <2> QED
    BY <1>2, <1>3, <2>1 DEF Observed
<1>12. SeenByRunner'
  BY <1>3 DEF SeenByRunner, OwnInserted
<1>13. \A id \in Identities : rows'[id].status = "ABSENT" => rows'[id].inserted = 0
  BY <1>2 DEF Bookkeeping
<1> QED
  BY <1>4, <1>10, <1>11, <1>12, <1>13 DEF Bookkeeping

LEMMA IdleIsARunnerState ==
  /\ Idle \in RunnerStates
  /\ \A run \in Identities : [Idle EXCEPT !.run = run] \in RunnerStates
BY IdentitiesAreNaturals DEF Idle, RunnerStates, DailyRun

\* The end of an attempt of the runner, whichever it is: it leaves the row as
\* it was, or finishes it.
LEMMA EndOfAttempt ==
  ASSUME RunsInv, runner.pc \notin {"idle", "retry"},
         NEW status \in Terminal, NEW n \in Nat,
         UNCHANGED <<dag, load, merged>>,
         \/ rows' = rows
         \/ runner.store /\ rows' = Finished(runner.run, status, n),
         status # "FAILED" => runner' = [Idle EXCEPT !.run = runner.run],
         runner' \in {[Idle EXCEPT !.run = runner.run], [runner EXCEPT !.pc = "retry"]},
         n <= merged[runner.run],
         status # "FAILED" /\ runner.store /\ runner.run \notin lossy => n = merged[runner.run],
         lossy' = lossy \/ lossy' = lossy \cup {runner.run},
         runner.pc = "count" => runner.run \in lossy',
         faults' \in Nat
  PROVE  RunsInv'
<1> USE IdentitiesAreNaturals
<1> USE DEF RunsInv
<1>0. PICK run \in Identities : run = runner.run
  BY DEF RunsTypeOK, RunnerStates
<1>1. runner \in RunnerStates /\ run # DailyRun
  BY <1>0 DEF RunsTypeOK, Observed
<1>2. /\ runner' \in RunnerStates
      /\ runner'.run = run /\ runner'.pc \in {"idle", "retry"}
      /\ status # "FAILED" => runner'.pc = "idle"
  <2>1. [Idle EXCEPT !.run = run] \in RunnerStates
    BY <1>0, <1>1, IdleIsARunnerState
  <2>2. /\ [Idle EXCEPT !.run = run].run = run
        /\ [Idle EXCEPT !.run = run].pc = "idle"
    BY <1>0 DEF Idle
  <2>3. [runner EXCEPT !.pc = "retry"] \in RunnerStates
    BY <1>0, <1>1 DEF RunnerStates
  <2>4. /\ [runner EXCEPT !.pc = "retry"].run = run
        /\ [runner EXCEPT !.pc = "retry"].pc = "retry"
    BY <1>0, <1>1 DEF RunnerStates
  <2>5. CASE runner' = [Idle EXCEPT !.run = run]
    BY <1>0, <2>1, <2>2, <2>5
  <2>6. CASE runner' = [runner EXCEPT !.pc = "retry"] /\ status = "FAILED"
    BY <1>0, <2>3, <2>4, <2>6
  <2> QED
    BY <1>0, <2>5, <2>6
<1>3. /\ rows' \in [Identities -> RowsOfRuns]
      /\ \A id \in Identities : id # run => rows'[id] = rows[id]
      /\ \/ rows' = rows
         \/ /\ runner.store /\ rows[run].status = "RUNNING"
            /\ rows'[run].status = status /\ rows'[run].inserted = n
  <2>1. rows \in [Identities -> RowsOfRuns] /\ status \in Statuses
    BY DEF RunsTypeOK, Statuses
  <2> QED
    BY <1>0, <1>1, <2>1, TableWrites
<1>4. RunsTypeOK'
  BY <1>0, <1>2, <1>3 DEF RunsTypeOK
<1>5. /\ rows'[DailyRun] = rows[DailyRun] /\ merged'[DailyRun] = merged[DailyRun]
      /\ DailyRun \in lossy' <=> DailyRun \in lossy
  BY <1>0, <1>1, <1>3
<1>6. \A id \in Identities : id # DailyRun => Owed(id)' = 0 /\ Owed(id) \in Nat
  BY <1>0, <1>2, OwedIsNatural DEF Owed
<1>7. \A id \in Identities : id # DailyRun /\ id # run => Owed(id) = 0
  BY <1>0 DEF Owed
<1>8. run \notin lossy' => Owed(run) = 0
  BY <1>0, <1>1 DEF Owed
<1>9. /\ \A id \in Identities : rows[id].inserted \in Nat /\ merged[id] \in Nat
      /\ lossy \subseteq lossy'
  BY <1>0 DEF RunsTypeOK, RowsOfRuns
<1>10. NothingIsInvented'
  <2>1. \A id \in Identities : id # DailyRun =>
          rows'[id].inserted + Owed(id)' <= merged'[id]
    BY <1>0, <1>3, <1>6, <1>9 DEF NothingIsInvented
  <2> QED
    BY <1>0, <1>4, <1>5, <2>1, RunnerFrame DEF NothingIsInvented
<1>11. NothingIsForgotten'
  <2>1. ASSUME NEW id \in Identities, id # DailyRun, id # run, id \notin lossy',
               rows'[id].status # "FAILED"
        PROVE  rows'[id].inserted + Owed(id)' = merged'[id]
    BY <1>0, <1>3, <1>6, <1>7, <1>9, <2>1 DEF NothingIsForgotten
  <2>2. ASSUME run \notin lossy', rows'[run].status # "FAILED"
        PROVE  rows'[run].inserted + Owed(run)' = merged'[run]
    <3>1. Owed(run)' = 0 /\ Owed(run) = 0 /\ run \notin lossy
      BY <1>0, <1>1, <1>6, <1>8, <1>9, <2>2
    <3>2. CASE rows' = rows
      BY <1>0, <1>1, <1>9, <2>2, <3>1, <3>2 DEF NothingIsForgotten
    <3>3. CASE runner.store /\ rows'[run].status = status /\ rows'[run].inserted = n
      BY <1>0, <1>1, <1>9, <2>2, <3>1, <3>3
    <3> QED
      BY <1>0, <1>3, <3>2, <3>3
  <2> QED
    BY <1>0, <1>4, <1>5, <2>1, <2>2, RunnerFrame DEF NothingIsForgotten
<1>12. Observed'
  <2>1. \A id \in Identities : id > run => id # run
    BY <1>0, <1>1
  <2>2. runner'.pc # "idle" => rows'[run].status \notin {"SUCCEEDED", "NO_OP"}
    BY <1>0, <1>2, <1>3 DEF Observed, Terminal
  <2> QED
    BY <1>0, <1>1, <1>2, <1>3, <2>1, <2>2 DEF Observed
<1>13. SeenByRunner'
  BY <1>0, <1>2 DEF SeenByRunner
<1>14. \A id \in Identities : rows'[id].status = "ABSENT" => rows'[id].inserted = 0
  BY <1>0, <1>3 DEF Bookkeeping, Terminal
<1> QED
  BY <1>0, <1>4, <1>5, <1>10, <1>11, <1>12, <1>13, <1>14, RunnerFrame DEF Bookkeeping

\* A step within an attempt: it merges, counts or reads, and stays observed.
LEMMA WithinAttempt ==
  ASSUME RunsInv, runner.pc \notin {"idle", "retry"}, NEW run \in Identities,
         run = runner.run,
         RunsTypeOK', UNCHANGED <<dag, load>>,
         runner'.run = run, runner'.store = runner.store,
         runner'.pc \notin {"idle", "retry"},
         \A id \in Identities :
           /\ rows'[id].status = rows[id].status
           /\ id # run => rows'[id] = rows[id] /\ merged'[id] = merged[id]
           /\ id \notin lossy /\ id # run => id \notin lossy',
         lossy \subseteq lossy',
         rows[run].status = "ABSENT" => rows'[run] = rows[run],
         rows'[run].inserted + Owed(run)' <= merged'[run],
         run \notin lossy' /\ rows[run].status # "FAILED"
           => rows'[run].inserted + Owed(run)' = merged'[run],
         SeenByRunner'
  PROVE  RunsInv'
<1> USE IdentitiesAreNaturals
<1> USE DEF RunsInv
<1>1. run # DailyRun
  BY DEF Observed
<1>2. \A id \in Identities : id # DailyRun /\ id # run => Owed(id) = 0 /\ Owed(id)' = 0
  BY DEF Owed
<1>3. \A id \in Identities : id \in lossy' /\ id # run <=> id \in lossy /\ id # run
  OBVIOUS
<1>4. /\ rows'[DailyRun] = rows[DailyRun] /\ merged'[DailyRun] = merged[DailyRun]
      /\ DailyRun \in lossy' <=> DailyRun \in lossy
  BY <1>1, <1>3
<1>5. NothingIsInvented'
  <2>1. \A id \in Identities : id # DailyRun =>
          rows'[id].inserted + Owed(id)' <= merged'[id]
    BY <1>2 DEF NothingIsInvented
  <2> QED
    BY <1>4, <2>1, RunnerFrame DEF NothingIsInvented
<1>6. NothingIsForgotten'
  <2>1. \A id \in Identities :
          id # DailyRun /\ id \notin lossy' /\ rows'[id].status # "FAILED"
            => rows'[id].inserted + Owed(id)' = merged'[id]
    BY <1>2, <1>3 DEF NothingIsForgotten
  <2> QED
    BY <1>4, <2>1, RunnerFrame DEF NothingIsForgotten
<1>7. Observed'
  BY DEF Observed
<1>8. \A id \in Identities : rows'[id].status = "ABSENT" => rows'[id].inserted = 0
  BY DEF Bookkeeping
<1> QED
  BY <1>4, <1>5, <1>6, <1>7, <1>8, RunnerFrame DEF Bookkeeping

LEMMA CaptureStep ==
  ASSUME RunsInv, Capture \/ RunCommit
  PROVE  RunsInv'
<1> USE IdentitiesAreNaturals
<1> USE DEF RunsInv
<1>1. PICK run \in Identities : run = runner.run
  BY DEF RunsTypeOK, RunnerStates
<1>2. /\ runner.pc \in {"source", "commit"}
      /\ UNCHANGED <<rows, dag, load, merged, lossy, faults>>
      /\ runner' \in RunnerStates /\ runner'.run = run /\ runner'.store = runner.store
      /\ runner'.pc \in {"load", "combine"} /\ runner'.seen = runner.seen
  <2>1. runner \in RunnerStates
    BY DEF RunsTypeOK
  <2> QED
    BY <1>1, <2>1, ZenonT(40) DEF Capture, RunCommit, RunnerStates
<1>3. RunsTypeOK'
  BY <1>2 DEF RunsTypeOK
<1>4. Owed(run) = 0 /\ Owed(run)' = 0
  BY <1>1, <1>2 DEF Owed, Observed
<1>5. SeenByRunner'
  BY <1>2 DEF SeenByRunner
<1> QED
  BY <1>1, <1>2, <1>3, <1>4, <1>5, WithinAttempt DEF NothingIsInvented, NothingIsForgotten

LEMMA RunLoadStep ==
  ASSUME RunsInv, RunLoad
  PROVE  RunsInv'
<1> USE IdentitiesAreNaturals
<1> USE DEF RunsInv
<1>1. PICK run \in Identities : run = runner.run
  BY DEF RunsTypeOK, RunnerStates
<1>2. PICK n \in {0, 1} :
        /\ merged' = [merged EXCEPT ![run] = @ + n]
        /\ runner' = [runner EXCEPT !.pc = "count", !.fresh = n]
  BY <1>1 DEF RunLoad
<1>3. runner.pc = "load" /\ UNCHANGED <<rows, dag, load, lossy, faults>>
  BY DEF RunLoad
<1>4. /\ runner' \in RunnerStates /\ runner'.run = run /\ runner'.store = runner.store
      /\ runner'.pc = "count" /\ runner'.fresh = n /\ runner'.seen = runner.seen
  <2>1. runner \in RunnerStates
    BY DEF RunsTypeOK
  <2> QED
    BY <1>1, <1>2, <2>1 DEF RunnerStates
<1>5. /\ merged' \in [Identities -> Nat] /\ merged'[run] = merged[run] + n
      /\ \A id \in Identities : id # run => merged'[id] = merged[id]
  BY <1>2 DEF RunsTypeOK
<1>6. RunsTypeOK'
  BY <1>3, <1>4, <1>5 DEF RunsTypeOK
<1>7. Owed(run) = 0 /\ Owed(run)' = n
  BY <1>1, <1>3, <1>4 DEF Owed, Observed
<1>8. rows[run].inserted \in Nat /\ merged[run] \in Nat
  BY DEF RunsTypeOK, RowsOfRuns
<1>9. SeenByRunner'
  BY <1>3, <1>4 DEF SeenByRunner
<1>10. /\ rows[run].inserted + n <= merged'[run]
       /\ run \notin lossy' /\ rows[run].status # "FAILED"
            => rows'[run].inserted + n = merged'[run]
  BY <1>3, <1>5, <1>7, <1>8 DEF NothingIsInvented, NothingIsForgotten
<1> QED
  BY <1>1, <1>3, <1>4, <1>5, <1>6, <1>7, <1>9, <1>10, WithinAttempt

LEMMA RunCountStep ==
  ASSUME RunsInv, RunCount
  PROVE  RunsInv'
<1> USE IdentitiesAreNaturals
<1> USE DEF RunsInv
<1>1. PICK run \in Identities : run = runner.run
  BY DEF RunsTypeOK, RunnerStates
<1>2. PICK n \in {0, 1} : n = runner.fresh
  BY DEF RunsTypeOK, RunnerStates
<1>3. /\ runner.pc = "count" /\ Count(run, n)
      /\ runner' = [runner EXCEPT !.pc = "commit"]
      /\ UNCHANGED <<dag, load, merged>>
  BY <1>1, <1>2 DEF RunCount
<1>4. /\ runner' \in RunnerStates /\ runner'.run = run /\ runner'.store = runner.store
      /\ runner'.pc = "commit" /\ runner'.seen = runner.seen
  <2>1. runner \in RunnerStates
    BY DEF RunsTypeOK
  <2> QED
    BY <1>1, <1>3, <2>1 DEF RunnerStates
<1>5. /\ rows' \in [Identities -> RowsOfRuns]
      /\ faults' \in Nat
      /\ lossy \subseteq lossy'
      /\ \A id \in Identities :
           /\ rows'[id].status = rows[id].status
           /\ id # run => rows'[id] = rows[id]
           /\ id \notin lossy /\ id # run => id \notin lossy'
      /\ run \notin lossy' => rows'[run].inserted = rows[run].inserted + n
      /\ \/ rows'[run].inserted = rows[run].inserted
         \/ rows'[run].inserted = rows[run].inserted + n
      /\ rows[run].status = "ABSENT" => rows' = rows
  BY <1>3, Counting
<1>6. RunsTypeOK'
  BY <1>3, <1>4, <1>5 DEF RunsTypeOK
<1>7. Owed(run) = n /\ Owed(run)' = 0
  BY <1>1, <1>2, <1>3, <1>4 DEF Owed, Observed
<1>8. rows[run].inserted \in Nat /\ merged[run] \in Nat
  BY DEF RunsTypeOK, RowsOfRuns
<1>9. SeenByRunner'
  BY <1>3, <1>4 DEF SeenByRunner
<1>10. /\ rows'[run].inserted + 0 <= merged'[run]
       /\ run \notin lossy' /\ rows[run].status # "FAILED"
            => rows'[run].inserted + 0 = merged'[run]
  BY <1>3, <1>5, <1>7, <1>8 DEF NothingIsInvented, NothingIsForgotten
<1> QED
  BY <1>1, <1>3, <1>4, <1>5, <1>6, <1>7, <1>9, <1>10, WithinAttempt

LEMMA CombineStep ==
  ASSUME RunsInv, Combine
  PROVE  RunsInv'
<1> USE IdentitiesAreNaturals
<1> USE DEF RunsInv
<1>1. PICK run \in Identities : run = runner.run
  BY DEF RunsTypeOK, RunnerStates
<1>2. rows[run].inserted \in Nat /\ merged[run] \in Nat /\ runner \in RunnerStates
  BY DEF RunsTypeOK, RowsOfRuns
<1>3. runner.pc = "combine" /\ runner.seen = 0 /\ UNCHANGED <<rows, dag, load, merged>>
  BY DEF Combine, SeenByRunner, OwnInserted
<1>4. PICK n \in {0, rows[run].inserted} :
        /\ runner' = [runner EXCEPT !.pc = "finish", !.seen = n]
        /\ runner.store /\ run \notin lossy' => n = rows[run].inserted
        /\ lossy' = lossy \/ lossy' = lossy \cup {run}
        /\ faults' \in Nat
  <2>1. CASE /\ runner' = [runner EXCEPT !.pc = "finish",
                             !.seen = IF runner.store
                                      THEN OwnInserted + rows[runner.run].inserted
                                      ELSE OwnInserted]
             /\ UNCHANGED <<lossy, faults>>
    <3> DEFINE m == IF runner.store THEN OwnInserted + rows[run].inserted ELSE OwnInserted
    <3>1. m \in {0, rows[run].inserted} /\ (runner.store => m = rows[run].inserted)
      BY <1>2 DEF OwnInserted
    <3>2. runner' = [runner EXCEPT !.pc = "finish", !.seen = m]
      BY <1>1, <2>1
    <3>3. lossy' = lossy /\ faults' \in Nat
      BY <2>1 DEF RunsTypeOK
    <3> HIDE DEF m
    <3> QED
      BY <3>1, <3>2, <3>3
  <2>2. CASE /\ faults' = faults + 1
             /\ lossy' = lossy \cup {runner.run}
             /\ runner' = [runner EXCEPT !.pc = "finish"]
    <3>1. [runner EXCEPT !.pc = "finish"] = [runner EXCEPT !.pc = "finish", !.seen = 0]
      BY <1>2, <1>3 DEF RunnerStates
    <3> QED
      BY <1>1, <1>2, <2>2, <3>1 DEF RunsTypeOK
  <2> QED
    BY <2>1, <2>2 DEF Combine
<1>5. /\ runner' \in RunnerStates /\ runner'.run = run /\ runner'.store = runner.store
      /\ runner'.pc = "finish" /\ runner'.seen = n
  <2>1. n \in Nat
    BY <1>2, <1>4
  <2> QED
    BY <1>1, <1>2, <1>4, <2>1 DEF RunnerStates
<1>6. RunsTypeOK'
  BY <1>3, <1>4, <1>5 DEF RunsTypeOK
<1>7. Owed(run) = 0 /\ Owed(run)' = 0
  BY <1>1, <1>3, <1>5 DEF Owed, Observed
<1>8. /\ rows[run].inserted <= merged[run]
      /\ run \notin lossy /\ rows[run].status # "FAILED" => rows[run].inserted = merged[run]
  BY <1>2, <1>7 DEF NothingIsInvented, NothingIsForgotten
<1>9. SeenByRunner'
  <2>1. runner.store => rows[run].status = "RUNNING"
    BY <1>1, <1>3 DEF Observed
  <2>2. n <= merged[run]
    BY <1>2, <1>4, <1>8
  <2>3. runner.store /\ run \notin lossy' => n = merged[run]
    BY <1>4, <1>8, <2>1
  <2> QED
    BY <1>3, <1>5, <2>2, <2>3 DEF SeenByRunner
<1> QED
  BY <1>1, <1>2, <1>3, <1>4, <1>5, <1>6, <1>7, <1>8, <1>9, WithinAttempt

\* The four ways an attempt ends.
LEMMA EndStep ==
  ASSUME RunsInv, FinishRun \/ FailRun \/ KillRun
  PROVE  RunsInv'
<1> USE DEF RunsInv
<1>1. runner.pc \notin {"idle", "retry"} /\ UNCHANGED <<dag, load, merged>>
  BY DEF FinishRun, FailRun, KillRun, Working
<1>2. runner \in RunnerStates /\ faults' \in Nat
  BY DEF RunsTypeOK, FinishRun, FailRun, KillRun
<1>3. merged[runner.run] \in Nat
  BY DEF RunsTypeOK, RunnerStates
<1>4. CASE FinishRun
  <2>1. PICK status \in Terminal, n \in Nat : status = runner.outcome /\ n = runner.seen
    BY <1>2 DEF RunnerStates, Terminal
  <2>2. status # "FAILED"
    BY <1>2, <2>1 DEF RunnerStates
  <2>3. /\ n <= merged[runner.run]
        /\ runner.store /\ runner.run \notin lossy => n = merged[runner.run]
    BY <1>4, <2>1 DEF FinishRun, SeenByRunner
  <2>4. /\ rows' = rows \/ (runner.store /\ rows' = Finished(runner.run, status, n))
        /\ runner' = [Idle EXCEPT !.run = runner.run]
        /\ lossy' = lossy /\ runner.pc = "finish"
    <3>1. rows' = rows \/ (runner.store /\ rows' = Finished(runner.run, runner.outcome, runner.seen))
      BY <1>4 DEF FinishRun
    <3> QED
      BY <1>4, <2>1, <3>1 DEF FinishRun
  <2> QED
    BY <1>1, <1>2, <2>1, <2>2, <2>3, <2>4, EndOfAttempt
<1>5. CASE FailRun \/ KillRun
  <2>1. /\ rows' = rows \/ (runner.store /\ rows' = Finished(runner.run, "FAILED", 0))
        /\ runner' \in {[Idle EXCEPT !.run = runner.run], [runner EXCEPT !.pc = "retry"]}
        /\ lossy' = lossy \/ lossy' = lossy \cup {runner.run}
        /\ runner.pc = "count" => runner.run \in lossy'
    <3>1. rows' = rows \/ (runner.store /\ rows' = Finished(runner.run, "FAILED", 0))
      BY <1>5 DEF FailRun, KillRun
    <3>2. runner' \in {[Idle EXCEPT !.run = runner.run], [runner EXCEPT !.pc = "retry"]}
      BY <1>5 DEF FailRun, KillRun, Ended
    <3>3. /\ lossy' = lossy \/ lossy' = lossy \cup {runner.run}
          /\ runner.pc = "count" => runner.run \in lossy'
      BY <1>5 DEF FailRun, KillRun
    <3> QED
      BY <3>1, <3>2, <3>3
  <2>2. "FAILED" \in Terminal /\ 0 \in Nat /\ 0 <= merged[runner.run]
    BY <1>3 DEF Terminal
  <2> QED
    BY <1>1, <1>2, <2>1, <2>2, EndOfAttempt
<1> QED
  BY <1>4, <1>5

LEMMA StartStep ==
  ASSUME RunsInv, StartRun \/ RetryRun
  PROVE  RunsInv'
<1> USE IdentitiesAreNaturals
<1> USE DEF RunsInv
<1>1. runner \in RunnerStates
  BY DEF RunsTypeOK
<1>2. CASE StartRun
  <2>1. PICK run \in Identities : run = runner.run + 1
    BY <1>1, <1>2 DEF StartRun, RunnerStates, Identities
  <2>2. run # DailyRun /\ run > runner.run
    BY <1>1, <2>1 DEF RunnerStates, Identities, DailyRun
  <2>3. rows[run].status = "ABSENT"
    BY <2>2 DEF Observed
  <2>4. Observe(run, 1) /\ runner.pc = "idle" /\ UNCHANGED <<dag, load, merged, lossy>>
    BY <1>2, <2>1 DEF StartRun
  <2> QED
    BY <1>1, <2>2, <2>3, <2>4, ObserveStep DEF RunnerStates
<1>3. CASE RetryRun
  <2>1. PICK run \in Identities : run = runner.run
    BY <1>1 DEF RunnerStates
  <2>2. PICK attempt \in Nat : attempt = runner.attempt + 1
    BY <1>1 DEF RunnerStates
  <2>3. Observe(run, attempt) /\ runner.pc = "retry" /\ UNCHANGED <<dag, load, merged, lossy>>
    BY <1>3, <2>1, <2>2 DEF RetryRun
  <2>4. run # DailyRun /\ rows[run].status \notin {"SUCCEEDED", "NO_OP"}
    BY <2>1, <2>3 DEF Observed
  <2> QED
    BY <2>1, <2>3, <2>4, ObserveStep
<1> QED
  BY <1>2, <1>3

LEMMA OneElementMore ==
  ASSUME NEW S, NEW T, IsFiniteSet(S), IsFiniteSet(T), NEW x,
         \A y : y # x => (y \in S <=> y \in T)
  PROVE  /\ (x \in S <=> x \in T) => Cardinality(T) = Cardinality(S)
         /\ x \notin S /\ x \in T => Cardinality(T) = Cardinality(S) + 1
<1>1. (x \in S <=> x \in T) => T = S
  OBVIOUS
<1>2. x \notin S /\ x \in T => T = S \cup {x}
  OBVIOUS
<1>3. x \notin S => Cardinality(S \cup {x}) = Cardinality(S) + 1
  BY FS_AddElement
<1> QED
  BY <1>1, <1>2, <1>3

\* What one load's step does to the two counts.
LEMMA OneLoad ==
  ASSUME RunsTypeOK, NEW ld \in [Loads -> LoadStates], NEW l \in Loads,
         \A k \in Loads : k # l => ld[k] = load[k]
  PROVE  /\ Cardinality(OwingIn(ld)) \in Nat /\ Cardinality(OwingIn(load)) \in Nat
         /\ Cardinality(InRawIn(ld)) \in Nat /\ Cardinality(InRawIn(load)) \in Nat
         /\ (l \in OwingIn(load) <=> l \in OwingIn(ld))
              => Cardinality(OwingIn(ld)) = Cardinality(OwingIn(load))
         /\ l \notin OwingIn(load) /\ l \in OwingIn(ld)
              => Cardinality(OwingIn(ld)) = Cardinality(OwingIn(load)) + 1
         /\ l \in OwingIn(load) /\ l \notin OwingIn(ld)
              => Cardinality(OwingIn(load)) = Cardinality(OwingIn(ld)) + 1
         /\ (l \in InRawIn(load) <=> l \in InRawIn(ld))
              => Cardinality(InRawIn(ld)) = Cardinality(InRawIn(load))
         /\ l \notin InRawIn(load) /\ l \in InRawIn(ld)
              => Cardinality(InRawIn(ld)) = Cardinality(InRawIn(load)) + 1
<1>1. IsFiniteSet(OwingIn(load)) /\ IsFiniteSet(InRawIn(load))
  BY OwedIsNatural
<1>2. IsFiniteSet(OwingIn(ld)) /\ IsFiniteSet(InRawIn(ld))
  BY FS_Subset DEF OwingIn, InRawIn
<1>3. \A k : k # l => (k \in OwingIn(load) <=> k \in OwingIn(ld))
  BY DEF OwingIn
<1>4. \A k : k # l => (k \in InRawIn(load) <=> k \in InRawIn(ld))
  BY DEF InRawIn
<1>5. /\ Cardinality(OwingIn(ld)) \in Nat /\ Cardinality(OwingIn(load)) \in Nat
      /\ Cardinality(InRawIn(ld)) \in Nat /\ Cardinality(InRawIn(load)) \in Nat
  BY <1>1, <1>2, FS_CardinalityType
<1>6. /\ (l \in OwingIn(load) <=> l \in OwingIn(ld))
           => Cardinality(OwingIn(ld)) = Cardinality(OwingIn(load))
      /\ l \notin OwingIn(load) /\ l \in OwingIn(ld)
           => Cardinality(OwingIn(ld)) = Cardinality(OwingIn(load)) + 1
  BY <1>1, <1>2, <1>3, OneElementMore
<1>7. l \in OwingIn(load) /\ l \notin OwingIn(ld)
        => Cardinality(OwingIn(load)) = Cardinality(OwingIn(ld)) + 1
  BY <1>1, <1>2, <1>3, OneElementMore
<1>8. /\ (l \in InRawIn(load) <=> l \in InRawIn(ld))
           => Cardinality(InRawIn(ld)) = Cardinality(InRawIn(load))
      /\ l \notin InRawIn(load) /\ l \in InRawIn(ld)
           => Cardinality(InRawIn(ld)) = Cardinality(InRawIn(load)) + 1
  BY <1>1, <1>2, <1>4, OneElementMore
<1> QED
  BY <1>5, <1>6, <1>7, <1>8

\* A step of the daily run, which need only see to its own row.
LEMMA DailyStep ==
  ASSUME RunsInv, RunsTypeOK', runner' = runner,
         \A id \in Identities : id # DailyRun =>
           /\ rows'[id] = rows[id] /\ merged'[id] = merged[id]
           /\ id \in lossy' <=> id \in lossy,
         rows'[DailyRun].inserted + Cardinality(OwingIn(load')) <= merged'[DailyRun],
         DailyRun \notin lossy' /\ rows'[DailyRun].status # "FAILED"
           => rows'[DailyRun].inserted + Cardinality(OwingIn(load')) = merged'[DailyRun],
         SeenByCommands', Succeeding',
         rows'[DailyRun].status = "ABSENT" => rows'[DailyRun].inserted = 0,
         merged'[DailyRun] = Cardinality(InRawIn(load'))
  PROVE  RunsInv'
<1>1. Owed(DailyRun)' = Cardinality(OwingIn(load'))
  BY DEF Owed
<1>2. Observed' /\ SeenByRunner'
  BY DailyFrame
<1>3. \A id \in Identities : id # DailyRun =>
        /\ rows'[id].inserted + Owed(id)' <= merged'[id]
        /\ id \notin lossy' /\ rows'[id].status # "FAILED"
             => rows'[id].inserted + Owed(id)' = merged'[id]
  BY DailyFrame
<1>4. NothingIsInvented' /\ NothingIsForgotten'
  BY <1>1, <1>3 DEF NothingIsInvented, NothingIsForgotten
<1>5. Bookkeeping'
  <2>1. \A id \in Identities : rows[id].status = "ABSENT" => rows[id].inserted = 0
    BY DEF RunsInv, Bookkeeping
  <2> QED
    BY <2>1 DEF Bookkeeping
<1> QED
  BY <1>2, <1>4, <1>5 DEF RunsInv

\* What the invariant says of the daily run.
LEMMA DailyAccount ==
  ASSUME RunsInv
  PROVE  /\ DailyRun \in Identities
         /\ rows[DailyRun].inserted \in Nat /\ merged[DailyRun] \in Nat
         /\ Cardinality(OwingIn(load)) \in Nat
         /\ rows[DailyRun].inserted + Cardinality(OwingIn(load)) <= merged[DailyRun]
         /\ DailyRun \notin lossy /\ rows[DailyRun].status # "FAILED"
              => rows[DailyRun].inserted + Cardinality(OwingIn(load)) = merged[DailyRun]
         /\ rows[DailyRun].status = "ABSENT" => rows[DailyRun].inserted = 0
         /\ merged[DailyRun] = Cardinality(InRawIn(load))
<1> USE IdentitiesAreNaturals
<1> USE DEF RunsInv
<1>1. Owed(DailyRun) = Cardinality(OwingIn(load))
  BY DEF Owed
<1>2. Cardinality(OwingIn(load)) \in Nat
  BY OwedIsNatural, FS_CardinalityType
<1>3. rows[DailyRun].inserted \in Nat /\ merged[DailyRun] \in Nat
  BY DEF RunsTypeOK, RowsOfRuns
<1> QED
  BY <1>1, <1>2, <1>3 DEF NothingIsInvented, NothingIsForgotten, Bookkeeping

LEMMA DagStartStep ==
  ASSUME RunsInv, DagStart
  PROVE  RunsInv'
<1> USE DEF RunsInv
<1>1. /\ dag \in DagStates /\ rows \in [Identities -> RowsOfRuns]
      /\ DailyRun \in Identities /\ 0 \in Nat /\ "FAILED" \in Statuses
  BY IdentitiesAreNaturals DEF RunsTypeOK, Statuses, Terminal
<1>2. /\ dag' \in DagStates
      /\ dag'.success = "no" /\ dag'.callback = "no" /\ dag'.stage = "loads"
      /\ dag.success = "no"
  BY <1>1 DEF DagStart, DagStates, Succeeding
<1>3. rows' = rows \/ (rows' = Started(DailyRun) /\ rows[DailyRun].status = "ABSENT")
  BY DEF DagStart, CanStart
<1>4. UNCHANGED <<runner, load, merged, lossy>> /\ faults' \in Nat
  BY DEF DagStart, RunsTypeOK
<1>5. /\ rows' \in [Identities -> RowsOfRuns]
      /\ \A id \in Identities : id # DailyRun => rows'[id] = rows[id]
      /\ \/ rows'[DailyRun] = rows[DailyRun]
         \/ /\ rows[DailyRun].status = "ABSENT"
            /\ rows'[DailyRun].status = "RUNNING" /\ rows'[DailyRun].inserted = 0
  BY <1>1, <1>3, TableWrites
<1>6. RunsTypeOK'
  BY <1>2, <1>4, <1>5 DEF RunsTypeOK
<1>7. SeenByCommands' /\ Succeeding'
  BY <1>2, <1>4, <1>5 DEF SeenByCommands, Succeeding
<1> QED
  BY <1>4, <1>5, <1>6, <1>7, DailyAccount, DailyStep

LEMMA LoadMergeStep ==
  ASSUME RunsInv, NEW l \in Loads, LoadMerge(l)
  PROVE  RunsInv'
<1> USE DEF RunsInv
<1>1. load \in [Loads -> LoadStates] /\ DailyRun \in Identities
  BY IdentitiesAreNaturals DEF RunsTypeOK
<1>2. PICK n \in {0, 1} : n = NewRows(l) /\ (n = 1 <=> ~load[l].in)
  BY DEF NewRows
<1>3. /\ load' = [load EXCEPT ![l].pc = "merged", ![l].in = TRUE, ![l].fresh = n]
      /\ merged' = [merged EXCEPT ![DailyRun] = Cardinality(InRawIn(load'))]
      /\ load[l].pc = "todo"
      /\ UNCHANGED <<rows, runner, dag, lossy, faults>>
  BY <1>2 DEF LoadMerge, InRawIn
<1>4. /\ load' \in [Loads -> LoadStates]
      /\ load'[l].pc = "merged" /\ load'[l].in /\ load'[l].fresh = n
      /\ \A k \in Loads : k # l => load'[k] = load[k]
  BY <1>1, <1>3 DEF LoadStates
<1>5. /\ l \in InRawIn(load') /\ (l \in InRawIn(load) <=> n = 0)
      /\ l \notin OwingIn(load) /\ (l \in OwingIn(load') <=> n = 1)
  BY <1>2, <1>3, <1>4 DEF InRawIn, OwingIn
<1>6. /\ Cardinality(OwingIn(load')) \in Nat /\ Cardinality(InRawIn(load')) \in Nat
      /\ Cardinality(OwingIn(load')) = Cardinality(OwingIn(load)) + n
      /\ Cardinality(InRawIn(load')) = Cardinality(InRawIn(load)) + n
  BY <1>2, <1>4, <1>5, OneLoad
<1>7. /\ merged' \in [Identities -> Nat]
      /\ merged'[DailyRun] = Cardinality(InRawIn(load'))
      /\ \A id \in Identities : id # DailyRun => merged'[id] = merged[id]
  BY <1>1, <1>3, <1>6 DEF RunsTypeOK
<1>8. RunsTypeOK'
  BY <1>3, <1>4, <1>7 DEF RunsTypeOK
<1>9. SeenByCommands' /\ Succeeding'
  BY <1>3 DEF SeenByCommands, Succeeding
<1>10. /\ rows[DailyRun].inserted + Cardinality(OwingIn(load')) <= merged'[DailyRun]
       /\ DailyRun \notin lossy /\ rows[DailyRun].status # "FAILED"
            => rows[DailyRun].inserted + Cardinality(OwingIn(load')) = merged'[DailyRun]
  BY <1>2, <1>6, <1>7, DailyAccount
<1> QED
  BY <1>3, <1>7, <1>8, <1>9, <1>10, DailyAccount, DailyStep

LEMMA LoadCountStep ==
  ASSUME RunsInv, NEW l \in Loads, LoadCount(l)
  PROVE  RunsInv'
<1> USE DEF RunsInv
<1>1. load \in [Loads -> LoadStates] /\ DailyRun \in Identities
  BY IdentitiesAreNaturals DEF RunsTypeOK
<1>2. PICK n \in {0, 1} : n = load[l].fresh
  BY <1>1 DEF LoadStates
<1>3. /\ load[l].pc = "merged" /\ Count(DailyRun, n)
      /\ load' = [load EXCEPT ![l].pc = "done"]
      /\ UNCHANGED <<runner, dag, merged>>
  BY <1>2 DEF LoadCount
<1>4. /\ load' \in [Loads -> LoadStates]
      /\ load'[l].pc = "done" /\ load'[l].in = load[l].in
      /\ \A k \in Loads : k # l => load'[k] = load[k]
  BY <1>1, <1>3 DEF LoadStates
<1>5. /\ l \in InRawIn(load') <=> l \in InRawIn(load)
      /\ l \notin OwingIn(load') /\ (l \in OwingIn(load) <=> n = 1)
  BY <1>2, <1>3, <1>4 DEF InRawIn, OwingIn
<1>6. /\ Cardinality(OwingIn(load')) \in Nat
      /\ Cardinality(OwingIn(load)) = Cardinality(OwingIn(load')) + n
      /\ Cardinality(InRawIn(load')) = Cardinality(InRawIn(load))
  BY <1>2, <1>4, <1>5, OneLoad
<1>7. /\ rows' \in [Identities -> RowsOfRuns]
      /\ faults' \in Nat
      /\ lossy \subseteq lossy'
      /\ \A id \in Identities :
           /\ rows'[id].status = rows[id].status
           /\ id # DailyRun => rows'[id] = rows[id]
           /\ id \notin lossy /\ id # DailyRun => id \notin lossy'
      /\ DailyRun \notin lossy' => rows'[DailyRun].inserted = rows[DailyRun].inserted + n
      /\ \/ rows'[DailyRun].inserted = rows[DailyRun].inserted
         \/ rows'[DailyRun].inserted = rows[DailyRun].inserted + n
      /\ rows[DailyRun].status \in {"ABSENT"} \cup Terminal => rows' = rows
  <2>1. n \in Nat
    OBVIOUS
  <2> QED
    BY <1>1, <1>3, <2>1, Counting
<1>8. RunsTypeOK'
  BY <1>3, <1>4, <1>7 DEF RunsTypeOK
<1>9. dag.success = "no"
  BY <1>3 DEF Succeeding
<1>10. Succeeding'
  BY <1>1, <1>3, <1>7, <1>9 DEF Succeeding
<1>11. SeenByCommands'
  <2>1. rows[DailyRun].inserted \in Nat /\ rows'[DailyRun].inserted >= rows[DailyRun].inserted
    BY <1>2, <1>7, DailyAccount
  <2>2. dag.callbackSeen \in Nat /\ rows'[DailyRun].inserted \in Nat
    BY <1>1, <1>8 DEF RunsTypeOK, DagStates, RowsOfRuns
  <2> QED
    BY <1>1, <1>3, <1>7, <1>9, <2>1, <2>2 DEF SeenByCommands
<1>12. /\ rows'[DailyRun].inserted + Cardinality(OwingIn(load')) <= merged'[DailyRun]
       /\ DailyRun \notin lossy' /\ rows'[DailyRun].status # "FAILED"
            => rows'[DailyRun].inserted + Cardinality(OwingIn(load')) = merged'[DailyRun]
       /\ merged'[DailyRun] = Cardinality(InRawIn(load'))
  BY <1>1, <1>2, <1>3, <1>6, <1>7, DailyAccount
<1> QED
  BY <1>1, <1>3, <1>7, <1>8, <1>10, <1>11, <1>12, DailyAccount, DailyStep

LEMMA LoadFailStep ==
  ASSUME RunsInv, NEW l \in Loads, LoadFail(l)
  PROVE  RunsInv'
<1> USE DEF RunsInv
<1>1. load \in [Loads -> LoadStates] /\ DailyRun \in Identities
  BY IdentitiesAreNaturals DEF RunsTypeOK
<1>2. /\ load[l].pc \in {"todo", "merged"}
      /\ lossy \subseteq lossy' /\ lossy' \subseteq lossy \cup {DailyRun}
      /\ load[l].pc = "merged" => DailyRun \in lossy'
      /\ UNCHANGED <<rows, runner, dag, merged>> /\ faults' \in Nat
  BY DEF LoadFail, RunsTypeOK
<1>3. PICK phase \in {"todo", "failed"} :
        load' = [load EXCEPT ![l].pc = phase, ![l].attempt = @ + 1]
  BY DEF LoadFail
<1>4. /\ load' \in [Loads -> LoadStates]
      /\ load'[l].pc = phase /\ load'[l].in = load[l].in
      /\ \A k \in Loads : k # l => load'[k] = load[k]
  BY <1>1, <1>3 DEF LoadStates
<1>5. /\ l \in InRawIn(load') <=> l \in InRawIn(load)
      /\ l \notin OwingIn(load') /\ (l \in OwingIn(load) => load[l].pc = "merged")
  BY <1>4 DEF InRawIn, OwingIn
<1>6. /\ Cardinality(OwingIn(load')) \in Nat
      /\ Cardinality(OwingIn(load')) <= Cardinality(OwingIn(load))
      /\ load[l].pc = "todo" => Cardinality(OwingIn(load')) = Cardinality(OwingIn(load))
      /\ Cardinality(InRawIn(load')) = Cardinality(InRawIn(load))
  BY <1>4, <1>5, OneLoad
<1>7. RunsTypeOK'
  BY <1>2, <1>4 DEF RunsTypeOK
<1>8. SeenByCommands' /\ Succeeding'
  BY <1>2 DEF SeenByCommands, Succeeding
<1>9. /\ rows'[DailyRun].inserted + Cardinality(OwingIn(load')) <= merged'[DailyRun]
      /\ DailyRun \notin lossy' /\ rows'[DailyRun].status # "FAILED"
           => rows'[DailyRun].inserted + Cardinality(OwingIn(load')) = merged'[DailyRun]
      /\ merged'[DailyRun] = Cardinality(InRawIn(load'))
  BY <1>2, <1>6, DailyAccount
<1> QED
  BY <1>2, <1>7, <1>8, <1>9, DailyAccount, DailyStep

LEMMA StageStep ==
  ASSUME RunsInv, Transform \/ DagTimeout
  PROVE  RunsInv'
<1> USE DEF RunsInv
<1>1. dag \in DagStates
  BY DEF RunsTypeOK
<1>2. UNCHANGED <<rows, runner, load, merged, lossy>> /\ faults' \in Nat
  BY DEF Transform, DagTimeout, RunsTypeOK
<1>3. /\ dag' \in DagStates /\ dag'.stage # "off"
      /\ dag'.successSeen = dag.successSeen /\ dag'.callbackSeen = dag.callbackSeen
      /\ \/ dag'.success = dag.success
         \/ dag'.success = "get" /\ \A l \in Loads : load[l].pc = "done"
      /\ dag'.callback = dag.callback \/ dag'.callback = "get"
  BY <1>1, ZenonT(40) DEF Transform, DagTimeout, DagStates, Commands
<1>4. RunsTypeOK'
  BY <1>2, <1>3 DEF RunsTypeOK
<1>5. SeenByCommands' /\ Succeeding'
  BY <1>2, <1>3 DEF SeenByCommands, Succeeding
<1> QED
  BY <1>2, <1>4, <1>5, DailyAccount, DailyStep

LEMMA ReadStep ==
  ASSUME RunsInv, SuccessGet \/ CallbackGet
  PROVE  RunsInv'
<1> USE DEF RunsInv
<1>1. dag \in DagStates /\ rows[DailyRun].inserted \in Nat
  BY DailyAccount DEF RunsTypeOK
<1>2. UNCHANGED <<rows, runner, load, merged, lossy, faults>>
  BY DEF SuccessGet, CallbackGet
<1>3. PICK next \in {"finish", "done"} :
        \/ /\ dag.success = "get"
           /\ dag' = [dag EXCEPT !.success = next, !.successSeen = rows[DailyRun].inserted]
        \/ /\ dag.callback = "get"
           /\ dag' = [dag EXCEPT !.callback = next, !.callbackSeen = rows[DailyRun].inserted]
  BY DEF SuccessGet, CallbackGet, Read
<1>4. /\ dag' \in DagStates /\ dag'.stage = dag.stage
      /\ \/ /\ dag'.success = dag.success /\ dag'.successSeen = dag.successSeen
         \/ /\ dag.success = "get" /\ dag'.success # "no"
            /\ dag'.successSeen = rows[DailyRun].inserted
      /\ \/ /\ dag'.callback = dag.callback /\ dag'.callbackSeen = dag.callbackSeen
         \/ dag.callback = "get" /\ dag'.callbackSeen = rows[DailyRun].inserted
  BY <1>1, <1>3 DEF DagStates, Commands
<1>5. RunsTypeOK'
  BY <1>2, <1>4 DEF RunsTypeOK
<1>6. SeenByCommands'
  BY <1>1, <1>2, <1>4 DEF SeenByCommands
<1>7. Succeeding'
  BY <1>2, <1>4 DEF Succeeding
<1> QED
  BY <1>2, <1>5, <1>6, <1>7, DailyAccount, DailyStep

LEMMA CommandStep ==
  ASSUME RunsInv, SuccessFinish \/ CallbackFinish
  PROVE  RunsInv'
<1> USE DEF RunsInv
<1>1. dag \in DagStates
  BY DEF RunsTypeOK
<1>2. UNCHANGED <<runner, load, merged, lossy>> /\ faults' \in Nat
  BY DEF SuccessFinish, CallbackFinish, FinishDaily, RunsTypeOK
<1>3. PICK status \in {"SUCCEEDED", "FAILED"}, n \in Nat :
        /\ rows' = rows \/ rows' = Finished(DailyRun, status, n)
        /\ \/ /\ status = "SUCCEEDED" /\ n = dag.successSeen /\ dag.success = "finish"
              /\ dag' = [dag EXCEPT !.success = "done"]
           \/ /\ status = "FAILED" /\ n = dag.callbackSeen /\ dag.callback = "finish"
              /\ dag' = [dag EXCEPT !.callback = "done"]
  <2>1. dag.successSeen \in Nat /\ dag.callbackSeen \in Nat
    BY <1>1 DEF DagStates
  <2> QED
    BY <2>1 DEF SuccessFinish, CallbackFinish, FinishDaily
<1>4. /\ dag' \in DagStates /\ dag'.stage = dag.stage
      /\ dag'.successSeen = dag.successSeen /\ dag'.callbackSeen = dag.callbackSeen
      /\ \/ dag'.success = dag.success
         \/ dag'.success = "done" /\ dag.success = "finish"
      /\ \/ dag'.callback = dag.callback
         \/ dag'.callback = "done" /\ dag.callback = "finish"
  BY <1>1, <1>3 DEF DagStates, Commands
<1>5. /\ rows' \in [Identities -> RowsOfRuns]
      /\ \A id \in Identities : id # DailyRun => rows'[id] = rows[id]
      /\ \/ rows' = rows
         \/ /\ rows[DailyRun].status = "RUNNING"
            /\ rows'[DailyRun].status = status /\ rows'[DailyRun].inserted = n
  <2>1. rows \in [Identities -> RowsOfRuns] /\ status \in Statuses
    BY DEF RunsTypeOK, Statuses, Terminal
  <2> QED
    BY <1>3, <2>1, IdentitiesAreNaturals, TableWrites
<1>6. RunsTypeOK'
  BY <1>2, <1>4, <1>5 DEF RunsTypeOK
<1>7. SeenByCommands'
  BY <1>3, <1>4, <1>5 DEF SeenByCommands
<1>8. Succeeding'
  BY <1>2, <1>3, <1>4, <1>5 DEF Succeeding
<1>9. rows[DailyRun].status = "RUNNING" =>
        /\ n <= rows[DailyRun].inserted
        /\ status = "SUCCEEDED" => n = rows[DailyRun].inserted
  BY <1>3, DailyAccount DEF SeenByCommands
<1>10. rows'[DailyRun].inserted + Cardinality(OwingIn(load')) <= merged'[DailyRun]
  BY <1>2, <1>5, <1>9, DailyAccount
<1>11. DailyRun \notin lossy' /\ rows'[DailyRun].status # "FAILED"
         => rows'[DailyRun].inserted + Cardinality(OwingIn(load')) = merged'[DailyRun]
  BY <1>2, <1>5, <1>9, DailyAccount
<1>12. rows'[DailyRun].status = "ABSENT" => rows'[DailyRun].inserted = 0
  BY <1>5, DailyAccount
<1>13. merged'[DailyRun] = Cardinality(InRawIn(load'))
  BY <1>2, DailyAccount
<1> QED
  BY <1>2, <1>5, <1>6, <1>7, <1>8, <1>10, <1>11, <1>12, <1>13, DailyStep

LEMMA RunsStart == RunsInit => RunsInv
<1> SUFFICES ASSUME RunsInit PROVE RunsInv
  OBVIOUS
<1> USE IdentitiesAreNaturals
<1> USE DEF RunsInit
<1>1. RunsTypeOK
  <2>1. NoRow \in RowsOfRuns
    BY DEF NoRow, RowsOfRuns, Statuses
  <2>2. dag \in DagStates
    BY DEF DagStates, Commands
  <2>3. [pc |-> "todo", in |-> FALSE, fresh |-> 0, attempt |-> 1] \in LoadStates
    BY DEF LoadStates
  <2> QED
    BY <2>1, <2>2, <2>3, IdleIsARunnerState DEF RunsTypeOK
<1>2. OwingIn(load) = {} /\ InRawIn(load) = {}
  BY DEF OwingIn, InRawIn
<1>3. Cardinality(OwingIn(load)) = 0 /\ Cardinality(InRawIn(load)) = 0
  BY <1>2, FS_EmptySet
<1>4. \A id \in Identities : Owed(id) = 0
  BY <1>3 DEF Owed, Idle
<1>5. \A id \in Identities : rows[id].status = "ABSENT" /\ rows[id].inserted = 0
  BY DEF NoRow
<1>6. NothingIsInvented /\ NothingIsForgotten
  BY <1>4, <1>5 DEF NothingIsInvented, NothingIsForgotten
<1>7. Observed /\ SeenByRunner
  BY <1>5 DEF Observed, SeenByRunner, Idle
<1>8. SeenByCommands /\ Succeeding
  BY <1>5 DEF SeenByCommands, Succeeding
<1>9. Bookkeeping
  BY <1>3, <1>5 DEF Bookkeeping
<1> QED
  BY <1>1, <1>6, <1>7, <1>8, <1>9 DEF RunsInv

LEMMA RunsStep == RunsInv /\ [RunsNext]_runVars => RunsInv'
<1> SUFFICES ASSUME RunsInv, [RunsNext]_runVars PROVE RunsInv'
  OBVIOUS
<1>1. CASE UNCHANGED runVars
  BY <1>1 DEF runVars, RunsInv, RunsTypeOK, NothingIsInvented, NothingIsForgotten, Owed,
     Observed, SeenByRunner, SeenByCommands, Succeeding, Bookkeeping
<1>2. CASE RunsNext
  BY <1>2, StartStep, CaptureStep, RunLoadStep, RunCountStep, CombineStep, EndStep,
     DagStartStep, LoadMergeStep, LoadCountStep, LoadFailStep, StageStep, ReadStep,
     CommandStep DEF RunsNext
<1> QED
  BY <1>1, <1>2

LEMMA RunsInductive == RunsSpec => []RunsInv
BY RunsStart, RunsStep, PTL DEF RunsSpec

\* The counters of a run claim no row that its loads did not insert, and a
\* successful run none of whose counter writes was lost claims all of them
\* (run_observability.py, pipeline_runs.py increment_metrics).
THEOREM CountersAreTheWork == RunsSpec => []CountersMatchWork
<1>1. RunsInv => CountersMatchWork
  <2> SUFFICES ASSUME RunsInv, NEW id \in Identities
               PROVE  /\ rows[id].inserted <= merged[id]
                      /\ rows[id].status = "SUCCEEDED" /\ id \notin lossy
                           => rows[id].inserted = merged[id]
    BY DEF CountersMatchWork
  <2> USE DEF RunsInv
  <2>1. rows[id].inserted \in Nat /\ merged[id] \in Nat /\ Owed(id) \in Nat
    BY OwedIsNatural DEF RunsTypeOK, RowsOfRuns
  <2>2. rows[id].status = "SUCCEEDED" => Owed(id) = 0
    <3>1. CASE id = DailyRun /\ rows[id].status = "SUCCEEDED"
      <4>1. OwingIn(load) = {}
        BY <3>1 DEF Succeeding, OwingIn
      <4> QED
        BY <3>1, <4>1, FS_EmptySet DEF Owed
    <3>2. CASE id # DailyRun
      BY <3>2 DEF Owed, Observed
    <3> QED
      BY <3>1, <3>2
  <2> QED
    BY <2>1, <2>2 DEF NothingIsInvented, NothingIsForgotten
<1> QED
  BY <1>1, RunsInductive, PTL

\* A run's row changes no more once it is terminal, whoever writes last
\* (pipeline_runs.py, "AND status = 'RUNNING'").
THEOREM TerminalRowsAreFinal == RunsSpec => TerminalIsFinal
<1>1. ASSUME RunsInv, [RunsNext]_runVars, NEW id \in Identities,
             rows[id].status \in Terminal
      PROVE  rows'[id] = rows[id]
  <2>1. rows \in [Identities -> RowsOfRuns] /\ DailyRun \in Identities
        /\ runner.run \in Identities /\ 0 \in Nat /\ "FAILED" \in Statuses
    BY <1>1, IdentitiesAreNaturals DEF RunsInv, RunsTypeOK, RunnerStates, Statuses, Terminal
  <2> DEFINE Written ==
               \/ rows' = rows
               \/ \E other \in Identities :
                    \/ rows' = Started(other) /\ CanStart(other)
                    \/ \E n \in Nat, status \in Statuses :
                         rows' = Finished(other, status, n) \/ rows' = Incremented(other, n)
  <2>2. Written
    <3>1. /\ runner.outcome \in Statuses /\ runner.seen \in Nat /\ runner.fresh \in Nat
          /\ dag.successSeen \in Nat /\ dag.callbackSeen \in Nat
          /\ "SUCCEEDED" \in Statuses
          /\ \A l \in Loads : load[l].fresh \in Nat
      BY <1>1 DEF RunsInv, RunsTypeOK, RunnerStates, DagStates, LoadStates, Statuses, Terminal
    <3>2. CASE StartRun
      <4>1. runner.run + 1 \in Identities
        BY <3>2, <2>1 DEF StartRun, Identities
      <4> QED
        BY <3>2, <4>1 DEF StartRun, Observe
    <3>3. CASE RetryRun
      BY <3>3, <2>1 DEF RetryRun, Observe
    <3>4. CASE RunCount \/ \E l \in Loads : LoadCount(l)
      BY <3>4, <2>1, <3>1 DEF RunCount, LoadCount, Count
    <3>5. CASE FinishRun \/ FailRun
      BY <3>5, <2>1, <3>1 DEF FinishRun, FailRun
    <3>6. CASE DagStart
      BY <3>6, <2>1 DEF DagStart
    <3>7. CASE SuccessFinish \/ CallbackFinish
      BY <3>7, <2>1, <3>1 DEF SuccessFinish, CallbackFinish, FinishDaily
    <3>8. CASE \/ Capture \/ RunLoad \/ RunCommit \/ Combine \/ KillRun
               \/ (\E l \in Loads : LoadMerge(l) \/ LoadFail(l))
               \/ Transform \/ DagTimeout \/ SuccessGet \/ CallbackGet
               \/ UNCHANGED runVars
      BY <3>8 DEF Capture, RunLoad, RunCommit, Combine, KillRun, LoadMerge, LoadFail,
         Transform, DagTimeout, SuccessGet, CallbackGet, runVars
    <3> HIDE DEF Written
    <3> QED
      BY <1>1, <3>2, <3>3, <3>4, <3>5, <3>6, <3>7, <3>8 DEF RunsNext
  <2>3. rows[id].status # "RUNNING" /\ rows[id].status # "ABSENT"
    BY <1>1 DEF Terminal
  <2> QED
    BY <1>1, <2>1, <2>2, <2>3, TableWrites DEF RunsInv, CanStart
<1>2. RunsInv /\ [RunsNext]_runVars =>
        [\A id \in Identities :
           rows[id].status \in Terminal => rows'[id] = rows[id]]_runVars
  BY <1>1
<1> QED
  BY <1>2, RunsInductive, PTL DEF RunsSpec, TerminalIsFinal

-------------------------------------------------------------------------------
\* ---- HealthAlerts ----

AlertRows ==
  [state : {"RESOLVED", "OPEN"}, severity : {"NONE", "WARNING", "CRITICAL"},
   gen : Nat, count : Nat, version : Nat]
Classes == {"FRESH", "WARNING", "STALE"}
Conditions == Classes \cup {"NONE"}
Events == [type : {"OPENED", "RESOLVED", "ESCALATED"}, key : Keys, gen : Nat]
Starts == [head : Nat, committed : Nat, refreshes : Nat, lag : Nat]
Evaluations ==
  [pc : {"off", "collect", "status", "get", "cas"}, eval : Nat, start : Starts,
   conds : [Keys -> Conditions], at : Nat \ {0}, tries : Nat, row : AlertRows,
   events : SUBSET Events]

HealthTypeOK ==
  /\ head \in Nat /\ committed \in Nat /\ refreshes \in Nat
  /\ evals \in Nat
  /\ latest \in {"NONE", "SUCCEEDED", "FAILED"}
  /\ age \in Classes
  /\ alert \in [Keys -> AlertRows]
  /\ ev \in [Evaluators -> Evaluations]
  /\ persisted \in SUBSET Events
  /\ emitted \in SUBSET (Nat \X Events)

\* An evaluation that is about to write has a change to make to the row it has
\* read, which is an earlier row of the key, or this one.
ReadyToWrite(v) ==
  LET key == Order[v.at]
  IN  /\ v.at <= Len(Order)
      /\ v.conds[key] \in Classes
      /\ Decide(key, v.row, v.conds[key]).row # v.row
      /\ v.row.version <= alert[key].version
      /\ v.row.version = alert[key].version => v.row = alert[key]

VersionsIdentifyRows ==
  \A e \in Evaluators : ev[e].pc = "cas" => ReadyToWrite(ev[e])

\* The table has made no event of a later incident, nor one that the present
\* incident has still ahead of it.
EventsAreBehind ==
  /\ \A x \in persisted : x.gen <= alert[x.key].gen
  /\ \A x \in persisted :
       x.gen = alert[x.key].gen /\ alert[x.key].state = "OPEN" =>
         /\ x.type # "RESOLVED"
         /\ x.type = "ESCALATED" => alert[x.key].severity = "CRITICAL"

\* An event is with the evaluation that persisted it, or has been emitted, or
\* is lost.
EventsAreApart ==
  /\ \A e \in Evaluators : ev[e].events \subseteq persisted
  /\ \A d, e \in Evaluators : \A x \in ev[d].events : x \in ev[e].events => d = e
  /\ \A y \in emitted : \A e \in Evaluators : y[2] \notin ev[e].events

\* The watermark has not gone back since an evaluation began.
BegunBefore(v) ==
  /\ v.start.committed <= committed
  /\ v.start.lag = Lag(v.start.head, v.start.committed)

StartsAreBehind == \A e \in Evaluators : ev[e].pc # "off" => BegunBefore(ev[e])

LagHolds(v) ==
  v.pc \in {"status", "get", "cas"} /\ "position" \in Keys
    => Rank(v.conds["position"]) <= Rank(Classify(v.start.lag))

HealthInv ==
  /\ HealthTypeOK /\ VersionsIdentifyRows /\ EventsAreBehind /\ EventsAreApart
  /\ EventsAreEmittedOnce /\ StartsAreBehind /\ LagIsNotOverstated

-------------------------------------------------------------------------------

USE HealthAssumption

LEMMA KeysOfTheOrder ==
  /\ Len(Order) \in Nat
  /\ \A i \in Nat \ {0} : i <= Len(Order) => Order[i] \in Keys
<1>1. Len(Order) \in Nat /\ DOMAIN Order = 1..Len(Order)
  OBVIOUS
<1>2. \A i \in Nat \ {0} : i <= Len(Order) => i \in 1..Len(Order)
  BY <1>1
<1> QED
  BY <1>1, <1>2 DEF Keys

LEMMA LagFacts ==
  /\ \A h, c \in Nat : Lag(h, c) \in Nat
  /\ \A h, b, c \in Nat : b <= c => Lag(h, c) <= Lag(h, b)
BY DEF Lag, Safe

LEMMA ClassFacts ==
  /\ \A lag \in Nat : Classify(lag) \in Classes
  /\ \A a, b \in Nat : a <= b => Rank(Classify(a)) <= Rank(Classify(b))
<1>1. \A lag \in Nat : Classify(lag) \in Classes
  BY DEF Classify, Classes
<1>2. Rank("FRESH") = 0 /\ Rank("WARNING") = 1 /\ Rank("STALE") = 2
  BY DEF Rank
<1>3. \A lag \in Nat :
        /\ lag >= StaleLag => Classify(lag) = "STALE"
        /\ lag < StaleLag /\ lag >= WarnLag => Classify(lag) = "WARNING"
        /\ lag < WarnLag => Classify(lag) = "FRESH"
  BY DEF Classify
<1>4. ASSUME NEW a \in Nat, NEW b \in Nat, a <= b
      PROVE  Rank(Classify(a)) <= Rank(Classify(b))
  <2>1. CASE a < WarnLag
    BY <1>1, <1>2, <1>3, <2>1 DEF Classes
  <2>2. CASE a >= WarnLag /\ a < StaleLag
    BY <1>2, <1>3, <1>4, <2>2
  <2>3. CASE a >= StaleLag
    BY <1>2, <1>3, <1>4, <2>3
  <2> QED
    BY <2>1, <2>2, <2>3
<1> QED
  BY <1>1, <1>4

\* What a decision may do to a row, and which events it may make of it.
LEMMA Decisions ==
  ASSUME NEW key \in Keys, NEW row \in AlertRows, NEW state \in Classes,
         NEW d, d = Decide(key, row, state)
  PROVE  /\ d.row \in AlertRows
         /\ d.events \in SUBSET Events
         /\ d.row # row => d.row.version = row.version + 1
         /\ row.state = "OPEN" => d.row.gen = row.gen
         /\ row.state = "OPEN" /\ row.severity = "CRITICAL" => d.row.severity = "CRITICAL"
         /\ row.state = "RESOLVED" => d.row.gen = row.gen \/ d.row.gen = row.gen + 1
         /\ row.state = "RESOLVED" /\ d.row.state = "OPEN" => d.row.gen = row.gen + 1
         /\ \A x \in d.events :
              /\ x.key = key /\ x.gen = d.row.gen
              /\ x.type = "OPENED" => row.state = "RESOLVED" /\ x.gen = row.gen + 1
              /\ x.type = "RESOLVED" => row.state = "OPEN" /\ d.row.state = "RESOLVED"
              /\ x.type = "ESCALATED" =>
                   /\ row.state = "OPEN" /\ row.severity # "CRITICAL"
                   /\ d.row.severity = "CRITICAL"
<1> DEFINE resolved == [row EXCEPT !.state = "RESOLVED", !.version = @ + 1]
           opened == [state |-> "OPEN", severity |-> Severity(state),
                      gen |-> row.gen + 1, count |-> 1, version |-> row.version + 1]
           severity == StickySeverity(row, state)
           observed == [row EXCEPT !.severity = severity, !.count = @ + 1,
                                   !.version = @ + 1]
<1>1. /\ Severity(state) \in {"WARNING", "CRITICAL"} /\ severity \in {"WARNING", "CRITICAL"}
      /\ row.severity = "CRITICAL" => severity = "CRITICAL"
  BY DEF Severity, StickySeverity
<1>2. /\ resolved \in AlertRows
      /\ resolved.state = "RESOLVED" /\ resolved.version = row.version + 1
      /\ resolved.gen = row.gen /\ resolved.severity = row.severity
  <2>1. \A v \in Nat :
          LET r == [row EXCEPT !.state = "RESOLVED", !.version = v]
          IN  /\ r \in AlertRows
              /\ r.state = "RESOLVED" /\ r.version = v
              /\ r.gen = row.gen /\ r.severity = row.severity
    BY DEF AlertRows
  <2>2. row.version + 1 \in Nat
    BY DEF AlertRows
  <2> QED
    BY <2>1, <2>2
<1>3. /\ opened \in AlertRows
      /\ opened.state = "OPEN" /\ opened.version = row.version + 1
      /\ opened.gen = row.gen + 1
  BY <1>1 DEF AlertRows
<1>4. /\ observed \in AlertRows
      /\ observed.state = row.state /\ observed.version = row.version + 1
      /\ observed.gen = row.gen /\ observed.severity = severity
  <2>1. row.version + 1 \in Nat /\ row.count + 1 \in Nat
    BY DEF AlertRows
  <2>2. PICK s \in {"WARNING", "CRITICAL"}, n \in Nat, v \in Nat :
          s = severity /\ n = row.count + 1 /\ v = row.version + 1
    BY <1>1, <2>1
  <2>3. observed = [row EXCEPT !.severity = s, !.count = n, !.version = v]
    BY <2>2
  <2> HIDE DEF severity, observed
  <2>4. /\ observed \in AlertRows
        /\ observed.state = row.state /\ observed.version = v
        /\ observed.gen = row.gen /\ observed.severity = s
    BY <2>3 DEF AlertRows
  <2> QED
    BY <2>2, <2>4
<1>5. \A type \in {"OPENED", "RESOLVED", "ESCALATED"}, gen \in Nat :
        LET x == Event(type, key, gen)
        IN  x \in Events /\ x.type = type /\ x.key = key /\ x.gen = gen
  BY DEF Event, Events
<1>6. row.gen \in Nat /\ row.gen + 1 \in Nat /\ row.state \in {"RESOLVED", "OPEN"}
      /\ row.version \in Nat
  BY DEF AlertRows
<1>7. CASE state = "FRESH" /\ row.state = "RESOLVED"
  <2>1. d.row = row /\ d.events = {}
    BY <1>7 DEF Decide
  <2> QED
    BY <1>7, <2>1
<1>8. CASE state = "FRESH" /\ row.state = "OPEN"
  <2>1. d.row = resolved /\ d.events = {Event("RESOLVED", key, row.gen)}
    BY <1>8 DEF Decide
  <2> HIDE DEF resolved
  <2> QED
    BY <1>2, <1>5, <1>6, <1>8, <2>1
<1>9. CASE state # "FRESH" /\ row.state = "RESOLVED"
  <2>1. d.row = opened /\ d.events = {Event("OPENED", key, row.gen + 1)}
    BY <1>9 DEF Decide
  <2> HIDE DEF opened
  <2> QED
    BY <1>3, <1>5, <1>6, <1>9, <2>1
<1>10. CASE state # "FRESH" /\ row.state = "OPEN"
  <2>1. /\ d.row = observed
        /\ d.events = IF row.severity = "WARNING" /\ severity = "CRITICAL"
                      THEN {Event("ESCALATED", key, row.gen)} ELSE {}
    BY <1>10 DEF Decide
  <2> HIDE DEF observed, severity
  <2> QED
    BY <1>1, <1>4, <1>5, <1>6, <1>10, <2>1
<1> QED
  BY <1>6, <1>7, <1>8, <1>9, <1>10

\* A step of one evaluation that writes nothing but its own state.
LEMMA OwnStep ==
  ASSUME HealthInv, NEW e \in Evaluators, NEW new \in Evaluations,
         ev' = [ev EXCEPT ![e] = new],
         UNCHANGED <<envVars, alert, persisted, emitted>>, evals' \in Nat,
         new.events \subseteq ev[e].events,
         new.pc = "cas" => ReadyToWrite(new),
         new.pc # "off" => BegunBefore(new),
         LagHolds(new)
  PROVE  HealthInv'
<1> USE DEF HealthInv
<1>1. /\ head' = head /\ committed' = committed /\ latest' = latest /\ age' = age
      /\ refreshes' = refreshes /\ alert' = alert /\ persisted' = persisted
      /\ emitted' = emitted
  BY DEF envVars
<1>2. /\ ev' \in [Evaluators -> Evaluations] /\ ev'[e] = new
      /\ \A d \in Evaluators : d # e => ev'[d] = ev[d]
  BY DEF HealthTypeOK
<1>3. HealthTypeOK'
  BY <1>1, <1>2 DEF HealthTypeOK
<1>4. VersionsIdentifyRows'
  <2>1. ASSUME NEW d \in Evaluators, ev'[d].pc = "cas"
        PROVE  ReadyToWrite(ev'[d])
    BY <1>2, <2>1 DEF VersionsIdentifyRows
  <2>2. \A d \in Evaluators : ReadyToWrite(ev[d])' <=> ReadyToWrite(ev'[d])
    BY <1>1 DEF ReadyToWrite
  <2> QED
    BY <2>1, <2>2 DEF VersionsIdentifyRows
<1>5. EventsAreBehind' /\ EventsAreEmittedOnce'
  BY <1>1 DEF EventsAreBehind, EventsAreEmittedOnce
<1>6. EventsAreApart'
  <2>1. \A d \in Evaluators : ev'[d].events \subseteq ev[d].events
    BY <1>2
  <2> QED
    BY <1>1, <2>1 DEF EventsAreApart
<1>7. StartsAreBehind'
  <2>1. ASSUME NEW d \in Evaluators, ev'[d].pc # "off"
        PROVE  BegunBefore(ev'[d])
    BY <1>2, <2>1 DEF StartsAreBehind
  <2>2. \A d \in Evaluators : BegunBefore(ev[d])' <=> BegunBefore(ev'[d])
    BY <1>1 DEF BegunBefore
  <2> QED
    BY <2>1, <2>2 DEF StartsAreBehind
<1>8. LagIsNotOverstated'
  BY <1>2 DEF LagIsNotOverstated, LagHolds
<1> QED
  BY <1>3, <1>4, <1>5, <1>6, <1>7, <1>8

LEMMA OffIsAnEvaluation ==
  Off \in Evaluations /\ Off.pc = "off" /\ Off.events = {}
<1>1. Off.start \in Starts
  BY DEF Off, Starts
<1>2. Resolved \in AlertRows
  BY DEF Resolved, AlertRows
<1>3. Off.conds \in [Keys -> Conditions]
  BY DEF Off, Conditions
<1> QED
  BY <1>1, <1>2, <1>3 DEF Off, Evaluations

\* The evaluation ends, and what it has not emitted is lost.
LEMMA GivenUp ==
  ASSUME HealthInv, NEW e \in Evaluators, ev' = [ev EXCEPT ![e] = Off],
         UNCHANGED <<envVars, alert, evals, persisted, emitted>>
  PROVE  HealthInv'
<1>1. LagHolds(Off)
  BY OffIsAnEvaluation DEF LagHolds
<1>2. evals' \in Nat
  BY DEF HealthInv, HealthTypeOK
<1> QED
  BY <1>1, <1>2, OffIsAnEvaluation, OwnStep

LEMMA BeginStep ==
  ASSUME HealthInv, NEW e \in Evaluators, Begin(e)
  PROVE  HealthInv'
<1> USE DEF HealthInv
<1> DEFINE start == [head |-> head, committed |-> committed, refreshes |-> refreshes,
                     lag |-> Lag(head, committed)]
           new == [Off EXCEPT !.pc = "collect", !.eval = evals + 1, !.start = start]
<1>1. /\ ev' = [ev EXCEPT ![e] = new] /\ evals' = evals + 1
      /\ UNCHANGED <<envVars, alert, persisted, emitted>>
  BY DEF Begin
<1>2. evals + 1 \in Nat
  BY DEF HealthTypeOK
<1>3. start \in Starts
  BY LagFacts DEF HealthTypeOK, Starts
<1>4. start.head = head /\ start.committed = committed /\ start.lag = Lag(head, committed)
  OBVIOUS
<1> HIDE DEF start
<1>5. new \in Evaluations /\ new.pc = "collect" /\ new.start = start /\ new.events = {}
  BY <1>2, <1>3, OffIsAnEvaluation DEF Evaluations
<1> HIDE DEF new
<1>6. BegunBefore(new) /\ LagHolds(new)
  BY <1>4, <1>5 DEF BegunBefore, LagHolds, HealthTypeOK
<1> QED
  BY <1>1, <1>2, <1>5, <1>6, OwnStep

LEMMA CollectStep ==
  ASSUME HealthInv, NEW e \in Evaluators, Collect(e)
  PROVE  HealthInv'
<1> USE DEF HealthInv
<1> DEFINE conds == [k \in Keys |-> CASE k = "position" -> Classify(ReportedLag(e))
                                      [] k = "refresh" -> age
                                      [] k = "failure" -> "NONE"]
           new == [ev[e] EXCEPT !.pc = "status", !.conds = conds]
<1>1. /\ ev[e].pc = "collect"
      /\ UNCHANGED <<envVars, alert, evals, persisted, emitted>>
      /\ ev' = [ev EXCEPT ![e] = new] \/ ev' = [ev EXCEPT ![e] = Off]
  BY DEF Collect
<1>2. ev[e] \in Evaluations /\ ev[e].start \in Starts
  BY DEF HealthTypeOK, Evaluations
<1>3. /\ BegunBefore(ev[e])
      /\ ev[e].start.head \in Nat /\ ev[e].start.committed \in Nat /\ committed \in Nat
  <2>1. BegunBefore(ev[e])
    BY <1>1 DEF StartsAreBehind
  <2>2. ev[e].start.head \in Nat /\ ev[e].start.committed \in Nat
    BY <1>2 DEF Starts
  <2> QED
    BY <2>1, <2>2 DEF HealthTypeOK
<1>4. ReportedLag(e) \in Nat /\ ReportedLag(e) <= ev[e].start.lag /\ ev[e].start.lag \in Nat
  <2>1. PICK h \in Nat, b \in Nat : h = ev[e].start.head /\ b = ev[e].start.committed
    BY <1>3
  <2>2. ReportedLag(e) = Lag(h, committed) /\ ev[e].start.lag = Lag(h, b) /\ b <= committed
    BY <1>3, <2>1 DEF ReportedLag, BegunBefore
  <2>3. /\ Lag(h, committed) \in Nat /\ Lag(h, b) \in Nat
        /\ Lag(h, committed) <= Lag(h, b)
    BY <1>3, <2>2, LagFacts
  <2> QED
    BY <2>2, <2>3
<1>5. conds \in [Keys -> Conditions]
  <2>1. Classify(ReportedLag(e)) \in Conditions /\ age \in Conditions
    BY <1>4, ClassFacts DEF Conditions, HealthTypeOK
  <2>2. Keys \subseteq {"position", "refresh", "failure"}
    BY DEF Keys
  <2> QED
    BY <2>1, <2>2 DEF Conditions
<1>6. "position" \in Keys => conds["position"] = Classify(ReportedLag(e))
  OBVIOUS
<1> HIDE DEF conds
<1>7. /\ new \in Evaluations /\ new.pc = "status" /\ new.conds = conds
      /\ new.start = ev[e].start /\ new.events = ev[e].events
  BY <1>2, <1>5 DEF Evaluations
<1> HIDE DEF new
<1>8. BegunBefore(new) /\ LagHolds(new)
  BY <1>3, <1>4, <1>6, <1>7, ClassFacts DEF BegunBefore, LagHolds
<1>9. CASE ev' = [ev EXCEPT ![e] = new]
  BY <1>1, <1>7, <1>8, <1>9, OwnStep DEF HealthTypeOK
<1> QED
  BY <1>1, <1>9, GivenUp

LEMMA ReadStatusStep ==
  ASSUME HealthInv, NEW e \in Evaluators, ReadStatus(e)
  PROVE  HealthInv'
<1> USE DEF HealthInv
<1> DEFINE conds == [k \in Keys |-> IF k = "failure" THEN FailureState ELSE ev[e].conds[k]]
           new == [ev[e] EXCEPT !.pc = "get", !.conds = conds]
<1>1. /\ ev[e].pc = "status"
      /\ UNCHANGED <<envVars, alert, evals, persisted, emitted>>
      /\ ev' = [ev EXCEPT ![e] = new]
  BY DEF ReadStatus
<1>2. ev[e] \in Evaluations /\ ev[e].conds \in [Keys -> Conditions]
  BY DEF HealthTypeOK, Evaluations
<1>3. conds \in [Keys -> Conditions]
  <2>1. FailureState \in Conditions
    BY DEF FailureState, Conditions, Classes, HealthTypeOK
  <2> QED
    BY <1>2, <2>1
<1>4. "position" \in Keys => conds["position"] = ev[e].conds["position"]
  OBVIOUS
<1> HIDE DEF conds
<1>5. /\ new \in Evaluations /\ new.pc = "get" /\ new.conds = conds
      /\ new.start = ev[e].start /\ new.events = ev[e].events
  BY <1>2, <1>3 DEF Evaluations
<1> HIDE DEF new
<1>6. BegunBefore(new) /\ LagHolds(new)
  BY <1>1, <1>4, <1>5 DEF BegunBefore, LagHolds, StartsAreBehind, LagIsNotOverstated
<1> QED
  BY <1>1, <1>5, <1>6, OwnStep DEF HealthTypeOK

\* What comes before a write: the next key, and a row that will change.
LEMMA NextKey ==
  ASSUME HealthInv, NEW e \in Evaluators, ev[e].pc \in {"get", "cas"}
  PROVE  /\ Advance(e) \in Evaluations /\ Advance(e).pc = "get"
         /\ Advance(e).events = ev[e].events
         /\ Advance(e).start = ev[e].start /\ Advance(e).conds = ev[e].conds
         /\ BegunBefore(Advance(e)) /\ LagHolds(Advance(e))
<1> USE DEF HealthInv
<1>1. ev[e] \in Evaluations /\ ev[e].at + 1 \in Nat \ {0}
  BY DEF HealthTypeOK, Evaluations
<1>2. Resolved \in AlertRows
  BY DEF Resolved, AlertRows
<1>3. PICK at \in Nat \ {0} : at = ev[e].at + 1
  BY <1>1
<1>4. Advance(e) = [ev[e] EXCEPT !.at = at, !.tries = 0, !.row = Resolved, !.pc = "get"]
  BY <1>3 DEF Advance
<1>5. /\ Advance(e) \in Evaluations /\ Advance(e).pc = "get"
      /\ Advance(e).events = ev[e].events
      /\ Advance(e).start = ev[e].start /\ Advance(e).conds = ev[e].conds
  <2>1. PICK v \in Evaluations, row \in AlertRows : v = ev[e] /\ row = Resolved
    BY <1>1, <1>2
  <2>2. [v EXCEPT !.at = at, !.tries = 0, !.row = row, !.pc = "get"] \in Evaluations
    BY DEF Evaluations
  <2>3. LET new == [v EXCEPT !.at = at, !.tries = 0, !.row = row, !.pc = "get"]
        IN  /\ new.pc = "get" /\ new.events = v.events
            /\ new.start = v.start /\ new.conds = v.conds
    BY DEF Evaluations
  <2> QED
    BY <1>4, <2>1, <2>2, <2>3
<1>6. BegunBefore(Advance(e))
  <2>1. BegunBefore(ev[e])
    BY DEF StartsAreBehind
  <2> QED
    BY <1>5, <2>1 DEF BegunBefore
<1>7. LagHolds(Advance(e))
  BY <1>5 DEF LagHolds, LagIsNotOverstated
<1> QED
  BY <1>5, <1>6, <1>7

LEMMA GetStep ==
  ASSUME HealthInv, NEW e \in Evaluators, Get(e)
  PROVE  HealthInv'
<1> USE DEF HealthInv
<1>1. /\ ev[e].pc = "get" /\ ev[e].at <= Len(Order) /\ ev[e].conds[Key(e)] # "NONE"
      /\ UNCHANGED <<envVars, alert, evals, persisted, emitted>>
  BY DEF Get
<1>2. /\ ev[e] \in Evaluations /\ ev[e].at \in Nat \ {0}
      /\ ev[e].conds \in [Keys -> Conditions]
  BY DEF HealthTypeOK, Evaluations
<1>3. PICK key \in Keys : key = Key(e) /\ key = Order[ev[e].at]
  BY <1>1, <1>2, KeysOfTheOrder DEF Key
<1>4. PICK row \in AlertRows : row = alert[key]
  BY DEF HealthTypeOK
<1>5. \/ ev' = [ev EXCEPT ![e] = Advance(e)]
      \/ /\ Decide(key, row, ev[e].conds[key]).row # row
         /\ ev' = [ev EXCEPT ![e].row = row, ![e].pc = "cas"]
  BY <1>3, <1>4 DEF Get
<1>6. CASE ev' = [ev EXCEPT ![e] = Advance(e)]
  BY <1>1, <1>6, NextKey, OwnStep DEF HealthTypeOK
<1>7. CASE /\ Decide(key, row, ev[e].conds[key]).row # row
           /\ ev' = [ev EXCEPT ![e].row = row, ![e].pc = "cas"]
  <2> DEFINE new == [ev[e] EXCEPT !.row = row, !.pc = "cas"]
  <2>1. ev' = [ev EXCEPT ![e] = new]
    BY <1>2, <1>7 DEF HealthTypeOK
  <2>2. /\ new \in Evaluations /\ new.pc = "cas" /\ new.row = row
        /\ new.at = ev[e].at /\ new.conds = ev[e].conds
        /\ new.start = ev[e].start /\ new.events = ev[e].events
    BY <1>2 DEF Evaluations
  <2> HIDE DEF new
  <2>3. ev[e].conds[key] \in Classes
    BY <1>1, <1>2, <1>3 DEF Conditions
  <2>4. row.version \in Nat
    BY DEF AlertRows
  <2>5. ReadyToWrite(new)
    BY <1>1, <1>3, <1>4, <1>7, <2>2, <2>3, <2>4, SMTT(30) DEF ReadyToWrite
  <2>6. BegunBefore(new) /\ LagHolds(new)
    <3>1. BegunBefore(ev[e])
      BY <1>1 DEF StartsAreBehind
    <3> QED
      BY <1>1, <2>2, <3>1 DEF BegunBefore, LagHolds, LagIsNotOverstated
  <2> QED
    BY <1>1, <2>1, <2>2, <2>5, <2>6, OwnStep DEF HealthTypeOK
<1> QED
  BY <1>5, <1>6, <1>7

LEMMA SkipKeyStep ==
  ASSUME HealthInv, NEW e \in Evaluators, SkipKey(e)
  PROVE  HealthInv'
<1>1. /\ ev[e].pc = "get" /\ ev' = [ev EXCEPT ![e] = Advance(e)]
      /\ UNCHANGED <<envVars, alert, evals, persisted, emitted>>
  BY DEF SkipKey
<1>2. evals' \in Nat
  BY <1>1 DEF HealthInv, HealthTypeOK
<1> QED
  BY <1>1, <1>2, NextKey, OwnStep

LEMMA VersionConflictStep ==
  ASSUME HealthInv, NEW e \in Evaluators, VersionConflict(e)
  PROVE  HealthInv'
<1> USE DEF HealthInv
<1>1. /\ ev[e].pc = "cas" /\ UNCHANGED <<envVars, alert, evals, persisted, emitted>>
      /\ \/ ev' = [ev EXCEPT ![e] = Off]
         \/ ev' = [ev EXCEPT ![e].pc = "get", ![e].tries = ev[e].tries + 1]
  BY DEF VersionConflict
<1>2. CASE ev' = [ev EXCEPT ![e].pc = "get", ![e].tries = ev[e].tries + 1]
  <2>1. ev[e] \in Evaluations /\ ev[e].tries + 1 \in Nat
    BY DEF HealthTypeOK, Evaluations
  <2>2. PICK tries \in Nat : tries = ev[e].tries + 1
    BY <2>1
  <2> DEFINE new == [ev[e] EXCEPT !.pc = "get", !.tries = tries]
  <2>3. ev' = [ev EXCEPT ![e] = new]
    BY <1>2, <2>2 DEF HealthTypeOK
  <2>4. /\ new \in Evaluations /\ new.pc = "get" /\ new.conds = ev[e].conds
        /\ new.start = ev[e].start /\ new.events = ev[e].events
    BY <2>1, <2>2 DEF Evaluations
  <2> HIDE DEF new
  <2>5. BegunBefore(ev[e])
    BY <1>1 DEF StartsAreBehind
  <2>6. BegunBefore(new) /\ LagHolds(new)
    BY <1>1, <2>4, <2>5 DEF BegunBefore, LagHolds, LagIsNotOverstated
  <2> QED
    BY <1>1, <2>3, <2>4, <2>6, OwnStep DEF HealthTypeOK
<1> QED
  BY <1>1, <1>2, GivenUp

\* The decision of an evaluation is persisted with the row it makes.
LEMMA CompareAndSetStep ==
  ASSUME HealthInv, NEW e \in Evaluators, CompareAndSet(e)
  PROVE  HealthInv'
<1> USE DEF HealthInv
<1>1. /\ ev[e].pc = "cas" /\ UNCHANGED <<envVars, evals, emitted>>
      /\ alert[Key(e)].version = ev[e].row.version
  BY DEF CompareAndSet, VersionMatches
<1>2. /\ ev[e] \in Evaluations /\ ev[e].at \in Nat \ {0} /\ ev[e].row \in AlertRows
      /\ ev[e].conds \in [Keys -> Conditions] /\ ev[e].events \in SUBSET Events
  BY DEF HealthTypeOK, Evaluations
<1>3. ReadyToWrite(ev[e])
  BY <1>1 DEF VersionsIdentifyRows
<1>4. PICK key \in Keys : key = Key(e) /\ key = Order[ev[e].at]
  BY <1>2, <1>3, KeysOfTheOrder DEF Key, ReadyToWrite
<1>5. PICK row \in AlertRows : row = alert[key] /\ row = ev[e].row
  BY <1>1, <1>2, <1>3, <1>4 DEF ReadyToWrite
<1>6. PICK state \in Classes : state = ev[e].conds[key]
  BY <1>3, <1>4 DEF ReadyToWrite
<1>7. PICK d : d = Decide(key, row, state)
  OBVIOUS
<1>8. /\ d = Decision(e) /\ d.row # row
      /\ alert' = [alert EXCEPT ![key] = d.row]
      /\ persisted' = persisted \cup d.events
      /\ ev' = [ev EXCEPT ![e] = [Advance(e) EXCEPT !.events = @ \cup d.events]]
  BY <1>3, <1>4, <1>5, <1>6, <1>7 DEF ReadyToWrite, Decision, CompareAndSet
<1>9. /\ d.row \in AlertRows /\ d.events \in SUBSET Events
      /\ d.row.version = row.version + 1 /\ row.version \in Nat /\ row.gen \in Nat
      /\ row.state = "OPEN" => d.row.gen = row.gen
      /\ row.state = "OPEN" /\ row.severity = "CRITICAL" => d.row.severity = "CRITICAL"
      /\ row.state = "RESOLVED" => d.row.gen = row.gen \/ d.row.gen = row.gen + 1
      /\ row.state = "RESOLVED" /\ d.row.state = "OPEN" => d.row.gen = row.gen + 1
      /\ row.state \in {"OPEN", "RESOLVED"}
  <2>1. row.version \in Nat /\ row.gen \in Nat /\ row.state \in {"OPEN", "RESOLVED"}
    BY DEF AlertRows
  <2>2. d.row \in AlertRows /\ d.events \in SUBSET Events
    BY <1>7, Decisions
  <2>3. d.row.version = row.version + 1
    <3>1. d.row # row => d.row.version = row.version + 1
      BY <1>7, Decisions
    <3> QED
      BY <1>8, <3>1
  <2>4. /\ row.state = "OPEN" => d.row.gen = row.gen
        /\ row.state = "OPEN" /\ row.severity = "CRITICAL" => d.row.severity = "CRITICAL"
        /\ row.state = "RESOLVED" => d.row.gen = row.gen \/ d.row.gen = row.gen + 1
        /\ row.state = "RESOLVED" /\ d.row.state = "OPEN" => d.row.gen = row.gen + 1
    BY <1>7, Decisions
  <2> QED
    BY <2>1, <2>2, <2>3, <2>4
<1>10. \A x \in d.events :
         /\ x.key = key /\ x.gen = d.row.gen
         /\ x.type = "OPENED" => row.state = "RESOLVED" /\ x.gen = row.gen + 1
         /\ x.type = "RESOLVED" => row.state = "OPEN" /\ d.row.state = "RESOLVED"
         /\ x.type = "ESCALATED" =>
              /\ row.state = "OPEN" /\ row.severity # "CRITICAL"
              /\ d.row.severity = "CRITICAL"
  BY <1>7, Decisions
<1>11. \A x \in persisted : x \in Events /\ x.key \in Keys /\ x.gen \in Nat
  BY DEF HealthTypeOK, Events
<1>12. /\ alert' \in [Keys -> AlertRows] /\ alert'[key] = d.row
       /\ \A k \in Keys : k # key => alert'[k] = alert[k]
  BY <1>8, <1>9 DEF HealthTypeOK
<1> DEFINE new == [Advance(e) EXCEPT !.events = ev[e].events \cup d.events]
<1>13. ev' = [ev EXCEPT ![e] = new]
  BY <1>1, <1>8, NextKey
<1>14. /\ new \in Evaluations /\ new.pc = "get" /\ new.events = ev[e].events \cup d.events
       /\ new.start = ev[e].start /\ new.conds = ev[e].conds
  BY <1>1, <1>2, <1>9, NextKey DEF Evaluations
<1> HIDE DEF new
<1>15. /\ ev' \in [Evaluators -> Evaluations] /\ ev'[e] = new
       /\ \A c \in Evaluators : c # e => ev'[c] = ev[c]
  BY <1>13, <1>14 DEF HealthTypeOK
<1>16. d.events \cap persisted = {}
  <2> SUFFICES ASSUME NEW x \in persisted, x \in d.events PROVE FALSE
    OBVIOUS
  <2>1. x.key = key /\ x.gen = d.row.gen /\ x.gen <= row.gen
    BY <1>5, <1>10 DEF EventsAreBehind
  <2>2. x.type \in {"OPENED", "RESOLVED", "ESCALATED"}
    BY <1>11 DEF Events
  <2>3. x.type # "OPENED"
    BY <1>9, <1>10, <2>1
  <2>4. row.state = "OPEN" /\ x.gen = row.gen
    BY <1>9, <1>10, <2>1, <2>2, <2>3
  <2> QED
    BY <1>5, <1>10, <2>1, <2>2, <2>3, <2>4 DEF EventsAreBehind
<1>17. HealthTypeOK'
  BY <1>1, <1>8, <1>9, <1>12, <1>15 DEF HealthTypeOK, envVars
<1>18. VersionsIdentifyRows'
  <2>1. ASSUME NEW c \in Evaluators, ev'[c].pc = "cas"
        PROVE  ReadyToWrite(ev[c])'
    <3>1. c # e /\ ev'[c] = ev[c] /\ ReadyToWrite(ev[c])
      BY <1>14, <1>15, <2>1 DEF VersionsIdentifyRows
    <3>2. PICK v \in Evaluations : v = ev[c] /\ v = ev'[c]
      BY <3>1 DEF HealthTypeOK
    <3>3. v.at \in Nat \ {0} /\ v.at <= Len(Order) /\ v.row.version \in Nat
      BY <3>1, <3>2 DEF ReadyToWrite, Evaluations, AlertRows
    <3>4. PICK other \in Keys : other = Order[v.at]
      BY <3>3, KeysOfTheOrder
    <3>5. CASE other # key
      BY <1>12, <3>1, <3>2, <3>4, <3>5 DEF ReadyToWrite
    <3>6. CASE other = key
      <4>1. v.row.version <= row.version
        BY <1>5, <3>1, <3>2, <3>4, <3>6 DEF ReadyToWrite
      <4>2. v.row.version < alert'[key].version
        BY <1>9, <1>12, <3>3, <4>1
      <4>3. alert'[key].version \in Nat
        BY <1>9, <1>12
      <4> QED
        BY <3>1, <3>2, <3>3, <3>4, <3>6, <4>2, <4>3 DEF ReadyToWrite
    <3> QED
      BY <3>5, <3>6
  <2> QED
    BY <2>1 DEF VersionsIdentifyRows
<1>19. EventsAreBehind'
  <2>1. ASSUME NEW x \in persisted'
        PROVE  /\ x.gen <= alert'[x.key].gen
               /\ x.gen = alert'[x.key].gen /\ alert'[x.key].state = "OPEN" =>
                    /\ x.type # "RESOLVED"
                    /\ x.type = "ESCALATED" => alert'[x.key].severity = "CRITICAL"
    <3>1. CASE x \in d.events
      <4>1. d.row.gen \in Nat
        BY <1>9 DEF AlertRows
      <4> QED
        BY <1>10, <1>12, <3>1, <4>1
    <3>2. CASE x \in persisted /\ x.key # key
      BY <1>11, <1>12, <3>2 DEF EventsAreBehind
    <3>3. CASE x \in persisted /\ x.key = key
      <4>1. x.gen <= row.gen /\ x.gen \in Nat
        BY <1>5, <1>11, <3>3 DEF EventsAreBehind
      <4>2. x.gen <= d.row.gen
        BY <1>9, <4>1
      <4>3. ASSUME x.gen = d.row.gen, d.row.state = "OPEN"
            PROVE  /\ x.type # "RESOLVED"
                   /\ x.type = "ESCALATED" => d.row.severity = "CRITICAL"
        <5>1. row.state = "OPEN" /\ x.gen = row.gen
          BY <1>9, <4>1, <4>3
        <5> QED
          BY <1>5, <1>9, <3>3, <5>1 DEF EventsAreBehind
      <4> QED
        BY <1>12, <3>3, <4>2, <4>3
    <3> QED
      BY <1>8, <2>1, <3>1, <3>2, <3>3
  <2> QED
    BY <2>1 DEF EventsAreBehind
<1>20. EventsAreApart'
  <2>1. \A c \in Evaluators : c # e => ev'[c].events = ev[c].events
    BY <1>15
  <2>2. ev'[e].events = ev[e].events \cup d.events
    BY <1>14, <1>15
  <2>3. \A c \in Evaluators : \A x \in ev[c].events : x \in persisted
    BY DEF EventsAreApart
  <2>4. \A c \in Evaluators : c # e => ev'[e].events \cap ev'[c].events = {}
    BY <1>16, <2>1, <2>2, <2>3 DEF EventsAreApart
  <2>5. \A y \in emitted : y[2] \in persisted
    BY DEF EventsAreEmittedOnce
  <2>6. \A y \in emitted : \A c \in Evaluators : y[2] \notin ev'[c].events
    BY <1>16, <2>1, <2>2, <2>5 DEF EventsAreApart
  <2>7. \A c \in Evaluators : ev'[c].events \subseteq persisted'
    BY <1>8, <2>1, <2>2, <2>3
  <2>8. \A b, c \in Evaluators : \A x \in ev'[b].events : x \in ev'[c].events => b = c
    BY <2>1, <2>4 DEF EventsAreApart
  <2> QED
    BY <1>1, <2>6, <2>7, <2>8 DEF EventsAreApart
<1>21. EventsAreEmittedOnce'
  BY <1>1, <1>8 DEF EventsAreEmittedOnce
<1>22. StartsAreBehind' /\ LagIsNotOverstated'
  <2>1. BegunBefore(ev[e])
    BY <1>1 DEF StartsAreBehind
  <2>2. \A c \in Evaluators : ev'[c].pc # "off" => BegunBefore(ev'[c])
    BY <1>14, <1>15, <2>1 DEF StartsAreBehind, BegunBefore
  <2>3. \A c \in Evaluators : BegunBefore(ev[c])' <=> BegunBefore(ev'[c])
    BY <1>1 DEF BegunBefore, envVars
  <2>4. LagIsNotOverstated'
    BY <1>1, <1>14, <1>15 DEF LagIsNotOverstated
  <2> QED
    BY <2>2, <2>3, <2>4 DEF StartsAreBehind
<1> QED
  BY <1>17, <1>18, <1>19, <1>20, <1>21, <1>22

LEMMA EmitStep ==
  ASSUME HealthInv, NEW e \in Evaluators, Emit(e)
  PROVE  HealthInv'
<1> USE DEF HealthInv
<1>1. /\ emitted' = emitted \cup {<<ev[e].eval, x>> : x \in ev[e].events}
      /\ ev' = [ev EXCEPT ![e] = Off]
      /\ UNCHANGED <<envVars, alert, evals, persisted>>
  BY DEF Emit
<1>2. ev[e].events \subseteq Events /\ ev[e].eval \in Nat
  BY DEF HealthTypeOK, Evaluations
<1>3. /\ ev' \in [Evaluators -> Evaluations] /\ ev'[e] = Off
      /\ \A c \in Evaluators : c # e => ev'[c] = ev[c]
  BY <1>1, OffIsAnEvaluation DEF HealthTypeOK
<1>4. HealthTypeOK'
  BY <1>1, <1>2, <1>3 DEF HealthTypeOK, envVars
<1>5. VersionsIdentifyRows'
  <2>1. \A c \in Evaluators : ev'[c].pc = "cas" => c # e /\ ReadyToWrite(ev'[c])
    BY <1>3, OffIsAnEvaluation DEF VersionsIdentifyRows
  <2>2. \A c \in Evaluators : ReadyToWrite(ev[c])' <=> ReadyToWrite(ev'[c])
    BY <1>1 DEF ReadyToWrite
  <2> QED
    BY <2>1, <2>2 DEF VersionsIdentifyRows
<1>6. EventsAreBehind'
  BY <1>1 DEF EventsAreBehind
<1>7. \A y \in emitted' :
        \/ y \in emitted
        \/ y[1] = ev[e].eval /\ y[2] \in ev[e].events /\ y = <<ev[e].eval, y[2]>>
  BY <1>1
<1>8. EventsAreEmittedOnce'
  <2>1. \A y \in emitted' : y[2] \in persisted
    BY <1>7 DEF EventsAreEmittedOnce, EventsAreApart
  <2>2. \A y \in emitted : y[2] \notin ev[e].events
    BY DEF EventsAreApart
  <2>3. \A y, z \in emitted' : y[2] = z[2] => y = z
    BY <1>7, <2>2 DEF EventsAreEmittedOnce
  <2> QED
    BY <1>1, <2>1, <2>3 DEF EventsAreEmittedOnce
<1>9. EventsAreApart'
  <2>1. \A c \in Evaluators : ev'[c].events \subseteq ev[c].events
    BY <1>3, OffIsAnEvaluation
  <2>2. ev'[e].events = {}
    BY <1>3, OffIsAnEvaluation
  <2>3. \A y \in emitted' : \A c \in Evaluators : y[2] \notin ev'[c].events
    BY <1>3, <1>7, <2>1, <2>2 DEF EventsAreApart
  <2> QED
    BY <1>1, <2>1, <2>3 DEF EventsAreApart
<1>10. StartsAreBehind' /\ LagIsNotOverstated'
  <2>1. \A c \in Evaluators : ev'[c].pc # "off" => c # e /\ ev'[c] = ev[c]
    BY <1>3, OffIsAnEvaluation
  <2>2. \A c \in Evaluators : BegunBefore(ev[c])' <=> BegunBefore(ev'[c])
    BY <1>1 DEF BegunBefore, envVars
  <2>3. \A c \in Evaluators : ev'[c].pc \in {"status", "get", "cas"} => ev'[c] = ev[c]
    BY <2>1
  <2> QED
    BY <2>1, <2>2, <2>3 DEF StartsAreBehind, LagIsNotOverstated
<1> QED
  BY <1>4, <1>5, <1>6, <1>8, <1>9, <1>10

LEMMA WorldStep ==
  ASSUME HealthInv, Produce \/ FinishForward \/ GrowOld \/ Refresh
  PROVE  HealthInv'
<1> USE DEF HealthInv
<1>1. UNCHANGED <<alert, ev, evals, persisted, emitted>>
  BY DEF Produce, FinishForward, GrowOld, Refresh, Change
<1>2. /\ head' \in Nat /\ committed' \in Nat /\ refreshes' \in Nat
      /\ committed <= committed'
      /\ latest' \in {"NONE", "SUCCEEDED", "FAILED"} /\ age' \in Classes
  <2>1. Safe(head) \in Nat
    BY DEF Safe, HealthTypeOK
  <2> QED
    BY <2>1 DEF HealthTypeOK, Classes, Produce, FinishForward, GrowOld, Refresh
<1>3. HealthTypeOK'
  BY <1>1, <1>2 DEF HealthTypeOK
<1>4. VersionsIdentifyRows'
  BY <1>1 DEF VersionsIdentifyRows, ReadyToWrite
<1>5. EventsAreBehind' /\ EventsAreApart' /\ EventsAreEmittedOnce' /\ LagIsNotOverstated'
  BY <1>1 DEF EventsAreBehind, EventsAreApart, EventsAreEmittedOnce, LagIsNotOverstated
<1>6. StartsAreBehind'
  <2>1. \A c \in Evaluators : ev[c].start.committed \in Nat /\ committed \in Nat
    BY DEF HealthTypeOK, Evaluations, Starts
  <2> QED
    BY <1>1, <1>2, <2>1 DEF StartsAreBehind, BegunBefore
<1> QED
  BY <1>3, <1>4, <1>5, <1>6

LEMMA HealthStart == HealthInit => HealthInv
<1> SUFFICES ASSUME HealthInit PROVE HealthInv
  OBVIOUS
<1> USE DEF HealthInit
<1>1. Resolved \in AlertRows
  BY DEF Resolved, AlertRows
<1>2. HealthTypeOK
  BY <1>1, OffIsAnEvaluation DEF HealthTypeOK, Classes
<1>3. \A e \in Evaluators : ev[e].pc = "off" /\ ev[e].events = {}
  BY OffIsAnEvaluation
<1>4. VersionsIdentifyRows /\ StartsAreBehind /\ LagIsNotOverstated
  BY <1>3 DEF VersionsIdentifyRows, StartsAreBehind, LagIsNotOverstated
<1>5. EventsAreBehind /\ EventsAreApart /\ EventsAreEmittedOnce
  BY <1>3 DEF EventsAreBehind, EventsAreApart, EventsAreEmittedOnce
<1> QED
  BY <1>2, <1>4, <1>5 DEF HealthInv

LEMMA HealthStep == HealthInv /\ [HealthNext]_healthVars => HealthInv'
<1> SUFFICES ASSUME HealthInv, [HealthNext]_healthVars PROVE HealthInv'
  OBVIOUS
<1>1. CASE UNCHANGED healthVars
  BY <1>1 DEF healthVars, HealthInv, HealthTypeOK, VersionsIdentifyRows, ReadyToWrite,
     EventsAreBehind, EventsAreApart, EventsAreEmittedOnce, StartsAreBehind, BegunBefore,
     LagIsNotOverstated
<1>2. ASSUME NEW e \in Evaluators, Abandon(e)
      PROVE  HealthInv'
  BY <1>2, GivenUp DEF Abandon
<1>3. CASE HealthNext
  BY <1>2, <1>3, BeginStep, CollectStep, ReadStatusStep, GetStep, SkipKeyStep,
     CompareAndSetStep, VersionConflictStep, EmitStep, WorldStep DEF HealthNext
<1> QED
  BY <1>1, <1>3

LEMMA HealthInductive == HealthSpec => []HealthInv
BY HealthStart, HealthStep, PTL DEF HealthSpec

\* Of the evaluations that race for a transition only the one that persisted
\* it emits its event, and no event is emitted twice (alerts.py
\* evaluate_alerts, alert_state.py compare_and_set).
THEOREM EventsAreReportedOnce == HealthSpec => []EventsAreEmittedOnce
BY HealthInductive, PTL DEF HealthInv

\* A report whose head was read before a forward run committed does not
\* overstate the lag there was when the evaluation began (freshness.py
\* position_lag, run_freshness_checks.py collect_freshness).
THEOREM ReportsDoNotOverstate == HealthSpec => []LagIsNotOverstated
BY HealthInductive, PTL DEF HealthInv

\* An open incident that is CRITICAL stays so, and stays the same incident,
\* whatever an evaluation had read before (alerts.py decide_alert_transition).
THEOREM CriticalStays == HealthSpec => CriticalIsSticky
<1>1. ASSUME HealthInv, [HealthNext]_healthVars, NEW k \in Keys,
             alert[k].state = "OPEN", alert[k].severity = "CRITICAL"
      PROVE  alert'[k].severity = "CRITICAL" /\ alert'[k].gen = alert[k].gen
  <2>1. CASE alert' = alert
    BY <1>1, <2>1
  <2>2. ASSUME NEW e \in Evaluators, CompareAndSet(e)
        PROVE  alert'[k].severity = "CRITICAL" /\ alert'[k].gen = alert[k].gen
    <3> USE DEF HealthInv
    <3>1. ev[e].pc = "cas" /\ alert[Key(e)].version = ev[e].row.version
      BY <2>2 DEF CompareAndSet, VersionMatches
    <3>2. ReadyToWrite(ev[e]) /\ ev[e].at \in Nat \ {0}
      BY <1>1, <3>1 DEF VersionsIdentifyRows, HealthTypeOK, Evaluations
    <3>3. PICK key \in Keys : key = Key(e) /\ key = Order[ev[e].at]
      BY <3>2, KeysOfTheOrder DEF Key, ReadyToWrite
    <3>4. PICK row \in AlertRows : row = alert[key] /\ row = ev[e].row
      BY <1>1, <3>1, <3>2, <3>3 DEF ReadyToWrite, HealthTypeOK
    <3>5. PICK state \in Classes : state = ev[e].conds[key]
      BY <3>2, <3>3 DEF ReadyToWrite
    <3>6. PICK d : d = Decide(key, row, state)
      OBVIOUS
    <3>7. alert' = [alert EXCEPT ![key] = d.row]
      BY <2>2, <3>3, <3>4, <3>5, <3>6 DEF CompareAndSet, Decision
    <3>8. row.state = "OPEN" /\ row.severity = "CRITICAL"
            => d.row.severity = "CRITICAL" /\ d.row.gen = row.gen
      BY <3>6, Decisions
    <3>9. alert \in [Keys -> AlertRows]
      BY <1>1 DEF HealthTypeOK
    <3> QED
      BY <1>1, <3>4, <3>7, <3>8, <3>9
  <2>3. alert' = alert \/ \E e \in Evaluators : CompareAndSet(e)
    BY <1>1 DEF HealthNext, healthVars, Begin, Collect, ReadStatus, Get, SkipKey,
       VersionConflict, Emit, Abandon, Produce, FinishForward, GrowOld, Refresh, Change
  <2> QED
    BY <2>1, <2>2, <2>3
<1>2. HealthInv /\ [HealthNext]_healthVars =>
        [\A k \in Keys :
           alert[k].state = "OPEN" /\ alert[k].severity = "CRITICAL"
             => alert'[k].severity = "CRITICAL" /\ alert'[k].gen = alert[k].gen]_healthVars
  BY <1>1
<1> QED
  BY <1>2, HealthInductive, PTL DEF HealthSpec, CriticalIsSticky
================================================================================
