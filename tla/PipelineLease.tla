----------------------------- MODULE PipelineLease -----------------------------
(***************************************************************************)
(* One row of CONTROL.PIPELINE_RUN_LEASES and the processes that share it: *)
(* the Uniswap recovery, its retries and manual runs, and the correction   *)
(* replay.  A process acquires the lease (clock, SELECT, UPDATE, COMMIT),  *)
(* works without a heartbeat and releases with the owner and version of    *)
(* its handle.  Run ids are not unique to a process: a retry keeps the id  *)
(* of its run, and manual runs have a constant default.                    *)
(*                                                                         *)
(* A process may die anywhere.  Its open transaction then stays open until *)
(* Snowflake ends it, and its release may execute much later.  Reading the *)
(* clock and starting the attempt are one event, so an attempt lasts here  *)
(* at least as long as the code lets it.                                   *)
(***************************************************************************)
EXTENDS Integers

CONSTANTS
  Workers,     \* processes
  Runs,        \* run ids
  RunOf,       \* the run id each process passes
  Ttl,         \* DEFAULT_LEASE_TTL
  Timeout,     \* how long each process may live before its scheduler kills it
  NoRun,       \* owner_run_id IS NULL
  NoWorker,    \* no transaction has the row locked
  MaxTime,     \* bound: the last instant
  MaxVersion   \* bound: no call starts once the version is that high

ASSUME RunsAssumption == RunOf \in [Workers -> Runs] /\ NoRun \notin Runs
ASSUME WorkersAssumption == NoWorker \notin Workers
ASSUME TtlAssumption == Ttl \in Nat \ {0}
ASSUME TimeoutAssumption == Timeout \in [Workers -> Nat]
ASSUME BoundsAssumption == MaxTime \in Nat /\ MaxVersion \in Nat

Phases == {"off", "select", "update", "commit", "orphan", "work"}

\* owner_run_id, expires_at and lease_version of a row.
Rows == [owner : Runs \cup {NoRun}, expires : Nat, version : Nat]

\* What a handle proves its owner by, and until when it was granted.
Handles == [version : Nat, expires : Nat]

\* A release that was sent: the owner and the version it names.
Releases == [owner : Runs, version : Nat]

VARIABLES
  clock,   \* the time
  lease,   \* the committed row
  lock,    \* the process whose transaction has updated the row
  pc,      \* the next step of each process
  now,     \* the clock reading its acquire call works with
  seen,    \* the lease_version its SELECT returned
  handle,  \* its PipelineLeaseHandle
  late     \* releases of dead processes that may still execute

vars == <<clock, lease, lock, pc, now, seen, handle, late>>

Goto(w, phase) == pc' = [pc EXCEPT ![w] = phase]

NoHandle == [version |-> 0, expires |-> 0]

\* The process is gone, with what it had in memory.
End(w) ==
  /\ Goto(w, "off")
  /\ now' = [now EXCEPT ![w] = 0]
  /\ seen' = [seen EXCEPT ![w] = 0]
  /\ handle' = [handle EXCEPT ![w] = NoHandle]

Alive(w) == pc[w] \notin {"off", "orphan"}

\* ---- acquire ------------------------------------------------------------------

\* not _is_active, and the last predicate of _acquire_query.
Available(t) == lease.owner = NoRun \/ lease.expires <= t

Start(w) ==
  /\ pc[w] = "off"
  /\ lease.version < MaxVersion
  /\ now' = [now EXCEPT ![w] = clock]
  /\ Goto(w, "select")
  /\ UNCHANGED <<clock, lease, lock, seen, handle, late>>

\* BEGIN and SELECT, which sees the committed row.
Select(w) ==
  /\ pc[w] = "select"
  /\ Available(now[w])
  /\ seen' = [seen EXCEPT ![w] = lease.version]
  /\ Goto(w, "update")
  /\ UNCHANGED <<clock, lease, lock, now, handle, late>>

\* PipelineLeaseHeldError.
Held(w) ==
  /\ pc[w] = "select"
  /\ ~Available(now[w])
  /\ End(w)
  /\ UNCHANGED <<clock, lease, lock, late>>

\* Mutant: the UPDATE compares no version.
MatchesAvailability(w) == Available(now[w])

\* The WHERE clause of _acquire_query.
Matches(w) == lease.version = seen[w] /\ Available(now[w])

\* UPDATE waits for the row's lock and keeps it until COMMIT.
Update(w) ==
  /\ pc[w] = "update" /\ lock = NoWorker
  /\ Matches(w)
  /\ lock' = w
  /\ Goto(w, "commit")
  /\ UNCHANGED <<clock, lease, now, seen, handle, late>>

\* PipelineLeaseConflictError.
Conflict(w) ==
  /\ pc[w] = "update" /\ lock = NoWorker
  /\ ~Matches(w)
  /\ End(w)
  /\ UNCHANGED <<clock, lease, lock, late>>

\* Mutant: the acquisition does not count.
GrantedUncounted(w) ==
  [owner |-> RunOf[w], expires |-> now[w] + Ttl, version |-> seen[w]]

\* Mutant: the TTL has the wrong sign.
GrantedForThePast(w) ==
  [owner |-> RunOf[w], expires |-> now[w] - Ttl, version |-> seen[w] + 1]

\* What the transaction of w writes.
Granted(w) ==
  [owner |-> RunOf[w], expires |-> now[w] + Ttl, version |-> seen[w] + 1]

\* COMMIT, and acquire returns the handle.
Commit(w) ==
  /\ pc[w] = "commit"
  /\ lease' = Granted(w)
  /\ lock' = NoWorker
  /\ handle' = [handle EXCEPT ![w] = [version |-> Granted(w).version,
                                      expires |-> Granted(w).expires]]
  /\ seen' = [seen EXCEPT ![w] = 0]
  /\ Goto(w, "work")
  /\ UNCHANGED <<clock, now, late>>

\* Mutant: Snowflake never ends the transaction of a dead process.
OrphanKeepsLock(w) ==
  /\ pc[w] = "orphan"
  /\ End(w)
  /\ UNCHANGED <<clock, lease, lock, late>>

\* Snowflake ends the transaction of a dead process: its COMMIT was on the way
\* or it is rolled back.
EndOrphan(w) ==
  /\ pc[w] = "orphan"
  /\ lease' \in {lease, Granted(w)}
  /\ lock' = NoWorker
  /\ End(w)
  /\ UNCHANGED <<clock, late>>

\* ---- renew and release -----------------------------------------------------------

\* The row still is the one the release names.
NamesRow(release) == lease.owner = release.owner /\ lease.version = release.version

\* Mutant: the release names the run and not the version.
NamesOwner(release) == lease.owner = release.owner

\* The WHERE clause of release.
IsCurrent(release) == NamesRow(release)

ReleaseOf(w) == [owner |-> RunOf[w], version |-> handle[w].version]

Freed(release) == [owner |-> NoRun, expires |-> 0, version |-> release.version + 1]

\* release, or PipelineLeaseOwnershipError, which changes nothing; the call
\* ends with the process.
Release(w) ==
  /\ pc[w] = "work" /\ lock = NoWorker
  /\ lease' = IF IsCurrent(ReleaseOf(w)) THEN Freed(ReleaseOf(w)) ELSE lease
  /\ End(w)
  /\ UNCHANGED <<clock, lock, late>>

\* Mutant: renew keeps the version.
RenewKeepingVersion(w) ==
  /\ pc[w] = "work" /\ lock = NoWorker
  /\ NamesRow(ReleaseOf(w))
  /\ lease' = [lease EXCEPT !.expires = clock + Ttl]
  /\ handle' = [handle EXCEPT ![w].expires = clock + Ttl]
  /\ UNCHANGED <<clock, lock, pc, now, seen, late>>

\* renew extends the lease of the exact owner and version, expired or not.
Renew(w) ==
  /\ pc[w] = "work" /\ lock = NoWorker
  /\ lease.version < MaxVersion
  /\ NamesRow(ReleaseOf(w))
  /\ lease' = [lease EXCEPT !.expires = clock + Ttl, !.version = @ + 1]
  /\ handle' = [handle EXCEPT ![w] = [version |-> handle[w].version + 1,
                                      expires |-> clock + Ttl]]
  /\ UNCHANGED <<clock, lock, pc, now, seen, late>>

\* PipelineLeaseOwnershipError from renew ends the attempt.
RenewRejected(w) ==
  /\ pc[w] = "work" /\ lock = NoWorker
  /\ ~NamesRow(ReleaseOf(w))
  /\ End(w)
  /\ UNCHANGED <<clock, lease, lock, late>>

\* ---- Failures and time ---------------------------------------------------------------

\* The process is killed (its finally block does not run) or loses Snowflake;
\* a release it had sent (in place of an older one) stays on the way.
Die(w) ==
  /\ Alive(w)
  /\ IF pc[w] = "commit" THEN Goto(w, "orphan") /\ UNCHANGED <<now, seen, handle>>
     ELSE End(w)
  /\ late' \in {late} \cup IF pc[w] = "work" THEN {{ReleaseOf(w)}} ELSE {}
  /\ UNCHANGED <<clock, lease, lock>>

LateRelease ==
  /\ lock = NoWorker
  /\ \E release \in late :
       /\ lease' = IF IsCurrent(release) THEN Freed(release) ELSE lease
       /\ late' = late \ {release}
  /\ UNCHANGED <<clock, lock, pc, now, seen, handle>>

\* A process that reached its timeout is killed before time goes on.
Tick ==
  /\ clock < MaxTime
  /\ \A w \in Workers : Alive(w) => clock - now[w] < Timeout[w]
  /\ clock' = clock + 1
  /\ UNCHANGED <<lease, lock, pc, now, seen, handle, late>>

\* ---- Specification --------------------------------------------------------------------

\* The row is provisioned free, at version 0.
Init ==
  /\ clock = 0
  /\ lease = [owner |-> NoRun, expires |-> 0, version |-> 0]
  /\ lock = NoWorker
  /\ pc = [w \in Workers |-> "off"]
  /\ now = [w \in Workers |-> 0]
  /\ seen = [w \in Workers |-> 0]
  /\ handle = [w \in Workers |-> NoHandle]
  /\ late = {}

\* The statements of an acquire call, and Snowflake's clean-up.
Acquire(w) ==
  Select(w) \/ Held(w) \/ Update(w) \/ Conflict(w) \/ Commit(w) \/ EndOrphan(w)

Hold(w) == Renew(w) \/ RenewRejected(w) \/ Release(w)

Next ==
  \/ \E w \in Workers : Start(w) \/ Acquire(w) \/ Hold(w) \/ Die(w)
  \/ LateRelease \/ Tick

Spec == Init /\ [][Next]_vars

\* A process executes its acquire call to the end unless it dies, and Snowflake
\* ends the transactions of dead sessions.  UPDATEs get the lock in turn.
FairSpec ==
  Spec /\ \A w \in Workers : WF_vars(Select(w) \/ Held(w) \/ Commit(w) \/ EndOrphan(w))
                             /\ SF_vars(Update(w) \/ Conflict(w))

\* ---- Properties --------------------------------------------------------------------------

TypeOK ==
  /\ clock \in Nat
  /\ lease \in Rows
  /\ lock \in Workers \cup {NoWorker}
  /\ pc \in [Workers -> Phases]
  /\ now \in [Workers -> Nat]
  /\ seen \in [Workers -> Nat]
  /\ handle \in [Workers -> Handles]
  /\ late \subseteq Releases

\* w can still change the row.
Valid(w) == pc[w] = "work" /\ NamesRow(ReleaseOf(w))

\* Two attempts of one run share its owner_run_id and never its version: at
\* most one process can renew or release the lease.
UniqueHandle ==
  \A v, w \in Workers : Valid(v) /\ Valid(w) => v = w

\* A process keeps the lease until the expiry it was granted, whatever the
\* others and the late releases of dead processes do.
HolderProtected ==
  \A w \in Workers : pc[w] = "work" /\ clock < handle[w].expires => Valid(w)

\* acquire is refused by its UPDATE only if somebody else changed the lease
\* after its SELECT: the row that was available at `now` still is.
ConflictMeansChange ==
  \A w \in Workers : pc[w] = "update" /\ seen[w] = lease.version => Available(now[w])

\* No change of the row is overwritten: the version only moves up, by one.
OneVersionPerChange ==
  [][lease' # lease => lease'.version = lease.version + 1]_vars

\* An acquire call returns, if only with an error, though transactions of dead
\* processes hold the lock.
AcquireReturns ==
  \A w \in Workers : pc[w] = "select" ~> pc[w] \in {"work", "off"}

\* run_uniswap_recovery.py: a recovery runs after its caller has acquired
\* single-writer ownership; leases.py: runs are comfortably shorter than the
\* TTL.  At most one process is between its acquire and its release.
LeaseExclusion ==
  \A v, w \in Workers : pc[v] = "work" /\ pc[w] = "work" => v = w

================================================================================
