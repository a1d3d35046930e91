------------------------------ MODULE Watermarks ------------------------------
(***************************************************************************)
(* The Snowflake control table PIPELINE_WATERMARKS and the service          *)
(* functions over it, for one pipeline whose progress is a set of related  *)
(* identities (Chainlink: one round cursor per feed and a global block).   *)
(*                                                                         *)
(* A client plans from rows it read one SELECT at a time, works, and then  *)
(* commits the whole set in one transaction: SELECT every row and compare  *)
(* it with the plan, UPDATE the rows whose candidate differs, COMMIT.      *)
(* Snowflake is external: a statement sees what was committed before it    *)
(* began (READ COMMITTED), an UPDATE keeps the table locked against other  *)
(* UPDATEs until its transaction ends, and INSERTs do not lock, so two     *)
(* INSERT ... WHERE NOT EXISTS may both insert.                            *)
(***************************************************************************)
EXTENDS Integers, FiniteSets

CONSTANTS
  Clients,   \* processes with a connection to the control schema
  N,         \* the number of related identities
  Anchor,    \* the identity every commit advances (the global block)
  MaxValue,  \* MAX_WATERMARK_VALUE, the capacity of NUMBER(38, 0)
  NoClient   \* nobody holds the table's UPDATE lock

ASSUME NAssumption == N \in Nat \ {0}
ASSUME AnchorAssumption == Anchor \in 1 .. N
ASSUME MaxValueAssumption == MaxValue \in Nat
ASSUME NoClientAssumption == NoClient \notin Clients

\* An identity is its position under _identity_sort_key: transactions visit
\* the identities in this order.
Identities == 1 .. N
Values == 0 .. MaxValue

\* A physical row, with the run that wrote it: rows of different runs differ.
Row == [value : Values, run : Clients]

VARIABLES
  rows,    \* the committed rows of each identity
  writer,  \* the client whose open transaction holds the UPDATE lock
  pc,      \* what each client is doing
  next,    \* the identity a client's loop visits next
  plan,    \* the committed values a client read when it planned
  goal,    \* the values a client wants to commit
  hit      \* the rows a client's open transaction has updated

vars == <<rows, writer, pc, next, plan, goal, hit>>

Phases == {"idle", "checking", "inserting", "reading", "selecting", "updating"}

Vectors == [Identities -> Values]
Tables == [Identities -> SUBSET Row]

ZeroVector == [i \in Identities |-> 0]
NoRows == [i \in Identities |-> {}]

\* ---- Rows ---------------------------------------------------------------

Missing(i) == rows[i] = {}

Holds(i, v) == \E r \in rows[i] : r.value = v

\* get(): exactly one row, and this is its value.
Reads(i, v) == \E r \in rows[i] : rows[i] = {r} /\ r.value = v

Written(c, i) == [value |-> goal[c][i], run |-> c]

\* Mutant: the block position may stay where it was.
CandidateWithoutAnchor(p, g) ==
  /\ \A i \in Identities : p[i] <= g[i]
  /\ p # g

\* validate_candidate for every identity; is_noop has excluded a candidate
\* that leaves the anchor where it was.
Candidate(p, g) ==
  /\ \A i \in Identities : p[i] <= g[i]
  /\ p[Anchor] < g[Anchor]

\* ---- Control ------------------------------------------------------------

\* A client that stops, for whatever reason, leaves no transaction open.
Stop(c) ==
  /\ pc' = [pc EXCEPT ![c] = "idle"]
  /\ next' = [next EXCEPT ![c] = 1]
  /\ plan' = [plan EXCEPT ![c] = ZeroVector]
  /\ goal' = [goal EXCEPT ![c] = ZeroVector]
  /\ hit' = [hit EXCEPT ![c] = NoRows]
  /\ writer' = IF writer = c THEN NoClient ELSE writer

Step(c) ==
  /\ next' = [next EXCEPT ![c] = @ + 1]
  /\ UNCHANGED <<pc, plan, goal>>

Enter(c, phase) ==
  /\ pc' = [pc EXCEPT ![c] = phase]
  /\ next' = [next EXCEPT ![c] = 1]

Visiting(c, phase) == pc[c] = phase /\ next[c] \in Identities
Visited(c, phase) == pc[c] = phase /\ next[c] = N + 1

\* ---- Initialization: initialize_watermarks_atomically --------------------

BeginInitialize(c) ==
  /\ pc[c] = "idle"
  /\ \E g \in Vectors : goal' = [goal EXCEPT ![c] = g]
  /\ Enter(c, "checking")
  /\ UNCHANGED <<rows, writer, plan, hit>>

\* One get() of the guard: any existing row (or corrupt state) is refused.
CheckAbsent(c) ==
  /\ Visiting(c, "checking")
  /\ IF Missing(next[c]) THEN Step(c) /\ UNCHANGED <<writer, hit>> ELSE Stop(c)
  /\ UNCHANGED rows

BeginInsert(c) ==
  /\ Visited(c, "checking")
  /\ Enter(c, "inserting")
  /\ UNCHANGED <<rows, writer, plan, goal, hit>>

\* One INSERT ... SELECT ... WHERE NOT EXISTS; rowcount 0 rolls all back.
InsertRow(c) ==
  /\ Visiting(c, "inserting")
  /\ IF Missing(next[c]) THEN Step(c) /\ UNCHANGED <<writer, hit>> ELSE Stop(c)
  /\ UNCHANGED rows

\* Mutant: every INSERT commits by itself.
AutocommitInsert(c) ==
  /\ pc[c] = "inserting"
  /\ rows' = [i \in Identities |->
                IF i < next[c] THEN rows[i] \cup {Written(c, i)} ELSE rows[i]]
  /\ Stop(c)

CommitInsert(c) ==
  /\ Visited(c, "inserting")
  /\ rows' = [i \in Identities |-> rows[i] \cup {Written(c, i)}]
  /\ Stop(c)

\* ---- Planning -----------------------------------------------------------

BeginPlan(c) ==
  /\ pc[c] = "idle"
  /\ Enter(c, "reading")
  /\ UNCHANGED <<rows, writer, plan, goal, hit>>

\* One get() of the plan: a missing or duplicate row ends the run.
ReadState(c) ==
  /\ Visiting(c, "reading")
  /\ \/ \E v \in Values :
          /\ Reads(next[c], v)
          /\ plan' = [plan EXCEPT ![c][next[c]] = v]
          /\ next' = [next EXCEPT ![c] = @ + 1]
          /\ UNCHANGED <<pc, goal, writer, hit>>
     \/ /\ Cardinality(rows[next[c]]) # 1
        /\ Stop(c)
  /\ UNCHANGED rows

\* The plan has nothing new (is_noop), or its candidate is refused.
NoWork(c) ==
  /\ Visited(c, "reading")
  /\ Stop(c)
  /\ UNCHANGED rows

\* Mutant: a candidate beyond NUMBER(38, 0) is not refused.
BeginUncheckedCommit(c) ==
  /\ Visited(c, "reading")
  /\ \E g \in [Identities -> 0 .. MaxValue + 1] :
       /\ Candidate(plan[c], g)
       /\ goal' = [goal EXCEPT ![c] = g]
  /\ Enter(c, "selecting")
  /\ UNCHANGED <<rows, writer, plan, hit>>

\* The work succeeded and commit_watermarks_atomically accepts the candidate.
BeginCommit(c) ==
  /\ Visited(c, "reading")
  /\ \E g \in Vectors :
       /\ Candidate(plan[c], g)
       /\ goal' = [goal EXCEPT ![c] = g]
  /\ Enter(c, "selecting")
  /\ UNCHANGED <<rows, writer, plan, hit>>

\* ---- The transaction of advance_many -------------------------------------

\* SELECT one row: it must still be the planned one.
SelectRow(c) ==
  /\ Visiting(c, "selecting")
  /\ IF Reads(next[c], plan[c][next[c]])
       THEN Step(c) /\ UNCHANGED <<writer, hit>>
       ELSE Stop(c)
  /\ UNCHANGED rows

BeginUpdate(c) ==
  /\ Visited(c, "selecting")
  /\ Enter(c, "updating")
  /\ UNCHANGED <<rows, writer, plan, goal, hit>>

Unchanged(c, i) == goal[c][i] = plan[c][i]

\* An unchanged candidate is skipped, without touching the row.
SkipRow(c) ==
  /\ Visiting(c, "updating")
  /\ Unchanged(c, next[c])
  /\ Step(c)
  /\ UNCHANGED <<rows, writer, hit>>

\* Mutant: the UPDATE's predicate only names the identity.
AnyRow(c, i) == rows[i]

\* UPDATE ... WHERE committed_value = expected.
Matching(c, i) == {r \in rows[i] : r.value = plan[c][i]}

\* rowcount = 1: rows that do not match are not counted.
UpdateMatches(c, i) == \E r \in rows[i] : Matching(c, i) = {r}

\* The UPDATE is executed once the lock is free.
UpdateRow(c) ==
  /\ Visiting(c, "updating")
  /\ ~Unchanged(c, next[c])
  /\ writer \in {NoClient, c}
  /\ IF UpdateMatches(c, next[c])
       THEN /\ Step(c)
            /\ writer' = c
            /\ hit' = [hit EXCEPT ![c][next[c]] = Matching(c, next[c])]
       ELSE Stop(c)
  /\ UNCHANGED rows

CommitUpdate(c) ==
  /\ Visited(c, "updating")
  /\ rows' = [i \in Identities |->
                IF Unchanged(c, i) THEN rows[i]
                ELSE (rows[i] \ hit[c][i]) \cup {Written(c, i)}]
  /\ Stop(c)

\* ---- Failure ------------------------------------------------------------

\* Mutant: a failed run keeps the table locked.
AbortWithoutRollback(c) ==
  /\ pc[c] # "idle"
  /\ Enter(c, "idle")
  /\ plan' = [plan EXCEPT ![c] = ZeroVector]
  /\ goal' = [goal EXCEPT ![c] = ZeroVector]
  /\ hit' = [hit EXCEPT ![c] = NoRows]
  /\ UNCHANGED <<rows, writer>>

\* Mutant: the UPDATEs of a failed transaction stay.
AbortKeepingUpdates(c) ==
  /\ pc[c] # "idle"
  /\ rows' = [i \in Identities |->
                IF hit[c][i] = {} THEN rows[i]
                ELSE (rows[i] \ hit[c][i]) \cup {Written(c, i)}]
  /\ Stop(c)

\* The process dies, a statement fails, or the connection drops: Snowflake
\* rolls the open transaction back.
Abort(c) ==
  /\ pc[c] # "idle"
  /\ Stop(c)
  /\ UNCHANGED rows

\* ---- Specification --------------------------------------------------------

Init ==
  /\ rows = [i \in Identities |-> {}]
  /\ writer = NoClient
  /\ pc = [c \in Clients |-> "idle"]
  /\ next = [c \in Clients |-> 1]
  /\ plan = [c \in Clients |-> ZeroVector]
  /\ goal = [c \in Clients |-> ZeroVector]
  /\ hit = [c \in Clients |-> NoRows]

Begin(c) == BeginInitialize(c) \/ BeginPlan(c)

\* What a running client does next, when nothing fails.
Proceed(c) ==
  \/ CheckAbsent(c) \/ BeginInsert(c) \/ InsertRow(c) \/ CommitInsert(c)
  \/ ReadState(c) \/ NoWork(c) \/ BeginCommit(c)
  \/ SelectRow(c) \/ BeginUpdate(c) \/ SkipRow(c) \/ UpdateRow(c)
  \/ CommitUpdate(c)

Next == \E c \in Clients : Begin(c) \/ Proceed(c) \/ Abort(c)

Spec == Init /\ [][Next]_vars

\* A client that has begun keeps executing statements, and Snowflake grants
\* the UPDATE lock in order of arrival: a waiting UPDATE is not overtaken
\* forever.  No client has to begin anything, and none has to fail.
Fairness ==
  \A c \in Clients : WF_vars(Proceed(c)) /\ SF_vars(UpdateRow(c))

FairSpec == Spec /\ Fairness

\* ---- Properties -----------------------------------------------------------

TypeOK ==
  /\ rows \in Tables
  /\ writer \in Clients \cup {NoClient}
  /\ pc \in [Clients -> Phases]
  /\ next \in [Clients -> 1 .. N + 1]
  /\ plan \in [Clients -> Vectors]
  /\ goal \in [Clients -> Vectors]
  /\ hit \in [Clients -> Tables]

\* The related identities exist together or not at all: initialize_many
\* never leaves a partial set behind, whatever fails and whoever races.
AllOrNothing ==
  (\E i \in Identities : Missing(i)) => \A i \in Identities : Missing(i)

\* Durable progress never goes backward and no row disappears: the SQL
\* predicates of advance_many and validate_candidate together.
OnlyForward ==
  [][\A i \in Identities : \A r \in rows[i] :
       \E s \in rows'[i] : r.value <= s.value]_vars

\* The rows as one vector that moves forward atomically, or corrupt state.
Usable == \A i \in Identities : \E v \in Values : Reads(i, v)

\* At the instant a commit installs its candidates, every related identity,
\* the skipped ones too, still holds the value the run planned from.  The
\* transaction re-checks only the rows it changes, and SELECTs see other
\* commits come in between, so this rests on every commit moving the anchor.
\* Where two initializations have left two rows each, which every later read
\* refuses, an UPDATE already under way may still match one of them.
CommitsOnlyItsPlan ==
  [][\A c \in Clients :
       CommitUpdate(c) /\ Usable => \A i \in Identities : Holds(i, plan[c][i])]_vars

TableStatus ==
  IF \A i \in Identities : Missing(i) THEN "absent"
  ELSE IF Usable THEN "ready" ELSE "corrupt"

ProgressVector ==
  IF Usable THEN [i \in Identities |-> CHOOSE v \in Values : Reads(i, v)]
            ELSE ZeroVector

Abstract == INSTANCE AtomicProgress WITH
  status <- TableStatus, progress <- ProgressVector

\* The statements of all clients together implement AtomicProgress: no
\* interleaving of SELECTs, UPDATEs, commits and failures shows through.
ImplementsAtomicProgress == Abstract!Spec

\* A client inside a call or a transaction always gets out of it: the table
\* lock is never held by a client that waits for it or has gone.
CallsReturn == \A c \in Clients : (pc[c] # "idle") ~> (pc[c] = "idle")

================================================================================
