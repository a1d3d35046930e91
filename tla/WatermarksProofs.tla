--------------------------- MODULE WatermarksProofs ---------------------------
(***************************************************************************)
(* What TLAPS proves of Watermarks for any set of clients, any number of   *)
(* identities, any anchor and any bound on the values: types, all-or-      *)
(* nothing initialization, progress that only moves forward, commits that  *)
(* install only what was planned, and the refinement of AtomicProgress.    *)
(*                                                                         *)
(* The argument of the inductive invariant.  The transaction of            *)
(* advance_many checks the unchanged identities only with SELECTs, and     *)
(* other commits may come between two SELECTs.  What makes the check       *)
(* sufficient is the anchor: every commit raises it and raises it under    *)
(* the UPDATE lock.  So while the anchor still reads as planned, no commit *)
(* has landed since the plan, and every identity selected so far still     *)
(* holds its planned value (Snapshot); the UPDATE of the anchor turns this *)
(* into a fact that lasts until the commit (Locked).                       *)
(***************************************************************************)
EXTENDS Watermarks, TLAPS

Committing(c) == pc[c] \in {"selecting", "updating"}

\* A client that has read identity i since it began to plan.
HasRead(c, i) == Committing(c) \/ (pc[c] = "reading" /\ i < next[c])

\* A client that has compared identity i with its plan.
HasSelected(c, i) ==
  pc[c] = "updating" \/ (pc[c] = "selecting" /\ i < next[c])

\* What was read existed, and has only moved forward since.
ReadsLast(c) ==
  \A i \in Identities :
    HasRead(c, i) => \E r \in rows[i] : plan[c][i] <= r.value

GoalIsCandidate(c) == Committing(c) => Candidate(plan[c], goal[c])

\* While the anchor reads as planned, so does every selected identity.
Snapshot(c) ==
  Reads(Anchor, plan[c][Anchor]) =>
    \A i \in Identities : HasSelected(c, i) => Holds(i, plan[c][i])

\* The rows a client has written itself are the ones it has read.
OwnRowsAreRead(c) ==
  \A i \in Identities :
    HasRead(c, i) => \A r \in rows[i] : r.run = c => r.value = plan[c][i]

\* The row an open transaction has updated: the planned value, locked, and the
\* rows beside it are of other clients.
Locked(c) ==
  \A i \in Identities :
    hit[c][i] # {} =>
      /\ pc[c] = "updating"
      /\ writer = c
      /\ \E r \in rows[i] : hit[c][i] = {r} /\ r.value = plan[c][i]
      /\ \A r \in rows[i] : r \notin hit[c][i] => r.run # c

\* The updating loop leaves no changed identity out.
UpdatesDone(c) ==
  \A i \in Identities :
    pc[c] = "updating" /\ i < next[c] /\ ~Unchanged(c, i) => hit[c][i] # {}

Sole(i) == \E r \in rows[i] : rows[i] = {r}

\* Once the anchor is updated, every identity holds what was planned.
AnchorFreezesPlan(c) ==
  hit[c][Anchor] # {} /\ Sole(Anchor) => \A i \in Identities : Holds(i, plan[c][i])

ClientInv(c) ==
  /\ ReadsLast(c)
  /\ GoalIsCandidate(c)
  /\ Snapshot(c)
  /\ OwnRowsAreRead(c)
  /\ Locked(c)
  /\ UpdatesDone(c)
  /\ AnchorFreezesPlan(c)

IInv == TypeOK /\ AllOrNothing /\ \A c \in Clients : ClientInv(c)

-------------------------------------------------------------------------------

\* The actions, for the case splits below.
QuietStep(c) ==
  \/ Begin(c) \/ CheckAbsent(c) \/ BeginInsert(c) \/ InsertRow(c) \/ ReadState(c)
  \/ NoWork(c) \/ BeginCommit(c) \/ SelectRow(c) \/ BeginUpdate(c) \/ SkipRow(c)
  \/ UpdateRow(c) \/ Abort(c)

\* Every step is one that writes no row, or one of the two commits.
LEMMA StepCases ==
  ASSUME Next
  PROVE  \E c \in Clients : QuietStep(c) \/ CommitInsert(c) \/ CommitUpdate(c)
BY DEF Next, Proceed, QuietStep

\* Only the commits write rows.
LEMMA QuietRows ==
  ASSUME NEW c \in Clients, QuietStep(c)
  PROVE  rows' = rows
<1> USE DEF Stop, Step, Enter
<1>1. CASE Begin(c)
  BY <1>1 DEF Begin, BeginInitialize, BeginPlan
<1>2. CASE CheckAbsent(c) \/ BeginInsert(c) \/ InsertRow(c)
  BY <1>2 DEF CheckAbsent, BeginInsert, InsertRow
<1>3. CASE ReadState(c) \/ NoWork(c) \/ BeginCommit(c) \/ Abort(c)
  BY <1>3 DEF ReadState, NoWork, BeginCommit, Abort
<1>4. CASE SelectRow(c) \/ BeginUpdate(c) \/ SkipRow(c) \/ UpdateRow(c)
  BY <1>4 DEF SelectRow, BeginUpdate, SkipRow, UpdateRow
<1> QED
  BY <1>1, <1>2, <1>3, <1>4 DEF QuietStep

LEMMA Basics ==
  /\ Anchor \in Identities
  /\ 0 \in Values
  /\ 1 \in 1 .. N + 1
  /\ ZeroVector \in Vectors
  /\ NoRows \in Tables
  /\ \A n \in Identities : n + 1 \in 1 .. N + 1
BY NAssumption, AnchorAssumption, MaxValueAssumption
   DEF Identities, Values, ZeroVector, NoRows, Vectors, Tables

LEMMA TypingStep ==
  ASSUME TypeOK, [Next]_vars
  PROVE  TypeOK'
<1> USE Basics DEF TypeOK
<1>1. CASE UNCHANGED vars
  BY <1>1 DEF vars
<1>2. ASSUME NEW c \in Clients, Stop(c), rows' \in Tables
      PROVE  TypeOK'
  BY <1>2 DEF Stop, Phases
<1>3. ASSUME NEW c \in Clients, NEW phase \in Phases, Enter(c, phase),
             UNCHANGED <<rows, writer, plan, hit>>,
             goal' \in [Clients -> Vectors]
      PROVE  TypeOK'
  BY <1>3 DEF Enter
<1>4. ASSUME NEW c \in Clients, NEW phase, Visiting(c, phase), Step(c),
             UNCHANGED rows, writer' \in Clients \cup {NoClient},
             hit' \in [Clients -> Tables]
      PROVE  TypeOK'
  BY <1>4 DEF Step, Visiting
<1>5. ASSUME NEW c \in Clients, Begin(c)
      PROVE  TypeOK'
  BY <1>5, <1>3 DEF Begin, BeginInitialize, BeginPlan, Phases
<1>6. ASSUME NEW c \in Clients, CheckAbsent(c) \/ InsertRow(c)
      PROVE  TypeOK'
  BY <1>6, <1>2, <1>4 DEF CheckAbsent, InsertRow
<1>7. ASSUME NEW c \in Clients, BeginInsert(c) \/ BeginUpdate(c)
      PROVE  TypeOK'
  BY <1>7, <1>3 DEF BeginInsert, BeginUpdate, Phases
<1>8. ASSUME NEW c \in Clients, CommitInsert(c)
      PROVE  TypeOK'
  <2>1. \A i \in Identities : Written(c, i) \in Row
    BY DEF Written, Row, Vectors
  <2>2. rows' \in Tables
    BY <1>8, <2>1 DEF CommitInsert, Tables
  <2> QED
    BY <1>8, <2>2, <1>2 DEF CommitInsert
<1>9. ASSUME NEW c \in Clients, ReadState(c)
      PROVE  TypeOK'
  <2>1. ASSUME NEW v \in Values,
               plan' = [plan EXCEPT ![c][next[c]] = v],
               next' = [next EXCEPT ![c] = @ + 1],
               next[c] \in Identities,
               UNCHANGED <<pc, goal, writer, hit, rows>>
        PROVE  TypeOK'
    <3>1. [plan[c] EXCEPT ![next[c]] = v] \in Vectors
      BY <2>1 DEF Vectors
    <3> QED
      BY <2>1, <3>1
  <2> QED
    BY <1>9, <1>2, <2>1 DEF ReadState, Visiting
<1>10. ASSUME NEW c \in Clients, NoWork(c) \/ Abort(c)
       PROVE  TypeOK'
  BY <1>10, <1>2 DEF NoWork, Abort
<1>11. ASSUME NEW c \in Clients, BeginCommit(c)
       PROVE  TypeOK'
  BY <1>11, <1>3 DEF BeginCommit, Phases
<1>12. ASSUME NEW c \in Clients, SelectRow(c) \/ SkipRow(c)
       PROVE  TypeOK'
  BY <1>12, <1>2, <1>4 DEF SelectRow, SkipRow
<1>13. ASSUME NEW c \in Clients, UpdateRow(c)
       PROVE  TypeOK'
  <2>1. [hit EXCEPT ![c][next[c]] = Matching(c, next[c])] \in [Clients -> Tables]
    <3>1. [hit[c] EXCEPT ![next[c]] = Matching(c, next[c])] \in Tables
      BY <1>13 DEF UpdateRow, Visiting, Tables, Matching
    <3> QED
      BY <3>1
  <2> QED
    BY <1>13, <2>1, <1>2, <1>4 DEF UpdateRow
<1>14. ASSUME NEW c \in Clients, CommitUpdate(c)
       PROVE  TypeOK'
  <2>1. rows' \in Tables
    BY <1>14 DEF CommitUpdate, Written, Tables, Row, Vectors
  <2> QED
    BY <1>14, <2>1, <1>2 DEF CommitUpdate
<1> QED
  BY <1>1, <1>5, <1>6, <1>7, <1>8, <1>9, <1>10, <1>11, <1>12, <1>13, <1>14
     DEF Next, Proceed

\* Type correctness: in particular, no committed value exceeds MaxValue.
THEOREM Typing == Spec => []TypeOK
<1>1. Init => TypeOK
  BY NAssumption, AnchorAssumption, MaxValueAssumption
     DEF Init, TypeOK, Phases, Identities, Values, ZeroVector, NoRows, Vectors,
         Tables
<1>2. TypeOK /\ [Next]_vars => TypeOK'
  BY TypingStep
<1> QED
  BY <1>1, <1>2, PTL DEF Spec

-------------------------------------------------------------------------------

\* A step of one client leaves the local state of the others alone, and takes
\* or returns the lock only for itself.
LEMMA OthersUntouched ==
  ASSUME NEW c \in Clients, QuietStep(c) \/ CommitInsert(c) \/ CommitUpdate(c),
         NEW d \in Clients, d # c, TypeOK
  PROVE  /\ pc'[d] = pc[d] /\ next'[d] = next[d] /\ plan'[d] = plan[d]
         /\ goal'[d] = goal[d] /\ hit'[d] = hit[d]
         /\ writer = d => writer' = d
<1> USE NoClientAssumption DEF TypeOK, Stop, Step, Enter
<1>1. CASE Begin(c)
  BY <1>1 DEF Begin, BeginInitialize, BeginPlan
<1>2. CASE CheckAbsent(c) \/ BeginInsert(c) \/ InsertRow(c) \/ CommitInsert(c)
  BY <1>2 DEF CheckAbsent, BeginInsert, InsertRow, CommitInsert
<1>3. CASE ReadState(c) \/ NoWork(c) \/ BeginCommit(c) \/ Abort(c)
  BY <1>3 DEF ReadState, NoWork, BeginCommit, Abort
<1>4. CASE SelectRow(c) \/ BeginUpdate(c) \/ SkipRow(c) \/ CommitUpdate(c)
  BY <1>4 DEF SelectRow, BeginUpdate, SkipRow, CommitUpdate
<1>5. CASE UpdateRow(c)
  BY <1>5 DEF UpdateRow
<1> QED
  BY <1>1, <1>2, <1>3, <1>4, <1>5 DEF QuietStep

\* A client that stops has nothing left to be invariant about.
LEMMA StoppedClient ==
  ASSUME NEW c \in Clients, TypeOK, Stop(c)
  PROVE  ClientInv(c)'
<1>1. pc'[c] = "idle" /\ hit'[c] = NoRows
  BY DEF Stop, TypeOK
<1>2. \A i \in Identities : hit'[c][i] = {}
  BY <1>1 DEF NoRows
<1> QED
  BY <1>1, <1>2, AnchorAssumption
     DEF ClientInv, ReadsLast, GoalIsCandidate, Snapshot, OwnRowsAreRead, Locked, UpdatesDone,
         AnchorFreezesPlan, Sole, HasRead, Committing, HasSelected, Identities

\* Steps that write no row keep what is known of the other clients.
LEMMA QuietForOthers ==
  ASSUME IInv, NEW c \in Clients, QuietStep(c), NEW d \in Clients, d # c
  PROVE  ClientInv(d)'
<1>1. rows' = rows
  BY QuietRows
<1>2. /\ pc'[d] = pc[d] /\ next'[d] = next[d] /\ plan'[d] = plan[d]
      /\ goal'[d] = goal[d] /\ hit'[d] = hit[d]
      /\ writer = d => writer' = d
  BY OthersUntouched DEF IInv
<1>3. ClientInv(d)
  BY DEF IInv
<1> QED
  BY <1>1, <1>2, <1>3
     DEF ClientInv, ReadsLast, GoalIsCandidate, Snapshot, OwnRowsAreRead, Locked, UpdatesDone,
         AnchorFreezesPlan, Sole, HasRead, Committing, HasSelected, Reads, Holds,
         Unchanged, Candidate

\* Steps that write no row, for the client that takes them.
LEMMA QuietForItself ==
  ASSUME IInv, NEW c \in Clients, QuietStep(c)
  PROVE  ClientInv(c)'
<1> USE DEF ClientInv, ReadsLast, GoalIsCandidate, Snapshot, OwnRowsAreRead, Locked, UpdatesDone,
            AnchorFreezesPlan, Sole, HasRead, Committing, HasSelected
<1>0. /\ rows' = rows
      /\ ClientInv(c)
      /\ TypeOK
  BY QuietRows DEF IInv
<1>1. CASE Stop(c)
  BY <1>0, <1>1, StoppedClient
<1>2. ASSUME hit' = hit, pc'[c] \in {"checking", "inserting"}, pc[c] # "updating"
      PROVE  ClientInv(c)'
  BY <1>0, <1>2, Basics
<1>3. CASE Begin(c)
  <2>1. pc[c] = "idle" /\ hit' = hit
    BY <1>3 DEF Begin, BeginInitialize, BeginPlan
  <2>2. CASE BeginInitialize(c)
    BY <1>0, <1>2, <2>1, <2>2 DEF BeginInitialize, Enter, TypeOK
  <2>3. CASE BeginPlan(c)
    <3>1. pc'[c] = "reading" /\ next'[c] = 1
      BY <1>0, <2>3 DEF BeginPlan, Enter, TypeOK
    <3> QED
      BY <1>0, <2>1, <3>1, Basics DEF Identities
  <2> QED
    BY <1>3, <2>2, <2>3 DEF Begin
<1>4. CASE CheckAbsent(c) \/ InsertRow(c) \/ BeginInsert(c)
  BY <1>0, <1>1, <1>2, <1>4
     DEF CheckAbsent, InsertRow, BeginInsert, Visiting, Visited, Step, Enter, TypeOK
<1>5. CASE ReadState(c) /\ ~Stop(c)
  <2>1. PICK v \in Values :
          /\ pc[c] = "reading" /\ next[c] \in Identities
          /\ Reads(next[c], v)
          /\ plan' = [plan EXCEPT ![c][next[c]] = v]
          /\ next' = [next EXCEPT ![c] = @ + 1]
          /\ UNCHANGED <<pc, goal, writer, hit>>
    BY <1>5 DEF ReadState, Visiting
  <2>2. /\ pc'[c] = "reading" /\ next'[c] = next[c] + 1
        /\ plan'[c] = [plan[c] EXCEPT ![next[c]] = v]
        /\ plan[c] \in Vectors
    BY <2>1, <1>0 DEF TypeOK
  <2>3. ReadsLast(c)'
    <3> SUFFICES ASSUME NEW i \in Identities, i < next[c] + 1
                 PROVE  \E r \in rows[i] : plan'[c][i] <= r.value
      BY <1>0, <2>2
    <3>1. CASE i = next[c]
      BY <2>1, <2>2, <3>1 DEF Reads, Vectors, Values
    <3>2. CASE i < next[c]
      BY <1>0, <2>1, <2>2, <3>2 DEF Vectors, Identities
    <3> QED
      BY <2>1, <3>1, <3>2 DEF Identities
  <2>4. OwnRowsAreRead(c)'
    <3> SUFFICES ASSUME NEW i \in Identities, i < next[c] + 1,
                        NEW r \in rows[i], r.run = c
                 PROVE  r.value = plan'[c][i]
      BY <1>0, <2>2
    <3>1. CASE i = next[c]
      BY <2>1, <2>2, <3>1 DEF Reads, Vectors
    <3>2. CASE i < next[c]
      <4>1. plan'[c][i] = plan[c][i]
        BY <2>1, <2>2, <3>2 DEF Vectors, Identities
      <4>2. r.value = plan[c][i]
        BY <1>0, <2>1, <3>2
      <4> QED
        BY <4>1, <4>2
    <3> QED
      BY <2>1, <3>1, <3>2 DEF Identities
  <2> QED
    BY <1>0, <2>1, <2>2, <2>3, <2>4, Basics
<1>6. CASE NoWork(c) \/ Abort(c) \/ (ReadState(c) /\ Stop(c))
  BY <1>1, <1>6 DEF NoWork, Abort
<1>7. CASE BeginCommit(c)
  <2>1. /\ pc[c] = "reading" /\ next[c] = N + 1 /\ hit' = hit /\ plan' = plan
        /\ pc'[c] = "selecting" /\ next'[c] = 1
        /\ Candidate(plan[c], goal'[c])
    BY <1>0, <1>7 DEF BeginCommit, Visited, Enter, TypeOK
  <2> QED
    BY <1>0, <2>1, Basics, NAssumption DEF Identities
<1>8. CASE SelectRow(c) /\ ~Stop(c)
  <2>1. /\ pc[c] = "selecting" /\ next[c] \in Identities
        /\ Reads(next[c], plan[c][next[c]])
        /\ pc'[c] = "selecting" /\ next'[c] = next[c] + 1
        /\ UNCHANGED <<plan, goal, hit>>
    BY <1>0, <1>8 DEF SelectRow, Visiting, Step, TypeOK
  <2>2. Snapshot(c)'
    <3> SUFFICES ASSUME Reads(Anchor, plan[c][Anchor]),
                        NEW i \in Identities, i < next[c] + 1
                 PROVE  Holds(i, plan[c][i])
      BY <1>0, <2>1 DEF Reads, Holds
    <3>1. CASE i = next[c]
      BY <2>1, <3>1 DEF Reads, Holds
    <3>2. CASE i < next[c]
      BY <1>0, <2>1, <3>2
    <3> QED
      BY <2>1, <3>1, <3>2 DEF Identities
  <2> QED
    BY <1>0, <2>1, <2>2, Basics DEF Candidate
<1>9. CASE BeginUpdate(c)
  <2>1. /\ pc[c] = "selecting" /\ next[c] = N + 1
        /\ pc'[c] = "updating" /\ next'[c] = 1
        /\ UNCHANGED <<plan, goal, hit>>
    BY <1>0, <1>9 DEF BeginUpdate, Visited, Enter, TypeOK
  <2> QED
    BY <1>0, <2>1, Basics, NAssumption DEF Identities, Reads, Holds, Candidate
<1>10. CASE SkipRow(c)
  <2>1. /\ pc[c] = "updating" /\ next[c] \in Identities /\ Unchanged(c, next[c])
        /\ pc'[c] = "updating" /\ next'[c] = next[c] + 1
        /\ UNCHANGED <<plan, goal, hit, writer>>
    BY <1>0, <1>10 DEF SkipRow, Visiting, Step, TypeOK
  <2>2. UpdatesDone(c)'
    BY <1>0, <2>1 DEF Identities, Unchanged
  <2> QED
    BY <1>0, <2>1, <2>2, Basics DEF Reads, Holds, Candidate
<1>11. CASE UpdateRow(c) /\ ~Stop(c)
  <2>1. /\ pc[c] = "updating" /\ next[c] \in Identities
        /\ UpdateMatches(c, next[c])
        /\ pc'[c] = "updating" /\ next'[c] = next[c] + 1
        /\ writer' = c
        /\ hit'[c] = [hit[c] EXCEPT ![next[c]] = Matching(c, next[c])]
        /\ UNCHANGED <<plan, goal>>
        /\ hit[c] \in Tables
    BY <1>0, <1>11 DEF UpdateRow, Visiting, Step, TypeOK
  <2>2. \A i \in Identities :
          hit'[c][i] = IF i = next[c] THEN Matching(c, next[c]) ELSE hit[c][i]
    BY <2>1 DEF Tables
  <2>3. Locked(c)'
    <3> SUFFICES ASSUME NEW i \in Identities, hit'[c][i] # {}
                 PROVE  /\ \E r \in rows[i] : hit'[c][i] = {r} /\ r.value = plan[c][i]
                        /\ \A r \in rows[i] : r \notin hit'[c][i] => r.run # c
      BY <1>0, <2>1
    <3>1. CASE i = next[c]
      BY <1>0, <2>1, <2>2, <3>1 DEF UpdateMatches, Matching
    <3>2. CASE i # next[c]
      BY <1>0, <2>2, <3>2
    <3> QED
      BY <3>1, <3>2
  <2>4. UpdatesDone(c)'
    BY <1>0, <2>1, <2>2 DEF Identities, Unchanged, UpdateMatches
  <2>5. AnchorFreezesPlan(c)'
    <3> SUFFICES ASSUME hit'[c][Anchor] # {}, Sole(Anchor), NEW i \in Identities
                 PROVE  Holds(i, plan[c][i])
      BY <1>0, <2>1 DEF Holds
    <3>1. CASE Anchor = next[c]
      <4>1. Reads(Anchor, plan[c][Anchor])
        BY <2>1, <3>1 DEF UpdateMatches, Matching, Reads
      <4> QED
        BY <1>0, <2>1, <4>1
    <3>2. CASE Anchor # next[c]
      BY <1>0, <2>2, <3>2, Basics
    <3> QED
      BY <3>1, <3>2
  <2>6. ReadsLast(c)' /\ GoalIsCandidate(c)' /\ Snapshot(c)' /\ OwnRowsAreRead(c)'
    BY <1>0, <2>1 DEF Reads, Holds, Candidate
  <2> QED
    BY <2>3, <2>4, <2>5, <2>6
<1> QED
  BY <1>1, <1>3, <1>4, <1>5, <1>6, <1>7, <1>8, <1>9, <1>10, <1>11 DEF QuietStep

\* A committed initialization adds a row to every identity and takes none.
LEMMA InsertForOthers ==
  ASSUME IInv, NEW c \in Clients, CommitInsert(c), NEW d \in Clients, d # c
  PROVE  ClientInv(d)'
<1> USE DEF ClientInv, ReadsLast, GoalIsCandidate, Snapshot, OwnRowsAreRead, Locked, UpdatesDone,
            AnchorFreezesPlan, Sole, HasRead, Committing, HasSelected
<1>1. /\ pc'[d] = pc[d] /\ next'[d] = next[d] /\ plan'[d] = plan[d]
      /\ goal'[d] = goal[d] /\ hit'[d] = hit[d]
      /\ writer = d => writer' = d
  BY OthersUntouched DEF IInv
<1>2. ClientInv(d) /\ AllOrNothing
  BY DEF IInv
<1>3. \A i \in Identities : rows'[i] = rows[i] \cup {Written(c, i)}
  BY DEF CommitInsert
<1>4. Written(c, Anchor).run # d
  BY DEF Written
<1>5. \A i \in Identities, v \in Values : Holds(i, v) => Holds(i, v)'
  BY <1>3 DEF Holds
<1>6. ReadsLast(d)' /\ GoalIsCandidate(d)' /\ UpdatesDone(d)'
  BY <1>1, <1>2, <1>3 DEF Candidate, Unchanged
<1>o. OwnRowsAreRead(d)'
  BY <1>1, <1>2, <1>3 DEF Written
<1>7. Locked(d)'
  BY <1>1, <1>2, <1>3 DEF Written
<1>8. \A i \in Identities : plan[d][i] \in Values
  BY DEF IInv, TypeOK, Vectors
<1>9. AnchorFreezesPlan(d)'
  <2> SUFFICES ASSUME hit[d][Anchor] # {}, Sole(Anchor)', NEW i \in Identities
               PROVE  Holds(i, plan[d][i])'
    BY <1>1
  <2>1. rows[Anchor] # {}
    BY <1>2, Basics
  <2>2. Sole(Anchor)
    BY <1>3, <2>1, Basics
  <2>3. Holds(i, plan[d][i])
    BY <1>2, <2>2
  <2> QED
    BY <1>1, <1>5, <1>8, <2>3 DEF Holds
<1>10. Snapshot(d)'
  <2> SUFFICES ASSUME Reads(Anchor, plan[d][Anchor])',
                      NEW i \in Identities, HasSelected(d, i)
               PROVE  Holds(i, plan[d][i])'
    BY <1>1
  <2>1. ~Missing(i)
    BY <1>2 DEF Missing
  <2>2. ~Missing(Anchor)
    BY <1>2, <2>1, Basics DEF AllOrNothing
  <2>3. Reads(Anchor, plan[d][Anchor])
    BY <1>1, <1>3, <2>2, Basics DEF Reads, Missing
  <2> QED
    BY <1>1, <1>2, <1>5, <1>8, <2>3 DEF Holds
<1> QED
  BY <1>6, <1>o, <1>7, <1>9, <1>10

\* What a committed advance did to the rows, and that it held the lock.
LEMMA CommittedRows ==
  ASSUME IInv, NEW c \in Clients, CommitUpdate(c), NEW i \in Identities
  PROVE  /\ writer = c
         /\ Candidate(plan[c], goal[c])
         /\ Unchanged(c, i) => rows'[i] = rows[i]
         /\ ~Unchanged(c, i) =>
              /\ rows'[i] = (rows[i] \ hit[c][i]) \cup {Written(c, i)}
              /\ \E r \in rows[i] : hit[c][i] = {r} /\ r.value = plan[c][i]
              /\ \A r \in rows[i] : r \notin hit[c][i] => r.run # c
<1>1. pc[c] = "updating" /\ next[c] = N + 1
  BY DEF CommitUpdate, Visited
<1>2. ClientInv(c)
  BY DEF IInv
<1>3. Candidate(plan[c], goal[c])
  BY <1>1, <1>2 DEF ClientInv, GoalIsCandidate, Committing
<1>4. \A j \in Identities : ~Unchanged(c, j) => hit[c][j] # {}
  BY <1>1, <1>2, NAssumption DEF ClientInv, UpdatesDone, Identities
<1>5. ~Unchanged(c, Anchor)
  BY <1>3, Basics DEF Candidate, Unchanged, IInv, TypeOK, Vectors, Values
<1>6. writer = c
  BY <1>2, <1>4, <1>5, Basics DEF ClientInv, Locked
<1> QED
  BY <1>2, <1>3, <1>4, <1>6 DEF ClientInv, Locked, CommitUpdate

\* No step loses a row without a row of at least its value replacing it.
LEMMA RowsMoveForward ==
  ASSUME IInv, [Next]_vars, NEW i \in Identities, NEW r \in rows[i]
  PROVE  \E s \in rows'[i] : r.value <= s.value
<1>1. r.value \in Int
  BY DEF IInv, TypeOK, Tables, Row, Values
<1>2. CASE rows' = rows
  BY <1>1, <1>2
<1>3. ASSUME NEW c \in Clients, CommitInsert(c)
      PROVE  \E s \in rows'[i] : r.value <= s.value
  BY <1>1, <1>3 DEF CommitInsert
<1>4. ASSUME NEW c \in Clients, CommitUpdate(c)
      PROVE  \E s \in rows'[i] : r.value <= s.value
  <2>1. CASE r \in rows'[i]
    BY <1>1, <2>1
  <2>2. CASE r \notin rows'[i]
    <3>1. Written(c, i) \in rows'[i] /\ r.value = plan[c][i]
      BY <1>4, <2>2, CommittedRows
    <3>2. plan[c][i] <= goal[c][i]
      BY <1>4, CommittedRows DEF Candidate
    <3> QED
      BY <3>1, <3>2 DEF Written
  <2> QED
    BY <2>1, <2>2
<1> QED
  BY <1>2, <1>3, <1>4, StepCases, QuietRows DEF vars

\* A committed advance raises the anchor, so whoever planned from an older
\* anchor no longer reads it; whoever holds an update would hold the lock.
LEMMA UpdateForOthers ==
  ASSUME IInv, NEW c \in Clients, CommitUpdate(c), NEW d \in Clients, d # c
  PROVE  ClientInv(d)'
<1> USE DEF ClientInv, ReadsLast, GoalIsCandidate, Snapshot, OwnRowsAreRead, Locked, UpdatesDone,
            AnchorFreezesPlan, Sole, HasRead, Committing, HasSelected
<1>1. /\ pc'[d] = pc[d] /\ next'[d] = next[d] /\ plan'[d] = plan[d]
      /\ goal'[d] = goal[d] /\ hit'[d] = hit[d]
  BY OthersUntouched DEF IInv
<1>2. ClientInv(d)
  BY DEF IInv
<1>3. \A i \in Identities : hit[d][i] = {}
  BY <1>2, CommittedRows
<1>4. Locked(d)' /\ AnchorFreezesPlan(d)' /\ GoalIsCandidate(d)' /\ UpdatesDone(d)'
  BY <1>1, <1>2, <1>3, Basics DEF Candidate, Unchanged
<1>5. \A i \in Identities : plan[d][i] \in Int
  BY DEF IInv, TypeOK, Vectors, Values
<1>6. \A i \in Identities : \A r \in rows[i] : r.value \in Int
  BY DEF IInv, TypeOK, Tables, Row, Values
<1>7. \A i \in Identities : \A r \in rows'[i] : r.value \in Int
  BY TypingStep DEF Next, Proceed, IInv, TypeOK, Tables, Row, Values
<1>8. ReadsLast(d)'
  <2> SUFFICES ASSUME NEW i \in Identities, HasRead(d, i)
               PROVE  \E s \in rows'[i] : plan[d][i] <= s.value
    BY <1>1
  <2>1. PICK r \in rows[i] : plan[d][i] <= r.value
    BY <1>2
  <2>2. PICK s \in rows'[i] : r.value <= s.value
    BY RowsMoveForward DEF Next, Proceed
  <2> QED
    BY <1>5, <1>6, <1>7, <2>1, <2>2
<1>9. Snapshot(d)'
  <2> SUFFICES ASSUME Reads(Anchor, plan[d][Anchor])',
                      NEW i \in Identities, HasSelected(d, i)
               PROVE  FALSE
    BY <1>1
  <2>1. /\ Candidate(plan[c], goal[c])
        /\ plan[c][Anchor] \in Int /\ goal[c][Anchor] \in Int
        /\ plan[c][Anchor] < goal[c][Anchor]
    <3>1. Candidate(plan[c], goal[c])
      BY CommittedRows, Basics
    <3>2. plan[c] \in Vectors /\ goal[c] \in Vectors
      BY DEF IInv, TypeOK
    <3> QED
      BY <3>1, <3>2, Basics DEF Candidate, Vectors, Values
  <2>0. ~Unchanged(c, Anchor)
    BY <2>1 DEF Unchanged
  <2>2. /\ rows'[Anchor] = (rows[Anchor] \ hit[c][Anchor]) \cup {Written(c, Anchor)}
        /\ \E r \in rows[Anchor] :
             hit[c][Anchor] = {r} /\ r.value = plan[c][Anchor]
        /\ \A r \in rows[Anchor] : r \notin hit[c][Anchor] => r.run # c
    BY CommittedRows, Basics, <2>0
  <2>3. PICK s \in rows'[Anchor] :
          rows'[Anchor] = {s} /\ s.value = plan[d][Anchor]
    BY <1>1 DEF Reads
  <2>4. s = Written(c, Anchor)
    BY <2>2, <2>3
  <2>5. plan[d][Anchor] = goal[c][Anchor]
    BY <2>3, <2>4 DEF Written
  <2>6. \A r \in rows[Anchor] : r \in hit[c][Anchor]
    BY <2>2, <2>3, <2>4 DEF Written
  <2>7. \E r \in rows[Anchor] : plan[d][Anchor] <= r.value
    BY <1>2, Basics
  <2> QED
    BY <2>1, <2>2, <2>5, <2>6, <2>7
<1>10. OwnRowsAreRead(d)'
  <2> SUFFICES ASSUME NEW i \in Identities, HasRead(d, i),
                      NEW r \in rows'[i], r.run = d
               PROVE  r.value = plan[d][i]
    BY <1>1
  <2>1. r # Written(c, i)
    BY DEF Written
  <2>2. r \in rows[i]
    BY <2>1, CommittedRows
  <2> QED
    BY <1>2, <2>2
<1> QED
  BY <1>4, <1>8, <1>9, <1>10

\* Every step keeps initialization all-or-nothing.
LEMMA AllOrNothingStep ==
  ASSUME IInv, [Next]_vars
  PROVE  AllOrNothing'
<1>1. CASE rows' = rows
  BY <1>1 DEF IInv, AllOrNothing, Missing
<1>2. ASSUME NEW c \in Clients, CommitInsert(c)
      PROVE  AllOrNothing'
  BY <1>2 DEF CommitInsert, AllOrNothing, Missing
<1>3. ASSUME NEW c \in Clients, CommitUpdate(c)
      PROVE  AllOrNothing'
  <2>1. \E i \in Identities : ~Missing(i)
    <3>1. ~Unchanged(c, Anchor)
      BY <1>3, CommittedRows, Basics
         DEF Candidate, Unchanged, IInv, TypeOK, Vectors, Values
    <3> QED
      BY <1>3, <3>1, CommittedRows, Basics DEF Missing
  <2>2. \A i \in Identities : rows[i] # {}
    BY <2>1 DEF IInv, AllOrNothing, Missing
  <2>3. \A i \in Identities : rows'[i] # {}
    BY <1>3, <2>2, CommittedRows
  <2> QED
    BY <2>3 DEF AllOrNothing, Missing
<1> QED
  BY <1>1, <1>2, <1>3, StepCases, QuietRows DEF vars

LEMMA InductiveStep ==
  ASSUME IInv, [Next]_vars
  PROVE  IInv'
<1>1. TypeOK'
  BY TypingStep DEF IInv
<1>2. AllOrNothing'
  BY AllOrNothingStep
<1>3. \A d \in Clients : ClientInv(d)'
  <2> TAKE d \in Clients
  <2>1. CASE UNCHANGED vars
    <3>1. ClientInv(d)
      BY DEF IInv
    <3> QED
      BY <2>1, <3>1
         DEF vars, ClientInv, ReadsLast, GoalIsCandidate, Snapshot, OwnRowsAreRead, Locked,
             UpdatesDone, AnchorFreezesPlan, Sole, HasRead, Committing, HasSelected,
             Reads, Holds, Unchanged, Candidate
  <2>2. ASSUME NEW c \in Clients, QuietStep(c)
        PROVE  ClientInv(d)'
    BY <2>2, QuietForItself, QuietForOthers
  <2>3. ASSUME NEW c \in Clients, CommitInsert(c)
        PROVE  ClientInv(d)'
    BY <2>3, InsertForOthers, StoppedClient DEF CommitInsert, IInv
  <2>4. ASSUME NEW c \in Clients, CommitUpdate(c)
        PROVE  ClientInv(d)'
    BY <2>4, UpdateForOthers, StoppedClient DEF CommitUpdate, IInv
  <2> QED
    BY <2>1, <2>2, <2>3, <2>4, StepCases
<1> QED
  BY <1>1, <1>2, <1>3 DEF IInv

THEOREM Inductive == Spec => []IInv
<1>1. Init => IInv
  <2> SUFFICES ASSUME Init PROVE IInv
    OBVIOUS
  <2>1. TypeOK
    BY NAssumption, AnchorAssumption, MaxValueAssumption
       DEF Init, TypeOK, Phases, Identities, Values, ZeroVector, NoRows, Vectors,
           Tables
  <2>2. AllOrNothing
    BY DEF Init, AllOrNothing, Missing
  <2>3. \A c \in Clients : ClientInv(c)
    BY Basics DEF Init, ClientInv, ReadsLast, GoalIsCandidate, Snapshot, OwnRowsAreRead, Locked,
       UpdatesDone, AnchorFreezesPlan, Sole, HasRead, Committing, HasSelected, NoRows
  <2> QED
    BY <2>1, <2>2, <2>3 DEF IInv
<1>2. IInv /\ [Next]_vars => IInv'
  BY InductiveStep
<1> QED
  BY <1>1, <1>2, PTL DEF Spec

\* initialize_many: the related identities exist together or not at all.
THEOREM InitializationIsAtomic == Spec => []AllOrNothing
<1>1. IInv => AllOrNothing
  BY DEF IInv
<1> QED
  BY <1>1, Inductive, PTL

\* No committed progress is ever taken back, for any number of clients.
THEOREM ProgressMovesForward == Spec => OnlyForward
<1>1. IInv /\ [Next]_vars =>
        [\A i \in Identities : \A r \in rows[i] :
           \E s \in rows'[i] : r.value <= s.value]_vars
  BY RowsMoveForward
<1> QED
  BY <1>1, Inductive, PTL DEF Spec, OnlyForward

\* A commit installs its candidates over exactly the values it planned from,
\* the ones it only compared included.
THEOREM CommitsInstallThePlan == Spec => CommitsOnlyItsPlan
<1>1. IInv /\ [Next]_vars =>
        [\A c \in Clients :
           CommitUpdate(c) /\ Usable => \A i \in Identities : Holds(i, plan[c][i])]_vars
  <2> SUFFICES ASSUME IInv, NEW c \in Clients, CommitUpdate(c), Usable
               PROVE  \A i \in Identities : Holds(i, plan[c][i])
    OBVIOUS
  <2>1. ~Unchanged(c, Anchor)
    BY CommittedRows, Basics
       DEF Candidate, Unchanged, IInv, TypeOK, Vectors, Values
  <2>2. hit[c][Anchor] # {}
    BY <2>1, CommittedRows, Basics
  <2>3. Sole(Anchor)
    BY Basics DEF Usable, Reads, Sole
  <2> QED
    BY <2>2, <2>3 DEF IInv, ClientInv, AnchorFreezesPlan
<1> QED
  BY <1>1, Inductive, PTL DEF Spec, CommitsOnlyItsPlan

-------------------------------------------------------------------------------
(* The rows implement AtomicProgress.                                      *)

\* An identity is usable when it has exactly one row.
LEMMA SingleRow ==
  ASSUME TypeOK, NEW i \in Identities
  PROVE  (\E v \in Values : Reads(i, v)) <=> \E r : rows[i] = {r}
<1>1. ASSUME NEW r, rows[i] = {r}
      PROVE  r \in rows[i] /\ r.value \in Values
  BY <1>1 DEF TypeOK, Tables, Row
<1> QED
  BY <1>1 DEF Reads

LEMMA UsableVector ==
  ASSUME TypeOK, Usable
  PROVE  /\ ProgressVector \in Vectors
         /\ \A i \in Identities : Reads(i, ProgressVector[i])
         /\ TableStatus = "ready"
<1>1. ProgressVector = [i \in Identities |-> CHOOSE v \in Values : Reads(i, v)]
  BY DEF ProgressVector
<1>2. \A i \in Identities :
        (CHOOSE v \in Values : Reads(i, v)) \in Values
          /\ Reads(i, CHOOSE v \in Values : Reads(i, v))
  BY DEF Usable
<1>3. ~Missing(Anchor)
  BY <1>2, Basics DEF Reads, Missing
<1>4. TableStatus = "ready"
  BY <1>3, Basics DEF TableStatus
<1> QED
  BY <1>1, <1>2, <1>4 DEF Vectors

LEMMA CorruptTable ==
  ASSUME NEW i \in Identities, ~Missing(i), ~Usable
  PROVE  TableStatus = "corrupt" /\ ProgressVector = ZeroVector
BY DEF TableStatus, ProgressVector

LEMMA SameRowsStutter ==
  ASSUME rows' = rows
  PROVE  UNCHANGED <<TableStatus, ProgressVector>>
<1>1. Usable' <=> Usable
  BY DEF Usable, Reads
<1>2. TableStatus' = TableStatus
  BY <1>1 DEF TableStatus, Missing
<1>3. ProgressVector' = ProgressVector
  BY <1>1 DEF ProgressVector, Reads
<1> QED
  BY <1>2, <1>3

LEMMA InsertRefines ==
  ASSUME IInv, TypeOK', NEW c \in Clients, CommitInsert(c)
  PROVE  [Abstract!Next]_<<TableStatus, ProgressVector>>
<1>1. \A i \in Identities : rows'[i] = rows[i] \cup {Written(c, i)}
  BY DEF CommitInsert
<1>2. CASE \A i \in Identities : Missing(i)
  <2>1. TableStatus = "absent"
    BY <1>2 DEF TableStatus
  <2>2. Usable'
    <3> SUFFICES ASSUME NEW i \in Identities
                 PROVE  \E v \in Values : \E r \in rows'[i] : rows'[i] = {r} /\ r.value = v
      BY DEF Usable, Reads
    <3>1. rows'[i] = {Written(c, i)}
      BY <1>1, <1>2 DEF Missing
    <3>2. Written(c, i).value \in Values
      BY DEF Written, IInv, TypeOK, Vectors
    <3> QED
      BY <3>1, <3>2
  <2>3. ProgressVector' \in Vectors /\ TableStatus' = "ready"
    <3>1. (TypeOK /\ Usable => ProgressVector \in Vectors /\ TableStatus = "ready")'
      BY UsableVector, PTL
    <3> QED
      BY <3>1, <2>2
  <2> QED
    BY <2>1, <2>3 DEF Abstract!Next, Abstract!Create, Abstract!Vector, Vectors
<1>3. CASE ~\A i \in Identities : Missing(i)
  <2>1. \A i \in Identities : rows[i] # {} /\ rows'[i] # {}
    BY <1>1, <1>3 DEF IInv, AllOrNothing, Missing
  <2>2. CASE rows' = rows
    BY <2>2, SameRowsStutter
  <2>3. CASE rows' # rows
    <3>1. PICK i \in Identities : rows'[i] # rows[i]
      BY <2>3 DEF IInv, TypeOK, Tables
    <3>2. ~\E r : rows'[i] = {r}
      BY <1>1, <2>1, <3>1
    <3>3. ~Usable'
      BY <3>2 DEF Usable, Reads
    <3>4. TableStatus' = "corrupt" /\ ProgressVector' = ZeroVector
      BY <2>1, <3>3 DEF TableStatus, ProgressVector, Missing
    <3>5. CASE Usable
      BY <3>4, <3>5, UsableVector
         DEF IInv, Abstract!Next, Abstract!Collide, Abstract!Nothing, ZeroVector
    <3>6. CASE ~Usable
      BY <2>1, <3>1, <3>4, <3>6, CorruptTable DEF Missing
    <3> QED
      BY <3>5, <3>6
  <2> QED
    BY <2>2, <2>3
<1> QED
  BY <1>2, <1>3

LEMMA UpdateRefines ==
  ASSUME IInv, TypeOK', NEW c \in Clients, CommitUpdate(c)
  PROVE  [Abstract!Next]_<<TableStatus, ProgressVector>>
<1>1. ~Unchanged(c, Anchor)
  BY CommittedRows, Basics DEF Candidate, Unchanged, IInv, TypeOK, Vectors, Values
<1>2. \A i \in Identities : rows[i] # {} /\ rows'[i] # {}
  <2>1. rows[Anchor] # {}
    BY <1>1, CommittedRows, Basics
  <2> QED
    BY <2>1, CommittedRows, Basics DEF IInv, AllOrNothing, Missing
<1>3. CASE Usable
  <2>1. /\ ProgressVector \in Vectors
        /\ \A i \in Identities : Reads(i, ProgressVector[i])
        /\ TableStatus = "ready"
    BY <1>3, UsableVector DEF IInv
  <2>2. \A i \in Identities : Holds(i, plan[c][i])
    <3>1. Sole(Anchor)
      BY <2>1, Basics DEF Reads, Sole
    <3>2. hit[c][Anchor] # {}
      BY <1>1, CommittedRows, Basics
    <3> QED
      BY <3>1, <3>2 DEF IInv, ClientInv, AnchorFreezesPlan
  <2>3. \A i \in Identities : plan[c][i] = ProgressVector[i]
    BY <2>1, <2>2 DEF Holds, Reads
  <2>4. \A i \in Identities :
          /\ goal[c][i] \in Values
          /\ \E r \in rows'[i] : rows'[i] = {r} /\ r.value = goal[c][i]
    <3> TAKE i \in Identities
    <3>1. goal[c][i] \in Values
      BY DEF IInv, TypeOK, Vectors
    <3>2. CASE Unchanged(c, i)
      BY <2>1, <2>3, <3>1, <3>2, CommittedRows DEF Reads, Unchanged
    <3>3. CASE ~Unchanged(c, i)
      <4>1. rows'[i] = {Written(c, i)}
        BY <2>1, <3>3, CommittedRows DEF Reads
      <4> QED
        BY <3>1, <4>1 DEF Written
    <3> QED
      BY <3>2, <3>3
  <2>5. Usable'
    BY <2>4 DEF Usable, Reads
  <2>6. /\ ProgressVector' \in Vectors
        /\ \A i \in Identities : \E r \in rows'[i] :
             rows'[i] = {r} /\ r.value = ProgressVector'[i]
        /\ TableStatus' = "ready"
    <3>1. (TypeOK /\ Usable =>
             /\ ProgressVector \in Vectors
             /\ \A i \in Identities : Reads(i, ProgressVector[i])
             /\ TableStatus = "ready")'
      BY UsableVector, PTL
    <3> QED
      BY <2>5, <3>1 DEF Reads
  <2>7. \A i \in Identities : ProgressVector'[i] = goal[c][i]
    BY <2>4, <2>6
  <2>8. Candidate(plan[c], goal[c])
    BY CommittedRows, Basics
  <2>9. /\ \A i \in Identities : ProgressVector[i] <= ProgressVector'[i]
        /\ ProgressVector[Anchor] < ProgressVector'[Anchor]
    BY <2>3, <2>7, <2>8, Basics DEF Candidate
  <2> QED
    BY <2>1, <2>6, <2>9
       DEF Abstract!Next, Abstract!Advance, Abstract!Vector, Vectors
<1>4. CASE ~Usable
  <2>1. PICK i \in Identities : ~\E r : rows[i] = {r}
    BY <1>4, SingleRow DEF IInv, Usable
  <2>2. ~\E r : rows'[i] = {r}
    <3>1. CASE Unchanged(c, i)
      BY <2>1, <3>1, CommittedRows
    <3>2. CASE ~Unchanged(c, i)
      <4>1. PICK r \in rows[i] : hit[c][i] = {r}
        BY <3>2, CommittedRows
      <4>2. PICK s \in rows[i] : s # r
        BY <2>1, <1>2, SMTT(30)
      <4>3. s # Written(c, i)
        BY <3>2, <4>1, <4>2, CommittedRows DEF Written
      <4>4. s \in rows'[i] /\ Written(c, i) \in rows'[i]
        <5>1. rows'[i] = (rows[i] \ hit[c][i]) \cup {Written(c, i)}
          BY <3>2, CommittedRows
        <5> QED
          BY <4>1, <4>2, <5>1
      <4> QED
        BY <4>3, <4>4
    <3> QED
      BY <3>1, <3>2
  <2>3. ~Usable'
    BY <2>2 DEF Usable, Reads
  <2>4. TableStatus' = "corrupt" /\ ProgressVector' = ZeroVector
    BY <1>2, <2>3 DEF TableStatus, ProgressVector, Missing
  <2>5. TableStatus = "corrupt" /\ ProgressVector = ZeroVector
    BY <1>2, <1>4, CorruptTable, Basics DEF Missing
  <2> QED
    BY <2>4, <2>5
<1> QED
  BY <1>3, <1>4

\* Every step of the statements is a step of AtomicProgress or a stutter.
LEMMA StepRefines ==
  ASSUME IInv, TypeOK', [Next]_vars
  PROVE  [Abstract!Next]_<<TableStatus, ProgressVector>>
<1>1. CASE rows' = rows
  BY <1>1, SameRowsStutter
<1> QED
  BY <1>1, StepCases, QuietRows, InsertRefines, UpdateRefines DEF vars

\* For every number of clients and identities, no interleaving of SELECTs,
\* UPDATEs, commits and rollbacks shows through: the table implements
\* AtomicProgress.
THEOREM TableImplementsAtomicProgress == Spec => ImplementsAtomicProgress
<1>1. Init => Abstract!Init
  <2> SUFFICES ASSUME Init PROVE Abstract!Init
    OBVIOUS
  <2>1. \A i \in Identities : rows[i] = {}
    BY DEF Init
  <2>2. ~Usable
    BY <2>1, Basics DEF Usable, Reads
  <2> QED
    BY <2>1, <2>2
       DEF TableStatus, ProgressVector, Missing, Abstract!Init, Abstract!Nothing,
           ZeroVector
<1>2. IInv /\ TypeOK' /\ [Next]_vars => [Abstract!Next]_<<TableStatus, ProgressVector>>
  BY StepRefines
<1> QED
  BY <1>1, <1>2, Inductive, Typing, PTL
     DEF Spec, ImplementsAtomicProgress, Abstract!Spec

================================================================================
