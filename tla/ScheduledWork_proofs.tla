------------------------ MODULE ScheduledWork_proofs ------------------------
(* Type correctness with the bound on claims, the slot that is always left,  *)
(* and the times at which research begins, retries and misses happen, for    *)
(* every set of templates and requests, every limit and every length of the  *)
(* windows; and the refinement of Preparation.                               *)
EXTENDS ScheduledWork, FiniteSetTheorems, TLAPS

USE ScheduleAssumption

(***************************************************************************)
(* Claims are counted.                                                     *)
(***************************************************************************)

LEMMA CyclesFinite == IsFiniteSet(Cycles)
<1>1. IsFiniteSet(Occurrences)
  BY FS_Product DEF Occurrences
<1> QED BY <1>1, FS_Union DEF Cycles

LEMMA SubsetFinite == \A S \in SUBSET Cycles : IsFiniteSet(S) /\ Cardinality(S) \in Nat
BY CyclesFinite, FS_Subset, FS_CardinalityType

\* A batch of the query fits the free slots.
LEMMA BatchFits ==
  ASSUME claims \subseteq Cycles, Cardinality(claims) <= Limit,
         NEW batch \in SUBSET Claimable, Earliest(batch)
  PROVE  Cardinality(claims \cup batch) <= Limit
<1>1. claims \in SUBSET Cycles /\ batch \in SUBSET Cycles
  BY DEF Claimable
<1>2. /\ IsFiniteSet(claims) /\ IsFiniteSet(batch) /\ claims \cap batch = {}
      /\ Cardinality(claims) \in Nat /\ Cardinality(batch) \in Nat
  BY <1>1, SubsetFinite DEF Claimable
<1>3. Cardinality(claims \cup batch) = Cardinality(claims) + Cardinality(batch)
  <2>1. Cardinality(claims \cup batch)
          = Cardinality(claims) + Cardinality(batch) - Cardinality(claims \cap batch)
    BY <1>2, FS_Union
  <2>2. Cardinality(claims \cap batch) = 0
    BY <1>2, FS_EmptySet
  <2> QED BY <1>2, <2>1, <2>2
<1>4. Cardinality(batch) <= Limit - Cardinality(claims)
  BY DEF Earliest, Available
<1> QED BY <1>2, <1>3, <1>4

\* Releasing a claim that is held frees exactly one slot.
LEMMA ReleaseFrees ==
  ASSUME NEW S \in SUBSET Cycles, NEW c \in S
  PROVE  /\ Cardinality(S \ {c}) = Cardinality(S) - 1
         /\ Cardinality(S) \in Nat
<1>1. IsFiniteSet(S) /\ Cardinality(S) \in Nat
  BY SubsetFinite
<1> QED BY <1>1, FS_RemoveElement

(***************************************************************************)
(* Type correctness.                                                       *)
(***************************************************************************)

LEMMA TypeInit == Init => TypeOK
<1> SUFFICES ASSUME Init PROVE TypeOK
  OBVIOUS
<1>1. Cardinality(claims) = 0
  BY FS_EmptySet DEF Init
<1>2. plan \in [Schedules -> [status : {"active", "paused"}, target : Targets]]
  <2>1. [status : {"active"}, target : Targets] \subseteq [status : {"active", "paused"}, target : Targets]
    OBVIOUS
  <2> QED BY <2>1 DEF Init
<1> QED BY <1>1, <1>2 DEF Init, TypeOK, Idle, Time, CycleState

\* What ends the work on a cycle keeps the types of the ticker and the claims.
LEMMA FinishTyped ==
  ASSUME TypeOK, NEW c \in tick.batch, Finish(c) \/ Abort(c)
  PROVE  /\ claims' \subseteq Cycles /\ Cardinality(claims') <= Limit
         /\ tick' \in [at : {"idle", "working", "scheduling"}, batch : SUBSET Cycles,
                       running : SUBSET Cycles, rows : SUBSET Occurrences, now : Time]
         /\ tick'.running \subseteq tick'.batch /\ tick'.batch \subseteq claims'
         /\ tick'.at # "working" => tick'.batch = {}
<1>1. claims \in SUBSET Cycles /\ c \in claims /\ claims' = claims \ {c}
  BY DEF TypeOK, Finish, Abort
<1>2. Cardinality(claims') <= Limit
  BY <1>1, ReleaseFrees DEF TypeOK
<1>3. CASE Finish(c)
  BY <1>1, <1>2, <1>3 DEF TypeOK, Finish
<1>4. CASE Abort(c)
  BY <1>1, <1>2, <1>4 DEF TypeOK, Abort, Idle, Time
<1> QED BY <1>3, <1>4

LEMMA TypeStep == TypeOK /\ [Next]_vars => TypeOK'
<1> SUFFICES ASSUME TypeOK, [Next]_vars PROVE TypeOK'
  OBVIOUS
<1>1. CASE UNCHANGED vars
  BY <1>1 DEF TypeOK, vars
<1>2. ASSUME NEW r \in Requests, RequestAnalysis(r) PROVE TypeOK'
  <2>1. WorkStart(r) \in Int
    BY DEF WorkStart
  <2> QED BY <1>2, <2>1 DEF RequestAnalysis, TypeOK, CycleState, Waiting, Cycles
<1>3. ASSUME NEW s \in Schedules, NEW status \in {"active", "paused"},
             SetScheduleStatus(s, status)
      PROVE  TypeOK'
  BY <1>3 DEF SetScheduleStatus, Edit, TypeOK
<1>4. ASSUME NEW s \in Schedules, NEW t \in Targets, UpdateSchedule(s, t) PROVE TypeOK'
  BY <1>4 DEF UpdateSchedule, Edit, TypeOK
<1>5. ASSUME NEW c \in Cycles, DismissCycle(c) PROVE TypeOK'
  BY <1>5 DEF DismissCycle, Edit, TypeOK
<1>6. CASE ClaimScheduledWorkers
  <2>1. PICK batch \in SUBSET Claimable :
          /\ Earliest(batch)
          /\ claims' = claims \cup batch
          /\ tick' = [tick EXCEPT !.at = "working", !.batch = batch]
    BY <1>6 DEF ClaimScheduledWorkers
  <2>2. Cardinality(claims') <= Limit
    BY <2>1, BatchFits DEF TypeOK
  <2>3. batch \subseteq Cycles
    BY DEF Claimable
  <2>4. tick.running = {}
    BY <1>6 DEF ClaimScheduledWorkers, TypeOK
  <2> QED BY <1>6, <2>1, <2>2, <2>3, <2>4 DEF ClaimScheduledWorkers, TypeOK
<1>7. ASSUME NEW c \in Cycles, Prefetch(c) PROVE TypeOK'
  BY <1>7, FinishTyped DEF Prefetch, Next1, TypeOK
<1>8. ASSUME NEW c \in Cycles, RefuseProfile(c) PROVE TypeOK'
  BY <1>8, FinishTyped DEF RefuseProfile, Next1, TypeOK, CycleState
<1>8a. ASSUME NEW c \in Cycles, StartRaises(c) PROVE TypeOK'
  BY <1>8a, FinishTyped DEF StartRaises, Next1, TypeOK
<1>9. ASSUME NEW c \in Cycles, StartResearch(c) PROVE TypeOK'
  BY <1>9 DEF StartResearch, Next1, TypeOK, CycleState
<1>10. ASSUME NEW c \in Cycles, ResearchReady(c) PROVE TypeOK'
  BY <1>10, FinishTyped DEF ResearchReady, Researching, TypeOK, CycleState
<1>11. ASSUME NEW c \in Cycles, NEW delay \in Backoff, ResearchWaiting(c, delay) PROVE TypeOK'
  <2>1. cycle' \in [Cycles -> CycleState]
    BY <1>11 DEF ResearchWaiting, TypeOK, CycleState, Waiting
  <2>2. dueAt' \in [Cycles -> Int]
    BY <1>11 DEF ResearchWaiting, TypeOK, Time
  <2> QED BY <1>11, <2>1, <2>2, FinishTyped DEF ResearchWaiting, Researching, TypeOK
<1>12. ASSUME NEW c \in Cycles, ResearchFailed(c) PROVE TypeOK'
  BY <1>12, FinishTyped DEF ResearchFailed, Researching, TypeOK, CycleState
<1>13. ASSUME NEW c \in Cycles, ResearchRaises(c) PROVE TypeOK'
  BY <1>13, FinishTyped DEF ResearchRaises, Researching, TypeOK
<1>14. CASE ReadSchedules
  <2>1. {<<s, plan[s].target>> : s \in {z \in Schedules : plan[z].status = "active"}} \subseteq Occurrences
    BY DEF TypeOK, Occurrences
  <2>2. tick' \in [at : {"idle", "working", "scheduling"}, batch : SUBSET Cycles,
                   running : SUBSET Cycles, rows : SUBSET Occurrences, now : Time]
    BY <1>14, <2>1 DEF ReadSchedules, Idle, TypeOK
  <2>3. tick'.running = {} /\ tick'.batch = {} /\ tick'.at = "scheduling"
    BY <1>14 DEF ReadSchedules, Idle
  <2> QED BY <1>14, <2>2, <2>3 DEF ReadSchedules, TypeOK
<1>15. ASSUME NEW o \in Occurrences, Materialise(o) PROVE TypeOK'
  <2>1. WorkStart(o) \in Int
    BY DEF WorkStart, Occurrences
  <2>2. o \in Cycles
    BY DEF Cycles
  <2>3. /\ cycle' \in [Cycles -> CycleState]
        /\ dueAt' \in [Cycles -> Int]
    BY <1>15, <2>1, <2>2 DEF Materialise, TypeOK, CycleState, Waiting
  <2> QED BY <1>15, <2>3 DEF Materialise, Row, RowDone, TypeOK
<1>16. ASSUME NEW o \in Occurrences, MarkMissed(o) PROVE TypeOK'
  BY <1>16 DEF MarkMissed, Row, RowDone, TypeOK, CycleState
<1>17. ASSUME NEW o \in Occurrences, LeaveRow(o) PROVE TypeOK'
  BY <1>17 DEF LeaveRow, Row, RowDone, TypeOK
<1>18. CASE EndTick
  BY <1>18 DEF EndTick, Idle, TypeOK, Time
<1>19. CASE Advance
  BY <1>19 DEF Advance, TypeOK, Time
<1>20. CASE Stop
  <2>1. /\ faults' \in 0 .. MaxFaults /\ tick' = Idle /\ up' = FALSE
        /\ UNCHANGED <<clock, plan, cycle, dueAt, hidden, claims, edits>>
    BY <1>20 DEF Stop, TypeOK
  <2>2. Idle \in [at : {"idle", "working", "scheduling"}, batch : SUBSET Cycles,
                  running : SUBSET Cycles, rows : SUBSET Occurrences, now : Time]
    BY DEF Idle, Time
  <2> QED BY <2>1, <2>2 DEF Idle, TypeOK
<1>21. CASE StartGateway
  <2>1. Cardinality(claims') = 0
    BY <1>21, FS_EmptySet DEF StartGateway
  <2>2. tick' = Idle /\ claims' = {} /\ up' = TRUE
    BY <1>21 DEF StartGateway, TypeOK
  <2> QED BY <1>21, <2>1, <2>2 DEF StartGateway, Idle, TypeOK
<1> QED
  BY <1>1, <1>2, <1>3, <1>4, <1>5, <1>6, <1>7, <1>8, <1>8a, <1>9, <1>10, <1>11, <1>12, <1>13,
     <1>14, <1>15, <1>16, <1>17, <1>18, <1>19, <1>20, <1>21
     DEF Next, TickerStep, UserStep, Research

\* The state of the ticker and the database is well typed, at most Limit
\* cycles are claimed at a time, and what is worked on is claimed.
THEOREM TypeCorrect == Spec => []TypeOK
BY TypeInit, TypeStep, PTL DEF Spec

(***************************************************************************)
(* The ticker and the times.                                               *)
(***************************************************************************)

\* What the ticker holds: its schedule rows only while it reads them, a clock
\* reading of the past, a running cycle in research, a batch of due cycles.
TickerInv ==
  /\ tick.rows # {} => tick.at = "scheduling"
  /\ tick.now <= clock
  /\ \A c \in tick.running : cycle[c] = "researching_m0"
  /\ \A c \in tick.batch : cycle[c] # "absent" /\ dueAt[c] <= clock

\* A cycle is never due before its work may start.
DueInv == \A c \in Cycles : cycle[c] # "absent" => WorkStart(c) <= dueAt[c]

LEMMA TimesTyped ==
  \A c \in Cycles : WorkStart(c) \in Int /\ RetryDeadline[c] \in Int
BY DEF Cycles, Occurrences, WorkStart

LEMMA TickerInit == Init => TickerInv /\ DueInv
BY DEF Init, TickerInv, DueInv, Idle

LEMMA TickerStepInv ==
  TypeOK /\ TypeOK' /\ TickerInv /\ DueInv /\ [Next]_vars => TickerInv' /\ DueInv'
<1> SUFFICES ASSUME TypeOK, TypeOK', TickerInv, DueInv, [Next]_vars
             PROVE  TickerInv' /\ DueInv'
  OBVIOUS
<1> USE TimesTyped
<1> DEFINE Goal == TickerInv' /\ DueInv'
<1>a. clock \in Nat /\ tick.now \in Nat /\ dueAt \in [Cycles -> Int]
  BY DEF TypeOK, Time
<1>b. \A c \in Cycles : WorkStart(c)' = WorkStart(c)
  BY DEF WorkStart
<1>1. CASE UNCHANGED vars
  BY <1>1, <1>b DEF TickerInv, DueInv, vars
<1>2. ASSUME NEW r \in Requests, RequestAnalysis(r) PROVE Goal
  <2>1. r \notin tick.batch /\ r \notin tick.running
    BY <1>2 DEF RequestAnalysis, TickerInv
  <2>2. TickerInv'
    BY <1>2, <2>1 DEF RequestAnalysis, TickerInv, TypeOK
  <2>3. DueInv'
    BY <1>2, <1>a, <1>b DEF RequestAnalysis, DueInv, TypeOK, Cycles
  <2> QED BY <2>2, <2>3
<1>3. ASSUME UNCHANGED <<clock, cycle, dueAt, tick>> PROVE Goal
  BY <1>3, <1>b DEF TickerInv, DueInv
<1>6. CASE ClaimScheduledWorkers
  <2>1. PICK batch \in SUBSET Claimable : tick' = [tick EXCEPT !.at = "working", !.batch = batch]
    BY <1>6 DEF ClaimScheduledWorkers
  <2>2. \A c \in batch : cycle[c] # "absent" /\ dueAt[c] <= clock
    BY DEF Claimable, Waiting
  <2>3. tick.rows = {}
    BY <1>6 DEF ClaimScheduledWorkers, TickerInv
  <2> QED BY <1>6, <2>1, <2>2, <2>3, <1>b DEF ClaimScheduledWorkers, TickerInv, DueInv, TypeOK
<1>7. ASSUME NEW c \in Cycles, Finish(c) \/ Abort(c), UNCHANGED <<clock, dueAt>>,
             cycle[c] # "absent",
             \E state \in {"failed", "ready", cycle[c]} : cycle' = [cycle EXCEPT ![c] = state]
      PROVE  Goal
  <2>1. \A d \in Cycles : cycle'[d] = "absent" <=> cycle[d] = "absent"
    BY <1>7 DEF TypeOK
  <2>2. DueInv'
    BY <1>7, <2>1, <1>b DEF DueInv
  <2>3. CASE Finish(c)
    <3>1. /\ tick'.batch = tick.batch \ {c} /\ tick'.running = {}
          /\ tick'.rows = tick.rows /\ tick'.at = tick.at /\ tick'.now = tick.now
      BY <2>3 DEF Finish, TypeOK
    <3>2. tick.batch \subseteq Cycles
      BY DEF TypeOK
    <3> QED BY <1>7, <2>1, <2>2, <3>1, <3>2 DEF TickerInv
  <2>4. CASE Abort(c)
    BY <1>7, <1>a, <2>2, <2>4 DEF Abort, Idle, TickerInv
  <2> QED BY <1>7, <2>3, <2>4
<1>8. ASSUME NEW c \in Cycles, Prefetch(c) \/ RefuseProfile(c) \/ StartRaises(c) PROVE Goal
  BY <1>7, <1>8 DEF Prefetch, RefuseProfile, StartRaises, Next1, Waiting, TypeOK
<1>9. ASSUME NEW c \in Cycles, StartResearch(c) PROVE Goal
  BY <1>9, <1>b DEF StartResearch, Next1, TickerInv, DueInv, Waiting, TypeOK
<1>10. ASSUME NEW c \in Cycles, ResearchReady(c) \/ ResearchFailed(c) \/ ResearchRaises(c)
       PROVE  Goal
  BY <1>7, <1>10 DEF ResearchReady, ResearchFailed, ResearchRaises, Researching, TickerInv, TypeOK
<1>11. ASSUME NEW c \in Cycles, NEW delay \in Backoff, ResearchWaiting(c, delay) PROVE Goal
  <2>1. c \in tick.batch /\ cycle[c] # "absent" /\ dueAt[c] <= clock /\ delay \in Nat
    BY <1>11 DEF ResearchWaiting, Researching, TypeOK, TickerInv
  <2>2. \A d \in Cycles : cycle'[d] = "absent" <=> cycle[d] = "absent"
    BY <1>11, <2>1 DEF ResearchWaiting, TypeOK
  <2>3. \A d \in Cycles : dueAt'[d] = dueAt[d] \/ (d = c /\ dueAt'[d] = clock + delay)
    <3>1. CASE dueAt' = dueAt
      BY <3>1
    <3>2. CASE dueAt' = [dueAt EXCEPT ![c] = clock + delay]
      BY <3>2, <1>a
    <3> QED BY <1>11, <3>1, <3>2 DEF ResearchWaiting
  <2>4. DueInv'
    BY <2>1, <2>2, <2>3, <1>a, <1>b DEF DueInv
  <2>5. TickerInv'
    BY <1>11, <1>a, <2>2, <2>3 DEF ResearchWaiting, Finish, TickerInv, TypeOK
  <2> QED BY <2>4, <2>5
<1>14. CASE ReadSchedules
  BY <1>14, <1>a, <1>b DEF ReadSchedules, Idle, TickerInv, DueInv
<1>15. ASSUME NEW o \in Occurrences, Materialise(o) PROVE Goal
  <2>1. tick.batch = {} /\ tick.running = {} /\ o \in Cycles
    BY <1>15 DEF Materialise, Row, TickerInv, TypeOK, Cycles
  <2>2. TickerInv'
    BY <1>15, <2>1 DEF Materialise, Row, RowDone, TickerInv, TypeOK
  <2>3. DueInv'
    BY <1>15, <2>1, <1>a, <1>b DEF Materialise, DueInv, TypeOK
  <2> QED BY <2>2, <2>3
<1>16. ASSUME NEW o \in Occurrences, MarkMissed(o) PROVE Goal
  <2>1. tick.batch = {} /\ tick.running = {} /\ o \in Cycles
    BY <1>16 DEF MarkMissed, Row, TickerInv, TypeOK, Cycles
  <2>2. TickerInv'
    BY <1>16, <2>1 DEF MarkMissed, Row, RowDone, TickerInv, TypeOK
  <2>3. DueInv'
    BY <1>16, <2>1, <1>b DEF MarkMissed, DueInv, TypeOK
  <2> QED BY <2>2, <2>3
<1>17. ASSUME NEW o \in Occurrences, LeaveRow(o) PROVE Goal
  BY <1>17, <1>b DEF LeaveRow, Row, RowDone, TickerInv, DueInv, TypeOK
<1>18. CASE EndTick \/ Stop
  BY <1>18, <1>a, <1>b DEF EndTick, Stop, Idle, TickerInv, DueInv
<1>19. CASE Advance
  BY <1>19, <1>a, <1>b DEF Advance, TickerInv, DueInv, TypeOK
<1> QED
  BY <1>1, <1>2, <1>3, <1>6, <1>8, <1>9, <1>10, <1>11, <1>14, <1>15, <1>16, <1>17, <1>18, <1>19
     DEF Next, TickerStep, UserStep, Research, SetScheduleStatus, UpdateSchedule, DismissCycle,
         StartGateway

LEMMA TickerAlways == Spec => [](TypeOK /\ TickerInv /\ DueInv)
BY TypeInit, TypeStep, TickerInit, TickerStepInv, PTL DEF Spec

(***************************************************************************)
(* One slot is always left.                                                *)
(***************************************************************************)

\* However many cycles raise, the claims they orphan never fill the limit
\* while the gateway runs: the raising cycle gives its own slot back.
THEOREM OneSlotLeft == Spec => []SlotLeft
<1>1. Init => SlotLeft
  <2> SUFFICES ASSUME Init PROVE SlotLeft
    OBVIOUS
  <2>1. Orphaned = {}
    BY DEF Init, Orphaned
  <2> QED BY <2>1, TypeInit, FS_EmptySet DEF SlotLeft, TypeOK
<1>2. TypeOK /\ TypeOK' /\ SlotLeft /\ [Next]_vars => SlotLeft'
  <2> SUFFICES ASSUME TypeOK, TypeOK', SlotLeft, [Next]_vars, up' PROVE Cardinality(Orphaned') < Limit
    BY DEF SlotLeft, TypeOK
  <2>1. ASSUME up, Orphaned' = Orphaned PROVE Cardinality(Orphaned') < Limit
    BY <2>1 DEF SlotLeft
  <2>2. ASSUME NEW c \in tick.batch, Finish(c), up PROVE Orphaned' = Orphaned
    <3>1. tick'.batch = tick.batch \ {c} /\ claims' = claims \ {c}
      BY <2>2 DEF Finish, TypeOK
    <3> QED BY <3>1, <2>2 DEF Orphaned
  <2>3. ASSUME NEW c \in tick.batch, Abort(c) PROVE Cardinality(Orphaned') < Limit
    <3>1. claims \in SUBSET Cycles /\ c \in claims
      BY <2>3 DEF TypeOK
    <3>2. Orphaned' = claims \ {c}
      BY <2>3 DEF Abort, Orphaned, Idle
    <3>3. Cardinality(claims \ {c}) = Cardinality(claims) - 1 /\ Cardinality(claims) \in Nat
      BY <3>1, ReleaseFrees
    <3>4. Cardinality(claims) <= Limit
      BY DEF TypeOK
    <3> QED BY <3>2, <3>3, <3>4
  <2>4. CASE StartGateway
    <3>1. Orphaned' = {}
      BY <2>4 DEF StartGateway, Orphaned
    <3> QED BY <3>1, FS_EmptySet
  <2>5. CASE ClaimScheduledWorkers
    <3>1. PICK batch \in SUBSET Claimable :
            claims' = claims \cup batch /\ tick' = [tick EXCEPT !.at = "working", !.batch = batch]
      BY <2>5 DEF ClaimScheduledWorkers
    <3>2. tick.batch = {} /\ tick'.batch = batch /\ batch \cap claims = {}
      BY <2>5, <3>1 DEF ClaimScheduledWorkers, TypeOK, Claimable
    <3> QED BY <2>1, <2>5, <3>1, <3>2 DEF Orphaned, ClaimScheduledWorkers
  <2>6. ASSUME NEW c \in Cycles, Prefetch(c) \/ RefuseProfile(c)
        PROVE  Cardinality(Orphaned') < Limit
    BY <2>1, <2>2, <2>6 DEF Prefetch, RefuseProfile, Next1
  <2>7. ASSUME NEW c \in Cycles, Research(c) \/ StartRaises(c)
        PROVE  Cardinality(Orphaned') < Limit
    <3>1. c \in tick.batch /\ up /\ (Finish(c) \/ Abort(c))
      BY <2>7 DEF StartRaises, Next1, Research, ResearchReady, ResearchWaiting, ResearchFailed, ResearchRaises,
                  Researching, TypeOK
    <3> QED BY <3>1, <2>1, <2>2, <2>3
  <2>8. ASSUME UNCHANGED claims, up, tick'.batch = tick.batch
        PROVE  Cardinality(Orphaned') < Limit
    BY <2>1, <2>8 DEF Orphaned
  <2>9. CASE UNCHANGED vars
    BY <2>8, <2>9 DEF vars
  <2>10. CASE UserStep \/ Advance
    BY <2>8, <2>10 DEF UserStep, Advance, RequestAnalysis, SetScheduleStatus, UpdateSchedule,
                       DismissCycle, Edit
  <2>11. ASSUME NEW c \in Cycles, StartResearch(c) PROVE Cardinality(Orphaned') < Limit
    BY <2>8, <2>11 DEF StartResearch, Next1, TypeOK
  <2>12. CASE ReadSchedules \/ EndTick
    <3>1. tick.batch = {} /\ up
      BY <2>12 DEF ReadSchedules, EndTick, TypeOK
    <3>2. tick'.batch = {} /\ UNCHANGED claims
      <4>1. CASE ReadSchedules
        BY <4>1 DEF ReadSchedules, Idle
      <4>2. CASE EndTick
        BY <4>2 DEF EndTick, Idle
      <4> QED BY <2>12, <4>1, <4>2
    <3> QED BY <2>8, <3>1, <3>2
  <2>13. ASSUME NEW o \in Occurrences, Materialise(o) \/ MarkMissed(o) \/ LeaveRow(o)
         PROVE  Cardinality(Orphaned') < Limit
    BY <2>8, <2>13 DEF Materialise, MarkMissed, LeaveRow, Row, RowDone, TypeOK
  <2>14. CASE Stop
    BY <2>14 DEF Stop
  <2> QED
    BY <2>4, <2>5, <2>6, <2>7, <2>9, <2>10, <2>11, <2>12, <2>13, <2>14 DEF Next, TickerStep
<1> QED BY <1>1, <1>2, TypeCorrect, PTL DEF Spec

(***************************************************************************)
(* Times.                                                                  *)
(***************************************************************************)

\* Research never begins before the cycle is due, nor a 14:30 one before its
\* slot, although the claim is made up to its lead earlier.
THEOREM ResearchNeverEarly == Spec => NeverEarly
<1> DEFINE InTime(c) == cycle[c] # "researching_m0" /\ cycle'[c] = "researching_m0"
                         => /\ clock >= dueAt[c]
                            /\ c \in Occurrences /\ c[1] \in Formal => clock >= c[2]
<1>1. TypeOK /\ TickerInv /\ [Next]_vars => [\A c \in Cycles : InTime(c)]_vars
  <2> SUFFICES ASSUME TypeOK, TickerInv, Next, NEW c \in Cycles,
                      cycle[c] # "researching_m0", cycle'[c] = "researching_m0"
               PROVE  /\ clock >= dueAt[c]
                      /\ c \in Occurrences /\ c[1] \in Formal => clock >= c[2]
    OBVIOUS
  <2>1. StartResearch(c)
    BY DEF Next, TickerStep, UserStep, Research, RequestAnalysis, SetScheduleStatus,
           UpdateSchedule, DismissCycle, ClaimScheduledWorkers, Prefetch, RefuseProfile,
           StartRaises, StartResearch, ResearchReady, ResearchWaiting, ResearchFailed, ResearchRaises,
           ReadSchedules, Materialise, MarkMissed, LeaveRow, EndTick, Advance, Stop,
           StartGateway, TypeOK
  <2>2. clock >= dueAt[c]
    BY <2>1 DEF StartResearch, Next1, TickerInv, TypeOK, Time
  <2>3. ASSUME c \in Occurrences, c[1] \in Formal PROVE clock >= c[2]
    <3>1. c[2] \in Nat /\ clock \in Nat
      BY <2>3 DEF Occurrences, TypeOK, Time
    <3> QED BY <2>1, <2>3, <3>1 DEF StartResearch, BeforeFormalSlot
  <2> QED BY <2>2, <2>3
<1> QED BY <1>1, TickerAlways, PTL DEF Spec, NeverEarly

\* A planned retry lies before the deadline of the recovery, whatever the
\* delays and however often the provider fails.
THEOREM RetriesInWindow == Spec => []RetryInWindow
<1>1. Init => RetryInWindow
  BY DEF Init, RetryInWindow
<1>2. TypeOK /\ TypeOK' /\ TickerInv /\ DueInv /\ RetryInWindow /\ [Next]_vars => RetryInWindow'
  <2> SUFFICES ASSUME TypeOK, TypeOK', TickerInv, DueInv, RetryInWindow, [Next]_vars,
                      NEW c \in Cycles, cycle'[c] = "m0_retry_wait"
               PROVE  WorkStart(c) <= dueAt'[c] /\ dueAt'[c] < RetryDeadline[c]
    BY DEF RetryInWindow, WorkStart
  <2>1. CASE cycle[c] = "m0_retry_wait" /\ dueAt'[c] = dueAt[c]
    BY <2>1 DEF RetryInWindow
  <2>2. ASSUME NEW delay \in Backoff, ResearchWaiting(c, delay)
        PROVE  WorkStart(c) <= dueAt'[c] /\ dueAt'[c] < RetryDeadline[c]
    <3>1. /\ clock \in Nat /\ delay \in Nat /\ dueAt[c] \in Int
          /\ WorkStart(c) \in Int /\ RetryDeadline[c] \in Int
      BY TimesTyped DEF TypeOK, Time
    <3>2. ~ (clock + delay >= RetryDeadline[c]) /\ dueAt'[c] = clock + delay
      BY <2>2 DEF ResearchWaiting, RetryTooLate, TypeOK
    <3>3. WorkStart(c) <= dueAt[c] /\ dueAt[c] <= clock
      BY <2>2 DEF ResearchWaiting, Researching, TickerInv, DueInv, TypeOK
    <3> QED BY <3>1, <3>2, <3>3
  <2>3. ASSUME NEW d \in Cycles, NEW delay \in Backoff, ResearchWaiting(d, delay), d # c
        PROVE  cycle[c] = "m0_retry_wait" /\ dueAt'[c] = dueAt[c]
    BY <2>3 DEF ResearchWaiting, TypeOK
  <2>4. ASSUME NEW d \in Cycles, RequestAnalysis(d) \/ Materialise(d)
        PROVE  cycle[c] = "m0_retry_wait" /\ dueAt'[c] = dueAt[c]
    BY <2>4 DEF RequestAnalysis, Materialise, TypeOK
  <2>5. ASSUME NEW d \in Cycles,
               RefuseProfile(d) \/ StartResearch(d) \/ ResearchReady(d) \/ ResearchFailed(d)
                 \/ MarkMissed(d)
        PROVE  cycle[c] = "m0_retry_wait" /\ dueAt'[c] = dueAt[c]
    BY <2>5 DEF RefuseProfile, StartResearch, ResearchReady, ResearchFailed, MarkMissed, TypeOK
  <2> QED
    BY <2>1, <2>2, <2>3, <2>4, <2>5
       DEF Next, TickerStep, UserStep, Research, SetScheduleStatus, UpdateSchedule, DismissCycle,
           ClaimScheduledWorkers, Prefetch, StartRaises, ResearchRaises, ReadSchedules, LeaveRow, EndTick,
           Advance, Stop, StartGateway, vars, Cycles
<1> QED BY <1>1, <1>2, TickerAlways, TypeCorrect, PTL DEF Spec

\* A miss is recorded only of a queued occurrence nobody works on, after its
\* window, and stays recorded.
THEOREM MissesHonest == Spec => MissHonest
<1> DEFINE Honest(o) ==
      /\ cycle'[o] = "missed" /\ cycle[o] # "missed"
           => cycle[o] = "queued" /\ clock > o[2] + CatchUp /\ o \notin tick.running
      /\ cycle[o] = "missed" => cycle'[o] = "missed"
<1>1. TypeOK /\ TickerInv /\ [Next]_vars => [\A o \in Occurrences : Honest(o)]_vars
  <2> SUFFICES ASSUME TypeOK, TickerInv, Next, NEW o \in Occurrences PROVE Honest(o)
    OBVIOUS
  <2>1. o \in Cycles /\ o \notin Requests /\ o[2] \in Nat /\ clock \in Nat /\ tick.now \in Nat
    BY DEF Cycles, Occurrences, TypeOK, Time
  <2>2. ASSUME MarkMissed(o) PROVE Honest(o)
    <3>1. cycle[o] = "queued" /\ tick.now > o[2] + CatchUp /\ cycle'[o] = "missed"
      BY <2>1, <2>2 DEF MarkMissed, Late, TypeOK
    <3>2. clock > o[2] + CatchUp
      BY <2>1, <3>1 DEF TickerInv
    <3>3. o \notin tick.running
      BY <3>1 DEF TickerInv
    <3> QED BY <3>1, <3>2, <3>3
  <2>3. ASSUME cycle' = cycle PROVE Honest(o)
    BY <2>3
  <2>4. ASSUME NEW c \in Cycles, NEW state \in CycleState \ {"missed"}, cycle[c] # "missed",
               cycle' = [cycle EXCEPT ![c] = state]
        PROVE  Honest(o)
    BY <2>1, <2>4 DEF TypeOK
  <2>5. ASSUME NEW c \in Occurrences, c # o, cycle' = [cycle EXCEPT ![c] = "missed"]
        PROVE  Honest(o)
    BY <2>1, <2>5 DEF TypeOK, Cycles
  <2>6. ASSUME NEW c \in Cycles,
               RefuseProfile(c) \/ StartResearch(c) \/ ResearchReady(c) \/ ResearchFailed(c)
        PROVE  Honest(o)
    BY <2>4, <2>6 DEF RefuseProfile, StartResearch, ResearchReady, ResearchFailed, Researching,
                      Next1, TickerInv, Waiting, CycleState
  <2>7. ASSUME NEW c \in Cycles, NEW delay \in Backoff, ResearchWaiting(c, delay) PROVE Honest(o)
    <3>1. cycle[c] = "researching_m0"
      BY <2>7 DEF ResearchWaiting, Researching, TickerInv
    <3>2. \/ cycle' = [cycle EXCEPT ![c] = "failed"]
          \/ cycle' = [cycle EXCEPT ![c] = "m0_retry_wait"]
      BY <2>7 DEF ResearchWaiting
    <3> QED BY <2>4, <3>1, <3>2 DEF CycleState, Waiting
  <2>8. ASSUME NEW c \in Requests, RequestAnalysis(c) PROVE Honest(o)
    BY <2>4, <2>8 DEF RequestAnalysis, Cycles, CycleState, Waiting
  <2>9. ASSUME NEW c \in Occurrences, Materialise(c) PROVE Honest(o)
    BY <2>4, <2>9 DEF Materialise, Cycles, CycleState, Waiting
  <2>10. ASSUME NEW c \in Occurrences, MarkMissed(c) PROVE Honest(o)
    BY <2>2, <2>5, <2>10 DEF MarkMissed
  <2> QED
    BY <2>3, <2>6, <2>7, <2>8, <2>9, <2>10
       DEF Next, TickerStep, UserStep, Research, SetScheduleStatus, UpdateSchedule, DismissCycle,
           ClaimScheduledWorkers, Prefetch, StartRaises, ResearchRaises, ReadSchedules, LeaveRow, EndTick,
           Advance, Stop, StartGateway
<1> QED BY <1>1, TickerAlways, PTL DEF Spec, MissHonest

(***************************************************************************)
(* Every cycle is prepared once.                                           *)
(***************************************************************************)

LEMMA PrepareStep ==
  ASSUME TypeOK, TickerInv, [Next]_vars
  PROVE  [Preparing!Next]_(Preparing!vars)
<1> USE DEF TypeOK, CycleState, Waiting
<1>0. /\ PhaseOf("absent") = "absent" /\ PhaseOf("queued") = "queued" /\ PhaseOf("m0_retry_wait") = "waiting"
      /\ PhaseOf("researching_m0") = "researching" /\ PhaseOf("ready") = "published"
      /\ PhaseOf("failed") = "failed" /\ PhaseOf("missed") = "missed"
  BY DEF PhaseOf
<1> DEFINE phases == [c \in Cycles |-> PhaseOf(cycle[c])]
<1>1. ASSUME NEW c \in Cycles, NEW s, cycle' = [cycle EXCEPT ![c] = s]
      PROVE  phases[c] = PhaseOf(cycle[c]) /\ phases' = [phases EXCEPT ![c] = PhaseOf(s)]
  <2>1. \A d \in Cycles : cycle'[d] = IF d = c THEN s ELSE cycle[d]
    BY <1>1
  <2> QED BY <2>1
<1>2. ASSUME cycle' = cycle PROVE UNCHANGED Preparing!vars
  BY <1>2 DEF Preparing!vars
<1>3. ASSUME NEW r \in Requests, RequestAnalysis(r) PROVE Preparing!Next
  <2>1. r \in Cycles
    BY DEF Cycles
  <2>2. Preparing!Becomes(r, {"absent"}, "queued")
    BY <1>0, <1>1, <1>3, <2>1 DEF Preparing!Becomes, RequestAnalysis
  <2> QED BY <2>1, <2>2 DEF Preparing!Next, Preparing!Create
<1>4. ASSUME NEW o \in Occurrences, Materialise(o) PROVE Preparing!Next
  <2>1. o \in Cycles
    BY DEF Cycles
  <2>2. Preparing!Becomes(o, {"absent"}, "queued")
    BY <1>0, <1>1, <1>4, <2>1 DEF Preparing!Becomes, Materialise
  <2> QED BY <2>1, <2>2 DEF Preparing!Next, Preparing!Create
<1>5. ASSUME NEW o \in Occurrences, MarkMissed(o) PROVE Preparing!Next
  <2>1. o \in Cycles
    BY DEF Cycles
  <2>2. Preparing!Becomes(o, {"queued"}, "missed")
    BY <1>0, <1>1, <1>5, <2>1 DEF Preparing!Becomes, MarkMissed
  <2> QED BY <2>1, <2>2 DEF Preparing!Next, Preparing!Miss
<1>6. ASSUME NEW c \in Cycles, RefuseProfile(c) PROVE Preparing!Next
  <2>1. Preparing!Becomes(c, {"queued", "waiting", "researching"}, "failed")
    BY <1>0, <1>1, <1>6 DEF Preparing!Becomes, RefuseProfile, Next1
  <2> QED BY <2>1 DEF Preparing!Next, Preparing!Fail
<1>7. ASSUME NEW c \in Cycles, StartResearch(c) PROVE Preparing!Next
  <2>1. Preparing!Becomes(c, {"queued", "waiting"}, "researching")
    BY <1>0, <1>1, <1>7 DEF Preparing!Becomes, StartResearch, Next1
  <2> QED BY <2>1 DEF Preparing!Next, Preparing!Research
<1>8. ASSUME NEW c \in Cycles, Research(c) PROVE Preparing!Next \/ UNCHANGED Preparing!vars
  <2>1. cycle[c] = "researching_m0"
    BY <1>8 DEF Research, ResearchReady, ResearchFailed, ResearchRaises, ResearchWaiting, Researching, TickerInv
  <2>2. CASE ResearchReady(c)
    <3>1. Preparing!Becomes(c, {"researching"}, "published")
      BY <1>0, <1>1, <2>1, <2>2 DEF Preparing!Becomes, ResearchReady
    <3> QED BY <3>1 DEF Preparing!Next, Preparing!Publish
  <2>3. ASSUME cycle' = [cycle EXCEPT ![c] = "failed"] PROVE Preparing!Next
    <3>1. Preparing!Becomes(c, {"queued", "waiting", "researching"}, "failed")
      BY <1>0, <1>1, <2>1, <2>3 DEF Preparing!Becomes
    <3> QED BY <3>1 DEF Preparing!Next, Preparing!Fail
  <2>4. ASSUME cycle' = [cycle EXCEPT ![c] = "m0_retry_wait"] PROVE Preparing!Next
    <3>1. Preparing!Becomes(c, {"researching"}, "waiting")
      BY <1>0, <1>1, <2>1, <2>4 DEF Preparing!Becomes
    <3> QED BY <3>1 DEF Preparing!Next, Preparing!Wait
  <2> QED BY <1>2, <1>8, <2>2, <2>3, <2>4 DEF Research, ResearchFailed, ResearchRaises, ResearchWaiting
<1>9. CASE ClaimScheduledWorkers \/ ReadSchedules \/ EndTick \/ Advance \/ Stop \/ StartGateway
  BY <1>2, <1>9 DEF ClaimScheduledWorkers, ReadSchedules, EndTick, Advance, Stop, StartGateway
<1>10. ASSUME NEW c \in Cycles, Prefetch(c) \/ StartRaises(c) \/ DismissCycle(c)
       PROVE  UNCHANGED Preparing!vars
  BY <1>2, <1>10 DEF Prefetch, StartRaises, DismissCycle
<1>11. ASSUME NEW o \in Occurrences, LeaveRow(o) PROVE UNCHANGED Preparing!vars
  BY <1>2, <1>11 DEF LeaveRow
<1>12. ASSUME NEW s \in Schedules,
              SetScheduleStatus(s, "active") \/ SetScheduleStatus(s, "paused")
                \/ \E t \in Targets : UpdateSchedule(s, t)
       PROVE  UNCHANGED Preparing!vars
  BY <1>2, <1>12 DEF SetScheduleStatus, UpdateSchedule
<1>13. CASE UNCHANGED vars
  BY <1>2, <1>13 DEF vars
<1> QED
  BY <1>3, <1>4, <1>5, <1>6, <1>7, <1>8, <1>9, <1>10, <1>11, <1>12, <1>13
  DEF Next, TickerStep, UserStep

(* Every cycle is created once, researched and published once, and stays
   missed or failed: ScheduledWork and DecisionCycle implement one and the
   same Preparation of the row at which they meet. *)
THEOREM CyclesPreparedOnce == Spec => ImplementsPreparation
<1>1. Init => Preparing!Init
  BY DEF Init, PhaseOf, Preparing!Init
<1>2. TypeOK /\ TickerInv /\ [Next]_vars => [Preparing!Next]_(Preparing!vars)
  BY PrepareStep
<1> QED BY <1>1, <1>2, TickerAlways, PTL DEF Spec, ImplementsPreparation, Preparing!Spec
=============================================================================
