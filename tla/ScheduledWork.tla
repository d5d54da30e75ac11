--------------------------- MODULE ScheduledWork ---------------------------
(***************************************************************************)
(* How a cycle gets to its M0 research: the schedule registry materialises *)
(* the occurrences of the day and records the late ones as missed, the     *)
(* user asks for analyses of his own, and the gateway's ticker reserves up *)
(* to Limit waiting cycles in the table schedule_worker_claim and runs     *)
(* them one after the other.  The ticker, the thread that serves the       *)
(* desktop's commands and a stop of the process interleave.                *)
(*                                                                         *)
(* The model follows one day: Midnight ends it, and the registry then      *)
(* looks at the next day's targets.  What becomes of a cycle after M0 is   *)
(* in DecisionCycle.                                                       *)
(***************************************************************************)
EXTENDS Integers, FiniteSets

CONSTANTS
  Schedules,  \* the schedule templates
  Targets,    \* the times of the day a template may name
  Lead,       \* Lead[s]: how long before its target template s is prepared
  Formal,     \* templates bound to the 14:30 slot: no research before it
  Requests,   \* the user's requests for a formal analysis
  AskedAt,    \* AskedAt[r]: the requested_at of request r
  Malformed,  \* requests that carry no usable task profile
  Limit,      \* claim_scheduled_workers(limit=2)
  CatchUp,    \* CATCH_UP_WINDOW
  RetryDeadline, \* RetryDeadline[c]: the policy's auto_submit, the end of M0 retries
  Zone,       \* a UTC stamp reads this much earlier than Shanghai time as text
  Backoff,    \* the delays between M0 retries
  Midnight,   \* the end of the day
  LastTime,   \* bound: the clock stops here
  MaxEdits,   \* bound: schedule commands and dismissals of the user
  MaxFaults   \* bound: stops of the gateway, and exceptions before a research

Occurrences == Schedules \X Targets
Cycles == Occurrences \cup Requests
Time == 0 .. LastTime

ASSUME ScheduleAssumption ==
  /\ Schedules # {} /\ Occurrences \cap Requests = {}
  /\ IsFiniteSet(Schedules) /\ IsFiniteSet(Targets) /\ IsFiniteSet(Requests)
  /\ Targets \subseteq Nat /\ Backoff \subseteq Nat \ {0}
  /\ Lead \in [Schedules -> Nat] /\ AskedAt \in [Requests -> Nat]
  /\ Formal \subseteq Schedules /\ Malformed \subseteq Requests
  /\ Limit \in Nat \ {0}
  /\ RetryDeadline \in [Cycles -> Int]
  /\ CatchUp \in Nat /\ Zone \in Nat /\ Midnight \in Nat
  /\ LastTime \in Nat /\ MaxEdits \in Nat /\ MaxFaults \in Nat

VARIABLES
  clock,   \* the wall clock
  plan,    \* plan[s]: status and target of the current revision of s
  cycle,   \* cycle[c]: the state of companion_cycle
  dueAt,   \* dueAt[c]: COALESCE(m0_retry_at, work_start_at)
  hidden,  \* the cycles with a row in companion_cycle_visibility
  claims,  \* the cycles with a row in schedule_worker_claim
  tick,    \* the ticker: where it is, its claimed batch, its schedule rows
  up,      \* the gateway process runs
  edits, faults

vars == <<clock, plan, cycle, dueAt, hidden, claims, tick, up, edits, faults>>

None == "none"
Waiting == {"queued", "m0_retry_wait"}
CycleState == Waiting \cup {"absent", "researching_m0", "ready", "failed", "missed"}
Idle == [at |-> "idle", batch |-> {}, running |-> {}, rows |-> {}, now |-> 0]

WorkStart(c) == IF c \in Requests THEN AskedAt[c] ELSE c[2] - Lead[c[1]]
FormalUnchecked(c) == FALSE
BeforeFormalSlot(c) == c \in Occurrences /\ c[1] \in Formal /\ clock < c[2]

Init ==
  /\ clock = 0
  /\ plan \in [Schedules -> [status : {"active"}, target : Targets]]
  /\ cycle = [c \in Cycles |-> "absent"]
  /\ dueAt = [c \in Cycles |-> 0]
  /\ hidden = {} /\ claims = {}
  /\ tick = Idle /\ up = TRUE
  /\ edits = 0 /\ faults = 0

(* ------------------------- the user's commands ------------------------- *)

\* request_formal_analysis: the request id makes the cycle unique, so a
\* repeated request finds the cycle and changes nothing.
RequestAnalysis(r) ==
  /\ up /\ cycle[r] = "absent" /\ clock >= AskedAt[r]
  /\ cycle' = [cycle EXCEPT ![r] = "queued"]
  /\ dueAt' = [dueAt EXCEPT ![r] = WorkStart(r)]
  /\ UNCHANGED <<clock, plan, hidden, claims, tick, up, edits, faults>>

Edit == up /\ edits < MaxEdits /\ edits' = edits + 1

\* schedule.pause (and archive, which the registry skips alike) and resume.
SetScheduleStatus(s, status) ==
  /\ Edit /\ status # plan[s].status
  /\ plan' = [plan EXCEPT ![s].status = status]
  /\ UNCHANGED <<clock, cycle, dueAt, hidden, claims, tick, up, faults>>

\* schedule.update: a new revision; cycles already prepared keep theirs.
UpdateSchedule(s, t) ==
  /\ Edit /\ t # plan[s].target
  /\ plan' = [plan EXCEPT ![s].target = t]
  /\ UNCHANGED <<clock, cycle, dueAt, hidden, claims, tick, up, faults>>

DismissCycle(c) ==
  /\ Edit /\ cycle[c] # "absent" /\ c \notin hidden
  /\ hidden' = hidden \cup {c}
  /\ UNCHANGED <<clock, plan, cycle, dueAt, claims, tick, up, faults>>

(* --------------------------- claimed workers --------------------------- *)

Available == Limit - Cardinality(claims)

ClaimableQueued ==
  {c \in Cycles : cycle[c] = "queued" /\ dueAt[c] <= clock} \ (claims \cup hidden)

Claimable ==
  {c \in Cycles : cycle[c] \in Waiting /\ dueAt[c] <= clock} \ (claims \cup hidden)

\* ORDER BY compares text: requests and retries are stamped in UTC, the work
\* start of an occurrence in Shanghai time.
StampedInUTC(c) == c \in Requests \/ cycle[c] = "m0_retry_wait"
SortKey(c) == IF StampedInUTC(c) THEN dueAt[c] - Zone ELSE dueAt[c]

\* The rows of the query: as many as there are slots, the first in its order.
Earliest(batch) ==
  /\ batch \subseteq Claimable
  /\ Cardinality(batch) <= Available
  /\ batch = Claimable \/ Cardinality(batch) = Available
  /\ \A c \in batch, d \in Claimable \ batch : SortKey(c) <= SortKey(d)

ClaimScheduledWorkers ==
  /\ up /\ tick.at = "idle"
  /\ \E batch \in SUBSET Claimable :
       /\ Earliest(batch)
       /\ claims' = claims \cup batch
       /\ tick' = [tick EXCEPT !.at = "working", !.batch = batch]
  /\ UNCHANGED <<clock, plan, cycle, dueAt, hidden, up, edits, faults>>

\* The next cycle of the batch, in the order of the query.
Next1(c) ==
  /\ up /\ tick.at = "working" /\ tick.running = {} /\ c \in tick.batch
  /\ \A d \in tick.batch : SortKey(c) <= SortKey(d)
  /\ cycle[c] \in Waiting

\* The finally block releases the cycle's own slot and the loop goes on.
Finish(c) ==
  /\ claims' = claims \ {c}
  /\ tick' = [tick EXCEPT !.batch = @ \ {c}, !.running = {}]

\* The finally block releases the cycle's own slot; the exception leaves the
\* loop and the tick, and the rest of the batch stays claimed.
AbortUnreleased(c) == UNCHANGED claims /\ tick' = Idle
Abort(c) == claims' = claims \ {c} /\ tick' = Idle

\* A 14:30 cycle claimed ahead of its slot only warms the market data.
Prefetch(c) ==
  /\ Next1(c) /\ BeforeFormalSlot(c)
  /\ Finish(c)
  /\ UNCHANGED <<clock, plan, cycle, dueAt, hidden, up, edits, faults>>

\* A ValueError before the research has begun ends the cycle.
RefuseProfile(c) ==
  /\ Next1(c) /\ c \in Malformed
  /\ cycle' = [cycle EXCEPT ![c] = "failed"]
  /\ Finish(c)
  /\ UNCHANGED <<clock, plan, dueAt, hidden, up, edits, faults>>

StartResearch(c) ==
  /\ Next1(c) /\ ~ BeforeFormalSlot(c) /\ c \notin Malformed
  /\ cycle' = [cycle EXCEPT ![c] = "researching_m0"]
  /\ tick' = [tick EXCEPT !.running = {c}]
  /\ UNCHANGED <<clock, plan, dueAt, hidden, claims, up, edits, faults>>

\* Another exception before the research has begun: the cycle keeps waiting.
StartRaises(c) ==
  /\ Next1(c) /\ faults < MaxFaults
  /\ faults' = faults + 1
  /\ Abort(c)
  /\ UNCHANGED <<clock, plan, cycle, dueAt, hidden, up, edits>>

Researching(c) == up /\ c \in tick.running

\* research_ready; what follows it may still raise.
ResearchReady(c) ==
  /\ Researching(c)
  /\ cycle' = [cycle EXCEPT ![c] = "ready"]
  /\ Finish(c) \/ Abort(c)
  /\ UNCHANGED <<clock, plan, dueAt, hidden, up, edits, faults>>

RetryPastDeadline(c, at) == at > RetryDeadline[c]
RetryTooLate(c, at) == at >= RetryDeadline[c]

\* research_waiting: a retry that would reach the deadline ends the cycle.
ResearchWaiting(c, delay) ==
  LET retryAt == clock + delay IN
  /\ Researching(c)
  /\ IF RetryTooLate(c, retryAt)
       THEN cycle' = [cycle EXCEPT ![c] = "failed"] /\ UNCHANGED dueAt
       ELSE /\ cycle' = [cycle EXCEPT ![c] = "m0_retry_wait"]
            /\ dueAt' = [dueAt EXCEPT ![c] = retryAt]
  /\ Finish(c)
  /\ UNCHANGED <<clock, plan, hidden, up, edits, faults>>

\* research_failed, then the exception is raised again.
ResearchFailed(c) ==
  /\ Researching(c)
  /\ cycle' = [cycle EXCEPT ![c] = "failed"]
  /\ Abort(c)
  /\ UNCHANGED <<clock, plan, dueAt, hidden, up, edits, faults>>

\* An exception outside the guarded part: the cycle stays researching_m0.
ResearchRaises(c) ==
  /\ Researching(c)
  /\ Abort(c)
  /\ UNCHANGED <<clock, plan, cycle, dueAt, hidden, up, edits, faults>>

(* ------------------------- the schedule registry ----------------------- *)

\* run_registry_schedule reads the active templates and the time once.
ReadSchedules ==
  /\ up /\ tick.at = "working" /\ tick.batch = {}
  /\ tick' = [Idle EXCEPT
       !.at = "scheduling", !.now = clock,
       !.rows = IF clock < Midnight
                THEN {<<s, plan[s].target>> : s \in {z \in Schedules : plan[z].status = "active"}}
                ELSE {}]
  /\ UNCHANGED <<clock, plan, cycle, dueAt, hidden, claims, up, edits, faults>>

Row(o) == up /\ o \in tick.rows
RowDone(o) == tick' = [tick EXCEPT !.rows = @ \ {o}]
Prepared(o) == tick.now >= o[2] - Lead[o[1]]
LateAtTarget(o) == tick.now > o[2]
Late(o) == tick.now > o[2] + CatchUp

\* start_cycle; a row whose target has come is looked at again.
Materialise(o) ==
  /\ Row(o) /\ Prepared(o) /\ cycle[o] = "absent"
  /\ cycle' = [cycle EXCEPT ![o] = "queued"]
  /\ dueAt' = [dueAt EXCEPT ![o] = WorkStart(o)]
  /\ IF tick.now < o[2] THEN RowDone(o) ELSE UNCHANGED tick
  /\ UNCHANGED <<clock, plan, hidden, claims, up, edits, faults>>

MarkMissed(o) ==
  /\ Row(o) /\ cycle[o] = "queued" /\ Late(o)
  /\ cycle' = [cycle EXCEPT ![o] = "missed"]
  /\ RowDone(o)
  /\ UNCHANGED <<clock, plan, dueAt, hidden, claims, up, edits, faults>>

LeaveRow(o) ==
  /\ Row(o)
  /\ \/ cycle[o] = "absent" /\ ~ Prepared(o)
     \/ cycle[o] = "queued" /\ ~ Late(o)
     \/ cycle[o] \notin {"absent", "queued"}
  /\ RowDone(o)
  /\ UNCHANGED <<clock, plan, cycle, dueAt, hidden, claims, up, edits, faults>>

EndTick ==
  /\ up /\ tick.at = "scheduling" /\ tick.rows = {}
  /\ tick' = Idle
  /\ UNCHANGED <<clock, plan, cycle, dueAt, hidden, claims, up, edits, faults>>

(* ------------------------- time and the process ------------------------ *)

Advance ==
  /\ clock < LastTime /\ clock' = clock + 1
  /\ UNCHANGED <<plan, cycle, dueAt, hidden, claims, tick, up, edits, faults>>

\* A stop between any two steps; the database survives, the claims with it.
Stop ==
  /\ up /\ faults < MaxFaults
  /\ up' = FALSE /\ faults' = faults + 1 /\ tick' = Idle
  /\ UNCHANGED <<clock, plan, cycle, dueAt, hidden, claims, edits>>

\* run_gateway releases every stored claim before its first tick.
StartGateway ==
  /\ ~ up /\ up' = TRUE /\ claims' = {}
  /\ UNCHANGED <<clock, plan, cycle, dueAt, hidden, tick, edits, faults>>

Research(c) ==
  \/ ResearchReady(c) \/ ResearchFailed(c) \/ ResearchRaises(c)
  \/ \E delay \in Backoff : ResearchWaiting(c, delay)

TickerStep ==
  \/ ClaimScheduledWorkers \/ ReadSchedules \/ EndTick
  \/ \E c \in Cycles : Prefetch(c) \/ RefuseProfile(c) \/ StartRaises(c)
                           \/ StartResearch(c) \/ Research(c)
  \/ \E o \in Occurrences : Materialise(o) \/ MarkMissed(o) \/ LeaveRow(o)

UserStep ==
  \/ \E r \in Requests : RequestAnalysis(r)
  \/ \E s \in Schedules : SetScheduleStatus(s, "active") \/ SetScheduleStatus(s, "paused")
                             \/ \E t \in Targets : UpdateSchedule(s, t)
  \/ \E c \in Cycles : DismissCycle(c)

Next == TickerStep \/ UserStep \/ Advance \/ Stop \/ StartGateway

Spec == Init /\ [][Next]_vars

\* The asyncio loop ticks for ever, every call in a tick has a deadline, and
\* time passes.  Nothing starts the gateway again by itself.
FairSpec == Spec /\ WF_vars(TickerStep) /\ WF_vars(Advance)

(* ------------------------------ properties ----------------------------- *)

\* Every variable has its type, no more cycles are claimed than the query's
\* limit, and what the ticker works on is claimed.
TypeOK ==
  /\ clock \in Time
  /\ plan \in [Schedules -> [status : {"active", "paused"}, target : Targets]]
  /\ cycle \in [Cycles -> CycleState]
  /\ dueAt \in [Cycles -> Int]
  /\ hidden \subseteq Cycles
  /\ claims \subseteq Cycles /\ Cardinality(claims) <= Limit
  /\ tick \in [at : {"idle", "working", "scheduling"}, batch : SUBSET Cycles,
               running : SUBSET Cycles, rows : SUBSET Occurrences, now : Time]
  /\ tick.running \subseteq tick.batch /\ tick.batch \subseteq claims
  /\ tick.at # "working" => tick.batch = {}
  /\ up \/ tick = Idle
  /\ up \in BOOLEAN /\ edits \in 0 .. MaxEdits /\ faults \in 0 .. MaxFaults

\* Claims nobody works on: a raising cycle leaves the rest of its batch so.
Orphaned == claims \ tick.batch

\* Claims keep to their limit, whatever earlier ticks and a stopped process
\* left, and while the gateway runs orphaned ones never take the last slot:
\* however many ticks an exception ends, one worker remains
\* (claim_scheduled_workers, the finally block of run_scheduled_cycle,
\* recover_orphaned_scheduled_workers).
SlotLeft ==
  /\ Cardinality(claims) <= Limit
  /\ up => Cardinality(Orphaned) < Limit

\* No research begins before its cycle is due: a scheduled one not before its
\* preparation time, a 14:30 one not before its slot, a retry not before its
\* delay has passed (the query, and the check inside run_scheduled_cycle).
NeverEarly ==
  [][\A c \in Cycles :
       cycle[c] # "researching_m0" /\ cycle'[c] = "researching_m0"
         => /\ clock >= dueAt[c]
            /\ c \in Occurrences /\ c[1] \in Formal => clock >= c[2]]_vars

\* An occurrence is recorded as missed only when its window is over and
\* nobody has worked on it, and that is its last state.
MissHonest ==
  [][\A o \in Occurrences :
       /\ cycle'[o] = "missed" /\ cycle[o] # "missed"
            => cycle[o] = "queued" /\ clock > o[2] + CatchUp /\ o \notin tick.running
       /\ cycle[o] = "missed" => cycle'[o] = "missed"]_vars

\* A retry is never planned at or after the deadline of the M0 research, so a
\* provider that stays away ends the cycle (research_waiting).
RetryInWindow ==
  \A c \in Cycles :
    cycle[c] = "m0_retry_wait" =>
      WorkStart(c) <= dueAt[c] /\ dueAt[c] < RetryDeadline[c]

PhaseOf(s) ==
  CASE s = "researching_m0" -> "researching"
    [] s = "m0_retry_wait" -> "waiting"
    [] s = "ready" -> "published"
    [] OTHER -> s

Preparing == INSTANCE Preparation WITH phase <- [c \in Cycles |-> PhaseOf(cycle[c])]

\* Every cycle is created once, its research is published once, and what was
\* missed or failed stays so, whatever the registry, the ticker and the user do.
ImplementsPreparation == Preparing!Spec

\* A due cycle, queued or to be retried, is taken up while the gateway stays
\* up: neither the prefetches of a 14:30 cycle, nor retries, nor the slot of an
\* orphaned claim, nor a paused or moved template starve it.  Only the user's
\* dismissal or an exception that orphans its own claim can leave it.
Due(c) ==
  /\ up /\ cycle[c] \in Waiting /\ dueAt[c] <= clock
  /\ c \notin hidden /\ c \notin Orphaned

DueServed == \A c \in Cycles : Due(c) ~> ~ Due(c)
=============================================================================
