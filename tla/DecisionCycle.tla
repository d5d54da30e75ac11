--------------------------- MODULE DecisionCycle ---------------------------
(***************************************************************************)
(* One decision cycle: the factual report M0, the user's own view H0, the  *)
(* blind judgment M1 and the synthesis M2 (engine.py, store.py, and the    *)
(* drivers run_research, run_due, run_m1, run_m2 in __main__.py).          *)
(*                                                                         *)
(* Several threads of the gateway work on the cycle's row, each handler in *)
(* several store transactions: the ticker, which also executes the         *)
(* commands of the file exchange; one HTTP command at a time; and the      *)
(* background worker.  A handler reads the row first and acts on what it   *)
(* read; the transition itself tests no state.                             *)
(***************************************************************************)
EXTENDS Naturals, FiniteSets

CONSTANTS
  Msg,           \* the messages the user may write
  Channels,      \* who executes user commands: "tick" (exchange), "http"
  PreMarket,     \* the opportunity cycle takes messages before its M0
  MaxEdits,      \* bound on the edits of one message
  MaxM0,         \* bound on the waits for M0 data before its deadline
  MaxJudgments,  \* M1_MAX_JUDGMENT_ATTEMPTS
  MaxM2,         \* synthesis attempts of the background worker
  MaxCrashes     \* bound on stops of the gateway

ASSUME CycleConstants ==
  /\ Channels \subseteq {"tick", "http"}
  /\ PreMarket \in BOOLEAN
  /\ MaxEdits \in Nat /\ MaxM0 \in Nat /\ MaxM2 \in Nat /\ MaxCrashes \in Nat
  /\ MaxJudgments \in Nat \ {0}

VARIABLES
  state, h0Locked, hasH0, \* columns of companion_cycle
  h0Artifact,    \* the messages of the artifact h0_artifact_id names, or {}
  private,       \* the portfolio in private_context_json: none, before, after
  message, phase, text,   \* companion_message: state, phase, body version
  sealed,        \* message bodies an artifact holds
  m1, qualified, \* number of formal M1 artifacts; is the latest qualified
  m2,            \* number of formal M2 artifacts
  ledger,        \* state of the latest run of each stage
  clock,         \* deadlines passed: 0 none, 1 auto submit, 2 grace, 3 publish
  portfolio,     \* "after" once actions understood from H0 were applied
  cognition,     \* understanding of H0: no, due, done
  m0Waits, m2Attempts, crashes,
  unrecorded,    \* history: the last run_m1 raised and recorded no failure
  pc, job, row, taken, tries   \* what each thread holds in memory

cycleVars    == <<state, h0Locked, hasH0, h0Artifact, private>>
messageVars  == <<message, phase, text, sealed>>
judgmentVars == <<m1, qualified, m2, ledger>>
otherVars    == <<clock, portfolio, cognition, m0Waits, m2Attempts, crashes, unrecorded>>
localVars    == <<pc, job, row, taken, tries>>
vars == <<cycleVars, messageVars, judgmentVars, otherVars, localVars>>

Actor    == {"tick", "http", "background"}

Terminal == {"complete", "failed", "missed"}
Window   == {"awaiting_h0", "voice_grace"}
Waiting  == {"researching_m1", "m1_retry_wait"}
M2Open   == {"synthesizing_m2", "m2_deferred"}
State    == {"queued", "researching_m0", "m0_retry_wait", "judging_m1",
             "waiting_for_repair"} \cup Terminal \cup Window \cup Waiting \cup M2Open
Stage    == {"m0", "h0", "m1", "m2"}

Commands == {"grace", "stage", "commit_pre_m0", "commit_h0", "commit_chat", "invalidate"}

(* The row as a handler reads it; inTime is its clock test.                *)
Row   == [state |-> state, locked |-> h0Locked, hasH0 |-> hasH0, inTime |-> clock = 0]
NoRow == [state |-> "queued", locked |-> FALSE, hasH0 |-> FALSE, inTime |-> FALSE]

Init ==
  /\ state = "queued" /\ h0Locked = FALSE /\ hasH0 = FALSE
  /\ h0Artifact = {} /\ private = "none"
  /\ message = [m \in Msg |-> "absent"]
  /\ phase = [m \in Msg |-> "none"]
  /\ text = [m \in Msg |-> 0]
  /\ sealed = {}
  /\ m1 = 0 /\ qualified = FALSE /\ m2 = 0
  /\ ledger = [s \in Stage |-> "pending"]
  /\ clock = 0 /\ portfolio = "before" /\ cognition = "no"
  /\ m0Waits = 0 /\ m2Attempts = 0 /\ crashes = 0 /\ unrecorded = FALSE
  /\ pc = [a \in Actor |-> "idle"]
  /\ job = [a \in Actor |-> "none"]
  /\ row = [a \in Actor |-> NoRow]
  /\ taken = [a \in Actor |-> {}]
  /\ tries = [a \in Actor |-> 0]

Idle(a) == pc[a] = "idle"

Goto(a, point) == pc' = [pc EXCEPT ![a] = point]

Return(a) ==
  /\ Goto(a, "idle")
  /\ job' = [job EXCEPT ![a] = "none"]
  /\ row' = [row EXCEPT ![a] = NoRow]
  /\ taken' = [taken EXCEPT ![a] = {}]
  /\ tries' = [tries EXCEPT ![a] = 0]

(* start_stage: a stage that runs or is over is left as it is.             *)
Start(l, s) ==
  IF l[s] \in {"running", "succeeded", "skipped"} THEN l ELSE [l EXCEPT ![s] = "running"]

(* _finish_stage: a stage that is over takes no other result (ValueError). *)
CanFinish(l, s, result) == l[s] = result \/ l[s] \notin {"succeeded", "skipped"}

(* A ledger that closes only a stage it has opened (for comparison).       *)
FinishRunning(l, s, result) == IF l[s] = "running" THEN [l EXCEPT ![s] = result] ELSE l

Finish(l, s, result) ==
  IF CanFinish(l, s, result) THEN [l EXCEPT ![s] = result] ELSE l

-----------------------------------------------------------------------------
(* User commands.  A handler first reads the cycle's row.                  *)

ReadCycle(a, command) ==
  /\ a \in Channels /\ Idle(a)
  /\ job' = [job EXCEPT ![a] = command]
  /\ row' = [row EXCEPT ![a] = Row]
  /\ Goto(a, "handle")
  /\ UNCHANGED <<taken, tries, cycleVars, messageVars, judgmentVars, otherVars>>

Handling(a, commands) == pc[a] = "handle" /\ job[a] \in commands

(* A test that asks only whether M0 was published (for comparison).        *)
Reported(r) == r.state \notin {"queued", "researching_m0", "m0_retry_wait"}

\* A test by the lock instead of the state (for comparison).
OpenUnlocked(r) == ~r.locked

Open(r) == r.state \in Window

(* _begin_grace: only from awaiting_h0 before the automatic submission.    *)
BeginGrace(a) ==
  /\ Handling(a, {"grace"})
  /\ state' = IF row[a].state = "awaiting_h0" /\ row[a].inTime THEN "voice_grace" ELSE state
  /\ Return(a)
  /\ UNCHANGED <<h0Locked, hasH0, h0Artifact, private, messageVars, judgmentVars, otherVars>>

InvalidateM0(a) ==
  /\ Handling(a, {"invalidate"})
  /\ state' = IF Open(row[a]) THEN "failed" ELSE state
  /\ Return(a)
  /\ UNCHANGED <<h0Locked, hasH0, h0Artifact, private, messageVars, judgmentVars, otherVars>>

(* A phase that does not look at the lock (for comparison).                *)
PhaseUnlocked(r) == IF r.state = "queued" THEN "pre_m0" ELSE "h0"

(* The phase a new message gets follows from the row read before.          *)
PhaseFor(r) ==
  IF r.state = "queued" THEN "pre_m0" ELSE IF ~r.locked THEN "h0" ELSE "chat"

Accepts(r) ==
  /\ r.state \notin {"researching_m0", "m0_retry_wait", "failed", "missed"}
  /\ r.state = "queued" => PreMarket

(* A message the safety check refuses is not kept.                         *)
StageMessage(a) ==
  /\ Handling(a, {"stage"})
  /\ \/ /\ Accepts(row[a])
        /\ \E m \in Msg :
             /\ message[m] = "absent"
             /\ message' = [message EXCEPT ![m] = "staged"]
             /\ phase' = [phase EXCEPT ![m] = PhaseFor(row[a])]
     \/ UNCHANGED <<message, phase>>
  /\ Return(a)
  /\ UNCHANGED <<text, sealed, cycleVars, judgmentVars, otherVars>>

(* An edit that forgets the test of the message's state (for comparison).  *)
Present(m) == message[m] # "absent"

Editable(m) == message[m] = "staged"

(* update_staged_message and withdraw_message: one conditional UPDATE.     *)
EditMessage(a, m) ==
  /\ a \in Channels /\ Idle(a)
  /\ Editable(m) /\ text[m] < MaxEdits
  /\ text' = [text EXCEPT ![m] = @ + 1]
  /\ UNCHANGED <<message, phase, sealed, cycleVars, judgmentVars, otherVars, localVars>>

WithdrawMessage(a, m) ==
  /\ a \in Channels /\ Idle(a)
  /\ Editable(m)
  /\ message' = [message EXCEPT ![m] = "withdrawn"]
  /\ UNCHANGED <<phase, text, sealed, cycleVars, judgmentVars, otherVars, localVars>>

-----------------------------------------------------------------------------
(* Committing a batch: commit_h0, run_due, commit_chat, commit_pre_m0 and  *)
(* research_started share commit_staged_messages.                          *)

(* A selection that does not look at the message's state (for comparison). *)
AllOfPhase(p) == {<<m, text[m]>> : m \in {n \in Msg : phase[n] = p}}

Batch(p) == {<<m, text[m]>> : m \in {n \in Msg : message[n] = "staged" /\ phase[n] = p}}

PhaseOf(purpose) ==
  IF purpose \in {"commit_h0", "auto"} THEN "h0"
  ELSE IF purpose = "commit_chat" THEN "chat" ELSE "pre_m0"

Locking(a) == job[a] \in {"commit_h0", "auto"}

H0Sealed == \E e \in sealed : phase[e[1]] = "h0"

Understand == IF H0Sealed /\ cognition = "no" THEN "due" ELSE cognition

(* A deadline test that forgets the grace period (for comparison).         *)
DueAwaiting == state = "awaiting_h0" /\ clock >= 1

(* run_due reads the rows whose deadline passed and locks each of them.    *)
Due == \/ state = "awaiting_h0" /\ clock >= 1
       \/ state = "voice_grace" /\ clock >= 2

RunDue ==
  /\ Idle("tick") /\ Due
  /\ job' = [job EXCEPT !["tick"] = "auto"]
  /\ row' = [row EXCEPT !["tick"] = Row]
  /\ Goto("tick", "handle")
  /\ UNCHANGED <<taken, tries, cycleVars, messageVars, judgmentVars, otherVars>>

(* A context written again by every lock (for comparison). *)
Overwritten == portfolio

(* freeze_private_context: the first lock takes the snapshot.              *)
Frozen == IF private = "none" THEN portfolio ELSE private

FreezeContext(a) ==
  /\ Handling(a, {"commit_h0", "auto"}) /\ Open(row[a])
  /\ private' = Frozen
  /\ Goto(a, "take")
  /\ UNCHANGED <<state, h0Locked, hasH0, h0Artifact, job, row, taken, tries,
                 messageVars, judgmentVars, otherVars>>

(* consume goes on after a lock: to cognition and, while the cycle waits   *)
(* for it, to M1.                                                          *)
GoOn(a) ==
  IF a = "tick" /\ state \in Waiting
    THEN Goto(a, "m1") /\ UNCHANGED <<job, row, taken, tries>>
    ELSE Return(a)

(* A lock that is late: the projection when H0 is locked, else an error.   *)
AlreadyLocked(a) ==
  /\ Handling(a, {"commit_h0", "auto"}) /\ ~Open(row[a])
  /\ cognition' = IF row[a].locked /\ a = "tick" THEN Understand ELSE cognition
  /\ IF row[a].locked THEN GoOn(a) ELSE Return(a)
  /\ UNCHANGED <<clock, portfolio, m0Waits, m2Attempts, crashes, unrecorded,
                 cycleVars, messageVars, judgmentVars>>

CommitChat(a) ==
  /\ Handling(a, {"commit_chat"})
  /\ IF row[a].locked THEN Goto(a, "take") /\ UNCHANGED <<job, row, taken, tries>>
                      ELSE Return(a)
  /\ UNCHANGED <<cycleVars, messageVars, judgmentVars, otherVars>>

CommitPreM0(a) ==
  /\ Handling(a, {"commit_pre_m0"})
  /\ IF row[a].state = "queued" /\ PreMarket
       THEN Goto(a, "take") /\ UNCHANGED <<job, row, taken, tries>>
       ELSE Return(a)
  /\ UNCHANGED <<cycleVars, messageVars, judgmentVars, otherVars>>

(* commit_staged_messages selects the batch ...                            *)
Take(a) ==
  /\ pc[a] = "take"
  /\ LET batch == Batch(PhaseOf(job[a]))
     IN  IF batch = {} /\ job[a] \in {"commit_chat", "commit_pre_m0"}
           THEN Return(a)
           ELSE /\ taken' = [taken EXCEPT ![a] = batch]
                /\ Goto(a, IF batch = {} THEN "seal" ELSE "submit")
                /\ UNCHANGED <<job, row, tries>>
  /\ UNCHANGED <<cycleVars, messageVars, judgmentVars, otherVars>>

(* ... and submits every message staged by then, in one transaction.       *)
Submit(a) ==
  /\ pc[a] = "submit"
  /\ message' = [m \in Msg |-> IF message[m] = "staged" /\ phase[m] = PhaseOf(job[a])
                                 THEN "submitted" ELSE message[m]]
  /\ Goto(a, "seal")
  /\ UNCHANGED <<phase, text, sealed, job, row, taken, tries, cycleVars,
                 judgmentVars, otherVars>>

(* append_artifact.  research_started also seals what an earlier command   *)
(* submitted before M0 when no such artifact exists yet.                   *)
Seal(a) ==
  /\ pc[a] = "seal"
  /\ LET earlier == {<<m, text[m]>> :
                       m \in {n \in Msg : message[n] = "submitted" /\ phase[n] = "pre_m0"}}
     IN  sealed' = sealed \cup taken[a] \cup (IF job[a] = "research" THEN earlier ELSE {})
  /\ IF Locking(a) \/ job[a] = "research"
       THEN Goto(a, "transition") /\ UNCHANGED <<job, row, taken, tries>>
       ELSE Return(a)
  /\ UNCHANGED <<message, phase, text, cycleVars, judgmentVars, otherVars>>

(* The columns of the row are overwritten with this lock's own batch.      *)
LockTransition(a) ==
  /\ pc[a] = "transition" /\ Locking(a)
  /\ state' = "researching_m1"
  /\ h0Locked' = TRUE
  /\ h0Artifact' = taken[a]
  /\ hasH0' = (taken[a] # {})
  /\ Goto(a, "ledger")
  /\ UNCHANGED <<private, job, row, taken, tries, messageVars, judgmentVars, otherVars>>

(* The ledger closes the H0 stage and opens M1; then the ticker goes on to *)
(* M1, with cognition beside it when the lock was a command.               *)
LockLedger(a) ==
  /\ pc[a] = "ledger" /\ Locking(a)
  /\ LET result == IF taken[a] = {} THEN "skipped" ELSE "succeeded"
     IN  IF CanFinish(ledger, "h0", result)
           THEN /\ ledger' = Start(Finish(ledger, "h0", result), "m1")
                /\ cognition' = IF a = "tick" /\ job[a] = "commit_h0"
                                  THEN Understand ELSE cognition
                /\ GoOn(a)
           ELSE Return(a) /\ UNCHANGED <<ledger, cognition>>
  /\ UNCHANGED <<clock, portfolio, m0Waits, m2Attempts, crashes, unrecorded, m1, qualified, m2,
                 cycleVars, messageVars>>

(* process_h0_cognition applies the actions the user's words call for.     *)
Cognise ==
  /\ cognition = "due"
  /\ cognition' = "done" /\ portfolio' = "after"
  /\ UNCHANGED <<clock, m0Waits, m2Attempts, crashes, unrecorded, cycleVars, messageVars,
                 judgmentVars, localVars>>

-----------------------------------------------------------------------------
(* M0: research_started, research_ready, research_waiting, research_failed.*)

Others == <<private, h0Locked, hasH0, h0Artifact>>

ResearchStart ==
  /\ Idle("tick") /\ state \in {"queued", "m0_retry_wait"}
  /\ job' = [job EXCEPT !["tick"] = "research"]
  /\ Goto("tick", "take")
  /\ UNCHANGED <<row, taken, tries, cycleVars, messageVars, judgmentVars, otherVars>>

ResearchTransition ==
  /\ pc["tick"] = "transition" /\ job["tick"] = "research"
  /\ state' = "researching_m0"
  /\ ledger' = Start(ledger, "m0")
  /\ Goto("tick", "researching")
  /\ UNCHANGED <<Others, m1, qualified, m2, job, row, taken, tries, messageVars, otherVars>>

(* The report is published; its deadlines may already have passed.         *)
ResearchReady ==
  /\ pc["tick"] = "researching" /\ state = "researching_m0"
  /\ state' = "awaiting_h0"
  /\ clock' \in 0..3
  /\ Goto("tick", "m0ledger")
  /\ UNCHANGED <<Others, portfolio, cognition, m0Waits, m2Attempts, crashes, unrecorded, job, row,
                 taken, tries, messageVars, judgmentVars>>

M0Ledger ==
  /\ pc["tick"] = "m0ledger"
  /\ ledger' = Start(Finish(ledger, "m0", "succeeded"), "h0")
  /\ Return("tick")
  /\ UNCHANGED <<cycleVars, m1, qualified, m2, messageVars, otherVars>>

(* Only a bounded number of waits fits before the recovery deadline.       *)
ResearchWaiting ==
  /\ pc["tick"] = "researching" /\ m0Waits < MaxM0
  /\ state' = "m0_retry_wait"
  /\ ledger' = Finish(ledger, "m0", "retry_wait")
  /\ m0Waits' = m0Waits + 1
  /\ Return("tick")
  /\ UNCHANGED <<Others, m1, qualified, m2, clock, portfolio, cognition, m2Attempts,
                 crashes, unrecorded, messageVars>>

ResearchFailed ==
  /\ \/ pc["tick"] = "researching"
     \/ Idle("tick") /\ state = "queued"
  /\ state' = "failed"
  /\ ledger' = Finish(ledger, "m0", "failed")
  /\ Return("tick")
  /\ UNCHANGED <<Others, m1, qualified, m2, messageVars, otherVars>>

MarkMissed ==
  /\ Idle("tick") /\ state = "queued"
  /\ state' = "missed"
  /\ UNCHANGED <<Others, messageVars, judgmentVars, otherVars, localVars>>

-----------------------------------------------------------------------------
(* M1: run_m1 and the handlers it calls.                                   *)

(* run_pending_m1 picks the cycle up.                                      *)
PickUpM1 ==
  /\ Idle("tick") /\ state \in Waiting /\ clock < 3
  /\ Goto("tick", "m1")
  /\ UNCHANGED <<job, row, taken, tries, cycleVars, messageVars, judgmentVars, otherVars>>

(* A publication that skips M2 only for want of H0 (for comparison).       *)
AfterM1WithH0(h0, good) == IF h0 THEN "synthesizing_m2" ELSE "complete"

AfterM1(h0, good) == IF h0 /\ good THEN "synthesizing_m2" ELSE "complete"

(* The guard of run_m1: a cycle that does not wait for M1 is an error.     *)
BeginM1 ==
  /\ pc["tick"] = "m1"
  /\ unrecorded' = FALSE
  /\ IF state \in Waiting
       THEN /\ Goto("tick", "judge") /\ tries' = [tries EXCEPT !["tick"] = 1]
            /\ UNCHANGED <<job, row, taken>>
       ELSE Return("tick")
  /\ UNCHANGED <<clock, portfolio, cognition, m0Waits, m2Attempts, crashes, cycleVars,
                 messageVars, judgmentVars>>

(* The memory research runs out of time, or its packet cannot be built.    *)
PrepareFails ==
  /\ pc["tick"] = "judge" /\ tries["tick"] = 1
  /\ Goto("tick", "failFinal")
  /\ UNCHANGED <<job, row, taken, tries, cycleVars, messageVars, judgmentVars, otherVars>>

(* run_m1 raises where no failure is recorded: no frozen evidence of M0,   *)
(* another error of the memory research, or of an attempt's own record.    *)
(* The cycle stays as it is, to be picked up while its deadline allows.    *)
RunRaises ==
  /\ pc["tick"] = "judge"
  /\ unrecorded' = TRUE
  /\ Return("tick")
  /\ UNCHANGED <<clock, portfolio, cognition, m0Waits, m2Attempts, crashes, cycleVars,
                 messageVars, judgmentVars>>

(* m1_judgment_started reads, then transitions.                            *)
JudgmentRead ==
  /\ pc["tick"] = "judge"
  /\ Goto("tick", IF state \in Waiting THEN "start" ELSE "failFinal")
  /\ UNCHANGED <<job, row, taken, tries, cycleVars, messageVars, judgmentVars, otherVars>>

(* Past the publish deadline _deadline_timeout raises.                     *)
JudgmentStarted ==
  /\ pc["tick"] = "start"
  /\ state' = "judging_m1"
  /\ ledger' = Start(ledger, "m1")
  /\ Goto("tick", IF clock < 3 THEN "judging" ELSE "failFinal")
  /\ UNCHANGED <<Others, m1, qualified, m2, job, row, taken, tries, messageVars, otherVars>>

MayRetry == tries["tick"] < MaxJudgments /\ clock < 3

JudgmentFails ==
  /\ pc["tick"] = "judging"
  /\ \/ Goto("tick", "failFinal")
     \/ MayRetry /\ Goto("tick", "failRetry")
  /\ UNCHANGED <<job, row, taken, tries, cycleVars, messageVars, judgmentVars, otherVars>>

(* A failure that ignores a published judgment (for comparison).           *)
NeverSealed == FALSE

(* A test for any artifact of the cycle (for comparison).                  *)
AnySealed == m1 > 0 \/ sealed # {}

M1Sealed == m1 > 0

(* m1_failed: a published M1 is never turned into a repair state.          *)
FailureRead ==
  /\ pc["tick"] \in {"failFinal", "failRetry"}
  /\ IF ~M1Sealed
       THEN /\ Goto("tick", IF pc["tick"] = "failRetry" THEN "writeRetry" ELSE "writeFinal")
            /\ UNCHANGED <<job, row, taken, tries>>
       ELSE IF pc["tick"] = "failRetry"
              THEN /\ Goto("tick", "judge") /\ tries' = [tries EXCEPT !["tick"] = @ + 1]
                   /\ UNCHANGED <<job, row, taken>>
              ELSE Return("tick")
  /\ UNCHANGED <<cycleVars, messageVars, judgmentVars, otherVars>>

FailureRetry ==
  /\ pc["tick"] = "writeRetry"
  /\ state' = "m1_retry_wait"
  /\ ledger' = Finish(ledger, "m1", "retry_wait")
  /\ IF CanFinish(ledger, "m1", "retry_wait")
       THEN /\ Goto("tick", "judge") /\ tries' = [tries EXCEPT !["tick"] = @ + 1]
            /\ UNCHANGED <<job, row, taken>>
       ELSE Return("tick")
  /\ UNCHANGED <<Others, m1, qualified, m2, messageVars, otherVars>>

FailureFinal ==
  /\ pc["tick"] = "writeFinal"
  /\ state' = "waiting_for_repair"
  /\ ledger' = Finish(ledger, "m1", "failed")
  /\ Return("tick")
  /\ UNCHANGED <<Others, m1, qualified, m2, messageVars, otherVars>>

(* m1_ready reads the row and tests it; the publishing transaction follows. *)
M1Read ==
  /\ pc["tick"] = "judging"
  /\ IF ~M1Sealed /\ state \in Waiting \cup {"judging_m1"}
       THEN Goto("tick", "publish") /\ row' = [row EXCEPT !["tick"] = Row]
       ELSE Goto("tick", "failFinal") /\ UNCHANGED row
  /\ UNCHANGED <<job, taken, tries, cycleVars, messageVars, judgmentVars, otherVars>>

M1Ready ==
  /\ pc["tick"] = "publish"
  /\ m1' = m1 + 1
  /\ qualified' \in BOOLEAN
  /\ state' = AfterM1(row["tick"].hasH0, qualified')
  /\ Goto("tick", IF state' = "complete" THEN "skipM2" ELSE "startM2")
  /\ UNCHANGED <<Others, m2, ledger, job, row, taken, tries, messageVars, otherVars>>

(* The ledger follows the publication; run_due then understands H0.        *)
M1Ledger ==
  /\ pc["tick"] \in {"startM2", "skipM2"}
  /\ LET done == Finish(ledger, "m1", "succeeded")
     IN  ledger' = IF pc["tick"] = "startM2" THEN Start(done, "m2") ELSE Finish(done, "m2", "skipped")
  /\ cognition' = IF job["tick"] = "auto" THEN Understand ELSE cognition
  /\ Return("tick")
  /\ UNCHANGED <<m1, qualified, m2, clock, portfolio, m0Waits, m2Attempts, crashes, unrecorded,
                 cycleVars, messageVars>>

-----------------------------------------------------------------------------
(* M2: run_background picks the cycle, run_m2 synthesises.                 *)

PickUpM2 ==
  /\ Idle("background") /\ state \in M2Open /\ m2Attempts < MaxM2
  /\ Goto("background", "gate")
  /\ UNCHANGED <<job, row, taken, tries, cycleVars, messageVars, judgmentVars, otherVars>>

(* _m2_portfolio_fact_gate holds M2 while H0's portfolio facts are open.   *)
HoldM2 ==
  /\ pc["background"] = "gate"
  /\ state' = "m2_deferred"
  /\ Return("background")
  /\ UNCHANGED <<Others, messageVars, judgmentVars, otherVars>>

PassGate ==
  /\ pc["background"] = "gate" /\ H0Sealed
  /\ m2Attempts < MaxM2
  /\ m2Attempts' = m2Attempts + 1
  /\ Goto("background", "m2")
  /\ UNCHANGED <<job, row, taken, tries, clock, portfolio, cognition, m0Waits, crashes, unrecorded,
                 cycleVars, messageVars, judgmentVars>>

(* The model call fails; the background worker records it once more.       *)
M2CallFails ==
  /\ pc["background"] = "m2"
  /\ state' = "m2_deferred"
  /\ Goto("background", "defer")
  /\ UNCHANGED <<Others, job, row, taken, tries, messageVars, judgmentVars, otherVars>>

M2Deferred ==
  /\ pc["background"] = "defer"
  /\ IF state \in M2Open
       THEN state' = "m2_deferred" /\ ledger' = Finish(ledger, "m2", "retry_wait")
       ELSE UNCHANGED <<state, ledger>>
  /\ Return("background")
  /\ UNCHANGED <<Others, m1, qualified, m2, messageVars, otherVars>>

(* m2_ready: H0, a qualified M1 and no earlier M2.                         *)
M2Admitted == hasH0 /\ m1 > 0 /\ qualified /\ m2 = 0 /\ state \in M2Open

M2Read ==
  /\ pc["background"] = "m2"
  /\ Goto("background", IF M2Admitted THEN "m2publish" ELSE "defer")
  /\ UNCHANGED <<job, row, taken, tries, cycleVars, messageVars, judgmentVars, otherVars>>

M2Ready ==
  /\ pc["background"] = "m2publish"
  /\ m2' = m2 + 1
  /\ state' = "complete"
  /\ Goto("background", "m2ledger")
  /\ UNCHANGED <<Others, m1, qualified, ledger, job, row, taken, tries, messageVars, otherVars>>

M2Ledger ==
  /\ pc["background"] = "m2ledger"
  /\ ledger' = Finish(ledger, "m2", "succeeded")
  /\ Return("background")
  /\ UNCHANGED <<cycleVars, m1, qualified, m2, messageVars, otherVars>>

-----------------------------------------------------------------------------
(* Time, and stops of the gateway: its threads and their memory are gone.  *)

PassDeadline ==
  /\ clock < 3 /\ state \notin {"queued", "researching_m0", "m0_retry_wait"}
  /\ clock' = clock + 1
  /\ UNCHANGED <<portfolio, cognition, m0Waits, m2Attempts, crashes, unrecorded, cycleVars,
                 messageVars, judgmentVars, localVars>>

Crash ==
  /\ crashes < MaxCrashes
  /\ crashes' = crashes + 1
  /\ pc' = [a \in Actor |-> "idle"] /\ job' = [a \in Actor |-> "none"]
  /\ row' = [a \in Actor |-> NoRow] /\ taken' = [a \in Actor |-> {}]
  /\ tries' = [a \in Actor |-> 0]
  /\ cognition' = IF cognition = "due" THEN "no" ELSE cognition
  /\ UNCHANGED <<clock, portfolio, m0Waits, m2Attempts, unrecorded, cycleVars, messageVars, judgmentVars>>

CommandStep(a) ==
  \/ BeginGrace(a) \/ InvalidateM0(a) \/ StageMessage(a)
  \/ FreezeContext(a) \/ AlreadyLocked(a) \/ CommitChat(a) \/ CommitPreM0(a)
  \/ Take(a) \/ Submit(a) \/ Seal(a) \/ LockTransition(a) \/ LockLedger(a)

UserStep ==
  \E a \in Channels :
    \/ \E command \in Commands : ReadCycle(a, command)
    \/ \E m \in Msg : EditMessage(a, m) \/ WithdrawMessage(a, m)

ResearchStep ==
  \/ ResearchStart \/ ResearchTransition \/ ResearchReady \/ M0Ledger
  \/ ResearchWaiting \/ ResearchFailed \/ MarkMissed

JudgeStep ==
  \/ PickUpM1 \/ BeginM1 \/ PrepareFails \/ RunRaises \/ JudgmentRead \/ JudgmentStarted
  \/ JudgmentFails \/ FailureRead \/ FailureRetry \/ FailureFinal
  \/ M1Read \/ M1Ready \/ M1Ledger

SynthesisStep ==
  \/ PickUpM2 \/ HoldM2 \/ PassGate \/ M2CallFails \/ M2Deferred
  \/ M2Read \/ M2Ready \/ M2Ledger

Next ==
  \/ UserStep
  \/ RunDue
  \/ \E a \in {"tick", "http"} : CommandStep(a)
  \/ ResearchStep
  \/ JudgeStep
  \/ SynthesisStep
  \/ Cognise
  \/ PassDeadline
  \/ Crash

Spec == Init /\ [][Next]_vars

(* Every pass of the ticker runs the due locks, the research and the M1    *)
(* work again, whatever commands it executes in between; a handler that    *)
(* has begun goes on, and deadlines pass.                                  *)
FairSpec ==
  /\ Spec
  /\ SF_vars(RunDue) /\ SF_vars(ResearchStep) /\ SF_vars(JudgeStep)
  /\ \A a \in {"tick", "http"} : WF_vars(CommandStep(a))
  /\ WF_vars(Cognise) /\ WF_vars(PassDeadline)

-----------------------------------------------------------------------------
(* Properties. *)

Points == {"idle", "handle", "take", "submit", "seal", "transition", "ledger",
           "researching", "m0ledger", "m1", "judge", "start", "judging",
           "failFinal", "failRetry", "writeFinal", "writeRetry", "publish",
           "startM2", "skipM2", "gate", "m2", "defer", "m2publish", "m2ledger"}

Bodies == Msg \X (0..MaxEdits)

Rows == [state : State, locked : BOOLEAN, hasH0 : BOOLEAN, inTime : BOOLEAN]

(* Every variable keeps its type: the state is one of those the code
   names, attempts stay within their bounds, memory holds rows read. *)
TypeOK ==
  /\ state \in State /\ h0Locked \in BOOLEAN /\ hasH0 \in BOOLEAN
  /\ h0Artifact \subseteq Bodies
  /\ private \in {"none", "before", "after"}
  /\ message \in [Msg -> {"absent", "staged", "submitted", "withdrawn"}]
  /\ phase \in [Msg -> {"none", "pre_m0", "h0", "chat"}]
  /\ text \in [Msg -> 0..MaxEdits]
  /\ sealed \subseteq Bodies
  /\ m1 \in Nat /\ qualified \in BOOLEAN /\ m2 \in Nat
  /\ ledger \in [Stage -> {"pending", "running", "succeeded", "skipped", "retry_wait", "failed"}]
  /\ clock \in 0..3
  /\ portfolio \in {"before", "after"} /\ cognition \in {"no", "due", "done"}
  /\ m0Waits \in 0..MaxM0 /\ m2Attempts \in 0..MaxM2 /\ crashes \in 0..MaxCrashes
  /\ unrecorded \in BOOLEAN
  /\ pc \in [Actor -> Points]
  /\ job \in [Actor -> Commands \cup {"none", "auto", "research"}]
  /\ row \in [Actor -> Rows]
  /\ taken \in [Actor -> SUBSET Bodies]
  /\ tries \in [Actor -> 0..MaxJudgments]

Quiet == \A a \in Actor : Idle(a)

(* M1 reads only the frozen context: it never holds an action the user's
   H0 led to, however locks, cognition and stops interleave. *)
Blind == private # "after" /\ (h0Locked => private # "none")

(* At most one formal M1 and one formal M2 per cycle, over stops and retries. *)
SingleFormal == m1 <= 1 /\ m2 <= 1

(* A cycle that waits for M2, or has it, has what M2 rests on: a sealed H0
   and a qualified M1.  So no synthesis is refused for want of them. *)
M2Grounded ==
  m2 > 0 \/ state \in M2Open =>
    hasH0 /\ h0Artifact # {} /\ h0Artifact \subseteq sealed /\ m1 > 0 /\ qualified

(* A submitted or withdrawn message keeps its state, phase and words. *)
SubmittedFinal ==
  [][\A m \in Msg : message[m] \in {"submitted", "withdrawn"} =>
       message'[m] = message[m] /\ phase'[m] = phase[m] /\ text'[m] = text[m]]_vars

(* Once locked, H0 stays what it was and the window never opens again. *)
H0Final ==
  [][h0Locked => /\ h0Locked' /\ h0Artifact' = h0Artifact /\ hasH0' = hasH0
                 /\ state' \notin Window]_vars

(* A published M1 is not rolled back: the cycle only goes on to M2 or ends,
   and an ended cycle never moves again. *)
PublishedStays ==
  [][/\ m1 > 0 => state' \in M2Open \cup {"complete"}
     /\ state \in Terminal => state' = state]_vars

(* The lock is one batch: the messages submitted as H0 are those, in those
   words, of the artifact the row names. *)
H0Whole ==
  h0Locked => h0Artifact = {<<m, text[m]>> :
                m \in {n \in Msg : message[n] = "submitted" /\ phase[n] = "h0"}}

(* No thread has lost what it held in memory. *)
Uninterrupted == crashes = 0

(* Until the gateway is first stopped, the lock is one batch. *)
WholeUninterrupted == Uninterrupted => H0Whole

(* Between handlers no message waits for a commit that has already been. *)
NoneStranded ==
  Quiet /\ Uninterrupted => \A m \in Msg : message[m] = "staged" =>
    /\ phase[m] = "h0" => ~h0Locked
    /\ phase[m] = "pre_m0" => state \in {"queued", "m0_retry_wait", "failed", "missed"}

(* Between handlers the stage ledger tells the same story as the cycle. *)
LedgerAgrees ==
  Quiet /\ Uninterrupted =>
    /\ h0Locked => ledger["h0"] = IF hasH0 THEN "succeeded" ELSE "skipped"
    /\ state \in Window => ledger["m0"] = "succeeded" /\ ledger["h0"] = "running"
    /\ m1 > 0 => ledger["m1"] = "succeeded"
    /\ state = "complete" => ledger["m2"] = IF m2 > 0 THEN "succeeded" ELSE "skipped"
    /\ state = "waiting_for_repair" => ledger["m1"] = "failed"

(* The abstract stage, and the draft the user sees. *)
PipelineStage ==
  IF state \in {"queued", "researching_m0", "m0_retry_wait"} THEN "preparing"
  ELSE IF state \in Window THEN "open"
  ELSE IF state \in {"failed", "missed"} THEN "aborted"
  ELSE IF state \in M2Open THEN "synthesizing"
  ELSE IF state = "complete" THEN "complete" ELSE "judging"

Draft ==
  {<<m, text[m]>> : m \in {n \in Msg : message[n] \in {"staged", "submitted"} /\ phase[n] = "h0"}}

Pipeline == INSTANCE JudgmentPipeline WITH
  Notes <- Bodies, stage <- PipelineStage, draft <- Draft, h0 <- h0Artifact,
  judged <- IF m1 = 0 THEN "not" ELSE IF qualified THEN "qualified" ELSE "unqualified"

(* With one thread and no stop, the cycle's many transactions implement the
   pipeline the user was promised: the lock is atomic, M1 and M2 come once. *)
ImplementsPipeline == Pipeline!Spec

(* The row until the report: a cycle that failed before it has its M0 stage
   failed, one whose published report was invalidated has not. *)
Phase ==
  IF state = "queued" THEN "queued"
  ELSE IF state = "researching_m0" THEN "researching"
  ELSE IF state = "m0_retry_wait" THEN "waiting"
  ELSE IF state = "missed" THEN "missed"
  ELSE IF state = "failed" /\ ledger["m0"] = "failed" THEN "failed" ELSE "published"

Preparing == INSTANCE Preparation WITH
  Cycles <- {"this"}, phase <- [c \in {"this"} |-> Phase]

(* The report is published once: whoever locks, invalidates or judges, and
   over any stop, no thread takes the cycle back to its preparation, nor a
   cycle out of it that missed its time or failed. *)
ImplementsPreparation == Preparing!Spec

(* The H0 window closes: it is locked at its deadline at the latest. *)
WindowCloses == state \in Window ~> h0Locked \/ state = "failed"

(* A locked H0 is judged, or the failure to judge it is on record, unless
   the last run before the publish deadline raised and recorded none. *)
H0Judged ==
  h0Locked ~> \/ m1 > 0 \/ state = "waiting_for_repair"
              \/ clock = 3 /\ state \in Waiting /\ unrecorded
=============================================================================
