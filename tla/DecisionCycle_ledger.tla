------------------------- MODULE DecisionCycle_ledger -------------------------
(* With the commands on the ticker alone, and until the gateway is first    *)
(* stopped: the stage ledger tells the same story as the cycle's row.       *)
EXTENDS DecisionCycle_refinement

Over == {"succeeded", "skipped"}

H0Result == IF hasH0 THEN "succeeded" ELSE "skipped"

(* Before the lock: the entry of M0 and H0 follow the report.               *)
ReportEntries ==
  ~h0Locked =>
    /\ ledger["m1"] = "pending" /\ ledger["m2"] = "pending"
    /\ state \in PreReport => ledger["h0"] = "pending" /\ ledger["m0"] \notin Over
    /\ pc["tick"] = "researching" => ledger["m0"] = "running"
    /\ pc["tick"] = "m0ledger" =>
         state \in Window /\ ledger["m0"] = "running" /\ ledger["h0"] = "pending"
    /\ state \in Window /\ pc["tick"] # "m0ledger" =>
         ledger["m0"] = "succeeded" /\ ledger["h0"] = "running"

(* The lock is entered after its transition, before M1 begins.              *)
LockEntries ==
  /\ pc["tick"] = "ledger" =>
       /\ h0Locked /\ state = "researching_m1" /\ Locking("tick")
       /\ hasH0 <=> taken["tick"] # {}
       /\ ledger["h0"] = "running" /\ ledger["m1"] = "pending" /\ ledger["m2"] = "pending"
  /\ h0Locked /\ pc["tick"] # "ledger" => ledger["h0"] = H0Result
  /\ pc["tick"] \in {"researching", "m0ledger"} => ~h0Locked

(* M1 and M2 are entered after their publications.                          *)
JudgmentEntries ==
  /\ m1 = 0 => ledger["m1"] \notin Over /\ ledger["m2"] = "pending"
  /\ pc["tick"] \in {"startM2", "skipM2"} => m1 > 0 /\ ledger["m1"] \notin Over
  /\ m1 > 0 /\ pc["tick"] \notin {"startM2", "skipM2"} => ledger["m1"] = "succeeded"
  /\ state = "waiting_for_repair" => ledger["m1"] = "failed"
  /\ pc["tick"] = "startM2" => state \in M2Open \/ m2 > 0
  /\ pc["tick"] = "skipM2" => state = "complete" /\ m2 = 0
  /\ m2 = 0 /\ state = "complete" =>
       ledger["m2"] = IF pc["tick"] = "skipM2" THEN "pending" ELSE "skipped"
  /\ m2 = 0 /\ state \in M2Open => ledger["m2"] \notin Over
  /\ pc["background"] = "m2ledger" => m2 > 0 /\ ledger["m2"] \notin Over
  /\ m2 > 0 /\ pc["background"] # "m2ledger" => ledger["m2"] = "succeeded"

LedgerInv == ReportEntries /\ LockEntries /\ JudgmentEntries

\* What a step with no entry in the ledger leaves alone.
LEMMA NoEntry ==
  ASSUME LedgerInv, UNCHANGED <<state, h0Locked, hasH0, ledger, m1, m2>>,
         pc'["background"] = pc["background"] \/ "m2ledger" \notin {pc["background"], pc'["background"]},
         \/ UNCHANGED <<pc["tick"], job["tick"], taken["tick"]>>
         \/ {pc["tick"], pc'["tick"]} \cap
              {"researching", "m0ledger", "ledger", "startM2", "skipM2"} = {}
  PROVE  LedgerInv'
BY DEF LedgerInv, ReportEntries, LockEntries, JudgmentEntries, H0Result, Locking

LEMMA LedgerCommand ==
  ASSUME SerialFacts, GroundInv, LedgerInv, CommandStep("tick")
  PROVE  LedgerInv'
<1> "tick" \in Actor /\ "background" \in Actor
  BY DEF Actor
<1> USE DEF SerialFacts, TypeOK, cycleVars, judgmentVars, Goto, Return, Handling
<1>1. CASE BeginGrace("tick") \/ InvalidateM0("tick")
  <2>1. state' = state \/ (state \in Window /\ state' \in {"voice_grace", "failed"})
    BY <1>1 DEF BeginGrace, InvalidateM0, SerialInv, Open, Window
  <2>2. /\ UNCHANGED <<h0Locked, hasH0, ledger, m1, m2>> /\ pc["tick"] = "handle"
        /\ pc'["tick"] = "idle" /\ pc'["background"] = pc["background"]
    BY <1>1 DEF BeginGrace, InvalidateM0
  <2> QED BY <2>1, <2>2 DEF LedgerInv, ReportEntries, LockEntries, JudgmentEntries, H0Result, Window,
          PreReport, M2Open
<1>2. CASE \/ StageMessage("tick") \/ FreezeContext("tick") \/ AlreadyLocked("tick")
           \/ CommitChat("tick") \/ CommitPreM0("tick") \/ Take("tick") \/ Submit("tick")
           \/ Seal("tick")
  <2>1. UNCHANGED <<state, h0Locked, hasH0, ledger, m1, m2>>
    BY <1>2 DEF StageMessage, FreezeContext, AlreadyLocked, CommitChat, CommitPreM0, Take, Submit, Seal
  <2>2. /\ pc["tick"] \in {"handle", "take", "submit", "seal"}
        /\ pc'["tick"] \in {"idle", "m1", "take", "submit", "seal", "transition"}
        /\ pc'["background"] = pc["background"]
    BY <1>2 DEF StageMessage, FreezeContext, AlreadyLocked, GoOn, CommitChat, CommitPreM0, Take,
       Submit, Seal
  <2> QED BY <2>1, <2>2, NoEntry
<1>3. CASE LockTransition("tick")
  <2>1. /\ pc["tick"] = "transition" /\ pc'["tick"] = "ledger" /\ pc'["background"] = pc["background"]
        /\ state' = "researching_m1" /\ h0Locked' = TRUE /\ hasH0' = (taken["tick"] # {})
        /\ UNCHANGED <<taken, job, ledger, m1, m2>> /\ Locking("tick") /\ state \in Window
    BY <1>3 DEF LockTransition, SerialInv, Locking
  <2>2. ~ h0Locked /\ m1 = 0 /\ m2 = 0
    BY <2>1 DEF SerialInv, GroundInv, PreLock, Window, M2Open
  <2> QED BY <2>1, <2>2 DEF LedgerInv, ReportEntries, LockEntries, JudgmentEntries, H0Result, Window,
          M2Open, Locking, Over
<1>4. CASE LockLedger("tick")
  <2>1. /\ pc["tick"] = "ledger" /\ pc'["tick"] \in {"idle", "m1"} /\ pc'["background"] = pc["background"]
        /\ UNCHANGED <<state, h0Locked, hasH0, m1, m2>>
    BY <1>4 DEF LockLedger, GoOn
  <2>2. /\ h0Locked /\ state = "researching_m1" /\ m1 = 0 /\ m2 = 0
        /\ ledger["h0"] = "running" /\ ledger["m1"] = "pending" /\ ledger["m2"] = "pending"
        /\ hasH0 <=> taken["tick"] # {}
    BY <2>1 DEF LedgerInv, LockEntries, SerialInv, GroundInv, M2Open
  <2>3. /\ ledger'["h0"] = H0Result /\ ledger'["m1"] = "running" /\ ledger'["m2"] = "pending"
    BY <1>4, <2>2 DEF LockLedger, CanFinish, Start, Finish, H0Result, Stage
  <2> QED BY <2>1, <2>2, <2>3 DEF LedgerInv, ReportEntries, LockEntries, JudgmentEntries, H0Result,
          M2Open, Over
<1> QED BY <1>1, <1>2, <1>3, <1>4 DEF CommandStep

LEMMA LedgerResearch ==
  ASSUME SerialFacts, GroundInv, LedgerInv, ResearchStep
  PROVE  LedgerInv'
<1> "tick" \in Actor /\ "background" \in Actor
  BY DEF Actor
<1> USE DEF SerialFacts, TypeOK, Others, cycleVars, judgmentVars, localVars, Goto, Return, Idle
<1>1. UNCHANGED <<h0Locked, hasH0, m1, m2>> /\ pc'["background"] = pc["background"]
  BY DEF ResearchStep, ResearchStart, ResearchTransition, ResearchReady, M0Ledger, ResearchWaiting,
     ResearchFailed, MarkMissed
<1>2. CASE ResearchStart
  BY <1>1, <1>2, NoEntry DEF ResearchStart
<1>3. CASE ResearchTransition
  <2>1. /\ pc'["tick"] = "researching" /\ state' = "researching_m0" /\ ~ h0Locked /\ m1 = 0 /\ m2 = 0
        /\ ledger["h0"] = "pending" /\ ledger["m1"] = "pending" /\ ledger["m2"] = "pending"
        /\ ledger["m0"] \notin Over
    BY <1>3 DEF ResearchTransition, SerialInv, GroundInv, PreLock, PreReport, M2Open, LedgerInv,
       ReportEntries
  <2>2. /\ ledger'["h0"] = "pending" /\ ledger'["m1"] = "pending" /\ ledger'["m2"] = "pending"
        /\ ledger'["m0"] = "running"
    BY <1>3, <2>1 DEF ResearchTransition, Start, Over, Stage
  <2> QED BY <1>1, <2>1, <2>2 DEF LedgerInv, ReportEntries, LockEntries, JudgmentEntries, Over, Window,
          PreReport, M2Open
<1>4. CASE ResearchReady
  <2>1. /\ pc["tick"] = "researching" /\ pc'["tick"] = "m0ledger" /\ state = "researching_m0"
        /\ state' = "awaiting_h0" /\ ledger' = ledger
    BY <1>4 DEF ResearchReady
  <2>2. ~ h0Locked /\ m1 = 0 /\ m2 = 0
    BY <2>1 DEF SerialInv, GroundInv, PreLock, M2Open
  <2> QED BY <1>1, <2>1, <2>2 DEF LedgerInv, ReportEntries, LockEntries, JudgmentEntries, Over, Window,
          PreReport, M2Open
<1>5. CASE M0Ledger
  <2>1. /\ pc["tick"] = "m0ledger" /\ pc'["tick"] = "idle" /\ state' = state
        /\ ~ h0Locked /\ state \in Window /\ ledger["m0"] = "running" /\ ledger["h0"] = "pending"
        /\ ledger["m1"] = "pending" /\ ledger["m2"] = "pending"
    BY <1>5 DEF M0Ledger, LedgerInv, ReportEntries, LockEntries
  <2>2. m1 = 0 /\ m2 = 0
    BY <2>1 DEF SerialInv, GroundInv, Window, M2Open
  <2>3. /\ ledger'["m0"] = "succeeded" /\ ledger'["h0"] = "running"
        /\ ledger'["m1"] = "pending" /\ ledger'["m2"] = "pending"
    BY <1>5, <2>1 DEF M0Ledger, Start, Finish, CanFinish, Stage
  <2> QED BY <1>1, <2>1, <2>2, <2>3 DEF LedgerInv, ReportEntries, LockEntries, JudgmentEntries, Over,
          Window, PreReport, M2Open
<1>6. CASE ResearchWaiting \/ ResearchFailed \/ MarkMissed
  <2>1. /\ state \in PreReport /\ state' \in {"m0_retry_wait", "failed", "missed"}
        /\ pc["tick"] \in {"researching", "idle"} /\ pc'["tick"] = "idle"
        /\ state' = "m0_retry_wait" => pc["tick"] = "researching"
    BY <1>6 DEF ResearchWaiting, ResearchFailed, MarkMissed, SerialInv, PreReport
  <2>2. /\ ~ h0Locked /\ m1 = 0 /\ m2 = 0
        /\ ledger["h0"] = "pending" /\ ledger["m1"] = "pending" /\ ledger["m2"] = "pending"
    BY <2>1 DEF SerialInv, GroundInv, PreLock, PreReport, M2Open, LedgerInv, ReportEntries
  <2>3. ledger["m0"] = "running" \/ ~ ResearchWaiting
    BY <2>2 DEF ResearchWaiting, LedgerInv, ReportEntries
  <2>4. /\ ledger'["h0"] = "pending" /\ ledger'["m1"] = "pending" /\ ledger'["m2"] = "pending"
    BY <1>6, <2>2 DEF ResearchWaiting, ResearchFailed, MarkMissed, Finish, Stage
  <2>5. state' = "m0_retry_wait" => ledger'["m0"] = "retry_wait"
    BY <1>6, <2>3 DEF ResearchWaiting, ResearchFailed, MarkMissed, Finish, CanFinish, Stage
  <2> QED BY <1>1, <2>1, <2>2, <2>4, <2>5 DEF LedgerInv, ReportEntries, LockEntries, JudgmentEntries,
          Over, Window, PreReport, M2Open
<1> QED BY <1>2, <1>3, <1>4, <1>5, <1>6 DEF ResearchStep

LEMMA LedgerJudge ==
  ASSUME SerialFacts, FreshInv, GroundInv, LedgerInv, JudgeStep
  PROVE  LedgerInv'
<1> "tick" \in Actor /\ "background" \in Actor
  BY DEF Actor
<1> USE DEF SerialFacts, TypeOK, Others, cycleVars, judgmentVars, Goto, Return, Idle
<1>1. UNCHANGED <<h0Locked, hasH0, m2>> /\ pc'["background"] = pc["background"]
  BY DEF JudgeStep, PickUpM1, BeginM1, PrepareFails, RunRaises, JudgmentRead, JudgmentStarted,
     JudgmentFails, FailureRead, FailureRetry, FailureFinal, M1Read, M1Ready, M1Ledger
<1>2. CASE \/ PickUpM1 \/ BeginM1 \/ PrepareFails \/ RunRaises \/ JudgmentRead \/ JudgmentFails \/ FailureRead
           \/ M1Read
  <2>1. /\ UNCHANGED <<state, ledger, m1>>
        /\ {pc["tick"], pc'["tick"]} \cap {"researching", "m0ledger", "ledger", "startM2", "skipM2"} = {}
    BY <1>2 DEF PickUpM1, BeginM1, PrepareFails, RunRaises, JudgmentRead, JudgmentFails, FailureRead, M1Read
  <2> QED BY <1>1, <2>1, NoEntry
<1>3. CASE JudgmentStarted \/ FailureRetry \/ FailureFinal
  <2>1. /\ pc["tick"] \in {"start", "writeRetry", "writeFinal"} /\ m1' = m1
        /\ state \in Waiting \cup {"judging_m1"}
        /\ pc'["tick"] \in {"judging", "failFinal", "judge", "idle"}
    BY <1>3 DEF JudgmentStarted, FailureRetry, FailureFinal, SerialInv, Judging
  <2>2. h0Locked /\ m1 = 0 /\ m2 = 0
    BY <2>1 DEF SerialInv, FreshInv, GroundInv, PreLock, M2Open, Waiting
  <2>3. ledger["m1"] \notin Over /\ ledger["m2"] = "pending" /\ ledger["h0"] = H0Result
    BY <2>1, <2>2 DEF LedgerInv, LockEntries, JudgmentEntries
  <2>4. /\ ledger'["h0"] = H0Result /\ ledger'["m2"] = "pending"
        /\ \/ state' = "judging_m1" /\ ledger'["m1"] = "running"
           \/ state' = "m1_retry_wait" /\ ledger'["m1"] = "retry_wait"
           \/ state' = "waiting_for_repair" /\ ledger'["m1"] = "failed"
    BY <1>3, <2>3 DEF JudgmentStarted, FailureRetry, FailureFinal, Start, Finish, CanFinish, Over, Stage
  <2> QED BY <1>1, <2>1, <2>2, <2>4 DEF LedgerInv, ReportEntries, LockEntries, JudgmentEntries, Over,
          Window, PreReport, M2Open, H0Result
<1>4. CASE M1Ready
  <2>1. /\ pc["tick"] = "publish" /\ m1' = m1 + 1 /\ ledger' = ledger
        /\ \/ state' = "complete" /\ pc'["tick"] = "skipM2"
           \/ state' = "synthesizing_m2" /\ pc'["tick"] = "startM2"
        /\ state \in Waiting \cup {"judging_m1"}
    BY <1>4 DEF M1Ready, AfterM1, SerialInv, Judging
  <2>2. h0Locked /\ m1 = 0 /\ m2 = 0
    BY <2>1 DEF SerialInv, FreshInv, GroundInv, PreLock, M2Open, Waiting
  <2> QED BY <1>1, <2>1, <2>2 DEF LedgerInv, ReportEntries, LockEntries, JudgmentEntries, Over,
          Window, PreReport, M2Open, H0Result
<1>5. CASE M1Ledger
  <2>1. /\ pc["tick"] \in {"startM2", "skipM2"} /\ pc'["tick"] = "idle" /\ UNCHANGED <<state, m1>>
        /\ m1 > 0 /\ ledger["m1"] \notin Over
    BY <1>5 DEF M1Ledger, LedgerInv, JudgmentEntries
  <2>2. h0Locked /\ ledger["h0"] = H0Result
    BY <2>1 DEF SerialInv, FreshInv, PreLock, M2Open, LedgerInv, LockEntries
  <2>3. ledger'["h0"] = ledger["h0"] /\ ledger'["m1"] = "succeeded"
    BY <1>5, <2>1 DEF M1Ledger, Start, Finish, CanFinish, Over, Stage
  <2>4. CASE pc["tick"] = "skipM2"
    <3>1. state = "complete" /\ m2 = 0 /\ ledger["m2"] = "pending"
      BY <2>4 DEF LedgerInv, JudgmentEntries
    <3>2. ledger'["m2"] = "skipped"
      BY <1>5, <2>1, <2>4, <3>1 DEF M1Ledger, Finish, CanFinish, Over, Stage
    <3>3. pc["background"] # "m2ledger"
      BY <3>1 DEF LedgerInv, JudgmentEntries
    <3> QED BY <1>1, <2>1, <2>2, <2>3, <3>1, <3>2, <3>3 DEF LedgerInv, ReportEntries, LockEntries,
            JudgmentEntries, Over, Window, PreReport, M2Open, H0Result
  <2>5. CASE pc["tick"] = "startM2"
    <3>1. ledger'["m2"] = IF ledger["m2"] \in Over THEN ledger["m2"] ELSE "running"
      BY <1>5, <2>1, <2>5 DEF M1Ledger, Start, Finish, CanFinish, Over, Stage
    <3>2. state \in M2Open \/ m2 > 0
      BY <2>5 DEF LedgerInv, JudgmentEntries
    <3>3. m2 > 0 => state = "complete"
      BY DEF GroundInv
    <3>4. m2 = 0 => state \in M2Open /\ ledger["m2"] \notin Over /\ pc["background"] # "m2ledger"
      BY <3>2 DEF LedgerInv, JudgmentEntries
    <3>5. m2 > 0 => IF pc["background"] = "m2ledger" THEN ledger["m2"] \notin Over
                                                     ELSE ledger["m2"] = "succeeded"
      BY DEF LedgerInv, JudgmentEntries
    <3> QED BY <1>1, <2>1, <2>2, <2>3, <3>1, <3>3, <3>4, <3>5 DEF LedgerInv, ReportEntries,
            LockEntries, JudgmentEntries, Over, Window, PreReport, M2Open, H0Result
  <2> QED BY <2>1, <2>4, <2>5
<1> QED BY <1>2, <1>3, <1>4, <1>5 DEF JudgeStep

LEMMA LedgerSynthesis ==
  ASSUME SerialFacts, FreshInv, GroundInv, LedgerInv, SynthesisStep
  PROVE  LedgerInv'
<1> "tick" \in Actor /\ "background" \in Actor
  BY DEF Actor
<1> USE DEF SerialFacts, TypeOK, Others, cycleVars, judgmentVars, Goto, Return, Idle
<1>1. UNCHANGED <<h0Locked, hasH0, m1, pc["tick"], job["tick"], taken["tick"]>>
  BY DEF SynthesisStep, PickUpM2, HoldM2, PassGate, M2CallFails, M2Deferred, M2Read, M2Ready, M2Ledger
<1>2. CASE PickUpM2 \/ PassGate \/ M2Read
  <2>1. /\ UNCHANGED <<state, ledger, m2>>
        /\ "m2ledger" \notin {pc["background"], pc'["background"]}
    BY <1>2 DEF PickUpM2, PassGate, M2Read
  <2> QED BY <1>1, <2>1, NoEntry
<1>3. CASE HoldM2 \/ M2CallFails \/ M2Deferred
  <2>1. /\ pc["background"] \in {"gate", "m2", "defer"} /\ pc'["background"] \in {"idle", "defer"}
        /\ state \in M2Open /\ state' = "m2_deferred" /\ m2' = m2
    BY <1>3 DEF HoldM2, M2CallFails, M2Deferred, SerialInv
  <2>2. h0Locked /\ m1 > 0 /\ m2 = 0
    BY <2>1 DEF SerialInv, FreshInv, GroundInv, PreLock, M2Open
  <2>3. ledger["m2"] \notin Over
    BY <2>1, <2>2 DEF LedgerInv, JudgmentEntries
  <2>4. /\ ledger'["h0"] = ledger["h0"] /\ ledger'["m1"] = ledger["m1"] /\ ledger'["m2"] \notin Over
    BY <1>3, <2>3 DEF HoldM2, M2CallFails, M2Deferred, Finish, CanFinish, Over, Stage
  <2> QED BY <1>1, <2>1, <2>2, <2>4 DEF LedgerInv, ReportEntries, LockEntries, JudgmentEntries, Over,
          Window, PreReport, M2Open, H0Result, Locking
<1>4. CASE M2Ready
  <2>1. /\ pc["background"] = "m2publish" /\ pc'["background"] = "m2ledger"
        /\ state \in M2Open /\ state' = "complete" /\ m2' = m2 + 1 /\ ledger' = ledger
    BY <1>4 DEF M2Ready, SerialInv
  <2>2. h0Locked /\ m1 > 0 /\ m2 = 0
    BY <2>1 DEF SerialInv, FreshInv, GroundInv, PreLock, M2Open
  <2>3. ledger["m2"] \notin Over
    BY <2>1, <2>2 DEF LedgerInv, JudgmentEntries
  <2> QED BY <1>1, <2>1, <2>2, <2>3 DEF LedgerInv, ReportEntries, LockEntries, JudgmentEntries, Over,
          Window, PreReport, M2Open, H0Result, Locking
<1>5. CASE M2Ledger
  <2>1. /\ pc["background"] = "m2ledger" /\ pc'["background"] = "idle" /\ UNCHANGED <<state, m2>>
        /\ m2 > 0 /\ ledger["m2"] \notin Over
    BY <1>5 DEF M2Ledger, LedgerInv, JudgmentEntries
  <2>2. h0Locked /\ m1 > 0 /\ state = "complete"
    BY <2>1 DEF SerialInv, FreshInv, GroundInv, PreLock
  <2>3. /\ ledger'["h0"] = ledger["h0"] /\ ledger'["m1"] = ledger["m1"] /\ ledger'["m2"] = "succeeded"
    BY <1>5, <2>1 DEF M2Ledger, Finish, CanFinish, Over, Stage
  <2> QED BY <1>1, <2>1, <2>2, <2>3 DEF LedgerInv, ReportEntries, LockEntries, JudgmentEntries, Over,
          Window, PreReport, M2Open, H0Result, Locking
<1> QED BY <1>2, <1>3, <1>4, <1>5 DEF SynthesisStep

LEMMA LedgerStep ==
  ASSUME SerialFacts, FreshInv, GroundInv, LedgerInv, [Next]_vars, ~ Crash
  PROVE  LedgerInv'
<1> "tick" \in Actor /\ "background" \in Actor
  BY DEF Actor
<1>1. CASE UserStep \/ RunDue
  <2>1. /\ UNCHANGED <<state, h0Locked, hasH0, ledger, m1, m2>>
        /\ \/ UNCHANGED localVars
           \/ pc["tick"] = "idle" /\ pc' = [pc EXCEPT !["tick"] = "handle"]
    BY <1>1 DEF UserStep, ReadCycle, EditMessage, WithdrawMessage, RunDue, SerialFacts, Idle, Goto,
       cycleVars, judgmentVars
  <2>2. /\ pc'["background"] = pc["background"]
        /\ \/ UNCHANGED <<pc["tick"], job["tick"], taken["tick"]>>
           \/ pc["tick"] = "idle" /\ pc'["tick"] = "handle"
    BY <2>1 DEF SerialFacts, TypeOK, localVars
  <2> QED BY <2>1, <2>2, NoEntry
<1>2. ASSUME NEW a \in {"tick", "http"}, CommandStep(a) PROVE LedgerInv'
  BY <1>2, OnlyTheTicker, LedgerCommand
<1>3. CASE Cognise \/ PassDeadline \/ UNCHANGED vars
  <2>1. UNCHANGED <<state, h0Locked, hasH0, ledger, m1, m2, pc, job, taken>>
    BY <1>3 DEF Cognise, PassDeadline, vars, cycleVars, judgmentVars, localVars
  <2> QED BY <2>1, NoEntry
<1> QED BY <1>1, <1>2, <1>3, LedgerResearch, LedgerJudge, LedgerSynthesis DEF Next

(* With the commands executed by the ticker, and until the gateway is first
   stopped: whenever no handler runs, every stage of the ledger says what the
   cycle's row says. *)
THEOREM LedgerTellsTheStory ==
  ASSUME Channels = {"tick"}
  PROVE  Spec => []LedgerAgrees
<1>1. Init => LedgerInv
  BY DEF Init, LedgerInv, ReportEntries, LockEntries, JudgmentEntries, Over, Stage, Actor, Window,
     PreReport, M2Open
<1>2. /\ TypeOK /\ SerialInv /\ FreshInv /\ GroundInv /\ (Uninterrupted => LedgerInv) /\ [Next]_vars
      => (Uninterrupted => LedgerInv)'
  <2> SUFFICES ASSUME TypeOK, SerialInv, FreshInv, GroundInv, Uninterrupted => LedgerInv, [Next]_vars,
                      Uninterrupted'
               PROVE  LedgerInv'
    OBVIOUS
  <2> QED BY StopsCounted, LedgerStep DEF SerialFacts
<1>3. TypeOK /\ SerialInv /\ FreshInv /\ (Uninterrupted => LedgerInv) => LedgerAgrees
  BY DEF TypeOK, SerialInv, FreshInv, PreLock, Window, LedgerInv, ReportEntries, LockEntries, JudgmentEntries, H0Result,
     LedgerAgrees, Quiet, Idle, Actor
<1> QED BY <1>1, <1>2, <1>3, Grounded, PTL DEF Spec
=============================================================================
