---------------------- MODULE DecisionCycle_refinement ----------------------
(* With the commands on the ticker alone: what M2 rests on, over any stop;  *)
(* and without a stop, that the lock is one batch, that no message is left  *)
(* behind, and that the cycle implements the pipeline its user was          *)
(* promised.                                                                *)
EXTENDS DecisionCycle_proofs

(***************************************************************************)
(* What M2 rests on.                                                       *)
(***************************************************************************)

PreReport == {"queued", "researching_m0", "m0_retry_wait"}

(* What the ticker has read of an unlocked cycle still holds.              *)
FreshInv ==
  /\ ~h0Locked => state \in PreLock
  /\ pc["tick"] = "handle" =>
       /\ row["tick"].locked = h0Locked
       /\ IF h0Locked THEN row["tick"].state \notin PreLock ELSE row["tick"].state = state
  /\ pc["tick"] = "publish" => row["tick"].hasH0 = hasH0

(* The artifact the row names is sealed; a cycle gets to M2 with it.       *)
GroundInv ==
  /\ hasH0 <=> h0Artifact # {}
  /\ h0Artifact \subseteq sealed
  /\ pc["tick"] = "transition" => taken["tick"] \subseteq sealed
  /\ state \in M2Open => hasH0 /\ qualified
  /\ m2 > 0 => state = "complete" /\ hasH0 /\ qualified

SerialFacts == Channels = {"tick"} /\ TypeOK /\ SerialInv

LEMMA OnlyTheTicker ==
  ASSUME SerialFacts, NEW a \in {"tick", "http"}, CommandStep(a)
  PROVE  a = "tick"
BY DEF SerialFacts, SerialInv, CommandStep, BeginGrace, InvalidateM0, StageMessage, FreezeContext,
   AlreadyLocked, CommitChat, CommitPreM0, Take, Submit, Seal, LockTransition, LockLedger, Handling

LEMMA FreshStep ==
  ASSUME SerialFacts, SerialInv', FreshInv, [Next]_vars
  PROVE  FreshInv'
<1> USE DEF SerialFacts, SerialInv, FreshInv, TypeOK, cycleVars, messageVars, judgmentVars, otherVars,
            localVars, Others, Goto, Idle, Handling, Locking, PreLock, Judging, Window, Waiting, M2Open
<1> "tick" \in Actor /\ "http" \in Actor /\ "background" \in Actor
  BY DEF Actor
<1>1. CASE UserStep
  BY <1>1 DEF UserStep, ReadCycle, EditMessage, WithdrawMessage, Row
<1>2. CASE RunDue
  BY <1>2 DEF RunDue, Row
<1>3. ASSUME NEW a \in {"tick", "http"}, CommandStep(a) PROVE FreshInv'
  <2>1. a = "tick"
    BY <1>3, OnlyTheTicker
  <2> USE <2>1 DEF Return, NoRow, Open
  <2>2. CASE BeginGrace(a) \/ InvalidateM0(a)
    BY <2>2 DEF BeginGrace, InvalidateM0
  <2>3. CASE StageMessage(a) \/ FreezeContext(a)
    BY <2>3 DEF StageMessage, FreezeContext
  <2>4. CASE AlreadyLocked(a)
    BY <2>4 DEF AlreadyLocked, GoOn
  <2>5. CASE CommitChat(a) \/ CommitPreM0(a)
    BY <2>5 DEF CommitChat, CommitPreM0
  <2>6. CASE Take(a)
    BY <2>6 DEF Take
  <2>7. CASE Submit(a) \/ Seal(a)
    BY <2>7 DEF Submit, Seal
  <2>8. CASE LockTransition(a)
    BY <2>8 DEF LockTransition
  <2>9. CASE LockLedger(a)
    BY <2>9 DEF LockLedger, GoOn
  <2> QED BY <1>3, <2>2, <2>3, <2>4, <2>5, <2>6, <2>7, <2>8, <2>9 DEF CommandStep
<1>4. CASE ResearchStep
  BY <1>4 DEF ResearchStep, ResearchStart, ResearchTransition, ResearchReady, M0Ledger,
     ResearchWaiting, ResearchFailed, MarkMissed, Return
<1>5. ASSUME JudgeStep PROVE FreshInv'
  <2>1. CASE M1Read
    BY <2>1 DEF M1Read, Row
  <2>2. CASE M1Ready
    BY <2>2 DEF M1Ready, AfterM1
  <2>3. CASE ~ M1Read /\ ~ M1Ready
    BY <1>5, <2>3 DEF JudgeStep, PickUpM1, BeginM1, PrepareFails, RunRaises, JudgmentRead, JudgmentStarted,
       JudgmentFails, FailureRead, FailureRetry, FailureFinal, M1Ledger, Return
  <2> QED BY <2>1, <2>2, <2>3
<1>6. ASSUME SynthesisStep PROVE FreshInv'
  BY <1>6 DEF SynthesisStep, PickUpM2, HoldM2, PassGate, M2CallFails, M2Deferred, M2Read,
     M2Ready, M2Ledger, Return
<1>7. CASE Cognise \/ PassDeadline \/ UNCHANGED vars
  BY <1>7 DEF Cognise, PassDeadline, vars
<1>8. CASE Crash
  BY <1>8 DEF Crash
<1> QED BY <1>1, <1>2, <1>3, <1>4, <1>5, <1>6, <1>7, <1>8 DEF Next

LEMMA GroundStep ==
  ASSUME SerialFacts, FreshInv, GroundInv, state \in Terminal => state' = state, [Next]_vars
  PROVE  GroundInv'
<1> USE DEF SerialFacts, GroundInv, TypeOK, cycleVars, messageVars, judgmentVars, otherVars,
            localVars, Others, Goto, Idle, Handling, Locking
<1> "tick" \in Actor /\ "http" \in Actor /\ "background" \in Actor
  BY DEF Actor
<1>1. CASE UserStep
  BY <1>1 DEF UserStep, ReadCycle, EditMessage, WithdrawMessage
<1>2. CASE RunDue
  BY <1>2 DEF RunDue
<1>3. ASSUME NEW a \in {"tick", "http"}, CommandStep(a) PROVE GroundInv'
  <2>1. a = "tick"
    BY <1>3, OnlyTheTicker
  <2> USE <2>1 DEF Return, NoRow, Open, Window, M2Open
  <2>2. CASE BeginGrace(a) \/ InvalidateM0(a)
    BY <2>2 DEF BeginGrace, InvalidateM0, SerialInv
  <2>3. CASE StageMessage(a) \/ FreezeContext(a)
    BY <2>3 DEF StageMessage, FreezeContext
  <2>4. CASE AlreadyLocked(a)
    BY <2>4 DEF AlreadyLocked, GoOn
  <2>5. CASE CommitChat(a) \/ CommitPreM0(a)
    BY <2>5 DEF CommitChat, CommitPreM0
  <2>6. CASE Take(a)
    BY <2>6 DEF Take
  <2>7. CASE Submit(a)
    BY <2>7 DEF Submit
  <2>8. CASE Seal(a)
    BY <2>8 DEF Seal
  <2>9. CASE LockTransition(a)
    BY <2>9 DEF LockTransition, SerialInv
  <2>10. CASE LockLedger(a)
    BY <2>10 DEF LockLedger, GoOn
  <2> QED BY <1>3, <2>2, <2>3, <2>4, <2>5, <2>6, <2>7, <2>8, <2>9, <2>10 DEF CommandStep
<1>4. CASE ResearchStep
  BY <1>4 DEF ResearchStep, ResearchStart, ResearchTransition, ResearchReady, M0Ledger,
     ResearchWaiting, ResearchFailed, MarkMissed, Return, SerialInv, M2Open, Open
<1>5. ASSUME JudgeStep PROVE GroundInv'
  <2> USE DEF SerialInv, Judging, Waiting, M2Open
  <2>1. CASE M1Ready
    BY <2>1 DEF M1Ready, AfterM1, FreshInv
  <2>2. CASE ~ M1Ready
    BY <1>5, <2>2 DEF JudgeStep, PickUpM1, BeginM1, PrepareFails, RunRaises, JudgmentRead, JudgmentStarted,
       JudgmentFails, FailureRead, FailureRetry, FailureFinal, M1Read, M1Ledger, Return
  <2> QED BY <2>1, <2>2
<1>6. ASSUME SynthesisStep PROVE GroundInv'
  BY <1>6 DEF SynthesisStep, PickUpM2, HoldM2, PassGate, M2CallFails, M2Deferred, M2Read,
     M2Ready, M2Ledger, Return, SerialInv, M2Open
<1>7. CASE Cognise \/ PassDeadline \/ Crash \/ UNCHANGED vars
  BY <1>7 DEF Cognise, PassDeadline, Crash, vars
<1> QED BY <1>1, <1>2, <1>3, <1>4, <1>5, <1>6, <1>7 DEF Next

LEMMA Grounded ==
  ASSUME Channels = {"tick"}
  PROVE  Spec => [](TypeOK /\ SerialInv /\ FreshInv /\ GroundInv)
<1>1. Init => FreshInv /\ GroundInv
  BY DEF Init, FreshInv, GroundInv, PreLock, M2Open, Actor
<1>2. TypeOK /\ SerialInv /\ FreshInv /\ GroundInv /\ [Next]_vars /\ SerialInv'
        => FreshInv' /\ GroundInv'
  <2> SUFFICES ASSUME TypeOK, SerialInv, FreshInv, GroundInv, [Next]_vars, SerialInv'
               PROVE  FreshInv' /\ GroundInv'
    OBVIOUS
  <2>1. SerialFacts
    BY DEF SerialFacts
  <2>2. state \in Terminal => state' = state
    BY SerialStep
  <2> QED BY <2>1, <2>2, FreshStep, GroundStep
<1> QED BY <1>1, <1>2, TypeCorrect, SerialInvariant, PTL DEF Spec

(* With the commands executed by the ticker, and over any stop: a cycle that
   waits for its synthesis, or has it, has a sealed H0 and a qualified M1. *)
THEOREM SynthesisIsGrounded ==
  ASSUME Channels = {"tick"}
  PROVE  Spec => []M2Grounded
<1>1. TypeOK /\ SerialInv /\ FreshInv /\ GroundInv => M2Grounded
  BY DEF TypeOK, SerialInv, GroundInv, M2Grounded, M2Open
<1> QED BY <1>1, Grounded, PTL

(***************************************************************************)
(* Without a stop, the lock is one batch.                                  *)
(***************************************************************************)

InDraft(m) == message[m] \in {"staged", "submitted"} /\ phase[m] = "h0"
Staged(p) == {m \in Msg : message[m] = "staged" /\ phase[m] = p}
Sealing(purposes) == pc["tick"] \in {"seal", "transition"} /\ job["tick"] \in purposes
LockSealing == Sealing({"commit_h0", "auto"})

(* Where the words of H0 are: in the draft, in the hands of the ticker that
   locks, in the artifact; and that no phase keeps words behind.           *)
BatchInv ==
  /\ state \in PreReport => \A m \in Msg : phase[m] # "h0"
  /\ ~h0Locked /\ ~LockSealing => \A m \in Msg : InDraft(m) => message[m] = "staged"
  /\ pc["tick"] = "submit" => taken["tick"] = Batch(PhaseOf(job["tick"]))
  /\ LockSealing => taken["tick"] = Draft /\ Staged("h0") = {}
  /\ h0Locked => h0Artifact = Draft /\ Staged("h0") = {}
  /\ state \notin {"queued", "m0_retry_wait", "failed", "missed"} \/ Sealing({"research"})
       => Staged("pre_m0") = {}

\* Messages that stay as they are leave the draft and the batches alone.
LEMMA WordsKept ==
  ASSUME UNCHANGED messageVars
  PROVE  /\ Draft' = Draft /\ \A p : Batch(p)' = Batch(p) /\ Staged(p)' = Staged(p)
         /\ \A m : InDraft(m)' <=> InDraft(m)
BY DEF messageVars, Draft, Batch, Staged, InDraft

\* The draft changes with its messages only.
LEMMA DraftKept ==
  ASSUME \A m \in Msg : InDraft(m)' <=> InDraft(m),
         \A m \in Msg : InDraft(m) => text'[m] = text[m]
  PROVE  Draft' = Draft
<1>1. Draft = {<<m, text[m]>> : m \in {n \in Msg : InDraft(n)}}
  BY DEF Draft, InDraft
<1>2. Draft' = {<<m, text'[m]>> : m \in {n \in Msg : InDraft(n)'}}
  BY DEF Draft, InDraft
<1> QED BY <1>1, <1>2

LEMMA BatchSubmit ==
  ASSUME SerialFacts, FreshInv, BatchInv, Submit("tick")
  PROVE  BatchInv'
<1> DEFINE p == PhaseOf(job["tick"])
<1> "tick" \in Actor
  BY DEF Actor
<1> USE DEF SerialFacts, TypeOK
<1>1. /\ phase' = phase /\ text' = text /\ job' = job /\ taken' = taken /\ pc["tick"] = "submit"
      /\ pc'["tick"] = "seal" /\ UNCHANGED cycleVars
      /\ \A m \in Msg : message'[m] = IF message[m] = "staged" /\ phase[m] = p
                                      THEN "submitted" ELSE message[m]
  BY DEF Submit, Goto
<1>2. Draft' = Draft
  <2>1. \A m \in Msg : InDraft(m)' <=> InDraft(m)
    BY <1>1 DEF InDraft
  <2> QED BY <1>1, <2>1, DraftKept
<1>3. Staged(p)' = {} /\ \A q : Staged(q) = {} => Staged(q)' = {}
  BY <1>1 DEF Staged
<1>4. LockSealing' <=> job["tick"] \in {"commit_h0", "auto"}
  BY <1>1 DEF LockSealing, Sealing
<1>5. ~ LockSealing
  BY <1>1 DEF LockSealing, Sealing
<1>6. CASE job["tick"] \in {"commit_h0", "auto"}
  <2>1. p = "h0" /\ ~ h0Locked /\ state \in Window
    BY <1>1, <1>6 DEF PhaseOf, SerialInv, Locking, PreLock, Window
  <2>2. Draft = Batch("h0")
    <3>1. \A m \in Msg : InDraft(m) <=> message[m] = "staged" /\ phase[m] = "h0"
      BY <1>5, <2>1 DEF BatchInv, InDraft
    <3>2. {n \in Msg : message[n] \in {"staged", "submitted"} /\ phase[n] = "h0"}
          = {n \in Msg : message[n] = "staged" /\ phase[n] = "h0"}
      BY <3>1 DEF InDraft
    <3> QED BY <3>2 DEF Draft, Batch
  <2>3. taken["tick"] = Draft
    BY <1>1, <2>1, <2>2 DEF BatchInv
  <2> QED BY <1>1, <1>2, <1>3, <1>4, <1>6, <2>1, <2>3 DEF BatchInv, Sealing, cycleVars, InDraft
<1>7. CASE job["tick"] \notin {"commit_h0", "auto"}
  <2>1. p # "h0"
    BY <1>7 DEF PhaseOf
  <2>2. \A m \in Msg : InDraft(m)' => message'[m] = message[m] /\ InDraft(m)
    BY <1>1, <2>1 DEF InDraft
  <2>3. job["tick"] = "research" => p = "pre_m0"
    BY DEF PhaseOf
  <2> QED BY <1>1, <1>2, <1>3, <1>4, <1>5, <1>7, <2>2, <2>3 DEF BatchInv, Sealing, cycleVars
<1> QED BY <1>6, <1>7

LEMMA BatchStage ==
  ASSUME SerialFacts, FreshInv, BatchInv, StageMessage("tick")
  PROVE  BatchInv'
<1> "tick" \in Actor
  BY DEF Actor
<1> USE DEF SerialFacts, TypeOK
<1>1. /\ UNCHANGED cycleVars /\ text' = text /\ pc["tick"] = "handle" /\ pc'["tick"] = "idle"
  BY DEF StageMessage, Handling, Return, Goto
<1>2. ~ LockSealing /\ ~ LockSealing' /\ ~ Sealing({"research"})'
  BY <1>1 DEF LockSealing, Sealing
<1>3. CASE UNCHANGED <<message, phase>>
  <2>1. UNCHANGED messageVars
    BY <1>3 DEF StageMessage, messageVars
  <2> QED BY <1>1, <1>2, <2>1, WordsKept DEF BatchInv, cycleVars, messageVars
<1>4. CASE ~ UNCHANGED <<message, phase>>
  <2>1. PICK m \in Msg :
          /\ Accepts(row["tick"]) /\ message[m] = "absent"
          /\ message' = [message EXCEPT ![m] = "staged"]
          /\ phase' = [phase EXCEPT ![m] = PhaseFor(row["tick"])]
    BY <1>4 DEF StageMessage
  <2>2. \A n \in Msg \ {m} : message'[n] = message[n] /\ phase'[n] = phase[n]
    BY <2>1
  <2>3. message'[m] = "staged" /\ phase'[m] = PhaseFor(row["tick"])
    BY <2>1
  <2>4. phase'[m] = "h0" => state \notin PreReport /\ ~ h0Locked
    BY <1>1, <2>1, <2>3 DEF FreshInv, PhaseFor, PreReport, Accepts
  <2>5. phase'[m] = "pre_m0" => state = "queued"
    BY <1>1, <2>3 DEF FreshInv, PhaseFor, PreLock
  <2>6. state \in PreReport => \A n \in Msg : phase'[n] # "h0"
    BY <2>2, <2>4 DEF BatchInv
  <2>7. ~ h0Locked => \A n \in Msg : InDraft(n)' => message'[n] = "staged"
    BY <1>2, <2>2, <2>3 DEF BatchInv, InDraft
  <2>8. ASSUME h0Locked PROVE Draft' = Draft /\ Staged("h0")' = {}
    <3>1. phase'[m] # "h0"
      BY <2>4, <2>8
    <3>2. \A n \in Msg : InDraft(n)' <=> InDraft(n)
      BY <2>1, <2>2, <3>1 DEF InDraft
    <3>3. Staged("h0") = {}
      BY <2>8 DEF BatchInv
    <3> QED BY <1>1, <2>2, <3>1, <3>2, <3>3, DraftKept DEF Staged
  <2>9. state \notin {"queued", "m0_retry_wait", "failed", "missed"} => Staged("pre_m0")' = {}
    BY <2>2, <2>5 DEF BatchInv, Staged
  <2> QED BY <1>1, <1>2, <2>6, <2>7, <2>8, <2>9 DEF BatchInv, cycleVars
<1> QED BY <1>3, <1>4

LEMMA BatchEdit ==
  ASSUME SerialFacts, BatchInv, NEW m \in Msg,
         EditMessage("tick", m) \/ WithdrawMessage("tick", m)
  PROVE  BatchInv'
<1> USE DEF SerialFacts, TypeOK
<1>1. /\ UNCHANGED cycleVars /\ UNCHANGED localVars /\ phase' = phase /\ pc["tick"] = "idle"
      /\ message[m] = "staged"
      /\ \A n \in Msg \ {m} : message'[n] = message[n] /\ text'[n] = text[n]
      /\ message'[m] \in {"staged", "withdrawn"}
  BY DEF EditMessage, WithdrawMessage, Idle, Editable, messageVars
<1>2. ~ LockSealing /\ ~ LockSealing' /\ ~ Sealing({"research"})'
  BY <1>1 DEF LockSealing, Sealing, localVars
<1>3. \A p : Staged(p) = {} => Staged(p)' = {}
  BY <1>1 DEF Staged
<1>4. ASSUME h0Locked PROVE Draft' = Draft
  <2>1. phase[m] # "h0"
    BY <1>1, <1>4 DEF BatchInv, Staged
  <2>2. \A n \in Msg : InDraft(n)' <=> InDraft(n)
    BY <1>1, <2>1 DEF InDraft
  <2>3. \A n \in Msg : InDraft(n) => text'[n] = text[n]
    BY <1>1, <2>1 DEF InDraft
  <2> QED BY <2>2, <2>3, DraftKept
<1>5. ~ h0Locked => \A n \in Msg : InDraft(n)' => message'[n] = "staged"
  BY <1>1, <1>2 DEF BatchInv, InDraft
<1> QED BY <1>1, <1>2, <1>3, <1>4, <1>5 DEF BatchInv, cycleVars, localVars

\* What a step without words must leave alone: the lock, the hands of the
\* ticker while it seals, and the side of the report the cycle is on.
LEMMA BatchQuiet ==
  ASSUME BatchInv, UNCHANGED messageVars, UNCHANGED <<h0Locked, h0Artifact>>,
         \/ UNCHANGED <<pc["tick"], job["tick"], taken["tick"]>>
         \/ /\ pc["tick"] \notin {"seal", "transition"}
            /\ pc'["tick"] \notin {"submit", "seal", "transition"},
         state' \in PreReport => state \in PreReport,
         \/ state \notin {"queued", "m0_retry_wait", "failed", "missed"}
         \/ state' \in {"queued", "m0_retry_wait", "failed", "missed"}
  PROVE  BatchInv'
<1>1. phase' = phase /\ message' = message
  BY DEF messageVars
<1>2. Batch(PhaseOf(job["tick"]))' = Batch(PhaseOf(job'["tick"]))
  BY DEF messageVars, Batch
<1> QED BY <1>1, <1>2, WordsKept DEF BatchInv, LockSealing, Sealing, InDraft

LEMMA BatchCommand ==
  ASSUME SerialFacts, FreshInv, BatchInv, CommandStep("tick")
  PROVE  BatchInv'
<1> "tick" \in Actor
  BY DEF Actor
<1> USE DEF SerialFacts, TypeOK
<1>1. CASE BeginGrace("tick") \/ InvalidateM0("tick")
  <2>1. state' = state \/ (state \in Window /\ state' \in {"voice_grace", "failed"})
    BY <1>1 DEF BeginGrace, InvalidateM0, SerialInv, Open, Window, Handling
  <2>2. /\ UNCHANGED messageVars /\ UNCHANGED <<h0Locked, h0Artifact>>
        /\ pc["tick"] = "handle" /\ pc'["tick"] = "idle"
    BY <1>1 DEF BeginGrace, InvalidateM0, Handling, Return, Goto
  <2> QED BY <2>1, <2>2, BatchQuiet DEF PreReport, Window
<1>2. CASE StageMessage("tick")
  BY <1>2, BatchStage
<1>3. CASE \/ FreezeContext("tick") \/ AlreadyLocked("tick") \/ CommitChat("tick")
           \/ CommitPreM0("tick")
  <2>1. /\ UNCHANGED messageVars /\ UNCHANGED <<state, h0Locked, h0Artifact>>
        /\ pc["tick"] = "handle" /\ pc'["tick"] \in {"idle", "take", "m1"}
    BY <1>3 DEF FreezeContext, AlreadyLocked, GoOn, CommitChat, CommitPreM0, Handling, Return, Goto,
       cycleVars
  <2> QED BY <2>1, BatchQuiet
<1>4. CASE Take("tick")
  <2> DEFINE batch == Batch(PhaseOf(job["tick"]))
  <2>1. pc["tick"] = "take" /\ UNCHANGED messageVars /\ UNCHANGED cycleVars
    BY <1>4 DEF Take
  <2>2. CASE batch = {} /\ job["tick"] \in {"commit_chat", "commit_pre_m0"}
    <3>1. pc'["tick"] = "idle"
      BY <1>4, <2>2 DEF Take, Return, Goto
    <3> QED BY <2>1, <3>1, BatchQuiet DEF cycleVars
  <2>3. CASE ~ (batch = {} /\ job["tick"] \in {"commit_chat", "commit_pre_m0"})
    <3>1. /\ taken'["tick"] = batch /\ job' = job
          /\ pc'["tick"] = IF batch = {} THEN "seal" ELSE "submit"
      BY <1>4, <2>3 DEF Take, Goto
    <3>2. message' = message /\ phase' = phase /\ text' = text
      BY <2>1 DEF messageVars
    <3>3. batch' = batch
      BY <3>1, <3>2 DEF Batch
    <3>4. \A p : Batch(p) = {} => Staged(p) = {}
      BY DEF Batch, Staged
    <3>5. ~ LockSealing
      BY <2>1 DEF LockSealing, Sealing
    <3>6. ASSUME LockSealing' PROVE taken'["tick"] = Draft /\ Staged("h0") = {}
      <4>1. Locking("tick") /\ PhaseOf(job["tick"]) = "h0" /\ batch = {}
        BY <3>1, <3>6 DEF LockSealing, Sealing, Locking, PhaseOf
      <4>2. ~ h0Locked
        BY <2>1, <4>1 DEF SerialInv, PreLock, Window
      <4>3. Staged("h0") = {}
        BY <3>4, <4>1
      <4>4. \A m \in Msg : ~ InDraft(m)
        BY <3>5, <4>2, <4>3 DEF BatchInv, Staged, InDraft
      <4>5. Draft = {}
        BY <4>4 DEF Draft, InDraft
      <4> QED BY <3>1, <4>1, <4>3, <4>5
    <3>7. Sealing({"research"})' => Staged("pre_m0") = {}
      <4>1. job["tick"] = "research" => PhaseOf(job["tick"]) = "pre_m0"
        BY DEF PhaseOf
      <4> QED BY <3>1, <3>4, <4>1 DEF Sealing
    <3> QED BY <2>1, <3>1, <3>2, <3>3, <3>5, <3>6, <3>7, WordsKept DEF BatchInv, cycleVars, InDraft
  <2> QED BY <2>2, <2>3
<1>5. CASE Submit("tick")
  BY <1>5, BatchSubmit
<1>6. CASE Seal("tick")
  <2>1. /\ pc["tick"] = "seal" /\ UNCHANGED cycleVars /\ job'["tick"] \in {job["tick"], "none"}
        /\ message' = message /\ phase' = phase /\ text' = text
    BY <1>6 DEF Seal, Return
  <2>2. Locking("tick") \/ job["tick"] = "research" => taken' = taken /\ job' = job /\ pc'["tick"] = "transition"
    BY <1>6 DEF Seal, Goto
  <2>3. ~ (Locking("tick") \/ job["tick"] = "research") => pc'["tick"] = "idle"
    BY <1>6 DEF Seal, Return, Goto
  <2>4. Draft' = Draft /\ \A p : Staged(p)' = Staged(p)
    BY <2>1 DEF Draft, Staged
  <2>5. LockSealing' <=> LockSealing
    BY <2>1, <2>2, <2>3 DEF LockSealing, Sealing, Locking
  <2>6. Sealing({"research"})' <=> Sealing({"research"})
    BY <2>1, <2>2, <2>3 DEF Sealing, Locking
  <2>7. pc'["tick"] # "submit"
    BY <2>2, <2>3
  <2>8. LockSealing => taken' = taken
    BY <2>2 DEF LockSealing, Sealing, Locking
  <2> QED BY <2>1, <2>4, <2>5, <2>6, <2>7, <2>8 DEF BatchInv, cycleVars, InDraft
<1>7. CASE LockTransition("tick")
  <2>1. /\ pc["tick"] = "transition" /\ pc'["tick"] = "ledger" /\ Locking("tick")
        /\ state' = "researching_m1" /\ h0Locked' /\ h0Artifact' = taken["tick"]
        /\ UNCHANGED messageVars
    BY <1>7 DEF LockTransition, Goto
  <2>2. LockSealing /\ state \in Window
    BY <2>1 DEF LockSealing, Sealing, Locking, SerialInv
  <2>3. ~ LockSealing' /\ ~ Sealing({"research"})'
    BY <2>1 DEF LockSealing, Sealing
  <2> QED BY <2>1, <2>2, <2>3, WordsKept DEF BatchInv, PreReport, Window
<1>8. CASE LockLedger("tick")
  <2>1. /\ UNCHANGED messageVars /\ UNCHANGED <<state, h0Locked, h0Artifact>>
        /\ pc["tick"] = "ledger" /\ pc'["tick"] \in {"idle", "m1"}
    BY <1>8 DEF LockLedger, GoOn, Return, Goto, cycleVars
  <2> QED BY <2>1, BatchQuiet
<1> QED BY <1>1, <1>2, <1>3, <1>4, <1>5, <1>6, <1>7, <1>8 DEF CommandStep

LEMMA BatchStep ==
  ASSUME SerialFacts, FreshInv, BatchInv, [Next]_vars, ~ Crash
  PROVE  BatchInv'
<1> USE DEF SerialFacts, TypeOK, cycleVars, judgmentVars, otherVars, localVars, Others,
            Goto, Idle, Window, Waiting, M2Open, PreReport, Judging
<1> "tick" \in Actor /\ "http" \in Actor /\ "background" \in Actor
  BY DEF Actor
<1>1. CASE UserStep
  <2>1. ASSUME NEW command \in Commands, ReadCycle("tick", command) PROVE BatchInv'
    <3>1. /\ UNCHANGED messageVars /\ UNCHANGED <<state, h0Locked, h0Artifact>>
          /\ pc["tick"] = "idle" /\ pc'["tick"] = "handle"
      BY <2>1 DEF ReadCycle
    <3> QED BY <3>1, BatchQuiet
  <2> QED BY <1>1, <2>1, BatchEdit DEF UserStep
<1>2. CASE RunDue
  <2>1. /\ UNCHANGED messageVars /\ UNCHANGED <<state, h0Locked, h0Artifact>>
        /\ pc["tick"] = "idle" /\ pc'["tick"] = "handle"
    BY <1>2 DEF RunDue
  <2> QED BY <2>1, BatchQuiet
<1>3. ASSUME NEW a \in {"tick", "http"}, CommandStep(a) PROVE BatchInv'
  BY <1>3, OnlyTheTicker, BatchCommand
<1>4. CASE ResearchStep
  <2>1. CASE ResearchTransition
    <3>1. /\ UNCHANGED messageVars /\ UNCHANGED <<h0Locked, h0Artifact>>
          /\ Sealing({"research"}) /\ ~ LockSealing /\ state' = "researching_m0"
          /\ state \in {"queued", "m0_retry_wait"} /\ pc'["tick"] = "researching"
      BY <2>1 DEF ResearchTransition, Sealing, LockSealing, SerialInv
    <3>2. ~ LockSealing' /\ ~ Sealing({"research"})'
      BY <3>1 DEF LockSealing, Sealing
    <3> QED BY <3>1, <3>2, WordsKept DEF BatchInv, messageVars
  <2>2. CASE ~ ResearchTransition
    <3>1. /\ UNCHANGED messageVars /\ UNCHANGED <<h0Locked, h0Artifact>>
          /\ \/ UNCHANGED <<pc["tick"], job["tick"], taken["tick"]>>
             \/ /\ pc["tick"] \notin {"seal", "transition"}
                /\ pc'["tick"] \notin {"submit", "seal", "transition"}
      BY <1>4, <2>2 DEF ResearchStep, ResearchStart, ResearchReady, M0Ledger, ResearchWaiting,
         ResearchFailed, MarkMissed, Return
    <3>2. \/ state' = state
          \/ state = "researching_m0"
          \/ state' \in {"failed", "missed"}
      BY <1>4, <2>2 DEF ResearchStep, ResearchStart, ResearchReady, M0Ledger, ResearchWaiting,
         ResearchFailed, MarkMissed, SerialInv
    <3> QED BY <3>1, <3>2, BatchQuiet
  <2> QED BY <2>1, <2>2
<1>5. ASSUME JudgeStep PROVE BatchInv'
  <2>1. /\ UNCHANGED messageVars /\ UNCHANGED <<h0Locked, h0Artifact>>
        /\ pc["tick"] \notin {"seal", "transition"}
        /\ pc'["tick"] \notin {"submit", "seal", "transition"}
    BY <1>5 DEF JudgeStep, PickUpM1, BeginM1, PrepareFails, RunRaises, JudgmentRead, JudgmentStarted,
       JudgmentFails, FailureRead, FailureRetry, FailureFinal, M1Read, M1Ready, M1Ledger, Return
  <2>2. \/ state' = state
        \/ /\ state \in Waiting \cup {"judging_m1"}
           /\ state' \notin PreReport
    BY <1>5 DEF JudgeStep, PickUpM1, BeginM1, PrepareFails, RunRaises, JudgmentRead, JudgmentStarted,
       JudgmentFails, FailureRead, FailureRetry, FailureFinal, M1Read, M1Ready, AfterM1, M1Ledger,
       SerialInv
  <2> QED BY <2>1, <2>2, BatchQuiet
<1>6. ASSUME SynthesisStep PROVE BatchInv'
  <2>1. /\ UNCHANGED messageVars /\ UNCHANGED <<h0Locked, h0Artifact>>
        /\ UNCHANGED <<pc["tick"], job["tick"], taken["tick"]>>
    BY <1>6 DEF SynthesisStep, PickUpM2, HoldM2, PassGate, M2CallFails, M2Deferred, M2Read,
       M2Ready, M2Ledger, Return
  <2>2. \/ state' = state
        \/ state \in M2Open /\ state' \in M2Open \cup {"complete"}
    BY <1>6 DEF SynthesisStep, PickUpM2, HoldM2, PassGate, M2CallFails, M2Deferred, M2Read,
       M2Ready, M2Ledger, SerialInv
  <2> QED BY <2>1, <2>2, BatchQuiet
<1>7. CASE Cognise \/ PassDeadline \/ UNCHANGED vars
  <2>1. /\ UNCHANGED messageVars /\ UNCHANGED <<state, h0Locked, h0Artifact>>
        /\ UNCHANGED <<pc["tick"], job["tick"], taken["tick"]>>
    BY <1>7 DEF Cognise, PassDeadline, vars
  <2> QED BY <2>1, BatchQuiet
<1> QED BY <1>1, <1>2, <1>3, <1>4, <1>5, <1>6, <1>7 DEF Next

\* A stop is counted, and nothing else is.
LEMMA StopsCounted ==
  ASSUME TypeOK, [Next]_vars, Uninterrupted'
  PROVE  Uninterrupted /\ ~ Crash
<1>1. ~ Crash
  BY DEF Crash, Uninterrupted, TypeOK
<1>2. crashes' = crashes
  BY <1>1 DEF Next, UserStep, ReadCycle, EditMessage, WithdrawMessage, RunDue, CommandStep,
     BeginGrace, InvalidateM0, StageMessage, FreezeContext, AlreadyLocked, CommitChat, CommitPreM0,
     Take, Submit, Seal, LockTransition, LockLedger, ResearchStep, ResearchStart,
     ResearchTransition, ResearchReady, M0Ledger, ResearchWaiting, ResearchFailed, MarkMissed,
     JudgeStep, PickUpM1, BeginM1, PrepareFails, RunRaises, JudgmentRead, JudgmentStarted, JudgmentFails,
     FailureRead, FailureRetry, FailureFinal, M1Read, M1Ready, M1Ledger, SynthesisStep, PickUpM2,
     HoldM2, PassGate, M2CallFails, M2Deferred, M2Read, M2Ready, M2Ledger, Cognise, PassDeadline,
     vars, otherVars
<1> QED BY <1>1, <1>2 DEF Uninterrupted

LEMMA Batched ==
  ASSUME Channels = {"tick"}
  PROVE  Spec => [](Uninterrupted => BatchInv)
<1>1. Init => BatchInv
  BY DEF Init, BatchInv, InDraft, Staged, Sealing, LockSealing, Actor
<1>2. /\ TypeOK /\ SerialInv /\ FreshInv /\ GroundInv /\ (Uninterrupted => BatchInv) /\ [Next]_vars
      => (Uninterrupted => BatchInv)'
  <2> SUFFICES ASSUME TypeOK, SerialInv, FreshInv, Uninterrupted => BatchInv, [Next]_vars,
                      Uninterrupted'
               PROVE  BatchInv'
    OBVIOUS
  <2>1. Uninterrupted /\ ~ Crash
    BY StopsCounted
  <2> QED BY <2>1, BatchStep DEF SerialFacts
<1> QED BY <1>1, <1>2, Grounded, PTL DEF Spec

(* With the commands executed by the ticker, and until the gateway is first
   stopped: the messages submitted as H0 are those of the artifact the row
   names, in the words it holds. *)
THEOREM LockIsOneBatch ==
  ASSUME Channels = {"tick"}
  PROVE  Spec => []WholeUninterrupted
<1>1. ASSUME BatchInv, h0Locked PROVE H0Whole
  <2>1. \A m \in Msg : InDraft(m) <=> message[m] = "submitted" /\ phase[m] = "h0"
    BY <1>1 DEF BatchInv, Staged, InDraft
  <2>2. {n \in Msg : message[n] \in {"staged", "submitted"} /\ phase[n] = "h0"}
        = {n \in Msg : message[n] = "submitted" /\ phase[n] = "h0"}
    BY <2>1 DEF InDraft
  <2> QED BY <1>1, <2>2 DEF BatchInv, Draft, H0Whole
<1>2. (Uninterrupted => BatchInv) => WholeUninterrupted
  BY <1>1 DEF WholeUninterrupted, H0Whole
<1> QED BY <1>2, Batched, PTL

(* Under the same assumptions no message waits, between handlers, for a
   commit that has already been. *)
THEOREM NoMessageStranded ==
  ASSUME Channels = {"tick"}
  PROVE  Spec => []NoneStranded
<1>1. (Uninterrupted => BatchInv) => NoneStranded
  BY DEF NoneStranded, BatchInv, Staged
<1> QED BY <1>1, Batched, PTL

(***************************************************************************)
(* Without a stop, the cycle is the pipeline its user was promised.        *)
(***************************************************************************)

\* The draft keeps its words when they are submitted.
LEMMA SubmitKeepsDraft ==
  ASSUME TypeOK, Submit("tick")
  PROVE  Draft' = Draft
<1>1. /\ phase' = phase /\ text' = text
      /\ \A m \in Msg : message'[m] = IF message[m] = "staged" /\ phase[m] = PhaseOf(job["tick"])
                                      THEN "submitted" ELSE message[m]
  BY DEF Submit
<1>2. \A m \in Msg : InDraft(m)' <=> InDraft(m)
  BY <1>1 DEF InDraft
<1> QED BY <1>1, <1>2, DraftKept

\* One message that enters, leaves or changes in the draft is one note written.
LEMMA OneNoteWritten ==
  ASSUME TypeOK, NEW m \in Msg, phase' \in [Msg -> {"none", "pre_m0", "h0", "chat"}],
         \A n \in Msg \ {m} : /\ message'[n] = message[n] /\ phase'[n] = phase[n]
                              /\ text'[n] = text[n],
         text'[m] \in 0..MaxEdits,
         PipelineStage \in {"open", "aborted"},
         UNCHANGED <<state, h0Artifact, m1, qualified>>
  PROVE  Pipeline!Write
<1> DEFINE old == IF InDraft(m) THEN {<<m, text[m]>>} ELSE {}
           new == IF InDraft(m)' THEN {<<m, text'[m]>>} ELSE {}
<1>1. old \in SUBSET Bodies /\ new \in SUBSET Bodies
  BY DEF TypeOK, Bodies
<1>2. (\A n, k \in old : n = k) /\ (\A n, k \in new : n = k)
  OBVIOUS
<1>3. Draft = {<<n, text[n]>> : n \in {k \in Msg : InDraft(k)}}
  BY DEF Draft, InDraft
<1>4. Draft' = {<<n, text'[n]>> : n \in {k \in Msg : InDraft(k)'}}
  BY DEF Draft, InDraft
<1>5. \A n \in Msg \ {m} : InDraft(n)' <=> InDraft(n)
  BY DEF InDraft
<1>6. \A b : b \in Draft' <=> b \in (Draft \ old) \cup new
  <2> TAKE b
  <2>1. b \in Draft <=> \E n \in Msg : InDraft(n) /\ b = <<n, text[n]>>
    BY <1>3
  <2>2. b \in Draft' <=> \E n \in Msg : InDraft(n)' /\ b = <<n, text'[n]>>
    BY <1>4
  <2>3. b \in old <=> InDraft(m) /\ b = <<m, text[m]>>
    OBVIOUS
  <2>4. b \in new <=> InDraft(m)' /\ b = <<m, text'[m]>>
    OBVIOUS
  <2> HIDE DEF old, new
  <2>5. b \in Draft' => b \in (Draft \ old) \cup new
    BY <1>5, <2>1, <2>2, <2>3, <2>4
  <2>6. b \in (Draft \ old) \cup new => b \in Draft'
    BY <1>5, <2>1, <2>2, <2>3, <2>4
  <2> QED BY <2>5, <2>6
<1>7. Draft' = (Draft \ old) \cup new
  BY <1>6
<1>8. PipelineStage' = PipelineStage
  BY DEF PipelineStage
<1> HIDE DEF old, new
<1> QED BY <1>1, <1>2, <1>7, <1>8 DEF Pipeline!Write

CycleFacts == SerialFacts /\ FreshInv /\ GroundInv /\ BatchInv

\* What the user sees of a step: nothing.
Unseen == UNCHANGED <<PipelineStage, Draft, h0Artifact, m1, qualified>>

Seen == Pipeline!Next \/ Unseen

LEMMA WritingSeen ==
  ASSUME CycleFacts, NEW m \in Msg, EditMessage("tick", m) \/ WithdrawMessage("tick", m)
  PROVE  Seen
<1> USE DEF CycleFacts, SerialFacts, TypeOK
<1>1. /\ UNCHANGED cycleVars /\ UNCHANGED judgmentVars /\ phase' = phase /\ message[m] = "staged"
      /\ \A n \in Msg \ {m} : message'[n] = message[n] /\ text'[n] = text[n]
      /\ text'[m] \in 0..MaxEdits
  BY CycleConstants DEF EditMessage, WithdrawMessage, Editable
<1>2. CASE phase[m] = "h0"
  <2>1. ~ h0Locked /\ state \notin PreReport
    BY <1>1, <1>2 DEF BatchInv, Staged
  <2>2. PipelineStage \in {"open", "aborted"}
    BY <2>1 DEF FreshInv, PreLock, PreReport, PipelineStage, Window
  <2>3. Pipeline!Write
    BY <1>1, <2>2, OneNoteWritten DEF cycleVars, judgmentVars
  <2> QED BY <2>3 DEF Seen, Pipeline!Next
<1>3. CASE phase[m] # "h0"
  <2>1. \A n \in Msg : (InDraft(n)' <=> InDraft(n)) /\ (InDraft(n) => text'[n] = text[n])
    BY <1>1, <1>3 DEF InDraft
  <2>2. Draft' = Draft
    BY <2>1, DraftKept
  <2> QED BY <1>1, <2>2 DEF Seen, Unseen, PipelineStage, cycleVars, judgmentVars
<1> QED BY <1>2, <1>3

LEMMA StagingSeen ==
  ASSUME CycleFacts, StageMessage("tick")
  PROVE  Seen
<1> USE DEF CycleFacts, SerialFacts, TypeOK
<1>1. /\ UNCHANGED cycleVars /\ UNCHANGED judgmentVars /\ text' = text /\ pc["tick"] = "handle"
  BY DEF StageMessage, Handling
<1>2. CASE UNCHANGED <<message, phase>>
  BY <1>1, <1>2 DEF Seen, Unseen, PipelineStage, Draft, cycleVars, judgmentVars
<1>3. CASE ~ UNCHANGED <<message, phase>>
  <2>1. PICK m \in Msg :
          /\ Accepts(row["tick"]) /\ message[m] = "absent"
          /\ message' = [message EXCEPT ![m] = "staged"]
          /\ phase' = [phase EXCEPT ![m] = PhaseFor(row["tick"])]
    BY <1>3 DEF StageMessage
  <2>2. \A n \in Msg \ {m} : message'[n] = message[n] /\ phase'[n] = phase[n] /\ text'[n] = text[n]
    BY <1>1, <2>1
  <2>3. phase'[m] = PhaseFor(row["tick"]) /\ text'[m] \in 0..MaxEdits
    BY <1>1, <2>1
  <2>4. CASE PhaseFor(row["tick"]) = "h0"
    <3>1. state \in Window
      BY <1>1, <2>1, <2>4 DEF FreshInv, PhaseFor, Accepts, PreLock, Window
    <3>2. PipelineStage = "open"
      BY <3>1 DEF PipelineStage, Window
    <3>3. phase' \in [Msg -> {"none", "pre_m0", "h0", "chat"}]
      BY <2>1 DEF PhaseFor
    <3>4. Pipeline!Write
      BY <1>1, <2>2, <2>3, <3>2, <3>3, OneNoteWritten DEF cycleVars, judgmentVars
    <3> QED BY <3>4 DEF Seen, Pipeline!Next
  <2>5. CASE PhaseFor(row["tick"]) # "h0"
    <3>1. \A n \in Msg : InDraft(n)' <=> InDraft(n)
      BY <2>1, <2>2, <2>3, <2>5 DEF InDraft
    <3>2. Draft' = Draft
      BY <1>1, <3>1, DraftKept
    <3> QED BY <1>1, <3>2 DEF Seen, Unseen, PipelineStage, cycleVars, judgmentVars
  <2> QED BY <2>4, <2>5
<1> QED BY <1>2, <1>3

LEMMA CommandSeen ==
  ASSUME CycleFacts, CommandStep("tick")
  PROVE  Seen
<1> USE DEF CycleFacts, SerialFacts, TypeOK
<1>1. CASE BeginGrace("tick") \/ InvalidateM0("tick")
  <2>1. state' = state \/ (state \in Window /\ state' \in {"voice_grace", "failed"})
    BY <1>1 DEF BeginGrace, InvalidateM0, SerialInv, Open, Window, Handling
  <2>2. UNCHANGED messageVars /\ UNCHANGED <<h0Artifact, m1, qualified>>
    BY <1>1 DEF BeginGrace, InvalidateM0, judgmentVars
  <2>3. CASE state \in Window /\ state' = "failed"
    BY <2>2, <2>3, WordsKept DEF Seen, Pipeline!Next, Pipeline!Abort, PipelineStage, Window
  <2>4. CASE ~ (state \in Window /\ state' = "failed")
    BY <2>1, <2>2, <2>4, WordsKept DEF Seen, Unseen, PipelineStage, Window
  <2> QED BY <2>3, <2>4
<1>2. CASE StageMessage("tick")
  BY <1>2, StagingSeen
<1>3. CASE Submit("tick")
  BY <1>3, SubmitKeepsDraft DEF Submit, Seen, Unseen, PipelineStage, cycleVars, judgmentVars
<1>4. CASE Seal("tick")
  <2>1. message' = message /\ phase' = phase /\ text' = text
    BY <1>4 DEF Seal
  <2>2. Draft' = Draft
    BY <2>1 DEF Draft
  <2> QED BY <1>4, <2>2 DEF Seal, Seen, Unseen, PipelineStage, cycleVars, judgmentVars
<1>5. CASE LockTransition("tick")
  <2>1. /\ state \in Window /\ state' = "researching_m1" /\ h0Artifact' = Draft
        /\ UNCHANGED messageVars /\ UNCHANGED <<m1, qualified>>
    BY <1>5 DEF LockTransition, SerialInv, BatchInv, LockSealing, Sealing, Locking, judgmentVars
  <2> QED BY <2>1, WordsKept DEF Seen, Pipeline!Next, Pipeline!Lock, PipelineStage, Window, M2Open
<1>6. CASE \/ FreezeContext("tick") \/ AlreadyLocked("tick") \/ CommitChat("tick")
           \/ CommitPreM0("tick") \/ Take("tick") \/ LockLedger("tick")
  <2>1. UNCHANGED messageVars /\ UNCHANGED <<state, h0Artifact, m1, qualified>>
    BY <1>6 DEF FreezeContext, AlreadyLocked, CommitChat, CommitPreM0, Take, LockLedger, cycleVars,
       judgmentVars
  <2> QED BY <2>1, WordsKept DEF Seen, Unseen, PipelineStage
<1> QED BY <1>1, <1>2, <1>3, <1>4, <1>5, <1>6 DEF CommandStep

LEMMA StepSeen ==
  ASSUME CycleFacts, MaxCrashes = 0, [Next]_vars
  PROVE  Seen
<1> USE DEF CycleFacts, SerialFacts, TypeOK, cycleVars, judgmentVars, Others
<1> "tick" \in Actor /\ "http" \in Actor /\ "background" \in Actor
  BY DEF Actor
<1>1. CASE UserStep
  <2>1. ASSUME NEW command \in Commands, ReadCycle("tick", command) PROVE Seen
    BY <2>1, WordsKept DEF ReadCycle, Seen, Unseen, PipelineStage
  <2> QED BY <1>1, <2>1, WritingSeen DEF UserStep
<1>2. ASSUME NEW a \in {"tick", "http"}, CommandStep(a) PROVE Seen
  BY <1>2, OnlyTheTicker, CommandSeen
<1>3. CASE ResearchStep
  <2>1. UNCHANGED messageVars /\ UNCHANGED <<h0Artifact, m1, qualified>>
    BY <1>3 DEF ResearchStep, ResearchStart, ResearchTransition, ResearchReady, M0Ledger,
       ResearchWaiting, ResearchFailed, MarkMissed
  <2>2. \/ state' = state
        \/ /\ state \in {"queued", "researching_m0", "m0_retry_wait"}
           /\ state' \in {"researching_m0", "m0_retry_wait"}
        \/ state = "researching_m0" /\ state' = "awaiting_h0"
        \/ state \in {"queued", "researching_m0"} /\ state' \in {"failed", "missed"}
    BY <1>3 DEF ResearchStep, ResearchStart, ResearchTransition, ResearchReady, M0Ledger,
       ResearchWaiting, ResearchFailed, MarkMissed, SerialInv
  <2>3. CASE state = "researching_m0" /\ state' = "awaiting_h0"
    BY <2>1, <2>3, WordsKept DEF Seen, Pipeline!Next, Pipeline!OpenWindow, PipelineStage, Window
  <2>4. CASE state \in {"queued", "researching_m0"} /\ state' \in {"failed", "missed"}
    BY <2>1, <2>4, WordsKept DEF Seen, Pipeline!Next, Pipeline!Abort, PipelineStage, Window
  <2>5. CASE \/ state' = state
             \/ /\ state \in {"queued", "researching_m0", "m0_retry_wait"}
                /\ state' \in {"researching_m0", "m0_retry_wait"}
    BY <2>1, <2>5, WordsKept DEF Seen, Unseen, PipelineStage
  <2> QED BY <2>2, <2>3, <2>4, <2>5
<1>4. ASSUME JudgeStep PROVE Seen
  <2>1. CASE M1Ready
    <3>1. /\ state \in Waiting \cup {"judging_m1"} /\ m1 = 0 /\ m1' = 1 /\ qualified' \in BOOLEAN
          /\ state' = IF h0Artifact # {} /\ qualified' THEN "synthesizing_m2" ELSE "complete"
          /\ UNCHANGED messageVars /\ h0Artifact' = h0Artifact
      BY <2>1 DEF M1Ready, AfterM1, SerialInv, FreshInv, GroundInv, Judging, Waiting, M2Open
    <3>2. PipelineStage = "judging"
      BY <3>1 DEF PipelineStage, Waiting, Window, M2Open
    <3>3. PipelineStage' = IF h0Artifact # {} /\ qualified' THEN "synthesizing" ELSE "complete"
      BY <3>1 DEF PipelineStage, Window, M2Open
    <3>4. Draft' = Draft
      BY <3>1, WordsKept
    <3> QED BY <3>1, <3>2, <3>3, <3>4 DEF Seen, Pipeline!Next, Pipeline!Judge
  <2>2. CASE ~ M1Ready
    <3>1. UNCHANGED messageVars /\ UNCHANGED <<h0Artifact, m1, qualified>>
      BY <1>4, <2>2 DEF JudgeStep, PickUpM1, BeginM1, PrepareFails, RunRaises, JudgmentRead, JudgmentStarted,
         JudgmentFails, FailureRead, FailureRetry, FailureFinal, M1Read, M1Ledger
    <3>2. \/ state' = state
          \/ /\ state \in Waiting \cup {"judging_m1"}
             /\ state' \in {"judging_m1", "m1_retry_wait", "waiting_for_repair"}
      BY <1>4, <2>2 DEF JudgeStep, PickUpM1, BeginM1, PrepareFails, RunRaises, JudgmentRead, JudgmentStarted,
         JudgmentFails, FailureRead, FailureRetry, FailureFinal, M1Read, M1Ledger, SerialInv, Judging
    <3> QED BY <3>1, <3>2, WordsKept DEF Seen, Unseen, PipelineStage, Waiting, Window, M2Open
  <2> QED BY <2>1, <2>2
<1>5. ASSUME SynthesisStep PROVE Seen
  <2>1. UNCHANGED messageVars /\ UNCHANGED <<h0Artifact, m1, qualified>>
    BY <1>5 DEF SynthesisStep, PickUpM2, HoldM2, PassGate, M2CallFails, M2Deferred, M2Read,
       M2Ready, M2Ledger
  <2>2. \/ state' = state
        \/ state \in M2Open /\ state' \in M2Open \cup {"complete"}
    BY <1>5 DEF SynthesisStep, PickUpM2, HoldM2, PassGate, M2CallFails, M2Deferred, M2Read,
       M2Ready, M2Ledger, SerialInv, M2Open
  <2>3. CASE state \in M2Open /\ state' = "complete"
    BY <2>1, <2>3, WordsKept DEF Seen, Pipeline!Next, Pipeline!Synthesise, PipelineStage, Window, M2Open
  <2>4. CASE state' = state \/ (state \in M2Open /\ state' \in M2Open)
    BY <2>1, <2>4, WordsKept DEF Seen, Unseen, PipelineStage, Window, M2Open
  <2> QED BY <2>2, <2>3, <2>4
<1>6. CASE RunDue \/ Cognise \/ PassDeadline \/ UNCHANGED vars
  <2>1. UNCHANGED messageVars /\ UNCHANGED <<state, h0Artifact, m1, qualified>>
    BY <1>6 DEF RunDue, Cognise, PassDeadline, vars
  <2> QED BY <2>1, WordsKept DEF Seen, Unseen, PipelineStage
<1>7. ~ Crash
  BY DEF Crash
<1> QED BY <1>1, <1>2, <1>3, <1>4, <1>5, <1>6, <1>7 DEF Next

(* With the commands executed by the ticker, in a gateway that is not
   stopped, and for any messages and bounds: the many transactions of the
   cycle implement the pipeline its user was promised. *)
THEOREM CycleIsPipeline ==
  ASSUME Channels = {"tick"}, MaxCrashes = 0
  PROVE  Spec => ImplementsPipeline
<1>1. Init => Pipeline!Init
  BY DEF Init, Pipeline!Init, PipelineStage, Draft
<1>2. /\ TypeOK /\ SerialInv /\ FreshInv /\ GroundInv /\ (Uninterrupted => BatchInv) /\ [Next]_vars
      => [Pipeline!Next]_(Pipeline!vars)
  <2> SUFFICES ASSUME TypeOK, SerialInv, FreshInv, GroundInv, Uninterrupted => BatchInv, [Next]_vars
               PROVE  [Pipeline!Next]_(Pipeline!vars)
    OBVIOUS
  <2>1. Uninterrupted
    BY DEF TypeOK, Uninterrupted
  <2>2. Seen
    BY <2>1, StepSeen DEF CycleFacts, SerialFacts
  <2> QED BY <2>2 DEF Seen, Unseen, Pipeline!vars
<1> QED BY <1>1, <1>2, Grounded, Batched, PTL DEF Spec, ImplementsPipeline, Pipeline!Spec
=============================================================================
