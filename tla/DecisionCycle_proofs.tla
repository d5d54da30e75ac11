------------------------ MODULE DecisionCycle_proofs ------------------------
(* Type correctness, the words of submitted messages, the blindness of M1,  *)
(* the singleness of the formal judgments, what H0 and M2 rest on and the   *)
(* preparation of the report, for every set of messages and every bound.    *)
EXTENDS DecisionCycle, TLAPS

USE CycleConstants

(***************************************************************************)
(* Type correctness.                                                       *)
(***************************************************************************)

(* Whoever is about to try the judgment again has an attempt left.         *)
AttemptLeft == \A w \in Actor : pc[w] \in {"failRetry", "writeRetry"} => tries[w] < MaxJudgments

LEMMA RowTyped == TypeOK => Row \in Rows /\ NoRow \in Rows
BY DEF TypeOK, Row, NoRow, Rows, State

LEMMA LedgerTyped ==
  ASSUME NEW l \in [Stage -> {"pending", "running", "succeeded", "skipped", "retry_wait", "failed"}],
         NEW s \in Stage, NEW result \in {"succeeded", "skipped", "retry_wait", "failed"}
  PROVE  /\ Start(l, s) \in [Stage -> {"pending", "running", "succeeded", "skipped", "retry_wait", "failed"}]
         /\ Finish(l, s, result) \in [Stage -> {"pending", "running", "succeeded", "skipped", "retry_wait", "failed"}]
BY DEF Start, Finish

LEMMA BatchTyped == TypeOK => \A p : Batch(p) \subseteq Bodies
BY DEF TypeOK, Batch, Bodies

LEMMA Typed == Spec => [](TypeOK /\ AttemptLeft)
<1>1. Init => TypeOK /\ AttemptLeft
  <2> SUFFICES ASSUME Init PROVE TypeOK /\ AttemptLeft
    OBVIOUS
  <2>1. state \in State /\ NoRow \in Rows /\ "idle" \in Points
    BY DEF Init, State, Rows, NoRow, Points
  <2>2. AttemptLeft
    BY DEF Init, AttemptLeft
  <2>3. tries \in [Actor -> 0..MaxJudgments] /\ text \in [Msg -> 0..MaxEdits]
    BY DEF Init
  <2>4. /\ message \in [Msg -> {"absent", "staged", "submitted", "withdrawn"}]
        /\ phase \in [Msg -> {"none", "pre_m0", "h0", "chat"}]
        /\ ledger \in [Stage -> {"pending", "running", "succeeded", "skipped", "retry_wait", "failed"}]
    BY DEF Init
  <2>5. /\ pc \in [Actor -> Points] /\ row \in [Actor -> Rows]
        /\ job \in [Actor -> Commands \cup {"none", "auto", "research"}]
        /\ taken \in [Actor -> SUBSET Bodies]
    BY <2>1 DEF Init
  <2>6. h0Artifact \subseteq Bodies /\ sealed \subseteq Bodies
    BY DEF Init
  <2>7. h0Locked \in BOOLEAN /\ hasH0 \in BOOLEAN /\ qualified \in BOOLEAN
        /\ unrecorded \in BOOLEAN
    BY DEF Init
  <2>8. /\ m1 \in Nat /\ m2 \in Nat /\ clock \in 0..3
        /\ m0Waits \in 0..MaxM0 /\ m2Attempts \in 0..MaxM2 /\ crashes \in 0..MaxCrashes
    BY DEF Init
  <2>9. /\ private \in {"none", "before", "after"}
        /\ portfolio \in {"before", "after"} /\ cognition \in {"no", "due", "done"}
    BY DEF Init
  <2> QED BY <2>1, <2>2, <2>3, <2>4, <2>5, <2>6, <2>7, <2>8, <2>9 DEF TypeOK
<1>2. TypeOK /\ AttemptLeft /\ [Next]_vars => (TypeOK /\ AttemptLeft)'
  <2> SUFFICES ASSUME TypeOK, AttemptLeft, [Next]_vars PROVE (TypeOK /\ AttemptLeft)'
    OBVIOUS
  <2> USE DEF TypeOK, AttemptLeft, cycleVars, messageVars, judgmentVars, otherVars, localVars,
              Others, Goto, Idle, Handling
  <2>1. ASSUME NEW a \in Channels, NEW command \in Commands, ReadCycle(a, command)
        PROVE  (TypeOK /\ AttemptLeft)'
    BY <2>1, RowTyped DEF ReadCycle, Actor, Points
  <2>2. ASSUME NEW a \in Channels, NEW m \in Msg, EditMessage(a, m) \/ WithdrawMessage(a, m)
        PROVE  (TypeOK /\ AttemptLeft)'
    <3>1. message' \in [Msg -> {"absent", "staged", "submitted", "withdrawn"}]
      BY <2>2 DEF EditMessage, WithdrawMessage
    <3>2. text' \in [Msg -> 0..MaxEdits]
      BY <2>2 DEF EditMessage, WithdrawMessage
    <3> QED BY <2>2, <3>1, <3>2 DEF EditMessage, WithdrawMessage
  <2>3. CASE RunDue
    BY <2>3, RowTyped DEF RunDue, Actor, Points
  <2>4. ASSUME NEW a \in {"tick", "http"}, CommandStep(a) PROVE (TypeOK /\ AttemptLeft)'
    <3> USE RowTyped DEF Return, Actor, Points, Commands
    <3>1. CASE BeginGrace(a)
      BY <2>4, <3>1 DEF BeginGrace, State, Window
    <3>2. CASE InvalidateM0(a)
      BY <2>4, <3>2 DEF InvalidateM0, State, Terminal
    <3>3. CASE StageMessage(a)
      <4>1. PhaseFor(row[a]) \in {"none", "pre_m0", "h0", "chat"}
        BY DEF PhaseFor
      <4>2. /\ message' \in [Msg -> {"absent", "staged", "submitted", "withdrawn"}]
            /\ phase' \in [Msg -> {"none", "pre_m0", "h0", "chat"}]
        BY <3>3, <4>1 DEF StageMessage
      <4> QED BY <2>4, <3>3, <4>2 DEF StageMessage
    <3>4. CASE FreezeContext(a)
      BY <2>4, <3>4 DEF FreezeContext, Frozen
    <3>5. CASE AlreadyLocked(a)
      BY <2>4, <3>5 DEF AlreadyLocked, GoOn, Understand
    <3>6. CASE CommitChat(a) \/ CommitPreM0(a)
      BY <2>4, <3>6 DEF CommitChat, CommitPreM0
    <3>7. CASE Take(a)
      BY <2>4, <3>7, BatchTyped DEF Take
    <3>8. CASE Submit(a)
      BY <2>4, <3>8 DEF Submit
    <3>9. CASE Seal(a)
      <4>1. sealed' \subseteq Bodies
        BY <2>4, <3>9 DEF Seal, Bodies
      <4> QED BY <2>4, <3>9, <4>1 DEF Seal
    <3>10. CASE LockTransition(a)
      BY <2>4, <3>10 DEF LockTransition, State, Waiting
    <3>11. CASE LockLedger(a)
      BY <2>4, <3>11, LedgerTyped DEF LockLedger, GoOn, Understand, Stage
    <3> QED BY <2>4, <3>1, <3>2, <3>3, <3>4, <3>5, <3>6, <3>7, <3>8, <3>9, <3>10, <3>11
            DEF CommandStep
  <2>5. CASE ResearchStep
    <3> USE RowTyped, LedgerTyped DEF Return, Actor, Points, Stage, State
    <3>1. CASE ResearchStart
      BY <3>1 DEF ResearchStart
    <3>2. CASE ResearchTransition
      BY <3>2 DEF ResearchTransition
    <3>3. CASE ResearchReady
      BY <3>3 DEF ResearchReady, Window
    <3>4. CASE M0Ledger
      BY <3>4 DEF M0Ledger
    <3>5. CASE ResearchWaiting
      BY <3>5 DEF ResearchWaiting
    <3>6. CASE ResearchFailed \/ MarkMissed
      BY <3>6 DEF ResearchFailed, MarkMissed, Terminal
    <3> QED BY <2>5, <3>1, <3>2, <3>3, <3>4, <3>5, <3>6 DEF ResearchStep
  <2>6. ASSUME JudgeStep PROVE (TypeOK /\ AttemptLeft)'
    <3> USE RowTyped, LedgerTyped DEF Return, Actor, Points, Stage, State
    <3>1. CASE PickUpM1 \/ PrepareFails \/ JudgmentRead
      BY <3>1 DEF PickUpM1, PrepareFails, JudgmentRead
    <3>2. CASE BeginM1
      <4>1. unrecorded' \in BOOLEAN
        BY <3>2 DEF BeginM1
      <4> QED BY <3>2, <4>1 DEF BeginM1
    <3>3. CASE JudgmentStarted
      BY <3>3 DEF JudgmentStarted
    <3>4. CASE JudgmentFails
      BY <3>4 DEF JudgmentFails, MayRetry
    <3>5. CASE FailureRead
      BY <3>5 DEF FailureRead
    <3>6. CASE FailureRetry
      <4>1. state' \in State /\ ledger' \in [Stage -> {"pending", "running", "succeeded", "skipped", "retry_wait", "failed"}]
        BY <3>6 DEF FailureRetry, Waiting
      <4>2. CASE CanFinish(ledger, "m1", "retry_wait")
        BY <3>6, <4>1, <4>2 DEF FailureRetry
      <4>3. CASE ~CanFinish(ledger, "m1", "retry_wait")
        BY <3>6, <4>1, <4>3 DEF FailureRetry
      <4> QED BY <4>2, <4>3
    <3>7. CASE FailureFinal
      BY <3>7 DEF FailureFinal
    <3>8. CASE M1Read
      BY <3>8 DEF M1Read
    <3>9. CASE M1Ready
      BY <3>9 DEF M1Ready, AfterM1, M2Open, Terminal
    <3>10. CASE M1Ledger
      BY <3>10 DEF M1Ledger, Understand
    <3>11. CASE RunRaises
      <4>1. unrecorded' \in BOOLEAN
        BY <3>11 DEF RunRaises
      <4> QED BY <3>11, <4>1 DEF RunRaises
    <3> QED BY <2>6, <3>1, <3>2, <3>3, <3>4, <3>5, <3>6, <3>7, <3>8, <3>9, <3>10, <3>11 DEF JudgeStep
  <2>7. ASSUME SynthesisStep PROVE (TypeOK /\ AttemptLeft)'
    <3> USE RowTyped, LedgerTyped DEF Return, Actor, Points, Stage, State, M2Open, Terminal
    <3>1. CASE PickUpM2 \/ HoldM2 \/ M2CallFails \/ M2Read
      BY <3>1 DEF PickUpM2, HoldM2, M2CallFails, M2Read
    <3>2. CASE PassGate
      BY <3>2 DEF PassGate
    <3>3. CASE M2Deferred
      BY <3>3 DEF M2Deferred
    <3>4. CASE M2Ready \/ M2Ledger
      BY <3>4 DEF M2Ready, M2Ledger
    <3> QED BY <2>7, <3>1, <3>2, <3>3, <3>4 DEF SynthesisStep
  <2>8. CASE Cognise \/ PassDeadline
    BY <2>8 DEF Cognise, PassDeadline
  <2>9. CASE Crash
    BY <2>9, RowTyped DEF Crash, Points
  <2>10. CASE UNCHANGED vars
    BY <2>10 DEF vars
  <2> QED BY <2>1, <2>2, <2>3, <2>4, <2>5, <2>6, <2>7, <2>8, <2>9, <2>10 DEF Next, UserStep
<1> QED BY <1>1, <1>2, PTL DEF Spec

(* In every reachable state the cycle is well typed: its state is one the
   code names, and no judgment is tried more often than allowed. *)
THEOREM TypeCorrect == Spec => []TypeOK
BY Typed, PTL

(***************************************************************************)
(* The words of submitted messages.                                        *)
(***************************************************************************)

(* Whoever executes commands, in whatever order and over any stop: a message
   once submitted or withdrawn is never edited, moved or taken back. *)
THEOREM SubmittedWordsFinal == Spec => SubmittedFinal
<1>1. ASSUME TypeOK, [Next]_vars,
             NEW m \in Msg, message[m] \in {"submitted", "withdrawn"}
      PROVE  message'[m] = message[m] /\ phase'[m] = phase[m] /\ text'[m] = text[m]
  <2> USE <1>1 DEF TypeOK, messageVars
  <2>1. ASSUME NEW a \in Channels, UserStep PROVE UNCHANGED messageVars \/ \E k \in Msg :
          /\ message[k] = "staged" /\ phase' = phase
          /\ message' = [message EXCEPT ![k] = message'[k]]
          /\ text' = [text EXCEPT ![k] = text'[k]]
    BY <2>1 DEF UserStep, ReadCycle, EditMessage, WithdrawMessage, Editable
  <2>2. CASE UserStep
    BY <2>1, <2>2 DEF UserStep
  <2>3. ASSUME NEW a \in {"tick", "http"}, CommandStep(a)
        PROVE  message'[m] = message[m] /\ phase'[m] = phase[m] /\ text'[m] = text[m]
    <3>1. CASE StageMessage(a)
      BY <3>1 DEF StageMessage
    <3>2. CASE Submit(a)
      BY <3>2 DEF Submit
    <3>3. CASE ~StageMessage(a) /\ ~Submit(a)
      BY <2>3, <3>3 DEF CommandStep, BeginGrace, InvalidateM0, FreezeContext, AlreadyLocked, GoOn,
         CommitChat, CommitPreM0, Take, Seal, LockTransition, LockLedger
    <3> QED BY <3>1, <3>2, <3>3
  <2>4. CASE RunDue \/ Cognise \/ PassDeadline \/ Crash
    BY <2>4 DEF RunDue, Cognise, PassDeadline, Crash
  <2>5. CASE ResearchStep
    BY <2>5 DEF ResearchStep, ResearchStart, ResearchTransition, ResearchReady, M0Ledger,
       ResearchWaiting, ResearchFailed, MarkMissed
  <2>6. ASSUME JudgeStep PROVE UNCHANGED messageVars
    BY <2>6 DEF JudgeStep, PickUpM1, BeginM1, PrepareFails, RunRaises, JudgmentRead, JudgmentStarted,
       JudgmentFails, FailureRead, FailureRetry, FailureFinal, M1Read, M1Ready, M1Ledger
  <2>7. ASSUME SynthesisStep PROVE UNCHANGED messageVars
    BY <2>7 DEF SynthesisStep, PickUpM2, HoldM2, PassGate, M2CallFails, M2Deferred, M2Read,
       M2Ready, M2Ledger
  <2>8. CASE UNCHANGED vars
    BY <2>8 DEF vars
  <2> QED BY <1>1, <2>2, <2>3, <2>4, <2>5, <2>6, <2>7, <2>8 DEF Next
<1>2. TypeOK /\ [Next]_vars =>
        [\A m \in Msg : message[m] \in {"submitted", "withdrawn"} =>
           message'[m] = message[m] /\ phase'[m] = phase[m] /\ text'[m] = text[m]]_vars
  BY <1>1
<1> QED BY <1>2, TypeCorrect, PTL DEF Spec, SubmittedFinal

(***************************************************************************)
(* The blindness of M1.                                                    *)
(***************************************************************************)

PreLock == {"queued", "researching_m0", "m0_retry_wait", "awaiting_h0", "voice_grace",
            "failed", "missed"}

Judgment == {"m1", "judge", "start", "judging", "failFinal", "failRetry", "writeFinal",
             "writeRetry", "publish", "startM2", "skipM2",
             "gate", "m2", "defer", "m2publish", "m2ledger"}

(* Until the snapshot is taken nothing understood from H0 has been applied:
   no thread has locked, none has seen a lock, none judges.                *)
BlindInv ==
  /\ private # "after"
  /\ private = "none" =>
       /\ portfolio = "before" /\ cognition = "no" /\ ~h0Locked /\ state \in PreLock
       /\ \A a \in Actor :
            /\ ~row[a].locked
            /\ pc[a] \in {"take", "submit", "seal", "transition", "ledger"} => ~Locking(a)
            /\ pc[a] \notin Judgment

LEMMA BlindStep == TypeOK /\ BlindInv /\ [Next]_vars => BlindInv'
<1> SUFFICES ASSUME TypeOK, BlindInv, [Next]_vars PROVE BlindInv'
  OBVIOUS
<1>1. CASE private # "none"
  <2>1. private' = private
    <3> USE <1>1 DEF cycleVars, Others
    <3>1. CASE UserStep
      BY <3>1 DEF UserStep, ReadCycle, EditMessage, WithdrawMessage
    <3>2. ASSUME NEW a \in {"tick", "http"}, CommandStep(a) PROVE private' = private
      BY <3>2 DEF CommandStep, BeginGrace, InvalidateM0, StageMessage, FreezeContext, Frozen,
         AlreadyLocked, GoOn, CommitChat, CommitPreM0, Take, Submit, Seal, LockTransition, LockLedger
    <3>3. CASE ResearchStep
      BY <3>3 DEF ResearchStep, ResearchStart, ResearchTransition, ResearchReady, M0Ledger,
         ResearchWaiting, ResearchFailed, MarkMissed
    <3>4. ASSUME JudgeStep PROVE private' = private
      BY <3>4 DEF JudgeStep, PickUpM1, BeginM1, PrepareFails, RunRaises, JudgmentRead, JudgmentStarted,
         JudgmentFails, FailureRead, FailureRetry, FailureFinal, M1Read, M1Ready, M1Ledger
    <3>5. ASSUME SynthesisStep PROVE private' = private
      BY <3>5 DEF SynthesisStep, PickUpM2, HoldM2, PassGate, M2CallFails, M2Deferred, M2Read,
         M2Ready, M2Ledger
    <3> QED BY <3>1, <3>2, <3>3, <3>4, <3>5
            DEF Next, RunDue, Cognise, PassDeadline, Crash, vars
  <2> QED BY <1>1, <2>1 DEF BlindInv
<1>2. CASE private = "none"
  <2> USE <1>2 DEF BlindInv, TypeOK, cycleVars, messageVars, judgmentVars, otherVars, localVars,
          Others, Goto, Idle, Handling, Locking, PreLock, Judgment
  <2>1. ASSUME NEW a \in Channels, NEW command \in Commands, ReadCycle(a, command) PROVE BlindInv'
    BY <2>1 DEF ReadCycle, Row
  <2>2. ASSUME NEW a \in Channels, NEW m \in Msg, EditMessage(a, m) \/ WithdrawMessage(a, m)
        PROVE  BlindInv'
    BY <2>2 DEF EditMessage, WithdrawMessage
  <2>3. CASE RunDue
    BY <2>3 DEF RunDue, Row
  <2>4. ASSUME NEW a \in {"tick", "http"}, CommandStep(a) PROVE BlindInv'
    <3> a \in Actor
      BY DEF Actor
    <3> USE DEF Return, NoRow
    <3>1. CASE BeginGrace(a)
      BY <3>1 DEF BeginGrace
    <3>2. CASE InvalidateM0(a)
      BY <3>2 DEF InvalidateM0
    <3>3. CASE StageMessage(a)
      BY <3>3 DEF StageMessage
    <3>4. CASE FreezeContext(a)
      BY <3>4 DEF FreezeContext, Frozen
    <3>5. CASE AlreadyLocked(a)
      BY <3>5 DEF AlreadyLocked, GoOn
    <3>6. CASE CommitChat(a) \/ CommitPreM0(a)
      BY <3>6 DEF CommitChat, CommitPreM0
    <3>7. CASE Take(a)
      BY <3>7 DEF Take
    <3>8. CASE Submit(a)
      BY <3>8 DEF Submit
    <3>9. CASE Seal(a)
      BY <3>9 DEF Seal
    <3>10. CASE LockTransition(a) \/ LockLedger(a)
      BY <3>10 DEF LockTransition, LockLedger, GoOn
    <3> QED BY <2>4, <3>1, <3>2, <3>3, <3>4, <3>5, <3>6, <3>7, <3>8, <3>9, <3>10 DEF CommandStep
  <2>5. CASE ResearchStep
    <3> "tick" \in Actor
      BY DEF Actor
    <3> USE DEF Return, NoRow, Window
    <3>1. CASE ResearchStart \/ ResearchTransition
      BY <3>1 DEF ResearchStart, ResearchTransition
    <3>2. CASE ResearchReady
      BY <3>2 DEF ResearchReady
    <3>3. CASE M0Ledger \/ ResearchWaiting \/ ResearchFailed \/ MarkMissed
      BY <3>3 DEF M0Ledger, ResearchWaiting, ResearchFailed, MarkMissed
    <3> QED BY <2>5, <3>1, <3>2, <3>3 DEF ResearchStep
  <2>6. ASSUME JudgeStep PROVE BlindInv'
    <3> "tick" \in Actor
      BY DEF Actor
    <3>1. ~PickUpM1
      BY DEF PickUpM1, Waiting
    <3> QED BY <2>6, <3>1 DEF JudgeStep, BeginM1, PrepareFails, RunRaises, JudgmentRead, JudgmentStarted,
         JudgmentFails, FailureRead, FailureRetry, FailureFinal, M1Read, M1Ready, M1Ledger
  <2>7. ASSUME SynthesisStep PROVE BlindInv'
    <3> "background" \in Actor
      BY DEF Actor
    <3>1. ~PickUpM2
      BY DEF PickUpM2, M2Open
    <3> QED BY <2>7, <3>1 DEF SynthesisStep, HoldM2, PassGate, M2CallFails, M2Deferred, M2Read,
         M2Ready, M2Ledger
  <2>8. CASE Cognise \/ PassDeadline
    BY <2>8 DEF Cognise, PassDeadline
  <2>9. CASE Crash
    BY <2>9 DEF Crash, NoRow
  <2>10. CASE UNCHANGED vars
    BY <2>10 DEF vars
  <2> QED BY <2>1, <2>2, <2>3, <2>4, <2>5, <2>6, <2>7, <2>8, <2>9, <2>10 DEF Next, UserStep
<1> QED BY <1>1, <1>2

(* M1 never reads a portfolio that the user's H0 has already changed, and a
   locked cycle always has its snapshot: over any interleaving of the HTTP
   thread, the ticker and the cognition, and over any stop. *)
THEOREM M1IsBlind == Spec => []Blind
<1>1. Init => BlindInv
  BY DEF Init, BlindInv, PreLock, Judgment, NoRow, Locking
<1>2. TypeOK /\ BlindInv => Blind
  BY DEF TypeOK, BlindInv, Blind
<1> QED BY <1>1, <1>2, BlindStep, TypeCorrect, PTL DEF Spec

(***************************************************************************)
(* The formal judgments are single.                                        *)
(***************************************************************************)

(* Between its test and its publication a worker is alone.                 *)
SingleInv ==
  /\ SingleFormal
  /\ pc["tick"] = "publish" => m1 = 0
  /\ pc["background"] = "m2publish" => m2 = 0

LEMMA SingleStep ==
  ASSUME TypeOK, SingleInv, [Next]_vars
  PROVE  SingleInv'
<1> USE DEF SingleInv, SingleFormal, TypeOK, judgmentVars, localVars, Goto, Idle, Handling
<1> "tick" \in Actor /\ "http" \in Actor /\ "background" \in Actor
  BY DEF Actor
<1>1. CASE UserStep
  BY <1>1 DEF UserStep, ReadCycle, EditMessage, WithdrawMessage
<1>2. ASSUME NEW a \in {"tick", "http"}, CommandStep(a) PROVE SingleInv'
  <2>1. UNCHANGED <<m1, m2>>
    BY <1>2 DEF CommandStep, BeginGrace, InvalidateM0, StageMessage, FreezeContext, AlreadyLocked, GoOn,
       CommitChat, CommitPreM0, Take, Submit, Seal, LockTransition, LockLedger
  <2>2. /\ pc' = [pc EXCEPT ![a] = pc'[a]]
        /\ pc'[a] \notin {"publish", "m2publish"}
    BY <1>2 DEF CommandStep, BeginGrace, InvalidateM0, StageMessage, FreezeContext, AlreadyLocked, GoOn,
       CommitChat, CommitPreM0, Take, Submit, Seal, LockTransition, LockLedger, Return
  <2> QED BY <2>1, <2>2
<1>3. CASE ResearchStep
  BY <1>3 DEF ResearchStep, ResearchStart, ResearchTransition, ResearchReady, M0Ledger,
     ResearchWaiting, ResearchFailed, MarkMissed, Return, Others
<1>4. ASSUME JudgeStep PROVE SingleInv'
  <2>1. CASE M1Ready
    BY <2>1 DEF M1Ready
  <2>2. CASE M1Read
    BY <2>2 DEF M1Read, M1Sealed
  <2>3. CASE ~M1Ready /\ ~M1Read
    BY <1>4, <2>3 DEF JudgeStep, PickUpM1, BeginM1, PrepareFails, RunRaises, JudgmentRead, JudgmentStarted,
       JudgmentFails, FailureRead, FailureRetry, FailureFinal, M1Ledger, Return
  <2> QED BY <2>1, <2>2, <2>3
<1>5. ASSUME SynthesisStep PROVE SingleInv'
  <2>1. CASE M2Ready
    BY <2>1 DEF M2Ready
  <2>2. CASE M2Read
    BY <2>2 DEF M2Read, M2Admitted, Return
  <2>3. CASE ~M2Ready /\ ~M2Read
    BY <1>5, <2>3 DEF SynthesisStep, PickUpM2, HoldM2, PassGate, M2CallFails, M2Deferred,
       M2Ledger, Return
  <2> QED BY <2>1, <2>2, <2>3
<1>6. CASE RunDue \/ Cognise \/ PassDeadline \/ Crash \/ UNCHANGED vars
  BY <1>6 DEF RunDue, Cognise, PassDeadline, Crash, vars
<1> QED BY <1>1, <1>2, <1>3, <1>4, <1>5, <1>6 DEF Next

(* A cycle has at most one formal M1 and one formal M2, however commands
   race and the gateway stops and retries. *)
THEOREM FormalJudgmentsSingle == Spec => []SingleFormal
<1>1. Init => SingleInv
  BY DEF Init, SingleInv, SingleFormal, Actor
<1>2. TypeOK /\ SingleInv /\ [Next]_vars => SingleInv'
  BY SingleStep
<1>3. SingleInv => SingleFormal
  BY DEF SingleInv
<1> QED BY <1>1, <1>2, <1>3, TypeCorrect, PTL DEF Spec

(***************************************************************************)
(* With commands on the ticker alone, H0 and M1 are final.                 *)
(***************************************************************************)

Judging == {"judge", "start", "judging", "failFinal", "failRetry", "writeFinal",
            "writeRetry", "publish"}

(* What a thread remembers of the row still holds when it acts on it, as
   the ticker is the only one to move the cycle until M1 is published and
   the background worker the only one afterwards.                          *)
SerialInv ==
  /\ pc["http"] = "idle"
  /\ h0Locked => state \notin PreLock
  /\ m1 > 0 <=> state \in M2Open \cup {"complete"}
  /\ pc["tick"] = "handle" /\ Open(row["tick"]) => state \in Window
  /\ pc["tick"] \in {"take", "submit", "seal", "transition"} =>
       /\ Locking("tick") => state \in Window
       /\ job["tick"] = "research" => state \in {"queued", "m0_retry_wait"}
  /\ pc["tick"] = "researching" => state = "researching_m0"
  /\ pc["tick"] \in Judging => state \in Waiting \cup {"judging_m1"}
  /\ pc["background"] \in {"gate", "m2", "defer", "m2publish"} => state \in M2Open

LEMMA MonotoneM1 == TypeOK /\ [Next]_vars => m1' \in Nat /\ m1' >= m1
<1> SUFFICES ASSUME TypeOK, [Next]_vars PROVE m1' \in Nat /\ m1' >= m1
  OBVIOUS
<1> USE DEF TypeOK, judgmentVars
<1>1. CASE UserStep
  BY <1>1 DEF UserStep, ReadCycle, EditMessage, WithdrawMessage
<1>2. ASSUME NEW a \in {"tick", "http"}, CommandStep(a) PROVE m1' = m1
  BY <1>2 DEF CommandStep, BeginGrace, InvalidateM0, StageMessage, FreezeContext, AlreadyLocked, GoOn,
     CommitChat, CommitPreM0, Take, Submit, Seal, LockTransition, LockLedger
<1>3. CASE ResearchStep
  BY <1>3 DEF ResearchStep, ResearchStart, ResearchTransition, ResearchReady, M0Ledger,
     ResearchWaiting, ResearchFailed, MarkMissed
<1>4. ASSUME JudgeStep PROVE m1' = m1 \/ m1' = m1 + 1
  BY <1>4 DEF JudgeStep, PickUpM1, BeginM1, PrepareFails, RunRaises, JudgmentRead, JudgmentStarted,
     JudgmentFails, FailureRead, FailureRetry, FailureFinal, M1Read, M1Ready, M1Ledger
<1>5. ASSUME SynthesisStep PROVE m1' = m1
  BY <1>5 DEF SynthesisStep, PickUpM2, HoldM2, PassGate, M2CallFails, M2Deferred, M2Read,
     M2Ready, M2Ledger
<1> QED BY <1>1, <1>2, <1>3, <1>4, <1>5 DEF Next, RunDue, Cognise, PassDeadline, Crash, vars

LEMMA SerialStep ==
  ASSUME Channels = {"tick"}, TypeOK, SerialInv, [Next]_vars
  PROVE  /\ SerialInv'
         /\ h0Locked => h0Locked' /\ h0Artifact' = h0Artifact /\ hasH0' = hasH0 /\ state' \notin Window
         /\ state \in Terminal => state' = state
<1> DEFINE Goal ==
         /\ SerialInv'
         /\ h0Locked => h0Locked' /\ h0Artifact' = h0Artifact /\ hasH0' = hasH0 /\ state' \notin Window
         /\ state \in Terminal => state' = state
<1> SUFFICES Goal
  OBVIOUS
<1> USE DEF SerialInv, TypeOK, cycleVars, messageVars, judgmentVars, otherVars, localVars, Others,
            Goto, Idle, Handling, Locking, PreLock, Judging, Window, Waiting, M2Open, Terminal
<1> "tick" \in Actor /\ "http" \in Actor /\ "background" \in Actor
  BY DEF Actor
<1>1. CASE UserStep
  BY <1>1 DEF UserStep, ReadCycle, EditMessage, WithdrawMessage, Row, Open
<1>2. CASE RunDue
  BY <1>2 DEF RunDue, Row, Open, Due
<1>3. ASSUME NEW a \in {"tick", "http"}, CommandStep(a) PROVE Goal
  <2>1. a = "tick"
    BY <1>3 DEF CommandStep, BeginGrace, InvalidateM0, StageMessage, FreezeContext, AlreadyLocked, GoOn,
       CommitChat, CommitPreM0, Take, Submit, Seal, LockTransition, LockLedger
  <2> USE <2>1 DEF Return, NoRow, Open
  <2>2. CASE BeginGrace(a)
    BY <2>2 DEF BeginGrace
  <2>3. CASE InvalidateM0(a)
    BY <2>3 DEF InvalidateM0
  <2>4. CASE StageMessage(a)
    BY <2>4 DEF StageMessage
  <2>5. CASE FreezeContext(a)
    BY <2>5 DEF FreezeContext
  <2>6. CASE AlreadyLocked(a)
    BY <2>6 DEF AlreadyLocked, GoOn
  <2>7. CASE CommitChat(a) \/ CommitPreM0(a)
    BY <2>7 DEF CommitChat, CommitPreM0
  <2>8. CASE Take(a)
    BY <2>8 DEF Take
  <2>9. CASE Submit(a) \/ Seal(a)
    BY <2>9 DEF Submit, Seal
  <2>10. CASE LockTransition(a)
    BY <2>10 DEF LockTransition
  <2>11. CASE LockLedger(a)
    BY <2>11 DEF LockLedger, GoOn
  <2> QED BY <1>3, <2>2, <2>3, <2>4, <2>5, <2>6, <2>7, <2>8, <2>9, <2>10, <2>11 DEF CommandStep
<1>4. CASE ResearchStep
  <2> USE DEF Return, NoRow, Open
  <2>1. CASE ResearchStart
    BY <2>1 DEF ResearchStart
  <2>2. CASE ResearchTransition
    BY <2>2 DEF ResearchTransition
  <2>3. CASE ResearchReady
    BY <2>3 DEF ResearchReady
  <2>4. CASE M0Ledger \/ ResearchWaiting
    BY <2>4 DEF M0Ledger, ResearchWaiting
  <2>5. CASE ResearchFailed \/ MarkMissed
    BY <2>5 DEF ResearchFailed, MarkMissed
  <2> QED BY <1>4, <2>1, <2>2, <2>3, <2>4, <2>5 DEF ResearchStep
<1>5. ASSUME JudgeStep PROVE Goal
  <2> USE DEF Return
  <2>2. CASE PickUpM1 \/ PrepareFails \/ RunRaises \/ JudgmentRead \/ JudgmentFails
    BY <2>2 DEF PickUpM1, PrepareFails, RunRaises, JudgmentRead, JudgmentFails
  <2>3. CASE BeginM1
    BY <2>3 DEF BeginM1, AfterM1
  <2>4. CASE JudgmentStarted
    BY <2>4 DEF JudgmentStarted
  <2>5. CASE FailureRead
    BY <2>5 DEF FailureRead
  <2>6. CASE FailureRetry \/ FailureFinal
    BY <2>6 DEF FailureRetry, FailureFinal
  <2>7. CASE M1Read
    BY <2>7 DEF M1Read, M1Sealed
  <2>8. CASE M1Ready
    BY <2>8 DEF M1Ready, AfterM1
  <2>9. CASE M1Ledger
    BY <2>9 DEF M1Ledger
  <2> QED BY <1>5, <2>2, <2>3, <2>4, <2>5, <2>6, <2>7, <2>8, <2>9 DEF JudgeStep
<1>6. ASSUME SynthesisStep PROVE Goal
  <2> USE DEF Return
  <2>2. CASE PickUpM2 \/ PassGate \/ M2Read
    BY <2>2 DEF PickUpM2, PassGate, M2Read
  <2>3. CASE HoldM2 \/ M2CallFails \/ M2Deferred
    BY <2>3 DEF HoldM2, M2CallFails, M2Deferred
  <2>4. CASE M2Ready \/ M2Ledger
    BY <2>4 DEF M2Ready, M2Ledger
  <2> QED BY <1>6, <2>2, <2>3, <2>4 DEF SynthesisStep
<1>7. CASE Cognise \/ PassDeadline
  BY <1>7 DEF Cognise, PassDeadline
<1>8. CASE Crash
  BY <1>8 DEF Crash
<1>9. CASE UNCHANGED vars
  BY <1>9 DEF vars
<1> QED BY <1>1, <1>2, <1>3, <1>4, <1>5, <1>6, <1>7, <1>8, <1>9 DEF Next

LEMMA SerialInvariant ==
  ASSUME Channels = {"tick"}
  PROVE  Spec => []SerialInv
<1>1. Init => SerialInv
  BY DEF Init, SerialInv, Actor, PreLock, M2Open, Judging, Open, Window, Locking, Handling
<1>2. TypeOK /\ SerialInv /\ [Next]_vars => SerialInv'
  BY SerialStep
<1> QED BY <1>1, <1>2, TypeCorrect, PTL DEF Spec

(* With the commands executed by the ticker, a lock is never undone, changed
   or repeated, over any stop. *)
THEOREM LockedH0Final ==
  ASSUME Channels = {"tick"}
  PROVE  Spec => H0Final
<1>1. TypeOK /\ SerialInv /\ [Next]_vars =>
        [h0Locked => /\ h0Locked' /\ h0Artifact' = h0Artifact /\ hasH0' = hasH0
                     /\ state' \notin Window]_vars
  BY SerialStep
<1> QED BY <1>1, SerialInvariant, TypeCorrect, PTL DEF Spec, H0Final

(* Under the same assumptions a published M1 is never rolled back, and an
   ended cycle never moves again. *)
THEOREM PublishedM1Stays ==
  ASSUME Channels = {"tick"}
  PROVE  Spec => PublishedStays
<1>1. ASSUME TypeOK, SerialInv, [Next]_vars
      PROVE  [/\ m1 > 0 => state' \in M2Open \cup {"complete"}
              /\ state \in Terminal => state' = state]_vars
  <2>1. SerialInv' /\ (state \in Terminal => state' = state)
    BY <1>1, SerialStep
  <2>2. m1 > 0 => m1' > 0
    BY <1>1, MonotoneM1 DEF TypeOK
  <2>3. m1' > 0 => state' \in M2Open \cup {"complete"}
    BY <2>1 DEF SerialInv, M2Open
  <2> QED BY <2>1, <2>2, <2>3
<1>2. TypeOK /\ SerialInv /\ [Next]_vars =>
        [/\ m1 > 0 => state' \in M2Open \cup {"complete"}
         /\ state \in Terminal => state' = state]_vars
  BY <1>1
<1> QED BY <1>2, SerialInvariant, TypeCorrect, PTL DEF Spec, PublishedStays

(***************************************************************************)
(* Whoever executes commands: what a synthesis rests on.                   *)
(***************************************************************************)

Committing == {"submit", "seal", "transition"}

(* What is sealed was submitted, what a lock has in hand is of H0, and what *)
(* the row names is sealed.                                                *)
SealInv ==
  /\ \A e \in sealed : message[e[1]] \in {"submitted", "withdrawn"}
  /\ \A e \in h0Artifact : e \in sealed /\ phase[e[1]] = "h0"
  /\ hasH0 <=> h0Artifact # {}
  /\ \A a \in Actor : pc[a] \in Committing =>
       \A e \in taken[a] :
         /\ phase[e[1]] = PhaseOf(job[a]) /\ message[e[1]] # "absent"
         /\ pc[a] # "submit" => message[e[1]] \in {"submitted", "withdrawn"}
         /\ pc[a] = "transition" => e \in sealed

LEMMA SealCommand ==
  ASSUME TypeOK, SealInv, NEW a \in {"tick", "http"}, CommandStep(a)
  PROVE  SealInv'
<1> a \in Actor
  BY DEF Actor
<1> USE DEF SealInv, TypeOK, Bodies, Committing, cycleVars, messageVars, judgmentVars, Goto, Handling,
            Return
<1>1. CASE BeginGrace(a) \/ InvalidateM0(a)
  BY <1>1 DEF BeginGrace, InvalidateM0
<1>2. CASE StageMessage(a)
  BY <1>2 DEF StageMessage
<1>3. CASE FreezeContext(a) \/ AlreadyLocked(a)
  BY <1>3 DEF FreezeContext, AlreadyLocked, GoOn
<1>4. CASE CommitChat(a) \/ CommitPreM0(a)
  BY <1>4 DEF CommitChat, CommitPreM0
<1>5. CASE Take(a)
  <2>1. \A e \in Batch(PhaseOf(job[a])) : message[e[1]] = "staged" /\ phase[e[1]] = PhaseOf(job[a])
    BY DEF Batch
  <2>2. UNCHANGED <<sealed, message, phase, h0Artifact, hasH0>>
    BY <1>5 DEF Take
  <2>3. ASSUME NEW w \in Actor, pc'[w] \in Committing, w # a
        PROVE  pc[w] = pc'[w] /\ taken'[w] = taken[w] /\ job'[w] = job[w]
    BY <1>5, <2>3 DEF Take
  <2>4. pc'[a] \in Committing => pc'[a] = "submit" \/ taken'[a] = {}
    BY <1>5 DEF Take
  <2>5. pc'[a] \in Committing => taken'[a] = Batch(PhaseOf(job[a])) /\ job'[a] = job[a]
    BY <1>5 DEF Take
  <2> QED BY <2>1, <2>2, <2>3, <2>4, <2>5
<1>6. CASE Submit(a)
  BY <1>6 DEF Submit
<1>7. CASE Seal(a)
  BY <1>7 DEF Seal
<1>8. CASE LockTransition(a)
  <2>1. PhaseOf(job[a]) = "h0"
    BY <1>8 DEF LockTransition, Locking, PhaseOf
  <2>2. /\ h0Artifact' = taken[a] /\ hasH0' = (taken[a] # {}) /\ pc[a] = "transition"
        /\ pc' = [pc EXCEPT ![a] = "ledger"]
        /\ UNCHANGED <<sealed, message, phase, taken, job>>
    BY <1>8 DEF LockTransition
  <2> QED BY <2>1, <2>2
<1>9. CASE LockLedger(a)
  BY <1>9 DEF LockLedger, GoOn
<1> QED
  BY <1>1, <1>2, <1>3, <1>4, <1>5, <1>6, <1>7, <1>8, <1>9 DEF CommandStep

LEMMA SealStep ==
  ASSUME TypeOK, SealInv, [Next]_vars
  PROVE  SealInv'
<1> "tick" \in Actor /\ "http" \in Actor /\ "background" \in Actor
  BY DEF Actor
<1> USE DEF SealInv, TypeOK, Committing, cycleVars, messageVars, Goto, Idle, Return
<1>1. CASE UserStep
  <2>1. ASSUME NEW a \in Channels, NEW command \in Commands, ReadCycle(a, command) PROVE SealInv'
    BY <2>1 DEF ReadCycle
  <2>2. ASSUME NEW a \in Channels, NEW m \in Msg, EditMessage(a, m) PROVE SealInv'
    BY <2>2 DEF EditMessage, localVars
  <2>3. ASSUME NEW a \in Channels, NEW m \in Msg, WithdrawMessage(a, m) PROVE SealInv'
    BY <2>3 DEF WithdrawMessage, localVars
  <2> QED BY <1>1, <2>1, <2>2, <2>3 DEF UserStep
<1>2. ASSUME NEW a \in {"tick", "http"}, CommandStep(a) PROVE SealInv'
  BY <1>2, SealCommand
<1>3. CASE ResearchStep
  BY <1>3 DEF ResearchStep, ResearchStart, ResearchTransition, ResearchReady, M0Ledger,
     ResearchWaiting, ResearchFailed, MarkMissed, Others, localVars
<1>4. ASSUME JudgeStep PROVE SealInv'
  BY <1>4 DEF JudgeStep, PickUpM1, BeginM1, PrepareFails, RunRaises, JudgmentRead, JudgmentStarted,
     JudgmentFails, FailureRead, FailureRetry, FailureFinal, M1Read, M1Ready, M1Ledger, Others
<1>5. ASSUME SynthesisStep PROVE SealInv'
  BY <1>5 DEF SynthesisStep, PickUpM2, HoldM2, PassGate, M2CallFails, M2Deferred, M2Read,
     M2Ready, M2Ledger, Others
<1>6. CASE RunDue \/ Cognise \/ PassDeadline
  BY <1>6 DEF RunDue, Cognise, PassDeadline, localVars
<1>7. CASE Crash \/ UNCHANGED vars
  BY <1>7 DEF Crash, vars, localVars
<1> QED BY <1>1, <1>2, <1>3, <1>4, <1>5, <1>6, <1>7 DEF Next

(* Nobody can lose M1, or its being qualified, once M2 is under way.        *)
RestInv ==
  m2 > 0 \/ pc["background"] = "m2publish" => m1 > 0 /\ qualified /\ H0Sealed

LEMMA RestStep ==
  ASSUME TypeOK, TypeOK', SealInv, SingleInv, RestInv, [Next]_vars
  PROVE  RestInv'
<1> "tick" \in Actor /\ "http" \in Actor /\ "background" \in Actor
  BY DEF Actor
<1>1. /\ sealed \subseteq sealed'
      /\ \A e \in sealed : phase'[e[1]] = phase[e[1]]
  <2> USE DEF SealInv, cycleVars, messageVars
  <2>1. CASE UserStep
    BY <2>1 DEF UserStep, ReadCycle, EditMessage, WithdrawMessage
  <2>2. ASSUME NEW a \in {"tick", "http"}, CommandStep(a)
        PROVE  sealed \subseteq sealed' /\ \A e \in sealed : phase'[e[1]] = phase[e[1]]
    <3>1. CASE StageMessage(a)
      BY <3>1 DEF StageMessage, TypeOK, Bodies
    <3>2. CASE Seal(a)
      BY <3>2 DEF Seal
    <3> QED BY <2>2, <3>1, <3>2 DEF CommandStep, BeginGrace, InvalidateM0, FreezeContext, AlreadyLocked,
               CommitChat, CommitPreM0, Take, Submit, LockTransition, LockLedger
  <2>3. CASE ResearchStep
    BY <2>3 DEF ResearchStep, ResearchStart, ResearchTransition, ResearchReady, M0Ledger,
       ResearchWaiting, ResearchFailed, MarkMissed, Others
  <2>4. ASSUME JudgeStep PROVE UNCHANGED <<sealed, phase>>
    BY <2>4 DEF JudgeStep, PickUpM1, BeginM1, PrepareFails, RunRaises, JudgmentRead, JudgmentStarted,
       JudgmentFails, FailureRead, FailureRetry, FailureFinal, M1Read, M1Ready, M1Ledger
  <2>5. ASSUME SynthesisStep PROVE UNCHANGED <<sealed, phase>>
    BY <2>5 DEF SynthesisStep, PickUpM2, HoldM2, PassGate, M2CallFails, M2Deferred, M2Read,
       M2Ready, M2Ledger
  <2> QED BY <2>1, <2>2, <2>3, <2>4, <2>5 DEF Next, RunDue, Cognise, PassDeadline, Crash, vars
<1>2. H0Sealed => H0Sealed'
  BY <1>1 DEF H0Sealed
<1>3. CASE M1Ready
  BY <1>2, <1>3 DEF M1Ready, SingleInv, RestInv, TypeOK, Goto
<1>4. CASE M2Read
  <2>1. hasH0 => H0Sealed
    BY DEF SealInv, H0Sealed
  <2> QED BY <1>2, <1>4, <2>1 DEF M2Read, M2Admitted, RestInv, judgmentVars, TypeOK, Goto
<1>5. ASSUME UNCHANGED <<m1, qualified, m2>>, pc'["background"] = "m2publish" => pc["background"] = "m2publish"
      PROVE  RestInv'
  BY <1>2, <1>5 DEF RestInv
<1>6. CASE M2Ready
  BY <1>2, <1>6 DEF M2Ready, RestInv, TypeOK, Goto
<1> USE DEF judgmentVars, localVars, Goto, Return, TypeOK
<1>7. CASE UserStep
  BY <1>5, <1>7 DEF UserStep, ReadCycle, EditMessage, WithdrawMessage
<1>8. ASSUME NEW a \in {"tick", "http"}, CommandStep(a) PROVE RestInv'
  BY <1>5, <1>8 DEF CommandStep, BeginGrace, InvalidateM0, StageMessage, FreezeContext, AlreadyLocked, GoOn,
     CommitChat, CommitPreM0, Take, Submit, Seal, LockTransition, LockLedger
<1>9. CASE ResearchStep
  BY <1>5, <1>9 DEF ResearchStep, ResearchStart, ResearchTransition, ResearchReady, M0Ledger,
     ResearchWaiting, ResearchFailed, MarkMissed
<1>10. ASSUME JudgeStep PROVE RestInv'
  BY <1>3, <1>5, <1>10 DEF JudgeStep, PickUpM1, BeginM1, PrepareFails, RunRaises, JudgmentRead, JudgmentStarted,
     JudgmentFails, FailureRead, FailureRetry, FailureFinal, M1Read, M1Ledger
<1>11. ASSUME SynthesisStep PROVE RestInv'
  BY <1>4, <1>5, <1>6, <1>11 DEF SynthesisStep, PickUpM2, HoldM2, PassGate, M2CallFails, M2Deferred,
     M2Ledger
<1>12. CASE RunDue \/ Cognise \/ PassDeadline \/ Crash \/ UNCHANGED vars
  BY <1>5, <1>12 DEF RunDue, Cognise, PassDeadline, Crash, vars
<1> QED BY <1>7, <1>8, <1>9, <1>10, <1>11, <1>12 DEF Next

LEMMA Rested == Spec => [](TypeOK /\ SealInv /\ SingleInv /\ RestInv)
<1>1. Init => SealInv /\ SingleInv /\ RestInv
  BY DEF Init, SealInv, SingleInv, SingleFormal, RestInv, Actor, Committing
<1>2. TypeOK /\ SingleInv /\ [Next]_vars => SingleInv'
  BY SingleStep
<1>3. TypeOK /\ SealInv /\ [Next]_vars => SealInv'
  BY SealStep
<1>4. TypeOK /\ TypeOK' /\ SealInv /\ SingleInv /\ RestInv /\ [Next]_vars => RestInv'
  BY RestStep
<1> QED BY <1>1, <1>2, <1>3, <1>4, TypeCorrect, PTL DEF Spec

\* The row names an H0 artifact when it claims to have one, its words are of
\* H0 and were sealed, and what is sealed was submitted.
NamedH0 ==
  /\ hasH0 <=> h0Artifact # {}
  /\ h0Artifact \subseteq sealed
  /\ \A e \in h0Artifact : phase[e[1]] = "h0"
  /\ \A e \in sealed : message[e[1]] \in {"submitted", "withdrawn"}

(* Also when commands come over HTTP beside the ticker, and over any stop:
   the H0 a row names was sealed, and of messages that were submitted, so
   that their words are final (SubmittedWordsFinal). *)
THEOREM NamedH0IsSealed == Spec => []NamedH0
<1>1. SealInv => NamedH0
  BY DEF SealInv, NamedH0
<1> QED BY <1>1, Rested, PTL

(* A synthesis only ever rests on the one formal M1, qualified, and on a
   sealed H0: also where M2Grounded fails, as HTTP handlers reopen and lock
   a cycle again (cycle_h0_final) while it waits for its synthesis. *)
THEOREM SynthesisRestsOnBoth == Spec => [](m2 > 0 => m1 = 1 /\ qualified /\ H0Sealed)
<1>1. TypeOK /\ SingleInv /\ RestInv => (m2 > 0 => m1 = 1 /\ qualified /\ H0Sealed)
  BY DEF TypeOK, SingleInv, SingleFormal, RestInv
<1> QED BY <1>1, Rested, PTL

(***************************************************************************)
(* The report is published once, whoever executes commands.                *)
(***************************************************************************)

Before == {"queued", "researching_m0", "m0_retry_wait"}

\* The cycle has no published report yet, or never will.
Unpublished == state \in Before \cup {"missed"} \/ (state = "failed" /\ ledger["m0"] = "failed")

(* Before the report nobody has seen an open window or a lock, so that only  *)
(* the research moves the cycle; once it is published nobody researches.     *)
PrepInv ==
  /\ Unpublished =>
       /\ ~h0Locked /\ ledger["m0"] \notin {"succeeded", "skipped"}
       /\ \A a \in Actor :
            /\ row[a].state \notin Window /\ ~row[a].locked
            /\ pc[a] \in {"take", "submit", "seal", "transition", "ledger"} => ~Locking(a)
            /\ pc[a] \notin Judgment \cup {"m0ledger"}
  /\ pc["tick"] = "researching" => state = "researching_m0"
  /\ job["tick"] = "research" =>
       IF pc["tick"] \in {"take", "submit", "seal", "transition"} THEN state \in {"queued", "m0_retry_wait"}
       ELSE pc["tick"] \in {"researching", "m0ledger"}
  /\ ledger["m0"] = "failed" => state = "failed"

\* What a step does to the row until the report.
PrepStep ==
  \/ Phase' = Phase
  \/ Phase \in {"queued", "waiting"} /\ Phase' = "researching"
  \/ Phase = "researching" /\ Phase' \in {"waiting", "published"}
  \/ Phase \in {"queued", "researching"} /\ Phase' = "failed"
  \/ Phase = "queued" /\ Phase' = "missed"

Published ==
  /\ state \notin Before \cup {"missed"}
  /\ ledger["m0"] # "failed"
  /\ pc["tick"] # "researching"
  /\ job["tick"] = "research" => pc["tick"] = "m0ledger"

LEMMA PublishedKept ==
  ASSUME TypeOK, Published, [Next]_vars
  PROVE  Published'
<1> "tick" \in Actor /\ "http" \in Actor /\ "background" \in Actor
  BY DEF Actor
<1> USE DEF TypeOK, Published, Before, Goto, Idle, Handling, cycleVars, judgmentVars, otherVars, localVars,
            Others, Return
<1>1. CASE UserStep
  BY <1>1 DEF UserStep, ReadCycle, EditMessage, WithdrawMessage, Commands
<1>2. ASSUME NEW a \in {"tick", "http"}, CommandStep(a) PROVE Published'
  <2>1. state' \notin Before \cup {"missed"}
    BY <1>2 DEF CommandStep, BeginGrace, InvalidateM0, StageMessage, FreezeContext, AlreadyLocked,
       CommitChat, CommitPreM0, Take, Submit, Seal, LockTransition, LockLedger
  <2>2. ledger'["m0"] # "failed"
    <3>1. CASE LockLedger(a)
      BY <3>1 DEF LockLedger, Start, Finish, Stage
    <3> QED BY <1>2, <3>1 DEF CommandStep, BeginGrace, InvalidateM0, StageMessage, FreezeContext,
               AlreadyLocked, CommitChat, CommitPreM0, Take, Submit, Seal, LockTransition
  <2>3. /\ pc'["tick"] # "researching"
        /\ job'["tick"] = "research" => pc'["tick"] = "m0ledger"
    BY <1>2 DEF CommandStep, BeginGrace, InvalidateM0, StageMessage, FreezeContext, AlreadyLocked, GoOn,
       CommitChat, CommitPreM0, Take, Submit, Seal, LockTransition, LockLedger, Locking
  <2> QED BY <2>1, <2>2, <2>3
<1>3. CASE ResearchStep
  BY <1>3 DEF ResearchStep, ResearchStart, ResearchTransition, ResearchReady, M0Ledger,
     ResearchWaiting, ResearchFailed, MarkMissed, Start, Finish, Stage
<1>4. ASSUME JudgeStep PROVE Published'
  <2>1. state' \notin Before \cup {"missed"}
    BY <1>4 DEF JudgeStep, PickUpM1, BeginM1, PrepareFails, RunRaises, JudgmentRead, JudgmentStarted, JudgmentFails,
       FailureRead, FailureRetry, FailureFinal, M1Read, M1Ready, M1Ledger, AfterM1
  <2>2. ledger'["m0"] # "failed"
    BY <1>4 DEF JudgeStep, PickUpM1, BeginM1, PrepareFails, RunRaises, JudgmentRead, JudgmentStarted, JudgmentFails,
       FailureRead, FailureRetry, FailureFinal, M1Read, M1Ready, M1Ledger, Start, Finish, Stage
  <2>3. /\ pc'["tick"] # "researching"
        /\ job'["tick"] = "research" => pc'["tick"] = "m0ledger"
    BY <1>4 DEF JudgeStep, PickUpM1, BeginM1, PrepareFails, RunRaises, JudgmentRead, JudgmentStarted, JudgmentFails,
       FailureRead, FailureRetry, FailureFinal, M1Read, M1Ready, M1Ledger
  <2> QED BY <2>1, <2>2, <2>3
<1>5. ASSUME SynthesisStep PROVE Published'
  BY <1>5 DEF SynthesisStep, PickUpM2, HoldM2, PassGate, M2CallFails, M2Deferred, M2Read,
     M2Ready, M2Ledger, M2Open, Finish, Stage
<1>6. CASE RunDue \/ Cognise \/ PassDeadline \/ Crash \/ UNCHANGED vars
  BY <1>6 DEF RunDue, Cognise, PassDeadline, Crash, vars
<1> QED BY <1>1, <1>2, <1>3, <1>4, <1>5, <1>6 DEF Next

LEMMA UnpublishedMoves ==
  ASSUME TypeOK, PrepInv, Unpublished, [Next]_vars
  PROVE  PrepInv' /\ PrepStep
<1> "tick" \in Actor /\ "http" \in Actor /\ "background" \in Actor
  BY DEF Actor
<1> USE DEF TypeOK, PrepInv, Unpublished, Before, Goto, Idle, Handling, Locking, Judgment, Window, State, Terminal,
            cycleVars, judgmentVars, otherVars, localVars, Others, Return, NoRow
<1>0. ASSUME UNCHANGED <<state, ledger>> PROVE PrepStep
  BY <1>0 DEF PrepStep, Phase
<1>1. CASE UserStep
  BY <1>0, <1>1 DEF UserStep, ReadCycle, EditMessage, WithdrawMessage, Commands, Row
<1>2. ASSUME NEW a \in {"tick", "http"}, CommandStep(a) PROVE PrepInv' /\ PrepStep
  <2>1. CASE BeginGrace(a) \/ InvalidateM0(a)
    BY <1>0, <2>1 DEF BeginGrace, InvalidateM0, Open
  <2>2. CASE StageMessage(a) \/ CommitChat(a) \/ CommitPreM0(a)
    BY <1>0, <2>2 DEF StageMessage, CommitChat, CommitPreM0
  <2>3. CASE FreezeContext(a) \/ AlreadyLocked(a)
    BY <1>0, <2>3 DEF FreezeContext, AlreadyLocked, Open
  <2>4. CASE Take(a) \/ Submit(a) \/ Seal(a)
    BY <1>0, <2>4 DEF Take, Submit, Seal
  <2>5. CASE LockTransition(a) \/ LockLedger(a)
    BY <2>5 DEF LockTransition, LockLedger
  <2> QED BY <1>2, <2>1, <2>2, <2>3, <2>4, <2>5 DEF CommandStep
<1>3. CASE ResearchStep
  <2>1. CASE ResearchStart
    BY <1>0, <2>1 DEF ResearchStart
  <2>2. CASE ResearchTransition
    BY <2>2 DEF ResearchTransition, Start, Stage, PrepStep, Phase
  <2>3. CASE ResearchReady
    BY <2>3 DEF ResearchReady, PrepStep, Phase
  <2>4. CASE M0Ledger
    BY <2>4 DEF M0Ledger
  <2>5. CASE ResearchWaiting
    BY <2>5 DEF ResearchWaiting, Finish, Stage, PrepStep, Phase
  <2>6. CASE ResearchFailed
    BY <2>6 DEF ResearchFailed, Finish, CanFinish, Stage, PrepStep, Phase
  <2>7. CASE MarkMissed
    BY <2>7 DEF MarkMissed, PrepStep, Phase
  <2> QED BY <1>3, <2>1, <2>2, <2>3, <2>4, <2>5, <2>6, <2>7 DEF ResearchStep
<1>4. ASSUME JudgeStep PROVE PrepInv' /\ PrepStep
  <2>1. ~PickUpM1
    BY DEF PickUpM1, Waiting
  <2> QED BY <1>4, <2>1 DEF JudgeStep, BeginM1, PrepareFails, RunRaises, JudgmentRead, JudgmentStarted, JudgmentFails,
             FailureRead, FailureRetry, FailureFinal, M1Read, M1Ready, M1Ledger
<1>5. ASSUME SynthesisStep PROVE PrepInv' /\ PrepStep
  <2>1. ~PickUpM2
    BY DEF PickUpM2, M2Open
  <2> QED BY <1>5, <2>1 DEF SynthesisStep, HoldM2, PassGate, M2CallFails, M2Deferred, M2Read,
             M2Ready, M2Ledger
<1>6. CASE RunDue
  BY <1>6 DEF RunDue, Due
<1>7. CASE Cognise \/ PassDeadline \/ Crash \/ UNCHANGED vars
  BY <1>0, <1>7 DEF Cognise, PassDeadline, Crash, vars
<1> QED BY <1>1, <1>2, <1>3, <1>4, <1>5, <1>6, <1>7 DEF Next

LEMMA PhaseMoves == Spec => [](TypeOK /\ PrepInv) /\ [][PrepStep]_vars
<1>1. Init => PrepInv
  BY DEF Init, PrepInv, Window, NoRow, Locking, Judgment, Actor, Stage, Unpublished
<1>2. TypeOK /\ PrepInv /\ [Next]_vars => PrepInv' /\ PrepStep
  <2>1. PrepInv /\ ~Unpublished <=> Published
    BY DEF PrepInv, Unpublished, Published, Before
  <2>2. Published' => PrepInv' /\ ~Unpublished'
    BY DEF PrepInv, Unpublished, Published, Before
  <2>3. ~Unpublished => Phase = "published"
    BY DEF Unpublished, Before, Phase
  <2>4. ~Unpublished' => Phase' = "published"
    BY DEF Unpublished, Before, Phase
  <2> QED BY <2>1, <2>2, <2>3, <2>4, PublishedKept, UnpublishedMoves DEF PrepStep
<1>3. TypeOK /\ PrepInv /\ [Next]_vars => [PrepStep]_vars
  BY <1>2
<1> QED BY <1>1, <1>2, <1>3, TypeCorrect, PTL DEF Spec

(* No thread, over HTTP or not, and no stop takes a cycle back to its
   preparation once its report is published, or out of it when it missed its
   time or failed: the row implements Preparation. *)
THEOREM ReportPublishedOnce == Spec => ImplementsPreparation
<1> DEFINE phases == [c \in {"this"} |-> Phase]
<1>1. Init => Preparing!Init
  BY DEF Init, Phase, Preparing!Init
<1>2. [PrepStep]_vars => [Preparing!Next]_(Preparing!vars)
  <2> SUFFICES ASSUME PrepStep \/ UNCHANGED vars
               PROVE  Preparing!Next \/ UNCHANGED phases
    BY DEF Preparing!vars
  <2> DEFINE Moves(old, new) == Phase \in old /\ Phase' = new
  <2>1. ASSUME NEW old, NEW new, Moves(old, new)
        PROVE  Preparing!Becomes("this", old, new)
    BY <2>1 DEF Preparing!Becomes
  <2>2. UNCHANGED vars \/ Phase' = Phase => UNCHANGED phases
    BY DEF vars, cycleVars, judgmentVars, Phase
  <2>3. CASE Phase \in {"queued", "waiting"} /\ Phase' = "researching"
    BY <2>1, <2>3 DEF Preparing!Next, Preparing!Research
  <2>4. CASE Phase \in {"researching"} /\ Phase' = "waiting"
    BY <2>1, <2>4 DEF Preparing!Next, Preparing!Wait
  <2>5. CASE Phase \in {"researching"} /\ Phase' = "published"
    BY <2>1, <2>5 DEF Preparing!Next, Preparing!Publish
  <2>6. CASE Phase \in {"queued", "researching"} /\ Phase' = "failed"
    <3>1. Moves({"queued", "waiting", "researching"}, "failed")
      BY <2>6
    <3> QED BY <2>1, <3>1 DEF Preparing!Next, Preparing!Fail
  <2>7. CASE Phase \in {"queued"} /\ Phase' = "missed"
    BY <2>1, <2>7 DEF Preparing!Next, Preparing!Miss
  <2> QED BY <2>2, <2>3, <2>4, <2>5, <2>6, <2>7 DEF PrepStep
<1> QED BY <1>1, <1>2, PhaseMoves, PTL DEF Spec, ImplementsPreparation, Preparing!Spec
=============================================================================
