----------------------- MODULE CommandExchange_proofs -----------------------
(* For every set of commands and every bound: type correctness, conservation *)
(* of the command files, order and fate of the commands, the delivery that   *)
(* the exchange implements, and the price of a stop.                         *)
EXTENDS CommandExchange, FiniteSetTheorems, TLAPS

USE ExchangeConstants DEF Leave

(* The points at which the loop holds a command in current or in control.   *)
Holding == {"defer", "deferred", "bury", "buried", "reject", "unlink", "receipt", "report",
            "ack", "chat", "control", "controlReceipt", "controlAck"}

(* A command is held whenever the loop stands at a point that uses it.      *)
Held ==
  /\ pc \in Holding => current \in Command
  /\ pc \in {"controlReceipt", "controlAck"} => control \in Command

(***************************************************************************)
(* Type correctness.                                                       *)
(***************************************************************************)

LEMMA Typed == Spec => [](TypeOK /\ Held)
<1>1. Init => TypeOK /\ Held
  BY DEF Init, TypeOK, Held, Holding, Points
<1>2. TypeOK /\ Held /\ [Next]_vars => (TypeOK /\ Held)'
  <2> SUFFICES ASSUME TypeOK, Held, [Next]_vars PROVE (TypeOK /\ Held)'
    OBVIOUS
  <2> USE DEF TypeOK, Held, Holding, Points, desktopVars, fileVars, loopVars, storeVars, troubleVars
  <2>1. ASSUME NEW c \in Command, Reserve(c) PROVE (TypeOK /\ Held)'
    BY <2>1 DEF Reserve, Causal
  <2>2. ASSUME NEW c \in Command, Publish(c) PROVE (TypeOK /\ Held)'
    BY <2>2 DEF Publish, Causal
  <2>3. ASSUME NEW s \in Stream, DesktopStop(s) PROVE (TypeOK /\ Held)'
    BY <2>3 DEF DesktopStop
  <2>4. CASE StartScan
    BY <2>4 DEF StartScan, Recovering
  <2>5. CASE EndScan
    BY <2>5 DEF EndScan
  <2>6. CASE EndPass
    BY <2>6 DEF EndPass
  <2>7. ASSUME NEW c \in batch, Defer(c) PROVE (TypeOK /\ Held)'
    BY <2>7 DEF Defer, Enter, First, Attempts, Exhausted
  <2>8. ASSUME NEW c \in batch, Execute(c) PROVE (TypeOK /\ Held)'
    BY <2>8 DEF Execute, Enter, First, Replayed
  <2>9. ASSUME NEW c \in batch, Refuse(c) PROVE (TypeOK /\ Held)'
    BY <2>9 DEF Refuse, Enter, First
  <2>10. CASE ReturnDeferred
    BY <2>10 DEF ReturnDeferred
  <2>11. CASE ReportDeferred
    BY <2>11 DEF ReportDeferred, Tell
  <2>12. CASE RemoveBuried
    BY <2>12 DEF RemoveBuried
  <2>13. CASE ReportFailure
    BY <2>13 DEF ReportFailure, Tell
  <2>14. CASE SaveReceipt
    BY <2>14 DEF SaveReceipt
  <2>15. CASE Report
    BY <2>15 DEF Report, Tell
  <2>16. CASE Acknowledge
    BY <2>16 DEF Acknowledge
  <2>17. CASE PollControls
    BY <2>17 DEF PollControls, Recovering
  <2>18. CASE EndChat
    BY <2>18 DEF EndChat
  <2>19. ASSUME NEW c \in controls, ExecuteControl(c) PROVE (TypeOK /\ Held)'
    BY <2>19 DEF ExecuteControl, First, Replayed
  <2>20. ASSUME NEW c \in controls, RefuseControl(c) PROVE (TypeOK /\ Held)'
    BY <2>20 DEF RefuseControl
  <2>21. CASE SaveControlReceipt
    BY <2>21 DEF SaveControlReceipt
  <2>22. CASE AcknowledgeControl
    BY <2>22 DEF AcknowledgeControl
  <2>23. CASE Crash
    BY <2>23 DEF Crash
  <2>24. CASE UNCHANGED vars
    BY <2>24 DEF vars
  <2>25. CASE Reject
    BY <2>25 DEF Reject
  <2>26. CASE ReportRecovered
    BY <2>26 DEF ReportRecovered, Tell
  <2>27. ASSUME NEW c \in batch, HandlerRaises(c) PROVE (TypeOK /\ Held)'
    BY <2>27 DEF HandlerRaises, Enter, First, Fault
  <2>28. CASE LoopRaises
    BY <2>28 DEF LoopRaises, Fault
  <2>29. CASE RejectRaises
    BY <2>29 DEF RejectRaises, Fault
  <2>30. CASE ClearRaises
    BY <2>30 DEF ClearRaises, Fault
  <2>31. ASSUME NEW c \in Stop, ControlRaises(c) PROVE (TypeOK /\ Held)'
    BY <2>31 DEF ControlRaises, First, Fault
  <2>32. CASE ScanRaises
    BY <2>32 DEF ScanRaises
  <2> QED
    BY <2>1, <2>2, <2>3, <2>4, <2>5, <2>6, <2>7, <2>8, <2>9, <2>10, <2>11, <2>12,
       <2>13, <2>14, <2>15, <2>16, <2>17, <2>18, <2>19, <2>20, <2>21, <2>22, <2>23, <2>24, <2>25, <2>26,
       <2>27, <2>28, <2>29, <2>30, <2>31, <2>32
    DEF Next, RuntimeStep, DesktopStep, Raises
<1> QED
  BY <1>1, <1>2, PTL DEF Spec

(* Every reachable state is well typed: in particular the attempts counted
   for a deferred command stay below the bound that buries it. *)
THEOREM TypeCorrect == Spec => []TypeOK
  BY Typed, PTL

(***************************************************************************)
(* Conservation: the directories hold only sent commands, a number is      *)
(* reserved only for a command not yet sent, a scan starts with nothing    *)
(* claimed, and a command is removed from processing only once its         *)
(* dead-letter file is there.                                              *)
(***************************************************************************)
Located ==
  /\ pending \cup processing \cup processed \cup dead \cup quarantined \subseteq sent
  /\ batch \cup controls \subseteq sent
  /\ controls \subseteq Stop
  /\ \A c \in Command : applied[c] > 0 => c \in sent
  /\ pc \in Holding => current \in sent
  /\ pc \in {"controlReceipt", "controlAck"} => control \in sent
  /\ \A s \in Stream : writing[s] # NoCommand => writing[s] \notin sent
  /\ pc = "scan" => processing = {} /\ seen \subseteq pending
  /\ pc \in {"bury", "unlink"} => current \in dead
  /\ raised \subseteq sent
  /\ NothingLost

LEMMA Conservation == Spec => []Located
<1>1. Init => Located
  BY DEF Init, Located, Holding, NothingLost
<1>2. TypeOK /\ Held /\ Located /\ [Next]_vars => Located'
  <2> SUFFICES ASSUME TypeOK, Held, Located, [Next]_vars PROVE Located'
    OBVIOUS
  <2> USE DEF TypeOK, Held, Holding, Located, NothingLost, desktopVars, fileVars, loopVars, storeVars, troubleVars
  <2>1. ASSUME NEW c \in Command, Reserve(c) PROVE Located'
    BY <2>1 DEF Reserve, Causal
  <2>2. ASSUME NEW c \in Command, Publish(c) PROVE Located'
    BY <2>2 DEF Publish, Causal
  <2>3. ASSUME NEW s \in Stream, DesktopStop(s) PROVE Located'
    BY <2>3 DEF DesktopStop
  <2>4. CASE StartScan
    BY <2>4 DEF StartScan, Recovering
  <2>5. CASE EndScan
    BY <2>5 DEF EndScan
  <2>6. CASE EndPass
    BY <2>6 DEF EndPass
  <2>7. ASSUME NEW c \in batch, Defer(c) PROVE Located'
    BY <2>7 DEF Defer, Enter, First, Attempts, Exhausted
  <2>8. ASSUME NEW c \in batch, Execute(c) PROVE Located'
    BY <2>8 DEF Execute, Enter, First, Replayed
  <2>9. ASSUME NEW c \in batch, Refuse(c) PROVE Located'
    BY <2>9 DEF Refuse, Enter, First
  <2>10. CASE ReturnDeferred
    BY <2>10 DEF ReturnDeferred
  <2>11. CASE ReportDeferred
    BY <2>11 DEF ReportDeferred, Tell
  <2>12. CASE RemoveBuried
    BY <2>12 DEF RemoveBuried
  <2>13. CASE ReportFailure
    BY <2>13 DEF ReportFailure, Tell
  <2>14. CASE SaveReceipt
    BY <2>14 DEF SaveReceipt
  <2>15. CASE Report
    BY <2>15 DEF Report, Tell
  <2>16. CASE Acknowledge
    BY <2>16 DEF Acknowledge
  <2>17. CASE PollControls
    BY <2>17 DEF PollControls, Recovering
  <2>18. CASE EndChat
    BY <2>18 DEF EndChat
  <2>19. ASSUME NEW c \in controls, ExecuteControl(c) PROVE Located'
    BY <2>19 DEF ExecuteControl, First, Replayed
  <2>20. ASSUME NEW c \in controls, RefuseControl(c) PROVE Located'
    BY <2>20 DEF RefuseControl
  <2>21. CASE SaveControlReceipt
    BY <2>21 DEF SaveControlReceipt
  <2>22. CASE AcknowledgeControl
    BY <2>22 DEF AcknowledgeControl
  <2>23. CASE Crash
    BY <2>23 DEF Crash
  <2>24. CASE UNCHANGED vars
    BY <2>24 DEF vars
  <2>25. CASE Reject
    BY <2>25 DEF Reject
  <2>26. CASE ReportRecovered
    BY <2>26 DEF ReportRecovered, Tell
  <2>27. ASSUME NEW c \in batch, HandlerRaises(c) PROVE Located'
    BY <2>27 DEF HandlerRaises, Enter, First, Fault
  <2>28. CASE LoopRaises
    BY <2>28 DEF LoopRaises, Fault
  <2>29. CASE RejectRaises
    BY <2>29 DEF RejectRaises, Fault
  <2>30. CASE ClearRaises
    BY <2>30 DEF ClearRaises, Fault
  <2>31. ASSUME NEW c \in Stop, ControlRaises(c) PROVE Located'
    BY <2>31 DEF ControlRaises, First, Fault
  <2>32. CASE ScanRaises
    BY <2>32 DEF ScanRaises
  <2> QED
    BY <2>1, <2>2, <2>3, <2>4, <2>5, <2>6, <2>7, <2>8, <2>9, <2>10, <2>11, <2>12,
       <2>13, <2>14, <2>15, <2>16, <2>17, <2>18, <2>19, <2>20, <2>21, <2>22, <2>23, <2>24, <2>25, <2>26,
       <2>27, <2>28, <2>29, <2>30, <2>31, <2>32
    DEF Next, RuntimeStep, DesktopStep, Raises
<1> QED
  BY <1>1, <1>2, Typed, PTL DEF Spec

(* No published command file is ever lost, whichever rename or transaction
   the runtime stops after. *)
THEOREM CommandsConserved == Spec => []NothingLost
BY Conservation, PTL DEF Located

(***************************************************************************)
(* Causal order.  Settled commands stay settled and keep their sequence,   *)
(* so the check made when a command was entered holds ever after.          *)
(***************************************************************************)

(* What every step keeps: settled commands, the numbers of sent commands,
   and no first effect of a command whose predecessor is not settled. *)
Orderly ==
  /\ Settled \subseteq Settled'
  /\ \A c \in sent : sequence'[c] = sequence[c]
  /\ \A c \in Command \ Stop : applied'[c] > 0 => applied[c] > 0 \/ (c \in sent /\ Ready(c))

LEMMA StepsOrderly ==
  ASSUME TypeOK, Held, Located, [Next]_vars
  PROVE  Orderly
<1> USE DEF TypeOK, Held, Holding, Located, Orderly, Settled,
            desktopVars, fileVars, loopVars, storeVars, troubleVars
<1> QED
  <2>1. ASSUME NEW c \in Command, Reserve(c) PROVE Orderly
    BY <2>1 DEF Reserve, Causal
  <2>2. ASSUME NEW c \in Command, Publish(c) PROVE Orderly
    BY <2>2 DEF Publish
  <2>3. ASSUME NEW s \in Stream, DesktopStop(s) PROVE Orderly
    BY <2>3 DEF DesktopStop
  <2>4. CASE StartScan
    BY <2>4 DEF StartScan
  <2>5. CASE EndScan
    BY <2>5 DEF EndScan
  <2>6. CASE EndPass
    BY <2>6 DEF EndPass
  <2>7. ASSUME NEW c \in batch, Defer(c) PROVE Orderly
    BY <2>7 DEF Defer
  <2>8. ASSUME NEW c \in batch, Execute(c) PROVE Orderly
    BY <2>8 DEF Execute, Enter
  <2>9. ASSUME NEW c \in batch, Refuse(c) PROVE Orderly
    BY <2>9 DEF Refuse
  <2>10. CASE ReturnDeferred
    BY <2>10 DEF ReturnDeferred
  <2>11. CASE ReportDeferred
    BY <2>11 DEF ReportDeferred
  <2>12. CASE RemoveBuried
    BY <2>12 DEF RemoveBuried
  <2>13. CASE ReportFailure
    BY <2>13 DEF ReportFailure
  <2>14. CASE SaveReceipt
    BY <2>14 DEF SaveReceipt
  <2>15. CASE Report
    BY <2>15 DEF Report
  <2>16. CASE Acknowledge
    BY <2>16 DEF Acknowledge
  <2>17. CASE PollControls
    BY <2>17 DEF PollControls
  <2>18. CASE EndChat
    BY <2>18 DEF EndChat
  <2>19. ASSUME NEW c \in controls, ExecuteControl(c) PROVE Orderly
    BY <2>19 DEF ExecuteControl
  <2>20. ASSUME NEW c \in controls, RefuseControl(c) PROVE Orderly
    BY <2>20 DEF RefuseControl
  <2>21. CASE SaveControlReceipt
    BY <2>21 DEF SaveControlReceipt
  <2>22. CASE AcknowledgeControl
    BY <2>22 DEF AcknowledgeControl
  <2>23. CASE Crash
    BY <2>23 DEF Crash
  <2>24. CASE UNCHANGED vars
    BY <2>24 DEF vars
  <2>25. CASE Reject
    BY <2>25 DEF Reject
  <2>26. CASE ReportRecovered
    BY <2>26 DEF ReportRecovered, Tell
  <2>27. ASSUME NEW c \in batch, HandlerRaises(c) PROVE Orderly
    BY <2>27 DEF HandlerRaises, Enter, First, Fault
  <2>28. CASE LoopRaises
    BY <2>28 DEF LoopRaises, Fault
  <2>29. CASE RejectRaises
    BY <2>29 DEF RejectRaises, Fault
  <2>30. CASE ClearRaises
    BY <2>30 DEF ClearRaises, Fault
  <2>31. ASSUME NEW c \in Stop, ControlRaises(c) PROVE Orderly
    BY <2>31 DEF ControlRaises, First, Fault
  <2>32. CASE ScanRaises
    BY <2>32 DEF ScanRaises
  <2> QED
    BY <2>1, <2>2, <2>3, <2>4, <2>5, <2>6, <2>7, <2>8, <2>9, <2>10, <2>11, <2>12,
       <2>13, <2>14, <2>15, <2>16, <2>17, <2>18, <2>19, <2>20, <2>21, <2>22, <2>23, <2>24, <2>25, <2>26,
       <2>27, <2>28, <2>29, <2>30, <2>31, <2>32
    DEF Next, RuntimeStep, DesktopStep, Raises

LEMMA OrderKept ==
  ASSUME TypeOK, Located, CausalOrder, Orderly
  PROVE  CausalOrder'
<1> SUFFICES ASSUME NEW c \in Command \ Stop, applied'[c] > 0, sequence'[c] > 1
             PROVE  \E d \in Settled' \cap Within(c) : sequence'[d] + 1 = sequence'[c]
  BY DEF CausalOrder, Within
<1>1. c \in sent /\ sequence[c] = sequence'[c]
  BY DEF Located, Orderly
<1>2. PICK d \in Settled \cap Within(c) : sequence[d] + 1 = sequence[c]
  <2>1. CASE applied[c] > 0
    BY <1>1, <2>1 DEF CausalOrder
  <2>2. CASE Ready(c)
    <3>1. ~(sequence[c] <= 1)
      BY <1>1 DEF TypeOK
    <3>2. PICK d \in Settled : StreamOf[d] = StreamOf[c] /\ sequence[d] + 1 = sequence[c]
      BY <2>2, <3>1 DEF Ready
    <3> QED
      BY <3>2 DEF Within, Settled, TypeOK
  <2> QED
    BY <2>1, <2>2 DEF Orderly
<1>3. d \in sent
  BY <1>2 DEF Located, Settled
<1> QED
  BY <1>1, <1>2, <1>3 DEF Orderly

(* The consume loop never executes a command of a causal stream before its
   immediate predecessor was processed or dead-lettered. *)
THEOREM CausalOrderHolds == Spec => []CausalOrder
<1>1. Init => CausalOrder
  BY DEF Init, CausalOrder
<1>2. TypeOK /\ Held /\ Located /\ CausalOrder /\ [Next]_vars => CausalOrder'
  BY StepsOrderly, OrderKept
<1> QED
  BY <1>1, <1>2, Typed, Conservation, PTL DEF Spec

(***************************************************************************)
(* What the desktop is told.  A file is in one of pending, processing and  *)
(* processed; the loop holds the claim of the command it defers, buries or *)
(* stops; and a command told to have failed is in none of them, so that no *)
(* later scan, nor the batch at hand, can execute it again.  What is       *)
(* rejected was refused by its handler, in its turn, or a call raised.     *)
(***************************************************************************)
Failed == {c \in Command : "permanent_failure" \in told[c]}
Answered == {c \in Command : "submitted" \in told[c]}

Truthful ==
  /\ pending \cap processing = {}
  /\ processed \cap (pending \cup processing) = {}
  /\ pc = "defer" => current \in processing
  /\ controls \subseteq processing
  /\ pc \in {"controlReceipt", "controlAck"} => control \in processing \ controls
  /\ pc \in Holding => current \notin batch
  /\ pc \in {"idle", "scan"} => batch = {}
  /\ pc \notin {"control", "controlReceipt", "controlAck"} => controls = {}
  /\ pc \in {"bury", "unlink", "buried"} =>
       /\ current \in dead
       /\ current \notin pending \cup processed \cup (Answered \ raised)
  /\ pc = "reject" /\ current \in processing =>
       current \in raised \/ (current \in Fragile \ receipted /\ Ready(current))
  /\ pc = "buried" => current \notin processing
  /\ pc \in {"receipt", "report", "ack"} => current \notin Failed /\ Ready(current)
  /\ pc = "report" => current \in receipted
  /\ batch \cap Failed = {}
  /\ Failed \subseteq dead \ (pending \cup processing \cup processed \cup (Answered \ raised))
  /\ Answered \subseteq receipted \cap sent
  /\ \A c \in Answered : Ready(c)

LEMMA ReadyKept ==
  ASSUME TypeOK, Located, Orderly, NEW c \in sent, Ready(c)
  PROVE  Ready(c)'
<1>1. CASE sequence[c] <= 1
  BY <1>1 DEF Ready, Orderly
<1>2. ASSUME NEW d \in Settled, StreamOf[d] = StreamOf[c], sequence[d] + 1 = sequence[c]
      PROVE  Ready(c)'
  BY <1>2 DEF Ready, Orderly, Located, Settled
<1> QED
  BY <1>1, <1>2 DEF Ready

LEMMA Reporting == Spec => []Truthful
<1>1. Init => Truthful
  BY DEF Init, Truthful, Failed, Answered, Holding
<1>2. TypeOK /\ Held /\ Located /\ Truthful /\ [Next]_vars => Truthful'
  <2> SUFFICES ASSUME TypeOK, Held, Located, Truthful, [Next]_vars PROVE Truthful'
    OBVIOUS
  <2>0. \A c \in sent : Ready(c) => Ready(c)'
    BY ReadyKept, StepsOrderly
  <2> USE DEF TypeOK, Held, Holding, Located, Truthful, Failed, Answered,
              desktopVars, fileVars, loopVars, storeVars, troubleVars
  <2>1. ASSUME NEW c \in Command, Reserve(c) PROVE Truthful'
    BY <2>0, <2>1 DEF Reserve, Causal
  <2>2. ASSUME NEW c \in Command, Publish(c) PROVE Truthful'
    BY <2>0, <2>2 DEF Publish
  <2>3. ASSUME NEW s \in Stream, DesktopStop(s) PROVE Truthful'
    BY <2>0, <2>3 DEF DesktopStop
  <2>4. CASE StartScan
    BY <2>0, <2>4 DEF StartScan, Recovering
  <2>5. CASE EndScan
    BY <2>0, <2>5 DEF EndScan
  <2>6. CASE EndPass
    BY <2>0, <2>6 DEF EndPass
  <2>7. ASSUME NEW c \in batch, Defer(c) PROVE Truthful'
    BY <2>0, <2>7 DEF Defer, Enter
  <2>8. ASSUME NEW c \in batch, Execute(c) PROVE Truthful'
    BY <2>0, <2>8 DEF Execute, Enter, Replayed
  <2>9. ASSUME NEW c \in batch, Refuse(c) PROVE Truthful'
    BY <2>0, <2>9 DEF Refuse, Enter, Replayed
  <2>10. CASE ReturnDeferred
    BY <2>0, <2>10 DEF ReturnDeferred
  <2>11. CASE ReportDeferred
    BY <2>0, <2>11 DEF ReportDeferred, Tell
  <2>12. CASE RemoveBuried
    BY <2>0, <2>12 DEF RemoveBuried
  <2>13. CASE ReportFailure
    BY <2>0, <2>13 DEF ReportFailure, Tell
  <2>14. CASE SaveReceipt
    BY <2>0, <2>14 DEF SaveReceipt
  <2>15. CASE Report
    BY <2>0, <2>15 DEF Report, Tell
  <2>16. CASE Acknowledge
    BY <2>0, <2>16 DEF Acknowledge
  <2>17. CASE PollControls
    BY <2>0, <2>17 DEF PollControls, Recovering
  <2>18. CASE EndChat
    BY <2>0, <2>18 DEF EndChat
  <2>19. ASSUME NEW c \in controls, ExecuteControl(c) PROVE Truthful'
    BY <2>0, <2>19 DEF ExecuteControl
  <2>20. ASSUME NEW c \in controls, RefuseControl(c) PROVE Truthful'
    BY <2>0, <2>20 DEF RefuseControl
  <2>21. CASE SaveControlReceipt
    BY <2>0, <2>21 DEF SaveControlReceipt
  <2>22. CASE AcknowledgeControl
    BY <2>0, <2>22 DEF AcknowledgeControl
  <2>23. CASE Crash
    BY <2>0, <2>23 DEF Crash
  <2>24. CASE UNCHANGED vars
    BY <2>0, <2>24 DEF vars
  <2>25. CASE Reject
    BY <2>0, <2>25 DEF Reject
  <2>26. CASE ReportRecovered
    BY <2>0, <2>26 DEF ReportRecovered, Tell
  <2>27. ASSUME NEW c \in batch, HandlerRaises(c) PROVE Truthful'
    BY <2>0, <2>27 DEF HandlerRaises, Enter, First, Fault
  <2>28. CASE LoopRaises
    BY <2>0, <2>28 DEF LoopRaises, Fault
  <2>29. CASE RejectRaises
    BY <2>0, <2>29 DEF RejectRaises, Fault
  <2>30. CASE ClearRaises
    BY <2>0, <2>30 DEF ClearRaises, Fault
  <2>31. ASSUME NEW c \in Stop, ControlRaises(c) PROVE Truthful'
    BY <2>0, <2>31 DEF ControlRaises, First, Fault
  <2>32. CASE ScanRaises
    BY <2>0, <2>32 DEF ScanRaises
  <2> QED
    BY <2>1, <2>2, <2>3, <2>4, <2>5, <2>6, <2>7, <2>8, <2>9, <2>10, <2>11, <2>12,
       <2>13, <2>14, <2>15, <2>16, <2>17, <2>18, <2>19, <2>20, <2>21, <2>22, <2>23, <2>24, <2>25, <2>26,
       <2>27, <2>28, <2>29, <2>30, <2>31, <2>32
    DEF Next, RuntimeStep, DesktopStep, Raises
<1> QED
  BY <1>1, <1>2, Typed, Conservation, PTL DEF Spec

(* The desktop is told that a command was submitted only when its receipt is
   stored, and that it failed for good only when it will never be executed. *)
THEOREM ReceiptsTruthful == Spec => []ToldTheTruth
<1>1. TypeOK /\ Truthful => ToldTheTruth
  BY DEF Truthful, ToldTheTruth, Failed, Answered, TypeOK
<1> QED
  BY <1>1, Typed, Reporting, PTL

(* A command whose receipt is stored is never executed a second time. *)
THEOREM ReceiptedNeverReapplied == Spec => NoReapply
<1>1. TypeOK /\ [Next]_vars => [\A c \in receipted : applied'[c] = applied[c]]_vars
  <2> SUFFICES ASSUME TypeOK, [Next]_vars, NEW c \in receipted
               PROVE  applied'[c] = applied[c]
    BY DEF vars, storeVars
  <2>1. ASSUME NEW d \in batch, Execute(d) PROVE applied'[c] = applied[c]
    BY <2>1 DEF Execute, Replayed, TypeOK
  <2>2. ASSUME NEW d \in controls, ExecuteControl(d) PROVE applied'[c] = applied[c]
    BY <2>2 DEF ExecuteControl, Replayed, TypeOK
  <2>3. ASSUME NEW d \in batch, Defer(d) \/ Refuse(d) PROVE applied' = applied
    BY <2>3 DEF Defer, Refuse, storeVars
  <2>4. ASSUME NEW d \in controls, RefuseControl(d) PROVE applied' = applied
    BY <2>4 DEF RefuseControl, storeVars
  <2>5. CASE DesktopStep
    BY <2>5 DEF DesktopStep, Reserve, Publish, storeVars
  <2>6. CASE Crash \/ \E s \in Stream : DesktopStop(s)
    BY <2>6 DEF Crash, DesktopStop, storeVars
  <2>7. CASE UNCHANGED vars
    BY <2>7 DEF vars, storeVars
  <2>8. CASE StartScan \/ EndScan \/ EndPass \/ PollControls \/ EndChat
    BY <2>8 DEF StartScan, EndScan, EndPass, PollControls, EndChat, storeVars
  <2>9. CASE ReturnDeferred \/ ReportDeferred \/ RemoveBuried \/ ReportFailure
    BY <2>9 DEF ReturnDeferred, ReportDeferred, RemoveBuried, ReportFailure, storeVars
  <2>10. CASE SaveReceipt \/ ReportRecovered \/ Report \/ Acknowledge \/ Reject
    BY <2>10 DEF SaveReceipt, ReportRecovered, Report, Acknowledge, Reject, storeVars
  <2>11. CASE SaveControlReceipt \/ AcknowledgeControl
    BY <2>11 DEF SaveControlReceipt, AcknowledgeControl, storeVars
  <2>12. CASE Raises
    BY <2>12 DEF Raises, HandlerRaises, LoopRaises, RejectRaises, ClearRaises, ControlRaises,
       ScanRaises, storeVars
  <2> QED
    BY <2>1, <2>2, <2>3, <2>4, <2>5, <2>6, <2>7, <2>8, <2>9, <2>10, <2>11, <2>12
    DEF Next, RuntimeStep
<1> QED
  BY <1>1, Typed, PTL DEF Spec, NoReapply

(***************************************************************************)
(* Numbering of the streams: a number is given once and in order, and      *)
(* while the desktop never stopped in between, none is missing.            *)
(***************************************************************************)
Numbered ==
  /\ \A s \in Stream : writing[s] # NoCommand =>
       /\ StreamOf[writing[s]] = s
       /\ sequence[writing[s]] > 0 /\ sequence[writing[s]] + 1 = nextSequence[s]
  /\ \A c \in Command : sequence[c] > 0 =>
       /\ Causal(c) /\ sequence[c] < nextSequence[StreamOf[c]]
       /\ c \in sent \/ writing[StreamOf[c]] = c
  /\ \A c \in sent : Causal(c) => sequence[c] > 0
  /\ \A c, d \in Command :
       StreamOf[c] = StreamOf[d] /\ sequence[c] > 0 /\ sequence[c] = sequence[d] => c = d
  /\ gaps = 0 => \A s \in Stream : \A n \in Nat \ {0} : n < nextSequence[s] =>
       \E d \in Command : StreamOf[d] = s /\ sequence[d] = n

LEMMA Numbering == Spec => []Numbered
<1>1. Init => Numbered
  BY DEF Init, Numbered, Causal
<1>2. TypeOK /\ Located /\ Numbered /\ [Next]_vars => Numbered'
  <2> SUFFICES ASSUME TypeOK, Located, Numbered, [Next]_vars PROVE Numbered'
    OBVIOUS
  <2> USE DEF desktopVars
  <2>1. ASSUME NEW c \in Command, Reserve(c) PROVE Numbered'
    <3> DEFINE s == StreamOf[c]
               n == nextSequence[s]
    <3>1. /\ s \in Stream /\ n \in Nat \ {0} /\ c \notin sent /\ writing[s] = NoCommand
          /\ sequence' = [sequence EXCEPT ![c] = n]
          /\ nextSequence' = [nextSequence EXCEPT ![s] = n + 1]
          /\ writing' = [writing EXCEPT ![s] = c]
          /\ sent' = sent /\ gaps' = gaps
      BY <2>1 DEF Reserve, Causal, TypeOK
    <3>2. /\ sequence'[c] = n /\ \A d \in Command \ {c} : sequence'[d] = sequence[d]
          /\ nextSequence'[s] = n + 1
          /\ \A z \in Stream \ {s} : nextSequence'[z] = nextSequence[z]
          /\ writing'[s] = c /\ \A z \in Stream \ {s} : writing'[z] = writing[z]
      BY <3>1 DEF TypeOK
    <3>3. sequence[c] = 0
      BY <3>1 DEF Numbered, TypeOK
    <3>4. \A d \in Command : StreamOf[d] = s => sequence[d] \in Nat /\ sequence[d] < n
      BY <3>1 DEF Numbered, TypeOK
    <3> HIDE DEF n
    <3>5. \A z \in Stream : writing'[z] # NoCommand =>
            /\ StreamOf[writing'[z]] = z
            /\ sequence'[writing'[z]] > 0 /\ sequence'[writing'[z]] + 1 = nextSequence'[z]
      <4> TAKE z \in Stream
      <4>1. CASE z = s
        BY <3>1, <3>2, <4>1
      <4>2. CASE z # s
        BY <3>1, <3>2, <4>2 DEF Numbered, TypeOK
      <4> QED BY <4>1, <4>2
    <3>6. \A d \in Command : sequence'[d] > 0 =>
            /\ Causal(d) /\ sequence'[d] < nextSequence'[StreamOf[d]]
            /\ d \in sent \/ writing'[StreamOf[d]] = d
      <4> TAKE d \in Command
      <4>1. CASE d = c
        BY <3>1, <3>2, <4>1 DEF Causal
      <4>2. CASE d # c
        BY <3>1, <3>2, <3>4, <4>2 DEF Numbered, TypeOK, Causal
      <4> QED BY <4>1, <4>2
    <3>7. \A d \in sent : Causal(d) => sequence'[d] > 0
      BY <3>1, <3>2 DEF Numbered, TypeOK
    <3>8. \A d, e \in Command :
            StreamOf[d] = StreamOf[e] /\ sequence'[d] > 0 /\ sequence'[d] = sequence'[e] => d = e
      BY <3>1, <3>2, <3>4 DEF Numbered, TypeOK
    <3>9. ASSUME gaps = 0, NEW z \in Stream, NEW k \in Nat \ {0}, k < nextSequence'[z]
          PROVE  \E d \in Command : StreamOf[d] = z /\ sequence'[d] = k
      <4>1. CASE z = s /\ k = n
        BY <3>2, <4>1
      <4>2. CASE ~(z = s /\ k = n)
        <5>1. k < nextSequence[z]
          BY <3>1, <3>2, <3>9, <4>2 DEF n
        <5>2. PICK d \in Command : StreamOf[d] = z /\ sequence[d] = k
          BY <3>9, <5>1 DEF Numbered
        <5>3. d # c
          BY <3>3, <5>2
        <5> QED BY <3>2, <5>2, <5>3
      <4> QED BY <4>1, <4>2
    <3> QED BY <3>1, <3>5, <3>6, <3>7, <3>8, <3>9 DEF Numbered, Causal
  <2>2. ASSUME NEW c \in Command, Publish(c) PROVE Numbered'
    <3>1. /\ sent' = sent \cup {c} /\ UNCHANGED <<sequence, nextSequence, gaps>>
          /\ writing' = [s \in Stream |-> IF writing[s] = c THEN NoCommand ELSE writing[s]]
          /\ Causal(c) => writing[StreamOf[c]] = c
      BY <2>2 DEF Publish
    <3>2. Causal(c) => sequence[c] > 0
      BY <3>1 DEF Numbered, Causal, TypeOK
    <3>3. \A s \in Stream : writing'[s] # NoCommand => writing'[s] = writing[s]
      BY <3>1
    <3>4. \A d \in Command : sequence[d] > 0 => d \in sent' \/ writing'[StreamOf[d]] = d
      BY <3>1 DEF Numbered, Causal
    <3> QED BY <3>1, <3>2, <3>3, <3>4 DEF Numbered, Causal, TypeOK
  <2>3. ASSUME NEW s \in Stream, DesktopStop(s) PROVE Numbered'
    BY <2>3 DEF DesktopStop, Causal, TypeOK, Located, Numbered
  <2>4. CASE UNCHANGED desktopVars
    BY <2>4 DEF Numbered, Causal
  <2>5. CASE RuntimeStep
    BY <2>4, <2>5 DEF RuntimeStep, StartScan, EndScan, EndPass, Defer, Execute, Refuse,
       ReturnDeferred, ReportDeferred, RemoveBuried, ReportFailure, SaveReceipt,
       ReportRecovered, Report, Reject, Acknowledge, PollControls, EndChat, ExecuteControl, RefuseControl,
       SaveControlReceipt, AcknowledgeControl
  <2>6. CASE Raises
    BY <2>4, <2>6 DEF Raises, HandlerRaises, LoopRaises, RejectRaises, ClearRaises, ControlRaises,
       ScanRaises
  <2> QED
    BY <2>1, <2>2, <2>3, <2>4, <2>5, <2>6 DEF Next, DesktopStep, Crash, vars
<1> QED
  BY <1>1, <1>2, Typed, Conservation, PTL DEF Spec

\* The commands of the stream of c with smaller numbers.
Below(c) == {d \in Within(c) : 0 < sequence[d] /\ sequence[d] < sequence[c]}

LEMMA BelowSent ==
  ASSUME TypeOK, Located, Numbered, NEW c \in sent
  PROVE  Below(c) \subseteq sent
BY DEF Below, Within, TypeOK, Numbered, Located, Causal

\* Numbers of sent commands stay; others are given last or taken back.
LEMMA NumbersMove ==
  ASSUME TypeOK, Located, Numbered, [Next]_vars, NEW c \in Command
  PROVE  \/ sequence'[c] = sequence[c]
         \/ c \notin sent /\ sequence'[c] = 0
         \/ c \notin sent /\ Causal(c) /\ sequence'[c] = nextSequence[StreamOf[c]]
<1> USE DEF TypeOK, desktopVars
<1>1. ASSUME NEW d \in Command, Reserve(d)
      PROVE  \/ sequence'[c] = sequence[c]
             \/ c \notin sent /\ Causal(c) /\ sequence'[c] = nextSequence[StreamOf[c]]
  BY <1>1 DEF Reserve
<1>2. ASSUME NEW s \in Stream, DesktopStop(s)
      PROVE  sequence'[c] = sequence[c] \/ (c \notin sent /\ sequence'[c] = 0)
  BY <1>2 DEF DesktopStop, Located
<1>3. CASE UNCHANGED sequence
  BY <1>3
<1>4. CASE RuntimeStep
  BY <1>3, <1>4 DEF RuntimeStep, StartScan, EndScan, EndPass, Defer, Execute, Refuse,
     ReturnDeferred, ReportDeferred, RemoveBuried, ReportFailure, SaveReceipt,
     ReportRecovered, Report, Reject, Acknowledge, PollControls, EndChat, ExecuteControl, RefuseControl,
     SaveControlReceipt, AcknowledgeControl
<1>5. CASE Raises
  BY <1>3, <1>5 DEF Raises, HandlerRaises, LoopRaises, RejectRaises, ClearRaises, ControlRaises,
     ScanRaises
<1> QED
  BY <1>1, <1>2, <1>3, <1>4, <1>5 DEF Next, DesktopStep, Publish, Crash, vars

LEMMA BelowKept ==
  ASSUME TypeOK, Located, Numbered, [Next]_vars, NEW c \in sent
  PROVE  Below(c)' = Below(c) /\ \A d \in Below(c) : sequence'[d] = sequence[d]
<1>1. c \in Command /\ sequence'[c] = sequence[c]
  BY NumbersMove DEF TypeOK, Located, Numbered
<1>2. Below(c) \subseteq sent
  BY BelowSent
<1>3. ASSUME NEW d \in Command PROVE d \in Below(c)' <=> d \in Below(c)
  <2>1. CASE sequence'[d] = sequence[d]
    BY <1>1, <2>1 DEF Below, Within
  <2>2. CASE d \notin sent /\ sequence'[d] = 0
    BY <1>1, <1>2, <2>2 DEF Below, Within
  <2>3. CASE d \notin sent /\ Causal(d) /\ sequence'[d] = nextSequence[StreamOf[d]]
    <3>1. d \notin Below(c)
      BY <1>2, <2>3
    <3>2. d \in Below(c)' => FALSE
      BY <1>1, <2>3 DEF Below, Within, TypeOK, Numbered, Causal
    <3> QED BY <3>1, <3>2
  <2> QED BY <2>1, <2>2, <2>3, NumbersMove
<1>4. \A d \in Below(c) : sequence'[d] = sequence[d]
  BY <1>2, NumbersMove DEF TypeOK
<1> QED BY <1>3, <1>4 DEF Below, Within

\* The first of a batch that holds its whole unsettled past is ready.
LEMMA FirstIsReady ==
  ASSUME TypeOK, Numbered, gaps = 0, NEW c \in Command, First(c, batch),
         Below(c) \subseteq batch \cup Settled
  PROVE  Ready(c)
<1>1. CASE sequence[c] <= 1
  BY <1>1 DEF Ready
<1>2. CASE sequence[c] > 1
  <2>1. Causal(c) /\ sequence[c] - 1 \in Nat \ {0} /\ sequence[c] - 1 < nextSequence[StreamOf[c]]
    BY <1>2 DEF TypeOK, Numbered, Causal
  <2>2. PICK d \in Command : StreamOf[d] = StreamOf[c] /\ sequence[d] = sequence[c] - 1
    <3>1. \A s \in Stream : \A n \in Nat \ {0} : n < nextSequence[s] =>
            \E d \in Command : StreamOf[d] = s /\ sequence[d] = n
      BY DEF Numbered
    <3> QED BY <2>1, <3>1 DEF Causal
  <2>3. sequence[d] + 1 = sequence[c] /\ sequence[d] < sequence[c] /\ d \in Below(c)
    BY <2>1, <2>2 DEF TypeOK, Below, Within
  <2>4. Before(d, c)
    BY <2>1, <2>2, <2>3 DEF Before, Causal
  <2>5. d \in Settled
    BY <2>3, <2>4 DEF First
  <2> QED BY <2>2, <2>3, <2>5 DEF Ready
<1> QED BY <1>1, <1>2 DEF TypeOK

(***************************************************************************)
(* A pass of the loop.  Until a conversation polls, every command of the   *)
(* batch is in processing; afterwards none of them is, but for stop        *)
(* commands that a failing one left.                                       *)
(***************************************************************************)
Doing == IF pc \in {"reject", "receipt", "report", "ack"} THEN {current} ELSE {}
Work == batch \cup Doing
Claimed == Work \cup (IF pc \in {"defer", "bury"} THEN {current} ELSE {})
Controlling == {"control", "controlReceipt", "controlAck"}

Claims ==
  /\ pc \in Controlling =>
       processing \subseteq controls \cup (IF pc = "control" THEN {} ELSE {control})
  /\ pc \notin Controlling => Claimed \subseteq processing \/ Claimed \cap processing \subseteq Abandoned

LEMMA Claiming == Spec => []Claims
<1>1. Init => Claims
  BY DEF Init, Claims, Work, Doing, Controlling
<1>2. TypeOK /\ Held /\ Located /\ Truthful /\ Claims /\ [Next]_vars => Claims'
  <2> SUFFICES ASSUME TypeOK, Held, Located, Truthful, Claims, [Next]_vars PROVE Claims'
    OBVIOUS
  <2>0. raised \subseteq raised' => Abandoned \subseteq Abandoned'
    BY DEF Abandoned
  <2> USE DEF TypeOK, Held, Holding, Located, Truthful, Claims, Claimed, Work, Doing, Controlling,
              Points, desktopVars, fileVars, loopVars, storeVars, troubleVars
  <2>1. ASSUME NEW c \in Command, Reserve(c) PROVE Claims'
    BY <2>0, <2>1 DEF Reserve, Causal
  <2>2. ASSUME NEW c \in Command, Publish(c) PROVE Claims'
    BY <2>0, <2>2 DEF Publish, Causal
  <2>3. ASSUME NEW s \in Stream, DesktopStop(s) PROVE Claims'
    BY <2>0, <2>3 DEF DesktopStop
  <2>4. CASE StartScan
    BY <2>0, <2>4 DEF StartScan, Recovering
  <2>5. CASE EndScan
    BY <2>0, <2>5 DEF EndScan
  <2>6. CASE EndPass
    BY <2>0, <2>6 DEF EndPass
  <2>7. ASSUME NEW c \in batch, Defer(c) PROVE Claims'
    BY <2>0, <2>7 DEF Defer, Enter, First, Attempts, Exhausted
  <2>8. ASSUME NEW c \in batch, Execute(c) PROVE Claims'
    BY <2>0, <2>8 DEF Execute, Enter, First, Replayed
  <2>9. ASSUME NEW c \in batch, Refuse(c) PROVE Claims'
    BY <2>0, <2>9 DEF Refuse, Enter, First
  <2>10. CASE ReturnDeferred
    BY <2>0, <2>10 DEF ReturnDeferred
  <2>11. CASE ReportDeferred
    BY <2>0, <2>11 DEF ReportDeferred, Tell
  <2>12. CASE RemoveBuried
    BY <2>0, <2>12 DEF RemoveBuried
  <2>13. CASE ReportFailure
    BY <2>0, <2>13 DEF ReportFailure, Tell
  <2>14. CASE SaveReceipt
    BY <2>0, <2>14 DEF SaveReceipt
  <2>15. CASE Report
    BY <2>0, <2>15 DEF Report, Tell
  <2>16. CASE Acknowledge
    BY <2>0, <2>16 DEF Acknowledge
  <2>17. CASE PollControls
    BY <2>0, <2>17 DEF PollControls, Recovering
  <2>18. CASE EndChat
    BY <2>0, <2>18 DEF EndChat
  <2>19. ASSUME NEW c \in controls, ExecuteControl(c) PROVE Claims'
    BY <2>0, <2>19 DEF ExecuteControl, First, Replayed
  <2>20. ASSUME NEW c \in controls, RefuseControl(c) PROVE Claims'
    BY <2>0, <2>20 DEF RefuseControl, First, Abandoned
  <2>21. CASE SaveControlReceipt
    BY <2>0, <2>21 DEF SaveControlReceipt
  <2>22. CASE AcknowledgeControl
    BY <2>0, <2>22 DEF AcknowledgeControl
  <2>23. CASE Crash
    BY <2>0, <2>23 DEF Crash
  <2>24. CASE UNCHANGED vars
    BY <2>0, <2>24 DEF vars
  <2>25. CASE Reject
    BY <2>0, <2>25 DEF Reject
  <2>26. CASE ReportRecovered
    BY <2>0, <2>26 DEF ReportRecovered, Tell
  <2>27. ASSUME NEW c \in batch, HandlerRaises(c) PROVE Claims'
    BY <2>0, <2>27 DEF HandlerRaises, Enter, First, Fault
  <2>28. CASE LoopRaises
    BY <2>0, <2>28 DEF LoopRaises, Fault
  <2>29. CASE RejectRaises
    BY <2>0, <2>29 DEF RejectRaises, Fault
  <2>30. CASE ClearRaises
    BY <2>0, <2>30 DEF ClearRaises, Fault
  <2>31. ASSUME NEW c \in Stop, ControlRaises(c) PROVE Claims'
    BY <2>0, <2>31 DEF ControlRaises, First, Fault, Abandoned
  <2>32. CASE ScanRaises
    BY <2>0, <2>32 DEF ScanRaises
  <2> QED
    BY <2>1, <2>2, <2>3, <2>4, <2>5, <2>6, <2>7, <2>8, <2>9, <2>10, <2>11, <2>12,
       <2>13, <2>14, <2>15, <2>16, <2>17, <2>18, <2>19, <2>20, <2>21, <2>22, <2>23, <2>24, <2>25, <2>26,
       <2>27, <2>28, <2>29, <2>30, <2>31, <2>32
    DEF Next, RuntimeStep, DesktopStep, Raises
<1> QED
  BY <1>1, <1>2, Typed, Conservation, Reporting, PTL DEF Spec

(***************************************************************************)
(* While no number is missing, a command that was deferred once is in a    *)
(* later batch together with its unsettled past: the scan that claims it   *)
(* has seen what was sent before it.                                       *)
(***************************************************************************)
Whole == gaps = 0 /\ quarantined = {}

\* The commands that cannot blame another: nothing raised at them or before.
Blameless == Command \ (Abandoned \cup Afflicted)

Raced ==
  /\ \A c \in Command : retries[c] > 0 => c \in sent
  /\ Whole /\ pc = "scan" =>
       \A c \in Command : retries[c] > 0 => Below(c) \subseteq seen \cup Settled
  /\ Whole /\ pc \notin Controlling /\ Work \subseteq processing =>
       \A c \in batch \cap Blameless : retries[c] > 0 => Below(c) \subseteq Work \cup Settled
  /\ Whole => dead \cap Blameless \subseteq Fragile

\* A history is never forgotten, and it blames on for ever.
LEMMA BlameKept ==
  ASSUME TypeOK, Held, Located, Numbered, [Next]_vars
  PROVE  /\ raised \subseteq raised' /\ Abandoned \subseteq Abandoned'
         /\ Abandoned' \cap Blameless' = {}
         /\ \A c \in sent : c \in Blameless' =>
              c \in Blameless /\ c \notin raised' /\ Below(c) \cap raised' = {}
<1>1. raised \subseteq raised'
  <2> USE DEF troubleVars
  <2>1. CASE Raises
    BY <2>1 DEF Raises, HandlerRaises, LoopRaises, RejectRaises, ClearRaises, ControlRaises,
       ScanRaises, Fault
  <2>2. CASE RuntimeStep
    BY <2>2 DEF RuntimeStep, StartScan, EndScan, EndPass, Defer, Execute, Refuse, Reject,
       ReturnDeferred, ReportDeferred, RemoveBuried, ReportFailure, SaveReceipt,
       ReportRecovered, Report, Acknowledge, PollControls, EndChat, ExecuteControl,
       RefuseControl, SaveControlReceipt, AcknowledgeControl
  <2>3. CASE DesktopStep \/ Crash \/ UNCHANGED vars \/ \E s \in Stream : DesktopStop(s)
    BY <2>3 DEF DesktopStep, Reserve, Publish, Crash, DesktopStop, vars
  <2> QED BY <2>1, <2>2, <2>3 DEF Next
<1>2. Abandoned \subseteq Abandoned'
  BY <1>1 DEF Abandoned
<1>3. Abandoned' \cap Blameless' = {}
  BY DEF Blameless
<1>4. ASSUME NEW c \in sent, c \in Blameless'
      PROVE  c \in Blameless /\ c \notin raised' /\ Below(c) \cap raised' = {}
  <2>1. c \in Command /\ sequence'[c] = sequence[c]
    BY NumbersMove DEF TypeOK, Located, Numbered
  <2>2. c \notin raised' /\ \A d \in raised' : ~(d \in Within(c)' /\ sequence'[d] < sequence'[c])
    BY <1>4 DEF Blameless, Afflicted
  <2>3. Below(c) \cap raised' = {}
    BY <2>1, <2>2, BelowKept DEF Below, Within
  <2>4. c \notin Afflicted
    <3> SUFFICES ASSUME NEW d \in raised, d \in Within(c), sequence[d] < sequence[c] PROVE FALSE
      BY <1>1, <2>1, <2>2 DEF Afflicted
    <3>1. d \in sent /\ d \in Command
      BY DEF Located, TypeOK
    <3>2. sequence'[d] = sequence[d]
      BY <3>1, NumbersMove DEF TypeOK
    <3> QED BY <1>1, <2>1, <2>2, <3>2 DEF Within
  <2> QED BY <1>2, <1>4, <2>1, <2>2, <2>3, <2>4 DEF Blameless
<1> QED BY <1>1, <1>2, <1>3, <1>4

LEMMA DeferredFirst ==
  ASSUME TypeOK, Located, Numbered, Raced, Whole, pc = "next", Work \subseteq processing,
         NEW c \in batch, First(c, batch), ~Ready(c)
  PROVE  \A e \in batch \cap Blameless : retries[e] > 0 => c # e /\ c \notin Below(e)
<1>1. Work = batch /\ batch \subseteq Command /\ "next" \notin Controlling
  BY DEF Work, Doing, Controlling, TypeOK
<1> SUFFICES ASSUME NEW e \in batch \cap Blameless, retries[e] > 0, c = e \/ c \in Below(e)
             PROVE  FALSE
  OBVIOUS
<1>2. Below(e) \subseteq batch \cup Settled
  BY <1>1 DEF Raced
<1>3. Below(c) \subseteq Below(e)
  BY <1>1 DEF Below, Within, TypeOK
<1> QED BY <1>1, <1>2, <1>3, FirstIsReady DEF Whole

LEMMA RacedStep ==
  ASSUME MaxRetries > 1, TypeOK, Held, Located, Truthful, Claims, Numbered, Raced, [Next]_vars
  PROVE  Raced'
<1>1. Settled \subseteq Settled' /\ sent \subseteq Command
  BY StepsOrderly DEF Orderly, TypeOK
<1>2. \A c \in sent : Below(c)' = Below(c) /\ Below(c) \subseteq sent
  BY BelowKept, BelowSent
<1>3. sent \subseteq pending \cup processing \cup Settled \cup quarantined
  BY DEF Located, NothingLost, Settled
<1>4. /\ Abandoned \subseteq Abandoned' /\ Abandoned' \cap Blameless' = {}
      /\ \A c \in sent : c \in Blameless' =>
           c \in Blameless /\ c \notin raised' /\ Below(c) \cap raised' = {}
  BY BlameKept
<1> USE DEF TypeOK, Held, Holding, Located, Truthful, Claims, Claimed, Raced, Whole, Work, Doing,
            Controlling, Points, desktopVars, fileVars, loopVars, storeVars, troubleVars
<1> QED
  <2>1. ASSUME NEW c \in Command, Reserve(c) PROVE Raced'
    BY <1>1, <1>2, <1>4, <2>1 DEF Reserve, Causal
  <2>2. ASSUME NEW c \in Command, Publish(c) PROVE Raced'
    BY <1>1, <1>2, <1>4, <2>2 DEF Publish, Causal
  <2>3. ASSUME NEW s \in Stream, DesktopStop(s) PROVE Raced'
    BY <1>1, <1>2, <1>4, <2>3 DEF DesktopStop
  <2>4. CASE StartScan
    BY <1>1, <1>2, <1>4, <1>3, <2>4 DEF StartScan, Recovering
  <2>5. CASE EndScan
    BY <1>1, <1>2, <1>4, <2>5 DEF EndScan
  <2>6. CASE EndPass
    BY <1>1, <1>2, <1>4, <2>6 DEF EndPass
  <2>7. ASSUME NEW c \in batch, Defer(c) PROVE Raced'
    <3>1. /\ c \in Command /\ First(c, batch) /\ ~Ready(c) /\ pc = "next" /\ batch' = batch \ {c}
          /\ current' = c
          /\ UNCHANGED <<desktopVars, processing, quarantined, raised>>
      BY <2>7 DEF Defer, Enter
    <3>2. Whole /\ Work \subseteq processing =>
            \A e \in batch \cap Blameless : retries[e] > 0 => c # e /\ c \notin Below(e)
      BY <3>1, DeferredFirst
    <3>3. CASE c \notin processing /\ pc' = "reject" /\ UNCHANGED <<dead, retries>>
      BY <1>1, <1>2, <1>4, <3>1, <3>3
    <3>4. CASE /\ c \in processing /\ Exhausted(Attempts(c)) /\ dead' = dead \cup {c}
               /\ pc' = "bury" /\ UNCHANGED retries
      <4>1. Whole => c \notin Blameless'
        BY <1>4, <3>1, <3>2, <3>4 DEF Exhausted, Attempts
      <4> QED BY <1>1, <1>2, <1>4, <3>1, <3>2, <3>4, <4>1
    <3>5. CASE /\ c \in processing /\ retries' = [retries EXCEPT ![c] = Attempts(c)]
               /\ pc' = "defer" /\ UNCHANGED dead
      BY <1>1, <1>2, <1>4, <3>1, <3>2, <3>5 DEF Attempts
    <3> QED BY <2>7, <3>3, <3>4, <3>5 DEF Defer
  <2>8. ASSUME NEW c \in batch, Execute(c) PROVE Raced'
    BY <1>1, <1>2, <1>4, <2>8 DEF Execute, Enter, First, Replayed
  <2>9. ASSUME NEW c \in batch, Refuse(c) PROVE Raced'
    BY <1>1, <1>2, <1>4, <2>9 DEF Refuse, Enter, First
  <2>10. CASE ReturnDeferred
    BY <1>1, <1>2, <1>4, <2>10 DEF ReturnDeferred
  <2>11. CASE ReportDeferred
    BY <1>1, <1>2, <1>4, <2>11 DEF ReportDeferred, Tell
  <2>12. CASE RemoveBuried
    BY <1>1, <1>2, <1>4, <2>12 DEF RemoveBuried
  <2>13. CASE ReportFailure
    BY <1>1, <1>2, <1>4, <2>13 DEF ReportFailure, Tell
  <2>14. CASE SaveReceipt
    BY <1>1, <1>2, <1>4, <2>14 DEF SaveReceipt
  <2>15. CASE Report
    BY <1>1, <1>2, <1>4, <2>15 DEF Report, Tell
  <2>16. CASE Acknowledge
    <3>1. CASE current \in processing
      <4>1. current \in Settled'
        BY <2>16, <3>1 DEF Acknowledge, Settled
      <4> QED BY <1>1, <1>2, <1>4, <2>16, <3>1, <4>1 DEF Acknowledge
    <3>2. CASE current \notin processing
      BY <1>1, <1>2, <1>4, <2>16, <3>2 DEF Acknowledge
    <3> QED BY <3>1, <3>2
  <2>17. CASE PollControls
    BY <1>1, <1>2, <1>4, <2>17 DEF PollControls, Recovering
  <2>18. CASE EndChat
    BY <1>1, <1>2, <1>4, <2>18 DEF EndChat
  <2>19. ASSUME NEW c \in controls, ExecuteControl(c) PROVE Raced'
    BY <1>1, <1>2, <1>4, <2>19 DEF ExecuteControl, First, Replayed
  <2>20. ASSUME NEW c \in controls, RefuseControl(c) PROVE Raced'
    <3>1. Abandoned = Stop
      BY <2>20 DEF RefuseControl, First, Abandoned
    <3> QED BY <1>1, <1>2, <1>4, <2>20, <3>1 DEF RefuseControl, First
  <2>21. CASE SaveControlReceipt
    BY <1>1, <1>2, <1>4, <2>21 DEF SaveControlReceipt
  <2>22. CASE AcknowledgeControl
    BY <1>1, <1>2, <1>4, <2>22 DEF AcknowledgeControl
  <2>23. CASE Crash
    BY <1>1, <1>2, <1>4, <2>23 DEF Crash
  <2>24. CASE UNCHANGED vars
    BY <1>1, <1>2, <1>4, <2>24 DEF vars
  <2>25. CASE Reject
    <3>1. CASE current \in processing
      <4>1. dead' = dead \cup {current} /\ pc' = "unlink" /\ current \in sent
        BY <2>25, <3>1 DEF Reject
      <4>2. current \in raised => current \notin Blameless'
        BY <1>4, <2>25, <4>1 DEF Reject
      <4>3. Whole' => dead' \cap Blameless' \subseteq Fragile
        BY <1>4, <2>25, <3>1, <4>1, <4>2 DEF Reject
      <4>4. current \in Settled'
        BY <4>1 DEF Settled
      <4> QED BY <1>1, <1>2, <1>4, <2>25, <3>1, <4>1, <4>3, <4>4 DEF Reject
    <3>2. CASE current \notin processing
      <4>1. batch \cap processing \subseteq Abandoned
        BY <2>25, <3>2 DEF Reject
      <4> QED BY <1>1, <1>2, <1>4, <2>25, <3>2, <4>1 DEF Reject
    <3> QED BY <3>1, <3>2
  <2>26. CASE ReportRecovered
    BY <1>1, <1>2, <1>4, <2>26 DEF ReportRecovered, Tell
  <2>27. ASSUME NEW c \in batch, HandlerRaises(c) PROVE Raced'
    BY <1>1, <1>2, <1>4, <2>27 DEF HandlerRaises, Enter, First, Fault
  <2>28. CASE LoopRaises
    BY <1>1, <1>2, <1>4, <2>28 DEF LoopRaises, Fault
  <2>29. CASE RejectRaises
    BY <1>1, <1>2, <1>4, <2>29 DEF RejectRaises, Fault
  <2>30. CASE ClearRaises
    BY <1>1, <1>2, <1>4, <2>30 DEF ClearRaises, Fault
  <2>31. ASSUME NEW c \in Stop, ControlRaises(c) PROVE Raced'
    <3>1. Abandoned' = Stop
      BY <2>31 DEF ControlRaises, Fault, Abandoned
    <3>2. processing \subseteq Stop /\ processing' \subseteq processing
      BY <2>31 DEF ControlRaises, First
    <3> QED BY <1>1, <1>2, <1>4, <2>31, <3>1, <3>2 DEF ControlRaises, Fault
  <2>32. CASE ScanRaises
    BY <1>1, <1>2, <1>4, <2>32 DEF ScanRaises
  <2> QED
    BY <2>1, <2>2, <2>3, <2>4, <2>5, <2>6, <2>7, <2>8, <2>9, <2>10, <2>11, <2>12,
       <2>13, <2>14, <2>15, <2>16, <2>17, <2>18, <2>19, <2>20, <2>21, <2>22, <2>23, <2>24, <2>25, <2>26,
       <2>27, <2>28, <2>29, <2>30, <2>31, <2>32
    DEF Next, RuntimeStep, DesktopStep, Raises

LEMMA Racing == ASSUME MaxRetries > 1 PROVE Spec => []Raced
<1>1. Init => Raced
  BY DEF Init, Raced, Whole
<1> QED
  BY <1>1, RacedStep, Typed, Conservation, Reporting, Claiming, Numbering, PTL DEF Spec

(* Where a command is given back at least once before it is buried, no race *)
(* of publication and scan, no stale claim, no restart and no scan that      *)
(* raises dead-letters a valid command, but for one at which or before which *)
(* a call of the loop raised, and a stop command that a failing one left     *)
(* claimed.                                                                  *)
THEOREM ValidCommandsSurvive == ASSUME MaxRetries > 1 PROVE Spec => []ValidNeverBuried
<1>1. TypeOK /\ Raced => ValidNeverBuried
  BY DEF TypeOK, Raced, Whole, Blameless, ValidNeverBuried
<1> QED BY <1>1, Typed, Racing, PTL

(***************************************************************************)
(* Order of effects: a command that is settled or took effect has the      *)
(* commands before it settled, back to the last stop command.              *)
(***************************************************************************)
Effective ==
  /\ \A c \in receipted \cup processed : applied[c] > 0
  /\ pc \in {"receipt", "report", "ack"} => applied[current] > 0
  /\ pc \in {"controlReceipt", "controlAck"} => applied[control] > 0 /\ control \in Stop

LEMMA Effects == Spec => []Effective
<1>1. Init => Effective
  BY DEF Init, Effective
<1>2. TypeOK /\ Held /\ Located /\ Effective /\ [Next]_vars => Effective'
  <2> SUFFICES ASSUME TypeOK, Held, Located, Effective, [Next]_vars PROVE Effective'
    OBVIOUS
  <2> USE DEF TypeOK, Held, Holding, Located, Effective,
              desktopVars, fileVars, loopVars, storeVars, troubleVars
  <2>1. ASSUME NEW c \in Command, Reserve(c) PROVE Effective'
    BY <2>1 DEF Reserve, Causal
  <2>2. ASSUME NEW c \in Command, Publish(c) PROVE Effective'
    BY <2>2 DEF Publish, Causal
  <2>3. ASSUME NEW s \in Stream, DesktopStop(s) PROVE Effective'
    BY <2>3 DEF DesktopStop
  <2>4. CASE StartScan
    BY <2>4 DEF StartScan, Recovering
  <2>5. CASE EndScan
    BY <2>5 DEF EndScan
  <2>6. CASE EndPass
    BY <2>6 DEF EndPass
  <2>7. ASSUME NEW c \in batch, Defer(c) PROVE Effective'
    BY <2>7 DEF Defer, Enter, First, Attempts, Exhausted
  <2>8. ASSUME NEW c \in batch, Execute(c) PROVE Effective'
    BY <2>8 DEF Execute, Enter, First, Replayed
  <2>9. ASSUME NEW c \in batch, Refuse(c) PROVE Effective'
    BY <2>9 DEF Refuse, Enter, First
  <2>10. CASE ReturnDeferred
    BY <2>10 DEF ReturnDeferred
  <2>11. CASE ReportDeferred
    BY <2>11 DEF ReportDeferred, Tell
  <2>12. CASE RemoveBuried
    BY <2>12 DEF RemoveBuried
  <2>13. CASE ReportFailure
    BY <2>13 DEF ReportFailure, Tell
  <2>14. CASE SaveReceipt
    BY <2>14 DEF SaveReceipt
  <2>15. CASE Report
    BY <2>15 DEF Report, Tell
  <2>16. CASE Acknowledge
    BY <2>16 DEF Acknowledge
  <2>17. CASE PollControls
    BY <2>17 DEF PollControls, Recovering
  <2>18. CASE EndChat
    BY <2>18 DEF EndChat
  <2>19. ASSUME NEW c \in controls, ExecuteControl(c) PROVE Effective'
    BY <2>19 DEF ExecuteControl, First, Replayed
  <2>20. ASSUME NEW c \in controls, RefuseControl(c) PROVE Effective'
    BY <2>20 DEF RefuseControl, First
  <2>21. CASE SaveControlReceipt
    BY <2>21 DEF SaveControlReceipt
  <2>22. CASE AcknowledgeControl
    BY <2>22 DEF AcknowledgeControl
  <2>23. CASE Crash
    BY <2>23 DEF Crash
  <2>24. CASE UNCHANGED vars
    BY <2>24 DEF vars
  <2>25. CASE Reject
    BY <2>25 DEF Reject
  <2>26. CASE ReportRecovered
    BY <2>26 DEF ReportRecovered, Tell
  <2>27. ASSUME NEW c \in batch, HandlerRaises(c) PROVE Effective'
    BY <2>27 DEF HandlerRaises, Enter, First, Fault
  <2>28. CASE LoopRaises
    BY <2>28 DEF LoopRaises, Fault
  <2>29. CASE RejectRaises
    BY <2>29 DEF RejectRaises, Fault
  <2>30. CASE ClearRaises
    BY <2>30 DEF ClearRaises, Fault
  <2>31. ASSUME NEW c \in Stop, ControlRaises(c) PROVE Effective'
    BY <2>31 DEF ControlRaises, First, Fault
  <2>32. CASE ScanRaises
    BY <2>32 DEF ScanRaises
  <2> QED
    BY <2>1, <2>2, <2>3, <2>4, <2>5, <2>6, <2>7, <2>8, <2>9, <2>10, <2>11, <2>12,
       <2>13, <2>14, <2>15, <2>16, <2>17, <2>18, <2>19, <2>20, <2>21, <2>22, <2>23, <2>24, <2>25, <2>26,
       <2>27, <2>28, <2>29, <2>30, <2>31, <2>32
    DEF Next, RuntimeStep, DesktopStep, Raises
<1> QED
  BY <1>1, <1>2, Typed, Conservation, PTL DEF Spec

InLine ==
  Whole => \A d \in Command \ (Stop \cup Afflicted) : d \in Settled \/ applied[d] > 0 =>
    \A c \in Below(d) \ Stop : Follows(d, c) => c \in Settled

\* Whoever is settled was ready, unless something raised.
LEMMA NewIsReady ==
  ASSUME MaxRetries > 1, TypeOK, Held, Located, Truthful, Effective, Numbered, Raced, Claims,
         [Next]_vars, Whole, NEW d \in Command \ Stop, d \in Settled', d \notin Settled
  PROVE  d \in sent /\ (d \in Afflicted \/ Ready(d))
<1> USE DEF TypeOK, Settled, desktopVars, fileVars, loopVars, storeVars, troubleVars
<1>1. ASSUME NEW c \in batch, Defer(c) PROVE d \in sent /\ (d \in Afflicted \/ Ready(d))
  <2>1. dead' = dead \cup {c} /\ c \in processing /\ Exhausted(Attempts(c)) /\ d = c
    BY <1>1 DEF Defer
  <2>2. pc = "next" /\ First(c, batch) /\ ~Ready(c)
    BY <1>1 DEF Defer, Enter
  <2>3. Abandoned \subseteq Stop
    BY DEF Abandoned
  <2>4. Work \subseteq processing
    BY <2>1, <2>2, <2>3 DEF Claims, Claimed, Work, Controlling
  <2>5. retries[c] = 0 \/ c \in Afflicted
    BY <2>1, <2>2, <2>3, <2>4, DeferredFirst DEF Blameless
  <2> QED BY <2>1, <2>5 DEF Exhausted, Attempts, Located
<1>2. CASE Reject
  BY <1>2 DEF Reject, Held, Truthful, Located, Holding, Afflicted
<1>3. CASE Acknowledge
  BY <1>3 DEF Acknowledge, Truthful, Located, Holding
<1>4. CASE AcknowledgeControl
  BY <1>4 DEF AcknowledgeControl, Effective
<1>5. CASE UNCHANGED <<processed, dead>>
  BY <1>5
<1>6. ASSUME NEW c \in batch, Execute(c) \/ Refuse(c) PROVE UNCHANGED <<processed, dead>>
  BY <1>6 DEF Execute, Refuse
<1>7. CASE ReturnDeferred \/ ReportDeferred \/ RemoveBuried \/ ReportFailure \/ SaveReceipt
           \/ ReportRecovered \/ Report
  BY <1>5, <1>7 DEF ReturnDeferred, ReportDeferred, RemoveBuried, ReportFailure, SaveReceipt,
     ReportRecovered, Report
<1>8. CASE StartScan \/ EndScan \/ EndPass \/ PollControls \/ EndChat \/ SaveControlReceipt
  BY <1>5, <1>8 DEF StartScan, EndScan, EndPass, PollControls, EndChat, SaveControlReceipt
<1>9. ASSUME NEW c \in controls, ExecuteControl(c) \/ RefuseControl(c)
      PROVE  UNCHANGED <<processed, dead>>
  BY <1>9 DEF ExecuteControl, RefuseControl
<1>10. CASE DesktopStep \/ Crash \/ UNCHANGED vars \/ \E s \in Stream : DesktopStop(s)
  BY <1>5, <1>10 DEF DesktopStep, Reserve, Publish, Crash, DesktopStop, vars
<1>11. CASE ClearRaises
  BY <1>11 DEF ClearRaises, Truthful, Located, Holding
<1>12. ASSUME NEW c \in Stop, ControlRaises(c) PROVE d \in sent /\ Ready(d)
  BY <1>12 DEF ControlRaises
<1>13. CASE LoopRaises \/ RejectRaises \/ ScanRaises \/ \E c \in batch : HandlerRaises(c)
  BY <1>5, <1>13 DEF LoopRaises, RejectRaises, ScanRaises, HandlerRaises
<1> QED
  BY <1>1, <1>2, <1>3, <1>4, <1>5, <1>6, <1>7, <1>8, <1>9, <1>10, <1>11, <1>12, <1>13
  DEF Next, RuntimeStep, Raises

LEMMA InLineStep ==
  ASSUME MaxRetries > 1, TypeOK, Held, Located, Truthful, Effective, Numbered, Raced, Claims,
         InLine, [Next]_vars
  PROVE  InLine'
<1>1. Orderly /\ (Whole' => Whole)
  <2>1. gaps' = gaps \/ gaps' = gaps + 1
    BY DEF Next, RuntimeStep, DesktopStep, Reserve, Publish, DesktopStop, StartScan, EndScan,
       EndPass, Defer, Execute, Refuse, ReturnDeferred, ReportDeferred, RemoveBuried,
       ReportFailure, SaveReceipt, ReportRecovered, Report, Reject, Acknowledge, PollControls, EndChat, ExecuteControl,
       RefuseControl, SaveControlReceipt, AcknowledgeControl, Raises, HandlerRaises, LoopRaises,
       RejectRaises, ClearRaises, ControlRaises, ScanRaises, Crash, vars, desktopVars
  <2>2. quarantined \subseteq quarantined'
    BY DEF Next, RuntimeStep, DesktopStep, Reserve, Publish, DesktopStop, StartScan, EndScan,
       EndPass, Defer, Execute, Refuse, ReturnDeferred, ReportDeferred, RemoveBuried,
       ReportFailure, SaveReceipt, ReportRecovered, Report, Reject, Acknowledge, PollControls, EndChat, ExecuteControl,
       RefuseControl, SaveControlReceipt, AcknowledgeControl, Raises, HandlerRaises, LoopRaises,
       RejectRaises, ClearRaises, ControlRaises, ScanRaises, Crash, vars, fileVars
  <2>3. gaps \in Nat
    BY DEF TypeOK
  <2> QED BY <2>1, <2>2, <2>3, StepsOrderly DEF Whole
<1> SUFFICES ASSUME Whole', NEW d \in Command \ Stop, d \notin Afflicted',
                    d \in Settled' \/ applied'[d] > 0,
                    NEW c \in Below(d)' \ Stop, Follows(d, c)'
             PROVE  c \in Settled'
  BY DEF InLine
<1>2. d \in sent /\ ((d \in Settled \/ applied[d] > 0) \/ d \in Afflicted \/ Ready(d))
  <2>1. CASE d \in Settled \/ applied[d] > 0
    BY <2>1 DEF Located, Settled
  <2>2. CASE d \in Settled' /\ d \notin Settled
    BY <1>1, <2>2, NewIsReady
  <2>3. CASE applied'[d] > 0
    BY <1>1, <2>1, <2>3 DEF Orderly
  <2> QED BY <2>1, <2>2, <2>3
<1>0. d \notin Afflicted
  <2>1. Abandoned' \subseteq Stop
    BY DEF Abandoned
  <2> QED BY <1>2, <2>1, BlameKept DEF Blameless
<1>3. /\ c \in Below(d) \ Stop /\ sequence'[c] = sequence[c] /\ sequence'[d] = sequence[d]
      /\ \A e \in Below(d) : sequence'[e] = sequence[e]
      /\ \A e \in Command : sequence[e] \in Nat
  BY <1>1, <1>2, BelowKept DEF Orderly, TypeOK
<1>4. d \in Within(c) /\ c \in Command /\ 0 < sequence[c] /\ sequence[c] < sequence[d]
  BY <1>3 DEF Below, Within
<1>5. Follows(d, c)
  <2> SUFFICES ASSUME NEW e \in Within(c) \cap Stop,
                      sequence[c] < sequence[e], sequence[e] < sequence[d]
               PROVE  FALSE
    BY <1>4 DEF Follows
  <2>1. e \in Below(d)
    BY <1>3, <1>4 DEF Below, Within
  <2>2. e \in (Within(c) \cap Stop)'
    BY DEF Within
  <2> QED BY <1>3, <2>1, <2>2 DEF Follows
<1>6. CASE d \in Settled \/ applied[d] > 0
  BY <1>0, <1>1, <1>3, <1>5, <1>6 DEF InLine, Orderly
<1>7. CASE Ready(d)
  <2>1. PICK p \in Settled : StreamOf[p] = StreamOf[d] /\ sequence[p] + 1 = sequence[d]
    BY <1>3, <1>4, <1>7 DEF Ready
  <2>2. p \in Command /\ StreamOf[p] = StreamOf[c] /\ StreamOf[c] = StreamOf[d]
    BY <1>4, <2>1 DEF TypeOK, Settled, Within
  <2>3. CASE p = c
    BY <1>1, <2>1, <2>3 DEF Orderly
  <2>4. CASE p # c
    <3>1. sequence[p] \in Nat /\ sequence[p] # sequence[c]
      BY <1>3, <1>4, <2>2, <2>4 DEF Numbered
    <3>2. sequence[c] < sequence[p] /\ sequence[p] < sequence[d]
      BY <1>3, <1>4, <2>1, <3>1
    <3>3. p \notin Stop
      BY <1>5, <2>2, <3>2 DEF Follows, Within
    <3>4. Follows(p, c) /\ c \in Below(p)
      BY <1>3, <1>4, <1>5, <2>2, <3>2 DEF Follows, Within, Below
    <3>5. p \notin Afflicted
      <4> SUFFICES ASSUME NEW e \in raised, e = p \/ (e \in Within(p) /\ sequence[e] < sequence[p])
                   PROVE  FALSE
        BY DEF Afflicted
      <4>1. e \in Within(d) /\ sequence[e] < sequence[d]
        BY <1>3, <1>4, <2>2, <3>2 DEF Within, TypeOK
      <4> QED BY <1>0, <4>1 DEF Afflicted
    <3> QED BY <1>1, <1>3, <2>1, <2>2, <3>3, <3>4, <3>5 DEF InLine, Orderly
  <2> QED BY <2>3, <2>4
<1> QED BY <1>0, <1>2, <1>6, <1>7

(* While no number is missing, no stop command came between and no call of   *)
(* the loop raised, no command of a cycle takes effect after one that the    *)
(* user sent later.                                                          *)
THEOREM EffectsFollowTheUser == ASSUME MaxRetries > 1 PROVE Spec => EffectsInOrder
<1>1. Init => InLine
  BY DEF Init, InLine, Settled
<1>2. ASSUME TypeOK, Held, Located, Effective, Numbered, InLine, [Next]_vars,
             gaps = 0, quarantined = {},
             NEW c \in Command \ (Stop \cup dead), Causal(c), applied[c] = 0, applied'[c] > 0,
             NEW d \in Command \ (Stop \cup Afflicted), Follows(d, c)
      PROVE  applied[d] = 0
  <2>1. c \in sent
    BY <1>2, StepsOrderly DEF Orderly
  <2>2. c \in Below(d)
    BY <1>2, <2>1 DEF Numbered, Follows, Below, Within, TypeOK
  <2>3. applied[d] > 0 => c \in processed
    BY <1>2, <2>2 DEF InLine, Whole, Settled
  <2>4. ~ (applied[d] > 0) /\ applied[d] \in Nat
    BY <1>2, <2>3 DEF Effective, TypeOK
  <2> QED BY <2>4
<1>3. MaxRetries > 1 /\ TypeOK /\ Held /\ Located /\ Truthful /\ Effective /\ Numbered /\ Raced
        /\ Claims /\ InLine /\ [Next]_vars => InLine'
  BY InLineStep
<1>4. TypeOK /\ Held /\ Located /\ Effective /\ Numbered /\ InLine /\ [Next]_vars
        => [gaps = 0 /\ quarantined = {} =>
              \A c \in Command \ (Stop \cup dead) : Causal(c) /\ applied[c] = 0 /\ applied'[c] > 0 =>
                \A d \in Command \ (Stop \cup Afflicted) : Follows(d, c) => applied[d] = 0]_vars
  BY <1>2
<1> QED
  BY <1>1, <1>3, <1>4, Typed, Conservation, Reporting, Effects, Numbering, Claiming, Racing, PTL
  DEF Spec, EffectsInOrder

(***************************************************************************)
(* The exchange implements CommandDelivery.  What the points of the loop   *)
(* say of the command held there: it can be read, it has its effect before *)
(* its receipt, its receipt before it is acknowledged, and a conversation  *)
(* stands for a command of its cycle that was processed.                   *)
(***************************************************************************)
Conversing == {"chat", "control", "controlReceipt", "controlAck"}

Delivering ==
  /\ (processing \cup batch \cup controls) \cap Malformed = {}
  /\ quarantined \subseteq Malformed
  /\ processed \subseteq receipted
  /\ \A c \in receipted : applied[c] > 0
  /\ pc \in Holding => current \notin Malformed
  /\ pc = "receipt" => applied[current] > 0 /\ current \notin receipted
  /\ pc = "ack" => current \in receipted /\ (Causal(current) => current \in Answered)
  /\ pc \in {"defer", "deferred"} => ~Ready(current) /\ current \notin processed \cup Failed
  /\ pc \in Conversing => /\ current \in processed \cap Chat
                          /\ \A c \in controls : StreamOf[c] = StreamOf[current]
  /\ pc \in {"controlReceipt", "controlAck"} =>
       control \in Stop \ Malformed /\ StreamOf[control] = StreamOf[current]
  /\ pc = "controlReceipt" => applied[control] > 0 /\ control \notin receipted
  /\ pc = "controlAck" => control \in receipted

LEMMA Delivered == Spec => []Delivering
<1>1. Init => Delivering
  BY DEF Init, Delivering, Holding, Conversing
<1>2. TypeOK /\ Held /\ Located /\ Truthful /\ Delivering /\ [Next]_vars => Delivering'
  <2> SUFFICES ASSUME TypeOK, Held, Located, Truthful, Delivering, [Next]_vars PROVE Delivering'
    OBVIOUS
  <2> USE DEF TypeOK, Held, Holding, Located, Truthful, Failed, Answered, Delivering, Conversing,
              Ready, Settled, Causal, desktopVars, fileVars, loopVars, storeVars, troubleVars
  <2>1. ASSUME NEW c \in Command, Reserve(c) PROVE Delivering'
    BY <2>1 DEF Reserve
  <2>2. ASSUME NEW c \in Command, Publish(c) PROVE Delivering'
    BY <2>2 DEF Publish
  <2>3. ASSUME NEW s \in Stream, DesktopStop(s) PROVE Delivering'
    BY <2>3 DEF DesktopStop
  <2>4. CASE StartScan
    BY <2>4 DEF StartScan
  <2>5. CASE EndScan
    BY <2>5 DEF EndScan
  <2>6. CASE EndPass
    BY <2>6 DEF EndPass
  <2>7. ASSUME NEW c \in batch, Defer(c) PROVE Delivering'
    BY <2>7 DEF Defer, Enter
  <2>8. ASSUME NEW c \in batch, Execute(c) PROVE Delivering'
    BY <2>8 DEF Execute, Enter, Replayed
  <2>9. ASSUME NEW c \in batch, Refuse(c) PROVE Delivering'
    BY <2>9 DEF Refuse, Enter
  <2>10. CASE ReturnDeferred
    BY <2>10 DEF ReturnDeferred
  <2>11. CASE ReportDeferred
    BY <2>11 DEF ReportDeferred, Tell
  <2>12. CASE RemoveBuried
    BY <2>12 DEF RemoveBuried
  <2>13. CASE ReportFailure
    BY <2>13 DEF ReportFailure, Tell
  <2>14. CASE SaveReceipt
    BY <2>14 DEF SaveReceipt
  <2>15. CASE Report
    BY <2>15 DEF Report, Tell
  <2>16. CASE Acknowledge
    BY <2>16 DEF Acknowledge
  <2>17. CASE PollControls
    BY <2>17 DEF PollControls
  <2>18. CASE EndChat
    BY <2>18 DEF EndChat
  <2>19. ASSUME NEW c \in controls, ExecuteControl(c) PROVE Delivering'
    BY <2>19 DEF ExecuteControl, Replayed
  <2>20. ASSUME NEW c \in controls, RefuseControl(c) PROVE Delivering'
    BY <2>20 DEF RefuseControl
  <2>21. CASE SaveControlReceipt
    BY <2>21 DEF SaveControlReceipt
  <2>22. CASE AcknowledgeControl
    BY <2>22 DEF AcknowledgeControl
  <2>23. CASE Crash
    BY <2>23 DEF Crash
  <2>24. CASE UNCHANGED vars
    BY <2>24 DEF vars
  <2>25. CASE Reject
    BY <2>25 DEF Reject
  <2>26. CASE ReportRecovered
    BY <2>26 DEF ReportRecovered, Tell
  <2>27. ASSUME NEW c \in batch, HandlerRaises(c) PROVE Delivering'
    BY <2>27 DEF HandlerRaises, Enter, First, Fault
  <2>28. CASE LoopRaises
    BY <2>28 DEF LoopRaises, Fault
  <2>29. CASE RejectRaises
    BY <2>29 DEF RejectRaises, Fault
  <2>30. CASE ClearRaises
    BY <2>30 DEF ClearRaises, Fault
  <2>31. ASSUME NEW c \in Stop, ControlRaises(c) PROVE Delivering'
    BY <2>31 DEF ControlRaises, First, Fault
  <2>32. CASE ScanRaises
    BY <2>32 DEF ScanRaises
  <2> QED
    BY <2>1, <2>2, <2>3, <2>4, <2>5, <2>6, <2>7, <2>8, <2>9, <2>10, <2>11, <2>12,
       <2>13, <2>14, <2>15, <2>16, <2>17, <2>18, <2>19, <2>20, <2>21, <2>22, <2>23, <2>24, <2>25, <2>26,
       <2>27, <2>28, <2>29, <2>30, <2>31, <2>32
    DEF Next, RuntimeStep, DesktopStep, Raises
<1> QED
  BY <1>1, <1>2, Typed, Conservation, Reporting, PTL DEF Spec

(* The variables of CommandDelivery, as Delivery reads them here. *)
Seen == <<sent, [c \in Command |-> IF c \in sent THEN sequence[c] ELSE 0], applied, receipted,
          processed, dead, quarantined, told, raised>>

LEMMA TurnIsReady ==
  ASSUME TypeOK, Located, NEW c \in sent
  PROVE  Delivery!Turn(c) <=> Ready(c)
<1> c \in Command /\ sequence[c] \in Nat /\ Settled \subseteq sent
  BY DEF TypeOK, Located, Settled
<1>1. \A d \in sent : d \in Command /\ sequence[d] \in Nat
  BY DEF TypeOK
<1>2. Delivery!Turn(c) <=>
        (sequence[c] > 1 => \E d \in Settled : StreamOf[d] = StreamOf[c] /\ sequence[d] + 1 = sequence[c])
  BY <1>1 DEF Delivery!Turn, Settled
<1> QED BY <1>1, <1>2 DEF Ready

LEMMA PublishSends ==
  ASSUME TypeOK, Located, Numbered, NEW c \in Command, Publish(c)
  PROVE  Delivery!Send(c)
<1> DEFINE number == [d \in Command |-> IF d \in sent THEN sequence[d] ELSE 0]
<1>1. /\ c \notin sent /\ sent' = sent \cup {c} /\ sequence' = sequence
      /\ Causal(c) => writing[StreamOf[c]] = c
      /\ UNCHANGED <<applied, receipted, processed, dead, quarantined, told, raised>>
  BY DEF Publish, storeVars, troubleVars
<1>2. number' \in [Command -> Nat] /\ number \in [Command -> Nat]
  BY <1>1 DEF TypeOK
<1>3. number'[c] = sequence[c] /\ \A d \in Command \ {c} : number'[d] = number[d]
  BY <1>1
<1>4. sequence[c] > 0 <=> Causal(c)
  BY <1>1 DEF Numbered, Causal, TypeOK
<1>5. ASSUME NEW d \in sent, Causal(c), StreamOf[d] = StreamOf[c]
      PROVE  number[d] < number'[c]
  <2>1. sequence[c] + 1 = nextSequence[StreamOf[c]] /\ sequence[c] > 0
    BY <1>1, <1>5 DEF Numbered, Causal, TypeOK
  <2>2. d \in Command /\ d # c /\ sequence[d] \in Nat
    BY <1>1 DEF TypeOK
  <2>3. sequence[d] < nextSequence[StreamOf[c]]
    BY <1>5, <2>2 DEF Numbered, Causal, TypeOK
  <2>4. sequence[d] # sequence[c]
    BY <1>5, <2>1, <2>2 DEF Numbered
  <2>5. sequence[d] < sequence[c]
    BY <2>1, <2>2, <2>3, <2>4, <1>5 DEF TypeOK, Causal
  <2> QED BY <1>3, <2>5, <2>2
<1> HIDE DEF number
<1>6. /\ number' \in [Command -> Nat]
      /\ number'[c] > 0 <=> Causal(c)
      /\ \A d \in sent : Causal(c) /\ StreamOf[d] = StreamOf[c] => number[d] < number'[c]
      /\ \A d \in Command \ {c} : number'[d] = number[d]
  BY <1>2, <1>3, <1>4, <1>5
<1> QED BY <1>1, <1>6 DEF Delivery!Send, Delivery!Causal, Causal, number

LEMMA DeliveryStep ==
  ASSUME TypeOK, Held, Located, Truthful, Numbered, Delivering, [Next]_vars
  PROVE  [Delivery!Next]_Seen
<1> USE DEF Seen, TypeOK, desktopVars, fileVars, loopVars, storeVars, troubleVars
<1>0. ASSUME UNCHANGED <<sent, sequence, storeVars, processed, dead, quarantined, raised>>
      PROVE  UNCHANGED Seen
  BY <1>0
<1>1. ASSUME NEW c \in Command, Reserve(c) PROVE UNCHANGED Seen
  BY <1>1 DEF Reserve
<1>2. ASSUME NEW c \in Command, Publish(c) PROVE Delivery!Next
  BY <1>2, PublishSends DEF Delivery!Next
<1>3. ASSUME NEW s \in Stream, DesktopStop(s) PROVE UNCHANGED Seen
  BY <1>3 DEF DesktopStop, Located
<1>4. CASE StartScan \/ EndPass \/ ReturnDeferred \/ RemoveBuried \/ EndChat \/ Crash
  BY <1>0, <1>4 DEF StartScan, EndPass, ReturnDeferred, RemoveBuried, EndChat, Crash
<1>5. CASE EndScan
  <2>1. PICK late \in SUBSET (pending \ seen) : quarantined' = quarantined \cup ((seen \cup late) \cap Malformed)
    BY <1>5 DEF EndScan
  <2>2. (seen \cup late) \cap Malformed \subseteq sent \cap Malformed
    BY <1>5 DEF EndScan, Located
  <2> QED BY <1>5, <2>1, <2>2 DEF EndScan, Delivery!Next, Delivery!Quarantine
<1>6. ASSUME NEW c \in batch, Defer(c) PROVE Delivery!Next \/ UNCHANGED Seen
  <2>1. CASE dead' = dead
    BY <1>0, <1>6, <2>1 DEF Defer
  <2>2. CASE c \in processing /\ dead' = dead \cup {c}
    <3>1. c \in sent \ (Failed \cup Malformed \cup processed) /\ ~Delivery!Turn(c)
      BY <1>6, <2>2, TurnIsReady DEF Defer, Located, Truthful, Delivering
    <3>2. Delivery!Bury(c)
      BY <1>6, <2>2, <3>1 DEF Defer, Delivery!Bury, Delivery!Live, Delivery!Failed, Failed
    <3> QED BY <3>2 DEF Delivery!Next
  <2> QED BY <1>6, <2>1, <2>2 DEF Defer
<1>7. CASE Reject
  <2>1. CASE current \notin processing
    BY <1>0, <1>7, <2>1 DEF Reject
  <2>2. CASE current \in processing
    <3>1. /\ current \in sent \ (Failed \cup Malformed \cup processed) /\ current \in Command
          /\ current \in raised \cup (Fragile \ receipted)
      BY <1>7, <2>2 DEF Reject, Held, Holding, Located, Truthful, Delivering
    <3>2. Delivery!Bury(current)
      BY <1>7, <2>2, <3>1 DEF Reject, Delivery!Bury, Delivery!Live, Delivery!Failed, Failed
    <3> QED BY <3>1, <3>2 DEF Delivery!Next
  <2> QED BY <2>1, <2>2
<1>8. ASSUME NEW c \in batch, Execute(c) PROVE Delivery!Next \/ UNCHANGED Seen
  <2>1. CASE Replayed(c)
    BY <1>0, <1>8, <2>1 DEF Execute
  <2>2. CASE ~Replayed(c)
    <3>1. c \in sent \ (Failed \cup Malformed \cup receipted) /\ Delivery!Turn(c)
      BY <1>8, <2>2, TurnIsReady DEF Execute, Replayed, Located, Truthful, Delivering
    <3>2. Delivery!TakeEffect(c)
      BY <1>8, <2>2, <3>1 DEF Execute, Delivery!TakeEffect, Delivery!Live, Delivery!Failed, Failed
    <3> QED BY <3>2 DEF Delivery!Next
  <2> QED BY <2>1, <2>2
<1>9. ASSUME NEW c \in controls, ExecuteControl(c) PROVE Delivery!Next \/ UNCHANGED Seen
  <2>1. CASE Replayed(c)
    BY <1>0, <1>9, <2>1 DEF ExecuteControl
  <2>2. CASE ~Replayed(c)
    <3>1. c \in sent \ (Failed \cup Malformed \cup receipted)
      BY <1>9, <2>2 DEF ExecuteControl, Replayed, Located, Truthful, Delivering
    <3>2. Delivery!Interrupts(c)
      BY <1>9 DEF ExecuteControl, Located, Delivering, Conversing, Delivery!Interrupts
    <3>3. Delivery!TakeEffect(c)
      BY <1>9, <2>2, <3>1, <3>2 DEF ExecuteControl, Delivery!TakeEffect, Delivery!Live,
         Delivery!Failed, Failed
    <3> QED BY <3>3 DEF Delivery!Next
  <2> QED BY <2>1, <2>2
<1>10. ASSUME SaveReceipt \/ SaveControlReceipt PROVE Delivery!Next
  <2>1. PICK c \in Command : /\ receipted' = receipted \cup {c} /\ applied[c] > 0
                             /\ c \in sent \ (Failed \cup Malformed \cup receipted)
    <3>1. CASE SaveReceipt
      BY <3>1 DEF SaveReceipt, Held, Holding, Located, Truthful, Delivering
    <3>2. CASE SaveControlReceipt
      BY <3>2 DEF SaveControlReceipt, Held, Located, Truthful, Delivering
    <3> QED BY <1>10, <3>1, <3>2
  <2>2. Delivery!StoreReceipt(c)
    BY <1>10, <2>1 DEF SaveReceipt, SaveControlReceipt, Delivery!StoreReceipt, Delivery!Live,
       Delivery!Failed, Failed
  <2> QED BY <2>2 DEF Delivery!Next
<1>11. ASSUME ReportDeferred PROVE Delivery!Next \/ UNCHANGED Seen
  <2>1. CASE ~Causal(current)
    BY <1>0, <1>11, <2>1 DEF ReportDeferred, Tell
  <2>2. CASE Causal(current)
    <3>1. /\ current \in sent \ (Failed \cup Malformed \cup processed)
          /\ current \in Command /\ ~Delivery!Turn(current)
      BY <1>11, TurnIsReady DEF ReportDeferred, Held, Holding, Located, Delivering
    <3>2. Delivery!TellDeferred(current)
      BY <1>11, <2>2, <3>1 DEF ReportDeferred, Tell, Delivery!TellDeferred, Delivery!Tell,
         Delivery!Live, Delivery!Failed, Failed
    <3> QED BY <2>2, <3>1, <3>2 DEF Delivery!Next, Delivery!Causal, Causal
  <2> QED BY <2>1, <2>2
<1>12. ASSUME ReportFailure PROVE Delivery!Next \/ UNCHANGED Seen
  <2>1. CASE ~Causal(current)
    BY <1>0, <1>12, <2>1 DEF ReportFailure, Tell
  <2>2. CASE Causal(current)
    <3>1. /\ current \in dead \ processed /\ current \in Command
          /\ "submitted" \in told[current] => current \in raised
      BY <1>12 DEF ReportFailure, Held, Holding, Truthful, Answered
    <3>2. Delivery!TellFailed(current)
      BY <1>12, <2>2, <3>1 DEF ReportFailure, Tell, Delivery!TellFailed, Delivery!Tell
    <3> QED BY <2>2, <3>1, <3>2 DEF Delivery!Next, Delivery!Causal, Causal
  <2> QED BY <2>1, <2>2
<1>13. ASSUME Report \/ ReportRecovered PROVE Delivery!Next \/ UNCHANGED Seen
  <2>1. CASE ~Causal(current)
    BY <1>0, <1>13, <2>1 DEF Report, ReportRecovered, Tell
  <2>2. CASE Causal(current)
    <3>1. current \in (sent \cap receipted) \ (Failed \cup Malformed) /\ current \in Command
      BY <1>13 DEF Report, ReportRecovered, Held, Holding, Located, Truthful, Delivering
    <3>2. CASE Report
      <4>1. Delivery!TellSubmitted(current)
        BY <2>2, <3>1, <3>2 DEF Report, Tell, Delivery!TellSubmitted, Delivery!Tell, Delivery!Live,
           Delivery!Failed, Failed
      <4> QED BY <2>2, <3>1, <4>1 DEF Delivery!Next, Delivery!Causal, Causal
    <3>3. CASE ReportRecovered
      <4>1. Delivery!TellRecovered(current)
        BY <2>2, <3>1, <3>3 DEF ReportRecovered, Tell, Delivery!TellRecovered, Delivery!Tell,
           Delivery!Live, Delivery!Failed, Failed
      <4> QED BY <2>2, <3>1, <4>1 DEF Delivery!Next, Delivery!Causal, Causal
    <3> QED BY <1>13, <3>2, <3>3
  <2> QED BY <2>1, <2>2
<1>14. ASSUME Acknowledge PROVE Delivery!Next \/ UNCHANGED Seen
  <2>1. CASE current \notin processing
    BY <1>0, <1>14, <2>1 DEF Acknowledge
  <2>2. CASE current \in processing
    <3>1. /\ current \in (sent \cap receipted) \ (Failed \cup Malformed \cup processed)
          /\ Causal(current) => "submitted" \in told[current]
          /\ current \in Command
      BY <1>14, <2>2 DEF Acknowledge, Held, Holding, Located, Truthful, Delivering, Answered
    <3>2. Delivery!Complete(current)
      BY <1>14, <2>2, <3>1 DEF Acknowledge, Delivery!Complete, Delivery!Causal, Causal, Delivery!Live,
         Delivery!Failed, Failed
    <3> QED BY <3>1, <3>2 DEF Delivery!Next
  <2> QED BY <2>1, <2>2
<1>15. ASSUME AcknowledgeControl PROVE Delivery!Next
  <2>1. /\ control \in (sent \cap receipted) \ (Failed \cup Malformed \cup processed)
        /\ control \in Command \cap Stop
    BY <1>15 DEF AcknowledgeControl, Held, Located, Truthful, Delivering
  <2>2. Delivery!Complete(control)
    BY <1>15, <2>1 DEF AcknowledgeControl, Delivery!Complete, Delivery!Live, Delivery!Failed, Failed
  <2> QED BY <2>1, <2>2 DEF Delivery!Next
<1>16. ASSUME PollControls PROVE Delivery!Next
  <2>1. Recovering \cap Malformed \subseteq sent \cap Malformed
    BY DEF Recovering, Located
  <2>2. Delivery!Quarantine(Recovering \cap Malformed)
    BY <1>16, <2>1 DEF PollControls, Delivery!Quarantine
  <2> QED BY <2>2 DEF Delivery!Next
<1>17. ASSUME NEW c, RefuseControl(c) \/ Refuse(c) PROVE UNCHANGED Seen
  BY <1>0, <1>17 DEF RefuseControl, Refuse
<1>19. ASSUME NEW c \in sent, raised' = raised \cup {c},
              UNCHANGED <<sent, sequence, storeVars, processed, dead, quarantined>>
       PROVE  Delivery!Next
  <2>1. Delivery!Raise(c)
    BY <1>19 DEF Delivery!Raise
  <2> QED BY <2>1 DEF Delivery!Next
<1>20. ASSUME NEW c \in batch, HandlerRaises(c) PROVE Delivery!Next
  BY <1>19, <1>20 DEF HandlerRaises, Fault, Located
<1>21. CASE LoopRaises \/ RejectRaises
  BY <1>19, <1>21 DEF LoopRaises, RejectRaises, Fault, Located, Holding
<1>22. ASSUME NEW c \in Command, c \in (sent \cap receipted) \ (Failed \cup Malformed \cup processed),
              Causal(c) /\ c \notin Stop => c \in Answered,
              processed' = processed \cup {c}, raised' = raised \cup {c},
              UNCHANGED <<sent, sequence, storeVars, dead, quarantined>>
       PROVE  Delivery!Next
  <2>1. Delivery!Complete(c)
    BY <1>22 DEF Delivery!Complete, Delivery!Causal, Causal, Delivery!Live, Delivery!Failed, Failed, Answered
  <2> QED BY <2>1 DEF Delivery!Next
<1>23. ASSUME ClearRaises PROVE Delivery!Next
  <2>1. /\ current \in (sent \cap receipted) \ (Failed \cup Malformed \cup processed)
        /\ Causal(current) => current \in Answered
        /\ current \in Command
    BY <1>23 DEF ClearRaises, Held, Holding, Located, Truthful, Delivering
  <2> QED BY <1>22, <1>23, <2>1 DEF ClearRaises, Fault
<1>24. ASSUME NEW c \in Stop, ControlRaises(c) PROVE Delivery!Next
  <2>1. CASE UNCHANGED <<processing, processed>>
    BY <1>19, <1>24, <2>1 DEF ControlRaises, First, Fault, Located
  <2>2. CASE pc = "controlAck" /\ processed' = processed \cup {c}
    <3>1. c \in (sent \cap receipted) \ (Failed \cup Malformed \cup processed) /\ c \in Command
      BY <1>24, <2>2 DEF ControlRaises, Held, Located, Truthful, Delivering
    <3> QED BY <1>22, <1>24, <2>2, <3>1 DEF ControlRaises, Fault
  <2> QED BY <1>24, <2>1, <2>2 DEF ControlRaises
<1>25. ASSUME ScanRaises PROVE Delivery!Next
  <2>1. PICK S \in SUBSET pending : quarantined' = quarantined \cup (S \cap Malformed)
    BY <1>25 DEF ScanRaises
  <2>2. Delivery!Quarantine(S \cap Malformed)
    BY <1>25, <2>1 DEF ScanRaises, Delivery!Quarantine, Located
  <2> QED BY <2>2 DEF Delivery!Next
<1>18. CASE UNCHANGED vars
  BY <1>0, <1>18 DEF vars
<1> QED
  BY <1>1, <1>2, <1>3, <1>4, <1>5, <1>6, <1>7, <1>8, <1>9, <1>10, <1>11, <1>12, <1>13, <1>14,
     <1>15, <1>16, <1>17, <1>18, <1>20, <1>21, <1>23, <1>24, <1>25
  DEF Next, RuntimeStep, DesktopStep, Raises

(* However files are renamed, claimed, deferred, recovered and cut short by
   a stop, what comes out is the delivery that CommandDelivery describes: a
   command takes effect in its turn and never after its receipt, it is
   settled by its receipt or its dead-letter, and what was told stays true,
   but of a command at which a call raised. *)
THEOREM ExchangeDelivers == Spec => ImplementsDelivery
<1>1. Init => Delivery!Init
  BY DEF Init, Delivery!Init
<1>2. TypeOK /\ Held /\ Located /\ Truthful /\ Numbered /\ Delivering /\ [Next]_vars =>
        [Delivery!Next]_(Delivery!vars)
  BY DeliveryStep DEF Seen, Delivery!vars
<1> QED
  BY <1>1, <1>2, Typed, Conservation, Reporting, Numbering, Delivered, PTL
  DEF Spec, ImplementsDelivery, Delivery!Spec

(***************************************************************************)
(* Effects and stops.  A command is executed again only when a stop, or a  *)
(* call that raised, came between its effect and its receipt, so every     *)
(* repetition is paid for by one of its own.                               *)
(***************************************************************************)

\* The loop holds c between its effect and its receipt.
Unreceipted(c) == (pc = "receipt" /\ c = current) \/ (pc = "controlReceipt" /\ c = control)

Troubles == crashes + faults

Paid ==
  \A c \in Command :
    applied[c] <= Troubles + (IF c \in receipted \/ Unreceipted(c) THEN 1 ELSE 0)

\* The loop was interrupted, by a stop or by a call that raised.
Interrupted == UNCHANGED <<applied, receipted>> /\ Troubles' = Troubles + 1

LEMMA Interruptions == ASSUME TypeOK, Crash \/ Raises PROVE Interrupted
BY DEF TypeOK, Troubles, Interrupted, Crash, Raises, Fault, HandlerRaises, LoopRaises, RejectRaises,
   ClearRaises, ControlRaises, ScanRaises, storeVars

\* The steps that neither commit an effect nor store a receipt.
Quiet ==
  /\ UNCHANGED <<applied, receipted, crashes, faults>>
  /\ pc \notin {"receipt", "controlReceipt"} \/ UNCHANGED <<pc, current, control>>

LEMMA QuietSteps ==
  ASSUME [Next]_vars
  PROVE  \/ Crash \/ Raises \/ Quiet \/ SaveReceipt \/ SaveControlReceipt
         \/ \E c \in batch : Execute(c)
         \/ \E c \in controls : ExecuteControl(c)
<1> USE DEF Quiet
<1>1. CASE DesktopStep \/ \E s \in Stream : DesktopStop(s)
  BY <1>1 DEF DesktopStep, Reserve, Publish, DesktopStop, loopVars, storeVars, troubleVars
<1>2. ASSUME NEW c \in batch, Defer(c) \/ Refuse(c) PROVE Quiet
  BY <1>2 DEF Defer, Refuse, Enter, storeVars, troubleVars
<1>3. CASE StartScan \/ EndScan \/ EndPass
  BY <1>3 DEF StartScan, EndScan, EndPass, storeVars, troubleVars
<1>4. CASE ReturnDeferred \/ ReportDeferred \/ RemoveBuried \/ ReportFailure \/ Reject
  BY <1>4 DEF ReturnDeferred, ReportDeferred, RemoveBuried, ReportFailure, Reject, storeVars, troubleVars
<1>5. CASE ReportRecovered \/ Report \/ Acknowledge
  BY <1>5 DEF ReportRecovered, Report, Acknowledge, storeVars, troubleVars
<1>6. CASE PollControls \/ EndChat \/ AcknowledgeControl
  BY <1>6 DEF PollControls, EndChat, AcknowledgeControl, storeVars, troubleVars
<1>7. ASSUME NEW c \in controls, RefuseControl(c) PROVE Quiet
  BY <1>7 DEF RefuseControl, storeVars, troubleVars
<1>8. CASE UNCHANGED vars
  BY <1>8 DEF vars, loopVars, storeVars, troubleVars
<1> QED
  BY <1>1, <1>2, <1>3, <1>4, <1>5, <1>6, <1>7, <1>8 DEF Next, RuntimeStep

LEMMA PaidStep ==
  ASSUME TypeOK, Held, Paid, [Next]_vars
  PROVE  Paid'
<1> USE DEF TypeOK, Paid, Troubles, Unreceipted
<1>1. ASSUME NEW c \in batch, Execute(c) PROVE Paid'
  BY <1>1 DEF Execute, Enter, Replayed, troubleVars
<1>2. ASSUME NEW c \in controls, ExecuteControl(c) PROVE Paid'
  BY <1>2 DEF ExecuteControl, Replayed, troubleVars
<1>3. ASSUME SaveReceipt \/ SaveControlReceipt PROVE Paid'
  BY <1>3 DEF SaveReceipt, SaveControlReceipt, troubleVars
<1>4. CASE Crash \/ Raises
  <2>1. Interrupted
    BY <1>4, Interruptions
  <2> QED BY <2>1 DEF Interrupted
<1>5. CASE Quiet
  BY <1>5 DEF Quiet
<1> QED
  BY <1>1, <1>2, <1>3, <1>4, <1>5, QuietSteps

LEMMA EffectsPaid == Spec => []Paid
<1>1. Init => Paid
  BY DEF Init, Paid, Unreceipted, Troubles
<1>2. TypeOK /\ Held /\ Paid /\ [Next]_vars => Paid'
  BY PaidStep
<1> QED BY <1>1, <1>2, Typed, PTL DEF Spec

(* A command takes effect at most once more often than the runtime stopped
   or a call of its loop raised: no retry, deferral, recovery or interrupting
   conversation repeats it, so what AppliedOnce loses, it loses to these
   alone. *)
THEOREM StopsBoundEffects == Spec => [](\A c \in Command : applied[c] <= crashes + faults + 1)
<1>1. TypeOK /\ Paid => \A c \in Command : applied[c] <= crashes + faults + 1
  BY DEF TypeOK, Paid, Troubles
<1> QED BY <1>1, Typed, EffectsPaid, PTL

(* So the command is idempotent, as its receiver claims, for as long as the
   runtime is not stopped and no call of its loop raises. *)
THEOREM AppliedOnceUnlessStopped == Spec => [](crashes = 0 /\ faults = 0 => AppliedOnce)
<1>1. TypeOK /\ Paid => (crashes = 0 /\ faults = 0 => AppliedOnce)
  BY DEF TypeOK, Paid, Troubles, AppliedOnce
<1> QED BY <1>1, Typed, EffectsPaid, PTL

\* The commands a stop or a raise has made to take effect again, or will.
Disturbed ==
  {c \in Command : applied[c] > 1 \/ (applied[c] = 1 /\ c \notin receipted /\ ~Unreceipted(c))}

FewDisturbed == IsFiniteSet(Disturbed) /\ Cardinality(Disturbed) <= Troubles

LEMMA StopsDisturb ==
  ASSUME TypeOK, Held, [Next]_vars
  PROVE  \/ Disturbed' \subseteq Disturbed /\ Troubles' \in {Troubles, Troubles + 1}
         \/ \E c \in Command : Disturbed' \subseteq Disturbed \cup {c} /\ Troubles' = Troubles + 1
<1> DEFINE Kept == Disturbed' \subseteq Disturbed /\ Troubles' \in {Troubles, Troubles + 1}
<1> USE DEF TypeOK, Disturbed, Unreceipted
<1>1. ASSUME NEW c \in batch, Execute(c) PROVE Kept
  BY <1>1 DEF Execute, Enter, Replayed, Troubles, troubleVars
<1>2. ASSUME NEW c \in controls, ExecuteControl(c) PROVE Kept
  BY <1>2 DEF ExecuteControl, Replayed, Troubles, troubleVars
<1>3. ASSUME SaveReceipt \/ SaveControlReceipt PROVE Kept
  BY <1>3 DEF SaveReceipt, SaveControlReceipt, Troubles, troubleVars
<1>4. ASSUME Interrupted
      PROVE  Kept \/ \E c \in Command : Disturbed' \subseteq Disturbed \cup {c} /\ Troubles' = Troubles + 1
  <2>1. UNCHANGED <<applied, receipted>> /\ Troubles' = Troubles + 1
    BY <1>4 DEF Interrupted
  <2>2. CASE pc = "receipt"
    BY <2>1, <2>2 DEF Held, Holding
  <2>3. CASE pc = "controlReceipt"
    BY <2>1, <2>3 DEF Held, Holding
  <2>4. CASE pc \notin {"receipt", "controlReceipt"}
    BY <2>1, <2>4
  <2> QED BY <2>2, <2>3, <2>4
<1>5. CASE Quiet
  BY <1>5 DEF Quiet, Troubles
<1> QED
  BY <1>1, <1>2, <1>3, <1>4, <1>5, QuietSteps, Interruptions

LEMMA FewAreDisturbed == Spec => []FewDisturbed
<1>1. Init => FewDisturbed
  <2>1. Init => Disturbed = {} /\ Troubles = 0
    BY DEF Init, Disturbed, Unreceipted, Troubles
  <2> QED BY <2>1, FS_EmptySet DEF FewDisturbed
<1>2. TypeOK /\ Held /\ FewDisturbed /\ [Next]_vars => FewDisturbed'
  <2> SUFFICES ASSUME TypeOK, Held, FewDisturbed, [Next]_vars PROVE FewDisturbed'
    OBVIOUS
  <2>0. Cardinality(Disturbed) \in Nat /\ Troubles \in Nat
    BY FS_CardinalityType DEF FewDisturbed, TypeOK, Troubles
  <2>1. CASE Disturbed' \subseteq Disturbed /\ Troubles' \in {Troubles, Troubles + 1}
    <3>1. IsFiniteSet(Disturbed') /\ Cardinality(Disturbed') <= Cardinality(Disturbed)
      BY <2>1, FS_Subset DEF FewDisturbed
    <3>2. Cardinality(Disturbed') \in Nat
      BY <3>1, FS_CardinalityType
    <3> QED BY <2>0, <2>1, <3>1, <3>2 DEF FewDisturbed
  <2>2. ASSUME NEW c \in Command, Disturbed' \subseteq Disturbed \cup {c}, Troubles' = Troubles + 1
        PROVE  FewDisturbed'
    <3>1. /\ IsFiniteSet(Disturbed \cup {c})
          /\ Cardinality(Disturbed \cup {c}) \in Nat
          /\ Cardinality(Disturbed \cup {c}) <= Cardinality(Disturbed) + 1
      <4>1. IsFiniteSet(Disturbed)
        BY DEF FewDisturbed
      <4>2. /\ IsFiniteSet(Disturbed \cup {c})
            /\ Cardinality(Disturbed \cup {c}) =
                 IF c \in Disturbed THEN Cardinality(Disturbed) ELSE Cardinality(Disturbed) + 1
        BY <4>1, FS_AddElement
      <4> HIDE DEF Disturbed
      <4> QED BY <2>0, <4>2
    <3>2. IsFiniteSet(Disturbed') /\ Cardinality(Disturbed') <= Cardinality(Disturbed \cup {c})
      BY <2>2, <3>1, FS_Subset
    <3>3. Cardinality(Disturbed') \in Nat
      BY <3>2, FS_CardinalityType
    <3> QED BY <2>0, <2>2, <3>1, <3>2, <3>3 DEF FewDisturbed
  <2> QED BY <2>1, <2>2, StopsDisturb
<1> QED BY <1>1, <1>2, Typed, PTL DEF Spec

\* The commands that took effect more than once.
Repeated == {c \in Command : applied[c] > 1}

(* Each stop, and each call that raised, repeats the effect of at most one
   command: the commands that took effect twice are no more than these,
   however many were claimed, in the batch or in a conversation, when the
   runtime went. *)
THEOREM EachStopRepeatsOne ==
  Spec => [](IsFiniteSet(Repeated) /\ Cardinality(Repeated) <= crashes + faults)
<1>1. TypeOK /\ FewDisturbed => IsFiniteSet(Repeated) /\ Cardinality(Repeated) <= crashes + faults
  <2> SUFFICES ASSUME TypeOK, FewDisturbed
               PROVE  IsFiniteSet(Repeated) /\ Cardinality(Repeated) <= crashes + faults
    OBVIOUS
  <2>1. Repeated \subseteq Disturbed
    BY DEF Repeated, Disturbed
  <2>2. IsFiniteSet(Repeated) /\ Cardinality(Repeated) <= Cardinality(Disturbed)
    BY <2>1, FS_Subset DEF FewDisturbed
  <2> QED BY <2>2, FS_CardinalityType DEF FewDisturbed, TypeOK, Troubles
<1> QED BY <1>1, Typed, FewAreDisturbed, PTL
=============================================================================
