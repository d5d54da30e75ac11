-------------------------- MODULE CommandExchange --------------------------
(***************************************************************************)
(* The file exchange that carries user commands from the desktop to the    *)
(* runtime (exchange.py, CompanionExchangeService.cs) and the loop of the  *)
(* runtime that executes them (consume in __main__.py).                    *)
(*                                                                         *)
(* A command is one JSON file named after its command id.  The file moves  *)
(* between four directories: pending, processing, processed, dead-letter.  *)
(* Every move is one atomic rename; the runtime may stop between any two   *)
(* of them, and between a store transaction and a rename.  Commands of one *)
(* decision cycle form a causal stream and carry a sequence number that    *)
(* the desktop reserves before it writes the file.                         *)
(***************************************************************************)
EXTENDS Naturals, FiniteSets

CONSTANTS
  Command,       \* the command ids the desktop may send
  Stream,        \* the causal streams, one per decision cycle
  NoStream,      \* memory, schedule, portfolio and tool commands have none
  StreamOf,      \* [Command -> Stream \cup {NoStream}]
  Chat,          \* commands followed by a long conversation (run_chat)
  Stop,          \* terminate_chat_research: read while a conversation runs
  Fragile,       \* commands whose handler may raise before it changes state
  Malformed,     \* files whose content cannot be read as a command
  MaxRetries,    \* MAX_CAUSAL_RETRIES: the deferral that buries a command
  MaxTroubles,   \* bound on stops of the runtime and raising calls, together
  MaxGaps,       \* bound on stops of the desktop between reserve and write
  NoCommand

ASSUME ExchangeConstants ==
  /\ StreamOf \in [Command -> Stream \cup {NoStream}]
  /\ NoStream \notin Stream
  /\ NoCommand \notin Command
  /\ Chat \subseteq Command
  /\ Stop \subseteq Command
  /\ Fragile \subseteq Command
  /\ Malformed \subseteq Command
  /\ Chat \cap Stop = {}
  /\ \A c \in Chat \cup Stop : StreamOf[c] \in Stream
  /\ MaxRetries \in Nat \ {0}
  /\ MaxTroubles \in Nat
  /\ MaxGaps \in Nat

VARIABLES
  nextSequence,  \* the desktop's persisted counter, one file per stream
  writing,       \* the command a stream's gate is held for, or NoCommand
  sequence,      \* the causal sequence reserved for a command, 0 for none
  sent,          \* the commands whose file the desktop has published
  pending, processing, processed,   \* the directories, as sets of commands
  dead,          \* dead-letter files that hold the body they received
  quarantined,   \* dead-letter files that hold unreadable content
  retries,       \* causal-retries.json
  recovered,     \* _recovered_commands, in memory
  seen,          \* the files a directory scan is known to return
  batch,         \* claimed commands the consume loop has not reached yet
  current,       \* the command the loop is executing
  controls,      \* stop commands claimed during a conversation
  control,       \* the stop command being executed
  pc,            \* where the consume loop stands
  applied,       \* how often the command's effect was committed
  receipted,     \* commands with a row in companion_command_receipt
  told,          \* states of the command receipts queued for the desktop
  crashes, gaps, \* how often the runtime, the desktop stopped
  faults,        \* how often a call of the consume loop raised
  raised         \* history: the commands at whose handling one raised

desktopVars == <<nextSequence, writing, sequence, sent, gaps>>
fileVars    == <<pending, processing, processed, dead, quarantined, retries>>
loopVars    == <<recovered, seen, batch, current, controls, control, pc>>
storeVars   == <<applied, receipted, told>>
troubleVars == <<crashes, faults, raised>>
vars        == <<desktopVars, fileVars, loopVars, storeVars, troubleVars>>

Points == {"idle", "scan", "next", "defer", "deferred", "bury", "buried",
           "reject", "unlink", "receipt", "report", "ack", "chat", "control",
           "controlReceipt", "controlAck"}

Causal(c) == StreamOf[c] \in Stream

Init ==
  /\ nextSequence = [s \in Stream |-> 1]
  /\ writing = [s \in Stream |-> NoCommand]
  /\ sequence = [c \in Command |-> 0]
  /\ sent = {}
  /\ pending = {} /\ processing = {} /\ processed = {}
  /\ dead = {} /\ quarantined = {}
  /\ retries = [c \in Command |-> 0]
  /\ recovered = {} /\ seen = {} /\ batch = {} /\ controls = {}
  /\ current = NoCommand /\ control = NoCommand
  /\ pc = "idle"
  /\ applied = [c \in Command |-> 0]
  /\ receipted = {}
  /\ told = [c \in Command |-> {}]
  /\ crashes = 0 /\ gaps = 0
  /\ faults = 0 /\ raised = {}

-----------------------------------------------------------------------------
(* The desktop.  One gate per stream serialises reserve and write.         *)

(* NextCausalSequence: the counter file is advanced before the command is  *)
(* written.  It is never behind the numbers found in the directories.      *)
Reserve(c) ==
  /\ Causal(c) /\ c \notin sent
  /\ writing[StreamOf[c]] = NoCommand
  /\ sequence' = [sequence EXCEPT ![c] = nextSequence[StreamOf[c]]]
  /\ nextSequence' = [nextSequence EXCEPT ![StreamOf[c]] = @ + 1]
  /\ writing' = [writing EXCEPT ![StreamOf[c]] = c]
  /\ UNCHANGED <<sent, gaps, fileVars, loopVars, storeVars, troubleVars>>

(* The temporary file is moved into pending. *)
Publish(c) ==
  /\ c \notin sent
  /\ Causal(c) => writing[StreamOf[c]] = c
  /\ sent' = sent \cup {c}
  /\ pending' = pending \cup {c}
  /\ writing' = [s \in Stream |-> IF writing[s] = c THEN NoCommand ELSE writing[s]]
  /\ UNCHANGED <<nextSequence, sequence, gaps, processing, processed, dead,
                 quarantined, retries, loopVars, storeVars, troubleVars>>

(* The desktop stops after it reserved a number: the number stays a gap.   *)
DesktopStop(s) ==
  /\ writing[s] # NoCommand /\ gaps < MaxGaps
  /\ sequence' = [sequence EXCEPT ![writing[s]] = 0]
  /\ writing' = [writing EXCEPT ![s] = NoCommand]
  /\ gaps' = gaps + 1
  /\ UNCHANGED <<nextSequence, sent, fileVars, loopVars, storeVars, troubleVars>>

-----------------------------------------------------------------------------
(* receive: what a crashed or interrupted pass left in processing returns  *)
(* to pending, then every file found in pending is claimed.                *)

(* A recovery that forgets the claims it clears (for comparison). *)
PendingOnly == pending

(* _recover_processing: a claim whose file also is in pending just goes. *)
Recovering == pending \cup processing

StartScan ==
  /\ pc = "idle" /\ pending \cup processing # {}
  /\ pending' = Recovering
  /\ processing' = {}
  /\ recovered' = recovered \cup processing
  /\ seen' = Recovering
  /\ pc' = "scan"
  /\ UNCHANGED <<desktopVars, processed, dead, quarantined, retries, batch,
                 current, controls, control, storeVars, troubleVars>>

(* A directory listing may or may not return a file published while it ran. *)
EndScan ==
  /\ pc = "scan"
  /\ \E late \in SUBSET (pending \ seen) :
       LET found == seen \cup late
       IN  /\ pending' = pending \ found
           /\ processing' = found \ Malformed
           /\ quarantined' = quarantined \cup (found \cap Malformed)
           /\ batch' = found \ Malformed
  /\ seen' = {}
  /\ pc' = "next"
  /\ UNCHANGED <<desktopVars, processed, dead, retries, recovered, current,
                 controls, control, storeVars, troubleVars>>

(* An order by file name only (for comparison). *)
CausalFirst(c, d) == Causal(c) /\ ~Causal(d)

(* _causal_sort_key: causal commands first, by sequence within a stream.   *)
Before(c, d) ==
  \/ Causal(c) /\ ~Causal(d)
  \/ /\ Causal(c) /\ Causal(d) /\ StreamOf[c] = StreamOf[d]
     /\ sequence[c] < sequence[d]

First(c, S) == c \in S /\ \A d \in S : ~Before(d, c)

Settled == processed \cup dead

(* A check that a predecessor was sent, not that it was settled. *)
PredecessorSent(c) ==
  sequence[c] <= 1 \/ \E d \in sent : /\ StreamOf[d] = StreamOf[c]
                                      /\ sequence[d] + 1 = sequence[c]

(* causal_predecessor_ready: quarantined content names no predecessor. *)
Ready(c) ==
  \/ sequence[c] <= 1
  \/ \E d \in Settled : /\ StreamOf[d] = StreamOf[c]
                        /\ sequence[d] + 1 = sequence[c]

EndPass ==
  /\ pc = "next" /\ batch = {}
  /\ pc' = "idle"
  /\ UNCHANGED <<desktopVars, fileVars, recovered, seen, batch, current,
                 controls, control, storeVars, troubleVars>>

(* The loop is done with the command, for this pass. *)
Leave == pc' = "next" /\ current' = NoCommand

Enter(c) ==
  /\ pc = "next" /\ First(c, batch)
  /\ batch' = batch \ {c}

(* An attempt that is not counted (for comparison). *)
AttemptsForgotten(c) == retries[c]

Attempts(c) == retries[c] + 1
Exhausted(n) == n >= MaxRetries

(* defer: the attempt is counted on disk before the file goes back.  When  *)
(* the claimed file is gone its reading raises.                            *)
Defer(c) ==
  /\ Enter(c) /\ ~Ready(c)
  /\ current' = c
  /\ \/ /\ c \notin processing
        /\ pc' = "reject" /\ UNCHANGED <<dead, retries>>
     \/ /\ c \in processing /\ Exhausted(Attempts(c))
        /\ dead' = dead \cup {c}
        /\ pc' = "bury" /\ UNCHANGED retries
     \/ /\ c \in processing /\ ~Exhausted(Attempts(c))
        /\ retries' = [retries EXCEPT ![c] = Attempts(c)]
        /\ pc' = "defer" /\ UNCHANGED dead
  /\ UNCHANGED <<desktopVars, pending, processing, processed, quarantined, recovered,
                 seen, controls, control, storeVars, troubleVars>>

ReturnDeferred ==
  /\ pc = "defer"
  /\ pending' = pending \cup {current}
  /\ processing' = processing \ {current}
  /\ pc' = "deferred"
  /\ UNCHANGED <<desktopVars, processed, dead, quarantined, retries, recovered,
                 seen, batch, current, controls, control, storeVars, troubleVars>>

(* The tail of defer and of reject: the claimed file is removed once the   *)
(* dead-letter file exists.  The attempt counter of a settled command is   *)
(* never read again, so its removal is part of the same step.              *)
RemoveBuried ==
  /\ pc \in {"bury", "unlink"}
  /\ processing' = processing \ {current}
  /\ retries' = [retries EXCEPT ![current] = 0]
  /\ pc' = "buried"
  /\ UNCHANGED <<desktopVars, pending, processed, dead, quarantined, recovered,
                 seen, batch, current, controls, control, storeVars, troubleVars>>

(* Receipt lookups gone wrong: forgetful of a recovered command, and       *)
(* satisfied by an effect whose receipt was not stored.                    *)
ReplayedUnlessRecovered(c) == c \in receipted \ recovered
ReplayedByEffect(c) == applied[c] > 0

(* store.receipt returns the result of an earlier execution. *)
Replayed(c) == c \in receipted

(* engine.command and the other handlers return the stored receipt of a    *)
(* command seen before; otherwise the effect is committed and the receipt  *)
(* is saved in a later transaction.                                        *)
Execute(c) ==
  /\ Enter(c) /\ Ready(c)
  /\ IF Replayed(c)
       THEN pc' = "report" /\ UNCHANGED applied
       ELSE pc' = "receipt" /\ applied' = [applied EXCEPT ![c] = @ + 1]
  /\ current' = c
  /\ UNCHANGED <<desktopVars, fileVars, recovered, seen, controls, control,
                 receipted, told, troubleVars>>

(* The handler raises for what the command asks. *)
Refuse(c) ==
  /\ Enter(c) /\ Ready(c) /\ c \in Fragile /\ ~Replayed(c)
  /\ current' = c
  /\ pc' = "reject"
  /\ UNCHANGED <<desktopVars, fileVars, recovered, seen, controls, control,
                 storeVars, troubleVars>>

(* reject preserves in dead-letter whatever raised before it was           *)
(* acknowledged.  Without a claimed file reject raises too; its error is   *)
(* swallowed and the loop goes on.                                         *)
Reject ==
  /\ pc = "reject"
  /\ IF current \in processing
       THEN dead' = dead \cup {current} /\ pc' = "unlink" /\ UNCHANGED current
       ELSE Leave /\ UNCHANGED dead
  /\ UNCHANGED <<desktopVars, pending, processing, processed, quarantined, retries,
                 recovered, seen, batch, controls, control, storeVars, troubleVars>>

SaveReceipt ==
  /\ pc = "receipt"
  /\ receipted' = receipted \cup {current}
  /\ pc' = "report"
  /\ UNCHANGED <<desktopVars, fileVars, recovered, seen, batch, current,
                 controls, control, applied, told, troubleVars>>

(* _queue_command_receipt: only commands of a decision cycle are told.     *)
Tell(c, state) ==
  told' = IF Causal(c) THEN [told EXCEPT ![c] = @ \cup {state}] ELSE told

ReportDeferred ==
  /\ pc = "deferred"
  /\ Tell(current, "deferred")
  /\ Leave
  /\ UNCHANGED <<desktopVars, fileVars, recovered, seen, batch,
                 controls, control, applied, receipted, troubleVars>>

ReportFailure ==
  /\ pc = "buried"
  /\ Tell(current, "permanent_failure")
  /\ Leave
  /\ UNCHANGED <<desktopVars, fileVars, recovered, seen, batch,
                 controls, control, applied, receipted, troubleVars>>

(* The outbox is flushed between the two receipts of a recovered command.  *)
ReportRecovered ==
  /\ pc = "report" /\ Causal(current) /\ current \in recovered
  /\ Tell(current, "recovered")
  /\ recovered' = recovered \ {current}
  /\ UNCHANGED <<desktopVars, fileVars, seen, batch, current, controls,
                 control, pc, applied, receipted, troubleVars>>

Report ==
  /\ pc = "report" /\ ~(Causal(current) /\ current \in recovered)
  /\ Tell(current, "submitted")
  /\ pc' = "ack"
  /\ UNCHANGED <<desktopVars, fileVars, recovered, seen, batch, current, controls,
                 control, applied, receipted, troubleVars>>

(* acknowledge.  When the claimed file is gone the rename raises, and the  *)
(* loop goes on without the long work that follows.                        *)
Acknowledge ==
  /\ pc = "ack"
  /\ IF current \in processing
       THEN /\ processing' = processing \ {current}
            /\ processed' = processed \cup {current}
            /\ retries' = [retries EXCEPT ![current] = 0]
            /\ IF current \in Chat THEN pc' = "chat" /\ UNCHANGED current ELSE Leave
       ELSE pc' = "reject" /\ UNCHANGED <<processing, processed, retries, current>>
  /\ UNCHANGED <<desktopVars, pending, dead, quarantined, recovered, seen,
                 batch, controls, control, storeVars, troubleVars>>

-----------------------------------------------------------------------------
(* The conversation polls interrupt_chat_research: it receives again, only *)
(* the stop commands of its own cycle, and executes them at once.          *)

PollControls ==
  /\ pc = "chat"
  /\ LET found   == Recovering
         stops   == {c \in Stop \ Malformed : c \in found /\ StreamOf[c] = StreamOf[current]}
     IN  /\ found # {}
         /\ pending' = found \ (stops \cup Malformed)
         /\ processing' = stops
         /\ quarantined' = quarantined \cup (found \cap Malformed)
         /\ controls' = stops
         /\ pc' = IF stops = {} THEN "chat" ELSE "control"
  /\ recovered' = recovered \cup processing
  /\ UNCHANGED <<desktopVars, processed, dead, retries, seen, batch, current,
                 control, storeVars, troubleVars>>

ExecuteControl(c) ==
  /\ pc = "control" /\ First(c, controls)
  /\ controls' = controls \ {c}
  /\ control' = c
  /\ IF Replayed(c)
       THEN pc' = "controlAck" /\ UNCHANGED applied
       ELSE pc' = "controlReceipt" /\ applied' = [applied EXCEPT ![c] = @ + 1]
  /\ UNCHANGED <<desktopVars, fileVars, recovered, seen, batch, current,
                 receipted, told, troubleVars>>

(* The error leaves the conversation; the other controls stay claimed.     *)
RefuseControl(c) ==
  /\ pc = "control" /\ First(c, controls) /\ c \in Fragile /\ ~Replayed(c)
  /\ controls' = {}
  /\ Leave
  /\ UNCHANGED <<desktopVars, fileVars, recovered, seen, batch,
                 control, storeVars, troubleVars>>

SaveControlReceipt ==
  /\ pc = "controlReceipt"
  /\ receipted' = receipted \cup {control}
  /\ pc' = "controlAck"
  /\ UNCHANGED <<desktopVars, fileVars, recovered, seen, batch, current,
                 controls, control, applied, told, troubleVars>>

AcknowledgeControl ==
  /\ pc = "controlAck"
  /\ processing' = processing \ {control}
  /\ processed' = processed \cup {control}
  /\ retries' = [retries EXCEPT ![control] = 0]
  /\ control' = NoCommand
  /\ pc' = IF controls = {} THEN "chat" ELSE "control"
  /\ UNCHANGED <<desktopVars, pending, dead, quarantined, recovered, seen,
                 batch, current, controls, storeVars, troubleVars>>

EndChat ==
  /\ pc = "chat"
  /\ Leave
  /\ UNCHANGED <<desktopVars, fileVars, recovered, seen, batch,
                 controls, control, storeVars, troubleVars>>

-----------------------------------------------------------------------------
(* A call of the loop raises where nothing is wrong with the command: the  *)
(* store is locked, a file is held open by another process.                *)
Fault(c) ==
  /\ crashes + faults < MaxTroubles
  /\ faults' = faults + 1
  /\ raised' = raised \cup {c}
  /\ UNCHANGED crashes

(* Before anything was done: in the search of the predecessor, the count   *)
(* of the attempts, the handler.                                           *)
HandlerRaises(c) ==
  /\ Enter(c) /\ Fault(c)
  /\ current' = c
  /\ pc' = "reject"
  /\ UNCHANGED <<desktopVars, fileVars, recovered, seen, controls, control, storeVars>>

(* Before the command is acknowledged: in the rename or removal of defer,  *)
(* the saving of the receipt, the flush, the rename of acknowledge.        *)
LoopRaises ==
  /\ pc \in {"defer", "bury", "receipt", "report", "ack"}
  /\ Fault(current)
  /\ pc' = "reject"
  /\ UNCHANGED <<desktopVars, fileVars, recovered, seen, batch, current, controls,
                 control, storeVars>>

(* In reject itself, or where the claimed file has left processing: the    *)
(* error of reject is swallowed, and nothing is told.                      *)
RejectRaises ==
  /\ pc \in {"deferred", "buried", "reject", "unlink"}
  /\ Fault(current)
  /\ Leave
  /\ UNCHANGED <<desktopVars, fileVars, recovered, seen, batch, controls,
                 control, storeVars>>

(* In the removal of the attempt counter, the file being acknowledged.     *)
ClearRaises ==
  /\ pc = "ack" /\ current \in processing
  /\ Fault(current)
  /\ processing' = processing \ {current}
  /\ processed' = processed \cup {current}
  /\ Leave
  /\ UNCHANGED <<desktopVars, pending, dead, quarantined, retries, recovered, seen,
                 batch, controls, control, storeVars>>

(* In a conversation: the error leaves it, before or after the rename.     *)
ControlRaises(c) ==
  /\ \/ pc = "control" /\ First(c, controls)
     \/ pc \in {"controlReceipt", "controlAck"} /\ c = control
  /\ Fault(c)
  /\ \/ UNCHANGED <<processing, processed>>
     \/ /\ pc = "controlAck"
        /\ processing' = processing \ {c}
        /\ processed' = processed \cup {c}
  /\ controls' = {} /\ control' = NoCommand
  /\ Leave
  /\ UNCHANGED <<desktopVars, pending, dead, quarantined, retries, recovered, seen,
                 batch, storeVars>>

(* In the claims of a scan: the error leaves consume, and the next pass    *)
(* recovers what was claimed.                                              *)
ScanRaises ==
  /\ pc = "scan" /\ crashes + faults < MaxTroubles
  /\ faults' = faults + 1
  /\ \E claimed \in SUBSET pending :
       /\ pending' = pending \ claimed
       /\ processing' = claimed \ Malformed
       /\ quarantined' = quarantined \cup (claimed \cap Malformed)
  /\ seen' = {}
  /\ pc' = "idle"
  /\ UNCHANGED <<desktopVars, processed, dead, retries, recovered, batch, current,
                 controls, control, storeVars, crashes, raised>>

Raises ==
  \/ \E c \in batch : HandlerRaises(c)
  \/ LoopRaises \/ RejectRaises \/ ClearRaises \/ ScanRaises
  \/ \E c \in Stop : ControlRaises(c)

(* The runtime stops: what it held in memory is gone, the files and the    *)
(* store stay.                                                             *)
Crash ==
  /\ crashes + faults < MaxTroubles
  /\ crashes' = crashes + 1
  /\ pc' = "idle"
  /\ recovered' = {} /\ seen' = {} /\ batch' = {} /\ controls' = {}
  /\ current' = NoCommand /\ control' = NoCommand
  /\ UNCHANGED <<desktopVars, fileVars, storeVars, faults, raised>>

RuntimeStep ==
  \/ StartScan \/ EndScan \/ EndPass
  \/ \E c \in batch : Defer(c) \/ Execute(c) \/ Refuse(c)
  \/ ReturnDeferred \/ ReportDeferred \/ RemoveBuried \/ ReportFailure \/ Reject
  \/ SaveReceipt \/ ReportRecovered \/ Report \/ Acknowledge
  \/ PollControls \/ EndChat
  \/ \E c \in controls : ExecuteControl(c) \/ RefuseControl(c)
  \/ SaveControlReceipt \/ AcknowledgeControl

DesktopStep == \E c \in Command : Reserve(c) \/ Publish(c)

Next ==
  \/ RuntimeStep
  \/ DesktopStep
  \/ \E s \in Stream : DesktopStop(s)
  \/ Raises
  \/ Crash

Spec == Init /\ [][Next]_vars

(* The gateway runs consume again every few seconds, and a conversation    *)
(* ends at its deadline: the loop always takes its next step.              *)
FairSpec == Spec /\ WF_vars(RuntimeStep)

-----------------------------------------------------------------------------
(* Properties. *)

Within(c) == {d \in Command : StreamOf[d] = StreamOf[c]}

(* Every variable keeps its type: the directories hold commands, and an
   attempt count stays below the bound that buries the command. *)
TypeOK ==
  /\ nextSequence \in [Stream -> Nat \ {0}]
  /\ writing \in [Stream -> Command \cup {NoCommand}]
  /\ sequence \in [Command -> Nat]
  /\ sent \subseteq Command
  /\ pending \subseteq Command /\ processing \subseteq Command
  /\ processed \subseteq Command /\ dead \subseteq Command
  /\ quarantined \subseteq Command
  /\ retries \in [Command -> 0..(MaxRetries - 1)]
  /\ recovered \subseteq Command /\ seen \subseteq Command
  /\ batch \subseteq Command /\ controls \subseteq Command
  /\ current \in Command \cup {NoCommand}
  /\ control \in Command \cup {NoCommand}
  /\ pc \in Points
  /\ applied \in [Command -> Nat]
  /\ receipted \subseteq Command
  /\ told \in [Command -> SUBSET {"deferred", "permanent_failure", "recovered", "submitted"}]
  /\ crashes \in Nat /\ faults \in Nat /\ crashes + faults <= MaxTroubles
  /\ gaps \in 0..MaxGaps
  /\ raised \subseteq Command

(* A published command is always in one of the directories, whatever rename
   the runtime stops before: dead-letter is written before the claim goes. *)
NothingLost ==
  sent \subseteq pending \cup processing \cup processed \cup dead \cup quarantined

(* "A command with an explicit causal sequence is never executed until its
   immediate predecessor has been durably acknowledged" (consume); a
   dead-lettered predecessor counts as settled.  A stop command read inside
   a conversation is exempt: interrupt_chat_research does not test it. *)
CausalOrder ==
  \A c \in Command \ Stop : applied[c] > 0 /\ sequence[c] > 1 =>
      \E d \in Settled \cap Within(c) : sequence[d] + 1 = sequence[c]

\* d follows c, and no stop command was sent between them.
Follows(d, c) ==
  /\ d \in Within(c) /\ sequence[c] < sequence[d]
  /\ \A e \in Within(c) \cap Stop : ~(sequence[c] < sequence[e] /\ sequence[e] < sequence[d])

(* The commands at which, or before which in their cycle, a call raised. *)
Afflicted ==
  {c \in Command : \E d \in raised : d = c \/ (d \in Within(c) /\ sequence[d] < sequence[c])}

(* While no sequence number is missing, effects of one cycle are first
   committed in the order the user sent them, unless a stop command that was
   executed inside a conversation let its successors pass: no command takes
   effect after one that follows it, unless it was dead-lettered before.  A
   call that raises at a command still waiting for its turn dead-letters it,
   and so lets those after it pass the ones before it. *)
EffectsInOrder ==
  [][gaps = 0 /\ quarantined = {} =>
       \A c \in Command \ (Stop \cup dead) : Causal(c) /\ applied[c] = 0 /\ applied'[c] > 0 =>
         \A d \in Command \ (Stop \cup Afflicted) : Follows(d, c) => applied[d] = 0]_vars

(* A command whose receipt is stored is never executed again, however often
   its file is recovered, claimed twice or held by a stale claim. *)
NoReapply == [][\A c \in receipted : applied'[c] = applied[c]]_vars

(* "accepts an idempotent command identified by command_id": one effect. *)
AppliedOnce == \A c \in Command : applied[c] <= 1

(* "Publish only durable Runtime knowledge": what the desktop is told was
   submitted has a stored receipt; what it is told failed for good stays in
   dead-letter only, never to be executed or acknowledged; and it is told
   both of a command only when a call raised between the two, in the rename
   that acknowledges it. *)
ToldTheTruth ==
  \A c \in Command :
    /\ "submitted" \in told[c] => c \in receipted
    /\ "permanent_failure" \in told[c] =>
          /\ c \in dead /\ c \notin pending \cup processing \cup processed
          /\ "submitted" \in told[c] => c \in raised

\* When one stop command of a conversation raises, the others stay claimed.
Abandoned == IF Stop \cap (Fragile \cup raised) = {} THEN {} ELSE Stop

(* While no sequence number is missing, for want of its file or of a file
   that can be read, a command is dead-lettered only when its own handler
   refuses it, or a call raised at it or at one before it in its cycle: a
   race of publication against the directory scan, a stale claim, a restart
   or a scan cut short never costs a valid command, but for a stop command
   that another one's failure left claimed in every conversation. *)
ValidNeverBuried ==
  gaps = 0 /\ quarantined = {} => dead \subseteq Fragile \cup Abandoned \cup Afflicted

(* The numbers of the commands sent: one reserved before a command is
   written is not yet seen. *)
Delivery == INSTANCE CommandDelivery WITH
  number <- [c \in Command |-> IF c \in sent THEN sequence[c] ELSE 0],
  effects <- applied

(* Whatever is renamed, claimed, recovered, retried or cut short on the way,
   the exchange delivers: a command is sent once, takes effect in its turn
   and until its receipt is stored, and is settled and answered for good,
   unless a call raised at it. *)
ImplementsDelivery == Delivery!Spec

(* Every published command is eventually processed, dead-lettered or set
   aside: again and again nothing published is left open, and what is
   settled stays so. *)
EverySettles == []<>(sent \subseteq Settled \cup quarantined)

Final == {"submitted", "permanent_failure"}

(* Unless the runtime is stopped or a call raises at it, every published
   command of a cycle is eventually answered with a final receipt, but for a
   stop command read inside a conversation. *)
EveryAnswered ==
  []<>(\A c \in sent \ Stop : Causal(c) =>
         c \in quarantined \cup raised \/ crashes > 0 \/ told[c] \cap Final # {})
=============================================================================
