-------------------------- MODULE CommandDelivery --------------------------
(***************************************************************************)
(* What the command exchange promises the desktop, without files, scans,   *)
(* claims, retry counters or processes that stop.  A command is sent once  *)
(* and takes effect only in its turn.  Its effect may be repeated until a  *)
(* receipt is stored, and never afterwards; it is settled by the receipt   *)
(* or by the dead-letter; and what the desktop is told is final, unless    *)
(* the handling of the command raised: then it may be given up even after  *)
(* its receipt, and its failure told even after its submission.            *)
(***************************************************************************)
EXTENDS Naturals

CONSTANTS Command, Stream, StreamOf, Chat, Stop, Fragile, Malformed

VARIABLES
  sent,         \* the commands the desktop has sent
  number,       \* their place in the stream of their cycle, 0 for none
  effects,      \* how often the effect was committed
  receipted,    \* the commands with a stored receipt
  processed, dead, quarantined,   \* how a command was settled
  told,         \* what the desktop was told of it
  raised        \* the commands whose handling raised for no fault of theirs

vars == <<sent, number, effects, receipted, processed, dead, quarantined, told, raised>>

Causal(c) == StreamOf[c] \in Stream

Failed == {c \in Command : "permanent_failure" \in told[c]}

\* The command before c was settled, or c is the first one.
Turn(c) ==
  number[c] > 1 => \E d \in processed \cup dead : StreamOf[d] = StreamOf[c] /\ number[d] + 1 = number[c]

\* A stop command may overtake once a conversation of its cycle was begun.
Interrupts(c) == c \in Stop /\ \E d \in processed \cap Chat : StreamOf[d] = StreamOf[c]

Live == sent \ (Failed \cup Malformed)

Init ==
  /\ sent = {} /\ receipted = {}
  /\ processed = {} /\ dead = {} /\ quarantined = {}
  /\ number = [c \in Command |-> 0]
  /\ effects = [c \in Command |-> 0]
  /\ told = [c \in Command |-> {}]
  /\ raised = {}

(* A stream is numbered upwards; a number may be left out, never reused.   *)
Send(c) ==
  /\ c \notin sent
  /\ sent' = sent \cup {c}
  /\ number' \in [Command -> Nat]
  /\ number'[c] > 0 <=> Causal(c)
  /\ \A d \in sent : Causal(c) /\ StreamOf[d] = StreamOf[c] => number[d] < number'[c]
  /\ \A d \in Command \ {c} : number'[d] = number[d]
  /\ UNCHANGED <<effects, receipted, processed, dead, quarantined, told, raised>>

TakeEffect(c) ==
  /\ c \in Live \ receipted
  /\ Turn(c) \/ Interrupts(c)
  /\ effects' = [effects EXCEPT ![c] = @ + 1]
  /\ UNCHANGED <<sent, number, receipted, processed, dead, quarantined, told, raised>>

StoreReceipt(c) ==
  /\ c \in Live \ receipted /\ effects[c] > 0
  /\ receipted' = receipted \cup {c}
  /\ UNCHANGED <<sent, number, effects, processed, dead, quarantined, told, raised>>

(* The receipt settles a command; one of a cycle has been answered first,  *)
(* but for a stop command read inside the conversation.  What completes it *)
(* may raise after it is done.                                             *)
Complete(c) ==
  /\ c \in (Live \cap receipted) \ processed
  /\ Causal(c) /\ c \notin Stop => "submitted" \in told[c]
  /\ processed' = processed \cup {c}
  /\ raised' \in {raised, raised \cup {c}}
  /\ UNCHANGED <<sent, number, effects, receipted, dead, quarantined, told>>

Raise(c) ==
  /\ c \in sent
  /\ raised' = raised \cup {c}
  /\ UNCHANGED <<sent, number, effects, receipted, processed, dead, quarantined, told>>

(* It is given up while its turn has not come, or for its own failure, or  *)
(* when its handling raised.                                               *)
Bury(c) ==
  /\ c \in Live \ processed
  /\ ~Turn(c) \/ c \in Fragile \ receipted \/ c \in raised
  /\ dead' = dead \cup {c}
  /\ UNCHANGED <<sent, number, effects, receipted, processed, quarantined, told, raised>>

Quarantine(S) ==
  /\ S \subseteq sent \cap Malformed
  /\ quarantined' = quarantined \cup S
  /\ UNCHANGED <<sent, number, effects, receipted, processed, dead, told, raised>>

Tell(c, state) ==
  /\ told' = [told EXCEPT ![c] = @ \cup {state}]
  /\ UNCHANGED <<sent, number, effects, receipted, processed, dead, quarantined, raised>>

TellDeferred(c) ==
  /\ c \in Live \ processed /\ ~Turn(c)
  /\ Tell(c, "deferred")

TellSubmitted(c) ==
  /\ c \in Live \cap receipted
  /\ Tell(c, "submitted")

TellRecovered(c) ==
  /\ c \in Live \cap receipted
  /\ Tell(c, "recovered")

TellFailed(c) ==
  /\ c \in dead \ processed
  /\ "submitted" \in told[c] => c \in raised
  /\ Tell(c, "permanent_failure")

Next ==
  \/ \E c \in Command :
       \/ Send(c) \/ TakeEffect(c) \/ StoreReceipt(c) \/ Complete(c) \/ Raise(c) \/ Bury(c)
       \/ Causal(c) /\ (TellDeferred(c) \/ TellSubmitted(c) \/ TellRecovered(c) \/ TellFailed(c))
  \/ \E S \in SUBSET Malformed : Quarantine(S)

Spec == Init /\ [][Next]_vars
=============================================================================
