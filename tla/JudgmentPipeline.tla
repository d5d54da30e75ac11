-------------------------- MODULE JudgmentPipeline --------------------------
(***************************************************************************)
(* What one decision cycle promises its user, without threads, retries or  *)
(* ledgers: while the window is open the user's draft changes freely; the  *)
(* lock turns the draft, as it is at that instant, into H0 for good; M1 is *)
(* published once; M2 once, and only over an H0 and a qualified M1.        *)
(***************************************************************************)
CONSTANT Notes   \* the words the user may put into the draft

VARIABLES stage, draft, h0, judged

vars == <<stage, draft, h0, judged>>

Init == stage = "preparing" /\ draft = {} /\ h0 = {} /\ judged = "not"

OpenWindow ==
  /\ stage = "preparing" /\ stage' = "open"
  /\ UNCHANGED <<draft, h0, judged>>

(* One note is added, withdrawn or replaced by another; the draft of an    *)
(* aborted cycle can still be edited, to no effect.                        *)
Write ==
  /\ stage \in {"open", "aborted"}
  /\ \E old, new \in SUBSET Notes :
       /\ \A n, k \in old : n = k
       /\ \A n, k \in new : n = k
       /\ draft' = (draft \ old) \cup new
  /\ UNCHANGED <<stage, h0, judged>>

Lock ==
  /\ stage = "open" /\ stage' = "judging"
  /\ h0' = draft
  /\ UNCHANGED <<draft, judged>>

Judge ==
  /\ stage = "judging"
  /\ judged' \in {"qualified", "unqualified"}
  /\ stage' = IF judged' = "qualified" /\ h0 # {} THEN "synthesizing" ELSE "complete"
  /\ UNCHANGED <<draft, h0>>

Synthesise ==
  /\ stage = "synthesizing" /\ stage' = "complete"
  /\ UNCHANGED <<draft, h0, judged>>

Abort ==
  /\ stage \in {"preparing", "open"} /\ stage' = "aborted"
  /\ UNCHANGED <<draft, h0, judged>>

Next == OpenWindow \/ Write \/ Lock \/ Judge \/ Synthesise \/ Abort

Spec == Init /\ [][Next]_vars
=============================================================================
