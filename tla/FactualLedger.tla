--------------------------- MODULE FactualLedger ---------------------------
(***************************************************************************)
(* What the portfolio promises without threads, transactions, attempts or  *)
(* stops: a message enters the ledger as a whole, each row continuing what *)
(* was held; a message is undone as a whole, the rows of a later time      *)
(* first; an action is answered once, and "applied" only when all of it is *)
(* recorded.                                                               *)
(***************************************************************************)
EXTENDS Integers, Sequences

CONSTANTS Account, Assets, Source, Statements, Baseline, None

VARIABLES hold, ledger, receipts

vars == <<hold, ledger, receipts>>

Init ==
  /\ hold = Baseline
  /\ ledger = <<>>
  /\ receipts = [s \in Statements |-> "none"]

Number(v) == IF v = None THEN 0 ELSE v

InForce(l) == {n \in DOMAIN l : l[n].reverses = 0 /\ ~l[n].reverted}

\* The rows that m has after those of l.
New(l, m) == (Len(l) + 1) .. Len(m)

\* v is what x stands at before the k-th row of m: what the last new row
\* about x left, else what was held.
StandsAt(h, l, m, x, k, v) ==
  \/ v = h[x] /\ \A n \in New(l, m) : n < k => m[n].account # x
  \/ \E n \in New(l, m) :
       /\ n < k /\ m[n].account = x /\ v = m[n].after
       /\ \A j \in New(l, m) : n < j /\ j < k => m[j].account # x

Settles(h, l, g, m) == \A x \in Account : StandsAt(h, l, m, x, Len(m) + 1, g[x])

Continues(h, l, m) ==
  \A n \in New(l, m) : StandsAt(h, l, m, m[n].account, n, m[n].before)

(* A row does what the i-th change of the message says; beyond the changes  *)
(* a whole portfolio sets to zero what it does not list.                    *)
Says(s, r) ==
  IF r.index \in DOMAIN s.changes
  THEN LET c == s.changes[r.index]
       IN  /\ r.account = c.account
           /\ c.action = "correct" => r.after = c.shares
           /\ c.action = "buy" => Number(r.after) = Number(r.before) + c.shares
           /\ c.action = "sell" => Number(r.after) = Number(r.before) - c.shares
           /\ c.action = "sell_all" => Number(r.after) < Number(r.before)
  ELSE s.complete /\ r.account # Assets /\ r.after = 0

Recorded(l, src, i) == \E n \in DOMAIN l : l[n].source = src /\ l[n].index = i /\ l[n].reverses = 0

WholeIn(l, s) == \A i \in DOMAIN s.changes : Recorded(l, s.source, i)

(* The rows that an earlier attempt recorded stay, the others are added.    *)
Adds(s, h, l, g, m) ==
  /\ Len(m) >= Len(l) /\ \A n \in DOMAIN l : m[n] = l[n]
  /\ \A n \in New(l, m) :
       /\ m[n].source = s.source /\ m[n].reverses = 0 /\ ~m[n].reverted
       /\ Says(s, m[n])
       /\ \A k \in DOMAIN m : k # n => <<m[k].source, m[k].index, m[k].reverses>>
                                       # <<s.source, m[n].index, 0>>
  /\ Continues(h, l, m) /\ Settles(h, l, g, m)

Record(s) ==
  /\ Adds(s, hold, ledger, hold', ledger')
  /\ WholeIn(ledger', s)
  /\ UNCHANGED receipts

Undone(l, n) == [l[n] EXCEPT !.before = l[n].after, !.after = l[n].before, !.reverses = n]

\* Every row of the group is marked and has one reversal, the latest time first.
Reverses(group, h, l, g, m) ==
  /\ Len(m) >= Len(l)
  /\ \A n \in DOMAIN l : m[n] = IF n \in group THEN [l[n] EXCEPT !.reverted = TRUE] ELSE l[n]
  /\ \A n \in group : \E k \in New(l, m) : m[k].reverses = n
  /\ \A k \in New(l, m) :
       /\ m[k].reverses \in group /\ m[k] = Undone(l, m[k].reverses)
       /\ \A j \in New(l, m) : j < k => m[j].reverses # m[k].reverses /\ m[j].at >= m[k].at
  /\ Settles(h, l, g, m)

Undo(src) ==
  /\ Reverses({n \in InForce(ledger) : ledger[n].source = src}, hold, ledger, hold', ledger')
  /\ UNCHANGED receipts

Answer(s, result) ==
  /\ receipts[s] = "none"
  /\ result = "applied" => WholeIn(ledger, s)
  /\ receipts' = [receipts EXCEPT ![s] = result]
  /\ UNCHANGED <<hold, ledger>>

Next ==
  \/ \E s \in Statements :
       \/ Record(s)
       \/ \E result \in {"applied", "needs_input", "rejected", "failed"} : Answer(s, result)
  \/ \E src \in Source : Undo(src)

Spec == Init /\ [][Next]_vars
=============================================================================
