----------------------------- MODULE Portfolio -----------------------------
(* The factual ledger of portfolio.py: what the user says he bought, sold   *)
(* or holds becomes rows of portfolio_transaction and values of             *)
(* portfolio_position, under idempotency keys; the newest group of rows can *)
(* be undone by rows that reverse it.  The threads of the gateway share the *)
(* database: the ticker and the conversation dispatcher execute actions of  *)
(* the cognition, HTTP commands undo.  A message is resolved against        *)
(* holdings read before the transaction that writes, and retried by another *)
(* worker when its first one is stopped or outlives its lease.              *)
(*                                                                          *)
(* Prices, costs, names and times of trades are left out; of the wording    *)
(* only whether it states a fact, a plan, or lacks something.               *)
EXTENDS Integers, Sequences, FiniteSets, SequencesExt

CONSTANTS
  Code,        \* instruments
  Assets,      \* the account total, a value of portfolio_meta
  Source,      \* sealed messages: source_artifact_id
  Statements,  \* the portfolio actions the cognition may extract from them
  Baseline,    \* imported holdings
  Teller,      \* threads that execute actions of the cognition
  Undoer,      \* threads that execute revert_transaction
  MaxMessages, \* bound: messages that may be recorded
  None         \* no row; nobody

Account == Code \cup {Assets}
Worker == Teller \cup Undoer

Change == [action: {"buy", "sell", "sell_all", "correct"}, account: Account, shares: Nat]
Statement == [source: Source, complete: BOOLEAN, wording: {"fact", "plan", "unclear"},
              changes: Seq(Change)]

Value == Int \cup {None}

\* index: place in the message; reverses: the row a reversal undoes, else 0;
\* named: the position saved in before_json has its code.
Row == [source: Source, index: Nat \ {0}, account: Account, before: Value, after: Value,
        named: BOOLEAN, at: Nat, reverses: Nat, reverted: BOOLEAN]

ASSUME PortfolioAssumption ==
  /\ IsFiniteSet(Code) /\ Assets \notin Code
  /\ None \notin Int \cup Worker
  /\ MaxMessages \in Nat
  /\ Statements \subseteq Statement
  /\ Baseline \in [Account -> Nat \cup {None}]

VARIABLES
  hold,      \* shares of each code and the account total, as committed
  ledger,    \* portfolio_transaction in the order of insertion, as committed
  owner,     \* who is inside BEGIN IMMEDIATE ... COMMIT
  draft,     \* what that transaction has written so far
  work,      \* what each thread is at
  receipts   \* companion_action_receipt.state of each statement

vars == <<hold, ledger, owner, draft, work, receipts>>

Idle == [step |-> "idle"]

Init ==
  /\ hold = Baseline
  /\ ledger = <<>>
  /\ owner = None
  /\ draft = [hold |-> Baseline, ledger |-> <<>>]
  /\ work = [w \in Worker |-> Idle]
  /\ receipts = [s \in Statements |-> "none"]

-----------------------------------------------------------------------------
(* Resolving a message against the holdings a snapshot shows. *)

Amount(v) == IF v = None THEN 0 ELSE v

\* snapshot() lists positions with shares > 0.
Held(h, x) == IF Amount(h[x]) > 0 THEN Amount(h[x]) ELSE 0

Resolved(c, h) ==
  IF c.action = "sell_all" THEN [c EXCEPT !.action = "sell", !.shares = Held(h, c.account)] ELSE c

\* Each change is checked by itself against the same holdings.
Acceptable(c, h) ==
  /\ c.action # "correct" => c.shares > 0 /\ c.account # Assets
  /\ c.account = Assets => c.shares > 0
  /\ c.action = "sell" => c.shares <= Held(h, c.account)

Codes(s) == {s.changes[i].account : i \in DOMAIN s.changes} \ {Assets}

\* apply_extraction: the changes of the message, or nothing.
Trades(s, h) ==
  LET plan == [i \in DOMAIN s.changes |-> Resolved(s.changes[i], h)]
  IN  IF plan # <<>> /\ \A i \in DOMAIN plan : Acceptable(plan[i], h) THEN {plan} ELSE {}

(* A snapshot that leaves unlisted positions alone (for comparison). *)
OmittedNever(s, h) == {}

\* Positions held that a complete snapshot does not list.
Omitted(s, h) == {x \in Code \ Codes(s) : Held(h, x) > 0}

Zeroed(xs) == [i \in DOMAIN xs |-> [action |-> "correct", account |-> xs[i], shares |-> 0]]

\* replace_complete_snapshot: the listed positions, and zero for every other
\* one held; their order follows market values, which are not modelled.
Snapshots(s, h) ==
  IF /\ \A i \in DOMAIN s.changes :
          s.changes[i].action = "correct" /\ Acceptable(s.changes[i], h)
     /\ \A i, j \in DOMAIN s.changes :
          i # j /\ s.changes[i].account = s.changes[j].account => s.changes[i].account = Assets
  THEN {s.changes \o Zeroed(xs) : xs \in SetToSeqs(Omitted(s, h))} \ {<<>>}
  ELSE {}

\* Only apply_extraction sorts plans out; a snapshot lacks its statement.
Rejected(s) == s.wording = "plan" /\ ~s.complete

Plans(s, h) ==
  IF s.wording # "fact" THEN {} ELSE IF s.complete THEN Snapshots(s, h) ELSE Trades(s, h)

-----------------------------------------------------------------------------
(* Executing a portfolio action. *)

Room(s) == Cardinality({s.source} \cup {ledger[n].source : n \in DOMAIN ledger}) <= MaxMessages

\* The stored receipt answers for an action executed before.
Tell(w, s) ==
  /\ work[w] = Idle
  /\ receipts[s] = "none" /\ Room(s)
  /\ \/ /\ Plans(s, hold) = {}
        /\ work' = [work EXCEPT ![w] = [step |-> "done", said |-> s,
                      result |-> IF Rejected(s) THEN "rejected" ELSE "needs_input"]]
     \/ \E plan \in Plans(s, hold) :
          work' = [work EXCEPT ![w] =
                     [step |-> "resolved", said |-> s, plan |-> plan, seen |-> hold]]
  /\ UNCHANGED <<hold, ledger, owner, draft, receipts>>

\* The draft starts from what is committed.
Open(w) ==
  /\ owner = None
  /\ owner' = w

Begin(w) ==
  /\ work[w].step = "resolved" /\ Room(work[w].said)
  /\ Open(w)
  /\ work' = [work EXCEPT ![w] =
                [step |-> "writing", said |-> @.said, plan |-> @.plan, seen |-> @.seen, next |-> 1]]
  /\ UNCHANGED <<hold, ledger, draft, receipts>>

(* Keys per message; keys freed by an undo (for comparison). *)
RecordedSource(l, src, i) == \E n \in DOMAIN l : l[n].source = src /\ l[n].reverses = 0
RecordedInForce(l, src, i) ==
  \E n \in DOMAIN l : l[n].source = src /\ l[n].index = i /\ l[n].reverses = 0 /\ ~l[n].reverted

\* idempotency_key is "source:index", whatever the change is.
Recorded(l, src, i) == \E n \in DOMAIN l : l[n].source = src /\ l[n].index = i /\ l[n].reverses = 0

After(c, v) ==
  CASE c.action = "buy" -> Amount(v) + c.shares
    [] c.action = "sell" -> Amount(v) - c.shares
    [] OTHER -> c.shares

\* now() counts milliseconds: a row has that of the latest row before it,
\* most often so within a transaction, or a later one.
Stamps(l) ==
  {t \in {1} \cup {l[n].at + d : n \in DOMAIN l, d \in {0, 1}} : \A n \in DOMAIN l : l[n].at <= t}

\* A position that the same transaction created is kept without its code.
Named(x, old) == x = Assets \/ old = None \/ hold[x] # None

Advance(w) == work' = [work EXCEPT ![w].next = @ + 1]

WriteRow(w) ==
  /\ owner = w /\ work[w].step = "writing"
  /\ work[w].next <= Len(work[w].plan)
  /\ LET src == work[w].said.source
         c == work[w].plan[work[w].next]
         old == draft.hold[c.account]
     IN \/ /\ Recorded(draft.ledger, src, work[w].next)
           /\ UNCHANGED draft
        \/ /\ ~Recorded(draft.ledger, src, work[w].next)
           /\ c.action = "buy" => After(c, old) # 0
           /\ \E at \in Stamps(draft.ledger) :
                draft' = [hold |-> [draft.hold EXCEPT ![c.account] = After(c, old)],
                          ledger |-> Append(draft.ledger,
                            [source |-> src, index |-> work[w].next, account |-> c.account,
                             before |-> old, after |-> After(c, old),
                             named |-> Named(c.account, old), at |-> at,
                             reverses |-> 0, reverted |-> FALSE])]
  /\ Advance(w)
  /\ UNCHANGED <<hold, ledger, owner, receipts>>

(* A rollback that leaves what was written (for comparison). *)
Abandon == owner' = None /\ UNCHANGED draft

RollBack == owner' = None /\ draft' = [hold |-> hold, ledger |-> ledger]

\* The mean cost of a purchase divides by the shares held after it.
DividesByZero(c) == c.action = "buy" /\ After(c, draft.hold[c.account]) = 0

\* Only a position there before the transaction has a last price to fall back on.
MayLackPrice(c) == c.action = "correct" /\ c.account # Assets /\ hold[c.account] = None

RowRaises(w) ==
  /\ owner = w /\ work[w].step = "writing"
  /\ work[w].next <= Len(work[w].plan)
  /\ ~Recorded(draft.ledger, work[w].said.source, work[w].next)
  /\ LET c == work[w].plan[work[w].next] IN DividesByZero(c) \/ MayLackPrice(c)
  /\ RollBack
  /\ work' = [work EXCEPT ![w] = [step |-> "done", said |-> @.said, result |-> "failed"]]
  /\ UNCHANGED <<hold, ledger, receipts>>

Publish == hold' = draft.hold /\ ledger' = draft.ledger /\ owner' = None

Commit(w) ==
  /\ owner = w /\ work[w].step = "writing"
  /\ work[w].next > Len(work[w].plan)
  /\ Publish
  /\ work' = [work EXCEPT ![w] = [step |-> "done", said |-> @.said, result |-> "applied"]]
  /\ UNCHANGED <<draft, receipts>>

\* INSERT OR IGNORE: the first receipt stays.
SaveReceipt(w) ==
  /\ work[w].step = "done"
  /\ receipts' = [receipts EXCEPT ![work[w].said] = IF @ = "none" THEN work[w].result ELSE @]
  /\ work' = [work EXCEPT ![w] = Idle]
  /\ UNCHANGED <<hold, ledger, owner, draft>>

-----------------------------------------------------------------------------
(* Undoing the newest group: the rows of one source. *)

Undoable(l) == {n \in DOMAIN l : l[n].reverses = 0 /\ ~l[n].reverted}

PickGroup(w) ==
  /\ work[w] = Idle
  /\ \E n \in Undoable(ledger) :
       /\ \A k \in Undoable(ledger) : ledger[k].at <= ledger[n].at
       /\ work' = [work EXCEPT ![w] = [step |-> "undo", group |-> ledger[n].source]]
  /\ UNCHANGED <<hold, ledger, owner, draft, receipts>>

Members(src) == {n \in Undoable(ledger) : ledger[n].source = src}

(* An undo in no order of times (for comparison). *)
UndoAnyOrder(src) == SetToSeqs(Members(src))

\* Newest first; rows of one millisecond in the order of their random ids.
UndoOrders(src) ==
  {o \in SetToSeqs(Members(src)) :
     \A i, j \in DOMAIN o : i < j => ledger[o[i]].at >= ledger[o[j]].at}

BeginUndo(w) ==
  /\ work[w].step = "undo"
  /\ Members(work[w].group) # {}
  /\ Open(w)
  /\ \E o \in UndoOrders(work[w].group) :
       work' = [work EXCEPT ![w] = [step |-> "undoing", rows |-> o, next |-> 1]]
  /\ UNCHANGED <<hold, ledger, draft, receipts>>

NothingToUndo(w) ==
  /\ work[w].step = "undo"
  /\ owner = None /\ Members(work[w].group) = {}
  /\ work' = [work EXCEPT ![w] = Idle]
  /\ UNCHANGED <<hold, ledger, owner, draft, receipts>>

(* A reversal that repeats its row (for comparison). *)
Repeated(l, n) == [l[n] EXCEPT !.reverses = n]

\* The time of a reversal is never read: it keeps that of its row.
Reversal(l, n) ==
  [l[n] EXCEPT !.before = l[n].after, !.after = l[n].before, !.reverses = n]

\* A position or total that was not there is deleted.
Restored(l, n) == l[n].before

RevertRow(w) ==
  /\ owner = w /\ work[w].step = "undoing"
  /\ work[w].next <= Len(work[w].rows)
  /\ LET n == work[w].rows[work[w].next]
         l == draft.ledger
     IN /\ l[n].named
        /\ draft' = [hold |-> [draft.hold EXCEPT ![l[n].account] = Restored(l, n)],
                     ledger |-> Append([l EXCEPT ![n].reverted = TRUE], Reversal(l, n))]
  /\ Advance(w)
  /\ UNCHANGED <<hold, ledger, owner, receipts>>

\* Restoring a position without a code raises, now and every later time.
UndoRaises(w) ==
  /\ owner = w /\ work[w].step = "undoing"
  /\ work[w].next <= Len(work[w].rows)
  /\ ~draft.ledger[work[w].rows[work[w].next]].named
  /\ RollBack
  /\ work' = [work EXCEPT ![w] = Idle]
  /\ UNCHANGED <<hold, ledger, receipts>>

CommitUndo(w) ==
  /\ owner = w /\ work[w].step = "undoing"
  /\ work[w].next > Len(work[w].rows)
  /\ Publish
  /\ work' = [work EXCEPT ![w] = Idle]
  /\ UNCHANGED <<draft, receipts>>

\* A stop rolls the open transaction back; unreported work is told again.
Stop ==
  /\ RollBack
  /\ work' = [w \in Worker |-> Idle]
  /\ UNCHANGED <<hold, ledger, receipts>>

TellerStep(w) ==
  \/ \E s \in Statements : Tell(w, s)
  \/ Begin(w) \/ WriteRow(w) \/ RowRaises(w) \/ Commit(w) \/ SaveReceipt(w)

UndoerStep(w) ==
  PickGroup(w) \/ BeginUndo(w) \/ NothingToUndo(w) \/ RevertRow(w)
    \/ UndoRaises(w) \/ CommitUndo(w)

Next ==
  \/ \E w \in Teller : TellerStep(w)
  \/ \E w \in Undoer : UndoerStep(w)
  \/ Stop

Spec == Init /\ [][Next]_vars

-----------------------------------------------------------------------------
(* Properties. *)

WorkType ==
  [step: {"idle"}]
    \cup [step: {"resolved"}, said: Statements, plan: Seq(Change), seen: [Account -> Value]]
    \cup [step: {"writing"}, said: Statements, plan: Seq(Change), seen: [Account -> Value],
          next: Nat \ {0}]
    \cup [step: {"done"}, said: Statements,
          result: {"applied", "needs_input", "rejected", "failed"}]
    \cup [step: {"undo"}, group: Source]
    \cup [step: {"undoing"}, rows: Seq(Nat \ {0}), next: Nat \ {0}]

(* The tables and the open transaction are well formed; whoever holds the   *)
(* write lock is inside a transaction.                                      *)
TypeOK ==
  /\ hold \in [Account -> Value]
  /\ ledger \in Seq(Row)
  /\ owner \in Worker \cup {None}
  /\ draft \in [hold: [Account -> Value], ledger: Seq(Row)]
  /\ work \in [Worker -> WorkType]
  /\ receipts \in [Statements -> {"none", "applied", "needs_input", "rejected", "failed"}]
  /\ \A w \in Worker : owner = w <=> work[w].step \in {"writing", "undoing"}
  /\ owner = None => draft = [hold |-> hold, ledger |-> ledger]

\* h is what the rows of l left, the last row of an account deciding.
Tally(h, l) ==
  \A x \in Account :
    \/ h[x] = Baseline[x] /\ \A n \in DOMAIN l : l[n].account # x
    \/ \E n \in DOMAIN l :
         /\ l[n].account = x /\ h[x] = l[n].after
         /\ \A k \in DOMAIN l : k > n => l[k].account # x

(* The audit trail accounts for every holding: whatever order threads,      *)
(* retries and undos commit in, each position and the account total is what *)
(* the last transaction row about it says, or the imported baseline.        *)
LedgerTallies == Tally(hold, ledger)

\* Row r does what the i-th change of s says.
Does(r, s, i) ==
  LET c == s.changes[i]
  IN  /\ r.source = s.source /\ r.account = c.account /\ r.reverses = 0
      /\ CASE c.action = "correct" -> r.after = c.shares
           [] c.action = "buy" -> Amount(r.after) = Amount(r.before) + c.shares
           [] c.action = "sell" -> Amount(r.after) = Amount(r.before) - c.shares
           [] OTHER -> Amount(r.after) = 0 \/ r.after # r.before

(* "The system appends true receipts after executing" (the prompt of the    *)
(* cognition): a stored receipt "applied" means that every change of the    *)
(* action has its row, also after retries by several workers.               *)
AppliedIsTrue ==
  \A s \in Statements : receipts[s] = "applied" =>
    \A i \in DOMAIN s.changes : \E n \in DOMAIN ledger : Does(ledger[n], s, i)

\* A row once committed stays but for the mark of its reversal.
Grows(l, m) ==
  /\ Len(m) >= Len(l)
  /\ \A n \in DOMAIN l : m[n] \in {l[n], [l[n] EXCEPT !.reverted = TRUE]}

Key(r) == <<r.source, r.index, r.reverses>>
OneKey(l) == \A n, k \in DOMAIN l : Key(l[n]) = Key(l[k]) => n = k
Marked(l) == \A n \in DOMAIN l : l[n].reverted <=> \E k \in DOMAIN l : l[k].reverses = n

(* Undoing writes reversals and deletes nothing: a row once committed stays *)
(* as it is but for the mark of its reversal, no change of a message is     *)
(* recorded or reversed twice, and a marked row has its reversal, committed *)
(* with the mark.                                                           *)
HistoryKept ==
  [][ledger' # ledger => Grows(ledger, ledger') /\ OneKey(ledger') /\ Marked(ledger')]_vars

\* Nothing of the message was recorded by an earlier attempt.
FirstAttempt(w) == \A n \in DOMAIN ledger : ledger[n].source # work[w].said.source

\* At most one change of an account is no purchase.
OneEach(s) ==
  \A i, j \in DOMAIN s.changes : i # j /\ s.changes[i].account = s.changes[j].account =>
    "buy" \in {s.changes[i].action, s.changes[j].action}

(* A first commit on holdings nobody changed since the message was resolved *)
(* does what the user said: it sells no more than is held, unless the       *)
(* message names an account twice, and after a complete snapshot nothing is *)
(* held that the snapshot does not list.                                    *)
FreshCommit ==
  [][\A w \in Teller :
       (Commit(w) /\ work[w].seen = hold /\ FirstAttempt(w)) =>
         LET s == work[w].said
         IN  /\ s.complete => \A x \in Code \ Codes(s) : Held(hold', x) = 0
             /\ OneEach(s) => \A x \in Account :
                   Amount(hold'[x]) < 0 => Amount(hold'[x]) >= Amount(hold[x])]_vars

\* What the rows in force before the k-th leave an account with.
Left(l, x, k) ==
  LET rows == {n \in Undoable(l) : n < k /\ l[n].account = x}
  IN  IF rows = {} THEN Baseline[x] ELSE l[Max(rows)].after

\* The rows in force follow from one another and end in the holdings.
Chained(h, l) ==
  /\ \A x \in Account : h[x] = Left(l, x, Len(l) + 1)
  /\ \A n \in Undoable(l) : l[n].before = Left(l, l[n].account, n)

\* No other message has touched the accounts since.
StillNewest(w) ==
  \A i \in DOMAIN work[w].rows : \A k \in Undoable(ledger) :
    LET n == work[w].rows[i]
    IN  ledger[k].account = ledger[n].account /\ k > n => ledger[k].source = ledger[n].source

\* Of two changes of one account with one time the random ids put the older first.
OlderFirst(w) ==
  \E i, j \in DOMAIN work[w].rows :
    LET n == work[w].rows[i]
        k == work[w].rows[j]
    IN  /\ i < j /\ n < k
        /\ ledger[n].account = ledger[k].account /\ ledger[n].at = ledger[k].at

(* "Revert restores position" (a test of revert_latest): holdings follow    *)
(* from the messages still in force.  A commit continues them, and an undo  *)
(* takes back exactly the changes of its group, whatever rows share their   *)
(* time, but for two undos that may leave holdings nobody ever had: one     *)
(* overtaken by another commit, and one that meets two changes of an        *)
(* account within a millisecond older first.                                *)
UndoKeepsOthers ==
  [][<<hold, ledger>>' # <<hold, ledger>> /\ Chained(hold, ledger)
       /\ (\A w \in Undoer : CommitUndo(w) => StillNewest(w) /\ ~OlderFirst(w)) =>
       Chained(hold', ledger')]_vars

Facts == INSTANCE FactualLedger

(* Messages and undos take effect as a whole, once and one after another:   *)
(* whatever threads interleave, attempts repeat and stops cut off, the      *)
(* tables as committed go only through the steps of the abstract ledger.    *)
ImplementsLedger == Facts!Spec
=============================================================================
