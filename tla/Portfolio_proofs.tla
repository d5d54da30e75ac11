------------------------- MODULE Portfolio_proofs --------------------------
(* Type correctness, the agreement of holdings and ledger, the history of   *)
(* the ledger, first commits, undos and receipts, and that the portfolio    *)
(* implements the abstract ledger, for every set of codes, messages and     *)
(* threads.                                                                 *)
EXTENDS Portfolio, FiniteSetTheorems, WellFoundedInduction, TLAPS

USE PortfolioAssumption

(***************************************************************************)
(* What the helpers return.                                                *)
(***************************************************************************)

LEMMA AmountInt == \A v \in Value : Amount(v) \in Int
BY DEF Value, Amount

LEMMA HeldNat == \A h \in [Account -> Value], x \in Account : Held(h, x) \in Nat
<1> SUFFICES ASSUME NEW h \in [Account -> Value], NEW x \in Account
             PROVE  Held(h, x) \in Nat
  OBVIOUS
<1>1. Amount(h[x]) \in Int
  BY AmountInt
<1> QED BY <1>1 DEF Held

LEMMA ResolvedChange ==
  \A c \in Change, h \in [Account -> Value] : Resolved(c, h) \in Change
<1> SUFFICES ASSUME NEW c \in Change, NEW h \in [Account -> Value]
             PROVE  Resolved(c, h) \in Change
  OBVIOUS
<1>1. Held(h, c.account) \in Nat
  BY HeldNat DEF Change
<1> QED BY <1>1 DEF Resolved, Change

LEMMA AfterValue == \A c \in Change, v \in Value : After(c, v) \in Value
<1> SUFFICES ASSUME NEW c \in Change, NEW v \in Value
             PROVE  After(c, v) \in Value
  OBVIOUS
<1>1. Amount(v) \in Int /\ c.shares \in Nat
  BY AmountInt DEF Change
<1> QED BY <1>1 DEF After, Value

\* The orders of a finite set are sequences over it without repetition.
LEMMA Orders ==
  ASSUME NEW S, IsFiniteSet(S), NEW o \in SetToSeqs(S)
  PROVE  /\ o \in Seq(S)
         /\ \A i, j \in DOMAIN o : i # j => o[i] # o[j]
<1>1. Cardinality(S) \in Nat
  BY FS_CardinalityType
<1>2. o \in [1..Cardinality(S) -> S]
  BY DEF SetToSeqs
<1>3. o \in Seq(S)
  BY <1>1, <1>2
<1> QED BY <1>2, <1>3 DEF SetToSeqs

LEMMA TradesChanges ==
  ASSUME NEW s \in Statement, NEW h \in [Account -> Value], NEW plan \in Trades(s, h)
  PROVE  plan \in Seq(Change)
<1>1. plan = [i \in DOMAIN s.changes |-> Resolved(s.changes[i], h)]
  BY DEF Trades
<1>2. s.changes \in Seq(Change)
  BY DEF Statement
<1>3. \A i \in DOMAIN s.changes : Resolved(s.changes[i], h) \in Change
  BY <1>2, ResolvedChange
<1>4. DOMAIN s.changes = 1..Len(s.changes) /\ Len(s.changes) \in Nat
  BY <1>2
<1> QED BY <1>1, <1>3, <1>4

LEMMA SnapshotsChanges ==
  ASSUME NEW s \in Statement, NEW h \in [Account -> Value], NEW plan \in Snapshots(s, h)
  PROVE  plan \in Seq(Change)
<1>1. s.changes \in Seq(Change)
  BY DEF Statement
<1>2. IsFiniteSet(Omitted(s, h))
  BY FS_Subset DEF Omitted
<1>3. PICK xs \in SetToSeqs(Omitted(s, h)) : plan = s.changes \o Zeroed(xs)
  BY DEF Snapshots
<1>4. xs \in Seq(Omitted(s, h))
  BY <1>2, <1>3, Orders
<1>5. \A i \in DOMAIN xs : xs[i] \in Account
  BY <1>4 DEF Omitted, Account
<1>6. Zeroed(xs) \in Seq(Change)
  <2>1. DOMAIN xs = 1..Len(xs) /\ Len(xs) \in Nat
    BY <1>4
  <2>2. \A i \in DOMAIN xs : [action |-> "correct", account |-> xs[i], shares |-> 0] \in Change
    BY <1>5 DEF Change
  <2> QED BY <2>1, <2>2 DEF Zeroed
<1> QED BY <1>1, <1>3, <1>6

LEMMA PlansChanges ==
  ASSUME NEW s \in Statement, NEW h \in [Account -> Value], NEW plan \in Plans(s, h)
  PROVE  plan \in Seq(Change)
BY TradesChanges, SnapshotsChanges DEF Plans

(***************************************************************************)
(* Type correctness.                                                       *)
(***************************************************************************)

\* What a thread keeps at each step.
LEMMA Kept ==
  ASSUME TypeOK, NEW w \in Worker
  PROVE  /\ work[w].step \in {"resolved", "writing"} =>
              /\ work[w].said \in Statements
              /\ work[w].plan \in Seq(Change)
              /\ work[w].seen \in [Account -> Value]
         /\ work[w].step = "writing" => work[w].next \in Nat \ {0}
         /\ work[w].step = "done" =>
              /\ work[w].said \in Statements
              /\ work[w].result \in {"applied", "needs_input", "rejected", "failed"}
         /\ work[w].step = "undo" => work[w].group \in Source
         /\ work[w].step = "undoing" =>
              work[w].rows \in Seq(Nat \ {0}) /\ work[w].next \in Nat \ {0}
<1>1. work[w] \in WorkType
  BY DEF TypeOK
<1> QED BY <1>1 DEF WorkType

LEMMA StampsNat ==
  ASSUME NEW l \in Seq(Row), NEW at \in Stamps(l)
  PROVE  at \in Nat
<1>1. ASSUME NEW n \in DOMAIN l PROVE l[n].at \in Nat
  <2>1. l[n] \in Row
    OBVIOUS
  <2> QED BY <2>1 DEF Row
<1> QED BY <1>1 DEF Stamps

\* The row a change writes, and the holdings after it.
LEMMA RowWritten ==
  ASSUME TypeOK, NEW w \in Worker, WriteRow(w)
  PROVE  \/ UNCHANGED draft /\ Recorded(draft.ledger, work[w].said.source, work[w].next)
         \/ \E r \in Row :
              /\ r.index = work[w].next /\ r.reverses = 0 /\ ~r.reverted
              /\ r.source = work[w].said.source
              /\ r.account = work[w].plan[work[w].next].account
              /\ r.after = After(work[w].plan[work[w].next], r.before)
              /\ r.before = draft.hold[r.account] /\ r.at \in Stamps(draft.ledger)
              /\ ~Recorded(draft.ledger, r.source, r.index)
              /\ draft' = [hold |-> [draft.hold EXCEPT ![r.account] = r.after],
                           ledger |-> Append(draft.ledger, r)]
<1> DEFINE src == work[w].said.source
           c == work[w].plan[work[w].next]
           old == draft.hold[c.account]
<1>1. src \in Source /\ work[w].plan \in Seq(Change) /\ work[w].next \in Nat \ {0}
  BY Kept DEF WriteRow, Statement
<1>2. c \in Change
  <2>1. work[w].next <= Len(work[w].plan)
    BY DEF WriteRow
  <2> QED BY <1>1, <2>1
<1>3. old \in Value /\ c.account \in Account
  BY <1>2 DEF TypeOK, Change
<1>4. After(c, old) \in Value
  BY <1>2, <1>3, AfterValue
<1>5. draft.ledger \in Seq(Row) /\ ledger \in Seq(Row)
  BY DEF TypeOK
<1>6. SUFFICES ASSUME ~Recorded(draft.ledger, src, work[w].next),
                      NEW at \in Stamps(draft.ledger),
                      draft' = [hold |-> [draft.hold EXCEPT ![c.account] = After(c, old)],
                                ledger |-> Append(draft.ledger,
                                  [source |-> src, index |-> work[w].next, account |-> c.account,
                                   before |-> old, after |-> After(c, old),
                                   named |-> Named(c.account, old), at |-> at,
                                   reverses |-> 0, reverted |-> FALSE])]
               PROVE  \E r \in Row :
                        /\ r.index = work[w].next /\ r.reverses = 0 /\ ~r.reverted
                        /\ r.source = work[w].said.source
                        /\ r.account = work[w].plan[work[w].next].account
                        /\ r.after = After(work[w].plan[work[w].next], r.before)
                        /\ r.before = draft.hold[r.account]
                        /\ r.at \in Stamps(draft.ledger)
                        /\ ~Recorded(draft.ledger, r.source, r.index)
                        /\ draft' = [hold |-> [draft.hold EXCEPT ![r.account] = r.after],
                                     ledger |-> Append(draft.ledger, r)]
  BY DEF WriteRow
<1>7. at \in Nat
  BY <1>5, <1>6, StampsNat
<1> DEFINE r == [source |-> src, index |-> work[w].next, account |-> c.account,
                 before |-> old, after |-> After(c, old),
                 named |-> Named(c.account, old), at |-> at,
                 reverses |-> 0, reverted |-> FALSE]
<1>8. r \in Row
  <2>1. Named(c.account, old) \in BOOLEAN
    BY DEF Named
  <2> QED BY <1>1, <1>3, <1>4, <1>7, <2>1 DEF Row
<1> QED BY <1>6, <1>8
\* The rows a thread is about to reverse are in force, each listed once.
UndoReady ==
  \A w \in Worker : work[w].step = "undoing" =>
    /\ \A i, j \in DOMAIN work[w].rows : i # j => work[w].rows[i] # work[w].rows[j]
    /\ \A i \in DOMAIN work[w].rows :
         i >= work[w].next => work[w].rows[i] \in Undoable(draft.ledger)

\* The row a reversal writes, and the holdings after it.
LEMMA RowReversed ==
  ASSUME TypeOK, UndoReady, NEW w \in Worker, RevertRow(w)
  PROVE  \E n \in Undoable(draft.ledger) :
           LET l == draft.ledger
               r == Reversal(l, n)
           IN  /\ n = work[w].rows[work[w].next]
               /\ l[n] \in Row /\ [l[n] EXCEPT !.reverted = TRUE] \in Row
               /\ r \in Row /\ r.account = l[n].account /\ r.after = l[n].before
               /\ r.reverses = n /\ ~r.reverted
               /\ r.source = l[n].source /\ r.index = l[n].index
               /\ draft' = [hold |-> [draft.hold EXCEPT ![r.account] = r.after],
                            ledger |-> Append([l EXCEPT ![n] = [@ EXCEPT !.reverted = TRUE]], r)]
<1> DEFINE rows == work[w].rows
           next == work[w].next
           l == draft.ledger
           n == rows[next]
<1>1. /\ work[w].step = "undoing" /\ next <= Len(rows)
      /\ draft' = [hold |-> [draft.hold EXCEPT ![l[n].account] = l[n].before],
                   ledger |-> Append([l EXCEPT ![n].reverted = TRUE], Reversal(l, n))]
  BY DEF RevertRow, Restored
<1>2. rows \in Seq(Nat \ {0}) /\ next \in Nat \ {0}
  BY <1>1, Kept
<1>3. \A i \in DOMAIN rows : i >= next => rows[i] \in Undoable(l)
  BY <1>1 DEF UndoReady
<1>4. l \in Seq(Row)
  BY DEF TypeOK
<1> HIDE DEF rows, next, l
<1>5. next \in DOMAIN rows
  BY <1>1, <1>2
<1>6. n \in Undoable(l)
  BY <1>2, <1>3, <1>5
<1>7. n \in DOMAIN l /\ ~l[n].reverted
  BY <1>6 DEF Undoable
<1>8. l[n] \in Row /\ n \in Nat
  BY <1>4, <1>7
<1>9. /\ [l[n] EXCEPT !.reverted = TRUE] \in Row
      /\ Reversal(l, n) \in Row
      /\ Reversal(l, n).account = l[n].account
      /\ Reversal(l, n).after = l[n].before
      /\ Reversal(l, n).reverses = n /\ ~Reversal(l, n).reverted
      /\ Reversal(l, n).source = l[n].source /\ Reversal(l, n).index = l[n].index
  BY <1>7, <1>8 DEF Row, Reversal
<1> HIDE DEF n
<1> QED BY <1>1, <1>6, <1>8, <1>9 DEF n, l, rows, next

LEMMA AppendRow ==
  ASSUME NEW h \in [Account -> Value], NEW l \in Seq(Row), NEW r \in Row
  PROVE  [hold |-> [h EXCEPT ![r.account] = r.after], ledger |-> Append(l, r)]
           \in [hold: [Account -> Value], ledger: Seq(Row)]
<1>1. r.after \in Value
  BY DEF Row
<1>2. [h EXCEPT ![r.account] = r.after] \in [Account -> Value]
  BY <1>1
<1>3. Append(l, r) \in Seq(Row)
  OBVIOUS
<1> QED BY <1>2, <1>3

LEMMA EditRow ==
  ASSUME NEW l \in Seq(Row), NEW n \in DOMAIN l, NEW e \in Row
  PROVE  /\ [l EXCEPT ![n] = e] \in Seq(Row)
         /\ Len([l EXCEPT ![n] = e]) = Len(l)
         /\ DOMAIN [l EXCEPT ![n] = e] = DOMAIN l
<1>1. l \in [1..Len(l) -> Row] /\ Len(l) \in Nat /\ DOMAIN l = 1..Len(l)
  OBVIOUS
<1>2. [l EXCEPT ![n] = e] \in [1..Len(l) -> Row]
  BY <1>1
<1> QED BY <1>1, <1>2

\* The orders of undoing are sequences of rows in force, each listed once.
LEMMA UndoOrdered ==
  ASSUME TypeOK, NEW src, NEW o \in UndoOrders(src)
  PROVE  /\ o \in Seq(Nat \ {0})
         /\ \A i, j \in DOMAIN o : i # j => o[i] # o[j]
         /\ \A i \in DOMAIN o : o[i] \in Undoable(ledger)
<1>1. ledger \in Seq(Row)
  BY DEF TypeOK
<1>2. Members(src) \subseteq DOMAIN ledger /\ Members(src) \subseteq Undoable(ledger)
  BY DEF Members, Undoable
<1>3. DOMAIN ledger = 1..Len(ledger) /\ Len(ledger) \in Nat
  BY <1>1
<1>4. IsFiniteSet(Members(src))
  <2>1. IsFiniteSet(1..Len(ledger))
    BY <1>3, FS_Interval
  <2> QED BY <1>2, <1>3, <2>1, FS_Subset
<1>5. o \in SetToSeqs(Members(src))
  BY DEF UndoOrders
<1>6. o \in Seq(Members(src)) /\ \A i, j \in DOMAIN o : i # j => o[i] # o[j]
  BY <1>4, <1>5, Orders
<1>7. Members(src) \subseteq Nat \ {0}
  BY <1>2, <1>3
<1> QED BY <1>2, <1>6, <1>7

LEMMA TypeInit == Init => TypeOK /\ UndoReady
<1> SUFFICES ASSUME Init PROVE TypeOK /\ UndoReady
  OBVIOUS
<1>1. Baseline \in [Account -> Value] /\ <<>> \in Seq(Row)
  BY DEF Value
<1>2. \A w \in Worker : work[w] = Idle /\ Idle \in WorkType /\ Idle.step = "idle"
  BY DEF Init, Idle, WorkType
<1>3. \A w \in Worker : None # w
  OBVIOUS
<1> QED BY <1>1, <1>2, <1>3 DEF Init, TypeOK, UndoReady
\* A thread that is not the owner of the write lock is in no transaction.
LEMMA NotInside ==
  ASSUME TypeOK, NEW w \in Worker, owner # w
  PROVE  work[w].step \notin {"writing", "undoing"}
BY DEF TypeOK

\* What remains to be shown of a step that leaves the tables alone.
LEMMA WorkMoves ==
  ASSUME TypeOK, UndoReady, NEW w \in Worker, NEW v \in WorkType,
         UNCHANGED <<hold, ledger, draft>>, receipts' \in
           [Statements -> {"none", "applied", "needs_input", "rejected", "failed"}],
         work' = [work EXCEPT ![w] = v],
         \/ /\ owner' = owner /\ owner # w /\ v.step \notin {"writing", "undoing"}
         \/ /\ owner = None /\ owner' = w /\ v.step \in {"writing", "undoing"}
         \/ /\ owner = w /\ owner' = None /\ v.step \notin {"writing", "undoing"}
            /\ draft = [hold |-> hold, ledger |-> ledger],
         v.step = "undoing" =>
           /\ \A i, j \in DOMAIN v.rows : i # j => v.rows[i] # v.rows[j]
           /\ \A i \in DOMAIN v.rows : i >= v.next => v.rows[i] \in Undoable(draft.ledger)
  PROVE  TypeOK' /\ UndoReady'
<1>1. work' \in [Worker -> WorkType] /\ owner' \in Worker \cup {None}
  BY DEF TypeOK
<1>2. work'[w] = v /\ \A u \in Worker \ {w} : work'[u] = work[u]
  BY DEF TypeOK
<1>3. \A u \in Worker : owner' = u <=> work'[u].step \in {"writing", "undoing"}
  <2> SUFFICES ASSUME NEW u \in Worker
               PROVE  owner' = u <=> work'[u].step \in {"writing", "undoing"}
    OBVIOUS
  <2>1. CASE u = w
    BY <1>2, <2>1
  <2>2. CASE u # w
    BY <1>2, <2>2 DEF TypeOK
  <2> QED BY <2>1, <2>2
<1>4. owner' = None => draft' = [hold |-> hold', ledger |-> ledger']
  BY DEF TypeOK
<1>5. TypeOK'
  BY <1>1, <1>3, <1>4 DEF TypeOK
<1>6. UndoReady'
  <2> SUFFICES ASSUME NEW u \in Worker, work'[u].step = "undoing"
               PROVE  /\ \A i, j \in DOMAIN work'[u].rows :
                           i # j => work'[u].rows[i] # work'[u].rows[j]
                      /\ \A i \in DOMAIN work'[u].rows :
                           i >= work'[u].next => work'[u].rows[i] \in Undoable(draft'.ledger)
    BY DEF UndoReady
  <2>1. CASE u = w
    BY <1>2, <2>1
  <2>2. CASE u # w
    BY <1>2, <2>2 DEF UndoReady
  <2> QED BY <2>1, <2>2
<1> QED BY <1>5, <1>6

LEMMA TellType ==
  ASSUME TypeOK, UndoReady, NEW w \in Teller, NEW s \in Statements, Tell(w, s)
  PROVE  TypeOK' /\ UndoReady'
<1>1. w \in Worker /\ owner # w
  BY DEF Tell, TypeOK, Idle, Worker
<1>2. /\ UNCHANGED <<hold, ledger, owner, draft, receipts>>
      /\ receipts \in [Statements -> {"none", "applied", "needs_input", "rejected", "failed"}]
  BY DEF Tell, TypeOK
<1>3. CASE /\ Plans(s, hold) = {}
           /\ work' = [work EXCEPT ![w] = [step |-> "done", said |-> s,
                         result |-> IF Rejected(s) THEN "rejected" ELSE "needs_input"]]
  <2> DEFINE v == [step |-> "done", said |-> s,
                   result |-> IF Rejected(s) THEN "rejected" ELSE "needs_input"]
  <2>1. v \in WorkType /\ v.step = "done"
    BY DEF WorkType
  <2> QED BY <1>1, <1>2, <1>3, <2>1, WorkMoves
<1>4. ASSUME NEW plan \in Plans(s, hold),
             work' = [work EXCEPT ![w] =
                        [step |-> "resolved", said |-> s, plan |-> plan, seen |-> hold]]
      PROVE  TypeOK' /\ UndoReady'
  <2> DEFINE v == [step |-> "resolved", said |-> s, plan |-> plan, seen |-> hold]
  <2>1. hold \in [Account -> Value] /\ s \in Statement
    BY DEF TypeOK
  <2>2. plan \in Seq(Change)
    BY <1>4, <2>1, PlansChanges
  <2>3. v \in WorkType /\ v.step = "resolved"
    BY <2>1, <2>2 DEF WorkType
  <2> QED BY <1>1, <1>2, <1>4, <2>3, WorkMoves
<1> QED BY <1>3, <1>4 DEF Tell

LEMMA BeginType ==
  ASSUME TypeOK, UndoReady, NEW w \in Teller, Begin(w)
  PROVE  TypeOK' /\ UndoReady'
<1> DEFINE v == [step |-> "writing", said |-> work[w].said, plan |-> work[w].plan,
                 seen |-> work[w].seen, next |-> 1]
<1>1. w \in Worker /\ work' = [work EXCEPT ![w] = v]
  BY DEF Begin, Worker, TypeOK
<1>2. v \in WorkType /\ v.step = "writing"
  BY <1>1, Kept DEF Begin, WorkType
<1>3. /\ UNCHANGED <<hold, ledger, draft, receipts>> /\ owner = None /\ owner' = w
      /\ receipts \in [Statements -> {"none", "applied", "needs_input", "rejected", "failed"}]
  BY DEF Begin, Open, TypeOK
<1> HIDE DEF v
<1> QED BY <1>1, <1>2, <1>3, WorkMoves

LEMMA SaveReceiptType ==
  ASSUME TypeOK, UndoReady, NEW w \in Teller, SaveReceipt(w)
  PROVE  TypeOK' /\ UndoReady'
<1>1. w \in Worker /\ owner # w
  BY DEF SaveReceipt, TypeOK, Worker
<1>2. work[w].result \in {"applied", "needs_input", "rejected", "failed"}
  BY <1>1, Kept DEF SaveReceipt
<1>3. receipts' \in [Statements -> {"none", "applied", "needs_input", "rejected", "failed"}]
  BY <1>2 DEF SaveReceipt, TypeOK
<1>4. Idle \in WorkType /\ Idle.step = "idle"
  BY DEF Idle, WorkType
<1>5. UNCHANGED <<hold, ledger, draft, owner>> /\ work' = [work EXCEPT ![w] = Idle]
  BY DEF SaveReceipt
<1> QED BY <1>1, <1>3, <1>4, <1>5, WorkMoves

LEMMA PickGroupType ==
  ASSUME TypeOK, UndoReady, NEW w \in Undoer, PickGroup(w)
  PROVE  TypeOK' /\ UndoReady'
<1>1. w \in Worker /\ owner # w
  <2>1. w \in Worker
    BY DEF Worker
  <2>2. work[w].step = "idle"
    BY DEF PickGroup, Idle
  <2> QED BY <2>1, <2>2 DEF TypeOK
<1>2. PICK n \in Undoable(ledger) :
        work' = [work EXCEPT ![w] = [step |-> "undo", group |-> ledger[n].source]]
  BY DEF PickGroup
<1> DEFINE v == [step |-> "undo", group |-> ledger[n].source]
<1>3. ledger[n] \in Row
  BY DEF Undoable, TypeOK
<1>4. v \in WorkType /\ v.step = "undo"
  BY <1>3 DEF WorkType, Row
<1>5. /\ UNCHANGED <<hold, ledger, draft, owner, receipts>>
      /\ receipts \in [Statements -> {"none", "applied", "needs_input", "rejected", "failed"}]
  BY DEF PickGroup, TypeOK
<1> HIDE DEF v
<1> QED BY <1>1, <1>2, <1>4, <1>5, WorkMoves DEF v

LEMMA BeginUndoType ==
  ASSUME TypeOK, UndoReady, NEW w \in Undoer, BeginUndo(w)
  PROVE  TypeOK' /\ UndoReady'
<1>1. w \in Worker
  BY DEF Worker
<1>2. PICK o \in UndoOrders(work[w].group) :
        work' = [work EXCEPT ![w] = [step |-> "undoing", rows |-> o, next |-> 1]]
  BY DEF BeginUndo
<1> DEFINE v == [step |-> "undoing", rows |-> o, next |-> 1]
<1>3. /\ UNCHANGED <<hold, ledger, draft, receipts>> /\ owner = None /\ owner' = w
      /\ draft.ledger = ledger
      /\ receipts \in [Statements -> {"none", "applied", "needs_input", "rejected", "failed"}]
  BY DEF BeginUndo, Open, TypeOK
<1>4. /\ o \in Seq(Nat \ {0})
      /\ \A i, j \in DOMAIN o : i # j => o[i] # o[j]
      /\ \A i \in DOMAIN o : o[i] \in Undoable(draft.ledger)
  BY <1>3, UndoOrdered
<1>5. v \in WorkType /\ v.step = "undoing" /\ v.rows = o
  BY <1>4 DEF WorkType
<1> HIDE DEF v
<1> QED BY <1>1, <1>2, <1>3, <1>4, <1>5, WorkMoves DEF v

LEMMA NothingToUndoType ==
  ASSUME TypeOK, UndoReady, NEW w \in Undoer, NothingToUndo(w)
  PROVE  TypeOK' /\ UndoReady'
<1>1. w \in Worker /\ owner # w
  BY DEF NothingToUndo, TypeOK, Worker
<1>2. Idle \in WorkType /\ Idle.step = "idle"
  BY DEF Idle, WorkType
<1>3. /\ UNCHANGED <<hold, ledger, draft, owner, receipts>> /\ work' = [work EXCEPT ![w] = Idle]
      /\ receipts \in [Statements -> {"none", "applied", "needs_input", "rejected", "failed"}]
  BY DEF NothingToUndo, TypeOK
<1> QED BY <1>1, <1>2, <1>3, WorkMoves
\* What remains to be shown of a step inside or at the end of a transaction.
LEMMA OwnerMoves ==
  ASSUME TypeOK, UndoReady, NEW w \in Worker, owner = w, NEW v \in WorkType,
         UNCHANGED receipts, work' = [work EXCEPT ![w] = v],
         hold' \in [Account -> Value], ledger' \in Seq(Row),
         draft' \in [hold: [Account -> Value], ledger: Seq(Row)],
         \/ owner' = w /\ v.step \in {"writing", "undoing"}
         \/ /\ owner' = None /\ v.step \notin {"writing", "undoing"}
            /\ draft' = [hold |-> hold', ledger |-> ledger'],
         v.step = "undoing" =>
           /\ \A i, j \in DOMAIN v.rows : i # j => v.rows[i] # v.rows[j]
           /\ \A i \in DOMAIN v.rows : i >= v.next => v.rows[i] \in Undoable(draft'.ledger)
  PROVE  TypeOK' /\ UndoReady'
<1>1. work' \in [Worker -> WorkType] /\ owner' \in Worker \cup {None}
  BY DEF TypeOK
<1>2. work'[w] = v /\ \A u \in Worker \ {w} : work'[u] = work[u]
  BY DEF TypeOK
<1>3. \A u \in Worker \ {w} : work'[u].step \notin {"writing", "undoing"}
  BY <1>2, NotInside
<1>4. \A u \in Worker : owner' = u <=> work'[u].step \in {"writing", "undoing"}
  BY <1>2, <1>3
<1>5. TypeOK'
  BY <1>1, <1>4 DEF TypeOK
<1>6. UndoReady'
  BY <1>2, <1>3 DEF UndoReady
<1> QED BY <1>5, <1>6

LEMMA WriteRowType ==
  ASSUME TypeOK, UndoReady, NEW w \in Teller, WriteRow(w)
  PROVE  TypeOK' /\ UndoReady'
<1> DEFINE v == [work[w] EXCEPT !.next = work[w].next + 1]
<1>1. /\ w \in Worker /\ owner = w /\ owner' = w /\ work[w].step = "writing"
      /\ work' = [work EXCEPT ![w] = v]
      /\ UNCHANGED <<hold, ledger, receipts>>
  BY DEF WriteRow, Advance, Worker
<1>2. v \in WorkType /\ v.step = "writing"
  <2>1. work[w] \in WorkType
    BY <1>1 DEF TypeOK
  <2> QED BY <1>1, <2>1 DEF WorkType
<1>3. hold' \in [Account -> Value] /\ ledger' \in Seq(Row)
  BY <1>1 DEF TypeOK
<1>4. draft' \in [hold: [Account -> Value], ledger: Seq(Row)]
  <2>1. draft.hold \in [Account -> Value] /\ draft.ledger \in Seq(Row)
    BY DEF TypeOK
  <2>2. CASE UNCHANGED draft
    BY <2>2 DEF TypeOK
  <2>3. ASSUME NEW r \in Row,
               draft' = [hold |-> [draft.hold EXCEPT ![r.account] = r.after],
                         ledger |-> Append(draft.ledger, r)]
        PROVE  draft' \in [hold: [Account -> Value], ledger: Seq(Row)]
    BY <2>1, <2>3, AppendRow
  <2> QED BY <1>1, <2>2, <2>3, RowWritten
<1> HIDE DEF v
<1> QED BY <1>1, <1>2, <1>3, <1>4, OwnerMoves

LEMMA CommitType ==
  ASSUME TypeOK, UndoReady, NEW w \in Teller, Commit(w)
  PROVE  TypeOK' /\ UndoReady'
<1> DEFINE v == [step |-> "done", said |-> work[w].said, result |-> "applied"]
<1>1. /\ w \in Worker /\ owner = w /\ owner' = None
      /\ work' = [work EXCEPT ![w] = v]
      /\ hold' = draft.hold /\ ledger' = draft.ledger /\ UNCHANGED <<draft, receipts>>
  BY DEF Commit, Publish, Worker, TypeOK
<1>2. v \in WorkType /\ v.step = "done"
  BY <1>1, Kept DEF Commit, WorkType
<1>3. /\ draft' \in [hold: [Account -> Value], ledger: Seq(Row)]
      /\ draft' = [hold |-> hold', ledger |-> ledger']
      /\ hold' \in [Account -> Value] /\ ledger' \in Seq(Row)
  BY <1>1 DEF TypeOK
<1> HIDE DEF v
<1> QED BY <1>1, <1>2, <1>3, OwnerMoves

LEMMA RowRaisesType ==
  ASSUME TypeOK, UndoReady, NEW w \in Teller, RowRaises(w)
  PROVE  TypeOK' /\ UndoReady'
<1> DEFINE v == [step |-> "done", said |-> work[w].said, result |-> "failed"]
<1>1. /\ w \in Worker /\ owner = w /\ owner' = None
      /\ work' = [work EXCEPT ![w] = v]
      /\ draft' = [hold |-> hold, ledger |-> ledger] /\ UNCHANGED <<hold, ledger, receipts>>
  BY DEF RowRaises, RollBack, Worker, TypeOK
<1>2. v \in WorkType /\ v.step = "done"
  BY <1>1, Kept DEF RowRaises, WorkType
<1>3. hold' \in [Account -> Value] /\ ledger' \in Seq(Row)
  BY <1>1 DEF TypeOK
<1>4. draft' \in [hold: [Account -> Value], ledger: Seq(Row)]
  BY <1>1, <1>3
<1> HIDE DEF v
<1> QED BY <1>1, <1>2, <1>3, <1>4, OwnerMoves

LEMMA UndoRaisesType ==
  ASSUME TypeOK, UndoReady, NEW w \in Undoer, UndoRaises(w)
  PROVE  TypeOK' /\ UndoReady'
<1>1. /\ w \in Worker /\ owner = w /\ owner' = None
      /\ work' = [work EXCEPT ![w] = Idle]
      /\ draft' = [hold |-> hold, ledger |-> ledger] /\ UNCHANGED <<hold, ledger, receipts>>
  BY DEF UndoRaises, RollBack, Worker
<1>2. Idle \in WorkType /\ Idle.step = "idle"
  BY DEF Idle, WorkType
<1>3. hold' \in [Account -> Value] /\ ledger' \in Seq(Row)
  BY <1>1 DEF TypeOK
<1>4. draft' \in [hold: [Account -> Value], ledger: Seq(Row)]
  BY <1>1, <1>3
<1> QED BY <1>1, <1>2, <1>3, <1>4, OwnerMoves

LEMMA CommitUndoType ==
  ASSUME TypeOK, UndoReady, NEW w \in Undoer, CommitUndo(w)
  PROVE  TypeOK' /\ UndoReady'
<1>1. /\ w \in Worker /\ owner = w /\ owner' = None
      /\ work' = [work EXCEPT ![w] = Idle]
      /\ hold' = draft.hold /\ ledger' = draft.ledger /\ UNCHANGED <<draft, receipts>>
  BY DEF CommitUndo, Publish, Worker
<1>2. Idle \in WorkType /\ Idle.step = "idle"
  BY DEF Idle, WorkType
<1>3. /\ draft' \in [hold: [Account -> Value], ledger: Seq(Row)]
      /\ draft' = [hold |-> hold', ledger |-> ledger']
      /\ hold' \in [Account -> Value] /\ ledger' \in Seq(Row)
  BY <1>1 DEF TypeOK
<1> QED BY <1>1, <1>2, <1>3, OwnerMoves

LEMMA RevertRowType ==
  ASSUME TypeOK, UndoReady, NEW w \in Undoer, RevertRow(w)
  PROVE  TypeOK' /\ UndoReady'
<1> DEFINE v == [work[w] EXCEPT !.next = work[w].next + 1]
<1>1. /\ w \in Worker /\ owner = w /\ owner' = w /\ work[w].step = "undoing"
      /\ work' = [work EXCEPT ![w] = v]
      /\ UNCHANGED <<hold, ledger, receipts>>
  BY DEF RevertRow, Advance, Worker
<1>2. /\ v \in WorkType /\ v.step = "undoing" /\ v.rows = work[w].rows
      /\ v.next = work[w].next + 1
      /\ work[w].rows \in Seq(Nat \ {0}) /\ work[w].next \in Nat \ {0}
  <2>1. work[w] \in WorkType
    BY <1>1 DEF TypeOK
  <2> QED BY <1>1, <2>1 DEF WorkType
<1>3. hold' \in [Account -> Value] /\ ledger' \in Seq(Row)
  BY <1>1 DEF TypeOK
<1> DEFINE l == draft.ledger
<1>4. draft.hold \in [Account -> Value] /\ l \in Seq(Row)
  BY DEF TypeOK
<1>5. PICK n \in Undoable(l) :
        LET r == Reversal(l, n)
        IN  /\ n = work[w].rows[work[w].next]
            /\ l[n] \in Row /\ [l[n] EXCEPT !.reverted = TRUE] \in Row
            /\ r \in Row
            /\ draft' = [hold |-> [draft.hold EXCEPT ![r.account] = r.after],
                         ledger |-> Append([l EXCEPT ![n] = [@ EXCEPT !.reverted = TRUE]], r)]
  BY <1>1, RowReversed
<1> DEFINE m == [l EXCEPT ![n] = [@ EXCEPT !.reverted = TRUE]]
           r == Reversal(l, n)
<1> HIDE DEF v, l, r
<1>6. m \in Seq(Row) /\ Len(m) = Len(l) /\ DOMAIN m = DOMAIN l
  <2>1. n \in DOMAIN l
    BY DEF Undoable
  <2> QED BY <1>4, <1>5, <2>1, EditRow
<1>7. draft' \in [hold: [Account -> Value], ledger: Seq(Row)]
  BY <1>4, <1>5, <1>6, AppendRow DEF r
<1>8. /\ \A i, j \in DOMAIN v.rows : i # j => v.rows[i] # v.rows[j]
      /\ \A i \in DOMAIN v.rows : i >= work[w].next => v.rows[i] \in Undoable(l)
  BY <1>1, <1>2 DEF UndoReady, l
<1>9. ASSUME NEW i \in DOMAIN v.rows, i >= v.next
      PROVE  v.rows[i] \in Undoable(draft'.ledger)
  <2>1. i \in Nat /\ i # work[w].next /\ i >= work[w].next /\ work[w].next \in DOMAIN v.rows
    <3>1. DOMAIN v.rows = 1..Len(v.rows) /\ Len(v.rows) \in Nat
      BY <1>2
    <3> QED BY <1>2, <1>9, <3>1
  <2>2. v.rows[i] \in Undoable(l) /\ v.rows[i] # n
    BY <1>2, <1>5, <1>8, <2>1
  <2>3. v.rows[i] \in DOMAIN l /\ l[v.rows[i]].reverses = 0 /\ ~l[v.rows[i]].reverted
    BY <2>2 DEF Undoable
  <2>4. draft'.ledger = Append(m, r)
    BY <1>5 DEF r
  <2>5. v.rows[i] \in DOMAIN Append(m, r) /\ Append(m, r)[v.rows[i]] = l[v.rows[i]]
    <3>1. m[v.rows[i]] = l[v.rows[i]]
      BY <2>2, <2>3
    <3>2. r \in Row
      BY <1>5 DEF r
    <3> HIDE DEF m
    <3>3. v.rows[i] \in 1..Len(m)
      BY <1>6, <2>3
    <3> QED BY <1>6, <3>1, <3>2, <3>3
  <2> QED BY <2>3, <2>4, <2>5 DEF Undoable
<1> HIDE DEF m
<1> QED BY <1>1, <1>2, <1>3, <1>7, <1>8, <1>9, OwnerMoves

LEMMA StopType ==
  ASSUME TypeOK, UndoReady, Stop
  PROVE  TypeOK' /\ UndoReady'
<1>1. /\ owner' = None /\ draft' = [hold |-> hold, ledger |-> ledger]
      /\ UNCHANGED <<hold, ledger, receipts>> /\ work' = [w \in Worker |-> Idle]
  BY DEF Stop, RollBack
<1>2. Idle \in WorkType /\ Idle.step = "idle"
  BY DEF Idle, WorkType
<1>3. \A u \in Worker : work'[u].step = "idle" /\ owner' # u
  BY <1>1, <1>2
<1>4. draft' \in [hold: [Account -> Value], ledger: Seq(Row)]
  BY <1>1 DEF TypeOK
<1> QED BY <1>1, <1>2, <1>3, <1>4 DEF TypeOK, UndoReady

LEMMA TypeStep == TypeOK /\ UndoReady /\ [Next]_vars => TypeOK' /\ UndoReady'
<1> SUFFICES ASSUME TypeOK, UndoReady, [Next]_vars PROVE TypeOK' /\ UndoReady'
  OBVIOUS
<1>1. CASE UNCHANGED vars
  BY <1>1 DEF vars, TypeOK, UndoReady
<1>2. ASSUME NEW w \in Teller, TellerStep(w) PROVE TypeOK' /\ UndoReady'
  BY <1>2, TellType, BeginType, WriteRowType, RowRaisesType, CommitType, SaveReceiptType
     DEF TellerStep
<1>3. ASSUME NEW w \in Undoer, UndoerStep(w) PROVE TypeOK' /\ UndoReady'
  BY <1>3, PickGroupType, BeginUndoType, NothingToUndoType, RevertRowType, UndoRaisesType,
          CommitUndoType
     DEF UndoerStep
<1> QED BY <1>1, <1>2, <1>3, StopType DEF Next

(* The tables and the open transaction are well formed, whoever holds the   *)
(* write lock is inside a transaction, and what an undo is about to reverse *)
(* is in force and listed once.                                             *)
THEOREM TypeCorrect == Spec => [](TypeOK /\ UndoReady)
BY TypeInit, TypeStep, PTL DEF Spec
(***************************************************************************)
(* What a step does to the tables and the open transaction.                *)
(***************************************************************************)

TablesKept == hold' = hold /\ ledger' = ledger

\* A new row r of a message that has none for that change.
Writes(r) ==
  /\ r \in Row /\ r.reverses = 0 /\ ~r.reverted
  /\ ~Recorded(draft.ledger, r.source, r.index)
  /\ draft' = [hold |-> [draft.hold EXCEPT ![r.account] = r.after],
               ledger |-> Append(draft.ledger, r)]

\* The reversal r of row n, which gets its mark.
Reverses(n, r) ==
  /\ n \in Undoable(draft.ledger)
  /\ draft.ledger[n] \in Row /\ [draft.ledger[n] EXCEPT !.reverted = TRUE] \in Row
  /\ r \in Row /\ r.reverses = n /\ ~r.reverted
  /\ r.source = draft.ledger[n].source /\ r.index = draft.ledger[n].index
  /\ draft' = [hold |-> [draft.hold EXCEPT ![r.account] = r.after],
               ledger |-> Append([draft.ledger EXCEPT ![n] = [@ EXCEPT !.reverted = TRUE]], r)]

LEMMA TableMoves ==
  ASSUME TypeOK, UndoReady, [Next]_vars
  PROVE  \/ TablesKept /\ draft' = draft
         \/ TablesKept /\ draft' = [hold |-> hold, ledger |-> ledger]
         \/ hold' = draft.hold /\ ledger' = draft.ledger /\ draft' = draft
         \/ TablesKept /\ (\E r : Writes(r)) /\ \E w \in Teller : WriteRow(w)
         \/ TablesKept /\ \E n, r : Reverses(n, r)
<1>1. CASE UNCHANGED vars
  BY <1>1 DEF vars, TablesKept
<1>2. ASSUME NEW w \in Teller, \E s \in Statements : Tell(w, s)
      PROVE  TablesKept /\ draft' = draft
  BY <1>2 DEF Tell, TablesKept
<1>3. ASSUME NEW w \in Teller, Begin(w) \/ SaveReceipt(w)
      PROVE  TablesKept /\ draft' = draft
  BY <1>3 DEF Begin, SaveReceipt, TablesKept
<1>4. ASSUME NEW w \in Teller, WriteRow(w)
      PROVE  TablesKept /\ (draft' = draft \/ \E r : Writes(r))
  <2>1. w \in Worker /\ TablesKept
    BY <1>4 DEF WriteRow, Worker, TablesKept
  <2>2. CASE UNCHANGED draft
    BY <2>1, <2>2
  <2>3. ASSUME NEW r \in Row, r.reverses = 0, ~r.reverted,
               ~Recorded(draft.ledger, r.source, r.index),
               draft' = [hold |-> [draft.hold EXCEPT ![r.account] = r.after],
                         ledger |-> Append(draft.ledger, r)]
        PROVE  Writes(r)
    BY <2>3 DEF Writes
  <2> QED BY <1>4, <2>1, <2>2, <2>3, RowWritten
<1>5. ASSUME NEW w \in Teller, RowRaises(w)
      PROVE  TablesKept /\ draft' = [hold |-> hold, ledger |-> ledger]
  BY <1>5 DEF RowRaises, RollBack, TablesKept
<1>6. ASSUME NEW w \in Worker, Commit(w) \/ CommitUndo(w)
      PROVE  hold' = draft.hold /\ ledger' = draft.ledger /\ draft' = draft
  BY <1>6 DEF Commit, CommitUndo, Publish
<1>7. ASSUME NEW w \in Undoer, PickGroup(w) \/ BeginUndo(w) \/ NothingToUndo(w)
      PROVE  TablesKept /\ draft' = draft
  BY <1>7 DEF PickGroup, BeginUndo, NothingToUndo, TablesKept
<1>8. ASSUME NEW w \in Undoer, RevertRow(w)
      PROVE  TablesKept /\ \E n, r : Reverses(n, r)
  <2>1. w \in Worker /\ TablesKept
    BY <1>8 DEF RevertRow, Worker, TablesKept
  <2>2. PICK n \in Undoable(draft.ledger) :
           LET r == Reversal(draft.ledger, n)
           IN  /\ draft.ledger[n] \in Row /\ [draft.ledger[n] EXCEPT !.reverted = TRUE] \in Row
               /\ r \in Row /\ r.reverses = n /\ ~r.reverted
               /\ r.source = draft.ledger[n].source /\ r.index = draft.ledger[n].index
               /\ draft' = [hold |-> [draft.hold EXCEPT ![r.account] = r.after],
                            ledger |-> Append([draft.ledger EXCEPT ![n] = [@ EXCEPT !.reverted = TRUE]], r)]
    BY <1>8, <2>1, RowReversed
  <2>3. Reverses(n, Reversal(draft.ledger, n))
    BY <2>2 DEF Reverses
  <2> QED BY <2>1, <2>3
<1>9. ASSUME NEW w \in Undoer, UndoRaises(w)
      PROVE  TablesKept /\ draft' = [hold |-> hold, ledger |-> ledger]
  BY <1>9 DEF UndoRaises, RollBack, TablesKept
<1>10. ASSUME Stop PROVE TablesKept /\ draft' = [hold |-> hold, ledger |-> ledger]
  BY <1>10 DEF Stop, RollBack, TablesKept
<1> QED BY <1>1, <1>2, <1>3, <1>4, <1>5, <1>6, <1>7, <1>8, <1>9, <1>10
        DEF Next, TellerStep, UndoerStep, Worker

\* The ledger of a reversal before the new row.
LEMMA MarkRow ==
  ASSUME NEW l \in Seq(Row), NEW n \in DOMAIN l, [l[n] EXCEPT !.reverted = TRUE] \in Row
  PROVE  LET m == [l EXCEPT ![n] = [@ EXCEPT !.reverted = TRUE]]
         IN  /\ m \in Seq(Row) /\ Len(m) = Len(l) /\ DOMAIN m = DOMAIN l
             /\ m[n] = [l[n] EXCEPT !.reverted = TRUE] /\ m[n].reverted
             /\ \A k \in DOMAIN l : k # n => m[k] = l[k]
             /\ \A k \in DOMAIN l :
                  /\ m[k].account = l[k].account /\ m[k].after = l[k].after
                  /\ Key(m[k]) = Key(l[k]) /\ m[k].reverses = l[k].reverses
<1> DEFINE m == [l EXCEPT ![n] = [@ EXCEPT !.reverted = TRUE]]
<1>1. m \in Seq(Row) /\ Len(m) = Len(l) /\ DOMAIN m = DOMAIN l
  BY EditRow
<1>2. l[n] \in Row
  OBVIOUS
<1>3. m[n] = [l[n] EXCEPT !.reverted = TRUE] /\ \A k \in DOMAIN l : k # n => m[k] = l[k]
  OBVIOUS
<1> HIDE DEF m
<1>4. /\ m[n].reverted /\ m[n].account = l[n].account /\ m[n].after = l[n].after
      /\ m[n].source = l[n].source /\ m[n].index = l[n].index /\ m[n].reverses = l[n].reverses
  BY <1>2, <1>3 DEF Row
<1>5. \A k \in DOMAIN l : /\ m[k].account = l[k].account /\ m[k].after = l[k].after
                          /\ Key(m[k]) = Key(l[k]) /\ m[k].reverses = l[k].reverses
  BY <1>3, <1>4 DEF Key
<1> QED BY <1>1, <1>3, <1>4, <1>5 DEF m

LEMMA AppendAt ==
  ASSUME NEW l \in Seq(Row), NEW r \in Row
  PROVE  /\ Append(l, r) \in Seq(Row)
         /\ DOMAIN Append(l, r) = DOMAIN l \cup {Len(l) + 1}
         /\ Len(Append(l, r)) = Len(l) + 1 /\ Len(l) \in Nat
         /\ Append(l, r)[Len(l) + 1] = r
         /\ \A k \in DOMAIN l : k \in 1..Len(l) /\ Append(l, r)[k] = l[k]
OBVIOUS

(***************************************************************************)
(* Holdings and ledger agree.                                              *)
(***************************************************************************)

LEMMA TallyAppend ==
  ASSUME NEW h \in [Account -> Value], NEW l \in Seq(Row), NEW r \in Row, Tally(h, l)
  PROVE  Tally([h EXCEPT ![r.account] = r.after], Append(l, r))
<1> DEFINE g == [h EXCEPT ![r.account] = r.after]
           m == Append(l, r)
<1>1. r.account \in Account
  BY DEF Row
<1>2. SUFFICES ASSUME NEW x \in Account
               PROVE  \/ g[x] = Baseline[x] /\ \A n \in DOMAIN m : m[n].account # x
                      \/ \E n \in DOMAIN m :
                           /\ m[n].account = x /\ g[x] = m[n].after
                           /\ \A k \in DOMAIN m : k > n => m[k].account # x
  BY DEF Tally
<1>3. /\ DOMAIN m = DOMAIN l \cup {Len(l) + 1} /\ Len(l) \in Nat /\ m[Len(l) + 1] = r
      /\ \A k \in DOMAIN l : k \in 1..Len(l) /\ m[k] = l[k]
  BY AppendAt
<1>4. CASE x = r.account
  <2>1. g[x] = r.after
    BY <1>1, <1>4
  <2>2. \A k \in DOMAIN m : ~(k > Len(l) + 1)
    BY <1>3
  <2>3. /\ Len(l) + 1 \in DOMAIN m /\ m[Len(l) + 1].account = x
        /\ g[x] = m[Len(l) + 1].after
    BY <1>3, <1>4, <2>1
  <2> QED BY <2>2, <2>3
<1>5. CASE x # r.account
  <2>1. g[x] = h[x]
    BY <1>5
  <2> HIDE DEF g, m
  <2>2. CASE h[x] = Baseline[x] /\ \A n \in DOMAIN l : l[n].account # x
    BY <1>3, <1>5, <2>1, <2>2
  <2>3. ASSUME NEW n \in DOMAIN l, l[n].account = x, h[x] = l[n].after,
               \A k \in DOMAIN l : k > n => l[k].account # x
        PROVE  \E i \in DOMAIN m : /\ m[i].account = x /\ g[x] = m[i].after
                                   /\ \A k \in DOMAIN m : k > i => m[k].account # x
    <3>1. n \in DOMAIN m /\ m[n] = l[n]
      BY <1>3
    <3>2. \A k \in DOMAIN m : k > n => m[k].account # x
      BY <1>3, <1>5, <2>3
    <3> QED BY <2>1, <2>3, <3>1, <3>2
  <2> QED BY <2>2, <2>3 DEF Tally
<1> QED BY <1>4, <1>5

\* A tally depends on accounts and final values only.
LEMMA TallySame ==
  ASSUME NEW h, NEW l, NEW m, Tally(h, l), DOMAIN m = DOMAIN l,
         \A k \in DOMAIN l : m[k].account = l[k].account /\ m[k].after = l[k].after
  PROVE  Tally(h, m)
BY DEF Tally

TallyInv == Tally(hold, ledger) /\ Tally(draft.hold, draft.ledger)

LEMMA TallyStep == TypeOK /\ UndoReady /\ TallyInv /\ [Next]_vars => TallyInv'
<1> SUFFICES ASSUME TypeOK, UndoReady, TallyInv, [Next]_vars PROVE TallyInv'
  OBVIOUS
<1>1. draft.hold \in [Account -> Value] /\ draft.ledger \in Seq(Row)
  BY DEF TypeOK
<1>2. CASE TablesKept /\ draft' = draft
  BY <1>2 DEF TablesKept, TallyInv
<1>3. CASE TablesKept /\ draft' = [hold |-> hold, ledger |-> ledger]
  BY <1>3 DEF TablesKept, TallyInv
<1>4. CASE hold' = draft.hold /\ ledger' = draft.ledger /\ draft' = draft
  BY <1>4 DEF TallyInv
<1>5. ASSUME TablesKept, NEW r, Writes(r) PROVE TallyInv'
  <2>1. Tally([draft.hold EXCEPT ![r.account] = r.after], Append(draft.ledger, r))
    BY <1>1, <1>5, TallyAppend DEF Writes, TallyInv
  <2>2. /\ draft'.hold = [draft.hold EXCEPT ![r.account] = r.after]
        /\ draft'.ledger = Append(draft.ledger, r)
    BY <1>5 DEF Writes
  <2> QED BY <1>5, <2>1, <2>2 DEF TablesKept, TallyInv
<1>6. ASSUME TablesKept, NEW n, NEW r, Reverses(n, r) PROVE TallyInv'
  <2> DEFINE m == [draft.ledger EXCEPT ![n] = [@ EXCEPT !.reverted = TRUE]]
  <2>1. n \in DOMAIN draft.ledger /\ [draft.ledger[n] EXCEPT !.reverted = TRUE] \in Row /\ r \in Row
    BY <1>6 DEF Reverses, Undoable
  <2>2. /\ m \in Seq(Row) /\ DOMAIN m = DOMAIN draft.ledger
        /\ \A k \in DOMAIN draft.ledger :
             m[k].account = draft.ledger[k].account /\ m[k].after = draft.ledger[k].after
    BY <1>1, <2>1, MarkRow
  <2>3. /\ draft'.hold = [draft.hold EXCEPT ![r.account] = r.after]
        /\ draft'.ledger = Append(m, r)
    BY <1>6 DEF Reverses
  <2> HIDE DEF m
  <2>4. Tally(draft.hold, m)
    BY <2>2, TallySame DEF TallyInv
  <2>5. Tally([draft.hold EXCEPT ![r.account] = r.after], Append(m, r))
    BY <1>1, <2>1, <2>2, <2>4, TallyAppend
  <2> QED BY <1>6, <2>3, <2>5 DEF TablesKept, TallyInv
<1> QED BY <1>2, <1>3, <1>4, <1>5, <1>6, TableMoves

(* Holdings are what the ledger says, for every set of messages, every      *)
(* number of threads and any sequence of stops, retries and undos.          *)
THEOREM LedgerAccounts == Spec => []LedgerTallies
<1>1. Init => TallyInv
  BY DEF Init, TallyInv, Tally
<1>2. TallyInv => LedgerTallies
  BY DEF TallyInv, LedgerTallies
<1> QED BY <1>1, <1>2, TypeInit, TypeStep, TallyStep, PTL DEF Spec
(***************************************************************************)
(* The history of the ledger.                                              *)
(***************************************************************************)

\* Reversals point at rows of the ledger.
Sound(l) == OneKey(l) /\ Marked(l) /\ \A k \in DOMAIN l : l[k].reverses \in Nat /\ l[k].reverses <= Len(l)

LEMMA SoundAppend ==
  ASSUME NEW l \in Seq(Row), Sound(l), NEW r \in Row, r.reverses = 0, ~r.reverted,
         ~Recorded(l, r.source, r.index)
  PROVE  Sound(Append(l, r)) /\ Grows(l, Append(l, r))
<1> DEFINE m == Append(l, r)
<1>1. /\ DOMAIN m = DOMAIN l \cup {Len(l) + 1} /\ Len(l) \in Nat /\ m[Len(l) + 1] = r
      /\ Len(m) = Len(l) + 1
      /\ \A k \in DOMAIN l : k \in 1..Len(l) /\ m[k] = l[k]
  BY AppendAt
<1> HIDE DEF m
<1>2. \A k \in DOMAIN l : Key(l[k]) # Key(r)
  BY DEF Recorded, Key
<1>3. OneKey(m)
  BY <1>1, <1>2 DEF Sound, OneKey
<1>4. \A k \in DOMAIN m : m[k].reverses \in Nat /\ m[k].reverses <= Len(m) /\ m[k].reverses # Len(m)
  BY <1>1 DEF Sound
<1>5. Marked(m)
  <2> SUFFICES ASSUME NEW n \in DOMAIN m
               PROVE  m[n].reverted <=> \E k \in DOMAIN m : m[k].reverses = n
    BY DEF Marked
  <2>1. CASE n = Len(l) + 1
    BY <1>1, <1>4, <2>1
  <2>2. CASE n \in DOMAIN l
    <3>1. l[n].reverted <=> \E k \in DOMAIN l : l[k].reverses = n
      BY <2>2 DEF Sound, Marked
    <3>2. n # 0
      BY <1>1, <2>2
    <3> QED BY <1>1, <2>2, <3>1, <3>2
  <2> QED BY <1>1, <2>1, <2>2
<1>6. Grows(l, m)
  BY <1>1 DEF Grows
<1> QED BY <1>3, <1>4, <1>5, <1>6 DEF Sound, m

LEMMA SoundReverse ==
  ASSUME NEW l \in Seq(Row), Sound(l), NEW n \in Undoable(l), NEW r \in Row,
         [l[n] EXCEPT !.reverted = TRUE] \in Row,
         r.reverses = n, ~r.reverted, r.source = l[n].source, r.index = l[n].index
  PROVE  LET m == Append([l EXCEPT ![n] = [@ EXCEPT !.reverted = TRUE]], r)
         IN  Sound(m) /\ Grows(l, m)
<1> DEFINE e == [l EXCEPT ![n] = [@ EXCEPT !.reverted = TRUE]]
           m == Append(e, r)
<1>1. n \in DOMAIN l /\ l[n].reverses = 0 /\ ~l[n].reverted
  BY DEF Undoable
<1>2. /\ e \in Seq(Row) /\ Len(e) = Len(l) /\ DOMAIN e = DOMAIN l
      /\ e[n] = [l[n] EXCEPT !.reverted = TRUE] /\ e[n].reverted
      /\ \A k \in DOMAIN l : k # n => e[k] = l[k]
      /\ \A k \in DOMAIN l : Key(e[k]) = Key(l[k]) /\ e[k].reverses = l[k].reverses
  BY <1>1, MarkRow
<1> HIDE DEF e
<1>3. /\ DOMAIN m = DOMAIN l \cup {Len(l) + 1} /\ Len(l) \in Nat /\ m[Len(l) + 1] = r
      /\ Len(m) = Len(l) + 1
      /\ \A k \in DOMAIN l : k \in 1..Len(l) /\ m[k] = e[k]
  BY <1>2, AppendAt
<1> HIDE DEF m
<1>4. \A k \in DOMAIN l : l[k].reverses # n
  BY <1>1 DEF Sound, Marked
<1>5. OneKey(m)
  <2>1. \A k \in DOMAIN l : Key(m[k]) # Key(r)
    BY <1>2, <1>3, <1>4 DEF Key
  <2>2. \A k, j \in DOMAIN l : Key(m[k]) = Key(m[j]) => k = j
    BY <1>2, <1>3 DEF Sound, OneKey
  <2> QED BY <1>3, <2>1, <2>2 DEF OneKey
<1>6. \A k \in DOMAIN m : m[k].reverses \in Nat /\ m[k].reverses <= Len(m) /\ m[k].reverses # Len(m)
  <2>1. n \in Nat /\ n <= Len(l)
    BY <1>1, <1>3
  <2>2. \A k \in DOMAIN l : m[k].reverses \in Nat /\ m[k].reverses <= Len(l)
    BY <1>2, <1>3 DEF Sound
  <2> QED BY <1>3, <2>1, <2>2
<1>7. Marked(m)
  <2> SUFFICES ASSUME NEW i \in DOMAIN m
               PROVE  m[i].reverted <=> \E k \in DOMAIN m : m[k].reverses = i
    BY DEF Marked
  <2>1. CASE i = Len(l) + 1
    BY <1>3, <1>6, <2>1
  <2>2. CASE i = n
    BY <1>1, <1>2, <1>3, <2>2
  <2>3. CASE i \in DOMAIN l /\ i # n
    <3>1. l[i].reverted <=> \E k \in DOMAIN l : l[k].reverses = i
      BY <2>3 DEF Sound, Marked
    <3>2. m[i] = l[i] /\ \A k \in DOMAIN l : m[k].reverses = l[k].reverses
      BY <1>2, <1>3, <2>3
    <3> QED BY <1>3, <2>3, <3>1, <3>2
  <2> QED BY <1>3, <2>1, <2>2, <2>3
<1>8. Grows(l, m)
  BY <1>1, <1>2, <1>3 DEF Grows
<1> QED BY <1>5, <1>6, <1>7, <1>8 DEF Sound, m, e

LEMMA GrowsOn ==
  ASSUME NEW l \in Seq(Row), NEW m \in Seq(Row), NEW k \in Seq(Row), Grows(l, m), Grows(m, k)
  PROVE  Grows(l, k)
<1>1. Len(l) \in Nat /\ Len(m) \in Nat /\ Len(k) \in Nat /\ DOMAIN l \subseteq DOMAIN m
  BY DEF Grows
<1>2. ASSUME NEW n \in DOMAIN l PROVE k[n] \in {l[n], [l[n] EXCEPT !.reverted = TRUE]}
  <2>1. m[n] \in {l[n], [l[n] EXCEPT !.reverted = TRUE]}
    BY <1>2 DEF Grows
  <2>2. k[n] \in {m[n], [m[n] EXCEPT !.reverted = TRUE]}
    BY <1>1, <1>2 DEF Grows
  <2>3. l[n] \in Row
    BY <1>2
  <2>4. [[l[n] EXCEPT !.reverted = TRUE] EXCEPT !.reverted = TRUE]
          = [l[n] EXCEPT !.reverted = TRUE]
    BY <2>3 DEF Row
  <2> QED BY <2>1, <2>2, <2>4
<1> QED BY <1>1, <1>2 DEF Grows

LEMMA GrowsSelf == ASSUME NEW l \in Seq(Row) PROVE Grows(l, l)
BY DEF Grows

History == Sound(ledger) /\ Sound(draft.ledger) /\ Grows(ledger, draft.ledger)

LEMMA HistoryStep ==
  TypeOK /\ UndoReady /\ History /\ [Next]_vars
    => History' /\ Grows(ledger, ledger')
<1> SUFFICES ASSUME TypeOK, UndoReady, History, [Next]_vars
             PROVE  History' /\ Grows(ledger, ledger')
  OBVIOUS
<1>1. ledger \in Seq(Row) /\ draft.ledger \in Seq(Row)
  BY DEF TypeOK
<1>2. Grows(ledger, ledger) /\ Grows(draft.ledger, draft.ledger)
  BY <1>1, GrowsSelf
<1>3. CASE TablesKept /\ draft' = draft
  BY <1>2, <1>3 DEF TablesKept, History
<1>4. CASE TablesKept /\ draft' = [hold |-> hold, ledger |-> ledger]
  BY <1>2, <1>4 DEF TablesKept, History
<1>5. CASE hold' = draft.hold /\ ledger' = draft.ledger /\ draft' = draft
  BY <1>2, <1>5 DEF History
<1>6. ASSUME TablesKept, NEW m \in Seq(Row), draft'.ledger = m, Sound(m), Grows(draft.ledger, m)
      PROVE  History' /\ Grows(ledger, ledger')
  <2>1. Grows(ledger, m)
    BY <1>1, <1>6, GrowsOn DEF History
  <2> QED BY <1>2, <1>6, <2>1 DEF TablesKept, History
<1>7. ASSUME TablesKept, NEW r, Writes(r)
      PROVE  History' /\ Grows(ledger, ledger')
  <2>1. Sound(Append(draft.ledger, r)) /\ Grows(draft.ledger, Append(draft.ledger, r))
    BY <1>1, <1>7, SoundAppend DEF Writes, History
  <2>2. draft'.ledger = Append(draft.ledger, r) /\ Append(draft.ledger, r) \in Seq(Row)
    BY <1>1, <1>7, AppendAt DEF Writes
  <2> QED BY <1>6, <1>7, <2>1, <2>2
<1>8. ASSUME TablesKept, NEW n, NEW r, Reverses(n, r)
      PROVE  History' /\ Grows(ledger, ledger')
  <2> DEFINE e == [draft.ledger EXCEPT ![n] = [@ EXCEPT !.reverted = TRUE]]
  <2>1. Sound(Append(e, r)) /\ Grows(draft.ledger, Append(e, r))
    BY <1>1, <1>8, SoundReverse DEF Reverses, History
  <2>2. e \in Seq(Row)
    BY <1>1, <1>8, EditRow DEF Reverses, Undoable
  <2>3. draft'.ledger = Append(e, r) /\ r \in Row
    BY <1>8 DEF Reverses
  <2> HIDE DEF e
  <2>4. Append(e, r) \in Seq(Row)
    BY <2>2, <2>3, AppendAt
  <2> QED BY <1>6, <1>8, <2>1, <2>3, <2>4
<1> QED BY <1>3, <1>4, <1>5, <1>7, <1>8, TableMoves

(* The ledger is an audit trail: rows are never removed or rewritten, no    *)
(* change is recorded or reversed twice, a mark and its reversal come and   *)
(* stay together, whatever threads, stops and retries do.                   *)
THEOREM AuditTrail == Spec => HistoryKept
<1>1. Init => History
  BY DEF Init, History, Sound, OneKey, Marked, Grows
<1>2. History /\ History' /\ Grows(ledger, ledger')
        => (ledger' # ledger => Grows(ledger, ledger') /\ OneKey(ledger') /\ Marked(ledger'))
  BY DEF History, Sound
<1>3. TypeOK /\ UndoReady /\ History /\ [Next]_vars
        => /\ History'
           /\ [ledger' # ledger => Grows(ledger, ledger') /\ OneKey(ledger') /\ Marked(ledger')]_vars
  BY <1>2, HistoryStep
<1> QED BY <1>1, <1>3, TypeInit, TypeStep, PTL DEF Spec, HistoryKept

(***************************************************************************)
(* What a first commit does on holdings nobody changed.                    *)
(***************************************************************************)

\* The orders of a finite set leave nobody out.
LEMMA OrdersCover ==
  ASSUME NEW S, IsFiniteSet(S), NEW o \in SetToSeqs(S)
  PROVE  \A x \in S : \E i \in DOMAIN o : o[i] = x
<1> DEFINE D == 1..Cardinality(S)
<1>1. Cardinality(S) \in Nat
  BY FS_CardinalityType
<1>2. o \in [D -> S] /\ \A i, j \in D : i # j => o[i] # o[j]
  BY DEF SetToSeqs
<1>3. o \in Injection(D, S)
  BY <1>2 DEF Injection, IsInjective
<1>4. Cardinality(D) = Cardinality(S)
  BY <1>1, FS_Interval
<1> HIDE DEF D
<1>5. o \in Surjection(D, S)
  BY <1>3, <1>4, FS_Injection
<1> QED BY <1>2, <1>5 DEF Surjection

\* A sale is of what is held, and only purchases of the account precede it.
Calm(plan, h) ==
  \A i \in DOMAIN plan :
    /\ plan[i].action \in {"buy", "sell", "correct"}
    /\ plan[i].action = "sell" =>
         /\ plan[i].shares > 0 /\ plan[i].shares <= Held(h, plan[i].account)
         /\ \A j \in DOMAIN plan :
              j < i /\ plan[j].account = plan[i].account => plan[j].action = "buy"

\* Whatever the plan does to the account sets it to zero.
Cleared(plan, x) ==
  \A i \in DOMAIN plan : plan[i].account = x => plan[i].action = "correct" /\ plan[i].shares = 0

LEMMA SnapshotsCover ==
  ASSUME NEW s \in Statement, NEW h \in [Account -> Value], NEW plan \in Snapshots(s, h)
  PROVE  /\ Calm(plan, h)
         /\ \A x \in Code \ Codes(s) :
              Cleared(plan, x) /\ (Held(h, x) > 0 => \E i \in DOMAIN plan : plan[i].account = x)
<1>1. s.changes \in Seq(Change)
  BY DEF Statement
<1>2. IsFiniteSet(Omitted(s, h))
  BY FS_Subset DEF Omitted
<1>3. PICK xs \in SetToSeqs(Omitted(s, h)) : plan = s.changes \o Zeroed(xs)
  BY DEF Snapshots
<1>4. xs \in Seq(Omitted(s, h)) /\ \A x \in Omitted(s, h) : \E i \in DOMAIN xs : xs[i] = x
  BY <1>2, <1>3, Orders, OrdersCover
<1> DEFINE z == Zeroed(xs)
           m == Len(s.changes)
<1>5. /\ z \in Seq(Change) /\ Len(z) = Len(xs)
      /\ \A i \in 1..Len(xs) :
           /\ z[i].action = "correct" /\ z[i].account = xs[i] /\ z[i].shares = 0
           /\ xs[i] \in Omitted(s, h)
  <2>1. DOMAIN xs = 1..Len(xs) /\ Len(xs) \in Nat
    BY <1>4
  <2>2. \A i \in 1..Len(xs) : xs[i] \in Omitted(s, h) /\ xs[i] \in Account
    BY <1>4, <2>1 DEF Omitted, Account
  <2>3. \A i \in 1..Len(xs) : [action |-> "correct", account |-> xs[i], shares |-> 0] \in Change
    BY <2>2 DEF Change
  <2>4. z = [i \in 1..Len(xs) |-> [action |-> "correct", account |-> xs[i], shares |-> 0]]
    BY <2>1 DEF Zeroed
  <2> HIDE DEF z
  <2> QED BY <2>1, <2>2, <2>3, <2>4
<1>6. m \in Nat /\ Len(xs) \in Nat /\ DOMAIN s.changes = 1..m
  BY <1>1, <1>4
<1>7. /\ DOMAIN plan = 1..(m + Len(xs))
      /\ \A i \in 1..m : plan[i] = s.changes[i]
      /\ \A i \in 1..Len(xs) : plan[m + i] = z[i]
  <2> HIDE DEF z
  <2>1. plan = s.changes \o z
    BY <1>3 DEF z
  <2>2. Len(plan) = m + Len(xs) /\ plan \in Seq(Change)
    <3>1. \A p, q \in Seq(Change) : p \o q \in Seq(Change) /\ Len(p \o q) = Len(p) + Len(q)
      OBVIOUS
    <3> QED BY <1>1, <1>5, <2>1, <3>1
  <2>3. \A i \in 1..Len(xs) : m + i \in 1..(m + Len(z)) /\ ~ (m + i <= m) /\ (m + i) - m = i
    BY <1>5, <1>6
  <2> QED BY <1>1, <1>5, <1>6, <2>1, <2>2, <2>3
<1> HIDE DEF z, m
<1>8. \A i \in DOMAIN plan : i \in 1..m \/ (i - m \in 1..Len(xs) /\ i = m + (i - m))
  BY <1>6, <1>7
<1>9. \A i \in DOMAIN plan : plan[i].action = "correct"
  <2>1. \A i \in 1..m : plan[i].action = "correct"
    BY <1>6, <1>7 DEF Snapshots
  <2>2. \A k \in 1..Len(xs) : plan[m + k].action = "correct"
    BY <1>5, <1>7
  <2> QED BY <1>8, <2>1, <2>2
<1>10. \A i \in 1..m : plan[i].account \notin Code \ Codes(s)
  BY <1>6, <1>7 DEF Codes
<1>11. ASSUME NEW x \in Code \ Codes(s)
       PROVE  Cleared(plan, x) /\ (Held(h, x) > 0 => \E i \in DOMAIN plan : plan[i].account = x)
  <2>1. ASSUME NEW i \in DOMAIN plan, plan[i].account = x
        PROVE  plan[i].action = "correct" /\ plan[i].shares = 0
    <3>1. i - m \in 1..Len(xs) /\ plan[i] = z[i - m]
      BY <1>7, <1>8, <1>10, <2>1
    <3> QED BY <1>5, <3>1
  <2>2. ASSUME Held(h, x) > 0 PROVE \E i \in DOMAIN plan : plan[i].account = x
    <3>1. x \in Omitted(s, h)
      BY <2>2 DEF Omitted
    <3>2. PICK k \in DOMAIN xs : xs[k] = x
      BY <1>4, <3>1
    <3>3. k \in 1..Len(xs)
      BY <1>4
    <3>4. m + k \in DOMAIN plan
      BY <1>6, <1>7, <3>3
    <3>5. plan[m + k].account = x
      BY <1>5, <1>7, <3>2, <3>3
    <3> QED BY <3>4, <3>5
  <2> QED BY <2>1, <2>2 DEF Cleared
<1> QED BY <1>9, <1>11 DEF Calm

LEMMA TradesCalm ==
  ASSUME NEW s \in Statement, NEW h \in [Account -> Value], NEW plan \in Trades(s, h), OneEach(s)
  PROVE  Calm(plan, h)
<1>1. /\ plan = [i \in DOMAIN s.changes |-> Resolved(s.changes[i], h)]
      /\ \A i \in DOMAIN plan : Acceptable(plan[i], h)
  BY DEF Trades
<1>2. \A i \in DOMAIN s.changes : s.changes[i] \in Change
  BY DEF Statement
<1>3. \A i \in DOMAIN plan :
        /\ plan[i].account = s.changes[i].account
        /\ plan[i].action = IF s.changes[i].action = "sell_all" THEN "sell" ELSE s.changes[i].action
  BY <1>1, <1>2 DEF Resolved, Change
<1>4. \A i \in DOMAIN plan : plan[i].action \in {"buy", "sell", "correct"}
  BY <1>1, <1>2, <1>3 DEF Change
<1>5. \A i \in DOMAIN plan : plan[i].action = "sell" =>
        plan[i].shares > 0 /\ plan[i].shares <= Held(h, plan[i].account)
  BY <1>1 DEF Acceptable
<1>6. ASSUME NEW i \in DOMAIN plan, plan[i].action = "sell",
             NEW j \in DOMAIN plan, j # i, plan[j].account = plan[i].account
      PROVE  plan[j].action = "buy"
  <2>1. "buy" \in {s.changes[i].action, s.changes[j].action}
    BY <1>1, <1>3, <1>6 DEF OneEach
  <2> QED BY <1>3, <1>6, <2>1
<1>7. DOMAIN plan \subseteq Int
  BY <1>1 DEF Statement
<1> QED BY <1>4, <1>5, <1>6, <1>7 DEF Calm

\* The plan follows from what the thread has seen.
PlansKnown ==
  \A w \in Teller : work[w].step \in {"resolved", "writing"} =>
    work[w].plan \in Plans(work[w].said, work[w].seen)

\* The change of x is still to be written.
Untouched(w, x) ==
  \A i \in DOMAIN work[w].plan : i < work[w].next => work[w].plan[i].account # x

OnlyBought(w, x) ==
  \A i \in DOMAIN work[w].plan :
    i < work[w].next /\ work[w].plan[i].account = x => work[w].plan[i].action = "buy"

\* How far a first commit on unchanged holdings has come.
Progress(w) ==
  /\ \A n \in DOMAIN draft.ledger :
       draft.ledger[n].source = work[w].said.source /\ draft.ledger[n].reverses = 0
         => draft.ledger[n].index < work[w].next
  /\ \A x \in Account :
       /\ Untouched(w, x) => draft.hold[x] = hold[x]
       /\ Cleared(work[w].plan, x) /\ ~Untouched(w, x) => draft.hold[x] = 0
  /\ Calm(work[w].plan, hold) => \A x \in Account :
       /\ Amount(draft.hold[x]) < 0 => Amount(draft.hold[x]) >= Amount(hold[x])
       /\ OnlyBought(w, x) => Amount(draft.hold[x]) >= Amount(hold[x])

Undisturbed(w) == work[w].step = "writing" /\ work[w].seen = hold /\ FirstAttempt(w)

CommitInv == PlansKnown /\ \A w \in Worker : Undisturbed(w) => Progress(w)

LEMMA Advanced ==
  ASSUME TypeOK, NEW w \in Worker, work[w].step = "writing", Advance(w)
  PROVE  /\ work'[w].step = "writing" /\ work'[w].said = work[w].said
         /\ work'[w].plan = work[w].plan /\ work'[w].seen = work[w].seen
         /\ work'[w].next = work[w].next + 1
         /\ \A u \in Worker \ {w} : work'[u] = work[u]
<1>1. work[w] \in WorkType /\ work \in [Worker -> WorkType]
  BY DEF TypeOK
<1>2. work' = [work EXCEPT ![w] = [work[w] EXCEPT !.next = work[w].next + 1]]
  BY DEF Advance
<1> QED BY <1>1, <1>2 DEF WorkType

LEMMA ProgressWrite ==
  ASSUME TypeOK, NEW w \in Worker, WriteRow(w), Undisturbed(w), Progress(w)
  PROVE  Progress(w)'
<1> DEFINE src == work[w].said.source
           plan == work[w].plan
           next == work[w].next
           c == plan[next]
           l == draft.ledger
           h == draft.hold
           old == h[c.account]
<1>1. /\ work[w].step = "writing" /\ next <= Len(plan) /\ plan \in Seq(Change) /\ next \in Nat \ {0}
  BY Kept DEF WriteRow
<1>2. /\ work'[w].said = work[w].said /\ work'[w].plan = plan /\ work'[w].next = next + 1
      /\ hold' = hold
  BY <1>1, Advanced DEF WriteRow
<1>3. l \in Seq(Row) /\ h \in [Account -> Value] /\ hold \in [Account -> Value]
  BY DEF TypeOK
<1>4. next \in DOMAIN plan /\ c \in Change
  BY <1>1
<1>5. ~ Recorded(l, src, next)
  <2> SUFFICES ASSUME Recorded(l, src, next) PROVE FALSE
    OBVIOUS
  <2>1. PICK n \in DOMAIN l : l[n].source = src /\ l[n].index = next /\ l[n].reverses = 0
    BY DEF Recorded
  <2>2. l[n].index < next
    BY <2>1 DEF Progress
  <2> QED BY <1>1, <2>1, <2>2
<1>6. PICK r : /\ r.source = src /\ r.index = next
               /\ draft' = [hold |-> [h EXCEPT ![c.account] = After(c, old)], ledger |-> Append(l, r)]
  <2>1. PICK at \in Stamps(l) :
          draft' = [hold |-> [h EXCEPT ![c.account] = After(c, old)],
                    ledger |-> Append(l,
                      [source |-> src, index |-> next, account |-> c.account,
                       before |-> old, after |-> After(c, old),
                       named |-> Named(c.account, old), at |-> at,
                       reverses |-> 0, reverted |-> FALSE])]
    BY <1>5 DEF WriteRow
  <2> QED BY <2>1
<1>7. draft'.hold = [h EXCEPT ![c.account] = After(c, old)] /\ draft'.ledger = Append(l, r)
  BY <1>6
<1>8. c.account \in Account /\ c.shares \in Nat /\ old \in Value
  BY <1>3, <1>4 DEF Change
<1>9. Amount(After(c, old)) = After(c, old) /\ After(c, old) \in Int /\ Amount(old) \in Int
  <2>1. Amount(old) \in Int
    BY <1>8, AmountInt
  <2>2. After(c, old) \in Int
    BY <1>8, <2>1 DEF After
  <2> QED BY <2>1, <2>2 DEF Amount
<1> DEFINE v(x) == draft'.hold[x]
<1>10. v(c.account) = After(c, old) /\ \A x \in Account \ {c.account} : v(x) = h[x]
  BY <1>3, <1>7, <1>8
<1>11. \A i \in DOMAIN plan : i \in Nat /\ (i < next + 1 <=> i < next \/ i = next)
  BY <1>1
<1>12. \A x \in Account :
         /\ Untouched(w, x)' <=> Untouched(w, x) /\ x # c.account
         /\ OnlyBought(w, x)' <=> OnlyBought(w, x) /\ (x = c.account => c.action = "buy")
  BY <1>2, <1>4, <1>11 DEF Untouched, OnlyBought
<1>13. \A n \in DOMAIN Append(l, r) :
         Append(l, r)[n].source = src /\ Append(l, r)[n].reverses = 0 => Append(l, r)[n].index < next + 1
  <2>1. \A n \in DOMAIN Append(l, r) : Append(l, r)[n] = r \/ (n \in DOMAIN l /\ Append(l, r)[n] = l[n])
    BY <1>3
  <2>2. \A n \in DOMAIN l : l[n].index \in Nat
    <3>1. \A n \in DOMAIN l : l[n] \in Row
      BY <1>3
    <3> HIDE DEF l
    <3> QED BY <3>1 DEF Row
  <2>3. \A n \in DOMAIN l : l[n].source = src /\ l[n].reverses = 0 => l[n].index < next
    BY DEF Progress
  <2> TAKE n \in DOMAIN Append(l, r)
  <2>4. CASE Append(l, r)[n] = r
    BY <1>1, <1>6, <2>4
  <2>5. CASE n \in DOMAIN l /\ Append(l, r)[n] = l[n]
    <3>1. l[n].source = src /\ l[n].reverses = 0 => l[n].index < next
      BY <2>3, <2>5
    <3> HIDE DEF l, src, next
    <3> QED BY <1>1, <2>2, <2>5, <3>1
  <2> QED BY <2>1, <2>4, <2>5
<1>14. \A x \in Account :
         /\ Untouched(w, x)' => v(x) = hold[x]
         /\ Cleared(plan, x) /\ ~Untouched(w, x)' => v(x) = 0
  <2> TAKE x \in Account
  <2>1. CASE x = c.account
    <3>1. Cleared(plan, x) => After(c, old) = 0
      BY <1>4, <2>1 DEF Cleared, After
    <3> QED BY <1>10, <1>12, <2>1, <3>1
  <2>2. CASE x # c.account
    BY <1>10, <1>12, <2>2 DEF Progress
  <2> QED BY <2>1, <2>2
<1>15. ASSUME Calm(plan, hold), NEW x \in Account
       PROVE  /\ Amount(v(x)) < 0 => Amount(v(x)) >= Amount(hold[x])
              /\ OnlyBought(w, x)' => Amount(v(x)) >= Amount(hold[x])
  <2>1. /\ Amount(h[x]) < 0 => Amount(h[x]) >= Amount(hold[x])
        /\ OnlyBought(w, x) => Amount(h[x]) >= Amount(hold[x])
    BY <1>15 DEF Progress
  <2>2. CASE x # c.account
    BY <1>10, <1>12, <2>1, <2>2
  <2>3. CASE x = c.account
    <3>1. Amount(v(x)) = After(c, old) /\ old = h[x] /\ Amount(hold[x]) \in Int
      BY <1>3, <1>9, <1>10, <2>3, AmountInt
    <3>2. CASE c.action = "buy"
      <4>1. After(c, old) = Amount(h[x]) + c.shares
        BY <3>1, <3>2 DEF After
      <4> QED BY <1>8, <1>9, <1>12, <2>1, <3>1, <4>1
    <3>3. CASE c.action = "sell"
      <4>1. OnlyBought(w, x)
        BY <1>4, <1>15, <2>3, <3>3 DEF Calm, OnlyBought
      <4>2. c.shares > 0 /\ c.shares <= Held(hold, x)
        BY <1>4, <1>15, <2>3, <3>3 DEF Calm
      <4>3. c.shares <= Amount(hold[x])
        BY <1>8, <3>1, <4>2 DEF Held
      <4>4. After(c, old) = Amount(h[x]) - c.shares
        BY <3>1, <3>3 DEF After
      <4>5. After(c, old) >= 0
        BY <1>8, <1>9, <2>1, <3>1, <4>1, <4>3, <4>4
      <4>6. ~ OnlyBought(w, x)'
        BY <1>12, <2>3, <3>3
      <4>7. ~ (Amount(v(x)) < 0)
        BY <1>9, <3>1, <4>5
      <4> QED BY <4>6, <4>7
    <3>4. CASE c.action = "correct"
      <4>1. After(c, old) = c.shares
        BY <3>4 DEF After
      <4> QED BY <1>8, <1>12, <2>3, <3>1, <3>4, <4>1
    <3> QED BY <1>4, <1>15, <3>2, <3>3, <3>4 DEF Calm
  <2> QED BY <2>2, <2>3
<1> HIDE DEF src, plan, next, c, l, h, old
<1> QED BY <1>2, <1>7, <1>13, <1>14, <1>15 DEF Progress, src, plan, next

LEMMA PlansKept ==
  ASSUME TypeOK, PlansKnown, NEW w \in Worker, NEW v, work' = [work EXCEPT ![w] = v],
         v.step \in {"resolved", "writing"} => v.plan \in Plans(v.said, v.seen)
  PROVE  PlansKnown'
<1>1. work'[w] = v /\ \A u \in Worker \ {w} : work'[u] = work[u]
  BY DEF TypeOK
<1>2. Teller \subseteq Worker
  BY DEF Worker
<1> QED BY <1>1, <1>2 DEF PlansKnown

\* A step outside the transaction that writes.
LEMMA Aside ==
  ASSUME TypeOK, CommitInv, PlansKnown', UNCHANGED <<hold, ledger, draft>>,
         NEW w \in Worker, NEW v, work' = [work EXCEPT ![w] = v], v.step # "writing"
  PROVE  CommitInv'
<1>1. work'[w] = v /\ \A u \in Worker \ {w} : work'[u] = work[u]
  BY DEF TypeOK
<1> SUFFICES ASSUME NEW u \in Worker, Undisturbed(u)' PROVE Progress(u)'
  BY DEF CommitInv
<1>2. work'[u] = work[u]
  BY <1>1 DEF Undisturbed
<1>3. Progress(u)
  BY <1>2 DEF CommitInv, Undisturbed, FirstAttempt
<1> QED BY <1>2, <1>3 DEF Progress, Untouched, OnlyBought

\* Who is in the transaction alone has progress to show.
LEMMA Inside ==
  ASSUME TypeOK', PlansKnown', NEW w \in Worker, owner' = w \/ owner' = None,
         owner' = w /\ Undisturbed(w)' => Progress(w)'
  PROVE  CommitInv'
<1>1. \A u \in Worker : Undisturbed(u)' => owner' = u
  BY DEF TypeOK, Undisturbed
<1>2. None \notin Worker
  BY PortfolioAssumption
<1> QED BY <1>1, <1>2 DEF CommitInv

LEMMA BeginProgress ==
  ASSUME TypeOK, NEW w \in Worker, Begin(w), Undisturbed(w)'
  PROVE  Progress(w)'
<1>1. work[w].step = "resolved" /\ draft = [hold |-> hold, ledger |-> ledger]
  BY DEF Begin, Open, TypeOK
<1>2. /\ work'[w] = [step |-> "writing", said |-> work[w].said, plan |-> work[w].plan,
                     seen |-> work[w].seen, next |-> 1]
      /\ draft' = draft /\ hold' = hold /\ ledger' = ledger
  BY DEF Begin, TypeOK
<1>3. work[w].plan \in Seq(Change) /\ hold \in [Account -> Value]
  BY <1>1, Kept DEF TypeOK
<1>4. \A i \in DOMAIN work'[w].plan : ~ (i < work'[w].next)
  BY <1>2, <1>3
<1>5. \A x \in Account : Untouched(w, x)'
  BY <1>4 DEF Untouched
<1>6. \A n \in DOMAIN ledger : ledger[n].source # work'[w].said.source
  BY <1>2 DEF Undisturbed, FirstAttempt
<1>7. \A x \in Account : Amount(hold[x]) \in Int
  BY <1>3, AmountInt
<1>8. \A x \in Account : Amount(hold[x]) >= Amount(hold[x])
  BY <1>7
<1> QED BY <1>1, <1>2, <1>5, <1>6, <1>8 DEF Progress

LEMMA CommitStep ==
  ASSUME TypeOK, UndoReady, CommitInv, [Next]_vars
  PROVE  CommitInv'
<1>1. TypeOK' /\ work \in [Worker -> WorkType] /\ PlansKnown
  BY TypeStep DEF TypeOK, CommitInv
<1>2. Teller \subseteq Worker /\ Undoer \subseteq Worker
  BY DEF Worker
<1>3. CASE UNCHANGED vars
  BY <1>3 DEF vars, CommitInv, PlansKnown, Progress, Untouched, OnlyBought, Undisturbed, FirstAttempt
<1>4. ASSUME NEW w \in Teller, NEW s \in Statements, Tell(w, s) PROVE CommitInv'
  <2>1. PICK v : /\ work' = [work EXCEPT ![w] = v] /\ v.step \in {"resolved", "done"}
                 /\ v.step = "resolved" => v.plan \in Plans(v.said, v.seen)
    <3>1. CASE \E plan \in Plans(s, hold) :
                 work' = [work EXCEPT ![w] =
                            [step |-> "resolved", said |-> s, plan |-> plan, seen |-> hold]]
      <4>1. PICK plan \in Plans(s, hold) :
              work' = [work EXCEPT ![w] =
                         [step |-> "resolved", said |-> s, plan |-> plan, seen |-> hold]]
        BY <3>1
      <4> WITNESS [step |-> "resolved", said |-> s, plan |-> plan, seen |-> hold]
      <4> QED BY <4>1
    <3>2. CASE work' = [work EXCEPT ![w] = [step |-> "done", said |-> s,
                          result |-> IF Rejected(s) THEN "rejected" ELSE "needs_input"]]
      <4> WITNESS [step |-> "done", said |-> s,
                   result |-> IF Rejected(s) THEN "rejected" ELSE "needs_input"]
      <4> QED BY <3>2
    <3> QED BY <1>4, <3>1, <3>2 DEF Tell
  <2>2. UNCHANGED <<hold, ledger, draft>>
    BY <1>4 DEF Tell
  <2>3. PlansKnown'
    BY <1>1, <1>2, <2>1, PlansKept
  <2> QED BY <1>2, <2>1, <2>2, <2>3, Aside
<1>5. ASSUME NEW w \in Teller, Begin(w) PROVE CommitInv'
  <2>1. owner' = w
    BY <1>5 DEF Begin, Open
  <2>2. PlansKnown'
    <3>1. work[w].plan \in Plans(work[w].said, work[w].seen)
      BY <1>1, <1>5 DEF Begin, PlansKnown
    <3> DEFINE v == [step |-> "writing", said |-> work[w].said, plan |-> work[w].plan,
                     seen |-> work[w].seen, next |-> 1]
    <3>2. work' = [work EXCEPT ![w] = v] /\ v.plan \in Plans(v.said, v.seen)
      BY <1>5, <3>1 DEF Begin
    <3> HIDE DEF v
    <3> QED BY <1>1, <1>2, <3>2, PlansKept
  <2> QED BY <1>1, <1>2, <1>5, <2>1, <2>2, BeginProgress, Inside
<1>6. ASSUME NEW w \in Teller, WriteRow(w) PROVE CommitInv'
  <2>1. owner' = w /\ hold' = hold /\ ledger' = ledger /\ work[w].step = "writing" /\ Advance(w)
    BY <1>6 DEF WriteRow
  <2>2. /\ work'[w].step = "writing" /\ work'[w].said = work[w].said
        /\ work'[w].plan = work[w].plan /\ work'[w].seen = work[w].seen
        /\ \A u \in Worker \ {w} : work'[u] = work[u]
    BY <1>2, <2>1, Advanced
  <2>3. PlansKnown'
    BY <1>1, <1>2, <2>1, <2>2 DEF PlansKnown
  <2>4. Undisturbed(w)' => Progress(w)'
    <3> HAVE Undisturbed(w)'
    <3>1. Undisturbed(w)
      BY <2>1, <2>2 DEF Undisturbed, FirstAttempt
    <3> QED BY <1>2, <1>6, <3>1, ProgressWrite DEF CommitInv
  <2> QED BY <1>1, <1>2, <2>1, <2>3, <2>4, Inside
<1>7. ASSUME NEW w \in Worker, NEW v, work' = [work EXCEPT ![w] = v],
             v.step \notin {"resolved", "writing"}
      PROVE  /\ owner' = None \/ (owner' = w /\ v.step = "undoing") => CommitInv'
             /\ UNCHANGED <<hold, ledger, draft>> => CommitInv'
  <2>1. PlansKnown'
    BY <1>1, <1>7, PlansKept
  <2>2. work'[w] = v
    BY <1>1, <1>7
  <2>3. v.step = "undoing" => ~Undisturbed(w)'
    BY <2>2 DEF Undisturbed
  <2>4. None \notin Worker
    BY PortfolioAssumption
  <2>5. owner' = None \/ (owner' = w /\ v.step = "undoing") => CommitInv'
    BY <1>1, <2>1, <2>3, <2>4, Inside
  <2>6. UNCHANGED <<hold, ledger, draft>> => CommitInv'
    BY <1>7, <2>1, Aside
  <2> QED BY <2>5, <2>6
<1>8. ASSUME NEW w \in Teller, RowRaises(w) \/ Commit(w) PROVE CommitInv'
  <2>1. owner' = None
    BY <1>8 DEF RowRaises, Commit, RollBack, Publish
  <2>2. PICK r : work' = [work EXCEPT ![w] = [step |-> "done", said |-> @.said, result |-> r]]
    BY <1>8 DEF RowRaises, Commit
  <2> QED BY <1>2, <1>7, <2>1, <2>2
<1>9. ASSUME NEW w \in Worker, SaveReceipt(w) \/ PickGroup(w) \/ BeginUndo(w) \/ NothingToUndo(w)
      PROVE  CommitInv'
  <2>1. UNCHANGED <<hold, ledger, draft>>
    BY <1>9 DEF SaveReceipt, PickGroup, BeginUndo, NothingToUndo
  <2>2. PICK v : work' = [work EXCEPT ![w] = v] /\ v.step \notin {"resolved", "writing"}
    <3>1. CASE SaveReceipt(w) \/ NothingToUndo(w)
      BY <3>1 DEF SaveReceipt, NothingToUndo, Idle
    <3>2. CASE PickGroup(w)
      <4>1. PICK n : work' = [work EXCEPT ![w] = [step |-> "undo", group |-> ledger[n].source]]
        BY <3>2 DEF PickGroup
      <4> WITNESS [step |-> "undo", group |-> ledger[n].source]
      <4> QED BY <4>1
    <3>3. CASE BeginUndo(w)
      BY <3>3 DEF BeginUndo
    <3> QED BY <1>9, <3>1, <3>2, <3>3
  <2> QED BY <1>7, <2>1, <2>2
<1>10. ASSUME NEW w \in Worker, UndoRaises(w) \/ CommitUndo(w) PROVE CommitInv'
  <2>1. owner' = None /\ work' = [work EXCEPT ![w] = Idle]
    BY <1>10 DEF UndoRaises, CommitUndo, RollBack, Publish
  <2>2. Idle.step \notin {"resolved", "writing"}
    BY DEF Idle
  <2> QED BY <1>7, <2>1, <2>2
<1>11. ASSUME NEW w \in Worker, RevertRow(w) PROVE CommitInv'
  <2> DEFINE v == [work[w] EXCEPT !.next = work[w].next + 1]
  <2>1. owner' = w /\ work' = [work EXCEPT ![w] = v] /\ work[w].step = "undoing"
    BY <1>11 DEF RevertRow, Advance
  <2>2. v.step = "undoing"
    BY <1>1, <2>1 DEF WorkType
  <2> HIDE DEF v
  <2> QED BY <1>7, <2>1, <2>2
<1>12. ASSUME Stop PROVE CommitInv'
  <2>1. owner' = None /\ \A w \in Worker : work'[w].step = "idle"
    BY <1>12 DEF Stop, RollBack, Idle
  <2> QED BY <1>2, <2>1 DEF CommitInv, PlansKnown, Undisturbed
<1> QED BY <1>2, <1>3, <1>4, <1>5, <1>6, <1>8, <1>9, <1>10, <1>11, <1>12
        DEF Next, TellerStep, UndoerStep

\* A first commit on unchanged holdings publishes what its progress says.
LEMMA FreshOne ==
  ASSUME TypeOK, CommitInv, NEW w \in Teller, Commit(w), work[w].seen = hold, FirstAttempt(w)
  PROVE  LET s == work[w].said
         IN  /\ s.complete => \A x \in Code \ Codes(s) : Held(hold', x) = 0
             /\ OneEach(s) => \A x \in Account :
                   Amount(hold'[x]) < 0 => Amount(hold'[x]) >= Amount(hold[x])
<1> DEFINE s == work[w].said
           plan == work[w].plan
<1>1. /\ w \in Worker /\ work[w].step = "writing" /\ work[w].next > Len(plan)
      /\ hold' = draft.hold
  BY DEF Commit, Publish, Worker
<1>2. /\ plan \in Seq(Change) /\ work[w].next \in Nat /\ s \in Statement
      /\ hold \in [Account -> Value] /\ draft.hold \in [Account -> Value]
  BY <1>1, Kept, PortfolioAssumption DEF TypeOK
<1>3. Progress(w) /\ plan \in Plans(s, hold)
  BY <1>1 DEF CommitInv, Undisturbed, PlansKnown
<1>4. \A i \in DOMAIN plan : i < work[w].next
  BY <1>1, <1>2
<1>5. CASE s.complete
  <2>1. plan \in Snapshots(s, hold)
    BY <1>3, <1>5 DEF Plans
  <2>2. /\ Calm(plan, hold)
        /\ \A x \in Code \ Codes(s) :
             Cleared(plan, x) /\ (Held(hold, x) > 0 => \E i \in DOMAIN plan : plan[i].account = x)
    BY <1>2, <2>1, SnapshotsCover
  <2>3. ASSUME NEW x \in Code \ Codes(s) PROVE Held(hold', x) = 0
    <3>1. x \in Account /\ Cleared(plan, x)
      BY <2>2 DEF Account
    <3>2. CASE Untouched(w, x)
      <4>1. ~ (Held(hold, x) > 0)
        BY <1>4, <2>2, <3>2 DEF Untouched
      <4>2. Held(hold, x) = 0
        <5>1. Held(hold, x) \in Nat
          BY <1>2, <3>1, HeldNat
        <5> QED BY <4>1, <5>1
      <4>3. hold'[x] = hold[x]
        BY <1>1, <1>3, <3>1, <3>2 DEF Progress
      <4> QED BY <4>2, <4>3 DEF Held
    <3>3. CASE ~Untouched(w, x)
      <4>1. hold'[x] = 0
        BY <1>1, <1>3, <3>1, <3>3 DEF Progress
      <4> QED BY <4>1 DEF Held, Amount
    <3> QED BY <3>2, <3>3
  <2>4. \A x \in Account : Amount(hold'[x]) < 0 => Amount(hold'[x]) >= Amount(hold[x])
    BY <1>1, <1>3, <2>2 DEF Progress
  <2> QED BY <2>3, <2>4
<1>6. CASE ~s.complete
  <2>1. plan \in Trades(s, hold)
    BY <1>3, <1>6 DEF Plans
  <2>2. OneEach(s) => Calm(plan, hold)
    BY <1>2, <2>1, TradesCalm
  <2> QED BY <1>1, <1>3, <1>6, <2>2 DEF Progress
<1> QED BY <1>5, <1>6

(* Whatever threads and stops do, a first commit on holdings nobody changed *)
(* since the message was resolved does what the user said: no holding is    *)
(* sold below zero, and a complete snapshot leaves nothing that it omits.   *)
THEOREM FreshCommitsDoAsTold == Spec => FreshCommit
<1>1. Init => CommitInv
  BY DEF Init, CommitInv, PlansKnown, Undisturbed, Idle, Worker
<1>2. ASSUME TypeOK, CommitInv
      PROVE  \A w \in Teller :
               (Commit(w) /\ work[w].seen = hold /\ FirstAttempt(w)) =>
                 LET s == work[w].said
                 IN  /\ s.complete => \A x \in Code \ Codes(s) : Held(hold', x) = 0
                     /\ OneEach(s) => \A x \in Account :
                           Amount(hold'[x]) < 0 => Amount(hold'[x]) >= Amount(hold[x])
  BY <1>2, FreshOne
<1>3. TypeOK /\ UndoReady /\ CommitInv /\ [Next]_vars => CommitInv'
  BY CommitStep
<1> QED BY <1>1, <1>2, <1>3, TypeInit, TypeStep, PTL DEF Spec, FreshCommit

(***************************************************************************)
(* Undoing: the rows in force follow from one another.                     *)
(***************************************************************************)

\* The rows in force about x before the k-th.
About(l, x, k) == {n \in Undoable(l) : n < k /\ l[n].account = x}

LEMMA Newest ==
  ASSUME NEW l \in Seq(Row), NEW x, NEW k, About(l, x, k) # {}
  PROVE  Max(About(l, x, k)) \in About(l, x, k)
<1> DEFINE S == About(l, x, k)
           T == {Len(l) - n : n \in S}
<1>1. S \subseteq 1..Len(l) /\ Len(l) \in Nat
  BY DEF About, Undoable
<1> HIDE DEF S
<1>2. T \subseteq Nat /\ T # {}
  <2>1. PICK n \in S : TRUE
    BY DEF S
  <2>2. Len(l) - n \in T
    BY <2>1
  <2>3. \A m \in S : Len(l) - m \in Nat
    BY <1>1
  <2> QED BY <2>2, <2>3
<1>3. PICK t \in T : \A u \in T : <<u, t>> \notin OpToRel(<, Nat)
  <2> HIDE DEF T
  <2> QED BY <1>2, NatLessThanWellFounded, WFMin
<1>4. \A u \in T : ~(u < t)
  BY <1>2, <1>3 DEF OpToRel
<1>5. PICK n \in S : t = Len(l) - n
  OBVIOUS
<1>6. \A m \in S : n >= m
  <2> TAKE m \in S
  <2>1. ~(Len(l) - m < Len(l) - n)
    BY <1>4, <1>5
  <2>2. m \in Nat /\ n \in Nat
    BY <1>1
  <2> QED BY <1>1, <2>1, <2>2
<1> QED BY <1>6 DEF S, Max

LEMMA LeftNewest ==
  ASSUME NEW l \in Seq(Row), NEW x, NEW k, NEW n \in About(l, x, k),
         \A m \in About(l, x, k) : m <= n
  PROVE  Left(l, x, k) = l[n].after
<1> DEFINE S == About(l, x, k)
<1>1. S \subseteq 1..Len(l) /\ Len(l) \in Nat
  BY DEF About, Undoable
<1>2. n \in S /\ \A m \in S : n >= m
  OBVIOUS
<1>3. Left(l, x, k) = IF S = {} THEN Baseline[x] ELSE l[Max(S)].after
  BY DEF Left, About
<1> HIDE DEF S
<1>4. \A m \in S : (\A j \in S : m >= j) => m = n
  BY <1>1, <1>2
<1>5. Max(S) = n
  BY <1>2, <1>4 DEF Max
<1> QED BY <1>2, <1>3, <1>5

LEMMA LeftSame ==
  ASSUME NEW l \in Seq(Row), NEW m, NEW x, NEW j, NEW k,
         About(m, x, j) = About(l, x, k),
         \A n \in About(l, x, k) : m[n].after = l[n].after
  PROVE  Left(m, x, j) = Left(l, x, k)
<1>1. /\ Left(l, x, k) = IF About(l, x, k) = {} THEN Baseline[x] ELSE l[Max(About(l, x, k))].after
      /\ Left(m, x, j) = IF About(m, x, j) = {} THEN Baseline[x] ELSE m[Max(About(m, x, j))].after
  BY DEF Left, About
<1> QED BY <1>1, Newest

\* A row written on top of the holdings continues them.
LEMMA ChainAppend ==
  ASSUME NEW h \in [Account -> Value], NEW l \in Seq(Row), NEW r \in Row,
         r.reverses = 0, ~r.reverted, r.before = h[r.account], Chained(h, l)
  PROVE  Chained([h EXCEPT ![r.account] = r.after], Append(l, r))
<1> DEFINE g == [h EXCEPT ![r.account] = r.after]
           m == Append(l, r)
           N == Len(l) + 1
<1>1. /\ m \in Seq(Row) /\ DOMAIN m = DOMAIN l \cup {N} /\ Len(l) \in Nat /\ m[N] = r
      /\ Len(m) = N
      /\ \A k \in DOMAIN l : k \in 1..Len(l) /\ m[k] = l[k]
  BY AppendAt
<1>2. r.account \in Account
  BY DEF Row
<1> HIDE DEF m
<1>3. Undoable(m) = Undoable(l) \cup {N}
  BY <1>1 DEF Undoable
<1>4. ASSUME NEW x, NEW k \in Nat, k <= N
      PROVE  Left(m, x, k) = Left(l, x, k)
  <2>1. About(m, x, k) = About(l, x, k)
    BY <1>1, <1>3, <1>4 DEF About, Undoable
  <2>2. \A n \in About(l, x, k) : m[n].after = l[n].after
    BY <1>1 DEF About, Undoable
  <2> QED BY <2>1, <2>2, LeftSame
<1>5. ASSUME NEW x \in Account PROVE g[x] = Left(m, x, N + 1)
  <2>1. CASE x = r.account
    <3>1. N \in About(m, x, N + 1) /\ \A k \in About(m, x, N + 1) : k <= N
      BY <1>1, <1>3, <2>1 DEF About, Undoable
    <3>2. Left(m, x, N + 1) = m[N].after
      BY <1>1, <3>1, LeftNewest
    <3> QED BY <1>1, <1>2, <2>1, <3>2
  <2>2. CASE x # r.account
    <3>1. About(m, x, N + 1) = About(l, x, N)
      BY <1>1, <1>3, <2>2 DEF About, Undoable
    <3>2. \A n \in About(l, x, N) : m[n].after = l[n].after
      BY <1>1 DEF About, Undoable
    <3>3. Left(m, x, N + 1) = Left(l, x, N)
      BY <3>1, <3>2, LeftSame
    <3> QED BY <2>2, <3>3 DEF Chained
  <2> QED BY <2>1, <2>2
<1>6. ASSUME NEW n \in Undoable(m) PROVE m[n].before = Left(m, m[n].account, n)
  <2>1. CASE n = N
    <3>1. Left(m, r.account, N) = Left(l, r.account, N)
      BY <1>1, <1>4
    <3> QED BY <1>1, <1>2, <2>1, <3>1 DEF Chained
  <2>2. CASE n \in Undoable(l)
    <3>1. n \in Nat /\ n <= N /\ m[n] = l[n]
      BY <1>1, <2>2 DEF Undoable
    <3>2. Left(m, m[n].account, n) = Left(l, l[n].account, n)
      BY <1>4, <3>1
    <3> QED BY <2>2, <3>1, <3>2 DEF Chained
  <2> QED BY <1>3, <2>1, <2>2
<1> QED BY <1>1, <1>5, <1>6 DEF Chained, m

\* Taking back the newest row of an account leaves the others in line.
LEMMA ChainReverse ==
  ASSUME NEW h \in [Account -> Value], NEW l \in Seq(Row), NEW n \in Undoable(l), NEW r \in Row,
         [l[n] EXCEPT !.reverted = TRUE] \in Row,
         r.account = l[n].account, r.after = l[n].before, r.reverses # 0, Chained(h, l),
         \A k \in Undoable(l) : l[k].account = l[n].account => k <= n
  PROVE  Chained([h EXCEPT ![r.account] = r.after],
                 Append([l EXCEPT ![n] = [@ EXCEPT !.reverted = TRUE]], r))
<1> DEFINE g == [h EXCEPT ![r.account] = r.after]
           e == [l EXCEPT ![n] = [@ EXCEPT !.reverted = TRUE]]
           m == Append(e, r)
           N == Len(l) + 1
<1>1. n \in DOMAIN l
  BY DEF Undoable
<1>2. /\ e \in Seq(Row) /\ Len(e) = Len(l) /\ DOMAIN e = DOMAIN l /\ e[n].reverted
      /\ \A k \in DOMAIN l : k # n => e[k] = l[k]
  BY <1>1, MarkRow
<1> HIDE DEF e
<1>3. /\ m \in Seq(Row) /\ DOMAIN m = DOMAIN l \cup {N} /\ Len(l) \in Nat /\ m[N] = r
      /\ Len(m) = N
      /\ \A k \in DOMAIN l : k \in 1..Len(l) /\ m[k] = e[k]
  BY <1>2, AppendAt
<1> HIDE DEF m
<1>4. Undoable(m) = Undoable(l) \ {n} /\ \A k \in Undoable(m) : k \in 1..Len(l) /\ m[k] = l[k]
  BY <1>1, <1>2, <1>3 DEF Undoable
<1>5. ASSUME NEW x, NEW j, NEW k, About(m, x, j) = About(l, x, k)
      PROVE  Left(m, x, j) = Left(l, x, k)
  <2>1. \A i \in About(l, x, k) : m[i].after = l[i].after
    BY <1>4, <1>5 DEF About
  <2> QED BY <1>5, <2>1, LeftSame
<1>6. r.account \in Account
  BY DEF Row
<1>7. ASSUME NEW x \in Account PROVE g[x] = Left(m, x, N + 1)
  <2>1. CASE x = r.account
    <3>1. About(m, x, N + 1) = About(l, x, n)
      BY <1>1, <1>3, <1>4, <2>1 DEF About, Undoable
    <3>2. l[n].before = Left(l, x, n)
      BY <2>1 DEF Chained
    <3>3. Left(m, x, N + 1) = Left(l, x, n)
      BY <1>5, <3>1
    <3> QED BY <1>6, <2>1, <3>2, <3>3
  <2>2. CASE x # r.account
    <3>1. About(m, x, N + 1) = About(l, x, N)
      BY <1>3, <1>4, <2>2 DEF About, Undoable
    <3>2. Left(m, x, N + 1) = Left(l, x, N)
      BY <1>5, <3>1
    <3>3. h[x] = Left(l, x, N) /\ g[x] = h[x]
      BY <2>2 DEF Chained
    <3> QED BY <3>2, <3>3
  <2> QED BY <2>1, <2>2
<1>8. ASSUME NEW k \in Undoable(m) PROVE m[k].before = Left(m, m[k].account, k)
  <2>1. k \in Undoable(l) /\ k \in Nat /\ m[k] = l[k]
    BY <1>3, <1>4
  <2>2. Left(m, l[k].account, k) = Left(l, l[k].account, k)
    <3>1. About(m, l[k].account, k) = About(l, l[k].account, k)
      BY <1>1, <1>3, <1>4, <2>1 DEF About, Undoable
    <3> QED BY <1>5, <3>1
  <2> QED BY <2>1, <2>2 DEF Chained
<1> QED BY <1>3, <1>7, <1>8 DEF Chained, m, e

\* No row of a message has an earlier time than the rows before it.
Timed(l) ==
  \A k \in DOMAIN l : l[k].reverses = 0 => \A n \in DOMAIN l : n < k => l[n].at <= l[k].at

\* An undo has a whole group in hand, an older row first only for one time.
GroupInHand(w) ==
  /\ \A i, j \in DOMAIN work[w].rows :
       i < j /\ work[w].rows[i] < work[w].rows[j] =>
         ledger[work[w].rows[i]].at = ledger[work[w].rows[j]].at
  /\ \A i \in DOMAIN work[w].rows : work[w].rows[i] \in Undoable(ledger)
  /\ \A i \in DOMAIN work[w].rows : \A k \in Undoable(ledger) :
       ledger[k].source = ledger[work[w].rows[i]].source => \E j \in DOMAIN work[w].rows : work[w].rows[j] = k

\* What it has come to is out of force, the rest stands as committed.
UndoneSoFar(w) ==
  /\ \A i \in DOMAIN work[w].rows : i < work[w].next => work[w].rows[i] \notin Undoable(draft.ledger)
  /\ \A k \in Undoable(draft.ledger) :
       /\ k \in Undoable(ledger)
       /\ draft.ledger[k].account = ledger[k].account

Undoing(w) == work[w].step = "undoing"

\* The undo is neither overtaken nor misled by equal times.
Clean(w) == StillNewest(w) /\ ~OlderFirst(w)

ChainInv ==
  /\ Timed(ledger) /\ Timed(draft.ledger)
  /\ \A w \in Worker : Undoing(w) => GroupInHand(w) /\ UndoneSoFar(w)
  /\ Chained(hold, ledger) /\ (\A w \in Worker : Undoing(w) => Clean(w))
       => Chained(draft.hold, draft.ledger)

\* A step that leaves the tables and the undos alone.
LEMMA ChainAside ==
  ASSUME TypeOK, ChainInv, UNCHANGED <<hold, ledger, draft>>, NEW w \in Worker, NEW v,
         work' = [work EXCEPT ![w] = v], ~Undoing(w), v.step # "undoing"
  PROVE  ChainInv'
<1>1. work'[w] = v /\ \A u \in Worker \ {w} : work'[u] = work[u]
  BY DEF TypeOK
<1>2. \A u \in Worker : Undoing(u)' => u # w /\ Undoing(u) /\ work'[u] = work[u]
  BY <1>1 DEF Undoing
<1>3. \A u \in Worker : Undoing(u)' => GroupInHand(u)' /\ UndoneSoFar(u)'
  BY <1>2 DEF ChainInv, GroupInHand, UndoneSoFar
<1>4. \A u \in Worker : Undoing(u) => Undoing(u)' /\ (Clean(u)' => Clean(u))
  BY <1>1 DEF Undoing, Clean, StillNewest, OlderFirst
<1> QED BY <1>3, <1>4 DEF ChainInv

\* Nobody undoes, and the draft is what is committed.
LEMMA ChainSettled ==
  ASSUME Timed(ledger'), draft' = [hold |-> hold', ledger |-> ledger'],
         \A w \in Worker : ~Undoing(w)'
  PROVE  ChainInv'
BY DEF ChainInv

LEMMA TimedAppend ==
  ASSUME NEW l \in Seq(Row), Timed(l), NEW r \in Row,
         r.reverses = 0 => \A n \in DOMAIN l : l[n].at <= r.at
  PROVE  Timed(Append(l, r))
<1>1. /\ DOMAIN Append(l, r) = DOMAIN l \cup {Len(l) + 1} /\ Append(l, r)[Len(l) + 1] = r
      /\ \A k \in DOMAIN l : Append(l, r)[k] = l[k]
  BY AppendAt
<1> QED BY <1>1 DEF Timed

LEMMA BeginUndoChain ==
  ASSUME TypeOK, ChainInv, NEW w \in Undoer, BeginUndo(w)
  PROVE  ChainInv'
<1>1. PICK o \in UndoOrders(work[w].group) :
        work' = [work EXCEPT ![w] = [step |-> "undoing", rows |-> o, next |-> 1]]
  BY DEF BeginUndo
<1>2. /\ w \in Worker /\ owner = None /\ UNCHANGED <<hold, ledger, draft>>
      /\ draft = [hold |-> hold, ledger |-> ledger]
  BY DEF BeginUndo, Open, TypeOK, Worker
<1>3. /\ work'[w].step = "undoing" /\ work'[w].rows = o /\ work'[w].next = 1
      /\ \A u \in Worker \ {w} : work'[u] = work[u]
  BY <1>1, <1>2 DEF TypeOK
<1>4. \A u \in Worker \ {w} : ~Undoing(u)'
  BY <1>2, <1>3, NotInside, PortfolioAssumption DEF Undoing
<1>5. /\ o \in Seq(Nat \ {0})
      /\ \A i, j \in DOMAIN o : i # j => o[i] # o[j]
      /\ \A i \in DOMAIN o : o[i] \in Undoable(ledger)
  BY UndoOrdered
<1>6. \A i, j \in DOMAIN o : i < j /\ o[i] < o[j] => ledger[o[i]].at = ledger[o[j]].at
  <2> SUFFICES ASSUME NEW i \in DOMAIN o, NEW j \in DOMAIN o, i < j, o[i] < o[j]
               PROVE  ledger[o[i]].at = ledger[o[j]].at
    OBVIOUS
  <2>1. ledger[o[i]].at >= ledger[o[j]].at
    BY DEF UndoOrders
  <2>2. /\ o[i] \in DOMAIN ledger /\ o[j] \in DOMAIN ledger /\ ledger[o[j]].reverses = 0
        /\ Timed(ledger)
    BY <1>5 DEF ChainInv, Undoable
  <2>3. ledger[o[i]].at <= ledger[o[j]].at
    BY <2>2 DEF Timed
  <2>4. ledger[o[i]] \in Row /\ ledger[o[j]] \in Row
    BY <2>2 DEF TypeOK
  <2>5. ledger[o[i]].at \in Nat /\ ledger[o[j]].at \in Nat
    BY <2>4 DEF Row
  <2> QED BY <2>1, <2>3, <2>5
<1>7. o \in SetToSeqs(Members(work[w].group)) /\ IsFiniteSet(Members(work[w].group))
  <2>1. IsFiniteSet(1..Len(ledger)) /\ Members(work[w].group) \subseteq 1..Len(ledger)
    <3>1. DOMAIN ledger = 1..Len(ledger) /\ Len(ledger) \in Nat
      BY DEF TypeOK
    <3> QED BY <3>1, FS_Interval DEF Members, Undoable
  <2> QED BY <2>1, FS_Subset DEF UndoOrders
<1>8. /\ \A k \in Members(work[w].group) : \E j \in DOMAIN o : o[j] = k
      /\ \A i \in DOMAIN o : ledger[o[i]].source = work[w].group
  <2>1. \A i \in DOMAIN o : o[i] \in Members(work[w].group)
    BY <1>7 DEF SetToSeqs
  <2> QED BY <1>7, <2>1, OrdersCover DEF Members
<1>9. \A i \in DOMAIN o : \A k \in Undoable(ledger) :
        ledger[k].source = ledger[o[i]].source => \E j \in DOMAIN o : o[j] = k
  BY <1>8 DEF Members
<1>10. GroupInHand(w)'
  BY <1>2, <1>3, <1>5, <1>6, <1>9 DEF GroupInHand
<1>11. UndoneSoFar(w)'
  <2>1. \A i \in DOMAIN o : ~(i < 1)
    BY <1>5
  <2> QED BY <1>2, <1>3, <2>1 DEF UndoneSoFar
<1> QED BY <1>2, <1>4, <1>10, <1>11 DEF ChainInv

LEMMA WriteRowChain ==
  ASSUME TypeOK, ChainInv, NEW w \in Teller, WriteRow(w), TypeOK'
  PROVE  ChainInv'
<1>1. /\ w \in Worker /\ owner = w /\ work[w].step = "writing" /\ Advance(w)
      /\ owner' = w /\ UNCHANGED <<hold, ledger>>
  BY DEF WriteRow, Worker
<1>2. work'[w].step = "writing"
  BY <1>1, Advanced
<1>3. \A u \in Worker : ~Undoing(u) /\ ~Undoing(u)'
  BY <1>1, <1>2 DEF TypeOK, Undoing
<1>4. CASE UNCHANGED draft
  BY <1>1, <1>3, <1>4 DEF ChainInv
<1>5. ASSUME NEW r \in Row, r.reverses = 0, ~r.reverted, r.before = draft.hold[r.account],
             r.at \in Stamps(draft.ledger),
             draft' = [hold |-> [draft.hold EXCEPT ![r.account] = r.after],
                       ledger |-> Append(draft.ledger, r)]
      PROVE  ChainInv'
  <2>1. draft.hold \in [Account -> Value] /\ draft.ledger \in Seq(Row)
    BY DEF TypeOK
  <2>2. \A n \in DOMAIN draft.ledger : draft.ledger[n].at <= r.at
    BY <1>5 DEF Stamps
  <2>3. Timed(Append(draft.ledger, r))
    BY <1>5, <2>1, <2>2, TimedAppend DEF ChainInv
  <2>4. Chained(draft.hold, draft.ledger) => Chained(draft'.hold, draft'.ledger)
    BY <1>5, <2>1, ChainAppend
  <2> QED BY <1>1, <1>3, <1>5, <2>3, <2>4 DEF ChainInv
<1> QED BY <1>1, <1>4, <1>5, RowWritten

LEMMA RevertRowChain ==
  ASSUME TypeOK, UndoReady, ChainInv, NEW w \in Undoer, RevertRow(w), TypeOK'
  PROVE  ChainInv'
<1> DEFINE l == draft.ledger
           rows == work[w].rows
           next == work[w].next
<1>1. /\ w \in Worker /\ owner = w /\ work[w].step = "undoing" /\ Advance(w)
      /\ owner' = w /\ UNCHANGED <<hold, ledger>> /\ next <= Len(rows)
  BY DEF RevertRow, Worker
<1>2. PICK n \in Undoable(l) :
        LET r == Reversal(l, n)
        IN  /\ n = rows[next]
            /\ [l[n] EXCEPT !.reverted = TRUE] \in Row
            /\ r \in Row /\ r.account = l[n].account /\ r.after = l[n].before
            /\ r.reverses = n
            /\ draft' = [hold |-> [draft.hold EXCEPT ![r.account] = r.after],
                         ledger |-> Append([l EXCEPT ![n] = [@ EXCEPT !.reverted = TRUE]], r)]
  BY <1>1, RowReversed
<1> DEFINE r == Reversal(l, n)
           e == [l EXCEPT ![n] = [@ EXCEPT !.reverted = TRUE]]
           m == Append(e, r)
<1>3. /\ l \in Seq(Row) /\ draft.hold \in [Account -> Value] /\ n \in DOMAIN l
      /\ rows \in Seq(Nat \ {0}) /\ next \in Nat \ {0}
  BY <1>1, Kept DEF TypeOK, Undoable
<1>4. r \in Row /\ r.reverses = n /\ n # 0 /\ r.account = l[n].account /\ r.after = l[n].before
  <2>1. n # 0
    <3> HIDE DEF l
    <3> QED BY <1>3
  <2> QED BY <1>2, <2>1
<1>5. /\ e \in Seq(Row) /\ Len(e) = Len(l) /\ DOMAIN e = DOMAIN l /\ e[n].reverted
      /\ \A k \in DOMAIN l : k # n => e[k] = l[k]
      /\ e[n] = [l[n] EXCEPT !.reverted = TRUE]
  BY <1>2, <1>3, MarkRow
<1>6. draft'.ledger = m /\ draft'.hold = [draft.hold EXCEPT ![r.account] = r.after]
  BY <1>2
<1>7. /\ work'[w].step = "undoing" /\ work'[w].rows = rows /\ work'[w].next = next + 1
      /\ \A u \in Worker \ {w} : ~Undoing(u) /\ ~Undoing(u)'
  <2>1. work[w] \in WorkType /\ work' = [work EXCEPT ![w].next = @ + 1]
    BY <1>1 DEF TypeOK, Advance
  <2>2. \A u \in Worker \ {w} : work'[u] = work[u] /\ ~Undoing(u)
    BY <1>1, <2>1 DEF TypeOK, Undoing
  <2>3. work'[w] = [work[w] EXCEPT !.next = @ + 1]
    BY <1>1, <2>1 DEF TypeOK
  <2>4. work'[w].step = "undoing" /\ work'[w].rows = rows /\ work'[w].next = next + 1
    BY <1>1, <2>1, <2>3 DEF WorkType
  <2> QED BY <2>2, <2>4 DEF Undoing
<1>8. GroupInHand(w) /\ UndoneSoFar(w)
  BY <1>1 DEF ChainInv, Undoing
<1> HIDE DEF r, e
<1>9. /\ DOMAIN m = DOMAIN l \cup {Len(l) + 1} /\ Len(l) \in Nat /\ m[Len(l) + 1] = r
      /\ \A k \in DOMAIN l : k \in 1..Len(l) /\ m[k] = e[k]
  BY <1>4, <1>5, AppendAt
<1>10. Undoable(m) = Undoable(l) \ {n} /\ \A k \in Undoable(m) : m[k] = l[k]
  <2> HIDE DEF l, m
  <2>1. m[Len(l) + 1].reverses # 0 /\ m[n].reverted
    BY <1>3, <1>4, <1>5, <1>9
  <2>2. \A k \in DOMAIN l : k # n => m[k] = l[k]
    BY <1>5, <1>9
  <2> QED BY <1>9, <2>1, <2>2 DEF Undoable
<1>11. Timed(m)
  <2>1. Timed(e)
    <3>1. l[n] \in Row
      <4> HIDE DEF l
      <4> QED BY <1>3
    <3>2. e[n].reverses = l[n].reverses /\ e[n].at = l[n].at
      BY <1>5, <3>1 DEF Row
    <3> QED BY <1>5, <3>2 DEF ChainInv, Timed
  <2> QED BY <1>4, <1>5, <2>1, TimedAppend
<1>12. next \in DOMAIN rows /\ rows[next] = n
  <2>1. rows[next] = n
    BY <1>2
  <2>2. next \in DOMAIN rows
    <3> HIDE DEF rows, next
    <3> QED BY <1>1, <1>3
  <2> QED BY <2>1, <2>2
<1> HIDE DEF m, l, rows, next
<1>13. UndoneSoFar(w)'
  <2>1. \A i \in DOMAIN rows : i < next + 1 => rows[i] \notin Undoable(m)
    <3>1. \A i \in DOMAIN rows : i < next + 1 => i < next \/ i = next
      BY <1>3
    <3>2. \A i \in DOMAIN rows : i < next => rows[i] \notin Undoable(l)
      BY <1>8 DEF UndoneSoFar, l, rows, next
    <3> QED BY <1>2, <1>10, <3>1, <3>2 DEF rows, next
  <2>2. \A k \in Undoable(m) : k \in Undoable(ledger) /\ m[k].account = ledger[k].account
    BY <1>8, <1>10 DEF UndoneSoFar, l
  <2> QED BY <1>1, <1>6, <1>7, <2>1, <2>2 DEF UndoneSoFar
<1>14. GroupInHand(w)'
  BY <1>1, <1>7, <1>8 DEF GroupInHand, rows
<1>15. ASSUME Chained(hold, ledger), Clean(w), Chained(draft.hold, l)
       PROVE  Chained(draft'.hold, m)
  <2>1. ASSUME NEW k \in Undoable(l), l[k].account = l[n].account PROVE k <= n
    <3>1. SUFFICES ASSUME ~(k <= n) PROVE FALSE
      OBVIOUS
    <3>2. k > n /\ k \in Nat /\ n \in Nat
      BY <1>3, <3>1 DEF Undoable
    <3>3. /\ k \in Undoable(ledger) /\ l[k].account = ledger[k].account
          /\ n \in Undoable(ledger) /\ l[n].account = ledger[n].account
      BY <1>2, <1>8 DEF UndoneSoFar, l
    <3>4. ledger[k].source = ledger[n].source
      <4>1. \A i \in DOMAIN rows : \A q \in Undoable(ledger) :
              ledger[q].account = ledger[rows[i]].account /\ q > rows[i] =>
                ledger[q].source = ledger[rows[i]].source
        BY <1>15 DEF Clean, StillNewest, rows
      <4> QED BY <1>12, <2>1, <3>2, <3>3, <4>1
    <3>5. PICK j \in DOMAIN rows : rows[j] = k
      <4>1. \A i \in DOMAIN rows : \A q \in Undoable(ledger) :
              ledger[q].source = ledger[rows[i]].source => \E j \in DOMAIN rows : rows[j] = q
        BY <1>8 DEF GroupInHand, rows
      <4>2. ledger[k].source = ledger[rows[next]].source
        BY <1>12, <3>4
      <4> QED BY <1>12, <3>3, <4>1, <4>2
    <3>6. j < next
      <4>1. ~(next < j)
        <5>1. SUFFICES ASSUME next < j PROVE FALSE
          OBVIOUS
        <5>2. rows[next] < rows[j]
          BY <1>12, <3>2, <3>5
        <5>3. ledger[rows[next]].at = ledger[rows[j]].at
          BY <1>8, <1>12, <3>5, <5>1, <5>2 DEF GroupInHand, rows
        <5>4. ledger[rows[next]].account = ledger[rows[j]].account
          BY <1>12, <2>1, <3>3, <3>5
        <5>5. OlderFirst(w)
          BY <1>12, <3>5, <5>1, <5>2, <5>3, <5>4 DEF OlderFirst, rows
        <5> QED BY <1>15, <5>5 DEF Clean
      <4>2. j # next /\ j \in Nat
        BY <1>3, <1>12, <3>2, <3>5
      <4> QED BY <1>3, <4>1, <4>2
    <3>7. k \notin Undoable(l)
      BY <1>8, <3>5, <3>6 DEF UndoneSoFar, l, rows, next
    <3> QED BY <2>1, <3>7
  <2>2. r.reverses # 0 /\ [l[n] EXCEPT !.reverted = TRUE] \in Row
    BY <1>2, <1>4 DEF l
  <2>3. Chained([draft.hold EXCEPT ![r.account] = r.after],
                Append([l EXCEPT ![n] = [@ EXCEPT !.reverted = TRUE]], r))
    BY <1>3, <1>4, <1>15, <2>1, <2>2, ChainReverse
  <2> QED BY <1>6, <2>3 DEF m, e
<1>16. Clean(w)' <=> Clean(w)
  BY <1>1, <1>7 DEF Clean, StillNewest, OlderFirst, rows
<1>17. \A u \in Worker : Undoing(u) \/ Undoing(u)' => u = w
  BY <1>7
<1>18. Undoing(w)'
  BY <1>7 DEF Undoing
<1> QED BY <1>1, <1>6, <1>11, <1>13, <1>14, <1>15, <1>16, <1>17, <1>18 DEF ChainInv, l

LEMMA ChainStep ==
  TypeOK /\ UndoReady /\ ChainInv /\ [Next]_vars => ChainInv'
<1> SUFFICES ASSUME TypeOK, UndoReady, ChainInv, [Next]_vars PROVE ChainInv'
  OBVIOUS
<1>1. TypeOK' /\ UndoReady' /\ work \in [Worker -> WorkType]
  BY TypeStep DEF TypeOK
<1>2. Teller \subseteq Worker /\ Undoer \subseteq Worker /\ None \notin Worker
  BY PortfolioAssumption DEF Worker
<1>3. CASE UNCHANGED vars
  BY <1>3 DEF vars, ChainInv, Undoing, GroupInHand, UndoneSoFar, Clean, StillNewest, OlderFirst
<1>4. ASSUME NEW w \in Worker, ~Undoing(w), UNCHANGED <<hold, ledger, draft>>,
             NEW v, work' = [work EXCEPT ![w] = v], v.step # "undoing"
      PROVE  ChainInv'
  BY <1>4, ChainAside
<1>5. ASSUME NEW w \in Teller, \E s \in Statements : Tell(w, s) PROVE ChainInv'
  <2>1. UNCHANGED <<hold, ledger, draft>> /\ ~Undoing(w)
    BY <1>5 DEF Tell, Idle, Undoing
  <2>2. PICK v : work' = [work EXCEPT ![w] = v] /\ v.step \in {"resolved", "done"}
    <3>1. PICK s \in Statements : Tell(w, s)
      BY <1>5
    <3>2. CASE \E plan \in Plans(s, hold) :
                 work' = [work EXCEPT ![w] =
                            [step |-> "resolved", said |-> s, plan |-> plan, seen |-> hold]]
      <4>1. PICK plan \in Plans(s, hold) :
              work' = [work EXCEPT ![w] =
                         [step |-> "resolved", said |-> s, plan |-> plan, seen |-> hold]]
        BY <3>2
      <4> WITNESS [step |-> "resolved", said |-> s, plan |-> plan, seen |-> hold]
      <4> QED BY <4>1
    <3>3. CASE work' = [work EXCEPT ![w] = [step |-> "done", said |-> s,
                          result |-> IF Rejected(s) THEN "rejected" ELSE "needs_input"]]
      <4> WITNESS [step |-> "done", said |-> s,
                   result |-> IF Rejected(s) THEN "rejected" ELSE "needs_input"]
      <4> QED BY <3>3
    <3> QED BY <3>1, <3>2, <3>3 DEF Tell
  <2> QED BY <1>2, <1>4, <2>1, <2>2
<1>6. ASSUME NEW w \in Worker, Begin(w) \/ SaveReceipt(w) \/ PickGroup(w) \/ NothingToUndo(w)
      PROVE  ChainInv'
  <2>1. UNCHANGED <<hold, ledger, draft>> /\ ~Undoing(w)
    BY <1>6 DEF Begin, SaveReceipt, PickGroup, NothingToUndo, Idle, Undoing
  <2>2. PICK v : work' = [work EXCEPT ![w] = v] /\ v.step # "undoing"
    <3>1. CASE Begin(w)
      <4> WITNESS [step |-> "writing", said |-> work[w].said, plan |-> work[w].plan,
                   seen |-> work[w].seen, next |-> 1]
      <4> QED BY <3>1 DEF Begin
    <3>2. CASE SaveReceipt(w) \/ NothingToUndo(w)
      BY <3>2 DEF SaveReceipt, NothingToUndo, Idle
    <3>3. CASE PickGroup(w)
      <4>1. PICK n : work' = [work EXCEPT ![w] = [step |-> "undo", group |-> ledger[n].source]]
        BY <3>3 DEF PickGroup
      <4> WITNESS [step |-> "undo", group |-> ledger[n].source]
      <4> QED BY <4>1
    <3> QED BY <1>6, <3>1, <3>2, <3>3
  <2> QED BY <1>4, <2>1, <2>2
<1>7. ASSUME owner' = None, Timed(ledger') PROVE ChainInv'
  <2>1. draft' = [hold |-> hold', ledger |-> ledger']
    BY <1>1, <1>7 DEF TypeOK
  <2>2. \A w \in Worker : ~Undoing(w)'
    BY <1>1, <1>2, <1>7 DEF TypeOK, Undoing
  <2> QED BY <1>7, <2>1, <2>2, ChainSettled
<1>8. ASSUME \E w \in Worker : RowRaises(w) \/ Commit(w) \/ UndoRaises(w) \/ CommitUndo(w)
      PROVE  ChainInv'
  <2>1. owner' = None /\ (ledger' = ledger \/ ledger' = draft.ledger)
    BY <1>8 DEF RowRaises, Commit, UndoRaises, CommitUndo, RollBack, Publish
  <2> QED BY <1>7, <2>1 DEF ChainInv
<1>9. ASSUME Stop PROVE ChainInv'
  BY <1>7, <1>9 DEF Stop, RollBack, ChainInv
<1> QED BY <1>1, <1>2, <1>3, <1>5, <1>6, <1>8, <1>9, BeginUndoChain, WriteRowChain, RevertRowChain
        DEF Next, TellerStep, UndoerStep

(* Whatever rows share their time, an undo that no other commit overtook    *)
(* and that did not meet two changes of an account within a millisecond     *)
(* older first leaves holdings that follow from the messages still in       *)
(* force, for every number of messages, rows, threads and stops.            *)
THEOREM UndoneCleanly == Spec => UndoKeepsOthers
<1>1. Init => ChainInv
  <2> SUFFICES ASSUME Init PROVE ChainInv
    OBVIOUS
  <2>1. Timed(ledger)
    BY DEF Init, Timed
  <2>2. \A w \in Worker : ~Undoing(w)
    BY DEF Init, Undoing, Idle
  <2>3. draft.hold = hold /\ draft.ledger = ledger
    BY DEF Init
  <2> QED BY <2>1, <2>2, <2>3 DEF ChainInv
<1>2. ASSUME TypeOK, ChainInv, [Next]_vars
      PROVE  [<<hold, ledger>>' # <<hold, ledger>> /\ Chained(hold, ledger)
                /\ (\A w \in Undoer : CommitUndo(w) => StillNewest(w) /\ ~OlderFirst(w)) =>
                Chained(hold', ledger')]_vars
  <2> SUFFICES ASSUME Chained(hold, ledger), Next,
                      \A w \in Undoer : CommitUndo(w) => Clean(w)
               PROVE  Chained(hold', ledger')
    BY <1>2 DEF Clean
  <2>1. ASSUME UNCHANGED <<hold, ledger>> PROVE Chained(hold', ledger')
    BY <2>1
  <2>2. ASSUME NEW w \in Teller, Commit(w) PROVE Chained(hold', ledger')
    <3>1. \A u \in Worker : ~Undoing(u)
      BY <1>2, <2>2 DEF Commit, TypeOK, Undoing, Worker
    <3> QED BY <1>2, <2>2, <3>1 DEF ChainInv, Commit, Publish
  <2>3. ASSUME NEW w \in Undoer, CommitUndo(w) PROVE Chained(hold', ledger')
    <3>1. \A u \in Worker : Undoing(u) => u = w
      BY <1>2, <2>3 DEF CommitUndo, TypeOK, Undoing, Worker
    <3> QED BY <1>2, <2>3, <3>1 DEF ChainInv, CommitUndo, Publish
  <2>4. CASE \E w \in Teller : (\E s \in Statements : Tell(w, s)) \/ Begin(w) \/ WriteRow(w)
                                  \/ RowRaises(w) \/ SaveReceipt(w)
    BY <2>1, <2>4 DEF Tell, Begin, WriteRow, RowRaises, SaveReceipt
  <2>5. CASE \E w \in Undoer : PickGroup(w) \/ BeginUndo(w) \/ NothingToUndo(w) \/ RevertRow(w)
                                  \/ UndoRaises(w)
    BY <2>1, <2>5 DEF PickGroup, BeginUndo, NothingToUndo, RevertRow, UndoRaises
  <2>6. CASE Stop
    BY <2>1, <2>6 DEF Stop
  <2> QED BY <2>2, <2>3, <2>4, <2>5, <2>6 DEF Next, TellerStep, UndoerStep
<1>3. TypeOK /\ UndoReady /\ ChainInv /\ [Next]_vars => ChainInv'
  BY ChainStep
<1> QED BY <1>1, <1>2, <1>3, TypeInit, TypeStep, PTL DEF Spec, UndoKeepsOthers

(***************************************************************************)
(* Receipts: what a receipt calls applied has its rows.                    *)
(***************************************************************************)

\* A plan begins with the changes of the message.
LEMMA PlanOfMessage ==
  ASSUME NEW s \in Statement, NEW h \in [Account -> Value], NEW plan \in Plans(s, h),
         NEW i \in DOMAIN s.changes
  PROVE  /\ i \in DOMAIN plan
         /\ plan[i].account = s.changes[i].account
         /\ s.changes[i].action # "sell_all" => plan[i] = s.changes[i]
         /\ s.changes[i].action = "sell_all" => plan[i].action = "sell" /\ plan[i].shares > 0
<1>1. s.changes \in Seq(Change) /\ s.changes[i] \in Change
  BY DEF Statement
<1>2. CASE s.complete
  <2>1. /\ \A j \in DOMAIN s.changes : s.changes[j].action = "correct"
        /\ \E xs \in SetToSeqs(Omitted(s, h)) : plan = s.changes \o Zeroed(xs)
    BY <1>2 DEF Plans, Snapshots
  <2>2. PICK xs \in SetToSeqs(Omitted(s, h)) : plan = s.changes \o Zeroed(xs)
    BY <2>1
  <2>3. IsFiniteSet(Omitted(s, h))
    BY FS_Subset DEF Omitted
  <2>4. xs \in Seq(Omitted(s, h))
    BY <2>2, <2>3, Orders
  <2>5. Zeroed(xs) \in Seq([action: {"correct"}, account: Code, shares: Nat])
    <3>1. DOMAIN xs = 1..Len(xs) /\ Len(xs) \in Nat /\ \A j \in DOMAIN xs : xs[j] \in Code
      BY <2>4 DEF Omitted
    <3> QED BY <3>1 DEF Zeroed
  <2>6. i \in DOMAIN plan /\ plan[i] = s.changes[i]
    BY <1>1, <2>2, <2>5
  <2> QED BY <2>1, <2>6
<1>3. CASE ~s.complete
  <2>1. /\ plan = [j \in DOMAIN s.changes |-> Resolved(s.changes[j], h)]
        /\ \A j \in DOMAIN plan : Acceptable(plan[j], h)
    BY <1>3 DEF Plans, Trades
  <2>2. plan[i] = Resolved(s.changes[i], h) /\ Acceptable(plan[i], h) /\ i \in DOMAIN plan
    BY <2>1
  <2>3. plan[i].account = s.changes[i].account
    BY <1>1, <2>2 DEF Resolved, Change
  <2>4. CASE s.changes[i].action = "sell_all"
    <3>1. plan[i].action = "sell"
      BY <1>1, <2>2, <2>4 DEF Resolved, Change
    <3> QED BY <2>2, <2>3, <2>4, <3>1 DEF Acceptable
  <2>5. CASE s.changes[i].action # "sell_all"
    BY <2>2, <2>3, <2>5 DEF Resolved
  <2> QED BY <2>4, <2>5
<1> QED BY <1>2, <1>3

\* Rows of a message do what their change says.
Faithful(l) ==
  \A s \in Statements, n \in DOMAIN l :
    l[n].source = s.source /\ l[n].reverses = 0 /\ l[n].index \in DOMAIN s.changes
      => Does(l[n], s, l[n].index)

AllRecorded(l, s) == \A i \in DOMAIN s.changes : Recorded(l, s.source, i)

FaithfulInv == Faithful(ledger) /\ Faithful(draft.ledger)

\* What was written is recorded, what a receipt calls applied as well.
AppliedInv ==
  /\ \A w \in Worker :
       /\ work[w].step = "writing" => \A i \in DOMAIN work[w].plan :
            i < work[w].next => Recorded(draft.ledger, work[w].said.source, i)
       /\ work[w].step = "done" /\ work[w].result = "applied" => AllRecorded(ledger, work[w].said)
  /\ \A s \in Statements : receipts[s] = "applied" => AllRecorded(ledger, s)

LEMMA RecordedStays ==
  ASSUME NEW l \in Seq(Row), NEW m \in Seq(Row), Grows(l, m), NEW src, NEW i, Recorded(l, src, i)
  PROVE  Recorded(m, src, i)
<1>1. PICK n \in DOMAIN l : l[n].source = src /\ l[n].index = i /\ l[n].reverses = 0
  BY DEF Recorded
<1>2. m[n].source = src /\ m[n].index = i /\ m[n].reverses = 0
  <2>1. l[n] \in Row /\ m[n] \in {l[n], [l[n] EXCEPT !.reverted = TRUE]}
    BY DEF Grows
  <2> QED BY <1>1, <2>1 DEF Row
<1>3. n \in DOMAIN m
  BY DEF Grows
<1> QED BY <1>2, <1>3 DEF Recorded

\* A row that follows from the plan of its message does what it says.
LEMMA RowDoes ==
  ASSUME NEW s \in Statement, NEW h \in [Account -> Value], NEW plan \in Plans(s, h),
         NEW i \in DOMAIN s.changes, NEW r \in Row,
         r.source = s.source, r.reverses = 0, r.account = plan[i].account,
         r.after = After(plan[i], r.before)
  PROVE  Does(r, s, i)
<1> DEFINE c == s.changes[i]
           p == plan[i]
<1>1. c \in Change
  BY DEF Statement
<1>2. /\ p.account = c.account
      /\ c.action # "sell_all" => p = c
      /\ c.action = "sell_all" => p.action = "sell" /\ p.shares > 0
  BY PlanOfMessage
<1>3. p \in Change
  <2>1. plan \in Seq(Change) /\ i \in DOMAIN plan
    BY PlansChanges, PlanOfMessage
  <2> QED BY <2>1
<1>4. Amount(r.before) \in Int /\ r.before \in Value /\ r.after \in Value
  BY AmountInt DEF Row
<1>5. r.account = c.account /\ r.after = After(p, r.before)
  BY <1>2
<1> HIDE DEF c, p
<1>6. r.after \in Int /\ Amount(r.after) = r.after
  <2>1. After(p, r.before) \in Int
    BY <1>3, <1>4 DEF After, Change
  <2> QED BY <1>5, <2>1 DEF Amount
<1>7. CASE c.action = "correct"
  BY <1>2, <1>5, <1>7 DEF After, Does, c
<1>8. CASE c.action = "buy"
  BY <1>2, <1>5, <1>6, <1>8 DEF After, Does, c
<1>9. CASE c.action = "sell"
  BY <1>2, <1>5, <1>6, <1>9 DEF After, Does, c
<1>10. CASE c.action = "sell_all"
  <2>1. r.after = Amount(r.before) - p.shares /\ p.shares > 0 /\ p.shares \in Nat
    BY <1>2, <1>3, <1>5, <1>10 DEF After, Change
  <2>2. r.after # r.before
    BY <1>4, <1>6, <2>1 DEF Amount, Value
  <2> QED BY <1>5, <1>10, <2>2 DEF Does, c
<1> QED BY <1>1, <1>7, <1>8, <1>9, <1>10 DEF Change

\* No message gives rise to two actions.
OneStatementEach == \A s, t \in Statements : s.source = t.source => s = t

LEMMA FaithfulAppend ==
  ASSUME NEW l \in Seq(Row), Faithful(l), NEW r \in Row,
         \A s \in Statements :
           r.source = s.source /\ r.reverses = 0 /\ r.index \in DOMAIN s.changes => Does(r, s, r.index)
  PROVE  Faithful(Append(l, r))
<1>1. /\ DOMAIN Append(l, r) = DOMAIN l \cup {Len(l) + 1} /\ Append(l, r)[Len(l) + 1] = r
      /\ \A k \in DOMAIN l : Append(l, r)[k] = l[k]
  BY AppendAt
<1> QED BY <1>1 DEF Faithful

\* A mark changes nothing a row does.
LEMMA FaithfulMark ==
  ASSUME NEW l \in Seq(Row), Faithful(l), NEW n \in DOMAIN l, [l[n] EXCEPT !.reverted = TRUE] \in Row
  PROVE  Faithful([l EXCEPT ![n] = [@ EXCEPT !.reverted = TRUE]])
<1> DEFINE e == [l EXCEPT ![n] = [@ EXCEPT !.reverted = TRUE]]
<1>1. /\ DOMAIN e = DOMAIN l /\ \A k \in DOMAIN l : k # n => e[k] = l[k]
      /\ e[n] = [l[n] EXCEPT !.reverted = TRUE]
  BY MarkRow
<1>2. l[n] \in Row
  OBVIOUS
<1> HIDE DEF e
<1>3. \A k \in DOMAIN l : /\ e[k].source = l[k].source /\ e[k].reverses = l[k].reverses
                          /\ e[k].index = l[k].index /\ e[k].account = l[k].account
                          /\ e[k].before = l[k].before /\ e[k].after = l[k].after
  BY <1>1, <1>2 DEF Row
<1>4. \A s, i : \A k \in DOMAIN l : Does(l[k], s, i) => Does(e[k], s, i)
  BY <1>3 DEF Does
<1>5. Faithful(e)
  BY <1>1, <1>3, <1>4 DEF Faithful
<1> QED BY <1>5 DEF e

\* Where a step leaves the rows of the draft and of the ledger.
LEMMA FaithfulStep ==
  ASSUME OneStatementEach, TypeOK, UndoReady, CommitInv, FaithfulInv, [Next]_vars
  PROVE  FaithfulInv'
<1> SUFFICES Faithful(ledger') /\ Faithful(draft'.ledger)
  BY DEF FaithfulInv
<1>1. draft.ledger \in Seq(Row) /\ Faithful(ledger) /\ Faithful(draft.ledger)
  BY DEF TypeOK, FaithfulInv
<1>2. CASE TablesKept /\ draft' = draft
  BY <1>1, <1>2 DEF TablesKept
<1>3. CASE TablesKept /\ draft' = [hold |-> hold, ledger |-> ledger]
  BY <1>1, <1>3 DEF TablesKept
<1>4. CASE hold' = draft.hold /\ ledger' = draft.ledger /\ draft' = draft
  BY <1>1, <1>4
<1>5. ASSUME NEW w \in Teller, WriteRow(w) PROVE Faithful(ledger') /\ Faithful(draft'.ledger)
  <2>1. /\ w \in Worker /\ ledger' = ledger /\ work[w].step = "writing"
        /\ work[w].next <= Len(work[w].plan)
    BY <1>5 DEF WriteRow, Worker
  <2>2. CASE UNCHANGED draft
    BY <1>1, <2>1, <2>2
  <2>3. ASSUME NEW r \in Row, r.index = work[w].next, r.reverses = 0,
               r.source = work[w].said.source,
               r.account = work[w].plan[work[w].next].account,
               r.after = After(work[w].plan[work[w].next], r.before),
               draft'.ledger = Append(draft.ledger, r)
        PROVE  Faithful(draft'.ledger)
    <3>1. /\ work[w].said \in Statements /\ work[w].seen \in [Account -> Value]
          /\ work[w].plan \in Plans(work[w].said, work[w].seen)
      BY <2>1, Kept DEF CommitInv, PlansKnown
    <3>2. ASSUME NEW s \in Statements, r.source = s.source, r.index \in DOMAIN s.changes
          PROVE  Does(r, s, r.index)
      <4>1. s = work[w].said
        BY <2>3, <3>1, <3>2 DEF OneStatementEach
      <4> QED BY <2>3, <3>1, <3>2, <4>1, RowDoes
    <3> QED BY <1>1, <2>3, <3>2, FaithfulAppend
  <2> QED BY <1>1, <1>5, <2>1, <2>2, <2>3, RowWritten
<1>6. ASSUME TablesKept, NEW n, NEW r, Reverses(n, r)
      PROVE  Faithful(ledger') /\ Faithful(draft'.ledger)
  <2> DEFINE e == [draft.ledger EXCEPT ![n] = [@ EXCEPT !.reverted = TRUE]]
  <2>1. /\ n \in DOMAIN draft.ledger /\ [draft.ledger[n] EXCEPT !.reverted = TRUE] \in Row
        /\ r \in Row /\ r.reverses = n /\ draft'.ledger = Append(e, r)
    BY <1>6 DEF Reverses, Undoable
  <2>2. e \in Seq(Row) /\ Faithful(e)
    BY <1>1, <2>1, EditRow, FaithfulMark
  <2>3. r.reverses # 0
    BY <1>1, <2>1
  <2> HIDE DEF e
  <2>4. Faithful(draft'.ledger)
    BY <2>1, <2>2, <2>3, FaithfulAppend
  <2> QED BY <1>1, <1>6, <2>4 DEF TablesKept
<1> QED BY <1>2, <1>3, <1>4, <1>5, <1>6, TableMoves

\* A worker that neither writes nor has just committed, or that goes on to neither.
LEMMA AppliedElsewhere ==
  ASSUME TypeOK, UndoReady, AppliedInv, History, [Next]_vars, UNCHANGED receipts, NEW w \in Worker, NEW v,
         work' = [work EXCEPT ![w] = v], owner # w => UNCHANGED draft \/ owner' = None,
         v.step = "writing" => \A i \in DOMAIN v.plan :
            i < v.next => Recorded(draft'.ledger, v.said.source, i),
         v.step = "done" /\ v.result = "applied" => AllRecorded(ledger', v.said)
  PROVE  AppliedInv'
<1>1. TypeOK' /\ Grows(ledger, ledger') /\ ledger \in Seq(Row) /\ ledger' \in Seq(Row)
  BY TypeStep, HistoryStep DEF TypeOK
<1>2. work'[w] = v /\ \A u \in Worker \ {w} : work'[u] = work[u]
  BY DEF TypeOK
<1>3. \A s : AllRecorded(ledger, s) => AllRecorded(ledger', s)
  BY <1>1, RecordedStays DEF AllRecorded
<1>4. ASSUME NEW u \in Worker \ {w}
      PROVE  /\ work'[u].step = "writing" => \A i \in DOMAIN work'[u].plan :
                  i < work'[u].next => Recorded(draft'.ledger, work'[u].said.source, i)
             /\ work'[u].step = "done" /\ work'[u].result = "applied"
                  => AllRecorded(ledger', work'[u].said)
  <2>1. work'[u].step = "writing" => UNCHANGED draft
    <3> HAVE work'[u].step = "writing"
    <3>1. owner = u /\ owner' = u
      BY <1>1, <1>2 DEF TypeOK
    <3> QED BY <3>1, PortfolioAssumption DEF Worker
  <2> QED BY <1>2, <1>3, <2>1 DEF AppliedInv
<1> QED BY <1>2, <1>3, <1>4 DEF AppliedInv

LEMMA WriteRowApplied ==
  ASSUME TypeOK, UndoReady, CommitInv, AppliedInv, History, [Next]_vars, NEW w \in Teller, WriteRow(w)
  PROVE  AppliedInv'
<1>1. /\ w \in Worker /\ owner = w /\ work[w].step = "writing" /\ Advance(w)
      /\ UNCHANGED <<ledger, receipts>> /\ work[w].next <= Len(work[w].plan)
  BY DEF WriteRow, Worker
<1>2. /\ work'[w].step = "writing" /\ work'[w].said = work[w].said
      /\ work'[w].plan = work[w].plan /\ work'[w].next = work[w].next + 1
  BY <1>1, Advanced
<1>3. work' = [work EXCEPT ![w] = work'[w]]
  BY <1>1 DEF Advance, TypeOK
<1>4. work[w].plan \in Seq(Change) /\ work[w].next \in Nat \ {0}
  BY <1>1, Kept
<1>5. draft.ledger \in Seq(Row)
  BY DEF TypeOK
<1>6. /\ Recorded(draft'.ledger, work[w].said.source, work[w].next)
      /\ \A i : Recorded(draft.ledger, work[w].said.source, i)
                  => Recorded(draft'.ledger, work[w].said.source, i)
  <2>1. CASE UNCHANGED draft /\ Recorded(draft.ledger, work[w].said.source, work[w].next)
    BY <2>1
  <2>2. ASSUME NEW r \in Row, r.index = work[w].next, r.reverses = 0,
               r.source = work[w].said.source, draft'.ledger = Append(draft.ledger, r)
        PROVE  /\ Recorded(draft'.ledger, work[w].said.source, work[w].next)
               /\ \A i : Recorded(draft.ledger, work[w].said.source, i)
                           => Recorded(draft'.ledger, work[w].said.source, i)
    <3>1. /\ DOMAIN draft'.ledger = DOMAIN draft.ledger \cup {Len(draft.ledger) + 1}
          /\ draft'.ledger[Len(draft.ledger) + 1] = r
          /\ \A k \in DOMAIN draft.ledger : draft'.ledger[k] = draft.ledger[k]
      BY <1>5, <2>2, AppendAt
    <3> QED BY <2>2, <3>1 DEF Recorded
  <2> QED BY <1>1, <2>1, <2>2, RowWritten
<1>7. \A i \in DOMAIN work'[w].plan : i < work'[w].next => i < work[w].next \/ i = work[w].next
  BY <1>2, <1>4
<1>8. \A i \in DOMAIN work'[w].plan :
        i < work'[w].next => Recorded(draft'.ledger, work'[w].said.source, i)
  BY <1>1, <1>2, <1>6, <1>7 DEF AppliedInv
<1> QED BY <1>1, <1>2, <1>3, <1>8, AppliedElsewhere

LEMMA CommitApplied ==
  ASSUME TypeOK, UndoReady, CommitInv, AppliedInv, History, [Next]_vars, NEW w \in Teller, Commit(w)
  PROVE  AppliedInv'
<1> DEFINE v == [step |-> "done", said |-> work[w].said, result |-> "applied"]
<1>1. /\ w \in Worker /\ owner = w /\ work[w].step = "writing" /\ ledger' = draft.ledger
      /\ work[w].next > Len(work[w].plan) /\ UNCHANGED <<draft, receipts>>
      /\ work' = [work EXCEPT ![w] = v]
  BY DEF Commit, Publish, Worker
<1>2. /\ work[w].plan \in Seq(Change) /\ work[w].next \in Nat \ {0}
      /\ work[w].said \in Statements /\ work[w].seen \in [Account -> Value]
      /\ work[w].plan \in Plans(work[w].said, work[w].seen)
  BY <1>1, Kept DEF CommitInv, PlansKnown
<1>3. \A i \in DOMAIN work[w].plan : i < work[w].next
  BY <1>1, <1>2
<1>4. \A i \in DOMAIN work[w].said.changes : i \in DOMAIN work[w].plan
  BY <1>2, PlanOfMessage
<1>5. AllRecorded(ledger', work[w].said)
  BY <1>1, <1>3, <1>4 DEF AllRecorded, AppliedInv
<1> QED BY <1>1, <1>5, AppliedElsewhere

LEMMA AppliedStep ==
  TypeOK /\ UndoReady /\ CommitInv /\ History /\ AppliedInv /\ [Next]_vars => AppliedInv'
<1> SUFFICES ASSUME TypeOK, UndoReady, CommitInv, History, AppliedInv, [Next]_vars
             PROVE  AppliedInv'
  OBVIOUS
<1>2. /\ Teller \subseteq Worker /\ Undoer \subseteq Worker /\ work \in [Worker -> WorkType]
      /\ TypeOK' /\ Grows(ledger, ledger') /\ ledger \in Seq(Row) /\ ledger' \in Seq(Row)
  BY TypeStep, HistoryStep DEF Worker, TypeOK
<1>3. CASE UNCHANGED vars
  BY <1>3 DEF vars, AppliedInv
<1>4. ASSUME NEW w \in Worker, UNCHANGED receipts, NEW v, work' = [work EXCEPT ![w] = v],
             UNCHANGED draft \/ owner' = None \/ owner = w,
             v.step # "writing", v.step = "done" => v.result # "applied"
      PROVE  AppliedInv'
  BY <1>4, AppliedElsewhere
<1>5. ASSUME NEW w \in Teller, \E s \in Statements : Tell(w, s) PROVE AppliedInv'
  <2>1. UNCHANGED <<receipts, draft>>
    BY <1>5 DEF Tell
  <2>2. PICK v : /\ work' = [work EXCEPT ![w] = v] /\ v.step # "writing"
                 /\ v.step = "done" => v.result # "applied"
    <3>1. PICK s \in Statements : Tell(w, s)
      BY <1>5
    <3>2. CASE \E plan \in Plans(s, hold) :
                 work' = [work EXCEPT ![w] =
                            [step |-> "resolved", said |-> s, plan |-> plan, seen |-> hold]]
      <4>1. PICK plan \in Plans(s, hold) :
              work' = [work EXCEPT ![w] =
                         [step |-> "resolved", said |-> s, plan |-> plan, seen |-> hold]]
        BY <3>2
      <4> WITNESS [step |-> "resolved", said |-> s, plan |-> plan, seen |-> hold]
      <4> QED BY <4>1
    <3>3. CASE work' = [work EXCEPT ![w] = [step |-> "done", said |-> s,
                          result |-> IF Rejected(s) THEN "rejected" ELSE "needs_input"]]
      <4> WITNESS [step |-> "done", said |-> s,
                   result |-> IF Rejected(s) THEN "rejected" ELSE "needs_input"]
      <4> QED BY <3>3
    <3> QED BY <3>1, <3>2, <3>3 DEF Tell
  <2> QED BY <1>2, <1>4, <2>1, <2>2
<1>6. ASSUME NEW w \in Teller, Begin(w) PROVE AppliedInv'
  <2> DEFINE v == [step |-> "writing", said |-> work[w].said, plan |-> work[w].plan,
                   seen |-> work[w].seen, next |-> 1]
  <2>1. /\ w \in Worker /\ work' = [work EXCEPT ![w] = v] /\ UNCHANGED <<receipts, draft>>
        /\ work[w].plan \in Seq(Change)
    BY <1>2, <1>6, Kept DEF Begin
  <2>2. \A i \in DOMAIN v.plan : ~(i < v.next)
    BY <2>1
  <2>3. v.step # "done"
    OBVIOUS
  <2> HIDE DEF v
  <2> QED BY <2>1, <2>2, <2>3, AppliedElsewhere
<1>7. ASSUME NEW w \in Teller, RowRaises(w) PROVE AppliedInv'
  <2> DEFINE v == [step |-> "done", said |-> work[w].said, result |-> "failed"]
  <2>1. work' = [work EXCEPT ![w] = v] /\ owner' = None /\ UNCHANGED receipts
    BY <1>7 DEF RowRaises, RollBack
  <2>2. v.step # "writing" /\ v.result # "applied"
    OBVIOUS
  <2> HIDE DEF v
  <2> QED BY <1>2, <1>4, <2>1, <2>2
<1>8. ASSUME NEW w \in Teller, SaveReceipt(w) PROVE AppliedInv'
  <2>1. /\ work[w].step = "done" /\ UNCHANGED <<ledger, draft, owner>> /\ work' = [work EXCEPT ![w] = Idle]
        /\ receipts' = [receipts EXCEPT ![work[w].said] = IF @ = "none" THEN work[w].result ELSE @]
    BY <1>8 DEF SaveReceipt
  <2>2. \A u \in Worker : work'[u] = work[u] \/ work'[u].step = "idle"
    BY <1>2, <2>1 DEF Idle
  <2>3. \A s \in Statements : receipts'[s] = "applied" => AllRecorded(ledger, s)
    BY <1>2, <2>1 DEF AppliedInv, TypeOK
  <2> QED BY <2>1, <2>2, <2>3 DEF AppliedInv
<1>9. ASSUME NEW w \in Undoer, PickGroup(w) PROVE AppliedInv'
  <2>1. PICK n : work' = [work EXCEPT ![w] = [step |-> "undo", group |-> ledger[n].source]]
    BY <1>9 DEF PickGroup
  <2> DEFINE v == [step |-> "undo", group |-> ledger[n].source]
  <2>2. v.step # "writing" /\ v.step # "done"
    OBVIOUS
  <2>3. UNCHANGED <<receipts, draft>>
    BY <1>9 DEF PickGroup
  <2> QED BY <1>2, <1>4, <2>1, <2>2, <2>3
<1>10. ASSUME NEW w \in Undoer, BeginUndo(w) PROVE AppliedInv'
  <2>1. PICK o : work' = [work EXCEPT ![w] = [step |-> "undoing", rows |-> o, next |-> 1]]
    BY <1>10 DEF BeginUndo
  <2> DEFINE v == [step |-> "undoing", rows |-> o, next |-> 1]
  <2>2. v.step # "writing" /\ v.step # "done"
    OBVIOUS
  <2>3. UNCHANGED <<receipts, draft>>
    BY <1>10 DEF BeginUndo
  <2> QED BY <1>2, <1>4, <2>1, <2>2, <2>3
<1>11. ASSUME NEW w \in Undoer, NothingToUndo(w) \/ UndoRaises(w) \/ CommitUndo(w) PROVE AppliedInv'
  <2>1. work' = [work EXCEPT ![w] = Idle] /\ UNCHANGED receipts /\ (UNCHANGED draft \/ owner' = None)
    BY <1>11 DEF NothingToUndo, UndoRaises, CommitUndo, RollBack
  <2>2. Idle.step # "writing" /\ Idle.step # "done"
    BY DEF Idle
  <2> QED BY <1>2, <1>4, <2>1, <2>2
<1>12. ASSUME NEW w \in Undoer, RevertRow(w) PROVE AppliedInv'
  <2> DEFINE v == [work[w] EXCEPT !.next = work[w].next + 1]
  <2>1. /\ w \in Worker /\ owner = w /\ work[w].step = "undoing" /\ UNCHANGED receipts
        /\ work' = [work EXCEPT ![w] = v]
    BY <1>2, <1>12 DEF RevertRow, Advance
  <2>2. v.step # "writing" /\ v.step # "done"
    BY <1>2, <2>1 DEF WorkType
  <2> HIDE DEF v
  <2> QED BY <1>4, <2>1, <2>2
<1>13. ASSUME Stop PROVE AppliedInv'
  <2>1. \A w \in Worker : work'[w].step = "idle"
    BY <1>13 DEF Stop, Idle
  <2>2. UNCHANGED <<ledger, receipts>>
    BY <1>13 DEF Stop
  <2> QED BY <2>1, <2>2 DEF AppliedInv
<1> QED BY <1>3, <1>5, <1>6, <1>7, <1>8, <1>9, <1>10, <1>11, <1>12, <1>13,
           WriteRowApplied, CommitApplied
        DEF Next, TellerStep, UndoerStep

(* When no two actions come from one message, a receipt "applied" is true:  *)
(* every change of the action has its row and the row does what was said,   *)
(* however many workers retried it and whatever they had read.              *)
THEOREM ReceiptsApply == ASSUME OneStatementEach PROVE Spec => []AppliedIsTrue
<1>1. Init => AppliedInv /\ FaithfulInv /\ CommitInv /\ History
  <2> SUFFICES ASSUME Init PROVE AppliedInv /\ FaithfulInv /\ CommitInv /\ History
    OBVIOUS
  <2>1. ledger = <<>> /\ draft.ledger = <<>> /\ \A w \in Worker : work[w].step = "idle"
    BY DEF Init, Idle
  <2>2. AppliedInv /\ FaithfulInv
    BY <2>1 DEF Init, AppliedInv, FaithfulInv, Faithful
  <2>3. CommitInv
    BY <2>1 DEF CommitInv, PlansKnown, Undisturbed, Worker
  <2>4. History
    BY <2>1 DEF History, Sound, OneKey, Marked, Grows
  <2> QED BY <2>2, <2>3, <2>4
<1>2. AppliedInv /\ FaithfulInv => AppliedIsTrue
  <2> SUFFICES ASSUME AppliedInv, FaithfulInv, NEW s \in Statements, receipts[s] = "applied",
                      NEW i \in DOMAIN s.changes
               PROVE  \E n \in DOMAIN ledger : Does(ledger[n], s, i)
    BY DEF AppliedIsTrue
  <2>1. Recorded(ledger, s.source, i)
    BY DEF AppliedInv, AllRecorded
  <2> QED BY <2>1 DEF Recorded, FaithfulInv, Faithful
<1>3. TypeOK /\ UndoReady /\ CommitInv /\ [Next]_vars => CommitInv'
  BY CommitStep
<1>4. TypeOK /\ UndoReady /\ History /\ [Next]_vars => History'
  BY HistoryStep
<1>5. TypeOK /\ UndoReady /\ CommitInv /\ History /\ AppliedInv /\ [Next]_vars => AppliedInv'
  BY AppliedStep
<1>6. TypeOK /\ UndoReady /\ CommitInv /\ FaithfulInv /\ [Next]_vars => FaithfulInv'
  BY FaithfulStep
<1> QED BY <1>1, <1>2, <1>3, <1>4, <1>5, <1>6, TypeInit, TypeStep, PTL DEF Spec

(***************************************************************************)
(* The abstract ledger: messages and undos take effect as a whole.         *)
(***************************************************************************)

HIDE PortfolioAssumption

\* What an account stands at depends on the new rows only.
LEMMA StandsOn ==
  ASSUME NEW h, NEW l \in Seq(Row), NEW m \in Seq(Row), NEW q \in Seq(Row),
         Len(m) >= Len(l), Len(q) = Len(m) + 1, \A n \in Facts!New(l, m) : q[n] = m[n],
         NEW x, NEW v, NEW k \in Nat, k <= Len(m) + 1
  PROVE  Facts!StandsAt(h, l, q, x, k, v) <=> Facts!StandsAt(h, l, m, x, k, v)
<1>1. Len(l) \in Nat /\ Len(m) \in Nat
  OBVIOUS
<1>2. \A n : n \in Facts!New(l, m) /\ n < k <=> n \in Facts!New(l, q) /\ n < k
  BY <1>1 DEF Facts!New
<1>3. \A n \in Facts!New(l, q) : n < k => q[n] = m[n]
  BY <1>2
<1> HIDE DEF Facts!New
<1>4. (\A n \in Facts!New(l, q) : n < k => q[n].account # x)
        <=> (\A n \in Facts!New(l, m) : n < k => m[n].account # x)
  BY <1>2, <1>3
<1>5. \A n : (\A j \in Facts!New(l, q) : n < j /\ j < k => q[j].account # x)
                <=> (\A j \in Facts!New(l, m) : n < j /\ j < k => m[j].account # x)
  BY <1>2, <1>3
<1> DEFINE Unfollowed(i, n) == \A j \in Facts!New(l, i) : n < j /\ j < k => i[j].account # x
<1>6. \A n : Unfollowed(q, n) <=> Unfollowed(m, n)
  BY <1>5
<1> HIDE DEF Unfollowed
<1>7. (\E n \in Facts!New(l, q) : n < k /\ q[n].account = x /\ v = q[n].after /\ Unfollowed(q, n))
        <=> (\E n \in Facts!New(l, m) : n < k /\ m[n].account = x /\ v = m[n].after /\ Unfollowed(m, n))
  BY <1>2, <1>3, <1>6
<1> QED BY <1>4, <1>7 DEF Facts!StandsAt, Unfollowed

\* A row more settles its account and leaves the others.
LEMMA SettlesOn ==
  ASSUME NEW h, NEW l \in Seq(Row), NEW g \in [Account -> Value], NEW m \in Seq(Row),
         NEW q \in Seq(Row), NEW r \in Row,
         Facts!Settles(h, l, g, m), Len(m) >= Len(l), Len(q) = Len(m) + 1, q[Len(m) + 1] = r,
         \A n \in Facts!New(l, m) : q[n] = m[n]
  PROVE  Facts!Settles(h, l, [g EXCEPT ![r.account] = r.after], q)
<1> DEFINE f == [g EXCEPT ![r.account] = r.after]
<1>1. Len(l) \in Nat /\ Len(m) \in Nat /\ Len(q) \in Nat /\ r.account \in Account
  BY DEF Row
<1>2. SUFFICES ASSUME NEW x \in Account PROVE Facts!StandsAt(h, l, q, x, Len(q) + 1, f[x])
  BY DEF Facts!Settles
<1>3. Len(q) \in Facts!New(l, q) /\ Len(q) < Len(q) + 1 /\ q[Len(q)] = r
  BY <1>1 DEF Facts!New
<1>4. CASE x = r.account
  <2>1. f[x] = r.after
    BY <1>1, <1>4
  <2>2. \A j \in Facts!New(l, q) : ~(Len(q) < j)
    BY <1>1 DEF Facts!New
  <2> HIDE DEF f
  <2> QED BY <1>3, <1>4, <2>1, <2>2 DEF Facts!StandsAt
<1>5. CASE x # r.account
  <2>1. f[x] = g[x]
    BY <1>5
  <2>2. Facts!StandsAt(h, l, m, x, Len(m) + 1, g[x])
    BY DEF Facts!Settles
  <2>3. Facts!StandsAt(h, l, q, x, Len(m) + 1, g[x])
    BY <1>1, <2>2, StandsOn
  <2>4. \A j \in Facts!New(l, q) : j < Len(q) + 1 /\ (j < Len(q) \/ j = Len(q))
    BY <1>1 DEF Facts!New
  <2> HIDE DEF f, Facts!New
  <2>5. CASE g[x] = h[x] /\ \A n \in Facts!New(l, q) : n < Len(q) => q[n].account # x
    BY <1>3, <1>5, <2>1, <2>4, <2>5 DEF Facts!StandsAt
  <2>6. ASSUME NEW n \in Facts!New(l, q), n < Len(q), q[n].account = x, g[x] = q[n].after,
               \A j \in Facts!New(l, q) : n < j /\ j < Len(q) => q[j].account # x
        PROVE  Facts!StandsAt(h, l, q, x, Len(q) + 1, f[x])
    <3>1. \A j \in Facts!New(l, q) : n < j /\ j < Len(q) + 1 => q[j].account # x
      BY <1>3, <1>5, <2>4, <2>6
    <3> QED BY <2>1, <2>4, <2>6, <3>1 DEF Facts!StandsAt
  <2> QED BY <2>3, <2>5, <2>6 DEF Facts!StandsAt
<1> QED BY <1>4, <1>5

\* Nothing new leaves everything as held.
LEMMA SettlesNothing ==
  ASSUME NEW h, NEW l \in Seq(Row)
  PROVE  Facts!New(l, l) = {} /\ Facts!Settles(h, l, h, l) /\ Facts!Continues(h, l, l)
<1>1. Facts!New(l, l) = {}
  <2>1. Len(l) \in Nat
    OBVIOUS
  <2> QED BY <2>1 DEF Facts!New
<1> QED BY <1>1 DEF Facts!Settles, Facts!Continues, Facts!StandsAt

LEMMA AddsRow ==
  ASSUME NEW s \in Statements, NEW h, NEW l \in Seq(Row), NEW g \in [Account -> Value],
         NEW m \in Seq(Row), Facts!Adds(s, h, l, g, m), NEW r \in Row,
         r.source = s.source, r.reverses = 0, ~r.reverted, Facts!Says(s, r),
         r.before = g[r.account], ~Recorded(m, r.source, r.index)
  PROVE  Facts!Adds(s, h, l, [g EXCEPT ![r.account] = r.after], Append(m, r))
<1> DEFINE q == Append(m, r)
           f == [g EXCEPT ![r.account] = r.after]
<1>1. /\ q \in Seq(Row) /\ DOMAIN q = DOMAIN m \cup {Len(m) + 1} /\ Len(q) = Len(m) + 1
      /\ Len(m) \in Nat /\ q[Len(m) + 1] = r
      /\ \A k \in DOMAIN m : k \in 1..Len(m) /\ q[k] = m[k]
  BY AppendAt
<1>2. /\ Len(m) >= Len(l) /\ \A n \in DOMAIN l : m[n] = l[n]
      /\ Len(l) \in Nat /\ DOMAIN l = 1..Len(l) /\ DOMAIN m = 1..Len(m)
  BY DEF Facts!Adds
<1> HIDE DEF q
<1>3. /\ Facts!New(l, q) = Facts!New(l, m) \cup {Len(m) + 1}
      /\ Facts!New(l, m) \subseteq DOMAIN m /\ Facts!New(l, m) \subseteq Nat
      /\ \A n \in Facts!New(l, m) : n <= Len(m)
  BY <1>1, <1>2 DEF Facts!New
<1> HIDE DEF Facts!New
<1>4. \A n \in DOMAIN l : q[n] = l[n]
  BY <1>1, <1>2
<1>5. \A n \in Facts!New(l, m) :
        /\ m[n].source = s.source /\ m[n].reverses = 0 /\ ~m[n].reverted /\ Facts!Says(s, m[n])
        /\ \A k \in DOMAIN m : k # n =>
             <<m[k].source, m[k].index, m[k].reverses>> # <<s.source, m[n].index, 0>>
  BY DEF Facts!Adds
<1>6. \A k \in DOMAIN m :
        <<m[k].source, m[k].index, m[k].reverses>> # <<r.source, r.index, r.reverses>>
  BY DEF Recorded
<1>7. \A n \in Facts!New(l, q) :
        /\ q[n].source = s.source /\ q[n].reverses = 0 /\ ~q[n].reverted /\ Facts!Says(s, q[n])
        /\ \A k \in DOMAIN q : k # n =>
             <<q[k].source, q[k].index, q[k].reverses>> # <<s.source, q[n].index, 0>>
  <2> TAKE n \in Facts!New(l, q)
  <2>1. CASE n = Len(m) + 1
    BY <1>1, <1>6, <2>1
  <2>2. CASE n \in Facts!New(l, m)
    <3>1. q[n] = m[n] /\ n \in DOMAIN m
      BY <1>1, <1>3, <2>2
    <3>2. \A k \in DOMAIN m : k # n =>
             <<q[k].source, q[k].index, q[k].reverses>> # <<s.source, q[n].index, 0>>
      BY <1>1, <1>5, <2>2, <3>1
    <3>3. <<r.source, r.index, r.reverses>> # <<s.source, q[n].index, 0>>
      BY <1>5, <1>6, <2>2, <3>1
    <3> QED BY <1>1, <1>5, <2>2, <3>1, <3>2, <3>3
  <2> QED BY <1>3, <2>1, <2>2
<1>8. Facts!Settles(h, l, f, q)
  <2>1. Facts!Settles(h, l, g, m)
    BY DEF Facts!Adds
  <2> QED BY <1>1, <1>2, <1>3, <2>1, SettlesOn
<1>9. Facts!Continues(h, l, q)
  <2> SUFFICES ASSUME NEW n \in Facts!New(l, q)
               PROVE  Facts!StandsAt(h, l, q, q[n].account, n, q[n].before)
    BY DEF Facts!Continues
  <2>1. CASE n = Len(m) + 1
    <3>1. Facts!StandsAt(h, l, m, r.account, Len(m) + 1, r.before)
      BY DEF Facts!Adds, Facts!Settles, Row
    <3> QED BY <1>1, <1>2, <1>3, <2>1, <3>1, StandsOn
  <2>2. CASE n \in Facts!New(l, m)
    <3>1. Facts!StandsAt(h, l, m, m[n].account, n, m[n].before)
      BY <2>2 DEF Facts!Adds, Facts!Continues
    <3>2. q[n] = m[n] /\ n \in Nat /\ n <= Len(m) + 1
      BY <1>1, <1>3, <2>2
    <3>3. Facts!StandsAt(h, l, q, m[n].account, n, m[n].before)
      BY <1>1, <1>2, <1>3, <3>1, <3>2, StandsOn
    <3> QED BY <3>2, <3>3
  <2> QED BY <1>3, <2>1, <2>2
<1>10. Len(q) >= Len(l)
  BY <1>1, <1>2
<1> QED BY <1>4, <1>7, <1>8, <1>9, <1>10 DEF Facts!Adds, q

LEMMA ReversesRow ==
  ASSUME NEW l \in Seq(Row), NEW group \in SUBSET DOMAIN l, NEW h, NEW g \in [Account -> Value],
         NEW m \in Seq(Row), Facts!Reverses(group, h, l, g, m),
         NEW n \in DOMAIN l, n \notin group, NEW r, r = Facts!Undone(l, n), r \in Row,
         [l[n] EXCEPT !.reverted = TRUE] \in Row, \A i \in group : l[i].at >= l[n].at
  PROVE  Facts!Reverses(group \cup {n}, h, l, [g EXCEPT ![r.account] = r.after],
                        Append([m EXCEPT ![n] = [@ EXCEPT !.reverted = TRUE]], r))
<1> DEFINE e == [m EXCEPT ![n] = [@ EXCEPT !.reverted = TRUE]]
           q == Append(e, r)
           f == [g EXCEPT ![r.account] = r.after]
<1>1. /\ Len(m) >= Len(l) /\ DOMAIN l = 1..Len(l) /\ DOMAIN m = 1..Len(m)
      /\ Len(l) \in Nat /\ Len(m) \in Nat /\ DOMAIN l \subseteq DOMAIN m
      /\ \A i \in DOMAIN l : m[i] = IF i \in group THEN [l[i] EXCEPT !.reverted = TRUE] ELSE l[i]
  BY DEF Facts!Reverses
<1>2. m[n] = l[n] /\ l[n] \in Row
  BY <1>1
<1>3. /\ e \in Seq(Row) /\ Len(e) = Len(m) /\ DOMAIN e = DOMAIN m
      /\ e[n] = [l[n] EXCEPT !.reverted = TRUE]
      /\ \A k \in DOMAIN m : k # n => e[k] = m[k]
  BY <1>1, <1>2, MarkRow
<1> HIDE DEF e
<1>4. /\ q \in Seq(Row) /\ DOMAIN q = DOMAIN m \cup {Len(m) + 1} /\ Len(q) = Len(m) + 1
      /\ q[Len(m) + 1] = r /\ \A k \in DOMAIN m : q[k] = e[k]
  BY <1>3, AppendAt
<1> HIDE DEF q
<1>5. /\ Facts!New(l, q) = Facts!New(l, m) \cup {Len(m) + 1}
      /\ \A k \in Facts!New(l, m) : k \in DOMAIN m /\ k \notin DOMAIN l /\ k <= Len(m) /\ k \in Nat
  BY <1>1, <1>4 DEF Facts!New
<1>6. \A k \in Facts!New(l, m) : q[k] = m[k]
  BY <1>3, <1>4, <1>5
<1> HIDE DEF Facts!New
<1>7. \A i \in DOMAIN l :
        q[i] = IF i \in group \cup {n} THEN [l[i] EXCEPT !.reverted = TRUE] ELSE l[i]
  <2> TAKE i \in DOMAIN l
  <2>1. CASE i = n
    BY <1>1, <1>3, <1>4, <2>1
  <2>2. CASE i # n
    <3>1. q[i] = m[i] /\ (i \in group \cup {n} <=> i \in group)
      BY <1>1, <1>3, <1>4, <2>2
    <3> QED BY <1>1, <3>1
  <2> QED BY <2>1, <2>2
<1>8. r.reverses = n /\ r.at = l[n].at
  BY <1>2 DEF Facts!Undone, Row
<1>9. \A i \in group \cup {n} : \E k \in Facts!New(l, q) : q[k].reverses = i
  <2>1. \A i \in group : \E k \in Facts!New(l, m) : m[k].reverses = i
    BY DEF Facts!Reverses
  <2> QED BY <1>4, <1>5, <1>6, <1>8, <2>1
<1>10. \A k \in Facts!New(l, m) :
        /\ m[k].reverses \in group /\ m[k] = Facts!Undone(l, m[k].reverses)
        /\ \A j \in Facts!New(l, m) : j < k => m[j].reverses # m[k].reverses /\ m[j].at >= m[k].at
  BY DEF Facts!Reverses
<1>11. \A k \in Facts!New(l, m) : m[k].at >= l[n].at
  <2> TAKE k \in Facts!New(l, m)
  <2>1. m[k].reverses \in group /\ m[k] = Facts!Undone(l, m[k].reverses)
    BY <1>10
  <2>2. l[m[k].reverses] \in Row
    BY <2>1
  <2>3. m[k].at = l[m[k].reverses].at
    BY <2>1, <2>2 DEF Facts!Undone, Row
  <2> QED BY <2>1, <2>3
<1>12. ASSUME NEW k \in Facts!New(l, q)
       PROVE  /\ q[k].reverses \in group \cup {n} /\ q[k] = Facts!Undone(l, q[k].reverses)
              /\ \A j \in Facts!New(l, q) :
                   j < k => q[j].reverses # q[k].reverses /\ q[j].at >= q[k].at
  <2>1. CASE k = Len(m) + 1
    <3>1. q[k] = r /\ \A j \in Facts!New(l, q) : j < k => j \in Facts!New(l, m)
      BY <1>1, <1>4, <1>5, <2>1
    <3> QED BY <1>6, <1>8, <1>10, <1>11, <3>1
  <2>2. CASE k \in Facts!New(l, m)
    <3>1. \A j \in Facts!New(l, q) : j < k => j \in Facts!New(l, m)
      BY <1>1, <1>5, <2>2
    <3> QED BY <1>6, <1>10, <2>2, <3>1
  <2> QED BY <1>5, <2>1, <2>2
<1>13. Facts!Settles(h, l, f, q)
  <2>1. Facts!Settles(h, l, g, m)
    BY DEF Facts!Reverses
  <2> QED BY <1>1, <1>4, <1>6, <2>1, SettlesOn
<1>14. Len(q) >= Len(l)
  BY <1>1, <1>4
<1> QED BY <1>7, <1>9, <1>12, <1>13, <1>14 DEF Facts!Reverses, q, e

USE PortfolioAssumption

\* Beyond the changes of a whole portfolio the plan sets to zero.
LEMMA PlanBeyond ==
  ASSUME NEW s \in Statement, NEW h \in [Account -> Value], NEW plan \in Plans(s, h),
         NEW i \in DOMAIN plan, i \notin DOMAIN s.changes
  PROVE  /\ s.complete /\ plan[i].action = "correct" /\ plan[i].shares = 0
         /\ plan[i].account # Assets
<1>1. s.changes \in Seq(Change)
  BY DEF Statement
<1>2. s.complete
  <2> SUFFICES ASSUME ~s.complete PROVE FALSE
    OBVIOUS
  <2>1. plan \in Trades(s, h)
    BY DEF Plans
  <2>2. DOMAIN plan = DOMAIN s.changes
    BY <2>1 DEF Trades
  <2> QED BY <2>2
<1>3. PICK xs \in SetToSeqs(Omitted(s, h)) : plan = s.changes \o Zeroed(xs)
  BY <1>2 DEF Plans, Snapshots
<1>4. xs \in Seq(Omitted(s, h))
  <2>1. IsFiniteSet(Omitted(s, h))
    BY FS_Subset DEF Omitted
  <2> QED BY <1>3, <2>1, Orders
<1> DEFINE Zero == [action: {"correct"}, account: Code, shares: {0}]
<1>5. Zeroed(xs) \in Seq(Zero)
  <2>1. DOMAIN xs = 1..Len(xs) /\ Len(xs) \in Nat /\ \A j \in DOMAIN xs : xs[j] \in Code
    BY <1>4 DEF Omitted
  <2> QED BY <2>1 DEF Zeroed
<1>6. plan[i] \in Zero
  <2> DEFINE z == Zeroed(xs)
  <2>1. z \in Seq(Zero)
    BY <1>5
  <2> HIDE DEF z, Zero
  <2>2. plan = s.changes \o z
    BY <1>3 DEF z
  <2>3. i \in 1..(Len(s.changes) + Len(z)) /\ i \notin 1..Len(s.changes)
    BY <1>1, <2>1, <2>2
  <2>4. plan[i] = z[i - Len(s.changes)] /\ i - Len(s.changes) \in 1..Len(z)
    BY <1>1, <2>1, <2>2, <2>3
  <2> QED BY <2>1, <2>4
<1>7. plan[i].action = "correct" /\ plan[i].shares = 0 /\ plan[i].account \in Code
  BY <1>6
<1> QED BY <1>2, <1>7, PortfolioAssumption

\* A row written from a plan says what the message says.
LEMMA RowSays ==
  ASSUME NEW s \in Statement, NEW h \in [Account -> Value], NEW plan \in Plans(s, h),
         NEW r \in Row, r.index \in DOMAIN plan, r.account = plan[r.index].account,
         r.after = After(plan[r.index], r.before)
  PROVE  Facts!Says(s, r)
<1> DEFINE i == r.index
           p == plan[i]
<1>1. p \in Change
  <2>1. plan \in Seq(Change)
    BY PlansChanges
  <2> QED BY <2>1
<1>2. \A v \in Value : Facts!Number(v) = Amount(v)
  BY DEF Facts!Number, Amount
<1>3. /\ r.before \in Value /\ r.after \in Value /\ Amount(r.before) \in Int
      /\ Facts!Number(r.before) = Amount(r.before) /\ Facts!Number(r.after) = Amount(r.after)
  BY <1>2, AmountInt DEF Row
<1>4. r.account = p.account /\ r.after = After(p, r.before) /\ p.shares \in Nat
  BY <1>1 DEF Change
<1>5. r.after \in Int /\ Amount(r.after) = r.after
  <2> HIDE DEF p, i
  <2>1. After(p, r.before) \in Int
    BY <1>1, <1>3 DEF After, Change
  <2> QED BY <1>4, <2>1 DEF Amount
<1>6. CASE i \in DOMAIN s.changes
  <2> DEFINE c == s.changes[i]
  <2>1. /\ p.account = c.account
        /\ c.action # "sell_all" => p = c
        /\ c.action = "sell_all" => p.action = "sell" /\ p.shares > 0
    BY <1>6, PlanOfMessage
  <2> HIDE DEF c, p, i
  <2>2. c.action = "correct" => r.after = c.shares
    BY <1>4, <2>1 DEF After
  <2>3. c.action = "buy" => Amount(r.after) = Amount(r.before) + c.shares
    BY <1>4, <1>5, <2>1 DEF After
  <2>4. c.action = "sell" => Amount(r.after) = Amount(r.before) - c.shares
    BY <1>4, <1>5, <2>1 DEF After
  <2>5. c.action = "sell_all" => Amount(r.after) < Amount(r.before)
    <3> SUFFICES ASSUME c.action = "sell_all" PROVE Amount(r.after) < Amount(r.before)
      OBVIOUS
    <3>1. r.after = Amount(r.before) - p.shares /\ p.shares > 0
      BY <1>4, <2>1 DEF After
    <3> QED BY <1>3, <1>4, <1>5, <3>1
  <2> QED BY <1>3, <1>4, <1>6, <2>1, <2>2, <2>3, <2>4, <2>5 DEF Facts!Says, c, i
<1>7. CASE i \notin DOMAIN s.changes
  <2>1. s.complete /\ p.action = "correct" /\ p.shares = 0 /\ p.account # Assets
    BY <1>7, PlanBeyond
  <2> HIDE DEF p, i
  <2>2. r.after = 0
    BY <1>4, <2>1 DEF After
  <2> QED BY <1>4, <1>7, <2>1, <2>2 DEF Facts!Says, i
<1> QED BY <1>6, <1>7

\* What the transaction of a message has added so far.
Writing(w) == Facts!Adds(work[w].said, hold, ledger, draft.hold, draft.ledger)

Returned(w) == {work[w].rows[i] : i \in {j \in DOMAIN work[w].rows : j < work[w].next}}

\* An undo has its group, newest first, and has reversed what comes before next.
Reversing(w) ==
  /\ \E src \in Source : {work[w].rows[i] : i \in DOMAIN work[w].rows}
                           = {n \in Facts!InForce(ledger) : ledger[n].source = src}
  /\ \A i, j \in DOMAIN work[w].rows :
       i < j => ledger[work[w].rows[i]].at >= ledger[work[w].rows[j]].at
  /\ Facts!Reverses(Returned(w), hold, ledger, draft.hold, draft.ledger)

DraftInv ==
  \A w \in Worker :
    /\ work[w].step = "writing" => Writing(w)
    /\ work[w].step = "undoing" => Reversing(w)

\* Who stays inside has a draft that stays.
LEMMA DraftStays ==
  ASSUME DraftInv,
         \A u \in Worker : work'[u].step \in {"writing", "undoing"} =>
           work'[u] = work[u] /\ UNCHANGED <<hold, ledger, draft>>
  PROVE  DraftInv'
<1> SUFFICES ASSUME NEW u \in Worker
             PROVE  /\ work'[u].step = "writing" => Writing(u)'
                    /\ work'[u].step = "undoing" => Reversing(u)'
  BY DEF DraftInv
<1>1. CASE work'[u].step = "writing"
  <2>1. work'[u] = work[u] /\ UNCHANGED <<hold, ledger, draft>> /\ Writing(u)
    BY <1>1 DEF DraftInv
  <2> QED BY <1>1, <2>1 DEF Writing
<1>2. CASE work'[u].step = "undoing"
  <2>1. work'[u] = work[u] /\ UNCHANGED <<hold, ledger, draft>> /\ Reversing(u)
    BY <1>2 DEF DraftInv
  <2> QED BY <1>2, <2>1 DEF Reversing, Returned
<1> QED BY <1>1, <1>2

LEMMA DraftAlone ==
  ASSUME TypeOK', NEW w \in Worker, owner' = w \/ owner' = None,
         owner' = w => /\ (work[w].step = "writing")' => Writing(w)'
                       /\ (work[w].step = "undoing")' => Reversing(w)'
  PROVE  DraftInv'
<1>1. \A u \in Worker : work'[u].step \in {"writing", "undoing"} => owner' = u
  BY DEF TypeOK
<1>2. None \notin Worker
  BY PortfolioAssumption
<1> QED BY <1>1, <1>2 DEF DraftInv

LEMMA BeginDraft ==
  ASSUME TypeOK, TypeOK', NEW w \in Teller, Begin(w)
  PROVE  DraftInv'
<1>1. /\ w \in Worker /\ owner = None /\ owner' = w /\ UNCHANGED <<hold, ledger, draft>>
      /\ draft = [hold |-> hold, ledger |-> ledger] /\ work'[w].step = "writing"
  BY DEF Begin, Open, TypeOK, Worker
<1>2. ledger \in Seq(Row)
  BY DEF TypeOK
<1>3. Facts!Adds(work'[w].said, hold, ledger, hold, ledger)
  <2>1. Len(ledger) >= Len(ledger)
    BY <1>2
  <2> QED BY <1>2, <2>1, SettlesNothing DEF Facts!Adds
<1>4. Writing(w)'
  BY <1>1, <1>3 DEF Writing
<1> QED BY <1>1, <1>4, DraftAlone

LEMMA BeginUndoDraft ==
  ASSUME TypeOK, TypeOK', NEW w \in Undoer, BeginUndo(w)
  PROVE  DraftInv'
<1>1. PICK o \in UndoOrders(work[w].group) :
        work' = [work EXCEPT ![w] = [step |-> "undoing", rows |-> o, next |-> 1]]
  BY DEF BeginUndo
<1>2. /\ w \in Worker /\ owner' = w /\ UNCHANGED <<hold, ledger, draft>>
      /\ draft = [hold |-> hold, ledger |-> ledger] /\ work[w].group \in Source
  BY Kept DEF BeginUndo, Open, TypeOK, Worker
<1>3. work'[w].step = "undoing" /\ work'[w].rows = o /\ work'[w].next = 1
  BY <1>1, <1>2 DEF TypeOK
<1>4. ledger \in Seq(Row) /\ DOMAIN ledger = 1..Len(ledger) /\ Len(ledger) \in Nat
  BY DEF TypeOK
<1>5. o \in SetToSeqs(Members(work[w].group)) /\ IsFiniteSet(Members(work[w].group))
  <2>1. IsFiniteSet(1..Len(ledger)) /\ Members(work[w].group) \subseteq 1..Len(ledger)
    BY <1>4, FS_Interval DEF Members, Undoable
  <2> QED BY <2>1, FS_Subset DEF UndoOrders
<1>6. {o[i] : i \in DOMAIN o} = Members(work[w].group)
  <2>1. \A i \in DOMAIN o : o[i] \in Members(work[w].group)
    BY <1>5 DEF SetToSeqs
  <2> QED BY <1>5, <2>1, OrdersCover
<1>7. Members(work[w].group) = {n \in Facts!InForce(ledger) : ledger[n].source = work[w].group}
  BY DEF Members, Undoable, Facts!InForce
<1>8. o \in Seq(Nat \ {0}) /\ Returned(w)' = {}
  <2>1. o \in Seq(Nat \ {0})
    BY <1>2, UndoOrdered
  <2>2. \A i \in DOMAIN o : ~(i < 1)
    BY <2>1
  <2> QED BY <1>3, <2>1, <2>2 DEF Returned
<1>9. Facts!Reverses({}, hold, ledger, hold, ledger)
  <2>1. Len(ledger) >= Len(ledger)
    BY <1>4
  <2> QED BY <1>4, <2>1, SettlesNothing DEF Facts!Reverses
<1>10. \A i, j \in DOMAIN o : i < j => ledger[o[i]].at >= ledger[o[j]].at
  BY DEF UndoOrders
<1>11. Reversing(w)'
  <2>1. \E src \in Source : {work'[w].rows[i] : i \in DOMAIN work'[w].rows}
                               = {n \in Facts!InForce(ledger') : ledger'[n].source = src}
    BY <1>2, <1>3, <1>6, <1>7
  <2>2. Facts!Reverses(Returned(w)', hold', ledger', draft'.hold, draft'.ledger)
    BY <1>2, <1>8, <1>9
  <2> QED BY <1>2, <1>3, <1>10, <2>1, <2>2 DEF Reversing
<1> QED BY <1>2, <1>3, <1>11, DraftAlone

LEMMA WriteRowDraft ==
  ASSUME TypeOK, TypeOK', CommitInv, DraftInv, NEW w \in Teller, WriteRow(w)
  PROVE  DraftInv'
<1>1. /\ w \in Worker /\ owner' = w /\ work[w].step = "writing" /\ Advance(w)
      /\ UNCHANGED <<hold, ledger>> /\ work[w].next <= Len(work[w].plan)
  BY DEF WriteRow, Worker
<1>2. work'[w].step = "writing" /\ work'[w].said = work[w].said
  BY <1>1, Advanced
<1>3. /\ work[w].said \in Statements /\ work[w].said \in Statement
      /\ work[w].seen \in [Account -> Value] /\ work[w].plan \in Seq(Change)
      /\ work[w].plan \in Plans(work[w].said, work[w].seen) /\ work[w].next \in Nat \ {0}
  BY <1>1, Kept, PortfolioAssumption DEF CommitInv, PlansKnown
<1>4. Writing(w)
  BY <1>1 DEF DraftInv
<1>5. ASSUME NEW r \in Row, r.index = work[w].next, r.reverses = 0, ~r.reverted,
             r.source = work[w].said.source,
             r.account = work[w].plan[work[w].next].account,
             r.after = After(work[w].plan[work[w].next], r.before),
             r.before = draft.hold[r.account],
             ~Recorded(draft.ledger, r.source, r.index),
             draft' = [hold |-> [draft.hold EXCEPT ![r.account] = r.after],
                       ledger |-> Append(draft.ledger, r)]
      PROVE  Writing(w)'
  <2>1. work[w].next \in DOMAIN work[w].plan
    BY <1>1, <1>3
  <2>2. Facts!Says(work[w].said, r)
    BY <1>3, <1>5, <2>1, RowSays
  <2>3. ledger \in Seq(Row) /\ draft.hold \in [Account -> Value] /\ draft.ledger \in Seq(Row)
    BY DEF TypeOK
  <2>4. Facts!Adds(work[w].said, hold, ledger, [draft.hold EXCEPT ![r.account] = r.after],
                   Append(draft.ledger, r))
    BY <1>3, <1>4, <1>5, <2>2, <2>3, AddsRow DEF Writing
  <2>5. /\ draft'.hold = [draft.hold EXCEPT ![r.account] = r.after]
        /\ draft'.ledger = Append(draft.ledger, r)
    BY <1>5
  <2> QED BY <1>1, <1>2, <2>4, <2>5 DEF Writing
<1>6. ASSUME UNCHANGED draft PROVE Writing(w)'
  <2>1. Facts!Adds(work'[w].said, hold', ledger', draft'.hold, draft'.ledger)
    BY <1>1, <1>2, <1>4, <1>6 DEF Writing
  <2> QED BY <2>1 DEF Writing
<1>7. Writing(w)'
  <2> HIDE DEF Writing
  <2> QED BY <1>1, <1>5, <1>6, RowWritten
<1> QED BY <1>1, <1>2, <1>7, DraftAlone

LEMMA RevertRowDraft ==
  ASSUME TypeOK, TypeOK', UndoReady, DraftInv, NEW w \in Undoer, RevertRow(w)
  PROVE  DraftInv'
<1> DEFINE rows == work[w].rows
           next == work[w].next
           l == draft.ledger
<1>1. /\ w \in Worker /\ owner' = w /\ work[w].step = "undoing" /\ Advance(w)
      /\ UNCHANGED <<hold, ledger>> /\ next <= Len(rows)
  BY DEF RevertRow, Worker
<1>2. rows \in Seq(Nat \ {0}) /\ next \in Nat \ {0}
  BY <1>1, Kept
<1>3. work'[w].step = "undoing" /\ work'[w].rows = rows /\ work'[w].next = next + 1
  <2>1. work[w] \in WorkType /\ work'[w] = [work[w] EXCEPT !.next = @ + 1]
    BY <1>1 DEF TypeOK, Advance
  <2> QED BY <1>1, <2>1 DEF WorkType
<1>4. Reversing(w)
  BY <1>1 DEF DraftInv
<1>5. PICK n \in Undoable(l) :
        LET r == Reversal(l, n)
        IN  /\ n = rows[next] /\ r \in Row /\ [l[n] EXCEPT !.reverted = TRUE] \in Row
            /\ draft' = [hold |-> [draft.hold EXCEPT ![r.account] = r.after],
                         ledger |-> Append([l EXCEPT ![n] = [@ EXCEPT !.reverted = TRUE]], r)]
  BY <1>1, RowReversed
<1> DEFINE r == Reversal(l, n)
<1>6. next \in DOMAIN rows /\ n = rows[next]
  <2>1. n = rows[next]
    BY <1>5
  <2> HIDE DEF rows, next
  <2> QED BY <1>1, <1>2, <2>1
<1>7. /\ ledger \in Seq(Row) /\ l \in Seq(Row) /\ draft.hold \in [Account -> Value]
  BY DEF TypeOK
<1>8. \A i \in DOMAIN rows : rows[i] \in DOMAIN ledger
  BY <1>4 DEF Reversing, Facts!InForce
<1>9. \A i \in DOMAIN rows : i # next => rows[i] # n
  BY <1>1, <1>6 DEF UndoReady
<1>10. Returned(w) \in SUBSET DOMAIN ledger /\ n \notin Returned(w) /\ n \in DOMAIN ledger
  <2> HIDE DEF rows
  <2>1. Returned(w) = {rows[i] : i \in {j \in DOMAIN rows : j < next}}
    BY DEF Returned, rows
  <2>2. \A i \in DOMAIN rows : i < next => i # next
    BY <1>2
  <2> QED BY <1>6, <1>8, <1>9, <2>1, <2>2
<1>11. \A i \in Returned(w) : ledger[i].at >= ledger[n].at
  <2> SUFFICES ASSUME NEW j \in DOMAIN rows, j < next PROVE ledger[rows[j]].at >= ledger[n].at
    BY DEF Returned
  <2> QED BY <1>4, <1>6 DEF Reversing
<1>12. l[n] = ledger[n]
  BY <1>4, <1>10 DEF Reversing, Facts!Reverses
<1>13. r = Facts!Undone(ledger, n) /\ r \in Row /\ [ledger[n] EXCEPT !.reverted = TRUE] \in Row
  BY <1>5, <1>12 DEF Reversal, Facts!Undone
<1>14. /\ draft'.hold = [draft.hold EXCEPT ![r.account] = r.after]
       /\ draft'.ledger = Append([l EXCEPT ![n] = [@ EXCEPT !.reverted = TRUE]], r)
  BY <1>5
<1> HIDE DEF r
<1>15. Facts!Reverses(Returned(w) \cup {n}, hold, ledger, draft'.hold, draft'.ledger)
  <2>1. Facts!Reverses(Returned(w), hold, ledger, draft.hold, l)
    BY <1>4 DEF Reversing
  <2> HIDE PortfolioAssumption DEF l
  <2> QED BY <1>7, <1>10, <1>11, <1>13, <1>14, <2>1, ReversesRow
<1>16. Returned(w)' = Returned(w) \cup {n}
  <2> HIDE DEF rows, next
  <2>1. \A j \in DOMAIN rows : j < next + 1 <=> j < next \/ j = next
    BY <1>2
  <2>2. /\ Returned(w)' = {rows[i] : i \in {j \in DOMAIN rows : j < next + 1}}
        /\ Returned(w) = {rows[i] : i \in {j \in DOMAIN rows : j < next}}
    BY <1>3 DEF Returned, rows, next
  <2> QED BY <1>6, <2>1, <2>2
<1>17. Reversing(w)'
  BY <1>1, <1>3, <1>4, <1>15, <1>16 DEF Reversing
<1> QED BY <1>1, <1>3, <1>17, DraftAlone

LEMMA DraftStep ==
  TypeOK /\ UndoReady /\ CommitInv /\ DraftInv /\ [Next]_vars => DraftInv'
<1> SUFFICES ASSUME TypeOK, UndoReady, CommitInv, DraftInv, [Next]_vars PROVE DraftInv'
  OBVIOUS
<1>1. TypeOK' /\ Teller \subseteq Worker /\ Undoer \subseteq Worker /\ work \in [Worker -> WorkType]
  BY TypeStep DEF Worker, TypeOK
<1>2. CASE UNCHANGED vars
  BY <1>2, DraftStays DEF vars
<1>3. ASSUME NEW w \in Worker, UNCHANGED <<hold, ledger, draft>>, NEW v,
             work' = [work EXCEPT ![w] = v], v.step \notin {"writing", "undoing"}
      PROVE  DraftInv'
  <2>1. \A u \in Worker : work'[u] = work[u] \/ work'[u] = v
    BY <1>1, <1>3
  <2> QED BY <1>3, <2>1, DraftStays
<1>4. ASSUME NEW w \in Worker, owner' = None PROVE DraftInv'
  BY <1>1, <1>4, DraftAlone
<1>5. ASSUME NEW w \in Teller, \E s \in Statements : Tell(w, s) PROVE DraftInv'
  <2>1. PICK v : work' = [work EXCEPT ![w] = v] /\ v.step \in {"resolved", "done"}
    <3>1. PICK s \in Statements : Tell(w, s)
      BY <1>5
    <3>2. CASE \E plan \in Plans(s, hold) :
                 work' = [work EXCEPT ![w] =
                            [step |-> "resolved", said |-> s, plan |-> plan, seen |-> hold]]
      <4>1. PICK plan \in Plans(s, hold) :
              work' = [work EXCEPT ![w] =
                         [step |-> "resolved", said |-> s, plan |-> plan, seen |-> hold]]
        BY <3>2
      <4> WITNESS [step |-> "resolved", said |-> s, plan |-> plan, seen |-> hold]
      <4> QED BY <4>1
    <3>3. CASE work' = [work EXCEPT ![w] = [step |-> "done", said |-> s,
                          result |-> IF Rejected(s) THEN "rejected" ELSE "needs_input"]]
      <4> WITNESS [step |-> "done", said |-> s,
                   result |-> IF Rejected(s) THEN "rejected" ELSE "needs_input"]
      <4> QED BY <3>3
    <3> QED BY <3>1, <3>2, <3>3 DEF Tell
  <2>2. UNCHANGED <<hold, ledger, draft>>
    BY <1>5 DEF Tell
  <2> QED BY <1>1, <1>3, <2>1, <2>2
<1>6. ASSUME NEW w \in Worker, SaveReceipt(w) \/ NothingToUndo(w) PROVE DraftInv'
  BY <1>3, <1>6 DEF SaveReceipt, NothingToUndo, Idle
<1>7. ASSUME NEW w \in Undoer, PickGroup(w) PROVE DraftInv'
  <2>1. PICK n : work' = [work EXCEPT ![w] = [step |-> "undo", group |-> ledger[n].source]]
    BY <1>7 DEF PickGroup
  <2> DEFINE v == [step |-> "undo", group |-> ledger[n].source]
  <2>2. v.step \notin {"writing", "undoing"} /\ UNCHANGED <<hold, ledger, draft>>
    BY <1>7 DEF PickGroup
  <2> QED BY <1>1, <1>3, <2>1, <2>2
<1>8. ASSUME NEW w \in Worker, RowRaises(w) \/ Commit(w) \/ UndoRaises(w) \/ CommitUndo(w)
      PROVE  DraftInv'
  BY <1>4, <1>8 DEF RowRaises, Commit, UndoRaises, CommitUndo, RollBack, Publish
<1>9. ASSUME Stop PROVE DraftInv'
  <2>1. \A u \in Worker : work'[u].step \notin {"writing", "undoing"}
    BY <1>9 DEF Stop, Idle
  <2> QED BY <2>1 DEF DraftInv
<1> QED BY <1>1, <1>2, <1>5, <1>6, <1>7, <1>8, <1>9, BeginDraft, BeginUndoDraft,
           WriteRowDraft, RevertRowDraft
        DEF Next, TellerStep, UndoerStep

LEMMA CommitRecords ==
  ASSUME TypeOK, DraftInv, AppliedInv', NEW w \in Teller, Commit(w)
  PROVE  \E s \in Statements : Facts!Record(s)
<1>1. /\ w \in Worker /\ work[w].step = "writing" /\ UNCHANGED receipts
      /\ hold' = draft.hold /\ ledger' = draft.ledger
      /\ work' = [work EXCEPT ![w] = [step |-> "done", said |-> work[w].said, result |-> "applied"]]
  BY DEF Commit, Publish, Worker
<1>2. work[w].said \in Statements
  BY <1>1, Kept
<1>3. Facts!Adds(work[w].said, hold, ledger, hold', ledger')
  BY <1>1 DEF DraftInv, Writing
<1>4. /\ work'[w].step = "done" /\ work'[w].result = "applied"
      /\ work'[w].said = work[w].said
  BY <1>1 DEF TypeOK
<1>5. AllRecorded(ledger', work[w].said)
  BY <1>1, <1>4 DEF AppliedInv
<1>6. Facts!WholeIn(ledger', work[w].said)
  BY <1>5 DEF AllRecorded, Recorded, Facts!WholeIn, Facts!Recorded
<1> QED BY <1>1, <1>2, <1>3, <1>6 DEF Facts!Record

LEMMA CommitUndoes ==
  ASSUME TypeOK, DraftInv, NEW w \in Undoer, CommitUndo(w)
  PROVE  \E src \in Source : Facts!Undo(src)
<1>1. /\ w \in Worker /\ work[w].step = "undoing" /\ UNCHANGED receipts
      /\ hold' = draft.hold /\ ledger' = draft.ledger /\ work[w].next > Len(work[w].rows)
  BY DEF CommitUndo, Publish, Worker
<1>2. work[w].rows \in Seq(Nat \ {0}) /\ work[w].next \in Nat \ {0}
  BY <1>1, Kept
<1>3. Reversing(w)
  BY <1>1 DEF DraftInv
<1>4. PICK src \in Source : {work[w].rows[i] : i \in DOMAIN work[w].rows}
                              = {n \in Facts!InForce(ledger) : ledger[n].source = src}
  BY <1>3 DEF Reversing
<1>5. Returned(w) = {work[w].rows[i] : i \in DOMAIN work[w].rows}
  <2>1. {j \in DOMAIN work[w].rows : j < work[w].next} = DOMAIN work[w].rows
    BY <1>1, <1>2
  <2> QED BY <2>1 DEF Returned
<1>6. Facts!Reverses({n \in Facts!InForce(ledger) : ledger[n].source = src},
                     hold, ledger, hold', ledger')
  BY <1>1, <1>3, <1>4, <1>5 DEF Reversing
<1> QED BY <1>1, <1>6 DEF Facts!Undo

LEMMA SaveAnswers ==
  ASSUME TypeOK, AppliedInv, NEW w \in Teller, SaveReceipt(w)
  PROVE  \/ UNCHANGED Facts!vars
         \/ \E s \in Statements, result \in {"applied", "needs_input", "rejected", "failed"} :
              Facts!Answer(s, result)
<1> DEFINE s == work[w].said
           result == work[w].result
<1>1. /\ w \in Worker /\ work[w].step = "done" /\ UNCHANGED <<hold, ledger>>
      /\ receipts' = [receipts EXCEPT ![s] = IF @ = "none" THEN result ELSE @]
  BY DEF SaveReceipt, Worker
<1>2. s \in Statements /\ result \in {"applied", "needs_input", "rejected", "failed"}
  BY <1>1, Kept
<1>3. result = "applied" => Facts!WholeIn(ledger, s)
  BY <1>1 DEF AppliedInv, AllRecorded, Recorded, Facts!WholeIn, Facts!Recorded
<1> HIDE DEF s, result
<1>4. CASE receipts[s] = "none"
  <2>1. receipts' = [receipts EXCEPT ![s] = result]
    BY <1>1, <1>4
  <2> QED BY <1>1, <1>2, <1>3, <1>4, <2>1 DEF Facts!Answer
<1>5. CASE receipts[s] # "none"
  <2>1. receipts' = receipts
    BY <1>1, <1>5 DEF TypeOK
  <2> QED BY <1>1, <2>1 DEF Facts!vars
<1> QED BY <1>4, <1>5

LEMMA LedgerStep ==
  TypeOK /\ DraftInv /\ AppliedInv /\ AppliedInv' /\ [Next]_vars => [Facts!Next]_(Facts!vars)
<1> SUFFICES ASSUME TypeOK, DraftInv, AppliedInv, AppliedInv', [Next]_vars
             PROVE  [Facts!Next]_(Facts!vars)
  OBVIOUS
<1>1. CASE UNCHANGED <<hold, ledger, receipts>>
  BY <1>1 DEF Facts!vars
<1>2. ASSUME NEW w \in Teller, Commit(w) PROVE Facts!Next
  BY <1>2, CommitRecords DEF Facts!Next
<1>3. ASSUME NEW w \in Undoer, CommitUndo(w) PROVE Facts!Next
  BY <1>3, CommitUndoes DEF Facts!Next
<1>4. ASSUME NEW w \in Teller, SaveReceipt(w) PROVE UNCHANGED Facts!vars \/ Facts!Next
  BY <1>4, SaveAnswers DEF Facts!Next
<1>5. CASE \E w \in Teller : (\E s \in Statements : Tell(w, s)) \/ Begin(w) \/ WriteRow(w)
                                \/ RowRaises(w)
  BY <1>1, <1>5 DEF Tell, Begin, WriteRow, RowRaises
<1>6. CASE \E w \in Undoer : PickGroup(w) \/ BeginUndo(w) \/ NothingToUndo(w) \/ RevertRow(w)
                                \/ UndoRaises(w)
  BY <1>1, <1>6 DEF PickGroup, BeginUndo, NothingToUndo, RevertRow, UndoRaises
<1>7. CASE Stop \/ UNCHANGED vars
  BY <1>1, <1>7 DEF Stop, vars
<1> QED BY <1>2, <1>3, <1>4, <1>5, <1>6, <1>7 DEF Next, TellerStep, UndoerStep

(* The portfolio implements the abstract ledger: for any messages, also     *)
(* several actions of one, any threads, attempts and stops, a message is    *)
(* recorded as a whole and undone as a whole, in one step, and a receipt    *)
(* "applied" means that every change of it has a row under its number.      *)
THEOREM LedgerOfFacts == Spec => ImplementsLedger
<1>1. Init => Facts!Init /\ DraftInv /\ AppliedInv /\ CommitInv /\ History
  <2> SUFFICES ASSUME Init PROVE Facts!Init /\ DraftInv /\ AppliedInv /\ CommitInv /\ History
    OBVIOUS
  <2>1. ledger = <<>> /\ draft.ledger = <<>> /\ \A w \in Worker : work[w].step = "idle"
    BY DEF Init, Idle
  <2>2. Facts!Init
    BY DEF Init, Facts!Init
  <2>3. AppliedInv
    BY <2>1 DEF Init, AppliedInv
  <2>4. CommitInv
    BY <2>1 DEF CommitInv, PlansKnown, Undisturbed, Worker
  <2>5. History
    BY <2>1 DEF History, Sound, OneKey, Marked, Grows
  <2>6. DraftInv
    BY <2>1 DEF DraftInv
  <2> QED BY <2>2, <2>3, <2>4, <2>5, <2>6
<1>2. TypeOK /\ UndoReady /\ CommitInv /\ [Next]_vars => CommitInv'
  BY CommitStep
<1>3. TypeOK /\ UndoReady /\ History /\ [Next]_vars => History'
  BY HistoryStep
<1>4. TypeOK /\ UndoReady /\ CommitInv /\ History /\ AppliedInv /\ [Next]_vars => AppliedInv'
  BY AppliedStep
<1>5. TypeOK /\ UndoReady /\ CommitInv /\ DraftInv /\ [Next]_vars => DraftInv'
  BY DraftStep
<1>6. TypeOK /\ DraftInv /\ AppliedInv /\ AppliedInv' /\ [Next]_vars => [Facts!Next]_(Facts!vars)
  BY LedgerStep
<1> QED BY <1>1, <1>2, <1>3, <1>4, <1>5, <1>6, TypeInit, TypeStep, PTL
        DEF Spec, ImplementsLedger, Facts!Spec
=============================================================================
