SPECIFICATION Spec
CONSTANTS
  x = x
  y = y
  total = total
  m1 = m1
  m2 = m2
  m3 = m3
  ticker = ticker
  talker = talker
  http = http
  None = None
  MaxMessages = 2
  Code = {x, y}
  Assets = total
  Source = {m1, m2, m3}
  Statements <- Messages
  Baseline <- Imported
  Teller = {ticker, talker}
  Undoer = {ticker, http}
INVARIANTS LedgerTallies AppliedIsTrue
PROPERTIES ImplementsLedger HistoryKept FreshCommit UndoKeepsOthers
