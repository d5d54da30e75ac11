---------------------------- MODULE MCPortfolio ----------------------------
(* Instances of Portfolio for TLC: two codes, three messages, the ticker    *)
(* and the conversation dispatcher, two threads that undo.                  *)
EXTENDS Portfolio

CONSTANTS x, y, total, m1, m2, m3, ticker, talker, http

Say(src, complete, wording, changes) ==
  [source |-> src, complete |-> complete, wording |-> wording, changes |-> changes]
Do(action, account, shares) == [action |-> action, account |-> account, shares |-> shares]

\* Sold and bought back; all that is held; bought twice.
Messages ==
  { Say(m1, FALSE, "fact", <<Do("sell_all", x, 0), Do("buy", x, 1)>>),
    Say(m2, TRUE, "fact", <<Do("correct", y, 1)>>),
    Say(m3, FALSE, "fact", <<Do("buy", y, 1), Do("buy", y, 1)>>) }

\* One batch with two messages, each with an action of its own.
OneBatch ==
  { Say(m1, FALSE, "fact", <<Do("buy", y, 1)>>), Say(m1, FALSE, "fact", <<Do("buy", x, 1)>>),
    Say(m2, FALSE, "plan", <<Do("buy", x, 1)>>), Say(m3, TRUE, "unclear", <<>>) }

Imported == [a \in Account |-> IF a = x THEN 1 ELSE None]
=============================================================================
