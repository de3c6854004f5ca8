----------------------------- MODULE DecisionLedger -----------------------------
(***************************************************************************)
(* What the transaction coordinator promises its clients, with nothing of   *)
(* how it keeps the promise: a ledger in which a key, and a proposal id, is *)
(* decided at most once and for ever, and answers that never claim more     *)
(* than the ledger holds.                                                   *)
(***************************************************************************)
CONSTANTS Rows,            \* a row names a key, a proposal id and a decision
          Answers,         \* what a client may be told
          Clash(_, _),     \* two rows decide the same key or the same id
          Supports(_, _)   \* a row is what an answer needs to be true

VARIABLES ledger, answers

LedgerInit == ledger = {} /\ answers = {}

(* Rows are decided together, all or none, and contradict no earlier row.   *)
Decide ==
  /\ ledger \subseteq ledger'
  /\ ledger' \subseteq Rows
  /\ \A r, s \in ledger' : Clash(r, s) => r = s

(* A client learns answers; each is supported by a row already decided.     *)
Learn ==
  /\ answers \subseteq answers'
  /\ answers' \subseteq Answers
  /\ \A a \in answers' \ answers : \E r \in ledger' : Supports(r, a)

LedgerNext == Decide /\ Learn

LedgerSpec == LedgerInit /\ [][LedgerNext]_<<ledger, answers>>
=============================================================================
