----------------------------- MODULE TradeLedger -----------------------------
(***************************************************************************)
(* What the trades table promises whoever reads it, whichever threads      *)
(* write it: numbered entries, opened in order, each with the terms it was *)
(* opened with for good, closed once and for all, and no broker order      *)
(* entered twice.  An entry with no order is an adopted position.          *)
(***************************************************************************)
EXTENDS Integers

CONSTANTS Ids, Terms, NoTerms, Unordered

VARIABLE ledger   \* the state and the terms of each entry

Blank == [state |-> "unused", terms |-> NoTerms]

LedgerInit == ledger = [t \in Ids |-> Blank]

Used == {t \in Ids : ledger[t].state # "unused"}

Open(t) ==
  LET terms == ledger'[t].terms
  IN  /\ t \notin Used
      /\ \A u \in Ids : u < t => u \in Used
      /\ terms \in Terms
      /\ terms.order # Unordered => \A u \in Used : ledger[u].terms.order # terms.order
      /\ ledger' = [ledger EXCEPT ![t] = [state |-> "open", terms |-> terms]]

Close(t) ==
  /\ ledger[t].state = "open"
  /\ ledger' = [ledger EXCEPT ![t].state = "closed"]

LedgerNext ==
  \E t \in Ids : Open(t) \/ Close(t)

LedgerSpec == LedgerInit /\ [][LedgerNext]_ledger
=============================================================================
