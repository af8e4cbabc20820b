--------------------------- MODULE MCTradingSystem ---------------------------
(***************************************************************************)
(* Instances of TradingSystem for TLC.                                     *)
(***************************************************************************)
EXTENDS TradingSystem

CONSTANTS A, B

MCSignals == 1 .. 2
SameSymbol == [s \in MCSignals |-> A]
TwoSymbols == [s \in MCSignals |-> IF s = 1 THEN A ELSE B]
NoSignals == {}
NoSignalOf == [s \in NoSignals |-> A]
=============================================================================
