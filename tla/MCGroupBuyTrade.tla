--------------------------- MODULE MCGroupBuyTrade ---------------------------
(* Instances of GroupBuyTrade for TLC.                                     *)
EXTENDS TradeLedger, TLC

\* Users, trade numbers, teams and request slots are interchangeable.
Symmetry == Permutations(Users) \cup Permutations(TradeNos)
              \cup Permutations(Teams) \cup Permutations(Procs)
=============================================================================
