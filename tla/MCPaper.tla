------------------------------ MODULE MCPaper ------------------------------
(* Two callers and the loop on one small account, for TLC. *)
EXTENDS PaperTrading, TLC

CONSTANTS mcp, cli

MCRequests == {[side |-> "buy", price |-> 2, quantity |-> 1],
               [side |-> "sell", price |-> 1, quantity |-> 1],
               [side |-> "buy", price |-> 1, quantity |-> 0]}
MCContracts == {[active |-> TRUE, tradable |-> TRUE, size |-> 0],
                [active |-> TRUE, tradable |-> FALSE, size |-> 100]}
MCLimits == [order |-> {200}, open |-> {300}, fraction |-> {2}]
MCEquity == {1000}
MCLoopAmounts == <<{100}, {200}>>
MCLosses == {}
MCSymmetry == Permutations({mcp, cli})
=============================================================================
