---------------------------- MODULE MCBlockSync ----------------------------
(* Model-checking instances of BlockSync: a chain of two blocks, and a      *)
(* rival of its first block that was minted with the same stake.            *)
EXTENDS BlockSync

MCBlocks == {"g", "b1", "b2", "f1"}
MCPrev   == [b \in MCBlocks |->
               CASE b = "g"  -> "none"
                 [] b = "b1" -> "g"
                 [] b = "f1" -> "g"
                 [] b = "b2" -> "b1"]
MCStake  == [b \in MCBlocks |-> IF b \in {"b1", "f1"} THEN "coin" ELSE "nostake"]

\* The server has the first block, the other node its rival.
MCKnown == [n \in {"p", "r"} |-> IF n = "p" THEN {"g", "b1"} ELSE {"g", "f1"}]
MCSigned == [n \in {"p", "r"} |-> IF n = "p" THEN {"b1"} ELSE {}]

\* Every node can connect every block; or one node fails to connect a block that
\* has a rival of the same stake.
AllConnect == [n \in {"p", "r"} |-> {}]
OneFails   == [n \in {"p", "r"} |-> IF n = "r" THEN {"b2"} ELSE {}]

\* Two blocks of one stake on the same parent, of which the node knows neither.
TwinBlocks == {"g", "b1", "b2", "c2", "b3"}
TwinPrev   == [b \in TwinBlocks |->
                 CASE b = "g"  -> "none"
                   [] b = "b1" -> "g"
                   [] b \in {"b2", "c2"} -> "b1"
                   [] b = "b3" -> "c2"]
TwinStake  == [b \in TwinBlocks |-> IF b \in {"b2", "c2"} THEN "coin" ELSE "nostake"]
TwinKnown  == [n \in {"p", "r"} |-> IF n = "p" THEN {"g", "b1", "b2", "c2"} ELSE {"g"}]
TwinSigned == [n \in {"p", "r"} |-> {"b1", "b2", "c2"}]
=============================================================================
