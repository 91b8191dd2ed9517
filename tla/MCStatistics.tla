---------------------------- MODULE MCStatistics ----------------------------
(* A small instance of Statistics, over the states of ReviewExport.       *)
EXTENDS MCExport, Statistics

MCSeen == [i \in Items |-> IF i = 1 THEN "jeans" ELSE "coat"]
MCClassified == [t \in Captions \cup {"jeans", "coat"} |->
                    IF t \in Drafts THEN "other" ELSE "clothed"]

=============================================================================
