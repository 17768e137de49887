--------------------------- MODULE MCOperatorPage ---------------------------
(* OperatorPage on small instances: two pods of one name and one of another *)
(* in two namespaces, a search, a selector and one that does not parse.     *)
EXTENDS OperatorPage

CONSTANTS a, b, ax, ay, bx, none, cs, sel, bad, shark, c1

TableOrder  == <<bx, ax, ay>>
TableByName == <<ax, bx, ay>>
TableNsOf   == [p \in {ax, ay, bx} |-> IF p = bx THEN b ELSE a]
TableNameOf == [p \in {ax, ay, bx} |-> IF p = ay THEN "y" ELSE "x"]

TableLetter   == {"b", "c", "s", "t", "x", "/", "-", "="}
TableNsText   == [n \in {a, b} |-> IF n = a THEN <<"c">> ELSE <<"b">>]
TableNameText == [p \in {ax, ay, bx} |-> IF p = ay THEN <<"s", "c", "-", "s">> ELSE <<"c", "x">>]
TableLabels   == [p \in {ax, ay, bx} |-> IF p = bx THEN {<<"t", "=", "c", "s">>} ELSE {}]

TableWords   == [q \in {none, cs, sel, bad} |-> IF q = cs THEN <<<<"c", "s">>, <<"c">>>> ELSE <<>>]
TableSelects == [q \in {none, cs, sel, bad} |->
                  IF q = sel THEN {ay, bx} ELSE IF q = bad THEN {} ELSE {ax, ay, bx}]

TableStarts == {[ns |-> NoNamespace, phase |-> [p \in {ax, ay, bx} |-> "running"]],
                [ns |-> a, phase |-> [p \in {ax, ay, bx} |-> IF p = ax THEN "stopped" ELSE "running"]]}

TableWebshark == <<shark>>
TableWsOf     == [s \in {shark} |-> b]

\* TLC works out a definition of its own once, and what a constant stands for every time.
MCOrder    == TableOrder
MCByName   == TableByName
MCNsOf     == TableNsOf
MCNameOf   == TableNameOf
MCLetter   == TableLetter
MCNsText   == TableNsText
MCNameText == TableNameText
MCLabels   == TableLabels
MCWords    == TableWords
MCSelects  == TableSelects
MCWebshark == TableWebshark
MCWsOf     == TableWsOf
MCStarts   == TableStarts
=============================================================================
