-------------------------- MODULE MCAssistantTurns --------------------------
EXTENDS AssistantTurnsProperties

CONSTANTS long, short

\* Every turn is asked for in the same session; one of them says nothing.
TwoTurns == {long, short}
OneSession == {"s"}
AllInOne == [t \in Turns |-> "s"]
TheLong == {long}
Lengths == [t \in Turns |-> IF t = long THEN 1 ELSE 0]
=============================================================================
