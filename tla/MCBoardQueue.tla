----------------------------- MODULE MCBoardQueue -----------------------------
\* Two requests for the first goal of a queue, in one chat.
EXTENDS BoardQueue, TLC

CONSTANTS q1, r1, r2

FirstGoal == [r \in Requests |-> [queue |-> q1, goal |-> 1]]
OneChat == [r \in Requests |-> None]
\* Each slot goes to a conversation of its own.
OwnThread == [s \in Slots |-> s]
FirstOnly == [r \in Requests |-> IF r = r1 THEN Slots ELSE {}]
===============================================================================
