--------------------------- MODULE MCOrchestrator ---------------------------
(* Three messages of one chat: two in a thread, one in another. The window *)
(* holds two, so that another turn's question and answer push one out.     *)
EXTENDS Orchestrator

CONSTANTS m1, m2, m3, chat, thread1, thread2, c1, c2

MCCallLists == {<<>>, <<c1, c2>>}
OneCall == {<<>>, <<c1>>}
MCChatOf == [m \in {m1, m2, m3} |-> chat]
MCThreadIdOf == [m \in {m1, m2, m3} |-> IF m = m3 THEN thread2 ELSE thread1]
MCRootIdOf == [m \in {m1, m2, m3} |-> NoId]

(* A chat outside topic groups: m1 has no thread yet; the bot's reply with *)
(* ReplyInThread opens one, and m2, posted there, carries its id.          *)
GrownThreadIdOf == [m \in {m1, m2, m3} |-> IF m = m2 THEN thread1 ELSE NoId]
GrownRootIdOf == [m \in {m1, m2, m3} |-> IF m = m2 THEN m1 ELSE NoId]
=============================================================================
