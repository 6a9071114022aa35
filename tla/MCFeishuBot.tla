----------------------------- MODULE MCFeishuBot -----------------------------
(* One message whose event is delivered twice: two jobs can overlap on its *)
(* map entry, its emoji and its mark. Messages meet only in the deduper's  *)
(* set, so a second message would add nothing but interleavings.           *)
EXTENDS FeishuBot
=============================================================================
