------------------------------ MODULE MCQQBot ------------------------------
(* One message with text, sent three times with or without the same event  *)
(* id, one without text, and a restart: a 502 or a dead request, its       *)
(* repeat, and a repeat of that.                                           *)
EXTENDS QQBot
=============================================================================
