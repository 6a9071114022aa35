--------------------------- MODULE MCAccessToken ---------------------------
(* Two requests; tokens that live just long enough to be cached, and       *)
(* shorter ones that never are; a clock of more than two lives.            *)
EXTENDS AccessToken
=============================================================================
