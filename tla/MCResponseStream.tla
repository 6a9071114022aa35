-------------------------- MODULE MCResponseStream --------------------------
(* Two calls whose fragments can interleave, one with two fragments, one   *)
(* with or without arguments; a preamble of two deltas or none.            *)
EXTENDS Assistant

CONSTANTS a1, a2, a3, p, q, f, g

MCOldName == <<>>
MCResponses ==
  [text : {<<>>, <<p, q>>},
   calls : {<<>>, <<[name |-> f, args |-> <<a1, a2>>]>>,
            <<[name |-> f, args |-> <<a1, a2>>], [name |-> g, args |-> <<a3>>]>>,
            <<[name |-> f, args |-> <<>>], [name |-> g, args |-> <<a1, a2>>]>>}]
MCStyles == [{"fragmentId", "argsId", "itemId", "ownId", "index", "itemArgs",
              "speaks", "calls"} -> BOOLEAN]
=============================================================================
