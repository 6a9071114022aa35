------------------------- MODULE MCKnowledgeIndexer -------------------------
(* One run over every small document under every setting, two runs over    *)
(* two files that change twice, three over a file that changes once.       *)
EXTENDS KnowledgeIndexer

CONSTANTS p, q

MCPaths == <<p, q>>
Holding(t, ps) == [text |-> t, paragraphs |-> ps]
Dir(m, n) == p :> m @@ q :> n

OneDocument ==
  {[versions |-> <<Dir(Holding("new", ps), Holding("new", <<>>))>>,
    size |-> size, overlap |-> overlap, runs |-> 1] :
     ps \in {<<a>> : a \in 0..9} \cup [1..2 -> 1..6] \cup [1..3 -> 0..2],
     size \in {0, 2, 3, 6}, overlap \in {-1, 0, 1, 2, 6}}

Changing ==
  {[versions |-> <<Dir(Holding("old", <<5>>), Holding("old", old)),
                   Dir(Holding("new", <<2, 2>>), Holding("old", old)),
                   Dir(Holding("new", <<2, 2>>), Holding("new", <<3>>))>>,
    size |-> 3, overlap |-> 1, runs |-> 2] : old \in {<<>>, <<4>>}}

Overlapping ==
  {[versions |-> <<Dir(Holding("old", old), Holding("old", <<>>)),
                   Dir(Holding("new", <<2, 2>>), Holding("old", <<>>))>>,
    size |-> 3, overlap |-> 1, runs |-> 3] : old \in {<<1>>, <<7>>}}

MCCases == OneDocument \cup Changing \cup Overlapping
=============================================================================
