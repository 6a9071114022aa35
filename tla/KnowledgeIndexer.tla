-------------------------- MODULE KnowledgeIndexer --------------------------
(***************************************************************************)
(* internal/knowledge: runs of the indexer command bring the table of      *)
(* chunks up to date with the files of the knowledge directory. Nothing    *)
(* keeps two runs apart or the files still, and a run may fail anywhere.   *)
(***************************************************************************)
EXTENDS Chunker

CONSTANTS
  Paths,  \* the files, in the order they are walked
  Cases   \* [versions : Seq of what the files hold, size, overlap : settings,
          \*  runs : Nat], a file holding [text, paragraphs]

(* A walk of the directory meets each file once. *)
ASSUME PathsAssumption ==
  /\ Paths \in Seq(ToSet(Paths))
  /\ \A f, g \in DOMAIN Paths : Paths[f] = Paths[g] => f = g

ASSUME CasesAssumption ==
  \A c \in Cases :
    /\ c.runs \in Nat /\ c.size \in Int /\ c.overlap \in Int
    /\ Len(c.versions) \in Nat \ {0} /\ DOMAIN c.versions = 1..Len(c.versions)
    /\ \A n \in DOMAIN c.versions : \A p \in ToSet(Paths) :
         c.versions[n][p].paragraphs \in Seq(Nat)

VARIABLES
  case,     \* the settings and the edits to come
  version,  \* which version the files are in
  table,    \* knowledge_chunks: content by path and chunk index
  pc, read, \* by run: where it is, what the files it read held
  done,     \* by run: how many of its chunks it has written
  stale,    \* by run: the keys it still has to delete
  calm,     \* history: the runs that met neither an edit nor a run with
            \* other files
  indexed   \* history: such a run has ended since the last edit

vars == <<case, version, table, pc, read, done, stale, calm, indexed>>

Runs == 1..case.runs
Files == case.versions[version]
Active == {r \in Runs : pc[r] \notin {"new", "ended"}}

Init ==
  /\ case \in Cases
  /\ version = 1
  /\ table = <<>>
  /\ pc = [r \in Runs |-> "new"]
  /\ read = [r \in Runs |-> <<>>]
  /\ done = [r \in Runs |-> 0]
  /\ stale = [r \in Runs |-> {}]
  /\ calm = {}
  /\ indexed = FALSE

(* ChunkDocuments: the chunks of one file after those of another. *)
DocumentChunks(f, content, size, overlap) ==
  LET parts == ChunkText(content.paragraphs, size, overlap)
  IN  [n \in DOMAIN parts |->
         [key |-> <<Paths[f], n - 1>>,
          row |-> [text |-> content.text, chunk |-> parts[n]]]]

ChunkDocuments(contents, size, overlap) ==
  LET chunks[f \in 0..Len(contents)] ==
        IF f = 0 THEN <<>>
        ELSE chunks[f - 1] \o DocumentChunks(f, contents[f], size, overlap)
  IN  chunks[Len(contents)]

Chunks(r) == ChunkDocuments(read[r], case.size, case.overlap)
Keys(r) == {c.key : c \in ToSet(Chunks(r))}

(* A run whose every file holds what it held when it was read. *)
UpToDate(r) == \A f \in DOMAIN read[r] : read[r][f] = Files[Paths[f]]
-----------------------------------------------------------------------------
(* The files change under the runs. *)
Edit ==
  /\ version < Len(case.versions)
  /\ version' = version + 1
  /\ calm' = {}
  /\ indexed' = FALSE
  /\ UNCHANGED <<case, table, pc, read, done, stale>>

(* Index makes sure of the table; LoadDocuments reads a file at a time. *)
Start(r) ==
  /\ pc[r] = "new"
  /\ pc' = [pc EXCEPT ![r] = IF Paths = <<>> THEN "writing" ELSE "reading"]
  /\ calm' = IF \A s \in Active : UpToDate(s) THEN calm \cup {r} ELSE calm
  /\ UNCHANGED <<case, version, table, read, done, stale, indexed>>

ReadFile(r) ==
  /\ pc[r] = "reading"
  /\ read' = [read EXCEPT ![r] = Append(@, Files[Paths[Len(@) + 1]])]
  /\ pc' = [pc EXCEPT ![r] = IF Len(read'[r]) = Len(Paths) THEN "writing" ELSE @]
  /\ UNCHANGED <<case, version, table, done, stale, calm, indexed>>

(* Mutant of UpsertChunk: a chunk that is there already is left alone. *)
InsertChunk(r) ==
  /\ pc[r] = "writing" /\ done[r] < Len(Chunks(r))
  /\ done' = [done EXCEPT ![r] = @ + 1]
  /\ LET c == Chunks(r)[done[r] + 1]
     IN  table' = IF c.key \in DOMAIN table THEN table
                  ELSE [k \in DOMAIN table \cup {c.key} |->
                          IF k = c.key THEN c.row ELSE table[k]]
  /\ UNCHANGED <<case, version, pc, read, stale, calm, indexed>>

(* Embed, UpsertChunk *)
UpsertChunk(r) ==
  /\ pc[r] = "writing" /\ done[r] < Len(Chunks(r))
  /\ done' = [done EXCEPT ![r] = @ + 1]
  /\ LET c == Chunks(r)[done[r] + 1]
     IN  table' = [k \in DOMAIN table \cup {c.key} |->
                     IF k = c.key THEN c.row ELSE table[k]]
  /\ UNCHANGED <<case, version, pc, read, stale, calm, indexed>>

(* Mutant of ListStale: the run makes room before it writes. *)
ListEverything(r) ==
  /\ pc[r] = "writing" /\ done[r] \in {0, Len(Chunks(r))}
  /\ stale' = [stale EXCEPT ![r] = IF done[r] = 0 THEN DOMAIN table
                                   ELSE DOMAIN table \ Keys(r)]
  /\ pc' = [pc EXCEPT ![r] = "deleting"]
  /\ UNCHANGED <<case, version, table, read, done, calm, indexed>>

(* DeleteMissing: one SELECT finds the stale rows ... *)
ListStale(r) ==
  /\ pc[r] = "writing" /\ done[r] = Len(Chunks(r))
  /\ stale' = [stale EXCEPT ![r] = DOMAIN table \ Keys(r)]
  /\ pc' = [pc EXCEPT ![r] = "deleting"]
  /\ UNCHANGED <<case, version, table, read, done, calm, indexed>>

(* ... and each is deleted on its own, whatever it holds by then. *)
DeleteStale(r, key) ==
  /\ pc[r] = "deleting" /\ key \in stale[r]
  /\ stale' = [stale EXCEPT ![r] = @ \ {key}]
  /\ table' = [k \in DOMAIN table \ {key} |-> table[k]]
  /\ UNCHANGED <<case, version, pc, read, done, calm, indexed>>

(* The process ends, its memory with it. *)
Exit(r) ==
  /\ pc' = [pc EXCEPT ![r] = "ended"]
  /\ read' = [read EXCEPT ![r] = <<>>]
  /\ done' = [done EXCEPT ![r] = 0]
  /\ stale' = [stale EXCEPT ![r] = {}]
  /\ calm' = calm \ {r}
  /\ UNCHANGED <<case, version, table>>

Finish(r) ==
  /\ pc[r] = "deleting" /\ stale[r] = {}
  /\ indexed' = (indexed \/ r \in calm)
  /\ Exit(r)

(* The directory, the embedder or the database fails, or the process ends. *)
Fail(r) ==
  /\ r \in Active
  /\ Exit(r)
  /\ UNCHANGED indexed

Next ==
  \/ Edit
  \/ \E r \in Runs :
       \/ Start(r) \/ ReadFile(r) \/ UpsertChunk(r) \/ ListStale(r)
       \/ \E key \in stale[r] : DeleteStale(r, key)
       \/ Finish(r) \/ Fail(r)

Spec == Init /\ [][Next]_vars
-----------------------------------------------------------------------------
Rows(p) == {key \in DOMAIN table : key[1] = p}
Spans(p) == UNION {ToSet(table[key].chunk) : key \in Rows(p)}

(* Once a run has brought the table up to date it holds the whole text of  *)
(* every file and nothing else, and no repeated run, not even one that     *)
(* fails or overlaps another, takes any of it away while the files rest.   *)
IndexIsCurrent ==
  indexed => \A p \in ToSet(Paths) :
    /\ \A key \in Rows(p) : table[key].text = Files[p].text
    /\ \A i \in DOMAIN Files[p].paragraphs : \A n \in 1..Files[p].paragraphs[i] :
         \E span \in Spans(p) : span.paragraph = i /\ n \in span.from..span.to

(* No row is longer than the size asked for. *)
RowsFit ==
  \A key \in DOMAIN table : ChunkLength(table[key].chunk) <= ChunkSize(case.size)

(* The windows of a long paragraph share the overlap asked for, no more,   *)
(* and none only repeats its neighbour.                                    *)
WindowsOverlap ==
  indexed => \A p \in ToSet(Paths) : \A span \in Spans(p) :
    span.from > 1 =>
      \E before \in Spans(p) :
        /\ before.paragraph = span.paragraph /\ before.from < span.from
        /\ before.to - span.from + 1 = ChunkOverlap(case.size, case.overlap)
        /\ before.to < span.to

(* A file that always has some text is found at any time from its first    *)
(* row on, whatever runs are under way or have failed.                     *)
Lasting == {p \in ToSet(Paths) : \A n \in DOMAIN case.versions :
              \E i \in DOMAIN case.versions[n][p].paragraphs :
                case.versions[n][p].paragraphs[i] > 0}
StaysFindable ==
  [][\A p \in Lasting : Rows(p) # {} => Rows(p)' # {}]_vars
=============================================================================
