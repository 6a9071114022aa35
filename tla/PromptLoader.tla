---------------------------- MODULE PromptLoader ----------------------------
(***************************************************************************)
(* internal/prompt/loader.go: the system prompt is read from its file and  *)
(* kept until the file's modification time changes. Turns load it          *)
(* concurrently, each looking at the file, at the cache and at the file    *)
(* again in steps of their own, while somebody edits it. Modification      *)
(* times are only compared for equality, and every edit is taken to leave  *)
(* one of its own: the number of the state the file is in stands for it.   *)
(***************************************************************************)
EXTENDS Naturals, Sequences

CONSTANTS
  Callers,    \* turns that load the prompt
  Texts,      \* what the file may hold
  Blank,      \* "", a file without text and a cache without one
  Absent,     \* there is no file
  Failure,    \* Load returned an error
  MaxEdits    \* bound: edits of the file

VARIABLES
  past,       \* what the file held, its present state last
  content, modTime,  \* Loader.content, Loader.modTime
  pc,         \* where each caller is in Load
  stat,       \* the time stamp it saw
  data        \* the text it read or returns

loaderVars == <<past, content, modTime, pc, stat, data>>

ModTime == Len(past)
File == past[ModTime]
States == Texts \cup {Blank, Absent}
NoTime == 0

Init ==
  /\ past \in {<<s>> : s \in States}
  /\ content = Blank /\ modTime = NoTime
  /\ pc = [c \in Callers |-> "idle"]
  /\ stat = [c \in Callers |-> NoTime]
  /\ data = [c \in Callers |-> Failure]
-----------------------------------------------------------------------------
(* Half an edit is an edit: the file may be emptied and then filled. *)
Edit(s) ==
  /\ Len(past) <= MaxEdits
  /\ past' = Append(past, s)
  /\ UNCHANGED <<content, modTime, pc, stat, data>>

Goto(c, label, text) ==
  /\ pc' = [pc EXCEPT ![c] = label]
  /\ data' = [data EXCEPT ![c] = text]

Stat(c) ==
  /\ pc[c] = "idle"
  /\ stat' = [stat EXCEPT ![c] = ModTime]
  /\ Goto(c, IF File = Absent THEN "returned" ELSE "looking", Failure)
  /\ UNCHANGED <<past, content, modTime>>

(* Under the read lock. *)
Fresh(c) == content # Blank /\ modTime = stat[c]

Look(c) ==
  /\ pc[c] = "looking"
  /\ IF Fresh(c) THEN Goto(c, "returned", content) ELSE Goto(c, "reading", Failure)
  /\ UNCHANGED <<past, content, modTime, stat>>

ReadFile(c) ==
  /\ pc[c] = "reading"
  /\ IF File = Absent THEN Goto(c, "returned", Failure)
     ELSE Goto(c, "storing", File)
  /\ UNCHANGED <<past, content, modTime, stat>>

(* Mutant of Store: the text is kept under the time the file has by now. *)
StoreAsOfNow(c) ==
  /\ pc[c] = "storing"
  /\ content' = data[c]
  /\ modTime' = ModTime
  /\ Goto(c, "returned", data[c])
  /\ UNCHANGED <<past, stat>>

(* Under the write lock: the text just read, with the time looked at first. *)
Store(c) ==
  /\ pc[c] = "storing"
  /\ content' = data[c]
  /\ modTime' = stat[c]
  /\ Goto(c, "returned", data[c])
  /\ UNCHANGED <<past, stat>>

Return(c) ==
  /\ pc[c] = "returned"
  /\ Goto(c, "idle", Failure)
  /\ stat' = [stat EXCEPT ![c] = NoTime]
  /\ UNCHANGED <<past, content, modTime>>

Next ==
  \/ \E s \in States : Edit(s)
  \/ \E c \in Callers :
       Stat(c) \/ Look(c) \/ ReadFile(c) \/ Store(c) \/ Return(c)

Spec == Init /\ [][Next]_loaderVars
-----------------------------------------------------------------------------
(* The prompt a turn gets is one the file held at some time while it was   *)
(* being loaded, although the time stamp and the text that are kept        *)
(* together may be of different states of the file.                        *)
LoadIsRecent ==
  \A c \in Callers :
    pc[c] = "returned" /\ data[c] # Failure =>
      \E n \in stat[c]..ModTime : past[n] = data[c]
=============================================================================
