------------------------------- MODULE Config -------------------------------
(***************************************************************************)
(* internal/config/config.go: where a setting's value comes from. The .env *)
(* file is read line by line into the process environment, which wins over *)
(* it; Load then reads the environment with a default for what is empty;   *)
(* the bot trims what it gets and treats a blank setting as switched off.  *)
(***************************************************************************)
EXTENDS Naturals, Sequences

CONSTANTS
  Names,     \* the settings considered: STREAM_PLACEHOLDER, an emoji, ...
  OldName,   \* for each, the older name Load falls back to, or the same name
  MaxLines   \* bound: lines of the .env file

(* A value is empty (or unset: os.Getenv tells no difference), blank       *)
(* (spaces only), or a text known by where it comes from.                  *)
Empty == "empty"
Spaces == "spaces"
Default == "default"
EnvValues == {Empty, Spaces, "exported"}

(* A line of .env assigns a raw value to a name; other lines are skipped.  *)
Raws == {Empty, Spaces, "quoted empty", "quoted spaces", "line 1", "line 2"}
Lines == [name : Names, raw : Raws]

VARIABLES
  exported,  \* the environment the process was started with
  file,      \* the assignments in .env
  line,      \* how many of them LoadDotEnv has handled
  env,       \* the process environment
  loaded     \* the values in Config; empty before Load returns

vars == <<exported, file, line, env, loaded>>

Init ==
  /\ exported \in [Names -> EnvValues]
  /\ file \in UNION {[1..n -> Lines] : n \in 0..MaxLines}
  /\ line = 0
  /\ env = exported
  /\ loaded = [n \in Names |-> Empty]
-----------------------------------------------------------------------------
(* Spaces around a value go, then the quotes around it. *)
Unquoted(raw) ==
  CASE raw \in {Empty, Spaces, "quoted empty"} -> Empty
    [] raw = "quoted spaces" -> Spaces
    [] OTHER -> raw

(* Mutant of ReadLine: the file overrides the environment. *)
ReadLineOver ==
  /\ line < Len(file)
  /\ line' = line + 1
  /\ env' = [env EXCEPT ![file[line'].name] = Unquoted(file[line'].raw)]
  /\ UNCHANGED <<exported, file, loaded>>

(* One turn of LoadDotEnv's loop. *)
ReadLine ==
  /\ line < Len(file)
  /\ line' = line + 1
  /\ LET l == file[line']
     IN  env' = IF env[l.name] = Empty THEN [env EXCEPT ![l.name] = Unquoted(l.raw)]
                ELSE env
  /\ UNCHANGED <<exported, file, loaded>>

Getenv(name, fallback) == IF env[name] # Empty THEN env[name] ELSE fallback

(* A missing .env is the empty file: its error is dropped. *)
Load ==
  /\ line = Len(file) /\ \A n \in Names : loaded[n] = Empty
  /\ loaded' = [n \in Names |-> Getenv(n, Getenv(OldName[n], Default))]
  /\ UNCHANGED <<exported, file, line, env>>

Next == ReadLine \/ Load

Spec == Init /\ [][Next]_vars

-----------------------------------------------------------------------------
Done == \E n \in Names : loaded[n] # Empty

(* What the file says of a name: its first assignment that is not empty.   *)
Telling(n) == {i \in DOMAIN file : file[i].name = n /\ Unquoted(file[i].raw) # Empty}

FileSays(n) ==
  IF Telling(n) = {} THEN Empty
  ELSE Unquoted(file[CHOOSE i \in Telling(n) : \A k \in Telling(n) : i <= k].raw)

Says(n) == IF exported[n] # Empty THEN exported[n] ELSE FileSays(n)

(* The file leaves a name empty, and nothing else gives it a value. *)
LeftEmpty(n) == Says(n) = Empty /\ \E i \in DOMAIN file : file[i].name = n

(* Load reads each setting as its sources rank: the exported environment,  *)
(* the first telling line of .env, the same two for the older name, the    *)
(* default, whatever order the lines are in and however often one repeats. *)
(* What becomes of a name that .env leaves empty is not said here.         *)
SourcesRank ==
  Done => \A n \in Names :
    LET old == OldName[n]
    IN  /\ Says(n) # Empty => loaded[n] = Says(n)
        /\ Says(n) = Empty /\ ~LeftEmpty(n) =>
             /\ Says(old) # Empty => loaded[n] = Says(old)
             /\ Says(old) = Empty /\ ~LeftEmpty(old) => loaded[n] = Default

(* .env.example of the emojis and of STREAM_PLACEHOLDER: a name left empty *)
(* is switched off, so that Load does not fill in the default.             *)
EmptySwitchesOff ==
  Done => \A n \in Names :
    LeftEmpty(n) /\ Says(OldName[n]) = Empty => loaded[n] # Default
=============================================================================
