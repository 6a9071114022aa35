--------------------------- MODULE AssistantProofs ---------------------------
(* Proofs about Assistant, for any callers, texts, skills, responses and   *)
(* manners of a server, and any bounds.                                    *)
EXTENDS Assistant, SequenceTheorems, FiniteSetTheorems, WellFoundedInduction, TLAPS

(* A name that was exported keeps its value; any other has, once its first *)
(* telling line was read, what that says, and is empty until then.         *)
ReadSoFar(n) ==
  IF exported[n] # C!Empty THEN env[n] = exported[n]
  ELSE \/ \E i \in C!Telling(n) :
            /\ i <= line /\ \A k \in C!Telling(n) : i <= k
            /\ env[n] = C!Unquoted(file[i].raw)
       \/ env[n] = C!Empty /\ \A i \in C!Telling(n) : line < i

Loaded ==
  loaded = [n \in Names |-> C!Getenv(n, C!Getenv(OldName[n], C!Default))]

ConfigInv ==
  /\ file \in [1..Len(file) -> C!Lines] /\ Len(file) \in Nat
  /\ line \in 0..Len(file)
  /\ env = [n \in Names |-> env[n]]
  /\ \A n \in Names : ReadSoFar(n)
  /\ (\A n \in Names : loaded[n] = C!Empty) \/ (line = Len(file) /\ Loaded)

LEMMA ConfigInit == C!Init => ConfigInv
<1> SUFFICES ASSUME C!Init PROVE ConfigInv
  OBVIOUS
<1>1. PICK n \in 0..MaxLines : file \in [1..n -> C!Lines]
  BY DEF C!Init
<1>2. n \in Nat /\ Len(file) = n /\ file \in [1..Len(file) -> C!Lines]
  BY <1>1
<1>3. line = 0 /\ env = exported /\ exported \in [Names -> C!EnvValues]
  BY DEF C!Init
<1>4. ASSUME NEW m \in Names PROVE ReadSoFar(m)
  BY <1>2, <1>3 DEF ReadSoFar, C!Telling
<1>5. \A m \in Names : loaded[m] = C!Empty
  BY DEF C!Init
<1> QED
  BY <1>2, <1>3, <1>4, <1>5 DEF ConfigInv

(* The file is read: one line more, and only its own name may change.      *)
LEMMA ConfigLine ==
  ASSUME ConfigInv, ~Configured, C!ReadLine
  PROVE  ConfigInv'
<1> DEFINE now == line + 1
           l == file[now]
<1>1. /\ now \in 1..Len(file) /\ line' = now
      /\ exported' = exported /\ file' = file /\ loaded' = loaded
      /\ l \in C!Lines
  BY DEF ConfigInv, C!ReadLine
<1>2. env' = IF env[l.name] = C!Empty
             THEN [env EXCEPT ![l.name] = C!Unquoted(l.raw)] ELSE env
  BY <1>1 DEF C!ReadLine
<1>3. line \in Nat /\ now = line + 1 /\ l.name \in Names
  BY <1>1 DEF ConfigInv, C!Lines
<1>4. env = [n \in Names |-> env[n]]
  BY DEF ConfigInv
<1>5. ASSUME NEW n \in Names PROVE ReadSoFar(n)'
  <2>1. C!Telling(n)' = C!Telling(n) /\ C!Telling(n) \subseteq 1..Len(file)
    BY <1>1 DEF C!Telling, ConfigInv
  <2>2. ReadSoFar(n)
    BY DEF ConfigInv
  <2>3. CASE env[n] # C!Empty
    <3>1. env'[n] = env[n]
      BY <1>2, <1>3, <1>4, <2>3
    <3> QED
      BY <1>1, <1>3, <2>1, <2>2, <2>3, <3>1 DEF ReadSoFar
  <2>4. CASE env[n] = C!Empty
    <3>1. exported[n] = C!Empty /\ \A i \in C!Telling(n) : line < i
      BY <2>2, <2>4 DEF ReadSoFar, C!Telling
    <3>2. \A i \in C!Telling(n) : now <= i
      BY <1>3, <2>1, <3>1
    <3>3. CASE now \in C!Telling(n)
      <4>1. l.name = n
        BY <3>3 DEF C!Telling
      <4>2. env'[n] = C!Unquoted(l.raw)
        BY <1>2, <1>3, <1>4, <2>4, <4>1
      <4> QED
        BY <1>1, <1>3, <2>1, <3>1, <3>2, <3>3, <4>2 DEF ReadSoFar
    <3>4. CASE now \notin C!Telling(n)
      <4>1. now \in DOMAIN file
        BY <1>1 DEF ConfigInv
      <4>2. l.name = n => C!Unquoted(l.raw) = C!Empty
        BY <3>4, <4>1 DEF C!Telling
      <4>3. env'[n] = C!Empty
        BY <1>2, <1>3, <1>4, <2>4, <4>2
      <4>4. \A i \in C!Telling(n) : now < i
        BY <1>3, <2>1, <3>2, <3>4
      <4> QED
        BY <1>1, <2>1, <3>1, <4>3, <4>4 DEF ReadSoFar
    <3> QED
      BY <3>3, <3>4
  <2> QED
    BY <2>3, <2>4
<1>6. env' = [n \in Names |-> env'[n]]
  BY <1>2, <1>4
<1>7. \A n \in Names : loaded[n] = C!Empty
  BY <1>1, <1>3 DEF ConfigInv
<1> QED
  BY <1>1, <1>5, <1>6, <1>7 DEF ConfigInv

LEMMA ConfigLoad ==
  ASSUME ConfigInv, C!Load
  PROVE  ConfigInv'
<1>1. UNCHANGED <<exported, file, line, env>>
  BY DEF C!Load
<1>2. line = Len(file) /\ Loaded'
  BY <1>1 DEF C!Load, Loaded, C!Getenv
<1> QED
  BY <1>1, <1>2 DEF ConfigInv, ReadSoFar, C!Telling

LEMMA ConfigStep ==
  ASSUME ConfigInv, Configure \/ UNCHANGED configVars
  PROVE  ConfigInv'
<1>1. CASE Configure
  BY <1>1, ConfigLine, ConfigLoad DEF Configure
<1>2. CASE UNCHANGED configVars
  BY <1>2 DEF configVars, ConfigInv, ReadSoFar, Loaded, C!Telling, C!Getenv
<1> QED
  BY <1>1, <1>2

(* When every line was read, the environment is what the sources say.      *)
LEMMA AllRead ==
  ASSUME ConfigInv, line = Len(file), NEW n \in Names
  PROVE  env[n] = C!Says(n)
<1>1. ReadSoFar(n) /\ C!Telling(n) \subseteq 1..Len(file) /\ Len(file) \in Nat
  BY DEF ConfigInv, C!Telling
<1>2. CASE exported[n] # C!Empty
  BY <1>1, <1>2 DEF ReadSoFar, C!Says
<1>3. CASE exported[n] = C!Empty /\ C!Telling(n) = {}
  BY <1>1, <1>3 DEF ReadSoFar, C!Says, C!FileSays
<1>4. CASE exported[n] = C!Empty /\ C!Telling(n) # {}
  <2> DEFINE Is(i) == \A k \in C!Telling(n) : i <= k
             first == CHOOSE i \in C!Telling(n) : Is(i)
  <2>1. PICK i \in C!Telling(n) : Is(i) /\ env[n] = C!Unquoted(file[i].raw)
    BY <1>1, <1>4 DEF ReadSoFar
  <2>2. first \in C!Telling(n) /\ Is(first)
    BY <2>1
  <2>3. first = i
    BY <1>1, <2>1, <2>2
  <2>4. C!Says(n) = C!Unquoted(file[first].raw)
    BY <1>4 DEF C!Says, C!FileSays
  <2> QED
    BY <2>1, <2>3, <2>4
<1> QED
  BY <1>2, <1>3, <1>4

LEMMA RankHolds == ConfigInv => SourcesRank
<1> SUFFICES ASSUME ConfigInv, C!Done, NEW n \in Names
             PROVE  /\ C!Says(n) # C!Empty => loaded[n] = C!Says(n)
                    /\ C!Says(n) = C!Empty =>
                         /\ C!Says(OldName[n]) # C!Empty => loaded[n] = C!Says(OldName[n])
                         /\ C!Says(OldName[n]) = C!Empty => loaded[n] = C!Default
  BY DEF SourcesRank, C!SourcesRank
<1>1. line = Len(file) /\ Loaded
  BY DEF ConfigInv, C!Done
<1>2. OldName[n] \in Names
  BY OldNameAssumption
<1>3. env[n] = C!Says(n) /\ env[OldName[n]] = C!Says(OldName[n])
  BY <1>1, <1>2, AllRead
<1>4. loaded[n] = C!Getenv(n, C!Getenv(OldName[n], C!Default))
  BY <1>1 DEF Loaded
<1> QED
  BY <1>3, <1>4 DEF C!Getenv

-----------------------------------------------------------------------------
(* The file held the text when, or after, it was in its state n.           *)
HeldSince(n, text, p) == \E k \in 1..Len(p) : n <= k /\ p[k] = text

(* What a caller found, and what is kept, the file held once, no earlier   *)
(* than the time stamp that goes with it says.                             *)
LoaderInv ==
  /\ past \in Seq(P!States) /\ past # <<>>
  /\ modTime \in 0..Len(past)
  /\ content # Blank => HeldSince(modTime, content, past)
  /\ pc \in [Callers -> {"idle", "looking", "reading", "storing", "returned"}]
  /\ stat \in [Callers -> 0..Len(past)]
  /\ DOMAIN data = Callers
  /\ \A c \in Callers :
       pc[c] = "storing" \/ (pc[c] = "returned" /\ data[c] # Failure) =>
         HeldSince(stat[c], data[c], past)

LEMMA LoaderInit == P!Init => LoaderInv
<1> SUFFICES ASSUME P!Init PROVE LoaderInv
  OBVIOUS
<1>1. PICK s \in P!States : past = <<s>>
  BY DEF P!Init
<1>2. past \in Seq(P!States) /\ past # <<>> /\ Len(past) = 1
  BY <1>1
<1> QED
  BY <1>2 DEF P!Init, P!NoTime, LoaderInv

(* An edit takes nothing from what the file held. *)
LEMMA LoaderEdit ==
  ASSUME LoaderInv, NEW s \in P!States, P!Edit(s)
  PROVE  LoaderInv'
<1>1. past \in Seq(P!States) /\ Len(past) \in Nat /\ past' = Append(past, s)
  BY LenProperties DEF LoaderInv, P!Edit
<1>2. /\ past' \in Seq(P!States) /\ past' # <<>> /\ Len(past') = Len(past) + 1
      /\ \A k \in 1..Len(past) : past'[k] = past[k]
  BY <1>1, AppendProperties
<1>3. \A k \in 1..Len(past) : k \in 1..Len(past') /\ past'[k] = past[k]
  BY <1>1, <1>2
<1>4. ASSUME NEW n, NEW text, HeldSince(n, text, past)
      PROVE  HeldSince(n, text, past')
  BY <1>3, <1>4 DEF HeldSince
<1>5. content' = content /\ modTime' = modTime /\ pc' = pc /\ stat' = stat /\ data' = data
  BY DEF P!Edit
<1>6. modTime \in 0..Len(past') /\ stat \in [Callers -> 0..Len(past')]
  BY <1>1, <1>2 DEF LoaderInv
<1> QED
  BY <1>2, <1>4, <1>5, <1>6 DEF LoaderInv

(* A caller's steps. *)
LEMMA LoaderStep ==
  ASSUME LoaderInv, NEW c \in Callers,
         P!Stat(c) \/ P!Look(c) \/ P!ReadFile(c) \/ P!Store(c) \/ P!Return(c)
  PROVE  LoaderInv'
<1>0. Len(past) \in Nat /\ Len(past) \in 1..Len(past)
  BY LenProperties, EmptySeq DEF LoaderInv
<1>1. past' = past
  BY DEF P!Stat, P!Look, P!ReadFile, P!Store, P!Return
<1>2. HeldSince(Len(past), P!File, past)
  BY <1>0 DEF HeldSince, P!File, P!ModTime
<1>3. ASSUME NEW n \in 0..Len(past) PROVE HeldSince(n, P!File, past)
  BY <1>0, <1>3 DEF HeldSince, P!File, P!ModTime
<1> USE <1>0, <1>1 DEF LoaderInv, P!Goto
<1>4. CASE P!Stat(c)
  BY <1>4 DEF P!Stat, P!ModTime
<1>5. CASE P!Look(c)
  BY <1>5 DEF P!Look, P!Fresh
<1>6. CASE P!ReadFile(c)
  BY <1>6, <1>3 DEF P!ReadFile
<1>7. CASE P!Store(c)
  BY <1>7 DEF P!Store
<1>8. CASE P!Return(c)
  BY <1>8 DEF P!Return, P!NoTime
<1> QED
  BY <1>4, <1>5, <1>6, <1>7, <1>8

-----------------------------------------------------------------------------
(* A run that has not left the order of its workflow has done the steps    *)
(* before the current one, none of them an end, and no more than allowed.  *)
InOrder ==
  /\ executed = current - 1 /\ executed <= S!Limit(skill)
  /\ current <= Len(skill.workflow) + 1
  /\ \A m \in 1..current - 1 : skill.workflow[m].type # "end"

RunInv ==
  /\ run = "idle" => current = 1 /\ executed = 0
  /\ run = "running" =>
       /\ skill \in Skills
       /\ ~jumped => current \in Nat \ {0} /\ InOrder
  /\ S!RefusedWhenTooLong

LEMMA RunInit == S!Init => RunInv
  BY DEF S!Init, RunInv, S!RefusedWhenTooLong

LEMMA LimitIsPositive == ASSUME NEW s \in Skills PROVE S!Limit(s) \in Nat \ {0}
  BY SkillsAssumption, LimitsAssumption DEF S!Limit

LEMMA RunBegins ==
  ASSUME RunInv, NEW s \in Skills, S!Refuse(s) \/ S!Begin(s)
  PROVE  RunInv'
<1>1. S!Limit(s) \in Nat \ {0} /\ Len(s.workflow) \in Nat
  BY LimitIsPositive, SkillsAssumption
<1>2. CASE S!Refuse(s)
  BY <1>2 DEF S!Refuse, RunInv, S!RefusedWhenTooLong
<1>3. CASE S!Begin(s)
  <2>1. current' = 1 /\ executed' = 0 /\ skill' = s /\ run' = "running"
    BY <1>3 DEF S!Begin, RunInv
  <2>2. InOrder'
    BY <1>1, <2>1 DEF InOrder
  <2> QED
    BY <2>1, <2>2 DEF RunInv, S!RefusedWhenTooLong
<1> QED
  BY <1>2, <1>3

LEMMA WalkStep == RunInv /\ S!Walk => RunInv'
<1> SUFFICES ASSUME RunInv, S!Walk PROVE RunInv'
  OBVIOUS
<1> DEFINE w == skill.workflow
           max == S!Limit(skill)
<1>0. run = "running" /\ skill \in Skills /\ (~jumped => current \in Nat \ {0} /\ InOrder)
  BY DEF RunInv, S!Walk, S!GoOn, S!End, S!StepFails, S!Leave, S!Jump, S!Running
<1>1. max \in Nat \ {0} /\ Len(w) \in Nat /\ DOMAIN w = 1..Len(w)
  BY <1>0, LimitIsPositive, SkillsAssumption
<1>2. CASE S!GoOn
  <2>1. ~jumped => InOrder'
    BY <1>0, <1>1, <1>2
       DEF S!GoOn, S!Running, S!Workflow, S!Step, S!Output, InOrder
  <2> QED
    BY <1>0, <1>2, <2>1 DEF S!GoOn, RunInv, S!RefusedWhenTooLong
<1>3. CASE S!End
  <2>1. ASSUME ~jumped, NEW n \in S!Straight(w) PROVE n <= max
    <3>1. current \in 1..max /\ w[current].type = "end"
      BY <1>0, <1>1, <1>3, <2>1
         DEF S!End, S!Running, S!Workflow, S!Step, InOrder
    <3>2. n <= current
      BY <1>1, <2>1, <3>1 DEF S!Straight
    <3> QED
      BY <1>1, <2>1, <3>1, <3>2 DEF S!Straight
  <2>2. run' = "ok" /\ skill' = skill /\ jumped' = jumped
    BY <1>3 DEF S!End
  <2>3. ASSUME ~jumped PROVE ~ \E n \in S!Straight(w) : n > max
    BY <1>1, <2>1, <2>3 DEF S!Straight
  <2> QED
    BY <2>2, <2>3 DEF RunInv, S!RefusedWhenTooLong, S!Workflow
<1>4. CASE S!StepFails
  BY <1>4 DEF S!StepFails, RunInv, S!RefusedWhenTooLong
<1>5. CASE S!Leave
  <2>1. /\ run' = IF current <= Len(w) THEN "exceeded" ELSE "ok"
        /\ skill' = skill /\ jumped' = jumped
        /\ ~ (executed < max /\ current <= Len(w))
    BY <1>0, <1>5 DEF S!Leave, S!Running, S!Workflow
  <2>2. ASSUME ~jumped, current <= Len(w) PROVE \E n \in S!Straight(w) : n > max
    <3>1. current \in S!Straight(w) /\ current > max
      BY <1>0, <1>1, <2>1, <2>2 DEF S!Straight, InOrder
    <3> QED
      BY <3>1
  <2>3. ASSUME ~jumped, ~(current <= Len(w)) PROVE ~ \E n \in S!Straight(w) : n > max
    <3>1. Len(w) <= max
      BY <1>0, <1>1, <2>1, <2>3 DEF InOrder
    <3> QED
      BY <1>1, <3>1 DEF S!Straight
  <2> QED
    BY <2>1, <2>2, <2>3 DEF RunInv, S!RefusedWhenTooLong, S!Workflow
<1>6. ASSUME NEW id \in S!Ids(S!Workflow) \cup S!Finishes \cup {Unknown}, S!Jump(id)
      PROVE  RunInv'
  <2>1. jumped' /\ run' # "idle" /\ skill' = skill
    BY <1>0, <1>6 DEF S!Jump
  <2> QED
    BY <1>0, <2>1 DEF RunInv, S!RefusedWhenTooLong
<1> QED
  BY <1>2, <1>3, <1>4, <1>5, <1>6 DEF S!Walk

-----------------------------------------------------------------------------
(* Induction over the naturals up to a bound, and over a loop.             *)
LEMMA LeastElement ==
  ASSUME NEW T \in SUBSET Nat, T # {}
  PROVE  \E n \in T : \A k \in T : n <= k
<1> DEFINE R == {ss \in Nat \X Nat : ss[1] < ss[2]}
<1>1. IsWellFoundedOn(R, Nat)
  BY NatLessThanWellFounded DEF OpToRel
<1>2. ASSUME NEW n \in Nat, NEW k \in Nat, <<k, n>> \notin R PROVE n <= k
  <2>1. ~ (k < n)
    BY <1>2
  <2> QED
    BY <2>1
<1> HIDE DEF R
<1>3. \E n \in T : \A k \in T : <<k, n>> \notin R
  BY <1>1, WFMin
<1> QED
  BY <1>2, <1>3

LEMMA InductionUpTo ==
  ASSUME NEW m \in Nat, NEW G, 0 \in G, \A n \in 1..m : n - 1 \in G => n \in G
  PROVE  0..m \subseteq G
<1> DEFINE T == {n \in 0..m : n \notin G}
<1>1. SUFFICES ASSUME T # {} PROVE FALSE
  OBVIOUS
<1>2. T \in SUBSET Nat
  OBVIOUS
<1>3. PICK n \in T : \A k \in T : n <= k
  BY <1>1, <1>2, LeastElement
<1>4. n \in 1..m /\ n - 1 \in 0..m
  BY <1>3
<1>5. n - 1 \in G
  BY <1>3, <1>4
<1> QED
  BY <1>3, <1>4, <1>5

-----------------------------------------------------------------------------
(* What is kept of an order.                                               *)
KeptStep(f, order, keys, n) ==
  IF n = 0 THEN <<>>
  ELSE IF order[n] \in keys THEN Append(f[n - 1], order[n]) ELSE f[n - 1]

LEMMA KeptExists ==
  ASSUME NEW m \in Nat, NEW order, NEW keys
  PROVE  \E f : f = [n \in 0..m |-> KeptStep(f, order, keys, n)]
<1> DEFINE Is(f, n) == f = [i \in 0..n |-> KeptStep(f, order, keys, i)]
           G == {n \in 0..m : \E f : Is(f, n)}
<1>1. 0 \in G
  <2> DEFINE f == [i \in 0..0 |-> <<>>]
  <2>1. f = [i \in 0..0 |-> KeptStep(f, order, keys, i)]
    BY DEF KeptStep
  <2> QED
    BY <2>1
<1>2. ASSUME NEW n \in 1..m, n - 1 \in G PROVE n \in G
  <2>1. PICK f : Is(f, n - 1)
    BY <1>2
  <2> DEFINE g == [i \in 0..n |-> KeptStep(f, order, keys, i)]
  <2>2. \A i \in 0..n - 1 : g[i] = f[i]
    BY <2>1
  <2>3. ASSUME NEW i \in 0..n PROVE KeptStep(f, order, keys, i) = KeptStep(g, order, keys, i)
    <3>1. CASE i = 0
      BY <3>1 DEF KeptStep
    <3>2. CASE i # 0
      <4>1. i - 1 \in 0..n-1
        BY <3>2
      <4> QED
        BY <3>2, <4>1, <2>2 DEF KeptStep
    <3> QED
      BY <3>1, <3>2
  <2>4. g = [i \in 0..n |-> KeptStep(g, order, keys, i)]
    BY <2>3
  <2> HIDE DEF g
  <2> QED
    BY <2>4
<1> HIDE DEF G
<1>3. 0..m \subseteq G
  BY <1>1, <1>2, InductionUpTo
<1> QED
  BY <1>3 DEF G

Distinct(s) == \A n, k \in 1..Len(s) : s[n] = s[k] => n = k
Has(s, x, m) == \E n \in 1..m : s[n] = x

(* Of the first m elements those among the keys, each as often.            *)
KeptOf(s, order, keys, m) ==
  /\ s \in Seq(keys)
  /\ \A x : Has(s, x, Len(s)) <=> x \in keys /\ Has(order, x, m)
  /\ Distinct(order) => Distinct(s)

LEMMA KeptGrows ==
  ASSUME NEW T, NEW order \in Seq(T), NEW keys, NEW m \in 1..Len(order), NEW s,
         KeptOf(s, order, keys, m - 1)
  PROVE  KeptOf(IF order[m] \in keys THEN Append(s, order[m]) ELSE s, order, keys, m)
<1>0. Len(order) \in Nat /\ m \in Nat /\ m - 1 \in Nat /\ 1..m = 1..(m - 1) \cup {m}
  BY LenProperties
<1>1. \A x : Has(order, x, m) <=> Has(order, x, m - 1) \/ order[m] = x
  BY <1>0 DEF Has
<1>2. CASE order[m] \notin keys
  BY <1>1, <1>2 DEF KeptOf
<1>3. CASE order[m] \in keys
  <2> DEFINE t == Append(s, order[m])
  <2>1. /\ s \in Seq(keys) /\ Len(s) \in Nat /\ t \in Seq(keys) /\ Len(t) = Len(s) + 1
        /\ t[Len(t)] = order[m] /\ \A n \in 1..Len(s) : t[n] = s[n]
    BY <1>3, AppendProperties, LenProperties DEF KeptOf
  <2> HIDE DEF t
  <2>2. 1..Len(t) = 1..Len(s) \cup {Len(t)}
    BY <2>1
  <2>3. ASSUME NEW x PROVE Has(t, x, Len(t)) <=> x \in keys /\ Has(order, x, m)
    <3>1. Has(t, x, Len(t)) <=> Has(s, x, Len(s)) \/ x = order[m]
      BY <2>1, <2>2 DEF Has
    <3> QED
      BY <1>1, <1>3, <3>1 DEF KeptOf
  <2>4. ASSUME Distinct(order) PROVE Distinct(t)
    <3>1. Distinct(s)
      BY <2>4 DEF KeptOf
    <3>2. \A n \in 1..Len(s) : s[n] # order[m]
      <4>1. SUFFICES ASSUME NEW n \in 1..Len(s), s[n] = order[m] PROVE FALSE
        OBVIOUS
      <4>2. Has(s, order[m], Len(s))
        BY <4>1 DEF Has
      <4>3. Has(order, order[m], m - 1)
        BY <4>2 DEF KeptOf
      <4>4. PICK k \in 1..(m - 1) : order[k] = order[m]
        BY <4>3 DEF Has
      <4>5. k \in 1..Len(order) /\ k # m
        BY <1>0
      <4> QED
        BY <2>4, <4>4, <4>5 DEF Distinct
    <3> QED
      BY <2>1, <2>2, <3>1, <3>2 DEF Distinct
  <2> QED
    BY <1>3, <2>1, <2>3, <2>4 DEF KeptOf, t
<1> QED
  BY <1>2, <1>3

LEMMA KeptProperties ==
  ASSUME NEW T, NEW order \in Seq(T), NEW keys
  PROVE  KeptOf(M!Kept(order, keys), order, keys, Len(order))
<1> DEFINE F == CHOOSE f : f = [n \in 0..Len(order) |-> KeptStep(f, order, keys, n)]
           G == {n \in 0..Len(order) : KeptOf(F[n], order, keys, n)}
<1>0. Len(order) \in Nat
  BY LenProperties
<1>1. F = [n \in 0..Len(order) |-> KeptStep(F, order, keys, n)]
  BY <1>0, KeptExists
<1>2. M!Kept(order, keys) = F[Len(order)]
  BY DEF M!Kept, KeptStep
<1> HIDE DEF F
<1>3. 0 \in G
  <2>1. F[0] = <<>>
    BY <1>0, <1>1 DEF KeptStep
  <2>2. KeptOf(<<>>, order, keys, 0)
    BY DEF KeptOf, Has, Distinct
  <2> QED
    BY <1>0, <2>1, <2>2
<1>4. ASSUME NEW n \in 1..Len(order), n - 1 \in G PROVE n \in G
  <2>1. n \in 0..Len(order) /\ n # 0 /\ F[n] = KeptStep(F, order, keys, n)
    BY <1>0, <1>1
  <2>2. KeptOf(F[n - 1], order, keys, n - 1)
    BY <1>4
  <2>3. F[n] = IF order[n] \in keys THEN Append(F[n - 1], order[n]) ELSE F[n - 1]
    BY <2>1 DEF KeptStep
  <2>4. KeptOf(F[n], order, keys, n)
    BY <2>2, <2>3, KeptGrows
  <2> QED
    BY <2>1, <2>4
<1> HIDE DEF G
<1>5. 0..Len(order) \subseteq G
  BY <1>0, <1>3, <1>4, InductionUpTo
<1> QED
  BY <1>0, <1>2, <1>5 DEF G

(* Two enumerations of the same elements are as long.                      *)
Enumerates(s, n, X) ==
  /\ \A i, k \in 1..n : s[i] = s[k] => i = k
  /\ X = {s[i] : i \in 1..n}

LEMMA SameLength ==
  ASSUME NEW X, NEW s, NEW n \in Nat, Enumerates(s, n, X),
         NEW t, NEW m \in Nat, Enumerates(t, m, X)
  PROVE  n = m
<1> DEFINE f == [i \in 1..n |-> s[i]]
           g == [k \in 1..m |-> t[k]]
<1>2. f \in Bijection(1..n, X)
  BY DEF Bijection, Injection, Surjection, IsInjective, Enumerates
<1>3. g \in Bijection(1..m, X)
  BY DEF Bijection, Injection, Surjection, IsInjective, Enumerates
<1>4. /\ IsFiniteSet(1..n) /\ Cardinality(1..n) = n
      /\ IsFiniteSet(1..m) /\ Cardinality(1..m) = m
  BY FS_Interval
<1> HIDE DEF f, g
<1>5. Cardinality(X) = n
  BY <1>2, <1>4, FS_Bijection DEF ExistsBijection
<1>6. Cardinality(X) = m
  BY <1>3, <1>4, FS_Bijection DEF ExistsBijection
<1> QED
  BY <1>5, <1>6

-----------------------------------------------------------------------------
(* The accumulator: entries by key, and each key once in the order.        *)
IsAcc(a) ==
  /\ a = [items |-> a.items, order |-> a.order]
  /\ a.items = [k \in DOMAIN a.items |-> a.items[k]]
  /\ \A k \in DOMAIN a.items :
       a.items[k] = [id |-> a.items[k].id, name |-> a.items[k].name,
                     args |-> a.items[k].args]
  /\ a.order \in Seq(DOMAIN a.items)
  /\ Distinct(a.order)
  /\ \A k \in DOMAIN a.items : Has(a.order, k, Len(a.order))

LEMMA NoneYet == IsAcc([items |-> <<>>, order |-> <<>>])
  BY DEF IsAcc, Distinct, Has

LEMMA EnsureEffect ==
  ASSUME NEW a, IsAcc(a), NEW key
  PROVE  LET b == M!Ensure(a, key)
         IN  /\ IsAcc(b)
             /\ DOMAIN b.items = DOMAIN a.items \cup {key}
             /\ \A k \in DOMAIN a.items : b.items[k] = a.items[k]
             /\ key \notin DOMAIN a.items => b.items[key] = M!NoCall
<1> DEFINE b == M!Ensure(a, key)
<1>1. CASE key \in DOMAIN a.items
  BY <1>1 DEF M!Ensure
<1>2. CASE key \notin DOMAIN a.items
  <2>1. /\ b.items = [k \in DOMAIN a.items \cup {key} |->
                        IF k = key THEN M!NoCall ELSE a.items[k]]
        /\ b.order = Append(a.order, key)
        /\ b = [items |-> b.items, order |-> b.order]
    BY <1>2 DEF M!Ensure
  <2> HIDE DEF b
  <2>2. /\ DOMAIN b.items = DOMAIN a.items \cup {key}
        /\ \A k \in DOMAIN a.items : b.items[k] = a.items[k]
        /\ b.items[key] = M!NoCall
    BY <1>2, <2>1
  <2>3. /\ a.order \in Seq(DOMAIN b.items) /\ Len(a.order) \in Nat
        /\ \A n \in 1..Len(a.order) : a.order[n] \in DOMAIN a.items
    BY <2>2, LenProperties, ElementOfSeq DEF IsAcc
  <2>4. /\ b.order \in Seq(DOMAIN b.items) /\ Len(b.order) = Len(a.order) + 1
        /\ b.order[Len(b.order)] = key
        /\ \A n \in 1..Len(a.order) : b.order[n] = a.order[n]
    BY <2>1, <2>2, <2>3, AppendProperties
  <2>5. 1..Len(b.order) = 1..Len(a.order) \cup {Len(b.order)}
    BY <2>3, <2>4
  <2>6. Distinct(b.order)
    BY <1>2, <2>3, <2>4, <2>5 DEF Distinct, IsAcc
  <2>7. \A k \in DOMAIN b.items : Has(b.order, k, Len(b.order))
    BY <2>2, <2>4, <2>5 DEF Has, IsAcc
  <2>8. \A k \in DOMAIN b.items :
          b.items[k] = [id |-> b.items[k].id, name |-> b.items[k].name,
                        args |-> b.items[k].args]
    BY <2>2 DEF IsAcc, M!NoCall
  <2>9. b.items = [k \in DOMAIN b.items |-> b.items[k]]
    BY <2>1
  <2>10. IsAcc(b)
    BY <2>1, <2>4, <2>6, <2>7, <2>8, <2>9 DEF IsAcc
  <2> QED
    BY <1>2, <2>2, <2>10 DEF b
<1> QED
  BY <1>1, <1>2

(* An entry filled in. *)
Filled(a, key, c) ==
  [items |-> [k \in DOMAIN a.items |-> IF k = key THEN c ELSE a.items[k]],
   order |-> a.order]

LEMMA FilledEffect ==
  ASSUME NEW a, IsAcc(a), NEW key \in DOMAIN a.items, NEW c,
         c = [id |-> c.id, name |-> c.name, args |-> c.args]
  PROVE  LET b == Filled(a, key, c)
         IN  /\ IsAcc(b)
             /\ DOMAIN b.items = DOMAIN a.items
             /\ \A k \in DOMAIN a.items \ {key} : b.items[k] = a.items[k]
             /\ b.items[key] = c
             /\ [a EXCEPT !.items[key] = c] = b
<1> DEFINE b == Filled(a, key, c)
<1>1. /\ b.items = [k \in DOMAIN a.items |-> IF k = key THEN c ELSE a.items[k]]
      /\ b.order = a.order
      /\ b = [items |-> b.items, order |-> b.order]
  BY DEF Filled
<1>2. [a.items EXCEPT ![key] = c] = b.items
  BY <1>1 DEF IsAcc
<1>3. [a EXCEPT !.items[key] = c] = [items |-> [a.items EXCEPT ![key] = c], order |-> a.order]
  BY DEF IsAcc
<1> HIDE DEF b
<1>4. /\ DOMAIN b.items = DOMAIN a.items
      /\ \A k \in DOMAIN a.items \ {key} : b.items[k] = a.items[k]
      /\ b.items[key] = c
  BY <1>1
<1>5. \A k \in DOMAIN b.items :
        b.items[k] = [id |-> b.items[k].id, name |-> b.items[k].name,
                      args |-> b.items[k].args]
  BY <1>4 DEF IsAcc
<1>6. b.items = [k \in DOMAIN b.items |-> b.items[k]]
  BY <1>1
<1>7. IsAcc(b)
  BY <1>1, <1>4, <1>5, <1>6 DEF IsAcc
<1> QED
  BY <1>1, <1>2, <1>3, <1>4, <1>7 DEF b

(* One entry is made, filled or taken over from another key.               *)
At(a, key) == IF key \in DOMAIN a.items THEN a.items[key] ELSE M!NoCall

Changes(a, b, gone, key, c) ==
  /\ IsAcc(b)
  /\ DOMAIN b.items = (DOMAIN a.items \ gone) \cup {key}
  /\ \A k \in DOMAIN a.items \ (gone \cup {key}) : b.items[k] = a.items[k]
  /\ b.items[key] = c

LEMMA EntryForm ==
  ASSUME NEW a, IsAcc(a), NEW key
  PROVE  At(a, key) = [id |-> At(a, key).id, name |-> At(a, key).name, args |-> At(a, key).args]
  BY DEF At, IsAcc, M!NoCall

LEMMA FillEnsured ==
  ASSUME NEW a, IsAcc(a), NEW key, NEW c, c = [id |-> c.id, name |-> c.name, args |-> c.args]
  PROVE  /\ M!Ensure(a, key).items[key] = At(a, key)
         /\ Changes(a, [M!Ensure(a, key) EXCEPT !.items[key] = c], {}, key, c)
<1> DEFINE b == M!Ensure(a, key)
           d == [b EXCEPT !.items[key] = c]
<1>1. /\ IsAcc(b) /\ DOMAIN b.items = DOMAIN a.items \cup {key}
      /\ \A k \in DOMAIN a.items : b.items[k] = a.items[k]
      /\ key \notin DOMAIN a.items => b.items[key] = M!NoCall
  BY EnsureEffect
<1> HIDE DEF b
<1>2. /\ IsAcc(d) /\ DOMAIN d.items = DOMAIN b.items /\ d.items[key] = c
      /\ \A k \in DOMAIN b.items \ {key} : d.items[k] = b.items[k]
  <2>1. /\ IsAcc(Filled(b, key, c)) /\ d = Filled(b, key, c)
        /\ DOMAIN Filled(b, key, c).items = DOMAIN b.items
        /\ Filled(b, key, c).items[key] = c
        /\ \A k \in DOMAIN b.items \ {key} : Filled(b, key, c).items[k] = b.items[k]
    BY <1>1, FilledEffect
  <2> HIDE DEF d
  <2> QED
    BY <2>1
<1> HIDE DEF d
<1>3. b.items[key] = At(a, key)
  BY <1>1 DEF At
<1>4. Changes(a, d, {}, key, c)
  BY <1>1, <1>2 DEF Changes
<1> QED
  BY <1>3, <1>4 DEF b, d

LEMMA AddedEffect ==
  ASSUME NEW a, IsAcc(a), NEW key, NEW piece
  PROVE  Changes(a, M!Added(a, key, piece), {}, key,
                 [id |-> At(a, key).id, name |-> At(a, key).name,
                  args |-> Append(At(a, key).args, piece)])
<1> DEFINE b == M!Ensure(a, key)
           c == [id |-> At(a, key).id, name |-> At(a, key).name,
                 args |-> Append(At(a, key).args, piece)]
<1>1. /\ b.items[key] = At(a, key) /\ c = [id |-> c.id, name |-> c.name, args |-> c.args]
      /\ Changes(a, [b EXCEPT !.items[key] = c], {}, key, c)
  BY FillEnsured
<1>2. IsAcc(b) /\ key \in DOMAIN b.items
  BY EnsureEffect
<1>3. M!Added(a, key, piece) = [b EXCEPT !.items[key] = c]
  <2>1. M!Added(a, key, piece) = [b EXCEPT !.items[key].args = Append(@, piece)]
    BY DEF M!Added
  <2> HIDE DEF b
  <2>2. [b.items[key] EXCEPT !.args = Append(@, piece)] = c
    <3> DEFINE e == b.items[key]
               args == Append(e.args, piece)
    <3>1. e = [id |-> e.id, name |-> e.name, args |-> e.args]
      BY <1>1, EntryForm
    <3>2. c = [id |-> e.id, name |-> e.name, args |-> args]
      BY <1>1
    <3> HIDE DEF e, args
    <3>3. [e EXCEPT !.args = args] = [id |-> e.id, name |-> e.name, args |-> args]
      BY <3>1
    <3> QED
      BY <3>2, <3>3 DEF e, args
  <2>3. [b EXCEPT !.items[key].args = Append(@, piece)]
          = [b EXCEPT !.items[key] = [b.items[key] EXCEPT !.args = Append(@, piece)]]
    BY <1>2 DEF IsAcc
  <2> QED
    BY <2>1, <2>2, <2>3
<1> QED
  BY <1>1, <1>3

LEMMA SetEffect ==
  ASSUME NEW a, IsAcc(a), NEW key, NEW args, args # <<>>
  PROVE  Changes(a, M!Set(a, key, args), {}, key,
                 [id |-> At(a, key).id, name |-> At(a, key).name, args |-> args])
<1> DEFINE b == M!Ensure(a, key)
           c == [id |-> At(a, key).id, name |-> At(a, key).name, args |-> args]
<1>1. /\ b.items[key] = At(a, key) /\ c = [id |-> c.id, name |-> c.name, args |-> c.args]
      /\ Changes(a, [b EXCEPT !.items[key] = c], {}, key, c)
  BY FillEnsured
<1>2. IsAcc(b) /\ key \in DOMAIN b.items
  BY EnsureEffect
<1>3. M!Set(a, key, args) = [b EXCEPT !.items[key] = c]
  <2>1. M!Set(a, key, args) = [b EXCEPT !.items[key].args = args]
    BY DEF M!Set
  <2> HIDE DEF b
  <2>2. [b.items[key] EXCEPT !.args = args] = c
    BY <1>1, EntryForm
  <2>3. [b EXCEPT !.items[key].args = args]
          = [b EXCEPT !.items[key] = [b.items[key] EXCEPT !.args = args]]
    BY <1>2 DEF IsAcc
  <2> QED
    BY <2>1, <2>2, <2>3
<1> QED
  BY <1>1, <1>3

(* A merge leaves the old key's entry under the new one, gaps filled.      *)
LEMMA MergedMoves ==
  ASSUME NEW a, IsAcc(a), NEW from \in DOMAIN a.items, NEW to, to \notin DOMAIN a.items
  PROVE  Changes(a, M!Merged(a, from, to), {from}, to, a.items[from])
<1> DEFINE b == M!Merged(a, from, to)
<1>1. /\ b = [items |-> b.items, order |-> b.order]
      /\ b.items = [k \in (DOMAIN a.items \ {from}) \cup {to} |->
                      IF k = to THEN a.items[from] ELSE a.items[k]]
      /\ b.order = [n \in DOMAIN a.order |-> IF a.order[n] = from THEN to ELSE a.order[n]]
  <2>1. from # to
    OBVIOUS
  <2>2. b.items = [k \in DOMAIN M!Without(a, from) \cup {to} |->
                     IF k = to THEN a.items[from] ELSE M!Without(a, from)[k]]
    BY <2>1 DEF M!Merged
  <2>3. DOMAIN M!Without(a, from) = DOMAIN a.items \ {from}
    BY DEF M!Without
  <2>4. \A k \in DOMAIN a.items \ {from} : M!Without(a, from)[k] = a.items[k]
    BY DEF M!Without
  <2>5. /\ b = [items |-> b.items, order |-> b.order]
        /\ b.order = [n \in DOMAIN a.order |-> IF a.order[n] = from THEN to ELSE a.order[n]]
    BY <2>1 DEF M!Merged
  <2> QED
    BY <2>2, <2>3, <2>4, <2>5
<1> HIDE DEF b
<1>2. /\ DOMAIN b.items = (DOMAIN a.items \ {from}) \cup {to}
      /\ b.items[to] = a.items[from]
      /\ \A k \in DOMAIN a.items \ {from} : b.items[k] = a.items[k]
  BY <1>1
<1>3. /\ Len(a.order) \in Nat /\ DOMAIN a.order = 1..Len(a.order)
      /\ \A n \in 1..Len(a.order) : a.order[n] \in DOMAIN a.items
  BY LenProperties, ElementOfSeq DEF IsAcc
<1>4. \A n \in 1..Len(a.order) : b.order[n] \in DOMAIN b.items
  BY <1>1, <1>2, <1>3
<1>5. b.order \in Seq(DOMAIN b.items) /\ Len(b.order) = Len(a.order)
  BY <1>1, <1>3, <1>4
<1>6. \A n \in 1..Len(a.order) : b.order[n] = IF a.order[n] = from THEN to ELSE a.order[n]
  BY <1>1, <1>3
<1>7. Distinct(b.order)
  BY <1>3, <1>5, <1>6 DEF Distinct, IsAcc
<1>8. \A k \in DOMAIN b.items : Has(b.order, k, Len(b.order))
  BY <1>2, <1>5, <1>6 DEF Has, IsAcc
<1>9. \A k \in DOMAIN b.items :
        b.items[k] = [id |-> b.items[k].id, name |-> b.items[k].name,
                      args |-> b.items[k].args]
  BY <1>2 DEF IsAcc
<1>10. b.items = [k \in DOMAIN b.items |-> b.items[k]]
  BY <1>1
<1>11. IsAcc(b)
  BY <1>1, <1>5, <1>7, <1>8, <1>9, <1>10 DEF IsAcc
<1> QED
  BY <1>2, <1>11 DEF Changes, b

LEMMA MergedJoins ==
  ASSUME NEW a, IsAcc(a), NEW from \in DOMAIN a.items, NEW to \in DOMAIN a.items, from # to
  PROVE  Changes(a, M!Merged(a, from, to), {from}, to, M!Joined(a.items[to], a.items[from]))
<1> DEFINE rest == M!Without(a, from)
           c == M!Joined(a.items[to], a.items[from])
           b == M!Merged(a, from, to)
<1>1. /\ DOMAIN rest = DOMAIN a.items \ {from} /\ to \in DOMAIN rest
      /\ \A k \in DOMAIN rest : rest[k] = a.items[k]
      /\ rest = [k \in DOMAIN rest |-> rest[k]]
  BY DEF M!Without
<1>2. [rest EXCEPT ![to] = M!Joined(@, a.items[from])]
        = [k \in DOMAIN rest |-> IF k = to THEN c ELSE rest[k]]
  <2> HIDE DEF rest
  <2> QED
    BY <1>1
<1>3. /\ b = [items |-> b.items, order |-> b.order]
      /\ b.items = [k \in DOMAIN rest |-> IF k = to THEN c ELSE rest[k]]
      /\ b.order = M!Kept(a.order, DOMAIN rest)
  BY <1>2 DEF M!Merged
<1> HIDE DEF b, rest, c
<1>4. /\ DOMAIN b.items = DOMAIN a.items \ {from} /\ b.items[to] = c
      /\ \A k \in DOMAIN a.items \ {from, to} : b.items[k] = a.items[k]
  BY <1>1, <1>3
<1>5. KeptOf(b.order, a.order, DOMAIN rest, Len(a.order))
  BY <1>3, KeptProperties DEF IsAcc
<1>6. b.order \in Seq(DOMAIN b.items) /\ Distinct(b.order)
  BY <1>1, <1>4, <1>5 DEF KeptOf, IsAcc
<1>7. \A k \in DOMAIN b.items : Has(b.order, k, Len(b.order))
  BY <1>1, <1>4, <1>5 DEF KeptOf, IsAcc
<1>8. c = [id |-> c.id, name |-> c.name, args |-> c.args]
  BY DEF c, M!Joined
<1>9. \A k \in DOMAIN b.items :
        b.items[k] = [id |-> b.items[k].id, name |-> b.items[k].name,
                      args |-> b.items[k].args]
  BY <1>4, <1>8 DEF IsAcc
<1>10. b.items = [k \in DOMAIN b.items |-> b.items[k]]
  BY <1>3
<1>11. IsAcc(b)
  BY <1>3, <1>6, <1>7, <1>9, <1>10 DEF IsAcc
<1>12. Changes(a, b, {from}, to, c)
  BY <1>4, <1>11 DEF Changes
<1> QED
  BY <1>12 DEF b, c

(* What a merge finds of the arguments under either key. *)
Found(a, from, to) == IF At(a, to).args # <<>> THEN At(a, to).args ELSE At(a, from).args

LEMMA MergedEffect ==
  ASSUME NEW a, IsAcc(a), NEW from, NEW to
  PROVE  LET b == M!Merged(a, from, to)
         IN  /\ IsAcc(b)
             /\ DOMAIN b.items \cup {to} = (DOMAIN a.items \ {from}) \cup {to}
             /\ \A k \in DOMAIN a.items \ {from, to} : b.items[k] = a.items[k]
             /\ At(b, to).args = Found(a, from, to)
<1> DEFINE b == M!Merged(a, from, to)
<1>1. CASE from = to \/ from \notin DOMAIN a.items
  <2>1. b = a
    BY <1>1 DEF M!Merged
  <2>2. At(a, to).args = Found(a, from, to)
    BY <1>1 DEF Found, At, M!NoCall
  <2> QED
    BY <1>1, <2>1, <2>2
<1>2. CASE from # to /\ from \in DOMAIN a.items /\ to \notin DOMAIN a.items
  <2>1. Changes(a, b, {from}, to, a.items[from])
    BY <1>2, MergedMoves
  <2> HIDE DEF b
  <2>2. At(b, to) = a.items[from]
    BY <2>1 DEF Changes, At
  <2>3. Found(a, from, to) = a.items[from].args
    BY <1>2 DEF Found, At, M!NoCall
  <2> QED
    BY <2>1, <2>2, <2>3 DEF Changes, b
<1>3. CASE from # to /\ from \in DOMAIN a.items /\ to \in DOMAIN a.items
  <2>1. Changes(a, b, {from}, to, M!Joined(a.items[to], a.items[from]))
    BY <1>3, MergedJoins
  <2> HIDE DEF b
  <2>2. At(b, to) = M!Joined(a.items[to], a.items[from])
    BY <2>1 DEF Changes, At
  <2>3. Found(a, from, to) = M!Joined(a.items[to], a.items[from]).args
    BY <1>3 DEF Found, At, M!Joined
  <2> QED
    BY <2>1, <2>2, <2>3 DEF Changes, b
<1> QED
  BY <1>1, <1>2, <1>3

FinalKey(i) == IF style.itemId \/ style.ownId THEN M!Item(i) ELSE M!Call(i)

LEMMA SetItemEffect ==
  ASSUME NEW a, IsAcc(a), NEW i, NEW args
  PROVE  LET from == M!ItemKey(i, style.itemId)
         IN  Changes(a, M!SetItem(a, i, args), {from}, FinalKey(i),
                     [id |-> M!Call(i), name |-> response.calls[i].name,
                      args |-> IF args = <<>> THEN Found(a, from, FinalKey(i)) ELSE args])
<1> DEFINE from == M!ItemKey(i, style.itemId)
           key == FinalKey(i)
           b == M!Merged(a, from, key)
           c == [id |-> M!Call(i), name |-> response.calls[i].name,
                 args |-> IF args = <<>> THEN Found(a, from, key) ELSE args]
           d == M!Ensure(b, key)
           e == [d EXCEPT !.items[key] = c]
<1>1. /\ IsAcc(b)
      /\ DOMAIN b.items \cup {key} = (DOMAIN a.items \ {from}) \cup {key}
      /\ \A k \in DOMAIN a.items \ {from, key} : b.items[k] = a.items[k]
      /\ At(b, key).args = Found(a, from, key)
  BY MergedEffect
<1>2. M!SetItem(a, i, args)
        = [d EXCEPT !.items[key] =
             [id |-> M!Call(i), name |-> response.calls[i].name,
              args |-> IF args = <<>> THEN @.args ELSE args]]
  BY DEF M!SetItem, FinalKey
<1> HIDE DEF b
<1>3. d.items[key] = At(b, key) /\ Changes(b, e, {}, key, c)
  BY <1>1, FillEnsured
<1>4. IsAcc(d) /\ key \in DOMAIN d.items
  BY <1>1, EnsureEffect
<1>5. M!SetItem(a, i, args) = e
  <2>1. c = [id |-> M!Call(i), name |-> response.calls[i].name,
             args |-> IF args = <<>> THEN d.items[key].args ELSE args]
    BY <1>1, <1>3
  <2> HIDE DEF c, d
  <2> QED
    BY <1>2, <1>4, <2>1
<1> HIDE DEF e, c, key, from
<1>6. Changes(a, e, {from}, key, c)
  BY <1>1, <1>3 DEF Changes
<1> QED
  BY <1>5, <1>6 DEF key, from, c

(* The list of calls: those entries that say something, by their places.   *)
Says(a, k) == a.items[k].name # NoName \/ a.items[k].args # <<>>
Listing(a, k) == [a.items[k] EXCEPT !.id = IF @ = <<>> THEN k ELSE @]

LEMMA ListProperties ==
  ASSUME NEW a, IsAcc(a)
  PROVE  LET keys == M!Listed(a)
         IN  /\ keys \in Seq(DOMAIN a.items) /\ Distinct(keys)
             /\ \A k : Has(keys, k, Len(keys)) <=> k \in DOMAIN a.items /\ Says(a, k)
             /\ Len(M!List(a)) = Len(keys) /\ DOMAIN M!List(a) = 1..Len(keys)
             /\ \A n \in 1..Len(keys) :
                  /\ keys[n] \in DOMAIN a.items
                  /\ M!List(a)[n] =
                       [id |-> IF a.items[keys[n]].id = <<>> THEN keys[n]
                               ELSE a.items[keys[n]].id,
                        name |-> a.items[keys[n]].name, args |-> a.items[keys[n]].args]
<1> DEFINE keys == M!Listed(a)
           telling == {k \in DOMAIN a.items : Says(a, k)}
<1>1. keys = M!Kept(a.order, telling)
  BY DEF M!Listed, Says
<1> HIDE DEF keys
<1>2. KeptOf(keys, a.order, telling, Len(a.order))
  BY <1>1, KeptProperties DEF IsAcc
<1>3. keys \in Seq(telling) /\ Distinct(keys)
  BY <1>2 DEF KeptOf, IsAcc
<1>4. \A k : Has(keys, k, Len(keys)) <=> k \in DOMAIN a.items /\ Says(a, k)
  BY <1>2 DEF KeptOf, IsAcc
<1>5. keys \in Seq(DOMAIN a.items)
  BY <1>3
<1>6. /\ DOMAIN keys = 1..Len(keys) /\ Len(keys) \in Nat
      /\ \A n \in 1..Len(keys) : keys[n] \in DOMAIN a.items
  BY <1>5, LenProperties, ElementOfSeq
<1>7. M!List(a) = [n \in 1..Len(keys) |-> Listing(a, keys[n])]
  BY <1>6 DEF M!List, Listing, keys
<1>8. Len(M!List(a)) = Len(keys) /\ DOMAIN M!List(a) = 1..Len(keys)
  BY <1>6, <1>7
<1>9. ASSUME NEW n \in 1..Len(keys)
      PROVE  M!List(a)[n] = [id |-> IF a.items[keys[n]].id = <<>> THEN keys[n]
                                  ELSE a.items[keys[n]].id,
                           name |-> a.items[keys[n]].name, args |-> a.items[keys[n]].args]
  <2> DEFINE c == a.items[keys[n]]
  <2>1. c = [id |-> c.id, name |-> c.name, args |-> c.args]
    BY <1>6 DEF IsAcc
  <2>2. M!List(a)[n] = [c EXCEPT !.id = IF @ = <<>> THEN keys[n] ELSE @]
    BY <1>7 DEF Listing
  <2> HIDE DEF c
  <2>3. M!List(a)[n] = [id |-> IF c.id = <<>> THEN keys[n] ELSE c.id,
                      name |-> c.name, args |-> c.args]
    BY <2>1, <2>2
  <2> QED
    BY <2>3 DEF c
<1> QED
  BY <1>3, <1>4, <1>5, <1>6, <1>8, <1>9 DEF keys

-----------------------------------------------------------------------------
(* How far the server has come, and what the accumulator holds of it: an   *)
(* entry for each finished call, with its name and all its arguments, and  *)
(* nameless ones for what was sent of the others.                          *)
Apart == style.index \/ (style.fragmentId /\ style.argsId)

Begun(i) == fragments[i] > 0 \/ i \in told \/ i \in finished

Progress ==
  /\ response \in Responses
  /\ style \in Styles /\ M!Traceable(style)
  /\ told \subseteq M!Indices /\ finished \subseteq M!Indices
  /\ fragments \in [M!Indices -> Nat]
  /\ \A i \in M!Indices :
       /\ fragments[i] <= Len(M!Args(i))
       /\ i \in told => fragments[i] \in {0, Len(M!Args(i))}
       /\ Begun(i) => style.calls
       /\ Begun(i) /\ ~Apart => \A k \in M!Indices : k < i => k \in finished
  /\ full # <<>> => style.speaks

FragKey(i) == M!ItemKey(i, style.fragmentId)
ArgsKey(i) == M!ItemKey(i, style.argsId)
Sent(i) == SubSeq(M!Args(i), 1, fragments[i])
Under(i, k) ==
  IF i \in told /\ k = ArgsKey(i) THEN M!Args(i) ELSE IF k = FragKey(i) THEN Sent(i) ELSE <<>>
KeysOf(i) == {k \in {FragKey(i), ArgsKey(i)} : Under(i, k) # <<>>}
Open == M!Indices \ finished

Final(i) == [id |-> M!Call(i), name |-> response.calls[i].name, args |-> M!Args(i)]
Pending(i, k) == [id |-> <<>>, name |-> NoName, args |-> Under(i, k)]

Owns(i, k) == IF i \in finished THEN k = FinalKey(i) ELSE k \in KeysOf(i)

Entries ==
  /\ IsAcc(acc)
  /\ \A k : k \in DOMAIN acc.items <=> \E i \in M!Indices : Owns(i, k)
  /\ \A i \in finished : acc.items[FinalKey(i)] = Final(i)
  /\ \A i \in Open : \A k \in KeysOf(i) : acc.items[k] = Pending(i, k)

Pieces(s) == {s[n] : n \in DOMAIN s}

LEMMA ResponsesAreSound ==
  ASSUME NEW r \in Responses
  PROVE  /\ r.text \in Seq(Pieces(r.text)) /\ r.calls \in Seq(Pieces(r.calls))
         /\ \A call \in Pieces(r.calls) :
              call.name # NoName /\ call.args \in Seq(Pieces(call.args))
<1>1. \A s : M!ToSet(s) = Pieces(s)
  BY DEF M!ToSet, Pieces
<1>2. M!Proper(r)
  BY ResponsesAssumption
<1> QED
  BY <1>1, <1>2 DEF M!Proper

LEMMA ResponseFacts ==
  ASSUME Progress
  PROVE  /\ Len(response.calls) \in Nat /\ M!Indices = 1..Len(response.calls)
         /\ \A i \in M!Indices :
              /\ response.calls[i].name # NoName
              /\ M!Args(i) \in Seq(Pieces(M!Args(i)))
              /\ Len(M!Args(i)) \in Nat
              /\ M!Args(i) = <<>> <=> Len(M!Args(i)) = 0
<1>1. response.calls \in Seq(Pieces(response.calls))
  BY ResponsesAreSound DEF Progress
<1>2. Len(response.calls) \in Nat /\ M!Indices = 1..Len(response.calls)
  BY <1>1, LenProperties DEF M!Indices
<1>3. ASSUME NEW i \in M!Indices
      PROVE  response.calls[i].name # NoName /\ M!Args(i) \in Seq(Pieces(M!Args(i)))
  <2>1. response.calls[i] \in Pieces(response.calls)
    BY DEF Pieces, M!Indices
  <2> QED
    BY <2>1, ResponsesAreSound DEF Progress, M!Args
<1>4. ASSUME NEW i \in M!Indices
      PROVE  Len(M!Args(i)) \in Nat /\ (M!Args(i) = <<>> <=> Len(M!Args(i)) = 0)
  <2> DEFINE s == M!Args(i)
  <2>1. s \in Seq(Pieces(M!Args(i)))
    BY <1>3
  <2> HIDE DEF s
  <2>2. Len(s) \in Nat /\ (s = <<>> <=> Len(s) = 0)
    BY <2>1, LenProperties, EmptySeq
  <2> QED
    BY <2>2 DEF s
<1> QED
  BY <1>2, <1>3, <1>4

LEMMA StyleFacts ==
  ASSUME Progress
  PROVE  style \in M!Manners /\ M!Traceable(style)
  BY StylesAssumption DEF Progress

(* The keys of one call are none of another's, as long as that is told.    *)
LEMMA KeysDiffer ==
  ASSUME NEW i, NEW k
  PROVE  /\ M!Item(i) # M!Output(k) /\ M!Item(i) # M!Call(k) /\ M!Output(i) # M!Call(k)
         /\ i # k => M!Item(i) # M!Item(k) /\ M!Call(i) # M!Call(k)
         /\ i # k /\ style.index => M!Output(i) # M!Output(k)
  BY DEF M!Item, M!Output, M!Call

OwnKeys(i) == {M!Item(i), M!Output(i), M!Call(i)}

LEMMA KeysAreOwn ==
  ASSUME NEW i
  PROVE  KeysOf(i) \subseteq {M!Item(i), M!Output(i)} /\ FinalKey(i) \in {M!Item(i), M!Call(i)}
  BY DEF KeysOf, FragKey, ArgsKey, M!ItemKey, FinalKey

LEMMA OthersKeys ==
  ASSUME Progress, NEW i \in M!Indices, M!Telling(i), NEW j \in M!Indices, j # i,
         NEW k \in OwnKeys(i)
  PROVE  ~Owns(j, k)
<1>1. CASE j \in finished
  <2>1. FinalKey(j) \in {M!Item(j), M!Call(j)}
    BY KeysAreOwn
  <2> QED
    BY <1>1, <2>1, KeysDiffer DEF Owns, OwnKeys
<1>2. CASE j \notin finished
  <2>1. SUFFICES ASSUME k \in KeysOf(j) PROVE FALSE
    BY <1>2 DEF Owns
  <2>2. k = M!Output(j) /\ k = M!Output(i) /\ ~style.index
    BY <2>1, KeysAreOwn, KeysDiffer DEF OwnKeys
  <2>3. ~Apart
    <3>1. M!Item(j) # M!Output(j)
      BY KeysDiffer
    <3>2. ~(style.fragmentId /\ style.argsId)
      BY <2>1, <2>2, <3>1 DEF KeysOf, FragKey, ArgsKey, M!ItemKey
    <3> QED
      BY <2>2, <3>2 DEF Apart
  <2>4. \A m \in M!Indices : m < i => m \in finished
    BY <2>3 DEF M!Telling, M!Turn, Apart
  <2>5. i < j
    BY <1>2, <2>4, ResponseFacts
  <2>6. ~Begun(j)
    BY <2>3, <2>5 DEF Progress, M!Telling
  <2>7. j \notin told /\ fragments[j] = 0
    BY <2>6 DEF Begun, Progress
  <2>8. Sent(j) = <<>>
    BY <2>7, ResponseFacts, SubSeqEmpty DEF Sent
  <2> QED
    BY <2>1, <2>7, <2>8 DEF KeysOf, Under
<1> QED
  BY <1>1, <1>2

LEMMA OwnEntry ==
  ASSUME Progress, Entries, NEW i \in M!Indices, M!Telling(i), NEW k \in OwnKeys(i)
  PROVE  /\ k \in DOMAIN acc.items <=> k \in KeysOf(i)
         /\ k \notin KeysOf(i) => At(acc, k) = M!NoCall
         /\ k \in KeysOf(i) => At(acc, k) = Pending(i, k)
         /\ k \in {FragKey(i), ArgsKey(i)} => At(acc, k) = Pending(i, k)
<1>1. i \notin finished /\ i \in Open
  BY DEF M!Telling, Open
<1>2. k \in DOMAIN acc.items <=> Owns(i, k)
  BY OthersKeys DEF Entries
<1>3. k \in DOMAIN acc.items <=> k \in KeysOf(i)
  BY <1>1, <1>2 DEF Owns
<1>4. k \in KeysOf(i) => At(acc, k) = Pending(i, k)
  BY <1>1, <1>3 DEF At, Entries
<1>5. k \notin KeysOf(i) => At(acc, k) = M!NoCall
  BY <1>3 DEF At
<1>6. k \in {FragKey(i), ArgsKey(i)} /\ k \notin KeysOf(i) => M!NoCall = Pending(i, k)
  BY DEF KeysOf, M!NoCall, Pending
<1> QED
  BY <1>3, <1>4, <1>5, <1>6

(* A change of one call's entry is none of the others'.                    *)
OthersRest(i) ==
  /\ UNCHANGED <<response, style>>
  /\ \A j \in M!Indices \ {i} :
       /\ fragments'[j] = fragments[j]
       /\ j \in told' <=> j \in told
       /\ j \in finished' <=> j \in finished

LEMMA OthersUnder ==
  ASSUME NEW i \in M!Indices, OthersRest(i), NEW j \in M!Indices, j # i
  PROVE  /\ M!Indices' = M!Indices /\ (j \in finished' <=> j \in finished)
         /\ FinalKey(j)' = FinalKey(j) /\ Final(j)' = Final(j)
         /\ KeysOf(j)' = KeysOf(j) /\ \A k : Pending(j, k)' = Pending(j, k)
         /\ \A k : Owns(j, k)' <=> Owns(j, k)
<1>1. \A k : Under(j, k)' = Under(j, k)
  BY DEF OthersRest, Under, ArgsKey, FragKey, M!ItemKey, M!Item, M!Output, Sent, M!Args
<1>2. KeysOf(j)' = KeysOf(j)
  BY <1>1 DEF OthersRest, KeysOf, ArgsKey, FragKey, M!ItemKey, M!Item, M!Output
<1>3. FinalKey(j)' = FinalKey(j) /\ Final(j)' = Final(j) /\ M!Indices' = M!Indices
  BY DEF OthersRest, FinalKey, Final, M!Item, M!Call, M!Args, M!Indices
<1>4. j \in finished' <=> j \in finished
  BY DEF OthersRest
<1> QED
  BY <1>1, <1>2, <1>3, <1>4 DEF Pending, Owns

LEMMA EntriesChange ==
  ASSUME Progress, Entries, NEW i \in M!Indices, M!Telling(i), OthersRest(i),
         finished' \subseteq M!Indices,
         NEW gone \in SUBSET OwnKeys(i), NEW key \in OwnKeys(i), NEW c,
         Changes(acc, acc', gone, key, c),
         \A k : Owns(i, k)' <=> k = key \/ (k \in KeysOf(i) /\ k \notin gone),
         i \in finished' => FinalKey(i)' = key /\ c = Final(i)',
         i \notin finished' =>
           \A k \in KeysOf(i)' : IF k = key THEN Pending(i, k)' = c
                                 ELSE Pending(i, k)' = Pending(i, k)
  PROVE  Entries'
<1>0. i \notin finished /\ i \in Open /\ M!Indices' = M!Indices
  BY DEF M!Telling, Open, OthersRest, M!Indices
<1>1. \A k : k \in DOMAIN acc'.items <=> k = key \/ (k \in DOMAIN acc.items /\ k \notin gone)
  BY DEF Changes
<1>2. ASSUME NEW k PROVE k \in DOMAIN acc'.items <=> \E j \in M!Indices' : Owns(j, k)'
  <2>1. CASE k \in OwnKeys(i)
    <3>1. k \in DOMAIN acc.items <=> k \in KeysOf(i)
      BY <2>1, OwnEntry
    <3>2. k \in DOMAIN acc'.items <=> Owns(i, k)'
      BY <1>1, <3>1
    <3>3. \A j \in M!Indices : j # i => ~Owns(j, k)'
      BY <2>1, OthersKeys, OthersUnder
    <3> QED
      BY <1>0, <3>2, <3>3
  <2>2. CASE k \notin OwnKeys(i)
    <3>1. k # key /\ k \notin gone /\ k \notin KeysOf(i)
      BY <2>2, KeysAreOwn DEF OwnKeys
    <3>2. ~Owns(i, k)' /\ ~Owns(i, k)
      BY <1>0, <3>1 DEF Owns
    <3>3. k \in DOMAIN acc'.items <=> \E j \in M!Indices : Owns(j, k)
      BY <1>1, <3>1 DEF Entries
    <3>4. \A j \in M!Indices : j # i => (Owns(j, k)' <=> Owns(j, k))
      BY OthersUnder
    <3> QED
      BY <1>0, <3>2, <3>3, <3>4
  <2> QED
    BY <2>1, <2>2
<1>3. ASSUME NEW j \in M!Indices, j # i, NEW k, Owns(j, k)
      PROVE  k \in DOMAIN acc.items /\ acc'.items[k] = acc.items[k]
  <2>1. k \notin OwnKeys(i)
    BY <1>3, OthersKeys
  <2>2. k \in DOMAIN acc.items
    BY <1>3 DEF Entries
  <2> QED
    BY <2>1, <2>2 DEF Changes
<1>4. ASSUME NEW j \in finished' PROVE acc'.items[FinalKey(j)'] = Final(j)'
  <2>1. CASE j = i
    BY <1>4, <2>1 DEF Changes
  <2>2. CASE j # i
    <3>1. /\ j \in M!Indices /\ j \in finished
          /\ FinalKey(j)' = FinalKey(j) /\ Final(j)' = Final(j)
      BY <1>0, <1>4, <2>2, OthersUnder
    <3>2. acc'.items[FinalKey(j)] = acc.items[FinalKey(j)]
      BY <1>3, <2>2, <3>1 DEF Owns
    <3> QED
      BY <3>1, <3>2 DEF Entries
  <2> QED
    BY <2>1, <2>2
<1>5. ASSUME NEW j \in Open', NEW k \in KeysOf(j)' PROVE acc'.items[k] = Pending(j, k)'
  <2>0. j \in M!Indices /\ j \notin finished'
    BY <1>0 DEF Open
  <2>1. CASE j = i /\ k = key
    BY <2>0, <2>1, <1>5 DEF Changes
  <2>2. CASE j = i /\ k # key
    <3>1. Owns(i, k)'
      BY <2>0, <2>2, <1>5 DEF Owns
    <3>2. k \in KeysOf(i) /\ k \notin gone
      BY <2>2, <3>1
    <3>3. k \in OwnKeys(i)
      BY <3>2, KeysAreOwn DEF OwnKeys
    <3>4. k \in DOMAIN acc.items
      BY <3>2, <3>3, OwnEntry
    <3>5. acc'.items[k] = acc.items[k]
      BY <2>2, <3>2, <3>4 DEF Changes
    <3>6. acc.items[k] = Pending(i, k)
      BY <1>0, <3>2 DEF Entries
    <3> QED
      BY <2>0, <2>2, <1>5, <3>5, <3>6
  <2>3. CASE j # i
    <3>1. j \in Open /\ k \in KeysOf(j) /\ Pending(j, k)' = Pending(j, k)
      BY <2>0, <2>3, <1>5, OthersUnder DEF Open
    <3>2. acc'.items[k] = acc.items[k]
      BY <1>3, <2>0, <2>3, <3>1 DEF Owns, Open
    <3> QED
      BY <3>1, <3>2 DEF Entries
  <2> QED
    BY <2>1, <2>2, <2>3
<1>6. IsAcc(acc')
  BY DEF Changes
<1> QED
  BY <1>2, <1>4, <1>5, <1>6 DEF Entries, IsAcc

LEMMA EntriesStay ==
  ASSUME Progress, Entries, NEW i \in M!Indices, M!Telling(i), OthersRest(i),
         UNCHANGED <<acc, finished>>, KeysOf(i)' = KeysOf(i),
         \A k \in KeysOf(i) : Pending(i, k)' = Pending(i, k)
  PROVE  Entries'
<1>1. M!Indices' = M!Indices /\ Open' = Open
  BY DEF OthersRest, M!Indices, Open
<1>2. \A k : \A j \in M!Indices : Owns(j, k)' <=> Owns(j, k)
  BY OthersUnder DEF Owns, M!Telling
<1>3. ASSUME NEW j \in finished PROVE acc'.items[FinalKey(j)'] = Final(j)'
  BY OthersUnder DEF Entries, Progress, M!Telling
<1>4. ASSUME NEW j \in Open, NEW k \in KeysOf(j)' PROVE acc'.items[k] = Pending(j, k)'
  BY OthersUnder DEF Entries, Open
<1> QED
  BY <1>1, <1>2, <1>3, <1>4 DEF Entries, IsAcc

(* What the server has sent of a call is under its keys, and before the    *)
(* item is done without its arguments all of them are.                     *)
LEMMA OwnArgs ==
  ASSUME Progress, Entries, NEW i \in M!Indices, M!Telling(i), NEW k \in OwnKeys(i)
  PROVE  At(acc, k).args = Under(i, k)
<1>1. CASE k \in KeysOf(i)
  BY <1>1, OwnEntry DEF Pending
<1>2. CASE k \notin KeysOf(i)
  BY <1>2, OwnEntry DEF KeysOf, M!NoCall, Under
<1> QED
  BY <1>1, <1>2

LEMMA SentWhole ==
  ASSUME Progress, NEW i \in M!Indices
  PROVE  /\ fragments[i] = 0 => Sent(i) = <<>>
         /\ fragments[i] = Len(M!Args(i)) => Sent(i) = M!Args(i)
         /\ M!Args(i) = <<>> => Sent(i) = <<>>
<1> DEFINE s == M!Args(i)
<1>1. s \in Seq(Pieces(M!Args(i))) /\ Len(s) \in Nat /\ (s = <<>> <=> Len(s) = 0)
  BY ResponseFacts
<1>2. fragments[i] \in Nat /\ fragments[i] <= Len(s)
  BY DEF Progress
<1> HIDE DEF s
<1>3. SubSeq(s, 1, 0) = <<>>
  BY <1>1, SubSeqEmpty
<1>4. SubSeq(s, 1, Len(s)) = s
  BY <1>1, SubSeqFull
<1>5. Sent(i) = SubSeq(s, 1, fragments[i])
  BY DEF Sent, s
<1> QED
  BY <1>1, <1>2, <1>3, <1>4, <1>5 DEF s

LEMMA SentGrows ==
  ASSUME Progress, NEW i \in M!Indices, fragments[i] < Len(M!Args(i))
  PROVE  /\ Append(Sent(i), M!Args(i)[fragments[i] + 1]) = SubSeq(M!Args(i), 1, fragments[i] + 1)
         /\ SubSeq(M!Args(i), 1, fragments[i] + 1) # <<>>
<1> DEFINE s == M!Args(i)
<1>1. s \in Seq(Pieces(M!Args(i))) /\ Len(s) \in Nat
  BY ResponseFacts
<1>2. fragments[i] \in Nat /\ fragments[i] + 1 \in 1..Len(s)
  BY <1>1 DEF Progress
<1> HIDE DEF s
<1>3. \A n \in 0..Len(s) :
        SubSeq(s, 1, n) \in Seq(Pieces(M!Args(i))) /\ Len(SubSeq(s, 1, n)) = n
  BY <1>1
<1> DEFINE n == fragments[i]
           t == SubSeq(s, 1, n)
           u == SubSeq(s, 1, n + 1)
<1>4. Append(t, s[n + 1]) = u
  BY <1>1, <1>2
<1>5. u # <<>>
  BY <1>1, <1>2, <1>3
<1> QED
  BY <1>4, <1>5 DEF Sent, s

LEMMA WhenDone ==
  ASSUME Progress, NEW i \in M!Indices, i \in told \/ fragments[i] = Len(M!Args(i))
  PROVE  /\ \A k : Under(i, k) \in {<<>>, M!Args(i)}
         /\ \E k \in {FragKey(i), ArgsKey(i)} : Under(i, k) = M!Args(i)
<1>1. Sent(i) \in {<<>>, M!Args(i)}
  BY SentWhole DEF Progress
<1>2. \A k : Under(i, k) \in {<<>>, M!Args(i)}
  BY <1>1 DEF Under
<1>3. CASE i \in told
  BY <1>2, <1>3 DEF Under
<1>4. CASE i \notin told
  BY <1>2, <1>4, SentWhole DEF Under
<1> QED
  BY <1>2, <1>3, <1>4

-----------------------------------------------------------------------------
MoreIsRead == M!Next \/ UNCHANGED M!vars

LEMMA ProgressChange ==
  ASSUME Progress, NEW i \in M!Indices, M!Telling(i), OthersRest(i), full' = full,
         told' \subseteq M!Indices, finished' \subseteq M!Indices, finished \subseteq finished',
         fragments' \in [M!Indices -> Nat], fragments'[i] <= Len(M!Args(i)),
         i \in told' => fragments'[i] \in {0, Len(M!Args(i))}
  PROVE  Progress'
<1>1. /\ response' = response /\ style' = style /\ M!Indices' = M!Indices /\ Apart' = Apart
      /\ \A j : M!Args(j)' = M!Args(j)
  BY DEF OthersRest, M!Indices, Apart, M!Args
<1>2. ASSUME NEW j \in M!Indices
      PROVE  /\ fragments'[j] <= Len(M!Args(j))
             /\ j \in told' => fragments'[j] \in {0, Len(M!Args(j))}
  BY DEF OthersRest, Progress
<1>3. ASSUME NEW j \in M!Indices, Begun(j)'
      PROVE  style.calls /\ (~Apart => \A k \in M!Indices : k < j => k \in finished)
  <2>1. CASE j = i
    BY <2>1 DEF M!Telling, M!Turn, Apart
  <2>2. CASE j # i
    BY <1>3, <2>2 DEF OthersRest, Begun, Progress
  <2> QED
    BY <2>1, <2>2
<1> QED
  BY <1>1, <1>2, <1>3 DEF Progress

LEMMA ProgressStep ==
  ASSUME Progress, MoreIsRead
  PROVE  Progress'
<1>0. CASE UNCHANGED <<M!server, full>>
  BY <1>0 DEF Progress, M!server, M!Indices, M!Args, Begun, Apart
<1>1. ASSUME NEW ok \in BOOLEAN, M!TextDelta(ok) PROVE Progress'
  BY <1>1 DEF Progress, M!TextDelta, M!server, M!Indices, M!Args, Begun, Apart
<1>2. ASSUME NEW i \in M!Indices, M!ArgumentsDelta(i) PROVE Progress'
  <2>1. M!Telling(i) /\ OthersRest(i)
    BY <1>2 DEF M!ArgumentsDelta, OthersRest, Progress
  <2>2. fragments[i] \in Nat /\ Len(M!Args(i)) \in Nat
    BY ResponseFacts DEF Progress
  <2>3. fragments' \in [M!Indices -> Nat] /\ fragments'[i] <= Len(M!Args(i)) /\ i \notin told'
    BY <1>2, <2>2 DEF M!ArgumentsDelta, Progress
  <2> QED
    BY <1>2, <2>1, <2>3, ProgressChange DEF M!ArgumentsDelta, Progress
<1>3. ASSUME NEW i \in M!Indices, M!ArgumentsDone(i) PROVE Progress'
  <2>1. M!Telling(i) /\ OthersRest(i)
    BY <1>3 DEF M!ArgumentsDone, OthersRest
  <2> QED
    BY <1>3, <2>1, ProgressChange DEF M!ArgumentsDone, Progress
<1>4. ASSUME NEW i \in M!Indices, M!ItemDone(i) PROVE Progress'
  <2>1. M!Telling(i) /\ OthersRest(i)
    BY <1>4 DEF M!ItemDone, OthersRest
  <2> QED
    BY <1>4, <2>1, ProgressChange DEF M!ItemDone, Progress
<1> QED
  BY <1>0, <1>1, <1>2, <1>3, <1>4
     DEF MoreIsRead, M!Next, M!Completed, M!Return, M!Chat, M!Fail, M!vars

LEMMA EntriesDelta ==
  ASSUME Progress, Entries, NEW i \in M!Indices, M!ArgumentsDelta(i)
  PROVE  Entries'
<1> DEFINE key == FragKey(i)
           c == Pending(i, key)'
<1>1. M!Telling(i) /\ OthersRest(i)
  BY DEF M!ArgumentsDelta, OthersRest, Progress
<1>2. /\ i \notin finished /\ i \notin told /\ i \notin told' /\ finished' = finished
      /\ finished' \subseteq M!Indices
  BY DEF M!ArgumentsDelta, Progress, M!Telling
<1>3. FragKey(i)' = FragKey(i) /\ ArgsKey(i)' = ArgsKey(i) /\ key \in OwnKeys(i)
  BY DEF M!ArgumentsDelta, FragKey, ArgsKey, M!ItemKey, M!Item, M!Output, OwnKeys
<1>4. Sent(i)' = Append(Sent(i), M!Args(i)[fragments[i] + 1]) /\ Sent(i)' # <<>>
  <2>1. fragments[i] < Len(M!Args(i)) /\ fragments'[i] = fragments[i] + 1 /\ M!Args(i)' = M!Args(i)
    BY DEF M!ArgumentsDelta, Progress, M!Args
  <2>2. Sent(i)' = SubSeq(M!Args(i), 1, fragments[i] + 1)
    BY <2>1 DEF Sent
  <2> QED
    BY <2>1, <2>2, SentGrows
<1>5. /\ \A k : Under(i, k) = IF k = key THEN Sent(i) ELSE <<>>
      /\ \A k : Under(i, k)' = IF k = key THEN Sent(i)' ELSE <<>>
  BY <1>2, <1>3 DEF Under
<1>6. KeysOf(i) \subseteq {key} /\ KeysOf(i)' = {key}
  BY <1>3, <1>4, <1>5 DEF KeysOf
<1>7. At(acc, key) = Pending(i, key)
  BY <1>1, <1>3, OwnEntry
<1>8. c = [id |-> At(acc, key).id, name |-> At(acc, key).name,
           args |-> Append(At(acc, key).args, M!Args(i)[fragments[i] + 1])]
  <2>1. Under(i, key) = Sent(i) /\ Under(i, FragKey(i))' = Sent(i)'
    BY <1>3, <1>5
  <2>2. c = [id |-> <<>>, name |-> NoName, args |-> Sent(i)']
    BY <2>1 DEF Pending
  <2>3. At(acc, key) = [id |-> <<>>, name |-> NoName, args |-> Sent(i)]
    BY <1>7, <2>1 DEF Pending
  <2> HIDE DEF c, key
  <2> QED
    BY <1>4, <2>2, <2>3
<1>9. acc' = M!Added(acc, key, M!Args(i)[fragments[i] + 1])
  BY DEF M!ArgumentsDelta, FragKey
<1>10. Changes(acc, acc', {}, key, c)
  BY <1>8, <1>9, AddedEffect DEF Entries
<1>11. \A k : Owns(i, k)' <=> k = key \/ (k \in KeysOf(i) /\ k \notin {})
  BY <1>2, <1>6 DEF Owns
<1>12. \A k \in KeysOf(i)' : IF k = key THEN Pending(i, k)' = c
                             ELSE Pending(i, k)' = Pending(i, k)
  BY <1>3, <1>6
<1> HIDE DEF c, key
<1> QED
  BY <1>1, <1>2, <1>3, <1>10, <1>11, <1>12, EntriesChange

LEMMA EntriesDone ==
  ASSUME Progress, Entries, NEW i \in M!Indices, M!ArgumentsDone(i)
  PROVE  Entries'
<1>1. M!Telling(i) /\ OthersRest(i)
  BY DEF M!ArgumentsDone, OthersRest
<1>2. /\ i \notin finished /\ i \notin told /\ i \in told' /\ finished' = finished
      /\ finished' \subseteq M!Indices
  BY DEF M!ArgumentsDone, Progress, M!Telling
<1>3. /\ FragKey(i)' = FragKey(i) /\ ArgsKey(i)' = ArgsKey(i) /\ ArgsKey(i) \in OwnKeys(i)
      /\ M!Args(i)' = M!Args(i) /\ Sent(i)' = Sent(i)
  BY DEF M!ArgumentsDone, FragKey, ArgsKey, M!ItemKey, M!Item, M!Output, OwnKeys, M!Args, Sent
<1>4. /\ \A k : Under(i, k) = IF k = FragKey(i) THEN Sent(i) ELSE <<>>
      /\ \A k : Under(i, k)' = IF k = ArgsKey(i) THEN M!Args(i) ELSE Under(i, k)
  BY <1>2, <1>3 DEF Under
<1>5. acc' = M!Set(acc, ArgsKey(i), M!Args(i))
  BY DEF M!ArgumentsDone, ArgsKey
<1>6. CASE M!Args(i) = <<>>
  <2>1. Sent(i) = <<>>
    BY <1>6, SentWhole
  <2>2. \A k : Under(i, k) = <<>> /\ Under(i, k)' = <<>>
    BY <1>4, <1>6, <2>1
  <2>3. KeysOf(i)' = KeysOf(i) /\ \A k \in KeysOf(i) : Pending(i, k)' = Pending(i, k)
    BY <2>2 DEF KeysOf, Pending
  <2>4. acc' = acc
    BY <1>5, <1>6 DEF M!Set
  <2> QED
    BY <1>1, <1>2, <2>3, <2>4, EntriesStay
<1>7. CASE M!Args(i) # <<>>
  <2> DEFINE key == ArgsKey(i)
             c == Pending(i, key)'
  <2>1. KeysOf(i)' = KeysOf(i) \cup {key}
    BY <1>3, <1>4, <1>7 DEF KeysOf
  <2>2. At(acc, key) = Pending(i, key)
    BY <1>1, <1>3, OwnEntry
  <2>3. c = [id |-> At(acc, key).id, name |-> At(acc, key).name, args |-> M!Args(i)]
    BY <1>3, <1>4, <2>2 DEF Pending
  <2>4. Changes(acc, acc', {}, key, c)
    BY <1>5, <1>7, <2>3, SetEffect DEF Entries
  <2>5. \A k : Owns(i, k)' <=> k = key \/ (k \in KeysOf(i) /\ k \notin {})
    BY <1>2, <2>1 DEF Owns
  <2>6. \A k \in KeysOf(i)' : IF k = key THEN Pending(i, k)' = c
                              ELSE Pending(i, k)' = Pending(i, k)
    BY <1>3, <1>4 DEF Pending
  <2> HIDE DEF c
  <2> QED
    BY <1>1, <1>2, <1>3, <2>4, <2>5, <2>6, EntriesChange
<1> QED
  BY <1>6, <1>7

LEMMA EntriesItem ==
  ASSUME Progress, Entries, NEW i \in M!Indices, M!ItemDone(i)
  PROVE  Entries'
<1> DEFINE from == M!ItemKey(i, style.itemId)
           key == FinalKey(i)
           args == IF style.itemArgs THEN M!Args(i) ELSE <<>>
<1>1. M!Telling(i) /\ OthersRest(i)
  BY DEF M!ItemDone, OthersRest
<1>2. i \in finished' /\ finished' \subseteq M!Indices
  BY DEF M!ItemDone, Progress, M!Telling
<1>3. from \in OwnKeys(i) /\ key \in OwnKeys(i)
  BY DEF M!ItemKey, FinalKey, OwnKeys
<1>4. {FragKey(i), ArgsKey(i)} \subseteq {from, key}
  BY StyleFacts DEF M!Manners, M!Traceable, FragKey, ArgsKey, M!ItemKey, FinalKey
<1>5. Found(acc, from, key) = IF Under(i, key) # <<>> THEN Under(i, key) ELSE Under(i, from)
  BY <1>1, <1>3, OwnArgs DEF Found
<1>6. (IF args = <<>> THEN Found(acc, from, key) ELSE args) = M!Args(i)
  <2>1. CASE args # <<>>
    BY <2>1
  <2>2. CASE M!Args(i) = <<>>
    <3>1. \A k : Under(i, k) = <<>>
      BY <2>2, SentWhole DEF Under
    <3> QED
      BY <1>5, <2>2, <3>1
  <2>3. CASE args = <<>> /\ M!Args(i) # <<>>
    <3>1. i \in told \/ fragments[i] = Len(M!Args(i))
      BY <2>3 DEF M!ItemDone
    <3>2. /\ \A k : Under(i, k) \in {<<>>, M!Args(i)}
          /\ Under(i, from) = M!Args(i) \/ Under(i, key) = M!Args(i)
      BY <1>4, <3>1, WhenDone
    <3> QED
      BY <1>5, <2>3, <3>2
  <2> QED
    BY <2>1, <2>2, <2>3
<1>7. Changes(acc, acc', {from}, key, Final(i))
  <2>1. Final(i) = [id |-> M!Call(i), name |-> response.calls[i].name,
                    args |-> IF args = <<>> THEN Found(acc, from, key) ELSE args]
    BY <1>6 DEF Final
  <2>2. acc' = M!SetItem(acc, i, args)
    BY DEF M!ItemDone
  <2> HIDE DEF args
  <2> QED
    BY <2>1, <2>2, SetItemEffect DEF Entries
<1>8. FinalKey(i)' = key /\ Final(i)' = Final(i)
  BY DEF M!ItemDone, FinalKey, Final, M!Item, M!Call, M!Args
<1>9. \A k : Owns(i, k)' <=> k = key \/ (k \in KeysOf(i) /\ k \notin {from})
  BY <1>2, <1>4, <1>8 DEF Owns, KeysOf
<1> HIDE DEF from, key
<1> QED
  BY <1>1, <1>2, <1>3, <1>7, <1>8, <1>9, EntriesChange

LEMMA EntriesStep ==
  ASSUME Progress, Entries, MoreIsRead
  PROVE  Entries'
<1>1. CASE UNCHANGED <<M!server, acc>>
  <2>1. \A j, k : Under(j, k)' = Under(j, k)
    BY <1>1 DEF M!server, Under, FragKey, ArgsKey, M!ItemKey, M!Item, M!Output, Sent, M!Args
  <2>2. /\ \A j : KeysOf(j)' = KeysOf(j)
        /\ \A j : FinalKey(j)' = FinalKey(j) /\ Final(j)' = Final(j)
    BY <1>1, <2>1
       DEF M!server, KeysOf, FragKey, ArgsKey, M!ItemKey, M!Item, M!Output, FinalKey, Final,
           M!Call, M!Args
  <2>3. \A j, k : Pending(j, k)' = Pending(j, k) /\ (Owns(j, k)' <=> Owns(j, k))
    BY <1>1, <2>1, <2>2 DEF M!server, Pending, Owns
  <2>4. /\ M!Indices' = M!Indices /\ Open' = Open /\ finished' = finished
        /\ IsAcc(acc)' <=> IsAcc(acc)
    BY <1>1 DEF M!server, M!Indices, Open, IsAcc
  <2> QED
    BY <1>1, <2>2, <2>3, <2>4 DEF Entries
<1>2. ASSUME NEW i \in M!Indices, M!ArgumentsDelta(i) \/ M!ArgumentsDone(i) \/ M!ItemDone(i)
      PROVE  Entries'
  BY <1>2, EntriesDelta, EntriesDone, EntriesItem
<1> QED
  BY <1>1, <1>2 DEF MoreIsRead, M!Next, M!TextDelta, M!Completed, M!Return, M!Chat, M!Fail, M!vars

LEMMA Beginning ==
  ASSUME M!Init
  PROVE  Progress /\ Entries
<1>1. \A i \in M!Indices : fragments[i] = 0 /\ i \notin told /\ i \notin finished
  BY DEF M!Init
<1>2. Progress
  <2>1. \A i \in M!Indices : Len(M!Args(i)) \in Nat
    <3> SUFFICES ASSUME NEW i \in M!Indices PROVE Len(M!Args(i)) \in Nat
      OBVIOUS
    <3>1. response.calls[i] \in Pieces(response.calls)
      BY DEF Pieces, M!Indices
    <3> DEFINE s == M!Args(i)
    <3>2. s \in Seq(Pieces(s))
      BY <3>1, ResponsesAreSound DEF M!Init, M!Args
    <3> HIDE DEF s
    <3>3. Len(s) \in Nat
      BY <3>2, LenProperties
    <3> QED
      BY <3>3 DEF s
  <2> QED
    BY <1>1, <2>1 DEF M!Init, Progress, Begun
<1>3. ASSUME NEW i \in M!Indices, NEW k PROVE ~Owns(i, k)
  BY <1>1, <1>2, SentWhole DEF Owns, KeysOf, Under
<1>4. acc = [items |-> <<>>, order |-> <<>>] /\ DOMAIN acc.items = {} /\ finished = {}
  BY DEF M!Init
<1>5. IsAcc(acc)
  BY <1>4, NoneYet
<1>6. Entries
  BY <1>3, <1>4, <1>5 DEF Entries, Open, Owns
<1> QED
  BY <1>2, <1>6

-----------------------------------------------------------------------------
(* What is returned, from what the stream left behind.                     *)
Gathered ==
  LET last == IF completed THEN M!Message(response) ELSE M!NoMessage
  IN  [text |-> IF full = <<>> THEN last.text ELSE full,
       calls |-> IF M!List(acc) = <<>> THEN last.calls ELSE M!List(acc)]

AllTold == (style.speaks => M!Spoken) /\ (style.calls => M!Called)

Reply ==
  /\ request = "reading" /\ completed => AllTold
  /\ request # "ok" => message = M!NoMessage
  /\ request = "ok" =>
       \/ message = M!Message(response)
       \/ /\ completed => AllTold
          /\ message = Gathered

RequestInv == Progress /\ Entries /\ Reply

LEMMA ReplyStep ==
  ASSUME Progress, Reply, MoreIsRead
  PROVE  Reply'
<1>1. CASE UNCHANGED M!vars
  BY <1>1 DEF M!vars, M!server, Reply, AllTold, M!Spoken, M!Called, M!Indices, Gathered
<1>2. ASSUME NEW ok \in BOOLEAN, M!TextDelta(ok) PROVE Reply'
  BY <1>2 DEF M!TextDelta, M!Reading, Reply
<1>3. ASSUME NEW i \in M!Indices, M!ArgumentsDelta(i) \/ M!ArgumentsDone(i) \/ M!ItemDone(i)
      PROVE  Reply'
  BY <1>3 DEF M!ArgumentsDelta, M!ArgumentsDone, M!ItemDone, M!Telling, M!Reading, Reply
<1>4. CASE M!Completed
  BY <1>4 DEF M!Completed, M!server, M!Reading, Reply, AllTold, M!Spoken, M!Called, M!Indices
<1>5. CASE M!Return
  <2>1. message' = Gathered /\ UNCHANGED <<response, style, finished, full, acc, completed>>
    BY <1>5 DEF M!Return, Gathered, M!server
  <2>2. AllTold' <=> AllTold
    BY <2>1 DEF AllTold, M!Spoken, M!Called, M!Indices
  <2>3. Gathered' = Gathered
    BY <2>1 DEF Gathered
  <2> QED
    BY <1>5, <2>1, <2>2, <2>3 DEF M!Return, Reply
<1>6. CASE M!Chat
  BY <1>6 DEF M!Chat, M!server, Reply
<1>7. CASE M!Fail
  BY <1>7 DEF M!Fail, Reply
<1> QED
  BY <1>1, <1>2, <1>3, <1>4, <1>5, <1>6, <1>7 DEF MoreIsRead, M!Next

LEMMA RequestInit == M!Init => RequestInv
  BY Beginning DEF M!Init, RequestInv, Reply

LEMMA RequestStep == RequestInv /\ MoreIsRead => RequestInv'
  BY ProgressStep, EntriesStep, ReplyStep DEF RequestInv

-----------------------------------------------------------------------------
(* A call of the list is a finished one, or nameless and goes by its key.  *)
LEMMA ListedCall ==
  ASSUME Progress, Entries, NEW n \in 1..Len(M!Listed(acc))
  PROVE  \E i \in M!Indices :
           \/ i \in finished /\ M!Listed(acc)[n] = FinalKey(i) /\ M!List(acc)[n] = Final(i)
           \/ /\ M!Listed(acc)[n] \in {M!Item(i), M!Output(i)}
              /\ M!List(acc)[n].id = M!Listed(acc)[n] /\ M!List(acc)[n].name = NoName
<1> DEFINE k == M!Listed(acc)[n]
<1>1. /\ k \in DOMAIN acc.items
      /\ M!List(acc)[n] = [id |-> IF acc.items[k].id = <<>> THEN k ELSE acc.items[k].id,
                         name |-> acc.items[k].name, args |-> acc.items[k].args]
  BY ListProperties DEF Entries
<1> HIDE DEF k
<1>2. PICK i \in M!Indices : Owns(i, k)
  BY <1>1 DEF Entries
<1>3. CASE i \in finished
  <2>1. k = FinalKey(i) /\ acc.items[k] = Final(i)
    BY <1>2, <1>3 DEF Owns, Entries
  <2>2. M!Call(i) # <<>>
    BY DEF M!Call
  <2> QED
    BY <1>1, <1>3, <2>1, <2>2 DEF Final, k
<1>4. CASE i \notin finished
  <2>1. k \in {M!Item(i), M!Output(i)} /\ acc.items[k] = Pending(i, k)
    BY <1>2, <1>4, KeysAreOwn DEF Owns, Entries, Open
  <2> QED
    BY <1>1, <2>1 DEF Pending, k
<1> QED
  BY <1>3, <1>4

LEMMA MessageCalls ==
  ASSUME Progress
  PROVE  /\ DOMAIN M!Message(response).calls = M!Indices
         /\ Len(M!Message(response).calls) = Len(response.calls)
         /\ \A i \in M!Indices : M!Message(response).calls[i] = Final(i)
  BY ResponseFacts DEF M!Message, Final, M!Args, M!Indices

LEMMA AllListed ==
  ASSUME Progress, Entries, M!Called
  PROVE  /\ Len(M!List(acc)) = Len(response.calls)
         /\ DOMAIN M!List(acc) = M!Indices
         /\ \A n \in M!Indices : \E i \in M!Indices : M!List(acc)[n] = Final(i)
         /\ \A i \in M!Indices : \E n \in M!Indices : M!List(acc)[n] = Final(i)
<1> DEFINE keys == M!Listed(acc)
           m == Len(response.calls)
<1>1. /\ keys \in Seq(DOMAIN acc.items) /\ Distinct(keys)
      /\ \A k : Has(keys, k, Len(keys)) <=> k \in DOMAIN acc.items /\ Says(acc, k)
      /\ Len(M!List(acc)) = Len(keys) /\ DOMAIN M!List(acc) = 1..Len(keys)
      /\ \A n \in 1..Len(keys) : M!List(acc)[n].name = acc.items[keys[n]].name
  <2>1. IsAcc(acc)
    BY DEF Entries
  <2>3. ASSUME NEW n \in 1..Len(keys) PROVE M!List(acc)[n].name = acc.items[keys[n]].name
    <3> DEFINE c == acc.items[keys[n]]
    <3>1. M!List(acc)[n] = [id |-> IF c.id = <<>> THEN keys[n] ELSE c.id,
                          name |-> c.name, args |-> c.args]
      BY <2>1, ListProperties
    <3> HIDE DEF c
    <3>2. M!List(acc)[n].name = c.name
      BY <3>1
    <3> QED
      BY <3>2 DEF c
  <2> QED
    BY <2>1, <2>3, ListProperties
<1>2. Len(keys) \in Nat
  BY <1>1, LenProperties
<1>3. m \in Nat /\ M!Indices = 1..m /\ \A i \in M!Indices : response.calls[i].name # NoName
  BY ResponseFacts
<1>4. ASSUME NEW n \in 1..Len(keys)
      PROVE  \E i \in 1..m : keys[n] = FinalKey(i) /\ M!List(acc)[n] = Final(i)
  <2>1. PICK i \in M!Indices :
          \/ i \in finished /\ keys[n] = FinalKey(i) /\ M!List(acc)[n] = Final(i)
          \/ /\ keys[n] \in {M!Item(i), M!Output(i)} /\ M!List(acc)[n].name = NoName
    BY ListedCall
  <2>2. keys[n] \in DOMAIN acc.items
    BY <1>1, <1>2, ElementOfSeq
  <2>3. PICK j \in M!Indices : Owns(j, keys[n])
    BY <2>2 DEF Entries
  <2>4. keys[n] = FinalKey(j) /\ acc.items[keys[n]] = Final(j)
    BY <2>3 DEF M!Called, Owns, Entries
  <2>6. M!List(acc)[n].name # NoName
    BY <1>1, <1>3, <2>4 DEF Final
  <2> QED
    BY <1>3, <2>1, <2>6
<1>5. ASSUME NEW i \in 1..m
      PROVE  \E n \in 1..Len(keys) : keys[n] = FinalKey(i)
  <2>1. Owns(i, FinalKey(i)) /\ acc.items[FinalKey(i)] = Final(i)
    BY <1>3 DEF M!Called, Owns, Entries
  <2>2. FinalKey(i) \in DOMAIN acc.items /\ Says(acc, FinalKey(i))
    BY <1>3, <2>1 DEF Entries, Says, Final
  <2> QED
    BY <1>1, <2>2 DEF Has
<1>6. \A i, k \in 1..m : FinalKey(i) = FinalKey(k) => i = k
  BY KeysDiffer DEF FinalKey
<1>7. Len(keys) = m
  <2> DEFINE t == [i \in 1..m |-> FinalKey(i)]
             X == {keys[n] : n \in 1..Len(keys)}
  <2>1. \A i \in 1..m : t[i] = FinalKey(i)
    OBVIOUS
  <2> HIDE DEF t, keys, m
  <2>2. Enumerates(keys, Len(keys), X)
    BY <1>1 DEF Enumerates, Distinct
  <2>3. Enumerates(t, m, X)
    <3>1. \A n \in 1..Len(keys) : \E i \in 1..m : keys[n] = t[i]
      BY <1>4, <2>1
    <3>2. \A i \in 1..m : \E n \in 1..Len(keys) : keys[n] = t[i]
      BY <1>5, <2>1
    <3> DEFINE Y == {t[i] : i \in 1..m}
    <3>3. ASSUME NEW x \in X PROVE x \in Y
      BY <3>1
    <3>4. ASSUME NEW x \in Y PROVE x \in X
      BY <3>2
    <3>5. X = Y
      BY <3>3, <3>4
    <3> QED
      BY <1>6, <2>1, <3>5 DEF Enumerates
  <2> HIDE DEF X
  <2> QED
    BY <1>2, <1>3, <2>2, <2>3, SameLength
<1>8. ASSUME NEW i \in 1..m PROVE \E n \in 1..Len(keys) : M!List(acc)[n] = Final(i)
  <2>1. PICK n \in 1..Len(keys) : keys[n] = FinalKey(i)
    BY <1>5
  <2>2. PICK k \in 1..m : keys[n] = FinalKey(k) /\ M!List(acc)[n] = Final(k)
    BY <1>4
  <2>3. k = i
    BY <1>6, <2>1, <2>2
  <2> QED
    BY <2>2, <2>3
<1> QED
  BY <1>1, <1>3, <1>4, <1>7, <1>8

LEMMA NoneListed ==
  ASSUME Progress, Entries, ~style.calls
  PROVE  M!List(acc) = <<>>
<1>1. ASSUME NEW i \in M!Indices, NEW k PROVE ~Owns(i, k)
  <2>1. ~Begun(i)
    BY DEF Progress
  <2>2. fragments[i] = 0 /\ i \notin told /\ i \notin finished
    BY <2>1 DEF Begun, Progress
  <2> QED
    BY <2>2, SentWhole DEF Owns, KeysOf, Under
<1>2. DOMAIN acc.items = {}
  BY <1>1 DEF Entries
<1>3. Len(M!Listed(acc)) = 0
  <2>1. M!Listed(acc) \in Seq({})
    BY <1>2, ListProperties DEF Entries
  <2> QED
    BY <2>1, LenProperties, ElementOfSeq
<1>4. DOMAIN M!Listed(acc) = {}
  <2>1. M!Listed(acc) \in Seq(DOMAIN acc.items)
    BY ListProperties DEF Entries
  <2> QED
    BY <1>3, <2>1, LenProperties
<1> QED
  BY <1>4 DEF M!List

-----------------------------------------------------------------------------
LEMMA ReassembledHolds ==
  ASSUME RequestInv
  PROVE  M!ResponseReassembled
<1>0. Progress /\ Entries /\ Reply
  BY DEF RequestInv
<1>1. SUFFICES ASSUME request = "ok", M!Whole
               PROVE  /\ message.text = response.text
                      /\ Len(message.calls) = Len(response.calls)
                      /\ M!Calls(message) = M!Calls(M!Message(response))
  BY DEF M!ResponseReassembled
<1>2. CASE message = M!Message(response)
  BY <1>0, <1>2, MessageCalls DEF M!Message
<1>3. CASE message # M!Message(response)
  <2>1. message = Gathered /\ (completed => AllTold)
    BY <1>0, <1>1, <1>3 DEF Reply
  <2>2. message.text = response.text
    <3>1. message.text = IF full = <<>> THEN (IF completed THEN response.text ELSE <<>>) ELSE full
      BY <2>1 DEF Gathered, M!Message, M!NoMessage
    <3>2. full # <<>> => full = response.text
      BY <1>0, <1>1, <2>1 DEF Progress, M!Whole, AllTold, M!Spoken
    <3>3. ~completed => full = response.text
      BY <1>1 DEF M!Whole, M!Spoken
    <3> QED
      BY <3>1, <3>2, <3>3
  <2>3. message.calls = IF M!List(acc) = <<>>
                        THEN (IF completed THEN M!Message(response).calls ELSE <<>>)
                        ELSE M!List(acc)
    BY <2>1 DEF Gathered, M!NoMessage
  <2>4. /\ DOMAIN message.calls = M!Indices
        /\ Len(message.calls) = Len(response.calls)
        /\ \A n \in M!Indices : \E i \in M!Indices : message.calls[n] = Final(i)
        /\ \A i \in M!Indices : \E n \in M!Indices : message.calls[n] = Final(i)
    <3>1. CASE M!Called /\ ~(M!List(acc) = <<>> /\ completed)
      BY <1>0, <2>3, <3>1, AllListed
    <3>2. CASE completed /\ M!List(acc) = <<>>
      BY <1>0, <2>3, <3>2, MessageCalls
    <3>3. CASE ~M!Called /\ ~(completed /\ M!List(acc) = <<>>)
      <4>1. completed /\ ~style.calls
        BY <1>1, <2>1, <3>3 DEF M!Whole, AllTold
      <4> QED
        BY <1>0, <3>3, <4>1, NoneListed
    <3> QED
      BY <3>1, <3>2, <3>3
  <2>5. M!Calls(message) = M!Calls(M!Message(response))
    <3> DEFINE whole == M!Message(response).calls
    <3>1. DOMAIN whole = M!Indices /\ \A i \in M!Indices : whole[i] = Final(i)
      BY <1>0, MessageCalls
    <3> HIDE DEF whole
    <3>2. \A n \in DOMAIN message.calls : \E i \in DOMAIN whole : message.calls[n] = whole[i]
      BY <2>4, <3>1
    <3>3. \A i \in DOMAIN whole : \E n \in DOMAIN message.calls : message.calls[n] = whole[i]
      BY <2>4, <3>1
    <3>4. {message.calls[n] : n \in DOMAIN message.calls} = {whole[i] : i \in DOMAIN whole}
      BY <3>2, <3>3
    <3> QED
      BY <3>4 DEF M!Calls, whole
  <2> QED
    BY <2>2, <2>4, <2>5
<1> QED
  BY <1>2, <1>3

LEMMA NamedHolds ==
  ASSUME RequestInv
  PROVE  M!NamedCallsWhole
<1>0. Progress /\ Entries /\ Reply
  BY DEF RequestInv
<1>1. SUFFICES ASSUME NEW n \in DOMAIN message.calls, message.calls[n].name # NoName
               PROVE  message.calls[n] \in M!Calls(M!Message(response))
  BY DEF M!NamedCallsWhole, M!Calls
<1>2. CASE message = M!NoMessage
  BY <1>1, <1>2 DEF M!NoMessage
<1>3. CASE message.calls = M!Message(response).calls
  BY <1>1, <1>3 DEF M!Calls
<1>4. CASE message.calls = M!List(acc)
  <2>1. DOMAIN M!List(acc) = 1..Len(M!Listed(acc))
    BY <1>0, ListProperties DEF Entries
  <2>2. n \in 1..Len(M!Listed(acc))
    BY <1>1, <1>4, <2>1
  <2>3. PICK i \in M!Indices : M!List(acc)[n] = Final(i) \/ M!List(acc)[n].name = NoName
    BY <1>0, <2>2, ListedCall
  <2>4. message.calls[n] = M!Message(response).calls[i] /\ i \in DOMAIN M!Message(response).calls
    BY <1>0, <1>1, <1>4, <2>3, MessageCalls
  <2> QED
    BY <2>4 DEF M!Calls
<1>5. CASE message = Gathered
  BY <1>1, <1>3, <1>4, <1>5 DEF Gathered, M!NoMessage
<1> QED
  BY <1>0, <1>2, <1>3, <1>5 DEF Reply

(* Calls that have ids of their own are paired with their outputs.         *)
OwnIds(calls) ==
  /\ \A n \in 1..Len(calls) : calls[n].id # <<>>
  /\ \A n, k \in 1..Len(calls) : calls[n].id = calls[k].id => n = k

Paired(input) ==
  \A n \in DOMAIN input : input[n].type = "call" =>
    /\ {k \in DOMAIN input : input[k].type = "call" /\ input[k].id = input[n].id} = {n}
    /\ \E l \in DOMAIN input :
         {k \in DOMAIN input : input[k].type = "output" /\ input[k].id = input[n].id} = {l}

LEMMA InputForm ==
  ASSUME NEW m, Len(m.calls) \in Nat, DOMAIN m.calls = 1..Len(m.calls), OwnIds(m.calls)
  PROVE  LET t == IF m.text = <<>> THEN 0 ELSE 1
             c == Len(m.calls)
         IN  /\ DOMAIN M!Input(m) = 1..(t + c + c)
             /\ \A n \in 1..t : M!Input(m)[n].type = "assistant"
             /\ \A n \in 1..c :
                  /\ M!Input(m)[t + n] = [type |-> "call", id |-> m.calls[n].id]
                  /\ M!Input(m)[t + c + n] = [type |-> "output", id |-> m.calls[n].id]
<1> DEFINE t == IF m.text = <<>> THEN 0 ELSE 1
           c == Len(m.calls)
           a == IF m.text = <<>> THEN <<>> ELSE <<[type |-> "assistant", id |-> <<>>]>>
           b == [n \in DOMAIN m.calls |-> [type |-> "call", id |-> m.calls[n].id]]
           d == [n \in DOMAIN m.calls |->
                  [type |-> IF m.calls[n].id = <<>> THEN "user" ELSE "output",
                   id |-> m.calls[n].id]]
           T == {"assistant", "call", "user", "output"}
           I == {<<>>} \cup {m.calls[n].id : n \in 1..c}
           E == [type : T, id : I]
<1>1. a \in Seq(E) /\ Len(a) = t /\ \A n \in 1..t : a[n].type = "assistant"
  <2>1. [type |-> "assistant", id |-> <<>>] \in E
    OBVIOUS
  <2> HIDE DEF E
  <2>2. CASE m.text = <<>>
    BY <2>2
  <2>3. CASE m.text # <<>>
    BY <2>1, <2>3
  <2> QED
    BY <2>2, <2>3
<1>2. b \in Seq(E) /\ Len(b) = c /\ \A n \in 1..c : b[n] = [type |-> "call", id |-> m.calls[n].id]
  OBVIOUS
<1>3. d \in Seq(E) /\ Len(d) = c
      /\ \A n \in 1..c : d[n] = [type |-> "output", id |-> m.calls[n].id]
  BY DEF OwnIds
<1>4. t \in Nat /\ c \in Nat
  OBVIOUS
<1>5. M!Input(m) = (a \o b) \o d
  BY DEF M!Input
<1> HIDE DEF a, b, d, E, t, c
<1>6. /\ a \o b \in Seq(E) /\ Len(a \o b) = t + c
      /\ \A n \in 1..(t + c) : (a \o b)[n] = IF n <= t THEN a[n] ELSE b[n - t]
  <2>1. /\ a \o b \in Seq(E) /\ Len(a \o b) = Len(a) + Len(b)
        /\ \A n \in 1..(Len(a) + Len(b)) :
             (a \o b)[n] = IF n <= Len(a) THEN a[n] ELSE b[n - Len(a)]
    BY <1>1, <1>2, ConcatProperties
  <2> QED
    BY <1>1, <1>2, <2>1
<1>7. /\ M!Input(m) \in Seq(E) /\ Len(M!Input(m)) = t + c + c
      /\ \A n \in 1..(t + c + c) :
           M!Input(m)[n] = IF n <= t + c THEN (a \o b)[n] ELSE d[n - (t + c)]
  <2> DEFINE ab == a \o b
  <2>1. ab \in Seq(E) /\ Len(ab) = t + c
    BY <1>6
  <2> HIDE DEF ab
  <2>2. /\ ab \o d \in Seq(E) /\ Len(ab \o d) = Len(ab) + Len(d)
        /\ \A n \in 1..(Len(ab) + Len(d)) :
             (ab \o d)[n] = IF n <= Len(ab) THEN ab[n] ELSE d[n - Len(ab)]
    BY <1>3, <2>1, ConcatProperties
  <2>3. /\ ab \o d \in Seq(E) /\ Len(ab \o d) = t + c + c
        /\ \A n \in 1..(t + c + c) :
             (ab \o d)[n] = IF n <= t + c THEN ab[n] ELSE d[n - (t + c)]
    BY <1>3, <2>1, <2>2
  <2> QED
    BY <1>5, <2>3 DEF ab
<1>8. DOMAIN M!Input(m) = 1..(t + c + c)
  BY <1>7, LenProperties
<1>9. \A n \in 1..t : M!Input(m)[n].type = "assistant"
  BY <1>1, <1>4, <1>6, <1>7
<1>10. ASSUME NEW n \in 1..c
       PROVE  /\ M!Input(m)[t + n] = [type |-> "call", id |-> m.calls[n].id]
              /\ M!Input(m)[t + c + n] = [type |-> "output", id |-> m.calls[n].id]
  <2>1. /\ t + n \in 1..(t + c) /\ t + n \in 1..(t + c + c) /\ ~(t + n <= t)
        /\ t + c + n \in 1..(t + c + c) /\ ~(t + c + n <= t + c)
        /\ (t + n) - t = n /\ (t + c + n) - (t + c) = n
    BY <1>4
  <2>2. M!Input(m)[t + n] = b[n]
    <3>1. (a \o b)[t + n] = b[(t + n) - t]
      BY <1>6, <2>1
    <3>2. M!Input(m)[t + n] = (a \o b)[t + n]
      <4> DEFINE x == t + n
      <4>1. x \in 1..(t + c + c) /\ x <= t + c
        BY <1>4, <2>1
      <4> HIDE DEF x
      <4>2. M!Input(m)[x] = (a \o b)[x]
        BY <1>7, <4>1
      <4> QED
        BY <4>2 DEF x
    <3> QED
      BY <2>1, <3>1, <3>2
  <2>3. M!Input(m)[t + c + n] = d[n]
    <3>1. M!Input(m)[t + c + n] = d[(t + c + n) - (t + c)]
      BY <1>7, <2>1
    <3> QED
      BY <2>1, <3>1
  <2> QED
    BY <1>2, <1>3, <2>2, <2>3
<1> QED
  BY <1>8, <1>9, <1>10 DEF t, c

LEMMA InputPaired ==
  ASSUME NEW m, Len(m.calls) \in Nat, DOMAIN m.calls = 1..Len(m.calls), OwnIds(m.calls)
  PROVE  Paired(M!Input(m))
<1> DEFINE t == IF m.text = <<>> THEN 0 ELSE 1
           c == Len(m.calls)
           input == M!Input(m)
           id(n) == m.calls[n].id
<1>1. t \in Nat /\ c \in Nat
  OBVIOUS
<1>2. /\ DOMAIN input = 1..(t + c + c)
      /\ \A n \in 1..t : input[n].type = "assistant"
      /\ \A n \in 1..c : /\ input[t + n] = [type |-> "call", id |-> id(n)]
                         /\ input[t + c + n] = [type |-> "output", id |-> id(n)]
  BY InputForm
<1>3. \A n, k \in 1..c : id(n) = id(k) => n = k
  BY DEF OwnIds
<1> HIDE DEF t, c, input, id
<1>4. ASSUME NEW n \in 1..c
      PROVE  /\ input[t + n].type = "call" /\ input[t + n].id = id(n)
             /\ input[t + c + n].type = "output" /\ input[t + c + n].id = id(n)
  <2>1. /\ input[t + n] = [type |-> "call", id |-> id(n)]
        /\ input[t + c + n] = [type |-> "output", id |-> id(n)]
    BY <1>2
  <2> QED
    BY <2>1
<1>5. ASSUME NEW n \in DOMAIN input
      PROVE  \/ n \in 1..t
             \/ \E k \in 1..c : n = t + k
             \/ \E k \in 1..c : n = t + c + k
  <2>1. CASE n <= t
    BY <1>1, <1>2, <2>1
  <2>2. CASE t < n /\ n <= t + c
    <3>1. n - t \in 1..c /\ n = t + (n - t)
      BY <1>1, <1>2, <2>2
    <3> QED
      BY <3>1
  <2>3. CASE t + c < n
    <3>1. n - (t + c) \in 1..c /\ n = t + c + (n - (t + c))
      BY <1>1, <1>2, <2>3
    <3> QED
      BY <3>1
  <2> QED
    BY <1>1, <1>2, <2>1, <2>2, <2>3
<1>6. SUFFICES ASSUME NEW n \in DOMAIN input, input[n].type = "call"
               PROVE  /\ {k \in DOMAIN input : input[k].type = "call" /\ input[k].id = input[n].id}
                           = {n}
                      /\ \E l \in DOMAIN input :
                           {k \in DOMAIN input :
                              input[k].type = "output" /\ input[k].id = input[n].id} = {l}
  BY DEF Paired, input
<1>7. PICK j \in 1..c : n = t + j
  BY <1>2, <1>4, <1>5, <1>6
<1>8. input[n].id = id(j)
  BY <1>4, <1>7
<1>9. ASSUME NEW k \in DOMAIN input, input[k].type = "call", input[k].id = input[n].id
      PROVE  k = n
  <2>1. PICK l \in 1..c : k = t + l
    BY <1>2, <1>4, <1>5, <1>9
  <2>2. l = j
    BY <1>3, <1>4, <1>8, <1>9, <2>1
  <2> QED
    BY <1>7, <2>1, <2>2
<1>10. ASSUME NEW k \in DOMAIN input, input[k].type = "output", input[k].id = input[n].id
       PROVE  k = t + c + j
  <2>1. PICK l \in 1..c : k = t + c + l
    BY <1>2, <1>4, <1>5, <1>10
  <2>2. l = j
    BY <1>3, <1>4, <1>8, <1>10, <2>1
  <2> QED
    BY <2>1, <2>2
<1>11. /\ t + c + j \in DOMAIN input /\ input[t + c + j].type = "output"
       /\ input[t + c + j].id = input[n].id
  BY <1>1, <1>2, <1>4, <1>8
<1>12. {k \in DOMAIN input : input[k].type = "output" /\ input[k].id = input[n].id}
         = {t + c + j}
  BY <1>10, <1>11
<1> QED
  BY <1>6, <1>9, <1>11, <1>12

LEMMA ListedIds ==
  ASSUME Progress, Entries
  PROVE  OwnIds(M!List(acc))
<1> DEFINE keys == M!Listed(acc)
<1>1. IsAcc(acc)
  BY DEF Entries
<1>2. Len(M!List(acc)) = Len(keys) /\ Distinct(keys)
  BY <1>1, ListProperties
<1>3. ASSUME NEW n \in 1..Len(keys)
      PROVE  \E i \in M!Indices :
               \/ keys[n] = FinalKey(i) /\ M!List(acc)[n].id = M!Call(i)
               \/ keys[n] \in {M!Item(i), M!Output(i)} /\ M!List(acc)[n].id = keys[n]
  <2>1. \A i : Final(i).id = M!Call(i)
    BY DEF Final
  <2> QED
    BY <2>1, ListedCall
<1> HIDE DEF keys
<1>4. ASSUME NEW n \in 1..Len(keys) PROVE M!List(acc)[n].id # <<>>
  <2>1. \A i : M!Item(i) # <<>> /\ M!Output(i) # <<>> /\ M!Call(i) # <<>>
    BY DEF M!Item, M!Output, M!Call
  <2> QED
    BY <1>3, <2>1
<1>5. ASSUME NEW n \in 1..Len(keys), NEW k \in 1..Len(keys), M!List(acc)[n].id = M!List(acc)[k].id
      PROVE  keys[n] = keys[k]
  <2>1. PICK i \in M!Indices :
          \/ keys[n] = FinalKey(i) /\ M!List(acc)[n].id = M!Call(i)
          \/ keys[n] \in {M!Item(i), M!Output(i)} /\ M!List(acc)[n].id = keys[n]
    BY <1>3
  <2>2. PICK j \in M!Indices :
          \/ keys[k] = FinalKey(j) /\ M!List(acc)[k].id = M!Call(j)
          \/ keys[k] \in {M!Item(j), M!Output(j)} /\ M!List(acc)[k].id = keys[k]
    BY <1>3
  <2> QED
    BY <1>5, <2>1, <2>2, KeysDiffer
<1> QED
  BY <1>2, <1>4, <1>5 DEF OwnIds, Distinct

LEMMA PairedHolds ==
  ASSUME RequestInv
  PROVE  M!CallsPaired
<1>0. Progress /\ Entries /\ Reply
  BY DEF RequestInv
<1>1. CASE message.calls = <<>>
  <2>1. /\ DOMAIN message.calls = 1..Len(message.calls)
        /\ Len(message.calls) = 0 /\ Len(message.calls) \in Nat
    BY <1>1
  <2>2. OwnIds(message.calls)
    BY <2>1 DEF OwnIds
  <2> QED
    BY <2>1, <2>2, InputPaired DEF Paired, M!CallsPaired
<1>2. CASE message.calls = M!Message(response).calls
  <2>1. /\ DOMAIN message.calls = 1..Len(message.calls) /\ Len(message.calls) \in Nat
        /\ \A n \in 1..Len(message.calls) : message.calls[n].id = M!Call(n)
    <3>1. \A i : Final(i).id = M!Call(i)
      BY DEF Final
    <3> QED
      BY <1>0, <1>2, <3>1, ResponseFacts, MessageCalls
  <2>2. OwnIds(message.calls)
    <3>1. \A i : M!Call(i) # <<>>
      BY DEF M!Call
    <3> QED
      BY <2>1, <3>1, KeysDiffer DEF OwnIds
  <2> QED
    BY <2>1, <2>2, InputPaired DEF Paired, M!CallsPaired
<1>3. CASE message.calls = M!List(acc)
  <2>1. /\ DOMAIN M!List(acc) = 1..Len(M!Listed(acc)) /\ Len(M!List(acc)) = Len(M!Listed(acc))
        /\ M!Listed(acc) \in Seq(DOMAIN acc.items)
    BY <1>0, ListProperties DEF Entries
  <2>2. Len(M!Listed(acc)) \in Nat
    BY <2>1, LenProperties
  <2>3. OwnIds(M!List(acc))
    BY <1>0, ListedIds
  <2> QED
    BY <1>3, <2>1, <2>2, <2>3, InputPaired DEF Paired, M!CallsPaired
<1>4. message.calls \in {<<>>, M!Message(response).calls, M!List(acc)}
  BY <1>0 DEF Reply, Gathered, M!NoMessage
<1> QED
  BY <1>1, <1>2, <1>3, <1>4

-----------------------------------------------------------------------------
AssistantInv == ConfigInv /\ LoaderInv /\ RunInv /\ RequestInv

LEMMA AssistantInvAlways == Spec => []AssistantInv
<1>1. Init => AssistantInv
  BY ConfigInit, LoaderInit, RunInit, RequestInit DEF Init, AssistantInv
<1>2. AssistantInv /\ [Next]_vars => AssistantInv'
  <2> SUFFICES ASSUME AssistantInv, [Next]_vars PROVE AssistantInv'
    OBVIOUS
  <2>1. UNCHANGED loaderVars => LoaderInv'
    BY DEF AssistantInv, LoaderInv, loaderVars
  <2>2. UNCHANGED skillVars => RunInv'
    BY DEF AssistantInv, RunInv, InOrder, skillVars, S!RefusedWhenTooLong, S!Workflow
  <2>3. UNCHANGED requestVars => RequestInv'
    BY RequestStep DEF AssistantInv, MoreIsRead, M!vars, M!server, requestVars
  <2>4. UNCHANGED configVars => ConfigInv'
    BY ConfigStep DEF AssistantInv
  <2>5. CASE Configure
    BY <2>1, <2>2, <2>3, <2>5, ConfigStep DEF Configure, AssistantInv
  <2>6. ASSUME NEW c \in Callers, Load(c) PROVE AssistantInv'
    BY <2>2, <2>3, <2>4, <2>6, LoaderStep DEF Load, AssistantInv
  <2>7. ASSUME NEW s \in P!States, Edit(s) PROVE AssistantInv'
    BY <2>2, <2>3, <2>4, <2>7, LoaderEdit DEF Edit, AssistantInv
  <2>8. CASE Ask
    BY <2>1, <2>2, <2>4, <2>8, RequestStep DEF Ask, AssistantInv, MoreIsRead
  <2>9. CASE RunSkill
    BY <2>1, <2>3, <2>4, <2>9, RunBegins DEF RunSkill, AssistantInv
  <2>10. CASE Walk
    BY <2>1, <2>3, <2>4, <2>10, WalkStep DEF Walk, AssistantInv
  <2>11. CASE UNCHANGED vars
    BY <2>1, <2>2, <2>3, <2>4, <2>11
       DEF vars, loaderVars, skillVars, requestVars, AssistantInv
  <2> QED
    BY <2>5, <2>6, <2>7, <2>8, <2>9, <2>10, <2>11 DEF Next
<1> QED
  BY <1>1, <1>2, PTL DEF Spec

(* However .env repeats and orders its lines, each value comes from the    *)
(* highest-ranking source that gives one.                                  *)
THEOREM ConfigIsRanked == Spec => []SourcesRank
<1> QED
  BY AssistantInvAlways, RankHolds, PTL DEF AssistantInv

(* A turn gets a prompt the file held while the turn was loading it,       *)
(* however many load it at once and whenever it is edited.                 *)
THEOREM PromptIsRecent == Spec => []LoadIsRecent
<1>1. AssistantInv => LoadIsRecent
  <2> SUFFICES ASSUME LoaderInv, NEW c \in Callers, pc[c] = "returned", data[c] # Failure
               PROVE  \E n \in stat[c]..P!ModTime : past[n] = data[c]
    BY DEF AssistantInv, LoadIsRecent, P!LoadIsRecent
  <2>1. PICK k \in 1..Len(past) : stat[c] <= k /\ past[k] = data[c]
    BY DEF LoaderInv, HeldSince
  <2>2. stat[c] \in Nat /\ Len(past) \in Nat
    BY LenProperties DEF LoaderInv
  <2> QED
    BY <2>1, <2>2 DEF P!ModTime
<1> QED
  BY <1>1, AssistantInvAlways, PTL

(* A skill followed in its order is refused as too long just when it is,   *)
(* whatever its steps and its limit.                                       *)
THEOREM LongSkillsRefused == Spec => []RefusedWhenTooLong
<1>1. AssistantInv => RefusedWhenTooLong
  BY DEF AssistantInv, RunInv, RefusedWhenTooLong
<1> QED
  BY <1>1, AssistantInvAlways, PTL

(* A run never does more steps than its limit allows.                      *)
Counted ==
  /\ run = "idle" => executed = 0
  /\ run = "running" => executed \in 0..S!Limit(skill)

LEMMA CountedStep == RunInv /\ Counted /\ [Next]_vars => Counted'
<1> SUFFICES ASSUME RunInv, Counted, [Next]_vars PROVE Counted'
  OBVIOUS
<1>1. CASE UNCHANGED skillVars
  BY <1>1 DEF Counted, skillVars
<1>2. ASSUME NEW s \in Skills, S!Refuse(s) \/ S!Begin(s) PROVE Counted'
  BY <1>2, LimitIsPositive DEF Counted, S!Refuse, S!Begin
<1>3. CASE Walk
  <2>1. run = "running" => S!Limit(skill) \in Nat \ {0}
    BY LimitIsPositive DEF RunInv
  <2>2. CASE S!GoOn \/ \E id : S!Jump(id)
    <3>1. /\ run = "running" /\ executed < S!Limit(skill)
          /\ executed' = executed + 1 /\ skill' = skill
          /\ run' # "idle"
      BY <2>2 DEF S!GoOn, S!Jump, S!Running, S!Output
    <3> QED
      BY <2>1, <3>1 DEF Counted
  <2>3. CASE S!End \/ S!StepFails \/ S!Leave
    BY <2>3 DEF S!End, S!StepFails, S!Leave, Counted
  <2> QED
    BY <1>3, <2>2, <2>3 DEF Walk, S!Walk
<1> QED
  BY <1>1, <1>2, <1>3
     DEF Next, Configure, Load, Edit, Ask, RunSkill, vars

LEMMA CountedAlways == Spec => []Counted
<1>1. Init => Counted
  BY DEF Init, S!Init, Counted
<1> QED
  BY <1>1, CountedStep, AssistantInvAlways, PTL DEF Spec, AssistantInv

(* What a run has left: the steps it may still do, and its end.            *)
StepsLeft == IF run = "running" THEN S!Limit(skill) + 1 - executed ELSE 0

(* A step while a run goes on is its own and uses up one of those it has   *)
(* left, or leaves the run as it is.                                       *)
RunsRunDown ==
  run = "running" =>
    \/ Walk /\ 0 <= StepsLeft' /\ StepsLeft' < StepsLeft
    \/ UNCHANGED skillVars

(* However the model jumps, each step of a run uses up one of the steps it *)
(* is allowed, and nothing gives one back.                                 *)
THEOREM RunsUseUpSteps == Spec => [][RunsRunDown]_vars
<1>1. RunInv /\ Counted /\ Counted' /\ [Next]_vars => [RunsRunDown]_vars
  <2> SUFFICES ASSUME RunInv, Counted, Counted', Next, run = "running"
               PROVE  \/ Walk /\ 0 <= StepsLeft' /\ StepsLeft' < StepsLeft
                      \/ UNCHANGED skillVars
    BY DEF RunsRunDown
  <2>1. S!Limit(skill) \in Nat \ {0} /\ executed \in 0..S!Limit(skill)
    BY LimitIsPositive DEF RunInv, Counted
  <2>2. ~RunSkill
    BY DEF RunSkill, S!Refuse, S!Begin
  <2>3. ASSUME S!Walk PROVE 0 <= StepsLeft' /\ StepsLeft' < StepsLeft
    <3>1. skill' = skill /\ (run' = "running" => executed' = executed + 1)
      BY <2>3 DEF S!Walk, S!GoOn, S!Jump, S!End, S!StepFails, S!Leave, S!Output
    <3>2. StepsLeft = S!Limit(skill) + 1 - executed
      BY DEF StepsLeft
    <3>3. CASE run' = "running"
      <4>1. StepsLeft' = S!Limit(skill) + 1 - executed' /\ executed' \in 0..S!Limit(skill)
        BY <3>1, <3>3 DEF StepsLeft, Counted
      <4> QED
        BY <2>1, <3>1, <3>2, <3>3, <4>1
    <3>4. CASE run' # "running"
      <4>1. StepsLeft' = 0
        BY <3>4 DEF StepsLeft
      <4> QED
        BY <2>1, <3>2, <4>1
    <3> QED
      BY <3>3, <3>4
  <2> QED
    BY <2>2, <2>3 DEF Next, Walk, Configure, Load, Edit, Ask
<1> QED
  BY <1>1, CountedAlways, AssistantInvAlways, PTL DEF Spec, AssistantInv

(* However a server tells a response, a stream told to its end puts it     *)
(* together again: the text, and every call once with its arguments.       *)
THEOREM StreamsReassemble == Spec => []ResponseReassembled
<1>1. AssistantInv => ResponseReassembled
  BY ReassembledHolds DEF AssistantInv, ResponseReassembled
<1> QED
  BY <1>1, AssistantInvAlways, PTL

(* Wherever a stream breaks off, no call with half its arguments is run.   *)
THEOREM NoHalfCalls == Spec => []NamedCallsWhole
<1>1. AssistantInv => NamedCallsWhole
  BY NamedHolds DEF AssistantInv, NamedCallsWhole
<1> QED
  BY <1>1, AssistantInvAlways, PTL

(* The next request has one output for each call it repeats.               *)
THEOREM CallsKeepOutputs == Spec => []CallsPaired
<1>1. AssistantInv => CallsPaired
  BY PairedHolds DEF AssistantInv, CallsPaired
<1> QED
  BY <1>1, AssistantInvAlways, PTL
=============================================================================
