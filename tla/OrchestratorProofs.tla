------------------------- MODULE OrchestratorProofs -------------------------
(* Proofs about Orchestrator, for any turns, messages, texts and bounds.   *)
EXTENDS Orchestrator, SequenceTheorems, WellFoundedInduction, TLAPS

-----------------------------------------------------------------------------
(* Induction up to a bound, from the least counterexample. *)
LEMMA LeastElement ==
  ASSUME NEW T \in SUBSET Nat, T # {}
  PROVE  \E n \in T : \A k \in T : n <= k
<1> DEFINE R == {ss \in Nat \X Nat : ss[1] < ss[2]}
<1>1. IsWellFoundedOn(R, Nat)
  BY NatLessThanWellFounded DEF OpToRel
<1>2. ASSUME NEW n \in Nat, NEW k \in Nat, <<k, n>> \notin R PROVE n <= k
  <2>1. ~ (k < n)
    BY <1>2
  <2> QED
    BY <2>1
<1> HIDE DEF R
<1>3. \E n \in T : \A k \in T : <<k, n>> \notin R
  BY <1>1, WFMin
<1> QED
  BY <1>2, <1>3

LEMMA InductionUpTo ==
  ASSUME NEW m \in Nat, NEW G, 0 \in G, \A n \in 1..m : n - 1 \in G => n \in G
  PROVE  0..m \subseteq G
<1> DEFINE T == {n \in 0..m : n \notin G}
<1>1. SUFFICES ASSUME T # {} PROVE FALSE
  OBVIOUS
<1>2. T \in SUBSET Nat
  OBVIOUS
<1>3. PICK n \in T : \A k \in T : n <= k
  BY <1>1, <1>2, LeastElement
<1>4. n \in 1..m /\ n - 1 \in 0..m
  BY <1>3
<1>5. n - 1 \in G
  BY <1>3, <1>4
<1> QED
  BY <1>3, <1>4, <1>5

-----------------------------------------------------------------------------
(* What is read back from Feishu. *)
ToldStep(f, page, n) ==
  IF n = 0 THEN <<>>
  ELSE IF page[n].text \in Untold THEN f[n - 1]
  ELSE Append(f[n - 1], page[n])

LEMMA ToldExists ==
  ASSUME NEW m \in Nat, NEW page
  PROVE  \E f : f = [n \in 0..m |-> ToldStep(f, page, n)]
<1> DEFINE Is(f, n) == f = [i \in 0..n |-> ToldStep(f, page, i)]
           G == {n \in 0..m : \E f : Is(f, n)}
<1>1. 0 \in G
  <2> DEFINE f == [i \in 0..0 |-> <<>>]
  <2>1. f = [i \in 0..0 |-> ToldStep(f, page, i)]
    BY DEF ToldStep
  <2> QED
    BY <2>1
<1>2. ASSUME NEW n \in 1..m, n - 1 \in G PROVE n \in G
  <2>1. PICK f : Is(f, n - 1)
    BY <1>2
  <2> DEFINE g == [i \in 0..n |-> ToldStep(f, page, i)]
  <2>2. \A i \in 0..n - 1 : g[i] = f[i]
    BY <2>1
  <2>3. ASSUME NEW i \in 0..n PROVE ToldStep(f, page, i) = ToldStep(g, page, i)
    <3>1. CASE i = 0
      BY <3>1 DEF ToldStep
    <3>2. CASE i # 0
      <4>1. i - 1 \in 0..n-1
        BY <3>2
      <4> QED
        BY <3>2, <4>1, <2>2 DEF ToldStep
    <3> QED
      BY <3>1, <3>2
  <2>4. g = [i \in 0..n |-> ToldStep(g, page, i)]
    BY <2>3
  <2> HIDE DEF g
  <2> QED
    BY <2>4
<1> HIDE DEF G
<1>3. 0..m \subseteq G
  BY <1>1, <1>2, InductionUpTo
<1> QED
  BY <1>3 DEF G

(* What is no history never comes through. *)
LEMMA ToldIsHistory ==
  ASSUME NEW S, NEW page \in Seq(S)
  PROVE  Told(page) \in Seq({e \in S : e.text \notin Untold})
<1> DEFINE F == CHOOSE f : f = [n \in 0..Len(page) |-> ToldStep(f, page, n)]
           K == {e \in S : e.text \notin Untold}
           G == {n \in 0..Len(page) : F[n] \in Seq(K)}
<1>0. Len(page) \in Nat
  BY LenProperties
<1>1. F = [n \in 0..Len(page) |-> ToldStep(F, page, n)]
  BY <1>0, ToldExists
<1>2. Told(page) = F[Len(page)]
  BY DEF Told, ToldStep
<1> HIDE DEF F
<1>3. 0 \in G
  BY <1>0, <1>1 DEF ToldStep
<1>4. ASSUME NEW n \in 1..Len(page), n - 1 \in G PROVE n \in G
  <2>1. n \in 0..Len(page) /\ n # 0 /\ F[n] = ToldStep(F, page, n)
    BY <1>0, <1>1
  <2>2. page[n] \in S
    BY ElementOfSeq
  <2>3. F[n - 1] \in Seq(K)
    BY <1>4
  <2>4. CASE page[n].text \in Untold
    BY <2>1, <2>3, <2>4 DEF ToldStep
  <2>5. CASE page[n].text \notin Untold
    <3>1. page[n] \in K
      BY <2>2, <2>5
    <3>2. F[n] = Append(F[n - 1], page[n])
      BY <2>1, <2>5 DEF ToldStep
    <3> HIDE DEF K
    <3>3. F[n] \in Seq(K)
      BY <2>3, <3>1, <3>2, AppendProperties
    <3> QED
      BY <2>1, <3>3
  <2> QED
    BY <2>4, <2>5
<1> HIDE DEF G
<1>5. 0..Len(page) \subseteq G
  BY <1>0, <1>3, <1>4, InductionUpTo
<1> QED
  BY <1>0, <1>2, <1>5 DEF G

(* The end of a sequence, its last element with it. *)
LEMMA NewestProperties ==
  ASSUME NEW S, NEW s \in Seq(S), NEW n \in Nat
  PROVE  /\ Newest(s, n) \in Seq(S)
         /\ Len(Newest(s, n)) <= n
         /\ n > 0 /\ s # <<>> =>
              /\ Len(Newest(s, n)) > 0
              /\ Newest(s, n)[Len(Newest(s, n))] = s[Len(s)]
<1>0. Len(s) \in Nat /\ (s # <<>> => Len(s) > 0)
  BY LenProperties, EmptySeq
<1>1. CASE Len(s) <= n
  BY <1>0, <1>1 DEF Newest
<1>2. CASE Len(s) > n
  <2> DEFINE m == Len(s) - n + 1
  <2>1. m \in 1..Len(s) + 1 /\ Newest(s, n) = SubSeq(s, m, Len(s)) /\ Len(s) - m + 1 = n
    BY <1>0, <1>2 DEF Newest
  <2> HIDE DEF m
  <2>2. \A i \in m..Len(s) : s[i] \in S
    BY <1>0, <2>1, ElementOfSeq
  <2>3. /\ SubSeq(s, m, Len(s)) \in Seq(S)
        /\ Len(SubSeq(s, m, Len(s))) = n
        /\ \A i \in 1..n : SubSeq(s, m, Len(s))[i] = s[m + i - 1]
    BY <1>0, <1>2, <2>1, <2>2, SubSeqProperties
  <2>4. n > 0 => n \in 1..n /\ m + n - 1 = Len(s)
    BY <1>0, <2>1
  <2> QED
    BY <2>1, <2>3, <2>4
<1> QED
  BY <1>0, <1>1, <1>2

LEMMA LimitsAreNat ==
  ASSUME NEW limit \in Nat
  PROVE  /\ FetchLimit(limit) \in Nat /\ PageSize(limit) \in Nat
         /\ limit > 0 => FetchLimit(limit) = limit
<1>1. FetchLimit(limit) \in Nat /\ (limit > 0 => FetchLimit(limit) = limit)
  BY PagesAssumption DEF FetchLimit
<1>2. FetchLimit(limit) * Factor \in Nat
  BY <1>1, PagesAssumption
<1> QED
  BY <1>1, <1>2, PagesAssumption DEF PageSize

(* A topic read back: entries of the session, none of them a placeholder   *)
(* or a recalled message, and no more of them than the limit.              *)
LEMMA ReadBackType ==
  ASSUME NEW id \in Sessions, NEW recent \in ReadBack[id]
  PROVE  /\ recent \in Seq(Entries)
         /\ MaxHistory > 0 => Len(recent) <= MaxHistory
<1> DEFINE Known == {e \in Said(id) : e.text \notin Untold}
<1>1. PICK topic \in Topics(id) : recent = FromFeishu(topic, MaxHistory)
  BY DEF ReadBack
<1>2. topic \in Seq(Said(id))
  BY <1>1, MaxTopicAssumption DEF Topics
<1>3. Known \subseteq Entries
  BY UntoldAssumption DEF Said, Entry, Entries, Replies
<1>4. /\ FetchLimit(MaxHistory) \in Nat /\ PageSize(MaxHistory) \in Nat
      /\ MaxHistory > 0 => FetchLimit(MaxHistory) = MaxHistory
  BY LimitsAreNat, MaxHistoryAssumption
<1>5. Newest(topic, PageSize(MaxHistory)) \in Seq(Said(id))
  BY <1>2, <1>4, NewestProperties
<1>6. Told(Newest(topic, PageSize(MaxHistory))) \in Seq(Known)
  BY <1>5, ToldIsHistory
<1> HIDE DEF Known
<1>7. recent \in Seq(Known) /\ Len(recent) <= FetchLimit(MaxHistory)
  BY <1>1, <1>4, <1>6, NewestProperties DEF FromFeishu
<1>8. recent \in Seq(Entries)
  BY <1>3, <1>7
<1> QED
  BY <1>4, <1>7, <1>8

LEMMA TrimmedProperties ==
  ASSUME NEW S, NEW s \in Seq(S)
  PROVE  /\ Trimmed(s) \in Seq(S)
         /\ MaxHistory > 0 => Len(Trimmed(s)) <= MaxHistory
         /\ s # <<>> => /\ Len(Trimmed(s)) > 0
                        /\ Trimmed(s)[Len(Trimmed(s))] = s[Len(s)]
<1>1. Len(s) \in Nat /\ (s # <<>> => Len(s) > 0)
  BY LenProperties, EmptySeq
<1> QED
  BY <1>1, NewestProperties, MaxHistoryAssumption DEF Trimmed

(* The history of a turn, wherever it comes from. *)
LEMMA RecentType ==
  ASSUME TypeOK, NEW id \in Sessions, NEW recent \in RecentMessages(id)
  PROVE  /\ recent \in Seq(Entries)
         /\ MaxHistory > 0 => Len(recent) <= MaxHistory
<1>1. CASE source = "memory"
  <2>1. log[id] \in Seq(Entries) /\ recent = Trimmed(log[id])
    BY <1>1 DEF TypeOK, RecentMessages
  <2> QED
    BY <2>1, TrimmedProperties
<1>2. CASE source # "memory"
  BY <1>2, ReadBackType DEF RecentMessages
<1> QED
  BY <1>1, <1>2

(* The message to be answered is in what EnsureCurrent makes of it. *)
LEMMA EnsureCurrentProperties ==
  ASSUME NEW t \in Turns, message[t] \in Messages, NEW s \in Seq(Entries),
         MaxHistory > 0 => Len(s) <= MaxHistory
  PROVE  /\ EnsureCurrent(s, t) \in Seq(Entries)
         /\ MaxHistory > 0 => Len(EnsureCurrent(s, t)) <= MaxHistory
         /\ Mentions(EnsureCurrent(s, t), message[t])
<1> DEFINE e == Entry(t, message[t], "user", NoText)
           long == Append(s, e)
<1>1. e \in Entries /\ e.role = "user" /\ e.from = message[t]
  BY DEF Entry, Entries
<1> HIDE DEF e
<1>2. /\ long \in Seq(Entries) /\ long # <<>> /\ long[Len(long)] = e
  BY <1>1, AppendProperties
<1> HIDE DEF long
<1>3. CASE Mentions(s, message[t])
  BY <1>3 DEF EnsureCurrent
<1>4. CASE ~Mentions(s, message[t])
  <2>1. EnsureCurrent(s, t) = Trimmed(long)
    BY <1>4 DEF EnsureCurrent, long, e
  <2>2. /\ Trimmed(long) \in Seq(Entries)
        /\ MaxHistory > 0 => Len(Trimmed(long)) <= MaxHistory
        /\ Len(Trimmed(long)) > 0
        /\ Trimmed(long)[Len(Trimmed(long))] = e
    BY <1>2, TrimmedProperties
  <2>3. Len(Trimmed(long)) \in 1..Len(Trimmed(long))
    BY <2>2, LenProperties
  <2>4. Mentions(Trimmed(long), message[t])
    BY <1>1, <2>2, <2>3 DEF Mentions
  <2> QED
    BY <2>1, <2>2, <2>4
<1> QED
  BY <1>3, <1>4

-----------------------------------------------------------------------------
(* Whose step it is. *)
TurnStep(t) ==
  \/ \E m \in Messages, onUpdate \in BOOLEAN :
       StartBlank(t, m, onUpdate) \/ Start(t, m, onUpdate)
  \/ Step(t)
  \/ \E x \in Answers : Delta(t, x)

LEMMA NextIsTurnStep == Next <=> \E t \in Turns : TurnStep(t)
  BY DEF Next, TurnStep

(* A turn has its message from its first step on. *)
Begun(t) == pc[t] # "idle" => message[t] \in Messages

(* The results are those of the first calls, of all when no call is left.  *)
Called(t) ==
  /\ pc[t] \in Before \cup {"first"} => calls[t] = <<>> /\ results[t] = <<>>
  /\ pc[t] = "tools" =>
       /\ Len(results[t]) < Len(calls[t])
       /\ \A i \in 1..Len(results[t]) : results[t][i] = calls[t][i]
  /\ pc[t] \in {"final", "chat", "saving"} => results[t] = calls[t]

(* A tool has a call to take its result from: types rest on that too.      *)
TypeInv == TypeOK /\ \A t \in Turns : Begun(t) /\ Called(t)

LEMMA TypeInvInit == Init => TypeInv
<1>1. <<>> \in Seq(Entries) /\ <<>> \in Seq(Calls)
  BY EmptySeq
<1> QED
  BY <1>1 DEF Init, TypeInv, TypeOK, Begun, Called, NoUpdate, Before

(* A step of one turn keeps every type. *)
LEMMA TypeStep ==
  ASSUME TypeInv, NEW t \in Turns, TurnStep(t)
  PROVE  TypeOK' /\ \A u \in Turns : Begun(u)'
<1> DEFINE Types == TypeOK /\ \A u \in Turns : Begun(u)
<1>0. Types /\ Called(t)
  BY DEF TypeInv
<1> USE <1>0 DEF TypeOK, Begun, config, Goto
<1>1. ASSUME NEW m \in Messages, NEW onUpdate \in BOOLEAN, StartBlank(t, m, onUpdate)
      PROVE  Types'
  BY <1>1 DEF StartBlank, Ended, Replies
<1>2. ASSUME NEW m \in Messages, NEW onUpdate \in BOOLEAN, Start(t, m, onUpdate)
      PROVE  Types'
  <2>1. SessionId(m) \in Sessions /\ Entry(t, m, "user", NoText) \in Entries
    BY DEF Sessions, Entry, Entries
  <2>2. Append(log[SessionId(m)], Entry(t, m, "user", NoText)) \in Seq(Entries)
    BY <2>1, AppendProperties
  <2>3. log' \in [Sessions -> Seq(Entries)]
    BY <1>2, <2>1, <2>2 DEF Start
  <2> QED
    BY <1>2, <2>3 DEF Start, Before
<1>3. CASE LoadPrompt(t)
  BY <1>3 DEF LoadPrompt, Before, Ended
<1>4. CASE HistoryFails(t)
  BY <1>4 DEF HistoryFails, Ended
<1>5. ASSUME NEW images \in BOOLEAN, BuildPrompt(t, images) PROVE Types'
  <2>1. message[t] \in Messages /\ SessionId(message[t]) \in Sessions
    BY <1>5 DEF BuildPrompt, Sessions
  <2>2. PICK recent \in RecentMessages(SessionId(message[t])) :
          history' = [history EXCEPT ![t] = EnsureCurrent(recent, t)]
    BY <1>5 DEF BuildPrompt
  <2>3. EnsureCurrent(recent, t) \in Seq(Entries)
    BY <2>1, RecentType, EnsureCurrentProperties
  <2>4. history' \in [Turns -> Seq(Entries)]
    BY <2>2, <2>3
  <2>5. pc' \in [Turns -> Before \cup Asked \cup Ended]
    BY <1>5 DEF BuildPrompt, AskFinal, Asked
  <2> QED
    BY <1>5, <2>1, <2>4, <2>5 DEF BuildPrompt, AskFinal
<1>6. ASSUME NEW x \in Answers, NEW cs \in CallLists, FirstAnswer(t, x, cs)
      PROVE  Types'
  <2>1. pc' \in [Turns -> Before \cup Asked \cup Ended]
    BY <1>6 DEF FirstAnswer, AskFinal, Asked
  <2>2. calls' \in [Turns -> Seq(Calls)]
    BY <1>6, CallsAssumption DEF FirstAnswer
  <2>3. reply' \in [Turns -> Replies \cup {NoText}]
    BY <1>6 DEF FirstAnswer, Answers, Replies
  <2>4. update' \in [Turns -> [text : Replies \cup {NoText}, done : BOOLEAN]]
    BY <1>6 DEF FirstAnswer, Tell, Answers, Replies
  <2> QED
    BY <1>6, <2>1, <2>2, <2>3, <2>4 DEF FirstAnswer, AskFinal
<1>7. ASSUME NEW x \in Answers, FinalStream(t, x) PROVE Types'
  <2>1. update' \in [Turns -> [text : Replies \cup {NoText}, done : BOOLEAN]]
    BY <1>7 DEF FinalStream, Tell, Answers, Replies
  <2> QED
    BY <1>7, <2>1 DEF FinalStream, Answers, Replies, Asked
<1>8. ASSUME NEW x \in Answers, FinalChat(t, x) PROVE Types'
  BY <1>8 DEF FinalChat, Answers, Replies, Asked
<1>9. CASE CallTool(t)
  <2>0. Len(results[t]) < Len(calls[t])
    BY <1>9 DEF CallTool, Called
  <2>1. Len(results[t]) + 1 \in 1..Len(calls[t])
    BY <1>9, <2>0, LenProperties
  <2>2. Append(results[t], calls[t][Len(results[t]) + 1]) \in Seq(Calls)
    BY <2>1, ElementOfSeq, AppendProperties
  <2>3. results' \in [Turns -> Seq(Calls)]
    BY <1>9, <2>2 DEF CallTool
  <2> QED
    BY <1>9, <2>3 DEF CallTool, AskFinal, Asked
<1>10. CASE AnswerError(t)
  BY <1>10 DEF AnswerError, Ended
<1>11. CASE Save(t)
  <2> DEFINE id == SessionId(message[t])
             e == Entry(t, message[t], "assistant", reply[t])
  <2>1. id \in Sessions /\ e \in Entries
    BY <1>11 DEF Save, Sessions, Entry, Entries
  <2>2. log' = log \/ log' = [log EXCEPT ![id] = Append(@, e)]
    BY <1>11 DEF Save
  <2> HIDE DEF id, e
  <2>3. Append(log[id], e) \in Seq(Entries)
    BY <2>1, AppendProperties
  <2>4. log' \in [Sessions -> Seq(Entries)]
    BY <2>1, <2>2, <2>3
  <2> QED
    BY <1>11, <2>4 DEF Save, Ended
<1>12. ASSUME NEW x \in Answers, Delta(t, x) PROVE Types'
  BY <1>12 DEF Delta, Answers, Replies
<1> QED
  BY <1>1, <1>2, <1>3, <1>4, <1>5, <1>6, <1>7, <1>8, <1>9, <1>10, <1>11, <1>12
     DEF TurnStep, Step

(* ... and leaves alone what other turns have. *)
Rests(u) ==
  /\ message'[u] = message[u] /\ sink'[u] = sink[u] /\ pc'[u] = pc[u]
  /\ history'[u] = history[u] /\ calls'[u] = calls[u]
  /\ results'[u] = results[u] /\ reply'[u] = reply[u]
  /\ update'[u] = update[u]

LEMMA OthersRest ==
  ASSUME TypeOK, NEW t \in Turns, TurnStep(t), NEW u \in Turns, u # t
  PROVE  Rests(u)
<1> USE DEF TypeOK, Goto, AskFinal, Tell, Rests
<1>1. ASSUME NEW m \in Messages, NEW onUpdate \in BOOLEAN, StartBlank(t, m, onUpdate)
      PROVE  Rests(u)
  BY <1>1 DEF StartBlank
<1>2. ASSUME NEW m \in Messages, NEW onUpdate \in BOOLEAN, Start(t, m, onUpdate)
      PROVE  Rests(u)
  BY <1>2 DEF Start
<1>3. CASE LoadPrompt(t)
  BY <1>3 DEF LoadPrompt
<1>4. CASE HistoryFails(t)
  BY <1>4 DEF HistoryFails
<1>5. ASSUME NEW images \in BOOLEAN, BuildPrompt(t, images) PROVE Rests(u)
  BY <1>5 DEF BuildPrompt
<1>6. ASSUME NEW x \in Answers, NEW cs \in CallLists, FirstAnswer(t, x, cs)
      PROVE  Rests(u)
  BY <1>6 DEF FirstAnswer
<1>7. ASSUME NEW x \in Answers, FinalStream(t, x) PROVE Rests(u)
  BY <1>7 DEF FinalStream
<1>8. ASSUME NEW x \in Answers, FinalChat(t, x) PROVE Rests(u)
  BY <1>8 DEF FinalChat
<1>9. CASE CallTool(t)
  BY <1>9 DEF CallTool
<1>10. CASE AnswerError(t)
  BY <1>10 DEF AnswerError
<1>11. CASE Save(t)
  BY <1>11 DEF Save
<1>12. ASSUME NEW x \in Answers, Delta(t, x) PROVE Rests(u)
  BY <1>12 DEF Delta
<1> QED
  BY <1>1, <1>2, <1>3, <1>4, <1>5, <1>6, <1>7, <1>8, <1>9, <1>10, <1>11, <1>12
     DEF TurnStep, Step

LEMMA ConfigRests ==
  ASSUME NEW t \in Turns, TurnStep(t)
  PROVE  source' = source /\ streams' = streams
  BY DEF TurnStep, StartBlank, Start, Step, LoadPrompt, HistoryFails, BuildPrompt, FirstAnswer,
         FinalStream, FinalChat, CallTool, AnswerError, Save, Delta, config

(* A call that has a result keeps it, and the last result ends the loop.   *)
LEMMA CalledStep ==
  ASSUME TypeInv, NEW t \in Turns, TurnStep(t)
  PROVE  Called(t)'
<1>0. TypeOK /\ Called(t)
  BY DEF TypeInv
<1> USE <1>0 DEF TypeOK, Called, Goto, AskFinal, Before
<1>1. ASSUME NEW m \in Messages, NEW onUpdate \in BOOLEAN, StartBlank(t, m, onUpdate)
      PROVE  Called(t)'
  BY <1>1 DEF StartBlank
<1>2. ASSUME NEW m \in Messages, NEW onUpdate \in BOOLEAN, Start(t, m, onUpdate)
      PROVE  Called(t)'
  BY <1>2 DEF Start
<1>3. CASE LoadPrompt(t)
  BY <1>3 DEF LoadPrompt
<1>4. CASE HistoryFails(t)
  BY <1>4 DEF HistoryFails
<1>5. ASSUME NEW images \in BOOLEAN, BuildPrompt(t, images) PROVE Called(t)'
  BY <1>5 DEF BuildPrompt
<1>6. ASSUME NEW x \in Answers, NEW cs \in CallLists, FirstAnswer(t, x, cs)
      PROVE  Called(t)'
  <2>1. results[t] = <<>> /\ results'[t] = <<>> /\ calls'[t] = cs /\ cs \in Seq(Calls)
    BY <1>6, CallsAssumption DEF FirstAnswer
  <2>2. cs # <<>> => Len(results'[t]) < Len(cs)
    BY <2>1, LenProperties, EmptySeq
  <2>3. CASE cs # <<>>
    BY <1>6, <2>1, <2>2, <2>3 DEF FirstAnswer
  <2>4. CASE cs = <<>>
    BY <1>6, <2>1, <2>4 DEF FirstAnswer
  <2> QED
    BY <2>3, <2>4
<1>7. ASSUME NEW x \in Answers, FinalStream(t, x) PROVE Called(t)'
  BY <1>7 DEF FinalStream
<1>8. ASSUME NEW x \in Answers, FinalChat(t, x) PROVE Called(t)'
  BY <1>8 DEF FinalChat
<1>9. CASE CallTool(t)
  <2> DEFINE n == Len(results[t])
             all == Len(calls[t])
  <2>1. /\ n < all
        /\ \A i \in 1..n : results[t][i] = calls[t][i]
        /\ results[t] \in Seq(Calls) /\ calls[t] \in Seq(Calls)
    BY <1>9 DEF CallTool
  <2>2. n \in Nat /\ all \in Nat /\ n + 1 \in 1..all
    BY <2>1, LenProperties
  <2>3. results'[t] = Append(results[t], calls[t][n + 1]) /\ calls'[t] = calls[t]
    BY <1>9 DEF CallTool
  <2>4. calls[t][n + 1] \in Calls
    BY <2>1, <2>2, ElementOfSeq
  <2>5. /\ results'[t] \in Seq(Calls) /\ Len(results'[t]) = n + 1
        /\ \A i \in 1..n + 1 : results'[t][i] = calls[t][i]
    BY <2>1, <2>2, <2>3, <2>4, AppendProperties
  <2>6. CASE n + 1 = all
    <3>1. results'[t] = calls'[t]
      BY <2>1, <2>2, <2>3, <2>5, <2>6, LenProperties
    <3>2. pc'[t] \in {"final", "chat"}
      BY <1>9, <2>6 DEF CallTool
    <3> QED
      BY <3>1, <3>2
  <2>7. CASE n + 1 # all
    <3>1. pc'[t] = "tools"
      BY <1>9, <2>7 DEF CallTool
    <3>2. n + 1 < all
      BY <2>2, <2>7
    <3> QED
      BY <2>3, <2>5, <3>1, <3>2
  <2> QED
    BY <2>6, <2>7
<1>10. CASE AnswerError(t)
  BY <1>10 DEF AnswerError
<1>11. CASE Save(t)
  BY <1>11 DEF Save
<1>12. ASSUME NEW x \in Answers, Delta(t, x) PROVE Called(t)'
  BY <1>12 DEF Delta
<1> QED
  BY <1>1, <1>2, <1>3, <1>4, <1>5, <1>6, <1>7, <1>8, <1>9, <1>10, <1>11, <1>12
     DEF TurnStep, Step

LEMMA TypeInvStep == TypeInv /\ [Next]_vars => TypeInv'
<1> SUFFICES ASSUME TypeInv, [Next]_vars PROVE TypeInv'
  OBVIOUS
<1>1. ASSUME NEW t \in Turns, TurnStep(t) PROVE TypeInv'
  <2>1. TypeOK' /\ \A u \in Turns : Begun(u)'
    BY <1>1, TypeStep
  <2>2. ASSUME NEW u \in Turns PROVE Called(u)'
    <3>1. CASE u = t
      BY <1>1, <3>1, CalledStep
    <3>2. CASE u # t
      BY <1>1, <3>2, OthersRest DEF Rests, TypeInv, Called
    <3> QED
      BY <3>1, <3>2
  <2> QED
    BY <2>1, <2>2 DEF TypeInv
<1>2. CASE UNCHANGED vars
  BY <1>2 DEF vars, config, TypeInv, TypeOK, Begun, Called
<1> QED
  BY <1>1, <1>2, NextIsTurnStep

LEMMA TypeInvAlways == Spec => []TypeInv
  BY TypeInvInit, TypeInvStep, PTL DEF Spec

(* The variables of the orchestrator and its store keep their types, and   *)
(* neither a placeholder nor a recalled message gets into a prompt.        *)
THEOREM TypeCorrect == Spec => []TypeOK
<1>1. TypeInv => TypeOK
  BY DEF TypeInv
<1> QED
  BY <1>1, TypeInvAlways, PTL

(* Every call of the model's has one result, in the order of the calls,    *)
(* when the answer is asked for.                                           *)
THEOREM EachCallAnswered == Spec => []CallsAnswered
<1>1. TypeInv => CallsAnswered
  BY DEF TypeInv, Called, CallsAnswered
<1> QED
  BY <1>1, TypeInvAlways, PTL

-----------------------------------------------------------------------------
(* A prompt holds the turn's message, and is within the limit.             *)
Prompted(t) ==
  /\ HasPrompt(t) => Mentions(history[t], message[t])
  /\ MaxHistory > 0 => Len(history[t]) <= MaxHistory

LEMMA PromptedStep ==
  ASSUME TypeInv, NEW t \in Turns, TurnStep(t), Prompted(t)
  PROVE  Prompted(t)'
<1>0. TypeOK /\ Begun(t)
  BY DEF TypeInv
<1>1. ASSUME NEW images \in BOOLEAN, BuildPrompt(t, images) PROVE Prompted(t)'
  <2>1. message'[t] = message[t] /\ message[t] \in Messages
    BY <1>0, <1>1 DEF BuildPrompt, Begun
  <2>2. SessionId(message[t]) \in Sessions
    BY <2>1 DEF Sessions
  <2>3. PICK recent \in RecentMessages(SessionId(message[t])) :
          history'[t] = EnsureCurrent(recent, t)
    BY <1>0, <1>1 DEF BuildPrompt, TypeOK
  <2>4. recent \in Seq(Entries) /\ (MaxHistory > 0 => Len(recent) <= MaxHistory)
    BY <1>0, <2>2, RecentType
  <2>5. /\ MaxHistory > 0 => Len(history'[t]) <= MaxHistory
        /\ Mentions(history'[t], message'[t])
    BY <2>1, <2>3, <2>4, EnsureCurrentProperties
  <2> QED
    BY <2>5 DEF Prompted
<1>2. ASSUME history'[t] = history[t], message'[t] = message[t],
             HasPrompt(t)' => HasPrompt(t)
      PROVE  Prompted(t)'
  BY <1>2 DEF Prompted
<1>3. ASSUME history'[t] = history[t], ~HasPrompt(t)' PROVE Prompted(t)'
  BY <1>3 DEF Prompted
<1> USE <1>0 DEF TypeOK, Goto, HasPrompt, Asked
<1>4. ASSUME NEW m \in Messages, NEW onUpdate \in BOOLEAN,
             StartBlank(t, m, onUpdate) \/ Start(t, m, onUpdate)
      PROVE  Prompted(t)'
  BY <1>3, <1>4 DEF StartBlank, Start
<1>5. CASE LoadPrompt(t) \/ HistoryFails(t)
  BY <1>3, <1>5 DEF LoadPrompt, HistoryFails
<1>6. ASSUME NEW x \in Answers, NEW cs \in CallLists, FirstAnswer(t, x, cs)
      PROVE  Prompted(t)'
  BY <1>2, <1>6 DEF FirstAnswer
<1>7. ASSUME NEW x \in Answers, FinalStream(t, x) \/ FinalChat(t, x) PROVE Prompted(t)'
  BY <1>2, <1>7 DEF FinalStream, FinalChat
<1>8. CASE CallTool(t) \/ Save(t)
  BY <1>2, <1>8 DEF CallTool, Save
<1>9. CASE AnswerError(t)
  BY <1>3, <1>9 DEF AnswerError
<1>10. ASSUME NEW x \in Answers, Delta(t, x) PROVE Prompted(t)'
  BY <1>2, <1>10 DEF Delta
<1> QED
  BY <1>1, <1>4, <1>5, <1>6, <1>7, <1>8, <1>9, <1>10 DEF TurnStep, Step

PromptInv == \A t \in Turns : Prompted(t)

LEMMA PromptInvAlways == Spec => []PromptInv
<1>1. Init => PromptInv
  BY MaxHistoryAssumption, EmptySeq
     DEF Init, PromptInv, Prompted, HasPrompt, Asked
<1>2. TypeInv /\ PromptInv /\ [Next]_vars => PromptInv'
  <2> SUFFICES ASSUME TypeInv, PromptInv, [Next]_vars, NEW u \in Turns
               PROVE  Prompted(u)'
    BY DEF PromptInv
  <2>1. ASSUME NEW t \in Turns, TurnStep(t) PROVE Prompted(u)'
    <3>1. CASE u = t
      BY <2>1, <3>1, PromptedStep DEF PromptInv
    <3>2. CASE u # t
      BY <2>1, <3>2, OthersRest DEF Rests, TypeInv, PromptInv, Prompted, HasPrompt
    <3> QED
      BY <3>1, <3>2
  <2>2. CASE UNCHANGED vars
    BY <2>2 DEF vars, PromptInv, Prompted, HasPrompt
  <2> QED
    BY <2>1, <2>2, NextIsTurnStep
<1> QED
  BY <1>1, <1>2, TypeInvAlways, PTL DEF Spec

(* The model sees the message it is to answer, whatever other turns of the *)
(* session have stored since it came.                                      *)
THEOREM PromptHolds == Spec => []PromptHasOwnMessage
<1>1. PromptInv => PromptHasOwnMessage
  BY DEF PromptInv, Prompted, PromptHasOwnMessage
<1> QED
  BY <1>1, PromptInvAlways, PTL

(* ... and with it no more of the history than MAX_HISTORY_MESSAGES.       *)
THEOREM PromptIsBounded == Spec => []PromptFits
<1>1. PromptInv => PromptFits
  BY DEF PromptInv, Prompted, PromptFits
<1> QED
  BY <1>1, PromptInvAlways, PTL

-----------------------------------------------------------------------------
(* What was told last is nothing, blanks, a preamble to tool calls, a text *)
(* under way, or the reply.                                                *)
Quiet(t) == update[t].text = NoText \/ calls[t] # <<>>
Heard(t) ==
  /\ pc[t] \in Before => update[t] = NoUpdate
  /\ pc[t] = "first" => update[t].text = NoText \/ (Partial(t) /\ Streaming(t))
  /\ pc[t] = "final" => Partial(t) \/ Quiet(t)
  /\ pc[t] \in {"tools", "chat"} => ~Partial(t) /\ Quiet(t)
  /\ pc[t] \in {"saving", "ok"} =>
       ~Partial(t) /\ (update[t].text = reply[t] \/ Quiet(t))

LEMMA HeardStep ==
  ASSUME TypeInv, NEW t \in Turns, TurnStep(t), Heard(t)
  PROVE  Heard(t)'
<1>0. TypeOK /\ Called(t) /\ source' = source /\ streams' = streams
  BY ConfigRests DEF TypeInv
<1> USE <1>0 DEF TypeOK, Heard, Quiet, Partial, Streaming, Goto, AskFinal, Before, NoUpdate
<1>1. ASSUME NEW m \in Messages, NEW onUpdate \in BOOLEAN, StartBlank(t, m, onUpdate)
      PROVE  Heard(t)'
  BY <1>1 DEF StartBlank
<1>2. ASSUME NEW m \in Messages, NEW onUpdate \in BOOLEAN, Start(t, m, onUpdate)
      PROVE  Heard(t)'
  BY <1>2 DEF Start
<1>3. CASE LoadPrompt(t)
  BY <1>3 DEF LoadPrompt
<1>4. CASE HistoryFails(t)
  BY <1>4 DEF HistoryFails
<1>5. ASSUME NEW images \in BOOLEAN, BuildPrompt(t, images) PROVE Heard(t)'
  BY <1>5 DEF BuildPrompt
<1>6. ASSUME NEW x \in Answers, NEW cs \in CallLists, FirstAnswer(t, x, cs)
      PROVE  Heard(t)'
  <2>1. update'[t] = IF (Streaming(t) \/ (sink[t] /\ cs = <<>>)) /\ x # NoText
                     THEN [text |-> x, done |-> TRUE] ELSE update[t]
    BY <1>6 DEF FirstAnswer, Tell
  <2>2. calls'[t] = cs /\ pc[t] = "first" /\ (Partial(t) => x # NoText)
    BY <1>6 DEF FirstAnswer, Completes
  <2>3. ~Partial(t)' /\ update'[t].text \in {x, NoText}
    BY <2>1, <2>2
  <2>4. CASE cs # <<>>
    <3>1. pc'[t] = "tools"
      BY <1>6, <2>4 DEF FirstAnswer
    <3> QED
      BY <2>2, <2>3, <2>4, <3>1
  <2>5. CASE cs = <<>> /\ x = NoText
    <3>1. pc'[t] \in {"final", "chat"}
      BY <1>6, <2>5 DEF FirstAnswer
    <3> QED
      BY <2>2, <2>3, <2>5, <3>1
  <2>6. CASE cs = <<>> /\ x # NoText
    <3>1. pc'[t] = "saving" /\ reply'[t] = x
      BY <1>6, <2>6 DEF FirstAnswer
    <3> QED
      BY <2>2, <2>3, <2>6, <3>1
  <2> QED
    BY <2>4, <2>5, <2>6
<1>7. ASSUME NEW x \in Answers, FinalStream(t, x) PROVE Heard(t)'
  BY <1>7 DEF FinalStream, Tell, Completes
<1>8. ASSUME NEW x \in Answers, FinalChat(t, x) PROVE Heard(t)'
  BY <1>8 DEF FinalChat
<1>9. CASE CallTool(t)
  BY <1>9 DEF CallTool
<1>10. CASE AnswerError(t)
  BY <1>10 DEF AnswerError
<1>11. CASE Save(t)
  BY <1>11 DEF Save
<1>12. ASSUME NEW x \in Answers, Delta(t, x) PROVE Heard(t)'
  BY <1>12 DEF Delta
<1> QED
  BY <1>1, <1>2, <1>3, <1>4, <1>5, <1>6, <1>7, <1>8, <1>9, <1>10, <1>11, <1>12
     DEF TurnStep, Step

HeardInv == \A t \in Turns : Heard(t)

LEMMA HeardInvAlways == Spec => []HeardInv
<1>1. Init => HeardInv
  BY DEF Init, HeardInv, Heard, Partial, NoUpdate, Before
<1>2. TypeInv /\ HeardInv /\ [Next]_vars => HeardInv'
  <2> SUFFICES ASSUME TypeInv, HeardInv, [Next]_vars, NEW u \in Turns
               PROVE  Heard(u)'
    BY DEF HeardInv
  <2>1. ASSUME NEW t \in Turns, TurnStep(t) PROVE Heard(u)'
    <3>1. CASE u = t
      BY <2>1, <3>1, HeardStep DEF HeardInv
    <3>2. CASE u # t
      BY <2>1, <3>2, OthersRest, ConfigRests
         DEF Rests, TypeInv, HeardInv, Heard, Quiet, Partial, Streaming
    <3> QED
      BY <3>1, <3>2
  <2>2. CASE UNCHANGED vars
    BY <2>2 DEF vars, config, HeardInv, Heard, Quiet, Partial, Streaming
  <2> QED
    BY <2>1, <2>2, NextIsTurnStep
<1> QED
  BY <1>1, <1>2, TypeInvAlways, PTL DEF Spec

(* A turn that succeeds leaves no part of a text as its last update, and   *)
(* no complete one but its reply, unless tools were called in between.     *)
THEOREM StreamIsClosed == Spec => []StreamClosed
<1>1. HeardInv => StreamClosed
  BY DEF HeardInv, Heard, Quiet, StreamClosed
<1> QED
  BY <1>1, HeardInvAlways, PTL

-----------------------------------------------------------------------------
(* An entry is of a turn of its session; what the session remembers as a   *)
(* reply is that of a turn that has ended, and is there once.              *)
IsReply(s, i, t) == log[s][i].turn = t /\ log[s][i].role = "assistant"
IsQuestion(s, i, t) == log[s][i].turn = t /\ log[s][i].role = "user"

Owned(s, i) ==
  /\ log[s][i].turn \in Turns
  /\ pc[log[s][i].turn] # "idle"
  /\ log[s][i].role = "assistant" =>
       pc[log[s][i].turn] = "ok" /\ log[s][i].text = reply[log[s][i].turn]
Once(s, i, k) ==
  \A t \in Turns : IsReply(s, i, t) /\ IsReply(s, k, t) => i = k

(* A turn at work has its question in the log, one that has ended well its *)
(* reply below it.                                                         *)
Working(t) == pc[t] \in {"stored", "prompted"} \cup Asked
Logged(t) ==
  LET s == SessionId(message[t])
  IN  /\ Working(t) => \E k \in 1..Len(log[s]) : IsQuestion(s, k, t)
      /\ pc[t] = "ok" /\ reply[t] # TextOnly =>
           \E i \in 1..Len(log[s]) :
             IsReply(s, i, t) /\ \E k \in 1..(i - 1) : IsQuestion(s, k, t)

LogInv ==
  /\ \A s \in Sessions : \A i \in 1..Len(log[s]) : Owned(s, i)
  /\ \A s \in Sessions : \A i, k \in 1..Len(log[s]) : Once(s, i, k)
  /\ source = "memory" => \A t \in Turns : Logged(t)

(* What a step does to the log: nothing, a question, or a reply.           *)
Adds(t, role, text) ==
  log' = [log EXCEPT ![SessionId(message'[t])] =
            Append(@, Entry(t, message'[t], role, text))]

LogEffect(t) ==
  /\ pc[t] # "ok" /\ pc'[t] # "idle" /\ message'[t] \in Messages
  /\ pc[t] # "idle" => message'[t] = message[t]
  /\ \/ /\ log' = log
        /\ source = "memory" /\ Working(t)' => Working(t)
        /\ source = "memory" /\ pc'[t] = "ok" => reply'[t] = TextOnly
     \/ Adds(t, "user", NoText) /\ pc[t] = "idle" /\ pc'[t] = "stored"
     \/ Adds(t, "assistant", reply'[t]) /\ pc[t] = "saving" /\ pc'[t] = "ok"

LEMMA LogStep ==
  ASSUME TypeInv, NEW t \in Turns, TurnStep(t)
  PROVE  LogEffect(t)
<1>0. TypeOK /\ Begun(t)
  BY DEF TypeInv
<1> USE <1>0 DEF TypeOK, Begun, Working, Asked, Goto, AskFinal, Adds, LogEffect
<1>1. ASSUME NEW m \in Messages, NEW onUpdate \in BOOLEAN, StartBlank(t, m, onUpdate)
      PROVE  LogEffect(t)
  BY <1>1 DEF StartBlank
<1>2. ASSUME NEW m \in Messages, NEW onUpdate \in BOOLEAN, Start(t, m, onUpdate)
      PROVE  LogEffect(t)
  BY <1>2 DEF Start
<1>3. CASE LoadPrompt(t)
  BY <1>3 DEF LoadPrompt
<1>4. CASE HistoryFails(t)
  BY <1>4 DEF HistoryFails
<1>5. ASSUME NEW images \in BOOLEAN, BuildPrompt(t, images) PROVE LogEffect(t)
  BY <1>5 DEF BuildPrompt
<1>6. ASSUME NEW x \in Answers, NEW cs \in CallLists, FirstAnswer(t, x, cs)
      PROVE  LogEffect(t)
  BY <1>6 DEF FirstAnswer
<1>7. ASSUME NEW x \in Answers, FinalStream(t, x) PROVE LogEffect(t)
  BY <1>7 DEF FinalStream
<1>8. ASSUME NEW x \in Answers, FinalChat(t, x) PROVE LogEffect(t)
  BY <1>8 DEF FinalChat
<1>9. CASE CallTool(t)
  BY <1>9 DEF CallTool
<1>10. CASE AnswerError(t)
  BY <1>10 DEF AnswerError
<1>11. CASE Save(t)
  BY <1>11 DEF Save
<1>12. ASSUME NEW x \in Answers, Delta(t, x) PROVE LogEffect(t)
  BY <1>12 DEF Delta
<1> QED
  BY <1>1, <1>2, <1>3, <1>4, <1>5, <1>6, <1>7, <1>8, <1>9, <1>10, <1>11, <1>12
     DEF TurnStep, Step

(* An entry appended leaves those before it where they are. *)
LEMMA AddsAppends ==
  ASSUME TypeInv, NEW t \in Turns, NEW role \in {"user", "assistant"},
         NEW text \in Replies \cup {NoText}, message'[t] \in Messages, Adds(t, role, text),
         NEW s \in Sessions
  PROVE  /\ \A i \in 1..Len(log[s]) : i \in 1..Len(log'[s]) /\ log'[s][i] = log[s][i]
         /\ s = SessionId(message'[t]) =>
              /\ Len(log[s]) \in Nat /\ Len(log'[s]) = Len(log[s]) + 1
              /\ log'[s][Len(log[s]) + 1] = Entry(t, message'[t], role, text)
         /\ s # SessionId(message'[t]) => log'[s] = log[s]
<1> DEFINE id == SessionId(message'[t])
           e == Entry(t, message'[t], role, text)
<1>1. log[s] \in Seq(Entries) /\ log \in [Sessions -> Seq(Entries)]
  BY DEF TypeInv, TypeOK
<1>2. e \in Entries
  BY DEF Entry, Entries
<1>3. log' = [log EXCEPT ![id] = Append(log[id], e)]
  BY DEF Adds
<1> HIDE DEF id, e
<1>4. CASE s = id
  <2>1. log'[s] = Append(log[s], e)
    BY <1>1, <1>3, <1>4
  <2> QED
    BY <1>1, <1>2, <1>4, <2>1, AppendProperties, LenProperties DEF id, e
<1>5. CASE s # id
  BY <1>1, <1>3, <1>5, LenProperties DEF id
<1> QED
  BY <1>4, <1>5

LEMMA LogInvStep ==
  ASSUME TypeInv, LogInv, NEW t \in Turns, TurnStep(t)
  PROVE  LogInv'
<1>1. LogEffect(t) /\ source' = source /\ TypeOK
  BY LogStep, ConfigRests DEF TypeInv
<1>2. \A u \in Turns \ {t} : Rests(u)
  BY <1>1, OthersRest
(* Entries there are keep what they have: their turns have not ended. *)
<1>3. ASSUME NEW s \in Sessions, NEW i \in 1..Len(log[s]), log'[s][i] = log[s][i]
      PROVE  Owned(s, i)' /\ ~IsReply(s, i, t)
  <2>1. Owned(s, i) /\ pc[t] # "ok" /\ pc'[t] # "idle"
    BY <1>1 DEF LogInv, LogEffect
  <2>2. ~IsReply(s, i, t)
    BY <2>1 DEF Owned, IsReply
  <2>3. CASE log[s][i].turn = t
    BY <1>3, <2>1, <2>2, <2>3 DEF Owned, IsReply
  <2>4. CASE log[s][i].turn # t
    <3>1. PICK u \in Turns \ {t} : u = log[s][i].turn
      BY <2>1, <2>4 DEF Owned
    <3>2. pc'[u] = pc[u] /\ reply'[u] = reply[u]
      BY <1>2 DEF Rests
    <3>3. /\ pc[u] # "idle"
          /\ log[s][i].role = "assistant" => pc[u] = "ok" /\ log[s][i].text = reply[u]
      BY <2>1, <3>1 DEF Owned
    <3>4. log'[s][i].turn = u /\ u \in Turns
      BY <1>3, <3>1
    <3> QED
      BY <1>3, <2>2, <3>2, <3>3, <3>4 DEF Owned
  <2> QED
    BY <2>2, <2>3, <2>4
<1>4. ASSUME NEW u \in Turns \ {t}, Logged(u),
             \A s \in Sessions : \A i \in 1..Len(log[s]) :
               i \in 1..Len(log'[s]) /\ log'[s][i] = log[s][i]
      PROVE  Logged(u)'
  <2>1. Rests(u)
    BY <1>2
  <2>2. CASE pc[u] = "idle"
    BY <2>1, <2>2 DEF Rests, Logged, Working, Asked
  <2>3. CASE pc[u] # "idle"
    <3>1. PICK s \in Sessions : s = SessionId(message[u])
      BY <2>3 DEF TypeInv, Begun, Sessions
    <3>2. SessionId(message[u])' = s
      BY <2>1, <3>1 DEF Rests, SessionId, ThreadOf
    <3>3. \A k \in 1..Len(log[s]) :
            /\ k \in 1..Len(log'[s])
            /\ IsQuestion(s, k, u) => IsQuestion(s, k, u)'
            /\ IsReply(s, k, u) => IsReply(s, k, u)'
      BY <1>4, <3>1 DEF IsQuestion, IsReply
    <3>4. Working(u)' => \E k \in 1..Len(log'[s]) : IsQuestion(s, k, u)'
      BY <1>4, <2>1, <3>1, <3>3 DEF Rests, Logged, Working, Asked
    <3>5. ASSUME pc'[u] = "ok", reply'[u] # TextOnly
          PROVE  \E i \in 1..Len(log'[s]) :
                   IsReply(s, i, u)' /\ \E k \in 1..(i - 1) : IsQuestion(s, k, u)'
      <4>1. PICK i \in 1..Len(log[s]) :
              IsReply(s, i, u) /\ \E k \in 1..(i - 1) : IsQuestion(s, k, u)
        BY <1>4, <2>1, <3>1, <3>5 DEF Rests, Logged
      <4>2. PICK k \in 1..(i - 1) : IsQuestion(s, k, u)
        BY <4>1
      <4>3. Len(log[s]) \in Nat
        BY <1>1, <3>1, LenProperties DEF TypeOK
      <4>4. k \in 1..Len(log[s])
        BY <4>3
      <4> QED
        BY <3>3, <4>1, <4>2, <4>4
    <3> QED
      BY <3>2, <3>4, <3>5 DEF Logged
  <2> QED
    BY <2>2, <2>3
<1>5. CASE log' = log /\ (source = "memory" /\ Working(t)' => Working(t))
           /\ (source = "memory" /\ pc'[t] = "ok" => reply'[t] = TextOnly)
  <2>1. \A s \in Sessions : \A i \in 1..Len(log'[s]) : Owned(s, i)'
    BY <1>3, <1>5
  <2>2. \A s \in Sessions : \A i, k \in 1..Len(log'[s]) : Once(s, i, k)'
    BY <1>5 DEF LogInv, Once, IsReply
  <2>3. ASSUME source = "memory", NEW u \in Turns PROVE Logged(u)'
    <3>1. CASE u = t
      <4>1. Working(t)' => SessionId(message[t])' = SessionId(message[t])
        BY <1>1, <1>5, <2>3 DEF LogEffect, Working, Asked, SessionId, ThreadOf
      <4> QED
        BY <1>5, <2>3, <3>1, <4>1 DEF LogInv, Logged, IsQuestion
    <3>2. CASE u # t
      BY <1>4, <1>5, <2>3, <3>2 DEF LogInv
    <3> QED
      BY <3>1, <3>2
  <2> QED
    BY <1>1, <2>1, <2>2, <2>3 DEF LogInv
<1>6. ASSUME NEW role \in {"user", "assistant"}, NEW text \in Replies \cup {NoText},
             Adds(t, role, text),
             role = "user" => pc[t] = "idle" /\ pc'[t] = "stored",
             role = "assistant" =>
               pc[t] = "saving" /\ pc'[t] = "ok" /\ text = reply'[t]
      PROVE  LogInv'
  <2>1. PICK id \in Sessions : id = SessionId(message'[t])
    BY <1>1 DEF LogEffect, Sessions
  <2>2. \A s \in Sessions : \A i \in 1..Len(log[s]) :
          i \in 1..Len(log'[s]) /\ log'[s][i] = log[s][i]
    BY <1>1, <1>6, AddsAppends DEF LogEffect
  <2>3. PICK n \in Nat :
          /\ n = Len(log[id]) /\ Len(log'[id]) = n + 1
          /\ log'[id][n + 1] = Entry(t, message'[t], role, text)
    BY <1>1, <1>6, <2>1, AddsAppends DEF LogEffect
  <2>4. \A s \in Sessions \ {id} : log'[s] = log[s]
    BY <1>1, <1>6, <2>1, AddsAppends DEF LogEffect
  <2>5. Owned(id, n + 1)'
    BY <1>1, <1>6, <2>3 DEF Owned, Entry, LogEffect
  <2>6. IsReply(id, n + 1, t)' <=> role = "assistant"
    BY <2>3 DEF IsReply, Entry
  <2>7. ASSUME NEW s \in Sessions, NEW i \in 1..Len(log'[s])
        PROVE  \/ i \in 1..Len(log[s]) /\ log'[s][i] = log[s][i]
               \/ s = id /\ i = n + 1
    BY <2>2, <2>3, <2>4
  <2>8. \A s \in Sessions : \A i \in 1..Len(log'[s]) : Owned(s, i)'
    BY <1>3, <2>5, <2>7
  <2>9. ASSUME NEW s \in Sessions, NEW i \in 1..Len(log'[s]), NEW k \in 1..Len(log'[s])
        PROVE  Once(s, i, k)'
    <3>1. \/ i \in 1..Len(log[s]) /\ log'[s][i] = log[s][i]
          \/ s = id /\ i = n + 1
      BY <2>7
    <3>2. \/ k \in 1..Len(log[s]) /\ log'[s][k] = log[s][k]
          \/ s = id /\ k = n + 1
      BY <2>7
    <3>3. ASSUME NEW j \in 1..Len(log[id]), log'[id][j] = log[id][j], NEW u \in Turns,
                 IsReply(id, j, u)', IsReply(id, n + 1, u)'
          PROVE  FALSE
      <4>1. u = t
        BY <2>3, <3>3 DEF IsReply, Entry
      <4> QED
        BY <1>3, <2>1, <3>3, <4>1 DEF IsReply
    <3>4. CASE i \in 1..Len(log[s]) /\ log'[s][i] = log[s][i]
               /\ k \in 1..Len(log[s]) /\ log'[s][k] = log[s][k]
      BY <3>4 DEF LogInv, Once, IsReply
    <3> QED
      BY <3>1, <3>2, <3>3, <3>4 DEF Once
  <2>10. ASSUME source = "memory", NEW u \in Turns PROVE Logged(u)'
    <3>1. CASE u # t
      BY <1>4, <2>2, <2>10, <3>1 DEF LogInv
    <3>2. CASE u = t /\ role = "user"
      <4>1. IsQuestion(id, n + 1, t)' /\ n + 1 \in 1..Len(log'[id])
        BY <2>3, <3>2 DEF IsQuestion, Entry
      <4>2. SessionId(message[t])' = id /\ pc'[t] # "ok"
        BY <1>6, <2>1, <3>2 DEF SessionId, ThreadOf
      <4> QED
        BY <3>2, <4>1, <4>2 DEF Logged
    <3>3. CASE u = t /\ role = "assistant"
      <4>1. SessionId(message[t])' = id /\ SessionId(message[t]) = id
        BY <1>1, <1>6, <2>1, <3>3 DEF LogEffect, SessionId, ThreadOf
      <4>2. PICK k \in 1..n : IsQuestion(id, k, t)
        BY <1>6, <2>3, <2>10, <3>3, <4>1 DEF LogInv, Logged, Working, Asked
      <4>3. IsQuestion(id, k, t)' /\ k \in 1..(n + 1) - 1
        BY <2>2, <2>3, <4>2 DEF IsQuestion
      <4>4. n + 1 \in 1..Len(log'[id]) /\ IsReply(id, n + 1, t)'
        BY <2>3, <2>6, <3>3
      <4>5. ~Working(t)'
        BY <1>6, <3>3 DEF Working, Asked
      <4> QED
        BY <3>3, <4>1, <4>3, <4>4, <4>5 DEF Logged
    <3> QED
      BY <3>1, <3>2, <3>3
  <2> QED
    BY <1>1, <2>8, <2>9, <2>10 DEF LogInv
<1>7. reply'[t] \in Replies \cup {NoText}
  BY TypeStep DEF TypeOK
<1> QED
  BY <1>1, <1>5, <1>6, <1>7 DEF LogEffect

LEMMA LogInvAlways == Spec => []LogInv
<1>1. Init => LogInv
  BY EmptySeq DEF Init, LogInv, Logged, Working, Asked
<1>2. TypeInv /\ LogInv /\ [Next]_vars => LogInv'
  <2>1. TypeInv /\ LogInv /\ Next => LogInv'
    BY LogInvStep, NextIsTurnStep
  <2>2. ASSUME LogInv, UNCHANGED vars PROVE LogInv'
    <3>1. log' = log /\ pc' = pc /\ reply' = reply /\ message' = message /\ source' = source
      BY <2>2 DEF vars, config
    <3>2. \A s \in Sessions : \A i \in 1..Len(log'[s]) : Owned(s, i)'
      BY <2>2, <3>1 DEF LogInv, Owned
    <3>3. \A s \in Sessions : \A i, k \in 1..Len(log'[s]) : Once(s, i, k)'
      BY <2>2, <3>1 DEF LogInv, Once, IsReply
    <3>4. ASSUME NEW t \in Turns PROVE Logged(t)' <=> Logged(t)
      <4>1. PICK s : s = SessionId(message[t]) /\ s = SessionId(message[t])'
        BY <3>1 DEF SessionId, ThreadOf
      <4> QED
        BY <3>1, <4>1 DEF Logged, Working, IsReply, IsQuestion
    <3> QED
      BY <2>2, <3>1, <3>2, <3>3, <3>4 DEF LogInv
  <2> QED
    BY <2>1, <2>2
<1> QED
  BY <1>1, <1>2, TypeInvAlways, PTL DEF Spec

(* A reply that was returned is remembered once, below its question; one   *)
(* that was not is not, whatever other turns of the session do.            *)
THEOREM RepliesAreRemembered == Spec => []ReplyRemembered
<1>1. TypeInv /\ LogInv => ReplyRemembered
  <2> SUFFICES ASSUME TypeInv, LogInv, NEW t \in Turns,
                      source = "memory", message[t] # NoId, reply[t] # TextOnly
               PROVE  IF pc[t] = "ok"
                      THEN \E i \in RepliesIn(t) :
                             /\ RepliesIn(t) = {i}
                             /\ log[SessionId(message[t])][i].text = reply[t]
                             /\ \E k \in 1..(i - 1) :
                                  LET e == log[SessionId(message[t])][k]
                                  IN  e.turn = t /\ e.role = "user"
                      ELSE RepliesIn(t) = {}
    BY DEF ReplyRemembered
  <2>1. PICK s \in Sessions : s = SessionId(message[t])
    BY DEF TypeInv, TypeOK, Sessions
  <2>2. RepliesIn(t) = {i \in 1..Len(log[s]) : IsReply(s, i, t)}
    BY <2>1 DEF RepliesIn, IsReply
  <2>3. \A i \in RepliesIn(t) :
          pc[t] = "ok" /\ log[s][i].text = reply[t] /\ RepliesIn(t) = {i}
    BY <2>2 DEF LogInv, Owned, Once, IsReply
  <2>4. CASE pc[t] = "ok"
    <3>1. PICK i \in 1..Len(log[s]) :
            IsReply(s, i, t) /\ \E k \in 1..(i - 1) : IsQuestion(s, k, t)
      BY <2>1, <2>4 DEF LogInv, Logged
    <3> QED
      BY <2>1, <2>2, <2>3, <2>4, <3>1 DEF IsQuestion
  <2>5. CASE pc[t] # "ok"
    BY <2>3, <2>5
  <2> QED
    BY <2>4, <2>5
<1> QED
  BY <1>1, TypeInvAlways, LogInvAlways, PTL

-----------------------------------------------------------------------------
(* How far a turn is from its end: its stage, then its tool calls to come. *)
Stage == [idle |-> 8, stored |-> 7, prompted |-> 6, first |-> 5, tools |-> 4,
          final |-> 3, chat |-> 2, saving |-> 1, ok |-> 0, error |-> 0]
CallsLeft(t) == Len(calls[t]) - Len(results[t])

(* The turn has come to a later stage, or has fewer calls to make.         *)
Nearer(t) ==
  \/ Stage[pc'[t]] < Stage[pc[t]]
  \/ pc'[t] = pc[t] /\ 0 < CallsLeft(t)' /\ CallsLeft(t)' < CallsLeft(t)

Unmoved(t) == pc'[t] = pc[t] /\ CallsLeft(t)' = CallsLeft(t)

(* A step of a turn brings it nearer its end; whatever else happens leaves *)
(* it where it is, or does so too.                                         *)
TurnsRunDown ==
  \A t \in Turns : (Step(t) => Nearer(t)) /\ (Nearer(t) \/ Unmoved(t))

(* A call made is one call less to make. *)
LEMMA FewerLeft ==
  \A n, k \in Nat : n + 1 \in 1..k /\ n + 1 # k => 0 < k - (n + 1) /\ k - (n + 1) < k - n
  OBVIOUS

(* Each stage of handle leads to a later one, except between two tools. *)
LEMMA StepNearer == ASSUME TypeInv, NEW t \in Turns, Step(t) PROVE Nearer(t)
<1>0. TypeOK /\ Called(t)
  BY DEF TypeInv
<1>1. /\ DOMAIN pc = Turns
      /\ \A s : pc' = [pc EXCEPT ![t] = s] => pc'[t] = s
  BY <1>0 DEF TypeOK
<1> USE <1>1 DEF Nearer, Goto, AskFinal, Stage
<1>2. CASE LoadPrompt(t)
  BY <1>2 DEF LoadPrompt
<1>3. CASE HistoryFails(t)
  BY <1>3 DEF HistoryFails
<1>4. ASSUME NEW images \in BOOLEAN, BuildPrompt(t, images) PROVE Nearer(t)
  BY <1>4 DEF BuildPrompt
<1>5. ASSUME NEW x \in Answers, NEW cs \in CallLists, FirstAnswer(t, x, cs)
      PROVE  Nearer(t)
  BY <1>5 DEF FirstAnswer
<1>6. ASSUME NEW x \in Answers, FinalStream(t, x) PROVE Nearer(t)
  BY <1>6 DEF FinalStream
<1>7. ASSUME NEW x \in Answers, FinalChat(t, x) PROVE Nearer(t)
  BY <1>7 DEF FinalChat
<1>8. CASE CallTool(t)
  <2> DEFINE n == Len(results[t])
             all == Len(calls[t])
  <2>1. /\ n < all /\ results[t] \in Seq(Calls) /\ calls[t] \in Seq(Calls)
        /\ pc[t] = "tools"
    BY <1>0, <1>8 DEF CallTool, Called, TypeOK
  <2>2. n \in Nat /\ all \in Nat /\ n + 1 \in 1..all
    BY <2>1, LenProperties
  <2>3. CASE n + 1 = all
    BY <1>8, <2>1, <2>3 DEF CallTool
  <2>4. CASE n + 1 # all
    <3>1. calls[t][n + 1] \in Calls
      BY <2>1, <2>2, ElementOfSeq
    <3>2. results'[t] = Append(results[t], calls[t][n + 1]) /\ calls'[t] = calls[t]
      BY <1>0, <1>8 DEF CallTool, TypeOK
    <3>3. Len(results'[t]) = n + 1
      BY <2>1, <3>1, <3>2, AppendProperties
    <3>4. CallsLeft(t)' = all - (n + 1) /\ CallsLeft(t) = all - n
      BY <3>2, <3>3 DEF CallsLeft
    <3>5. pc'[t] = pc[t]
      BY <1>8, <2>4 DEF CallTool
    <3>6. 0 < all - (n + 1) /\ all - (n + 1) < all - n
      BY <2>2, <2>4, FewerLeft
    <3>7. 0 < CallsLeft(t)' /\ CallsLeft(t)' < CallsLeft(t)
      BY <3>4, <3>6
    <3> QED
      BY <3>5, <3>7
  <2> QED
    BY <2>3, <2>4
<1>9. CASE AnswerError(t)
  BY <1>9 DEF AnswerError
<1>10. CASE Save(t)
  BY <1>10 DEF Save
<1> QED
  BY <1>2, <1>3, <1>4, <1>5, <1>6, <1>7, <1>8, <1>9, <1>10 DEF Step

(* However answers, errors and tool calls follow each other, each step of  *)
(* a turn brings it nearer its end, and none takes it back: no turn goes   *)
(* round.                                                                  *)
THEOREM TurnsOnlyAdvance == Spec => [][TurnsRunDown]_vars
<1>1. TypeInv /\ [Next]_vars => [TurnsRunDown]_vars
  <2> SUFFICES ASSUME TypeInv, Next, NEW u \in Turns
               PROVE  (Step(u) => Nearer(u)) /\ (Nearer(u) \/ Unmoved(u))
    BY DEF TurnsRunDown
  <2>1. PICK t \in Turns : TurnStep(t)
    BY NextIsTurnStep
  <2>2. Step(u) => Nearer(u)
    BY StepNearer
  <2>3. CASE u # t
    BY <2>1, <2>2, <2>3, OthersRest DEF TypeInv, Rests, Unmoved, CallsLeft
  <2>4. CASE u = t /\ ~Step(t)
    <3>1. /\ DOMAIN pc = Turns
          /\ \A s : pc' = [pc EXCEPT ![t] = s] => pc'[t] = s
      BY DEF TypeInv, TypeOK
    <3>2. ASSUME NEW m \in Messages, NEW onUpdate \in BOOLEAN,
                 StartBlank(t, m, onUpdate) \/ Start(t, m, onUpdate)
          PROVE  Nearer(t)
      BY <3>1, <3>2 DEF StartBlank, Start, Goto, Nearer, Stage
    <3>3. ASSUME NEW x \in Answers, Delta(t, x) PROVE Unmoved(t)
      BY <3>3 DEF Delta, Unmoved, CallsLeft
    <3> QED
      BY <2>1, <2>4, <3>2, <3>3 DEF TurnStep
  <2> QED
    BY <2>2, <2>3, <2>4
<1> QED
  BY <1>1, TypeInvAlways, PTL DEF Spec
=============================================================================
