----------------------- MODULE KnowledgeIndexerProofs -----------------------
(* Proofs about KnowledgeIndexer, for any files, edits, settings and runs. *)
EXTENDS KnowledgeIndexer, SequenceTheorems, WellFoundedInduction, TLAPS

-----------------------------------------------------------------------------
(* Induction over the naturals up to a bound, and over a loop.             *)
LEMMA LeastElement ==
  ASSUME NEW T \in SUBSET Nat, T # {}
  PROVE  \E n \in T : \A k \in T : n <= k
<1> DEFINE R == {ss \in Nat \X Nat : ss[1] < ss[2]}
<1>1. IsWellFoundedOn(R, Nat)
  BY NatLessThanWellFounded DEF OpToRel
<1>2. ASSUME NEW n \in Nat, NEW k \in Nat, <<k, n>> \notin R PROVE n <= k
  <2>1. ~ (k < n)
    BY <1>2
  <2> QED
    BY <2>1
<1> HIDE DEF R
<1>3. \E n \in T : \A k \in T : <<k, n>> \notin R
  BY <1>1, WFMin
<1> QED
  BY <1>2, <1>3

LEMMA InductionUpTo ==
  ASSUME NEW m \in Nat, NEW G, 0 \in G, \A n \in 1..m : n - 1 \in G => n \in G
  PROVE  0..m \subseteq G
<1> DEFINE T == {n \in 0..m : n \notin G}
<1>1. SUFFICES ASSUME T # {} PROVE FALSE
  OBVIOUS
<1>2. T \in SUBSET Nat
  OBVIOUS
<1>3. PICK n \in T : \A k \in T : n <= k
  BY <1>1, <1>2, LeastElement
<1>4. n \in 1..m /\ n - 1 \in 0..m
  BY <1>3
<1>5. n - 1 \in G
  BY <1>3, <1>4
<1> QED
  BY <1>3, <1>4, <1>5

(* A loop of m rounds that starts from e has a run.                        *)
Steps(S, m) == [1..m -> [S -> S]]

IsLoop(f, S, e, step, m) ==
  /\ f \in [0..m -> S]
  /\ f[0] = e /\ \A n \in 1..m : f[n] = step[n][f[n - 1]]

LEMMA LoopExists ==
  ASSUME NEW m \in Nat, NEW S, NEW e \in S, NEW step \in Steps(S, m)
  PROVE  \E f : IsLoop(f, S, e, step, m)
<1> USE DEF Steps
<1> DEFINE Is(f, n) == f[0] = e /\ \A i \in 1..n : f[i] = step[i][f[i - 1]]
           G == {n \in 0..m : \E f \in [0..n -> S] : Is(f, n)}
<1>1. 0 \in G
  <2> DEFINE f == [i \in 0..0 |-> e]
  <2>1. f \in [0..0 -> S] /\ Is(f, 0) /\ 0 \in 0..m
    OBVIOUS
  <2> HIDE DEF f
  <2> QED
    BY <2>1
<1>2. ASSUME NEW n \in 1..m, n - 1 \in G PROVE n \in G
  <2>1. PICK f \in [0..n - 1 -> S] : Is(f, n - 1)
    BY <1>2
  <2> DEFINE g == [i \in 0..n |-> IF i = n THEN step[n][f[n - 1]] ELSE f[i]]
  <2>2. n - 1 \in 0..n - 1 /\ n \in 1..m /\ n \in Nat
    BY <1>2
  <2>3. f[n - 1] \in S
    BY <2>1, <2>2
  <2>4. step[n] \in [S -> S]
    BY <2>2
  <2>5. step[n][f[n - 1]] \in S
    BY <2>3, <2>4
  <2>6. g \in [0..n -> S]
    BY <2>1, <2>2, <2>5
  <2>7. ASSUME NEW i \in 1..n PROVE g[i] = step[i][g[i - 1]]
    <3>1. i \in 0..n /\ i - 1 \in 0..n /\ i - 1 # n
      BY <2>2, <2>7
    <3>2. g[i - 1] = f[i - 1]
      BY <3>1
    <3> QED
      BY <2>1, <2>2, <3>1, <3>2
  <2>8. g[0] = e
    BY <2>1, <2>2
  <2> HIDE DEF g
  <2>9. Is(g, n)
    BY <2>7, <2>8
  <2> QED
    BY <2>2, <2>6, <2>9
<1>3. 0..m \subseteq G
  <2> HIDE DEF G
  <2> QED
    BY <1>1, <1>2, InductionUpTo
<1>4. m \in G
  BY <1>3
<1> QED
  BY <1>4 DEF IsLoop

LEMMA ToSetAppend ==
  ASSUME NEW S, NEW s \in Seq(S), NEW x \in S
  PROVE  ToSet(Append(s, x)) = ToSet(s) \cup {x}
<1> DEFINE t == Append(s, x)
<1>1. Len(s) \in Nat /\ DOMAIN s = 1..Len(s)
  BY LenProperties
<1>2. /\ t \in Seq(S) /\ Len(t) = Len(s) + 1 /\ DOMAIN t = 1..Len(s) + 1
      /\ t[Len(s) + 1] = x /\ \A i \in 1..Len(s) : t[i] = s[i]
  BY <1>1, AppendProperties, LenProperties
<1> HIDE DEF t
<1>3. ASSUME NEW y \in ToSet(t) PROVE y \in ToSet(s) \cup {x}
  BY <1>1, <1>2, <1>3 DEF ToSet
<1>4. ASSUME NEW y \in ToSet(s) \cup {x} PROVE y \in ToSet(t)
  <2>1. Len(s) + 1 \in DOMAIN t /\ \A i \in DOMAIN s : i \in DOMAIN t
    BY <1>1, <1>2
  <2> QED
    BY <1>1, <1>2, <1>4, <2>1 DEF ToSet
<1>5. ToSet(t) = ToSet(s) \cup {x}
  BY <1>3, <1>4
<1> QED
  BY <1>5 DEF t

LEMMA ToSetConcat ==
  ASSUME NEW S, NEW s \in Seq(S), NEW t \in Seq(S)
  PROVE  ToSet(s \o t) = ToSet(s) \cup ToSet(t)
<1> DEFINE u == s \o t
<1>1. /\ Len(s) \in Nat /\ DOMAIN s = 1..Len(s) /\ Len(t) \in Nat /\ DOMAIN t = 1..Len(t)
  BY LenProperties
<1>2. /\ Len(u) = Len(s) + Len(t) /\ DOMAIN u = 1..Len(s) + Len(t)
      /\ \A i \in 1..Len(s) + Len(t) : u[i] = IF i <= Len(s) THEN s[i] ELSE t[i - Len(s)]
  BY <1>1, ConcatProperties, LenProperties
<1> HIDE DEF u
<1>3. ASSUME NEW y \in ToSet(u) PROVE y \in ToSet(s) \cup ToSet(t)
  <2>1. PICK i \in 1..Len(s) + Len(t) : y = u[i]
    BY <1>2, <1>3 DEF ToSet
  <2>2. CASE i <= Len(s)
    BY <1>1, <1>2, <2>1, <2>2 DEF ToSet
  <2>3. CASE i > Len(s)
    <3>1. i - Len(s) \in DOMAIN t /\ u[i] = t[i - Len(s)]
      BY <1>1, <1>2, <2>1, <2>3
    <3> QED
      BY <2>1, <3>1 DEF ToSet
  <2> QED
    BY <1>1, <2>2, <2>3
<1>4. ASSUME NEW y \in ToSet(s) PROVE y \in ToSet(u)
  BY <1>1, <1>2, <1>4 DEF ToSet
<1>5. ASSUME NEW y \in ToSet(t) PROVE y \in ToSet(u)
  <2>1. PICK i \in DOMAIN t : y = t[i]
    BY <1>5 DEF ToSet
  <2>2. i + Len(s) \in DOMAIN u /\ u[i + Len(s)] = t[i]
    BY <1>1, <1>2, <2>1
  <2> QED
    BY <2>1, <2>2 DEF ToSet
<1>6. ToSet(u) = ToSet(s) \cup ToSet(t)
  BY <1>3, <1>4, <1>5
<1> QED
  BY <1>6 DEF u

-----------------------------------------------------------------------------
(* How long a chunk is. *)
Chunk == Seq([paragraph : Nat, from : Int, to : Int])

LengthStep(f, chunk, n) ==
  IF n = 0 THEN -EmptyLine ELSE f[n - 1] + SpanLength(chunk[n]) + EmptyLine

LEMMA LengthLoop ==
  ASSUME NEW chunk \in Chunk
  PROVE  \E f \in [0..Len(chunk) -> Int] :
           /\ f[0] = -EmptyLine
           /\ \A n \in 1..Len(chunk) : f[n] = f[n - 1] + SpanLength(chunk[n]) + EmptyLine
           /\ ChunkLength(chunk) = f[Len(chunk)]
<1> DEFINE m == Len(chunk)
           Is(f) == f = [n \in 0..m |-> LengthStep(f, chunk, n)]
           F == CHOOSE f : Is(f)
           step == [n \in 1..m |-> [k \in Int |-> k + SpanLength(chunk[n]) + EmptyLine]]
<1>1. m \in Nat /\ \A n \in 1..m : SpanLength(chunk[n]) \in Int
  <2>1. m \in Nat
    BY LenProperties DEF Chunk
  <2>2. ASSUME NEW n \in 1..m PROVE SpanLength(chunk[n]) \in Int
    <3>1. chunk[n] \in [paragraph : Nat, from : Int, to : Int]
      BY <2>2, ElementOfSeq DEF Chunk
    <3> QED
      BY <3>1 DEF SpanLength
  <2> QED
    BY <2>1, <2>2
<1>2. step \in Steps(Int, m) /\ -EmptyLine \in Int
  BY <1>1 DEF EmptyLine, Steps
<1> HIDE DEF m
<1>3. PICK g \in [0..m -> Int] :
        g[0] = -EmptyLine /\ \A n \in 1..m : g[n] = step[n][g[n - 1]]
  <2>1. \E g : IsLoop(g, Int, -EmptyLine, step, m)
    <3> HIDE DEF step
    <3> QED
      BY <1>1, <1>2, LoopExists
  <2> QED
    BY <2>1 DEF IsLoop
<1>4. \A n \in 1..m : n - 1 \in 0..m /\ n \in 0..m /\ n # 0
  BY <1>1
<1>5. ASSUME NEW n \in 1..m PROVE g[n] = g[n - 1] + SpanLength(chunk[n]) + EmptyLine
  <2>1. g[n - 1] \in Int
    BY <1>3, <1>4
  <2> QED
    BY <1>3, <2>1
<1>6. Is(g)
  BY <1>1, <1>3, <1>4, <1>5 DEF LengthStep
<1>7. Is(F)
  <2> HIDE DEF Is
  <2> QED
    BY <1>6
<1>8. ChunkLength(chunk) = F[m]
  BY DEF ChunkLength, LengthStep, m
<1> HIDE DEF F
<1>9. F[0] = -EmptyLine /\ \A n \in 1..m : F[n] = F[n - 1] + SpanLength(chunk[n]) + EmptyLine
  BY <1>1, <1>4, <1>7 DEF LengthStep
<1>10. F \in [0..m -> Int]
  <2> DEFINE G == {n \in 0..m : F[n] \in Int}
  <2>1. 0 \in G
    BY <1>1, <1>9 DEF EmptyLine
  <2>2. \A n \in 1..m : n - 1 \in G => n \in G
    BY <1>1, <1>4, <1>9 DEF EmptyLine
  <2>3. 0..m \subseteq G
    <3> HIDE DEF G
    <3> QED
      BY <1>1, <2>1, <2>2, InductionUpTo
  <2>4. F = [n \in 0..m |-> F[n]]
    BY <1>7
  <2> QED
    BY <2>3, <2>4
<1> QED
  BY <1>8, <1>9, <1>10 DEF m

(* A chunk that a span is appended to grows by the span and an empty line. *)
LEMMA LengthAppend ==
  ASSUME NEW chunk \in Chunk, NEW span \in [paragraph : Nat, from : Int, to : Int]
  PROVE  /\ ChunkLength(chunk) \in Int
         /\ ChunkLength(<<>>) = -EmptyLine
         /\ Append(chunk, span) \in Chunk
         /\ ChunkLength(Append(chunk, span)) = ChunkLength(chunk) + SpanLength(span) + EmptyLine
<1> DEFINE longer == Append(chunk, span)
           m == Len(chunk)
<1>1. /\ longer \in Chunk /\ m \in Nat /\ Len(longer) = m + 1
      /\ longer[m + 1] = span /\ \A n \in 1..m : longer[n] = chunk[n]
  BY AppendProperties, LenProperties DEF Chunk
<1>2. <<>> \in Chunk /\ Len(<<>>) = 0
  BY DEF Chunk
<1>3. ChunkLength(<<>>) = -EmptyLine
  BY <1>2, LengthLoop
<1> HIDE DEF longer, m
<1>4. PICK f \in [0..m -> Int] :
        /\ f[0] = -EmptyLine
        /\ \A n \in 1..m : f[n] = f[n - 1] + SpanLength(chunk[n]) + EmptyLine
        /\ ChunkLength(chunk) = f[m]
  BY LengthLoop DEF m
<1>5. PICK g \in [0..m + 1 -> Int] :
        /\ g[0] = -EmptyLine
        /\ \A n \in 1..m + 1 : g[n] = g[n - 1] + SpanLength(longer[n]) + EmptyLine
        /\ ChunkLength(longer) = g[m + 1]
  BY <1>1, LengthLoop
<1> DEFINE G == {n \in 0..m : g[n] = f[n]}
<1>6. 0 \in G
  BY <1>1, <1>4, <1>5
<1>7. \A n \in 1..m : n - 1 \in G => n \in G
  BY <1>1, <1>4, <1>5
<1>8. 0..m \subseteq G
  <2> HIDE DEF G
  <2> QED
    BY <1>1, <1>6, <1>7, InductionUpTo
<1>9. g[m] = f[m]
  BY <1>1, <1>8
<1>10. m + 1 \in 1..m + 1 /\ m \in 0..m /\ m + 1 - 1 = m
  BY <1>1
<1> QED
  BY <1>1, <1>3, <1>4, <1>5, <1>9, <1>10 DEF longer

-----------------------------------------------------------------------------
(* What a text is cut into: chunks no longer than the size, that cover each *)
(* paragraph, in windows that share the overlap.                           *)
AnySpan == [paragraph : Nat, from : Int, to : Int]
SpansOf(chunks) == UNION {ToSet(chunk) : chunk \in ToSet(chunks)}

Fit(chunks, size) == \A chunk \in ToSet(chunks) : ChunkLength(chunk) <= size

Covers(spans, i, len) ==
  \A n \in 1..len : \E span \in spans : span.paragraph = i /\ n \in span.from..span.to

Overlap(spans, overlap) ==
  \A span \in spans : span.from > 1 =>
    \E before \in spans :
      /\ before.paragraph = span.paragraph /\ before.from < span.from
      /\ before.to - span.from + 1 = overlap
      /\ before.to < span.to

WindowEnd(n, step, size, len) ==
  IF (n - 1) * step + size < len THEN (n - 1) * step + size ELSE len

Windows(i, len, size, step, count) ==
  [n \in 1..count |-> <<Span(i, (n - 1) * step + 1, WindowEnd(n, step, size, len))>>]

LEMMA MinOfTwo == ASSUME NEW a \in Int, NEW b \in Int
                  PROVE  Min({a, b}) = IF a < b THEN a ELSE b
<1>1. PICK x \in {a, b} : \A y \in {a, b} : x <= y
  <2>1. CASE a <= b
    BY <2>1
  <2>2. CASE b <= a
    BY <2>2
  <2> QED
    BY <2>1, <2>2
<1>2. Min({a, b}) \in {a, b} /\ \A y \in {a, b} : Min({a, b}) <= y
  BY <1>1 DEF Min
<1> QED
  BY <1>2

(* Later windows start later; each step moves on by at least one.          *)
LEMMA Strides ==
  ASSUME NEW step \in Nat \ {0}, NEW n \in Nat \ {0}
  PROVE  /\ (n - 1) * step \in Nat
         /\ (n - 1) * step >= n - 1
         /\ n * step = (n - 1) * step + step
<1>1. n - 1 \in Nat
  OBVIOUS
<1> DEFINE k == n - 1
<1>2. k \in Nat /\ n = k + 1
  OBVIOUS
<1> HIDE DEF k
<1>3. k * step \in Nat /\ (k + 1) * step = k * step + step
  BY <1>2
<1>4. k * step >= k
  BY <1>2
<1> QED
  BY <1>2, <1>3, <1>4 DEF k

LEMMA SplitByWindows ==
  ASSUME NEW i \in Nat, NEW len \in Nat, NEW size \in Nat \ {0},
         NEW overlap \in 0..size - 1, len > size
  PROVE  \E count \in 1..len :
           /\ SplitLongText(i, len, size, overlap)
                = Windows(i, len, size, size - overlap, count)
           /\ WindowEnd(count, size - overlap, size, len) = len
           /\ \A m \in 1..count - 1 : (m - 1) * (size - overlap) + size < len
<1> DEFINE step == size - overlap
           end(n) == Min({(n - 1) * step + size, len})
           IsLast(n) == end(n) = len /\ \A m \in 1..n - 1 : end(m) < len
           count == CHOOSE n \in 1..len : IsLast(n)
<1>1. step \in Nat \ {0} /\ ~(overlap >= size)
  OBVIOUS
<1>2. SplitLongText(i, len, size, overlap)
        = [n \in 1..count |-> <<Span(i, (n - 1) * step + 1, end(n))>>]
  BY <1>1 DEF SplitLongText
<1> HIDE DEF step
<1>3. ASSUME NEW n \in Nat \ {0} PROVE end(n) = WindowEnd(n, step, size, len)
  <2>1. (n - 1) * step + size \in Int
    BY <1>1, Strides
  <2> QED
    BY <2>1, MinOfTwo DEF WindowEnd
<1> HIDE DEF end
<1>4. \E n \in 1..len : IsLast(n)
  <2> DEFINE T == {n \in 1..len : end(n) = len}
  <2>1. (len - 1) * step >= len - 1 /\ (len - 1) * step \in Nat
    BY <1>1, Strides
  <2>2. end(len) = len
    BY <1>3, <2>1 DEF WindowEnd
  <2>3. T \in SUBSET Nat /\ T # {}
    BY <2>2
  <2>4. PICK n \in T : \A k \in T : n <= k
    BY <2>3, LeastElement
  <2>5. ASSUME NEW m \in 1..n - 1 PROVE end(m) < len
    <3>1. m \notin T /\ m \in 1..len /\ m \in Nat \ {0}
      BY <2>4, <2>5
    <3>2. end(m) # len /\ end(m) = WindowEnd(m, step, size, len)
      BY <1>3, <3>1
    <3>3. (m - 1) * step + size \in Int
      BY <1>1, <3>1, Strides
    <3> QED
      BY <3>2, <3>3 DEF WindowEnd
  <2> QED
    BY <2>4, <2>5
<1>5. count \in 1..len /\ IsLast(count)
  <2> HIDE DEF IsLast
  <2> QED
    BY <1>4
<1> HIDE DEF count
<1>6. \A n \in 1..count : n \in Nat \ {0}
  BY <1>5
<1>7. SplitLongText(i, len, size, overlap) = Windows(i, len, size, step, count)
  BY <1>2, <1>3, <1>6 DEF Windows
<1>8. WindowEnd(count, step, size, len) = len
  BY <1>3, <1>5
<1>9. ASSUME NEW m \in 1..count - 1 PROVE (m - 1) * step + size < len
  <2>1. m \in Nat \ {0} /\ end(m) < len
    BY <1>5, <1>9
  <2>2. WindowEnd(m, step, size, len) < len
    BY <1>3, <2>1
  <2> QED
    BY <2>2 DEF WindowEnd
<1> QED
  BY <1>5, <1>7, <1>8, <1>9 DEF step

LEMMA SplitGood ==
  ASSUME NEW i \in Nat, NEW len \in Nat, NEW size \in Nat \ {0},
         NEW overlap \in 0..size - 1, len > size
  PROVE  LET parts == SplitLongText(i, len, size, overlap)
         IN  /\ parts \in Seq(Chunk)
             /\ Fit(parts, size)
             /\ Covers(SpansOf(parts), i, len)
             /\ Overlap(SpansOf(parts), overlap)
<1> DEFINE step == size - overlap
           at(n) == (n - 1) * step
           window(n) == Span(i, at(n) + 1, WindowEnd(n, step, size, len))
<1>1. PICK count \in 1..len :
        /\ SplitLongText(i, len, size, overlap) = Windows(i, len, size, step, count)
        /\ WindowEnd(count, step, size, len) = len
        /\ \A m \in 1..count - 1 : at(m) + size < len
  BY SplitByWindows
<1> DEFINE parts == SplitLongText(i, len, size, overlap)
<1>2. step \in 1..size /\ step = size - overlap
  OBVIOUS
<1>3. ASSUME NEW n \in 1..count
      PROVE  /\ at(n) \in Nat /\ at(n + 1) = at(n) + step
             /\ n > 1 => n - 1 \in 1..count /\ at(n) = at(n - 1) + step
  <2>1. n \in Nat \ {0} /\ step \in Nat \ {0} /\ (n + 1) - 1 = n
    BY <1>2
  <2>2. at(n) \in Nat /\ at(n + 1) = at(n) + step
    BY <2>1, Strides
  <2>3. CASE n > 1
    <3>1. n - 1 \in Nat \ {0} /\ (n - 1) + 1 = n
      BY <2>1, <2>3
    <3>2. (n - 1) * step = ((n - 1) - 1) * step + step
      BY <2>1, <3>1, Strides
    <3> QED
      BY <2>2, <2>3, <3>2
  <2> QED
    BY <2>2, <2>3
<1>4. at(1) = 0
  BY <1>2
<1>5. parts = [n \in 1..count |-> <<window(n)>>]
  BY <1>1 DEF Windows
<1>a. \A n \in 1..count : at(n) + size < len \/ n = count
  BY <1>1
<1>b. \A n \in 1..count :
        /\ WindowEnd(n, step, size, len) = IF at(n) + size < len THEN at(n) + size ELSE len
        /\ n = count => WindowEnd(n, step, size, len) = len
  BY <1>1 DEF WindowEnd
<1> HIDE DEF step, at, parts
<1>6. ASSUME NEW n \in 1..count
      PROVE  /\ window(n) \in AnySpan
             /\ window(n).paragraph = i /\ window(n).from = at(n) + 1
             /\ window(n).to = IF at(n) + size < len THEN at(n) + size ELSE len
             /\ n = count => window(n).to = len
  BY <1>b, <1>3 DEF Span, AnySpan
<1> HIDE DEF window
<1>7. ASSUME NEW n \in 1..count
      PROVE  <<window(n)>> \in Chunk /\ ChunkLength(<<window(n)>>) <= size
  <2>1. <<>> \in Chunk /\ <<window(n)>> = Append(<<>>, window(n))
    BY DEF Chunk
  <2>2. window(n) \in [paragraph : Nat, from : Int, to : Int]
    BY <1>6 DEF AnySpan
  <2>3. <<window(n)>> \in Chunk /\ ChunkLength(<<window(n)>>) = SpanLength(window(n))
    <3>1. SpanLength(window(n)) \in Int
      BY <2>2 DEF SpanLength
    <3>2. <<>> \in Chunk
      BY <2>1
    <3>3. /\ Append(<<>>, window(n)) \in Chunk
          /\ ChunkLength(Append(<<>>, window(n)))
               = ChunkLength(<<>>) + SpanLength(window(n)) + EmptyLine
          /\ ChunkLength(<<>>) = -EmptyLine
      BY <2>2, <3>2, LengthAppend
    <3>4. ChunkLength(Append(<<>>, window(n))) = SpanLength(window(n))
      BY <3>1, <3>3 DEF EmptyLine
    <3> QED
      BY <2>1, <3>3, <3>4
  <2>4. SpanLength(window(n)) <= size
    BY <1>3, <1>6 DEF SpanLength
  <2> QED
    BY <2>3, <2>4
<1>8. parts \in Seq(Chunk) /\ ToSet(parts) = {<<window(n)>> : n \in 1..count}
  <2>1. parts \in Seq(Chunk)
    BY <1>5, <1>7
  <2> QED
    BY <1>5, <2>1 DEF ToSet
<1>9. SpansOf(parts) = {window(n) : n \in 1..count}
  <2> DEFINE one(n) == <<window(n)>>
  <2>1. ASSUME NEW n \in 1..count, NEW x PROVE x \in ToSet(one(n)) <=> x = window(n)
    BY DEF ToSet
  <2>2. ASSUME NEW x PROVE x \in SpansOf(parts) <=> \E chunk \in ToSet(parts) : x \in ToSet(chunk)
    BY DEF SpansOf
  <2>3. ToSet(parts) = {one(n) : n \in 1..count}
    BY <1>8
  <2> HIDE DEF one
  <2>4. ASSUME NEW x PROVE x \in SpansOf(parts) <=> \E n \in 1..count : x = window(n)
    BY <2>1, <2>2, <2>3
  <2> QED
    BY <2>4
<1>10. Fit(parts, size)
  BY <1>7, <1>8 DEF Fit
<1>11. Covers(SpansOf(parts), i, len)
  <2> SUFFICES ASSUME NEW k \in 1..len
               PROVE  \E n \in 1..count : k \in window(n).from..window(n).to
    BY <1>6, <1>9 DEF Covers
  <2> DEFINE T == {n \in 1..count : k <= window(n).to}
  <2>1. count \in T
    BY <1>6
  <2>2. T \in SUBSET Nat /\ T # {}
    BY <2>1
  <2>3. PICK n \in T : \A m \in T : n <= m
    BY <2>2, LeastElement
  <2>4. n \in 1..count /\ k <= window(n).to
    BY <2>3
  <2>5. at(n) + 1 <= k
    <3>1. CASE n = 1
      BY <1>4, <3>1
    <3>2. CASE n > 1
      <4>1. n - 1 \in 1..count /\ at(n) = at(n - 1) + step /\ n - 1 \notin T
        BY <1>3, <2>3, <2>4, <3>2
      <4>2. window(n - 1).to < k
        BY <1>3, <1>6, <4>1
      <4>3. at(n - 1) + size < len
        BY <1>a, <2>4, <4>1
      <4> QED
        BY <1>2, <1>3, <1>6, <4>1, <4>2, <4>3
    <3> QED
      BY <2>4, <3>1, <3>2
  <2>6. k \in window(n).from..window(n).to
    BY <1>3, <1>6, <2>4, <2>5
  <2> QED
    BY <2>4, <2>6
<1>12. Overlap(SpansOf(parts), overlap)
  <2> SUFFICES ASSUME NEW n \in 1..count, window(n).from > 1
               PROVE  \E m \in 1..count :
                        /\ window(m).paragraph = window(n).paragraph
                        /\ window(m).from < window(n).from
                        /\ window(m).to - window(n).from + 1 = overlap
                        /\ window(m).to < window(n).to
    BY <1>9 DEF Overlap
  <2>1. n > 1
    BY <1>4, <1>6
  <2>2. /\ n - 1 \in 1..count /\ at(n) = at(n - 1) + step /\ at(n - 1) \in Nat
        /\ at(n) \in Nat
    BY <1>3, <2>1
  <2>3. at(n - 1) + size < len
    BY <1>a, <2>2
  <2>4. /\ window(n - 1).paragraph = i /\ window(n - 1).from = at(n - 1) + 1
        /\ window(n - 1).to = at(n - 1) + size
    BY <1>6, <2>2, <2>3
  <2>5. /\ window(n - 1).paragraph = window(n).paragraph
        /\ window(n - 1).from < window(n).from
        /\ window(n - 1).to - window(n).from + 1 = overlap
        /\ window(n - 1).to < window(n).to
    BY <1>2, <1>6, <2>2, <2>3, <2>4
  <2> QED
    BY <2>2, <2>5
<1> QED
  BY <1>8, <1>10, <1>11, <1>12 DEF parts

LEMMA SpansOfUnion ==
  ASSUME NEW a, NEW b, NEW c, ToSet(c) = ToSet(a) \cup b
  PROVE  SpansOf(c) = SpansOf(a) \cup UNION {ToSet(chunk) : chunk \in b}
  BY DEF SpansOf

LEMMA OverlapUnion ==
  ASSUME NEW a, NEW b, NEW overlap, Overlap(a, overlap), Overlap(b, overlap)
  PROVE  Overlap(a \cup b, overlap)
  BY DEF Overlap

(* What chunkText has made of the first n paragraphs.                      *)
MadeSpans(made) == SpansOf(made.chunks) \cup ToSet(made.current)

Sound(made, size, overlap) ==
  /\ made \in [chunks : Seq(Chunk), current : Chunk]
  /\ Fit(made.chunks, size) /\ ChunkLength(made.current) <= size
  /\ Overlap(MadeSpans(made), overlap)

LEMMA FlushedSound ==
  ASSUME NEW size \in Nat \ {0}, NEW overlap \in Nat, NEW made, Sound(made, size, overlap)
  PROVE  /\ Sound(Flushed(made), size, overlap)
         /\ Flushed(made).current = <<>>
         /\ MadeSpans(Flushed(made)) = MadeSpans(made)
<1>1. CASE made.current = <<>>
  BY <1>1 DEF Flushed
<1>2. CASE made.current # <<>>
  <2> DEFINE all == Append(made.chunks, made.current)
  <2>1. made.chunks \in Seq(Chunk) /\ made.current \in Chunk
    BY DEF Sound
  <2>2. all \in Seq(Chunk) /\ ToSet(all) = ToSet(made.chunks) \cup {made.current}
    BY <2>1, ToSetAppend, AppendProperties
  <2>3. Flushed(made) = [chunks |-> all, current |-> <<>>]
    BY <1>2 DEF Flushed
  <2> HIDE DEF all
  <2>4. SpansOf(all) = SpansOf(made.chunks) \cup ToSet(made.current)
    BY <2>2, SpansOfUnion
  <2>5. ToSet(<<>>) = {} /\ <<>> \in Chunk /\ ChunkLength(<<>>) <= size
    <3>1. <<>> \in Chunk /\ ToSet(<<>>) = {}
      BY DEF Chunk, ToSet
    <3>2. ChunkLength(<<>>) = -EmptyLine
      <4>1. [paragraph |-> 1, from |-> 1, to |-> 1] \in [paragraph : Nat, from : Int, to : Int]
        OBVIOUS
      <4> QED
        BY <3>1, <4>1, LengthAppend
    <3> QED
      BY <3>1, <3>2 DEF EmptyLine
  <2>6. MadeSpans(Flushed(made)) = MadeSpans(made)
    BY <2>3, <2>4, <2>5 DEF MadeSpans
  <2>7. Fit(all, size)
    BY <2>2 DEF Fit, Sound
  <2> QED
    BY <2>2, <2>3, <2>5, <2>6, <2>7 DEF Sound
<1> QED
  BY <1>1, <1>2

LEMMA TakeSound ==
  ASSUME NEW size \in Nat \ {0}, NEW overlap \in 0..size - 1, NEW made,
         Sound(made, size, overlap), NEW i \in Nat, NEW len \in Nat
  PROVE  LET taken == TakeParagraph(made, i, len, size, overlap)
         IN  /\ Sound(taken, size, overlap)
             /\ MadeSpans(made) \subseteq MadeSpans(taken)
             /\ Covers(MadeSpans(taken), i, len)
<1> DEFINE taken == TakeParagraph(made, i, len, size, overlap)
           before == Flushed(made)
<1>1. /\ Sound(before, size, overlap) /\ before.current = <<>>
      /\ MadeSpans(before) = MadeSpans(made)
  BY FlushedSound
<1>2. CASE len = 0
  BY <1>2 DEF TakeParagraph, Covers
<1>3. CASE len > size
  <2> DEFINE parts == SplitLongText(i, len, size, overlap)
             all == before.chunks \o parts
  <2>1. /\ parts \in Seq(Chunk) /\ Fit(parts, size)
        /\ Covers(SpansOf(parts), i, len) /\ Overlap(SpansOf(parts), overlap)
    BY <1>3, SplitGood
  <2>2. before.chunks \in Seq(Chunk) /\ before.current \in Chunk
        /\ before \in [chunks : Seq(Chunk), current : Chunk]
    BY <1>1 DEF Sound
  <2>3. taken = [before EXCEPT !.chunks = all]
    BY <1>3 DEF TakeParagraph
  <2> HIDE DEF parts, before, taken
  <2>4. all \in Seq(Chunk) /\ ToSet(all) = ToSet(before.chunks) \cup ToSet(parts)
    BY <2>1, <2>2, ToSetConcat, ConcatProperties
  <2> HIDE DEF all
  <2>5. SpansOf(all) = SpansOf(before.chunks) \cup SpansOf(parts)
    BY <2>4 DEF SpansOf
  <2>6. taken.chunks = all /\ taken.current = before.current
        /\ taken \in [chunks : Seq(Chunk), current : Chunk]
    BY <2>2, <2>3, <2>4
  <2>7. MadeSpans(taken) = MadeSpans(before) \cup SpansOf(parts)
    BY <2>5, <2>6 DEF MadeSpans
  <2>8. Fit(all, size)
    BY <1>1, <2>1, <2>4 DEF Fit, Sound
  <2>9. Overlap(MadeSpans(taken), overlap)
    BY <1>1, <2>1, <2>7, OverlapUnion DEF Sound
  <2>10. Sound(taken, size, overlap)
    BY <1>1, <2>6, <2>8, <2>9 DEF Sound
  <2>11. Covers(MadeSpans(taken), i, len)
    BY <2>1, <2>7 DEF Covers
  <2> QED
    BY <1>1, <2>7, <2>10, <2>11 DEF taken
<1>4. CASE len # 0 /\ ~(len > size)
  <2> DEFINE room == ChunkLength(made.current) + len + EmptyLine <= size
             base == IF room THEN made ELSE before
             span == Span(i, 1, len)
             longer == Append(base.current, span)
  <2>1. taken = [base EXCEPT !.current = longer]
    BY <1>4 DEF TakeParagraph
  <2>2. Sound(base, size, overlap) /\ MadeSpans(base) = MadeSpans(made)
    BY <1>1
  <2>3. /\ base \in [chunks : Seq(Chunk), current : Chunk]
        /\ base.chunks \in Seq(Chunk) /\ base.current \in Chunk
    BY <2>2 DEF Sound
  <2>4. span \in AnySpan /\ span.paragraph = i /\ span.from = 1 /\ span.to = len
        /\ SpanLength(span) = len
    BY DEF Span, AnySpan, SpanLength
  <2>5. /\ ChunkLength(base.current) \in Int
        /\ longer \in Chunk
        /\ ChunkLength(longer) = ChunkLength(base.current) + len + EmptyLine
        /\ ChunkLength(<<>>) = -EmptyLine
    <3> HIDE DEF span, base
    <3>1. span \in [paragraph : Nat, from : Int, to : Int]
      BY <2>4 DEF AnySpan
    <3> QED
      BY <2>3, <2>4, <3>1, LengthAppend
  <2>6. ChunkLength(longer) <= size
    <3>1. CASE room
      BY <2>5, <3>1
    <3>2. CASE ~room
      <4>1. base.current = <<>>
        BY <1>1, <3>2
      <4> QED
        BY <1>4, <2>5, <4>1 DEF EmptyLine
    <3> QED
      BY <3>1, <3>2
  <2>7. ToSet(longer) = ToSet(base.current) \cup {span}
    <3> HIDE DEF span, base
    <3>1. base.current \in Seq(AnySpan)
      BY <2>3 DEF Chunk, AnySpan
    <3> QED
      BY <2>4, <3>1, ToSetAppend
  <2> HIDE DEF span, base, longer, taken
  <2>8. taken.chunks = base.chunks /\ taken.current = longer
        /\ taken \in [chunks : Seq(Chunk), current : Chunk]
    BY <2>1, <2>3, <2>5
  <2>9. MadeSpans(taken) = MadeSpans(base) \cup {span}
    BY <2>7, <2>8 DEF MadeSpans
  <2>10. Overlap({span}, overlap)
    BY <2>4 DEF Overlap
  <2>11. Overlap(MadeSpans(taken), overlap)
    BY <2>2, <2>9, <2>10, OverlapUnion DEF Sound
  <2>12. Sound(taken, size, overlap)
    BY <2>2, <2>6, <2>8, <2>11 DEF Sound
  <2>13. Covers(MadeSpans(taken), i, len)
    BY <2>4, <2>9 DEF Covers
  <2> QED
    BY <2>2, <2>9, <2>12, <2>13 DEF taken
<1> QED
  BY <1>2, <1>3, <1>4

LEMMA SettingsInOrder ==
  ASSUME NEW size \in Int, NEW overlap \in Int
  PROVE  /\ ChunkSize(size) \in Nat \ {0}
         /\ ChunkOverlap(size, overlap) \in 0..ChunkSize(size) - 1
<1>1. ChunkSize(size) \in Nat \ {0}
  BY DefaultSizeAssumption DEF ChunkSize
<1> DEFINE s == ChunkSize(size)
<1> HIDE DEF s
<1>2. s \in Nat \ {0} => s \div 5 \in 0..s - 1
  OBVIOUS
<1> QED
  BY <1>1, <1>2 DEF ChunkOverlap, s

MadeStep(f, document, size, overlap, i) ==
  IF i = 0 THEN [chunks |-> <<>>, current |-> <<>>]
  ELSE TakeParagraph(f[i - 1], i, document[i], ChunkSize(size), ChunkOverlap(size, overlap))

LEMMA ChunkTextSound ==
  ASSUME NEW document \in Seq(Nat), NEW size \in Int, NEW overlap \in Int
  PROVE  LET parts == ChunkText(document, size, overlap)
         IN  /\ parts \in Seq(Chunk)
             /\ Fit(parts, ChunkSize(size))
             /\ Overlap(SpansOf(parts), ChunkOverlap(size, overlap))
             /\ \A i \in 1..Len(document) : Covers(SpansOf(parts), i, document[i])
<1> DEFINE m == Len(document)
           sz == ChunkSize(size)
           ov == ChunkOverlap(size, overlap)
           S == {made \in [chunks : Seq(Chunk), current : Chunk] : Sound(made, sz, ov)}
           none == [chunks |-> <<>>, current |-> <<>>]
           Is(f) == f = [i \in 0..m |-> MadeStep(f, document, size, overlap, i)]
           F == CHOOSE f : Is(f)
           step == [i \in 1..m |-> [made \in S |-> TakeParagraph(made, i, document[i], sz, ov)]]
<1>1. /\ sz \in Nat \ {0} /\ ov \in 0..sz - 1
      /\ m \in Nat /\ \A i \in 1..m : i \in Nat /\ document[i] \in Nat
  <2>1. sz \in Nat \ {0} /\ ov \in 0..sz - 1
    BY SettingsInOrder
  <2>2. m \in Nat
    BY LenProperties
  <2>3. \A i \in 1..m : i \in Nat /\ document[i] \in Nat
    BY <2>2, ElementOfSeq
  <2> QED
    BY <2>1, <2>2, <2>3
<1>2. ChunkText(document, size, overlap) = Flushed(F[m]).chunks
  BY DEF ChunkText, MadeStep
<1>3. ASSUME NEW f
      PROVE  /\ MadeStep(f, document, size, overlap, 0) = none
             /\ \A i \in 1..m : MadeStep(f, document, size, overlap, i)
                                 = TakeParagraph(f[i - 1], i, document[i], sz, ov)
  <2>1. \A i \in 1..m : i # 0
    BY <1>1
  <2> QED
    BY <2>1 DEF MadeStep
<1>a. \A i \in 1..m : i - 1 \in 0..m /\ i \in 0..m /\ i # 0
  BY <1>1
<1>b. 0 \in 0..m /\ \A i \in 0..m : i = 0 \/ i \in 1..m
  BY <1>1
<1> HIDE DEF sz, ov
<1>4. none \in S
  <2>1. <<>> \in Chunk /\ <<>> \in Seq(Chunk) /\ ToSet(<<>>) = {}
    BY DEF Chunk, ToSet
  <2>2. ChunkLength(<<>>) = -EmptyLine
    <3>1. [paragraph |-> 1, from |-> 1, to |-> 1] \in [paragraph : Nat, from : Int, to : Int]
      OBVIOUS
    <3> QED
      BY <2>1, <3>1, LengthAppend
  <2>3. MadeSpans(none) = {}
    BY <2>1 DEF MadeSpans, SpansOf
  <2>4. ChunkLength(<<>>) <= sz
    BY <1>1, <2>2 DEF EmptyLine
  <2>5. none \in [chunks : Seq(Chunk), current : Chunk]
        /\ none.chunks = <<>> /\ none.current = <<>>
    BY <2>1
  <2>6. Fit(<<>>, sz) /\ Overlap({}, ov)
    BY <2>1 DEF Fit, Overlap
  <2> HIDE DEF none
  <2>7. Sound(none, sz, ov)
    BY <2>3, <2>4, <2>5, <2>6 DEF Sound
  <2> QED
    BY <2>5, <2>7
<1>5. ASSUME NEW i \in 1..m, NEW made \in S
      PROVE  LET taken == TakeParagraph(made, i, document[i], sz, ov)
             IN  /\ taken \in S
                 /\ MadeSpans(made) \subseteq MadeSpans(taken)
                 /\ Covers(MadeSpans(taken), i, document[i])
  <2>1. /\ Sound(made, sz, ov) /\ i \in Nat /\ document[i] \in Nat
        /\ sz \in Nat \ {0} /\ ov \in 0..sz - 1
    BY <1>1
  <2> DEFINE taken == TakeParagraph(made, i, document[i], sz, ov)
  <2>2. /\ Sound(taken, sz, ov) /\ MadeSpans(made) \subseteq MadeSpans(taken)
        /\ Covers(MadeSpans(taken), i, document[i])
    BY <2>1, TakeSound
  <2> HIDE DEF taken
  <2>3. taken \in S
    BY <2>2 DEF Sound
  <2> QED
    BY <2>2, <2>3 DEF taken
<1> HIDE DEF m, none, S
<1>6. step \in Steps(S, m)
  BY <1>5 DEF Steps
<1>7. PICK g : IsLoop(g, S, none, step, m)
  <2> HIDE DEF step
  <2> QED
    BY <1>1, <1>4, <1>6, LoopExists
<1>8. Is(g)
  <2>1. g \in [0..m -> S] /\ g[0] = none /\ \A i \in 1..m : g[i] = step[i][g[i - 1]]
    BY <1>7 DEF IsLoop
  <2>2. \A i \in 1..m : g[i - 1] \in S
    BY <1>a, <2>1
  <2>3. \A i \in 1..m : g[i] = TakeParagraph(g[i - 1], i, document[i], sz, ov)
    BY <2>1, <2>2
  <2>4. \A i \in 0..m : g[i] = MadeStep(g, document, size, overlap, i)
    BY <1>3, <1>b, <2>1, <2>3
  <2>5. g = [i \in 0..m |-> g[i]]
    BY <2>1
  <2> QED
    BY <2>4, <2>5
<1>10. \A i \in 0..m : F[i] = MadeStep(F, document, size, overlap, i)
  <2> HIDE DEF Is
  <2>1. Is(F)
    BY <1>8
  <2> QED
    BY <2>1 DEF Is
<1> HIDE DEF F
<1>11. /\ F[0] = none
       /\ \A i \in 1..m : F[i] = TakeParagraph(F[i - 1], i, document[i], sz, ov)
  BY <1>3, <1>a, <1>b, <1>10
<1> DEFINE G == {n \in 0..m : /\ F[n] \in S
                              /\ \A i \in 1..n : Covers(MadeSpans(F[n]), i, document[i])}
<1>12. 0 \in G
  BY <1>1, <1>4, <1>11
<1>13. ASSUME NEW n \in 1..m, n - 1 \in G PROVE n \in G
  <2>1. /\ F[n - 1] \in S
        /\ \A i \in 1..n - 1 : Covers(MadeSpans(F[n - 1]), i, document[i])
    BY <1>13
  <2>2. /\ F[n] \in S
        /\ MadeSpans(F[n - 1]) \subseteq MadeSpans(F[n])
        /\ Covers(MadeSpans(F[n]), n, document[n])
    BY <1>5, <1>11, <2>1
  <2>3. \A i \in 1..n - 1 : Covers(MadeSpans(F[n]), i, document[i])
    BY <2>1, <2>2 DEF Covers
  <2>4. \A i \in 1..n : i = n \/ i \in 1..n - 1
    BY <1>1
  <2> QED
    BY <1>a, <2>2, <2>3, <2>4
<1>14. 0..m \subseteq G
  <2> HIDE DEF G
  <2> QED
    BY <1>1, <1>12, <1>13, InductionUpTo
<1>15. Sound(F[m], sz, ov) /\ \A i \in 1..m : Covers(MadeSpans(F[m]), i, document[i])
  BY <1>1, <1>14 DEF S
<1> DEFINE made == Flushed(F[m])
<1>16. /\ Sound(made, sz, ov) /\ made.current = <<>> /\ MadeSpans(made) = MadeSpans(F[m])
  <2>1. ov \in Nat
    BY <1>1
  <2> QED
    BY <1>1, <1>15, <2>1, FlushedSound
<1> HIDE DEF made
<1>17. MadeSpans(made) = SpansOf(made.chunks)
  <2>1. ToSet(<<>>) = {}
    BY DEF ToSet
  <2> QED
    BY <1>16, <2>1 DEF MadeSpans
<1> QED
  BY <1>2, <1>15, <1>16, <1>17 DEF Sound, made, m, sz, ov

-----------------------------------------------------------------------------
(* The chunks of a directory are those of its files. *)
LEMMA ChunksOfFile ==
  ASSUME NEW f \in Nat, NEW content, content.paragraphs \in Seq(Nat),
         NEW size \in Int, NEW overlap \in Int
  PROVE  LET parts == ChunkText(content.paragraphs, size, overlap)
             chunks == DocumentChunks(f, content, size, overlap)
         IN  /\ chunks \in Seq(ToSet(chunks))
             /\ Len(parts) \in Nat /\ Len(chunks) = Len(parts)
             /\ \A n \in 1..Len(parts) :
                  chunks[n] = [key |-> <<Paths[f], n - 1>>,
                               row |-> [text |-> content.text, chunk |-> parts[n]]]
<1> DEFINE parts == ChunkText(content.paragraphs, size, overlap)
           chunks == DocumentChunks(f, content, size, overlap)
<1>1. Len(parts) \in Nat /\ DOMAIN parts = 1..Len(parts)
  BY ChunkTextSound, LenProperties
<1>2. chunks = [n \in DOMAIN parts |->
                  [key |-> <<Paths[f], n - 1>>,
                   row |-> [text |-> content.text, chunk |-> parts[n]]]]
  BY DEF DocumentChunks
<1> HIDE DEF parts, chunks
<1>3. \A n \in 1..Len(parts) : chunks[n] \in ToSet(chunks)
  BY <1>1, <1>2 DEF ToSet
<1>4. chunks = [n \in 1..Len(parts) |-> chunks[n]]
  BY <1>1, <1>2
<1>5. chunks \in Seq(ToSet(chunks)) /\ Len(chunks) = Len(parts)
  BY <1>1, <1>3, <1>4
<1> QED
  BY <1>1, <1>2, <1>5 DEF parts, chunks

WalkStep(f, contents, size, overlap, i) ==
  IF i = 0 THEN <<>> ELSE f[i - 1] \o DocumentChunks(i, contents[i], size, overlap)

Documents(contents) ==
  /\ Len(contents) \in Nat
  /\ \A f \in 1..Len(contents) : contents[f].paragraphs \in Seq(Nat)

FileChunks(contents, size, overlap) ==
  UNION {ToSet(DocumentChunks(f, contents[f], size, overlap)) : f \in 1..Len(contents)}

LEMMA ChunksOfFiles ==
  ASSUME NEW contents, Documents(contents), NEW size \in Int, NEW overlap \in Int
  PROVE  LET chunks == ChunkDocuments(contents, size, overlap)
         IN  /\ chunks \in Seq(ToSet(chunks)) /\ Len(chunks) \in Nat
             /\ ToSet(chunks) = FileChunks(contents, size, overlap)
<1> DEFINE m == Len(contents)
           of(f) == DocumentChunks(f, contents[f], size, overlap)
           E == UNION {ToSet(of(f)) : f \in 1..m}
           S == Seq(E)
           Is(f) == f = [i \in 0..m |-> WalkStep(f, contents, size, overlap, i)]
           F == CHOOSE f : Is(f)
           step == [i \in 1..m |-> [s \in S |-> s \o of(i)]]
<1>1. m \in Nat /\ \A i \in 1..m : i \in Nat /\ contents[i].paragraphs \in Seq(Nat)
  BY DEF Documents
<1>2. ASSUME NEW f \in 1..m PROVE of(f) \in S
  <2>1. of(f) \in Seq(ToSet(of(f)))
    BY <1>1, <1>2, ChunksOfFile
  <2> HIDE DEF of
  <2>2. ToSet(of(f)) \subseteq E
    OBVIOUS
  <2> HIDE DEF E
  <2> QED
    BY <2>1, <2>2
<1>3. ChunkDocuments(contents, size, overlap) = F[m]
  BY DEF ChunkDocuments, WalkStep
<1>4. ASSUME NEW f
      PROVE  /\ WalkStep(f, contents, size, overlap, 0) = <<>>
             /\ \A i \in 1..m : WalkStep(f, contents, size, overlap, i) = f[i - 1] \o of(i)
  <2>1. \A i \in 1..m : i # 0
    BY <1>1
  <2> QED
    BY <2>1 DEF WalkStep
<1>5. /\ \A i \in 1..m : i - 1 \in 0..m /\ i \in 0..m /\ i # 0
      /\ 0 \in 0..m /\ \A i \in 0..m : i = 0 \/ i \in 1..m
  BY <1>1
<1>6. <<>> \in S /\ \A i \in 1..m : \A s \in S : s \o of(i) \in S
  <2> HIDE DEF of, E
  <2> QED
    BY <1>2, ConcatProperties
<1> HIDE DEF m, of
<1>7. step \in Steps(S, m)
  <2> HIDE DEF S
  <2> QED
    BY <1>6 DEF Steps
<1>8. PICK g : IsLoop(g, S, <<>>, step, m)
  <2> HIDE DEF step, S
  <2> QED
    BY <1>1, <1>6, <1>7, LoopExists
<1>9. Is(g)
  <2> HIDE DEF S
  <2>1. g \in [0..m -> S] /\ g[0] = <<>> /\ \A i \in 1..m : g[i] = step[i][g[i - 1]]
    BY <1>8 DEF IsLoop
  <2>2. \A i \in 1..m : g[i - 1] \in S
    BY <1>5, <2>1
  <2>3. \A i \in 1..m : g[i] = g[i - 1] \o of(i)
    BY <2>1, <2>2
  <2>4. \A i \in 0..m : g[i] = WalkStep(g, contents, size, overlap, i)
    BY <1>4, <1>5, <2>1, <2>3
  <2>5. g = [i \in 0..m |-> g[i]]
    BY <2>1
  <2> QED
    BY <2>4, <2>5
<1>10. \A i \in 0..m : F[i] = WalkStep(F, contents, size, overlap, i)
  <2> HIDE DEF Is
  <2>1. Is(F)
    BY <1>9
  <2> QED
    BY <2>1 DEF Is
<1> HIDE DEF F
<1>11. F[0] = <<>> /\ \A i \in 1..m : F[i] = F[i - 1] \o of(i)
  BY <1>4, <1>5, <1>10
<1> DEFINE Upto(n) == UNION {ToSet(of(f)) : f \in 1..n}
           G == {n \in 0..m : F[n] \in S /\ ToSet(F[n]) = Upto(n)}
<1>12. 0 \in G
  <2>1. ToSet(<<>>) = {} /\ Upto(0) = {}
    BY DEF ToSet
  <2> HIDE DEF S, Upto
  <2> QED
    BY <1>5, <1>6, <1>11, <2>1
<1>13. ASSUME NEW n \in 1..m, n - 1 \in G PROVE n \in G
  <2>1. F[n - 1] \in S /\ of(n) \in S /\ F[n] = F[n - 1] \o of(n)
        /\ ToSet(F[n - 1]) = Upto(n - 1)
    BY <1>2, <1>11, <1>13
  <2>2. F[n] \in S
    <3> HIDE DEF S
    <3> QED
      BY <1>6, <2>1
  <2>3. ToSet(F[n]) = ToSet(F[n - 1]) \cup ToSet(of(n))
    <3> HIDE DEF E
    <3> QED
      BY <2>1, ToSetConcat
  <2>4. \A f : f \in 1..n <=> f \in 1..n - 1 \/ f = n
    BY <1>1
  <2>5. Upto(n) = Upto(n - 1) \cup ToSet(of(n))
    BY <2>4
  <2> HIDE DEF S, Upto
  <2> QED
    BY <1>5, <2>1, <2>2, <2>3, <2>5
<1>14. 0..m \subseteq G
  <2> HIDE DEF G
  <2> QED
    BY <1>1, <1>12, <1>13, InductionUpTo
<1>15. F[m] \in S /\ ToSet(F[m]) = E
  <2>1. m \in G
    <3> HIDE DEF G
    <3> QED
      BY <1>1, <1>14
  <2>2. Upto(m) = E
    OBVIOUS
  <2> HIDE DEF S, Upto, E
  <2> QED
    BY <2>1, <2>2
<1> HIDE DEF E
<1>16. F[m] \in Seq(ToSet(F[m])) /\ Len(F[m]) \in Nat
  BY <1>15, LenProperties
<1> QED
  BY <1>3, <1>15, <1>16 DEF E, of, m, FileChunks

-----------------------------------------------------------------------------
(* Where a run is belongs to what it has read and written: it has every    *)
(* file before it writes, has written every chunk before it deletes, and   *)
(* forgets all of it at its end.                                           *)
Held == {case.versions[n][p] : n \in 1..Len(case.versions), p \in ToSet(Paths)}

Places == {"new", "reading", "writing", "deleting", "ended"}

Walked(r) ==
  /\ read[r] \in Seq(Held)
  /\ \A f \in 1..Len(read[r]) :
       /\ f \in 1..Len(Paths)
       /\ \E n \in 1..Len(case.versions) : read[r][f] = case.versions[n][Paths[f]]
  /\ pc[r] = "reading" => Len(read[r]) < Len(Paths)
  /\ pc[r] \in {"writing", "deleting"} => Len(read[r]) = Len(Paths)
  /\ pc[r] \in {"new", "ended"} => read[r] = <<>>

Wrote(r) ==
  /\ done[r] \in 0..Len(Chunks(r))
  /\ pc[r] \notin {"writing", "deleting"} => done[r] = 0
  /\ pc[r] = "deleting" => done[r] = Len(Chunks(r))
  /\ pc[r] # "deleting" => stale[r] = {}

TypeInv ==
  /\ case \in Cases
  /\ version \in 1..Len(case.versions)
  /\ pc \in [Runs -> Places]
  /\ read \in [Runs -> Seq(Held)]
  /\ done \in [Runs -> Nat]
  /\ stale = [r \in Runs |-> stale[r]]
  /\ calm \subseteq Runs
  /\ \A r \in Runs : Walked(r) /\ Wrote(r)

(* The first row of a file that lasts is never stale, and is there when a  *)
(* run has written it.                                                     *)
First(p) == <<p, 0>>

FindInv ==
  \A p \in Lasting : \A r \in Runs :
    /\ First(p) \notin stale[r]
    /\ \A i \in 1..done[r] : Chunks(r)[i].key = First(p) => First(p) \in DOMAIN table

(* What the table has to hold. *)
Wanted ==
  ToSet(ChunkDocuments([f \in 1..Len(Paths) |-> Files[Paths[f]]], case.size, case.overlap))

In(chunk) == chunk.key \in DOMAIN table /\ table[chunk.key] = chunk.row

(* While a calm run is under way, and once it has ended, every run is up   *)
(* to date: none writes or deletes but as wanted.                          *)
AllUpToDate == calm # {} \/ indexed => \A r \in Runs : UpToDate(r)

OwnKeysKept == \A r \in Runs : stale[r] \cap Keys(r) = {}

OnItsWay(r) ==
  /\ pc[r] \in {"reading", "writing", "deleting"}
  /\ \A i \in 1..done[r] : In(Chunks(r)[i])
  /\ pc[r] = "deleting" => DOMAIN table \subseteq Keys(r) \cup stale[r]

Complete ==
  /\ \A chunk \in Wanted : In(chunk)
  /\ DOMAIN table \subseteq {chunk.key : chunk \in Wanted}

CurrentInv ==
  /\ AllUpToDate
  /\ OwnKeysKept
  /\ \A r \in calm : OnItsWay(r)
  /\ indexed => Complete

(* The settings stay; so do a run's chunks while it reads nothing.         *)
LEMMA Settled ==
  ASSUME case' = case
  PROVE  /\ Runs' = Runs /\ Held' = Held /\ Lasting' = Lasting
         /\ \A r : read'[r] = read[r] => Chunks(r)' = Chunks(r) /\ Keys(r)' = Keys(r)
  BY DEF Runs, Held, Lasting, Chunks, Keys

LEMMA HeldDocuments ==
  ASSUME case \in Cases, NEW contents \in Seq(Held)
  PROVE  Documents(contents)
<1>1. \A h \in Held : h.paragraphs \in Seq(Nat)
  BY CasesAssumption DEF Held
<1>2. Len(contents) \in Nat /\ \A f \in 1..Len(contents) : contents[f] \in Held
  BY LenProperties, ElementOfSeq
<1> QED
  BY <1>1, <1>2 DEF Documents

(* What the chunks of a run are. *)
LEMMA ChunksOfRun ==
  ASSUME TypeInv, NEW r \in Runs
  PROVE  /\ Documents(read[r]) /\ case.size \in Int /\ case.overlap \in Int
         /\ Chunks(r) \in Seq(ToSet(Chunks(r))) /\ Len(Chunks(r)) \in Nat
         /\ ToSet(Chunks(r)) = FileChunks(read[r], case.size, case.overlap)
<1>1. /\ read[r] \in Seq(Held) /\ case \in Cases
  BY DEF TypeInv
<1>2. case.size \in Int /\ case.overlap \in Int
  BY <1>1, CasesAssumption
<1>3. Documents(read[r])
  BY <1>1, HeldDocuments
<1> QED
  BY <1>2, <1>3, ChunksOfFiles DEF Chunks

LEMMA TypeInit == Init => TypeInv
<1> SUFFICES ASSUME Init PROVE TypeInv
  OBVIOUS
<1>1. /\ case \in Cases /\ version \in 1..Len(case.versions)
  BY CasesAssumption DEF Init
<1>2. Len(Paths) \in Nat /\ Len(<<>>) = 0 /\ <<>> \in Seq(Held)
  BY PathsAssumption, LenProperties
<1>3. /\ pc \in [Runs -> Places] /\ read \in [Runs -> Seq(Held)] /\ done \in [Runs -> Nat]
      /\ stale = [r \in Runs |-> stale[r]] /\ calm \subseteq Runs
  BY <1>2 DEF Init, Places
<1>4. ASSUME NEW r \in Runs PROVE Walked(r)
  BY <1>2, <1>4 DEF Init, Walked
<1>5. ASSUME NEW r \in Runs PROVE Wrote(r)
  <2>1. Documents(read[r]) /\ case.size \in Int /\ case.overlap \in Int
    BY <1>1, <1>2, <1>3, HeldDocuments, CasesAssumption
  <2>2. Len(Chunks(r)) \in Nat
    BY <2>1, ChunksOfFiles DEF Chunks
  <2> QED
    BY <2>2 DEF Init, Wrote
<1> QED
  BY <1>1, <1>3, <1>4, <1>5 DEF TypeInv

LEMMA TypeStep == TypeInv /\ [Next]_vars => TypeInv'
<1> SUFFICES ASSUME TypeInv, [Next]_vars PROVE TypeInv'
  OBVIOUS
<1>0. /\ \A r \in Runs : Walked(r) /\ Wrote(r)
      /\ pc \in [Runs -> Places] /\ read \in [Runs -> Seq(Held)] /\ done \in [Runs -> Nat]
      /\ stale = [r \in Runs |-> stale[r]] /\ calm \subseteq Runs
      /\ case \in Cases /\ version \in 1..Len(case.versions)
  BY DEF TypeInv
<1>s. ASSUME case' = case
      PROVE  /\ Runs' = Runs /\ Held' = Held
             /\ \A r : read'[r] = read[r] => Chunks(r)' = Chunks(r)
  BY <1>s, Settled
<1>1. CASE Edit
  <2>1. UNCHANGED <<case, pc, read, done, stale>> /\ calm' = {}
        /\ version' \in 1..Len(case.versions)
    BY <1>0, <1>1, CasesAssumption DEF Edit
  <2> QED
    BY <1>0, <1>s, <2>1 DEF TypeInv, Walked, Wrote
<1>2. ASSUME NEW r \in Runs, Start(r) PROVE TypeInv'
  <2>1. /\ UNCHANGED <<case, version, read, done, stale>> /\ pc[r] = "new"
        /\ calm' \subseteq Runs
        /\ pc' = [pc EXCEPT ![r] = IF Paths = <<>> THEN "writing" ELSE "reading"]
    BY <1>0, <1>2 DEF Start
  <2>2. Len(Paths) \in Nat /\ (Paths = <<>> <=> Len(Paths) = 0) /\ Len(<<>>) = 0
    BY PathsAssumption, LenProperties, EmptySeq
  <2>3. /\ pc' \in [Runs -> Places] /\ \A s \in Runs : s # r => pc'[s] = pc[s]
        /\ pc'[r] \in {"reading", "writing"}
        /\ pc'[r] = "reading" <=> Paths # <<>>
    BY <1>0, <2>1 DEF Places
  <2>4. /\ \A s \in Runs : Chunks(s)' = Chunks(s)
        /\ Runs' = Runs /\ Held' = Held
    BY <1>s, <2>1
  <2>5. ASSUME NEW s \in Runs PROVE Walked(s)' /\ Wrote(s)'
    <3>1. CASE s # r
      BY <1>0, <2>1, <2>3, <2>4, <3>1 DEF Walked, Wrote
    <3>2. CASE s = r
      <4>1. read[r] = <<>> /\ Walked(r) /\ Wrote(r)
        BY <1>0, <2>1 DEF Walked
      <4> QED
        BY <2>1, <2>2, <2>3, <2>4, <3>2, <4>1 DEF Walked, Wrote
    <3> QED
      BY <3>1, <3>2
  <2> QED
    BY <1>0, <2>1, <2>3, <2>4, <2>5 DEF TypeInv
<1>3. ASSUME NEW r \in Runs, ReadFile(r) PROVE TypeInv'
  <2> DEFINE file == Files[Paths[Len(read[r]) + 1]]
             longer == Append(read[r], file)
  <2>1. /\ UNCHANGED <<case, version, done, stale, calm>> /\ pc[r] = "reading"
        /\ read' = [read EXCEPT ![r] = longer]
        /\ read'[r] = longer /\ \A s \in Runs : s # r => read'[s] = read[s]
        /\ pc' = [pc EXCEPT ![r] = IF Len(longer) = Len(Paths) THEN "writing" ELSE @]
    BY <1>0, <1>3 DEF ReadFile
  <2>2. /\ Len(read[r]) \in Nat /\ Len(Paths) \in Nat
        /\ Len(read[r]) + 1 \in 1..Len(Paths) /\ read[r] \in Seq(Held)
    BY <1>0, <2>1, PathsAssumption, LenProperties DEF Walked
  <2>3. /\ file \in Held
        /\ file = case.versions[version][Paths[Len(read[r]) + 1]]
    <3>1. Paths[Len(read[r]) + 1] \in ToSet(Paths)
      BY <2>2, PathsAssumption, ElementOfSeq
    <3> QED
      BY <1>0, <3>1 DEF Held, Files
  <2> HIDE DEF file
  <2>4. /\ longer \in Seq(Held) /\ Len(longer) = Len(read[r]) + 1
        /\ longer[Len(read[r]) + 1] = file
        /\ \A f \in 1..Len(read[r]) : longer[f] = read[r][f]
    BY <2>2, <2>3, AppendProperties
  <2> HIDE DEF longer
  <2>5. /\ pc' \in [Runs -> Places] /\ \A s \in Runs : s # r => pc'[s] = pc[s]
        /\ pc'[r] = IF Len(longer) = Len(Paths) THEN "writing" ELSE "reading"
    BY <1>0, <2>1 DEF Places
  <2>6. /\ \A s \in Runs : s # r => Chunks(s)' = Chunks(s)
        /\ Runs' = Runs /\ Held' = Held /\ read' \in [Runs -> Seq(Held)]
    BY <1>0, <1>s, <2>1, <2>4
  <2>7. ASSUME NEW s \in Runs, s # r PROVE Walked(s)' /\ Wrote(s)'
    BY <1>0, <2>1, <2>5, <2>6, <2>7 DEF Walked, Wrote
  <2>8. Walked(r)'
    <3>1. ASSUME NEW f \in 1..Len(longer)
          PROVE  /\ f \in 1..Len(Paths)
                 /\ \E n \in 1..Len(case.versions) : longer[f] = case.versions[n][Paths[f]]
      <4>1. CASE f = Len(read[r]) + 1
        <5>1. f \in 1..Len(Paths) /\ longer[f] = case.versions[version][Paths[f]]
          BY <2>2, <2>3, <2>4, <4>1
        <5> QED
          BY <1>0, <5>1
      <4>2. CASE f \in 1..Len(read[r])
        <5>1. /\ f \in 1..Len(Paths) /\ longer[f] = read[r][f]
              /\ \E n \in 1..Len(case.versions) : read[r][f] = case.versions[n][Paths[f]]
          BY <1>0, <2>4, <4>2 DEF Walked
        <5> QED
          BY <5>1
      <4> QED
        BY <2>2, <2>4, <3>1, <4>1, <4>2
    <3>2. /\ pc'[r] = "reading" => Len(longer) < Len(Paths)
          /\ pc'[r] \in {"writing", "deleting"} => Len(longer) = Len(Paths)
          /\ pc'[r] \notin {"new", "ended"}
      BY <2>2, <2>4, <2>5
    <3> QED
      BY <2>1, <2>4, <2>6, <3>1, <3>2 DEF Walked
  <2>9. Wrote(r)'
    <3>1. Documents(longer) /\ case.size \in Int /\ case.overlap \in Int
      BY <1>0, <2>4, HeldDocuments, CasesAssumption
    <3>2. Len(ChunkDocuments(longer, case.size, case.overlap)) \in Nat
      BY <3>1, ChunksOfFiles
    <3>3. Len(Chunks(r)') \in Nat
      BY <2>1, <3>2 DEF Chunks
    <3>4. done'[r] = 0 /\ stale'[r] = {} /\ pc'[r] # "deleting"
      BY <1>0, <2>1, <2>5 DEF Wrote
    <3> QED
      BY <3>3, <3>4 DEF Wrote
  <2> QED
    BY <1>0, <2>1, <2>5, <2>6, <2>7, <2>8, <2>9 DEF TypeInv
<1>4. ASSUME NEW r \in Runs, UpsertChunk(r) PROVE TypeInv'
  <2>1. /\ UNCHANGED <<case, version, pc, read, stale, calm>>
        /\ pc[r] = "writing" /\ done[r] < Len(Chunks(r))
        /\ done' = [done EXCEPT ![r] = @ + 1]
    BY <1>4 DEF UpsertChunk
  <2>2. /\ done' \in [Runs -> Nat] /\ done'[r] = done[r] + 1
        /\ \A s \in Runs : s # r => done'[s] = done[s]
    BY <1>0, <2>1
  <2>3. Len(Chunks(r)) \in Nat /\ \A s \in Runs : Chunks(s)' = Chunks(s)
    BY <1>s, <2>1, ChunksOfRun
  <2> QED
    BY <1>0, <1>s, <2>1, <2>2, <2>3 DEF TypeInv, Walked, Wrote
<1>5. ASSUME NEW r \in Runs, ListStale(r) PROVE TypeInv'
  <2>1. /\ UNCHANGED <<case, version, read, done, calm>>
        /\ pc[r] = "writing" /\ done[r] = Len(Chunks(r))
        /\ pc' = [pc EXCEPT ![r] = "deleting"]
        /\ stale' = [stale EXCEPT ![r] = DOMAIN table \ Keys(r)]
    BY <1>5 DEF ListStale
  <2>2. /\ pc' \in [Runs -> Places] /\ pc'[r] = "deleting"
        /\ \A s \in Runs : s # r => pc'[s] = pc[s] /\ stale'[s] = stale[s]
        /\ stale' = [s \in Runs |-> stale'[s]]
    BY <1>0, <2>1 DEF Places
  <2>3. \A s \in Runs : Chunks(s)' = Chunks(s)
    BY <1>s, <2>1
  <2> QED
    BY <1>0, <1>s, <2>1, <2>2, <2>3 DEF TypeInv, Walked, Wrote
<1>6. ASSUME NEW r \in Runs, NEW key \in stale[r], DeleteStale(r, key) PROVE TypeInv'
  <2>1. /\ UNCHANGED <<case, version, pc, read, done, calm>>
        /\ pc[r] = "deleting" /\ stale' = [stale EXCEPT ![r] = @ \ {key}]
    BY <1>6 DEF DeleteStale
  <2>2. /\ stale' = [s \in Runs |-> stale'[s]]
        /\ \A s \in Runs : s # r => stale'[s] = stale[s]
    BY <1>0, <2>1
  <2>3. \A s \in Runs : Chunks(s)' = Chunks(s)
    BY <1>s, <2>1
  <2> QED
    BY <1>0, <1>s, <2>1, <2>2, <2>3 DEF TypeInv, Walked, Wrote
<1>7. ASSUME NEW r \in Runs, Exit(r) PROVE TypeInv'
  <2>1. /\ UNCHANGED <<case, version>> /\ calm' \subseteq Runs
        /\ pc' = [pc EXCEPT ![r] = "ended"] /\ read' = [read EXCEPT ![r] = <<>>]
        /\ done' = [done EXCEPT ![r] = 0] /\ stale' = [stale EXCEPT ![r] = {}]
    BY <1>0, <1>7 DEF Exit
  <2>2. <<>> \in Seq(Held) /\ Len(<<>>) = 0
    OBVIOUS
  <2>3. /\ pc' \in [Runs -> Places] /\ read' \in [Runs -> Seq(Held)] /\ done' \in [Runs -> Nat]
        /\ stale' = [s \in Runs |-> stale'[s]]
        /\ pc'[r] = "ended" /\ read'[r] = <<>> /\ done'[r] = 0 /\ stale'[r] = {}
        /\ \A s \in Runs : s # r => /\ pc'[s] = pc[s] /\ read'[s] = read[s]
                                    /\ done'[s] = done[s] /\ stale'[s] = stale[s]
    BY <1>0, <2>1, <2>2 DEF Places
  <2>4. \A s \in Runs : s # r => Chunks(s)' = Chunks(s)
    BY <1>s, <2>1, <2>3
  <2>5. ASSUME NEW s \in Runs, s # r PROVE Walked(s)' /\ Wrote(s)'
    BY <1>0, <1>s, <2>1, <2>3, <2>4, <2>5 DEF Walked, Wrote
  <2>6. Walked(r)'
    BY <1>s, <2>1, <2>2, <2>3 DEF Walked
  <2>7. Wrote(r)'
    <3>1. Documents(<<>>) /\ case.size \in Int /\ case.overlap \in Int
      BY <1>0, <2>2, HeldDocuments, CasesAssumption
    <3>2. Len(ChunkDocuments(<<>>, case.size, case.overlap)) \in Nat
      BY <3>1, ChunksOfFiles
    <3>3. Len(Chunks(r)') \in Nat
      BY <2>1, <2>3, <3>2 DEF Chunks
    <3> QED
      BY <2>3, <3>3 DEF Wrote
  <2> QED
    BY <1>0, <1>s, <2>1, <2>3, <2>5, <2>6, <2>7 DEF TypeInv
<1>8. CASE UNCHANGED vars
  <2>1. UNCHANGED <<case, version, pc, read, done, stale, calm>>
    BY <1>8 DEF vars
  <2> QED
    BY <1>0, <1>s, <2>1 DEF TypeInv, Walked, Wrote
<1> QED
  BY <1>1, <1>2, <1>3, <1>4, <1>5, <1>6, <1>7, <1>8 DEF Next, Finish, Fail

-----------------------------------------------------------------------------
(* Each chunk is a part of a file's text, and each part is one. *)
Parts(content, size, overlap) == ChunkText(content.paragraphs, size, overlap)

ChunkAt(contents, f, n, size, overlap) ==
  [key |-> <<Paths[f], n - 1>>,
   row |-> [text |-> contents[f].text, chunk |-> Parts(contents[f], size, overlap)[n]]]

LEMMA ChunksAreParts ==
  ASSUME NEW contents, Documents(contents), NEW size \in Int, NEW overlap \in Int, NEW c
  PROVE  c \in ToSet(ChunkDocuments(contents, size, overlap)) <=>
           \E f \in 1..Len(contents) : \E n \in 1..Len(Parts(contents[f], size, overlap)) :
             c = ChunkAt(contents, f, n, size, overlap)
<1> DEFINE of(f) == DocumentChunks(f, contents[f], size, overlap)
           parts(f) == Parts(contents[f], size, overlap)
<1>1. c \in ToSet(ChunkDocuments(contents, size, overlap)) <=>
        \E f \in 1..Len(contents) : c \in ToSet(of(f))
  BY ChunksOfFiles DEF FileChunks
<1>2. ASSUME NEW f \in 1..Len(contents)
      PROVE  c \in ToSet(of(f)) <=> \E n \in 1..Len(parts(f)) : c = ChunkAt(contents, f, n, size, overlap)
  <2>1. f \in Nat /\ contents[f].paragraphs \in Seq(Nat)
    BY DEF Documents
  <2>2. /\ of(f) \in Seq(ToSet(of(f)))
        /\ Len(parts(f)) \in Nat /\ Len(of(f)) = Len(parts(f))
        /\ \A n \in 1..Len(parts(f)) : of(f)[n] = ChunkAt(contents, f, n, size, overlap)
    BY <2>1, ChunksOfFile DEF ChunkAt, Parts
  <2> HIDE DEF of, parts
  <2>3. DOMAIN of(f) = 1..Len(parts(f))
    BY <2>2, LenProperties
  <2> QED
    BY <2>2, <2>3 DEF ToSet
<1> QED
  BY <1>1, <1>2

(* The path and the number of a chunk tell its row. *)
LEMMA KeyTellsRow ==
  ASSUME NEW contents, Documents(contents), NEW size \in Int, NEW overlap \in Int,
         Len(contents) = Len(Paths),
         NEW c \in ToSet(ChunkDocuments(contents, size, overlap)),
         NEW d \in ToSet(ChunkDocuments(contents, size, overlap)), c.key = d.key
  PROVE  c.row = d.row
<1>1. PICK f \in 1..Len(contents) : \E n \in 1..Len(Parts(contents[f], size, overlap)) :
        c = ChunkAt(contents, f, n, size, overlap)
  BY ChunksAreParts
<1>n. PICK n \in 1..Len(Parts(contents[f], size, overlap)) :
        c = ChunkAt(contents, f, n, size, overlap)
  BY <1>1
<1>2. PICK g \in 1..Len(contents) : \E m \in 1..Len(Parts(contents[g], size, overlap)) :
        d = ChunkAt(contents, g, m, size, overlap)
  BY ChunksAreParts
<1>m. PICK m \in 1..Len(Parts(contents[g], size, overlap)) :
        d = ChunkAt(contents, g, m, size, overlap)
  BY <1>2
<1>3. n - 1 = m - 1 /\ Paths[f] = Paths[g]
  BY <1>n, <1>m DEF ChunkAt
<1>4. /\ Len(Parts(contents[f], size, overlap)) \in Nat
      /\ Len(Parts(contents[g], size, overlap)) \in Nat
  BY ChunkTextSound, LenProperties DEF Documents, Parts
<1>5. n = m
  BY <1>3, <1>4
<1>6. f = g
  BY <1>3, PathsAssumption, LenProperties
<1> QED
  BY <1>n, <1>m, <1>5, <1>6 DEF ChunkAt

(* Writing keeps the rows within the size. *)
LEMMA RowsFitStep == TypeInv /\ RowsFit /\ [Next]_vars => RowsFit'
<1> SUFFICES ASSUME TypeInv, RowsFit, [Next]_vars PROVE RowsFit'
  OBVIOUS
<1>1. ASSUME table' = table, case' = case PROVE RowsFit'
  BY <1>1 DEF RowsFit
<1>2. ASSUME NEW r \in Runs, UpsertChunk(r) PROVE RowsFit'
  <2> DEFINE c == Chunks(r)[done[r] + 1]
  <2>1. /\ case' = case /\ done[r] < Len(Chunks(r))
        /\ table' = [k \in DOMAIN table \cup {c.key} |->
                       IF k = c.key THEN c.row ELSE table[k]]
    BY <1>2 DEF UpsertChunk
  <2>2. /\ Documents(read[r]) /\ case.size \in Int /\ case.overlap \in Int
        /\ Chunks(r) \in Seq(ToSet(Chunks(r))) /\ Len(Chunks(r)) \in Nat /\ done[r] \in Nat
    BY ChunksOfRun DEF TypeInv
  <2>3. c \in ToSet(ChunkDocuments(read[r], case.size, case.overlap))
    <3>1. done[r] + 1 \in 1..Len(Chunks(r))
      BY <2>1, <2>2
    <3> QED
      BY <2>2, <3>1, ElementOfSeq DEF Chunks
  <2> HIDE DEF c
  <2>4. PICK f \in 1..Len(read[r]) : \E n \in 1..Len(Parts(read[r][f], case.size, case.overlap)) :
          c = ChunkAt(read[r], f, n, case.size, case.overlap)
    BY <2>2, <2>3, ChunksAreParts
  <2>n. PICK n \in 1..Len(Parts(read[r][f], case.size, case.overlap)) :
          c = ChunkAt(read[r], f, n, case.size, case.overlap)
    BY <2>4
  <2> DEFINE parts == Parts(read[r][f], case.size, case.overlap)
  <2>5. parts \in Seq(Chunk) /\ Fit(parts, ChunkSize(case.size))
    BY <2>2, ChunkTextSound DEF Documents, Parts
  <2>6. c.row.chunk = parts[n]
    BY <2>n DEF ChunkAt
  <2> HIDE DEF parts
  <2>7. ChunkLength(c.row.chunk) <= ChunkSize(case.size)
    <3>1. n \in DOMAIN parts
      BY <2>n, <2>5, LenProperties DEF parts
    <3> QED
      BY <2>5, <2>6, <3>1 DEF Fit, ToSet
  <2>8. ASSUME NEW key \in DOMAIN table'
        PROVE  ChunkLength(table'[key].chunk) <= ChunkSize(case'.size)
    BY <2>1, <2>7 DEF RowsFit
  <2> QED
    BY <2>8 DEF RowsFit
<1>3. ASSUME NEW r \in Runs, NEW key \in stale[r], DeleteStale(r, key) PROVE RowsFit'
  BY <1>3 DEF DeleteStale, RowsFit
<1>4. ASSUME NEW r \in Runs,
             Start(r) \/ ReadFile(r) \/ ListStale(r) \/ Finish(r) \/ Fail(r)
      PROVE  table' = table /\ case' = case
  BY <1>4 DEF Start, ReadFile, ListStale, Finish, Fail, Exit
<1>5. Edit \/ UNCHANGED vars => table' = table /\ case' = case
  BY DEF Edit, vars
<1> QED
  BY <1>1, <1>2, <1>3, <1>4, <1>5 DEF Next

LEMMA TypeAlways == Spec => []TypeInv
  BY TypeInit, TypeStep, PTL DEF Spec

(* No row is longer than the size asked for, whatever was indexed when.    *)
THEOREM RowsAlwaysFit == Spec => []RowsFit
<1>1. Init => RowsFit
  BY DEF Init, RowsFit
<1> QED
  BY <1>1, RowsFitStep, TypeAlways, PTL DEF Spec

-----------------------------------------------------------------------------
(* A run that has read every file writes the first row of one that lasts.  *)
LEMMA FirstIsWritten ==
  ASSUME TypeInv, NEW r \in Runs, pc[r] \in {"writing", "deleting"}, NEW p \in Lasting
  PROVE  \E i \in 1..Len(Chunks(r)) : Chunks(r)[i].key = First(p)
<1>1. /\ Documents(read[r]) /\ case.size \in Int /\ case.overlap \in Int
      /\ Chunks(r) \in Seq(ToSet(Chunks(r))) /\ Len(Chunks(r)) \in Nat
  BY ChunksOfRun
<1>2. Walked(r) /\ Len(read[r]) = Len(Paths)
  BY DEF TypeInv, Walked
<1>3. PICK f \in 1..Len(Paths) : p = Paths[f]
  <2>1. p \in ToSet(Paths)
    BY DEF Lasting
  <2>2. DOMAIN Paths = 1..Len(Paths)
    BY PathsAssumption, LenProperties
  <2> QED
    BY <2>1, <2>2 DEF ToSet
<1>4. PICK n \in 1..Len(case.versions) : read[r][f] = case.versions[n][p]
  BY <1>2, <1>3 DEF Walked
<1> DEFINE ps == read[r][f].paragraphs
           parts == Parts(read[r][f], case.size, case.overlap)
<1>5. ps \in Seq(Nat) /\ DOMAIN ps = 1..Len(ps)
  BY <1>1, <1>2, <1>3, LenProperties DEF Documents
<1>6. PICK i \in 1..Len(ps) : ps[i] > 0
  <2>1. DOMAIN case.versions = 1..Len(case.versions)
    BY CasesAssumption DEF TypeInv
  <2>2. \E i \in DOMAIN ps : ps[i] > 0
    BY <1>4, <2>1 DEF Lasting
  <2> QED
    BY <1>5, <2>2
<1>7. /\ parts \in Seq(Chunk) /\ Len(parts) \in Nat /\ DOMAIN parts = 1..Len(parts)
      /\ Covers(SpansOf(parts), i, ps[i])
  <2>1. /\ parts \in Seq(Chunk) /\ Covers(SpansOf(parts), i, ps[i])
    BY <1>1, <1>5, ChunkTextSound DEF Parts
  <2> HIDE DEF parts
  <2> QED
    BY <2>1, LenProperties
<1>8. 1 \in 1..Len(parts)
  <2>1. ps[i] \in Nat
    BY <1>5, ElementOfSeq
  <2>2. 1 \in 1..ps[i]
    BY <1>6, <2>1
  <2>3. SpansOf(parts) # {}
    BY <1>7, <2>2 DEF Covers
  <2>4. ToSet(parts) # {}
    BY <2>3 DEF SpansOf
  <2>5. DOMAIN parts # {}
    BY <2>4 DEF ToSet
  <2> QED
    BY <1>7, <2>5
<1>9. ChunkAt(read[r], f, 1, case.size, case.overlap) \in ToSet(Chunks(r))
  BY <1>1, <1>2, <1>3, <1>8, ChunksAreParts DEF Chunks
<1>10. ChunkAt(read[r], f, 1, case.size, case.overlap).key = First(p)
  BY <1>3 DEF ChunkAt, First
<1>11. DOMAIN Chunks(r) = 1..Len(Chunks(r))
  BY <1>1, LenProperties
<1> QED
  BY <1>9, <1>10, <1>11 DEF ToSet

LEMMA FindInit == Init => FindInv
  BY DEF Init, FindInv

LEMMA FindStep == TypeInv /\ FindInv /\ [Next]_vars => FindInv'
<1> SUFFICES ASSUME TypeInv, FindInv, [Next]_vars, NEW p \in Lasting', NEW r \in Runs'
             PROVE  /\ First(p) \notin stale'[r]
                    /\ \A i \in 1..done'[r] :
                         Chunks(r)'[i].key = First(p) => First(p) \in DOMAIN table'
  BY DEF FindInv, First
<1>0. case' = case
  BY DEF Next, vars, Edit, Start, ReadFile, UpsertChunk, ListStale, DeleteStale,
         Finish, Fail, Exit
<1>1. /\ p \in Lasting /\ r \in Runs /\ First(p) \notin stale[r]
      /\ \A i \in 1..done[r] : Chunks(r)[i].key = First(p) => First(p) \in DOMAIN table
      /\ \A s \in Runs : First(p) \notin stale[s]
      /\ read'[r] = read[r] => Chunks(r)' = Chunks(r)
      /\ Wrote(r) /\ Walked(r) /\ done \in [Runs -> Nat] /\ read \in [Runs -> Seq(Held)]
      /\ pc \in [Runs -> Places] /\ stale = [s \in Runs |-> stale[s]]
  BY <1>0, Settled DEF FindInv, TypeInv
<1>2. ASSUME UNCHANGED <<table, read, done, stale>>
      PROVE  /\ First(p) \notin stale'[r]
             /\ \A i \in 1..done'[r] :
                  Chunks(r)'[i].key = First(p) => First(p) \in DOMAIN table'
  BY <1>1, <1>2
<1>3. ASSUME NEW s \in Runs, Start(s) PROVE UNCHANGED <<table, read, done, stale>>
  BY <1>3 DEF Start
<1>4. Edit \/ UNCHANGED vars => UNCHANGED <<table, read, done, stale>>
  BY DEF Edit, vars
<1>5. ASSUME NEW s \in Runs, ReadFile(s)
      PROVE  /\ First(p) \notin stale'[r]
             /\ \A i \in 1..done'[r] :
                  Chunks(r)'[i].key = First(p) => First(p) \in DOMAIN table'
  <2>1. UNCHANGED <<table, done, stale>> /\ (s # r => read'[r] = read[r])
    BY <1>1, <1>5 DEF ReadFile
  <2>2. s = r => done[r] = 0
    BY <1>1, <1>5 DEF ReadFile, Wrote
  <2> QED
    BY <1>1, <2>1, <2>2
<1>6. ASSUME NEW s \in Runs, UpsertChunk(s)
      PROVE  /\ First(p) \notin stale'[r]
             /\ \A i \in 1..done'[r] :
                  Chunks(r)'[i].key = First(p) => First(p) \in DOMAIN table'
  <2>1. /\ UNCHANGED <<read, stale>> /\ done' = [done EXCEPT ![s] = @ + 1]
        /\ DOMAIN table' = DOMAIN table \cup {Chunks(s)[done[s] + 1].key}
    BY <1>6 DEF UpsertChunk
  <2>2. ASSUME NEW i \in 1..done'[r], Chunks(r)[i].key = First(p)
        PROVE  First(p) \in DOMAIN table'
    <3>1. i \in 1..done[r] \/ (s = r /\ i = done[r] + 1)
      BY <1>1, <2>1, <2>2
    <3> QED
      BY <1>1, <2>1, <2>2, <3>1
  <2> QED
    BY <1>1, <2>1, <2>2
<1>7. ASSUME NEW s \in Runs, ListStale(s)
      PROVE  /\ First(p) \notin stale'[r]
             /\ \A i \in 1..done'[r] :
                  Chunks(r)'[i].key = First(p) => First(p) \in DOMAIN table'
  <2>1. /\ UNCHANGED <<table, read, done>> /\ pc[s] = "writing"
        /\ stale' = [stale EXCEPT ![s] = DOMAIN table \ Keys(s)]
    BY <1>7 DEF ListStale
  <2>2. First(p) \in Keys(s)
    <3>1. PICK i \in 1..Len(Chunks(s)) : Chunks(s)[i].key = First(p)
      BY <1>1, <2>1, FirstIsWritten
    <3>2. DOMAIN Chunks(s) = 1..Len(Chunks(s))
      BY ChunksOfRun, LenProperties
    <3> QED
      BY <3>1, <3>2 DEF Keys, ToSet
  <2>3. First(p) \notin stale'[r]
    BY <1>1, <2>1, <2>2
  <2> QED
    BY <1>1, <2>1, <2>3
<1>8. ASSUME NEW s \in Runs, NEW key \in stale[s], DeleteStale(s, key)
      PROVE  /\ First(p) \notin stale'[r]
             /\ \A i \in 1..done'[r] :
                  Chunks(r)'[i].key = First(p) => First(p) \in DOMAIN table'
  <2>1. /\ UNCHANGED <<read, done>> /\ stale' = [stale EXCEPT ![s] = @ \ {key}]
        /\ DOMAIN table' = DOMAIN table \ {key}
    BY <1>8 DEF DeleteStale
  <2>2. key # First(p)
    BY <1>1, <1>8
  <2> QED
    BY <1>1, <2>1, <2>2
<1>9. ASSUME NEW s \in Runs, Finish(s) \/ Fail(s)
      PROVE  /\ First(p) \notin stale'[r]
             /\ \A i \in 1..done'[r] :
                  Chunks(r)'[i].key = First(p) => First(p) \in DOMAIN table'
  <2>1. /\ table' = table /\ read' = [read EXCEPT ![s] = <<>>]
        /\ done' = [done EXCEPT ![s] = 0] /\ stale' = [stale EXCEPT ![s] = {}]
    BY <1>9 DEF Finish, Fail, Exit
  <2>2. CASE s = r
    BY <1>1, <2>1, <2>2
  <2>3. CASE s # r
    BY <1>1, <2>1, <2>3
  <2> QED
    BY <2>2, <2>3
<1> QED
  BY <1>2, <1>3, <1>4, <1>5, <1>6, <1>7, <1>8, <1>9 DEF Next

(* A file that always has some text is found at any time from its first    *)
(* row on: a run deletes only after it has written the file's first row,   *)
(* and no run ever takes that one for stale.                               *)
THEOREM FilesStayFindable == Spec => StaysFindable
<1>1. TypeInv /\ FindInv /\ [Next]_vars =>
        [\A p \in Lasting : Rows(p) # {} => Rows(p)' # {}]_vars
  <2> SUFFICES ASSUME TypeInv, FindInv, Next, NEW p \in Lasting, Rows(p) # {}
               PROVE  Rows(p)' # {}
    OBVIOUS
  <2>1. ASSUME DOMAIN table \subseteq DOMAIN table' PROVE Rows(p)' # {}
    BY <2>1 DEF Rows
  <2>2. ASSUME NEW r \in Runs, UpsertChunk(r) PROVE DOMAIN table \subseteq DOMAIN table'
    BY <2>2 DEF UpsertChunk
  <2>3. ASSUME NEW r \in Runs,
               Start(r) \/ ReadFile(r) \/ ListStale(r) \/ Finish(r) \/ Fail(r)
        PROVE  table' = table
    BY <2>3 DEF Start, ReadFile, ListStale, Finish, Fail, Exit
  <2>4. Edit => table' = table
    BY DEF Edit
  <2>5. ASSUME NEW r \in Runs, NEW key \in stale[r], DeleteStale(r, key)
        PROVE  Rows(p)' # {}
    <3>1. /\ pc[r] = "deleting" /\ DOMAIN table' = DOMAIN table \ {key}
      BY <2>5 DEF DeleteStale
    <3>2. done[r] = Len(Chunks(r))
      BY <3>1 DEF TypeInv, Wrote
    <3>3. First(p) \in DOMAIN table /\ key # First(p)
      BY <2>5, <3>1, <3>2, FirstIsWritten DEF FindInv
    <3>4. First(p)[1] = p
      BY DEF First
    <3> QED
      BY <3>1, <3>3, <3>4 DEF Rows
  <2> QED
    BY <2>1, <2>2, <2>3, <2>4, <2>5 DEF Next
<1>2. Spec => []FindInv
  BY FindInit, FindStep, TypeAlways, PTL DEF Spec
<1> QED
  BY <1>1, <1>2, TypeAlways, PTL DEF Spec, StaysFindable

-----------------------------------------------------------------------------
(* A run that is up to date writes what is wanted. *)
LEMMA WantedDocuments ==
  ASSUME TypeInv
  PROVE  /\ Documents([f \in 1..Len(Paths) |-> Files[Paths[f]]])
         /\ Len([f \in 1..Len(Paths) |-> Files[Paths[f]]]) = Len(Paths)
         /\ case.size \in Int /\ case.overlap \in Int
<1> DEFINE files == [f \in 1..Len(Paths) |-> Files[Paths[f]]]
<1>1. Len(Paths) \in Nat /\ \A f \in 1..Len(Paths) : Paths[f] \in ToSet(Paths)
  BY PathsAssumption, LenProperties, ElementOfSeq
<1>2. case \in Cases /\ version \in 1..Len(case.versions)
  BY DEF TypeInv
<1>3. \A f \in 1..Len(Paths) : Files[Paths[f]] \in Held
  BY <1>1, <1>2 DEF Files, Held
<1>4. files \in Seq(Held) /\ Len(files) = Len(Paths)
  BY <1>1, <1>3
<1> HIDE DEF files
<1>5. Documents(files)
  BY <1>2, <1>4, HeldDocuments
<1> QED
  BY <1>2, <1>4, <1>5, CasesAssumption DEF files

LEMMA WantedRows ==
  ASSUME TypeInv, NEW c \in Wanted, NEW d \in Wanted, c.key = d.key
  PROVE  c.row = d.row
<1> DEFINE files == [f \in 1..Len(Paths) |-> Files[Paths[f]]]
<1>1. /\ Documents(files) /\ Len(files) = Len(Paths)
      /\ case.size \in Int /\ case.overlap \in Int
  BY WantedDocuments
<1>2. /\ c \in ToSet(ChunkDocuments(files, case.size, case.overlap))
      /\ d \in ToSet(ChunkDocuments(files, case.size, case.overlap))
  BY DEF Wanted
<1> HIDE DEF files
<1> QED
  BY <1>1, <1>2, KeyTellsRow

LEMMA UpToDateWrites ==
  ASSUME TypeInv, NEW r \in Runs, pc[r] \in {"writing", "deleting"}, UpToDate(r)
  PROVE  /\ ToSet(Chunks(r)) = Wanted
         /\ Keys(r) = {chunk.key : chunk \in Wanted}
         /\ Len(Chunks(r)) \in Nat /\ DOMAIN Chunks(r) = 1..Len(Chunks(r))
<1>1. read[r] \in Seq(Held) /\ Len(read[r]) = Len(Paths)
  BY DEF TypeInv, Walked
<1>2. DOMAIN read[r] = 1..Len(Paths) /\ read[r] = [f \in 1..Len(Paths) |-> read[r][f]]
  BY <1>1, LenProperties
<1>3. read[r] = [f \in 1..Len(Paths) |-> Files[Paths[f]]]
  BY <1>2 DEF UpToDate
<1>4. ToSet(Chunks(r)) = Wanted
  BY <1>3 DEF Chunks, Wanted
<1>5. Len(Chunks(r)) \in Nat /\ DOMAIN Chunks(r) = 1..Len(Chunks(r))
  BY ChunksOfRun, LenProperties
<1> QED
  BY <1>4, <1>5 DEF Keys

LEMMA CurrentInit == Init => CurrentInv
  BY DEF Init, CurrentInv, AllUpToDate, OwnKeysKept

LEMMA UpToDateStep == TypeInv /\ AllUpToDate /\ [Next]_vars => AllUpToDate'
<1> SUFFICES ASSUME TypeInv, AllUpToDate, [Next]_vars, calm' # {} \/ indexed',
                    NEW r \in Runs'
             PROVE  UpToDate(r)'
  BY DEF AllUpToDate
<1>0. case' = case /\ r \in Runs
  <2>1. case' = case
    BY DEF Next, vars, Edit, Start, ReadFile, UpsertChunk, ListStale, DeleteStale,
           Finish, Fail, Exit
  <2> QED
    BY <2>1, Settled
<1>1. /\ Walked(r) /\ pc \in [Runs -> Places] /\ read \in [Runs -> Seq(Held)]
      /\ calm \subseteq Runs
  BY <1>0 DEF TypeInv
<1>2. CASE Edit
  BY <1>2 DEF Edit
<1>3. ASSUME version' = version, read'[r] = read[r], UpToDate(r) PROVE UpToDate(r)'
  BY <1>0, <1>3 DEF UpToDate, Files
<1>4. calm # {} \/ indexed => UpToDate(r)
  BY <1>0 DEF AllUpToDate
<1>5. ASSUME read[r] = <<>> PROVE UpToDate(r)
  BY <1>5 DEF UpToDate
<1>6. ASSUME NEW s \in Runs, Start(s) PROVE UpToDate(r)'
  <2>1. UNCHANGED <<version, read, indexed>>
    BY <1>6 DEF Start
  <2>2. calm # {} \/ indexed \/ \A t \in Active : UpToDate(t)
    BY <1>6 DEF Start
  <2>3. r \in Active \/ read[r] = <<>>
    BY <1>0, <1>1 DEF Active, Walked
  <2> QED
    BY <1>3, <1>4, <1>5, <2>1, <2>2, <2>3
<1>7. ASSUME NEW s \in Runs, ReadFile(s) PROVE UpToDate(r)'
  <2>1. /\ UNCHANGED <<version, calm, indexed>>
        /\ read' = [read EXCEPT ![s] = Append(@, Files[Paths[Len(@) + 1]])]
    BY <1>7 DEF ReadFile
  <2>2. UpToDate(r)
    BY <1>4, <2>1
  <2>3. CASE s # r
    BY <1>1, <1>3, <2>1, <2>2, <2>3
  <2>4. CASE s = r
    <3> DEFINE file == Files[Paths[Len(read[r]) + 1]]
    <3>1. read'[r] = Append(read[r], file) /\ read[r] \in Seq(Held \cup {file})
      <4>1. Held \subseteq Held \cup {file}
        OBVIOUS
      <4>2. read[r] \in Seq(Held)
        BY <1>1 DEF Walked
      <4> QED
        BY <1>0, <1>1, <2>1, <2>4, <4>2
    <3> HIDE DEF file
    <3>2. /\ Len(read[r]) \in Nat /\ DOMAIN read[r] = 1..Len(read[r])
          /\ DOMAIN read'[r] = 1..Len(read[r]) + 1
          /\ read'[r][Len(read[r]) + 1] = file
          /\ \A f \in 1..Len(read[r]) : read'[r][f] = read[r][f]
      BY <3>1, AppendProperties, LenProperties
    <3>3. \A f \in 1..Len(read[r]) : read[r][f] = Files[Paths[f]]
      BY <2>2, <3>2 DEF UpToDate
    <3>4. ASSUME NEW f \in DOMAIN read'[r] PROVE read'[r][f] = Files[Paths[f]]
      <4>1. f = Len(read[r]) + 1 \/ f \in 1..Len(read[r])
        BY <3>2, <3>4
      <4> QED
        BY <3>2, <3>3, <4>1 DEF file
    <3>5. Files' = Files
      BY <1>0, <2>1 DEF Files
    <3> QED
      BY <3>4, <3>5 DEF UpToDate
  <2> QED
    BY <2>3, <2>4
<1>8. ASSUME NEW s \in Runs, Finish(s) \/ Fail(s) PROVE UpToDate(r)'
  <2>1. /\ version' = version /\ read' = [read EXCEPT ![s] = <<>>]
        /\ calm' \subseteq calm /\ (indexed' => indexed \/ s \in calm)
    BY <1>8 DEF Finish, Fail, Exit
  <2>2. CASE s # r
    BY <1>1, <1>3, <1>4, <2>1, <2>2
  <2>3. CASE s = r
    <3>1. read'[r] = <<>>
      BY <1>0, <1>1, <2>1, <2>3
    <3> QED
      BY <3>1 DEF UpToDate
  <2> QED
    BY <2>2, <2>3
<1>9. ASSUME UNCHANGED <<version, read, calm, indexed>> PROVE UpToDate(r)'
  BY <1>3, <1>4, <1>9
<1>10. ASSUME NEW s \in Runs,
              UpsertChunk(s) \/ ListStale(s) \/ \E key \in stale[s] : DeleteStale(s, key)
       PROVE  UNCHANGED <<version, read, calm, indexed>>
  BY <1>10 DEF UpsertChunk, ListStale, DeleteStale
<1>11. UNCHANGED vars => UNCHANGED <<version, read, calm, indexed>>
  BY DEF vars
<1> QED
  BY <1>2, <1>6, <1>7, <1>8, <1>9, <1>10, <1>11 DEF Next

LEMMA OwnKeysStep == TypeInv /\ OwnKeysKept /\ [Next]_vars => OwnKeysKept'
<1> SUFFICES ASSUME TypeInv, OwnKeysKept, [Next]_vars, NEW r \in Runs'
             PROVE  (stale[r] \cap Keys(r))' = {}
  BY DEF OwnKeysKept
<1>0. case' = case
  BY DEF Next, vars, Edit, Start, ReadFile, UpsertChunk, ListStale, DeleteStale,
         Finish, Fail, Exit
<1>1. /\ r \in Runs /\ Wrote(r) /\ stale[r] \cap Keys(r) = {}
      /\ read'[r] = read[r] => Keys(r)' = Keys(r)
      /\ stale = [s \in Runs |-> stale[s]] /\ read \in [Runs -> Seq(Held)]
  BY <1>0, Settled DEF TypeInv, OwnKeysKept
<1>2. ASSUME read'[r] = read[r], stale'[r] \subseteq stale[r]
      PROVE  stale'[r] \cap Keys(r)' = {}
  BY <1>1, <1>2
<1>3. ASSUME NEW s \in Runs, Start(s) \/ UpsertChunk(s)
      PROVE  UNCHANGED <<read, stale>>
  BY <1>3 DEF Start, UpsertChunk
<1>4. Edit \/ UNCHANGED vars => UNCHANGED <<read, stale>>
  BY DEF Edit, vars
<1>5. ASSUME NEW s \in Runs, ReadFile(s) PROVE stale'[r] \cap Keys(r)' = {}
  <2>1. stale' = stale /\ pc[s] = "reading" /\ (s # r => read'[r] = read[r])
    BY <1>1, <1>5 DEF ReadFile
  <2>2. s = r => stale[r] = {}
    BY <1>1, <2>1 DEF Wrote
  <2> QED
    BY <1>1, <2>1, <2>2
<1>6. ASSUME NEW s \in Runs, ListStale(s) PROVE stale'[r] \cap Keys(r)' = {}
  <2>1. read' = read /\ stale' = [stale EXCEPT ![s] = DOMAIN table \ Keys(s)]
    BY <1>6 DEF ListStale
  <2> QED
    BY <1>1, <2>1
<1>7. ASSUME NEW s \in Runs, NEW key \in stale[s], DeleteStale(s, key)
      PROVE  stale'[r] \cap Keys(r)' = {}
  <2>1. read' = read /\ stale' = [stale EXCEPT ![s] = @ \ {key}]
    BY <1>7 DEF DeleteStale
  <2> QED
    BY <1>1, <2>1
<1>8. ASSUME NEW s \in Runs, Finish(s) \/ Fail(s) PROVE stale'[r] \cap Keys(r)' = {}
  <2>1. /\ read' = [read EXCEPT ![s] = <<>>] /\ stale' = [stale EXCEPT ![s] = {}]
    BY <1>8 DEF Finish, Fail, Exit
  <2> QED
    BY <1>1, <2>1
<1> QED
  BY <1>1, <1>2, <1>3, <1>4, <1>5, <1>6, <1>7, <1>8 DEF Next

(* What a step does to the table while every run is up to date: a wanted   *)
(* chunk that is there stays, and no other comes.                          *)
WantedKeys == {chunk.key : chunk \in Wanted}

LEMMA TableStep ==
  ASSUME TypeInv, CurrentInv, [Next]_vars, calm # {} \/ indexed
  PROVE  /\ \A chunk \in Wanted : In(chunk) => In(chunk)'
         /\ DOMAIN table' \subseteq DOMAIN table \cup WantedKeys
<1>0. \A s \in Runs : UpToDate(s) /\ stale[s] \cap Keys(s) = {} /\ done[s] \in Nat
  BY DEF CurrentInv, AllUpToDate, OwnKeysKept, TypeInv
<1>1. ASSUME table' = table
      PROVE  /\ \A chunk \in Wanted : In(chunk) => In(chunk)'
             /\ DOMAIN table' \subseteq DOMAIN table \cup WantedKeys
  BY <1>1 DEF In
<1>2. ASSUME NEW s \in Runs,
             Start(s) \/ ReadFile(s) \/ ListStale(s) \/ Finish(s) \/ Fail(s)
      PROVE  table' = table
  BY <1>2 DEF Start, ReadFile, ListStale, Finish, Fail, Exit
<1>3. Edit \/ UNCHANGED vars => table' = table
  BY DEF Edit, vars
<1>4. ASSUME NEW s \in Runs, UpsertChunk(s)
      PROVE  /\ \A chunk \in Wanted : In(chunk) => In(chunk)'
             /\ DOMAIN table' \subseteq DOMAIN table \cup WantedKeys
  <2> DEFINE c == Chunks(s)[done[s] + 1]
  <2>1. /\ pc[s] = "writing" /\ done[s] < Len(Chunks(s))
        /\ table' = [k \in DOMAIN table \cup {c.key} |->
                       IF k = c.key THEN c.row ELSE table[k]]
    BY <1>4 DEF UpsertChunk
  <2>2. /\ ToSet(Chunks(s)) = Wanted /\ Len(Chunks(s)) \in Nat
        /\ DOMAIN Chunks(s) = 1..Len(Chunks(s))
    BY <1>0, <2>1, UpToDateWrites
  <2>3. c \in Wanted
    <3>1. done[s] + 1 \in DOMAIN Chunks(s)
      BY <1>0, <2>1, <2>2
    <3> QED
      BY <2>2, <3>1 DEF ToSet
  <2> HIDE DEF c
  <2>4. ASSUME NEW chunk \in Wanted, In(chunk) PROVE In(chunk)'
    <3>1. chunk.key = c.key => chunk.row = c.row
      BY <2>3, WantedRows
    <3> QED
      BY <2>1, <2>4, <3>1 DEF In
  <2>5. DOMAIN table' = DOMAIN table \cup {c.key} /\ c.key \in WantedKeys
    BY <2>1, <2>3 DEF WantedKeys
  <2> QED
    BY <2>4, <2>5
<1>5. ASSUME NEW s \in Runs, NEW key \in stale[s], DeleteStale(s, key)
      PROVE  /\ \A chunk \in Wanted : In(chunk) => In(chunk)'
             /\ DOMAIN table' \subseteq DOMAIN table \cup WantedKeys
  <2>1. /\ pc[s] = "deleting"
        /\ table' = [k \in DOMAIN table \ {key} |-> table[k]]
    BY <1>5 DEF DeleteStale
  <2>2. Keys(s) = {chunk.key : chunk \in Wanted}
    BY <1>0, <2>1, UpToDateWrites
  <2>3. \A chunk \in Wanted : chunk.key # key
    BY <1>0, <2>2
  <2> QED
    BY <2>1, <2>3 DEF In
<1> QED
  BY <1>1, <1>2, <1>3, <1>4, <1>5 DEF Next

LEMMA OnItsWayStep ==
  ASSUME TypeInv, CurrentInv, [Next]_vars, NEW r \in calm'
  PROVE  OnItsWay(r)'
<1>0. case' = case
  BY DEF Next, vars, Edit, Start, ReadFile, UpsertChunk, ListStale, DeleteStale,
         Finish, Fail, Exit
<1>t. /\ pc \in [Runs -> Places] /\ read \in [Runs -> Seq(Held)] /\ done \in [Runs -> Nat]
      /\ stale = [s \in Runs |-> stale[s]] /\ calm \subseteq Runs
      /\ \A s \in Runs : Wrote(s)
      /\ \A s : read'[s] = read[s] => Chunks(s)' = Chunks(s) /\ Keys(s)' = Keys(s)
  BY <1>0, Settled DEF TypeInv
<1>1. ASSUME NEW s \in Runs, Start(s) PROVE OnItsWay(r)'
  <2>1. /\ UNCHANGED <<table, read, done, stale>> /\ pc[s] = "new"
        /\ pc' = [pc EXCEPT ![s] = IF Paths = <<>> THEN "writing" ELSE "reading"]
        /\ r \in calm \/ r = s
    BY <1>1 DEF Start
  <2>2. CASE r = s
    <3>1. done[r] = 0 /\ pc'[r] \in {"reading", "writing"}
      BY <1>t, <2>1, <2>2 DEF Wrote
    <3> QED
      BY <2>1, <3>1 DEF OnItsWay
  <2>3. CASE r # s
    <3>1. OnItsWay(r) /\ pc'[r] = pc[r] /\ Chunks(r)' = Chunks(r) /\ Keys(r)' = Keys(r)
      BY <1>t, <2>1, <2>3 DEF CurrentInv
    <3> QED
      BY <2>1, <3>1 DEF OnItsWay, In
  <2> QED
    BY <2>2, <2>3
<1>2. ASSUME NEW s \in Runs, ReadFile(s) PROVE OnItsWay(r)'
  <2>1. /\ UNCHANGED <<table, done, stale, calm>> /\ pc[s] = "reading"
        /\ \A i \in Runs : i # s => read'[i] = read[i] /\ pc'[i] = pc[i]
        /\ pc'[s] \in {"reading", "writing"}
    BY <1>t, <1>2 DEF ReadFile
  <2>2. CASE r = s
    <3>1. done[r] = 0
      BY <1>t, <2>1, <2>2 DEF Wrote
    <3> QED
      BY <2>1, <2>2, <3>1 DEF OnItsWay
  <2>3. CASE r # s
    <3>1. OnItsWay(r) /\ pc'[r] = pc[r] /\ Chunks(r)' = Chunks(r) /\ Keys(r)' = Keys(r)
      BY <1>t, <2>1, <2>3 DEF CurrentInv
    <3> QED
      BY <2>1, <3>1 DEF OnItsWay, In
  <2> QED
    BY <2>2, <2>3
<1>3. ASSUME r \in calm, read'[r] = read[r],
             pc'[r] = pc[r] \/ (pc[r] = "writing" /\ pc'[r] = "deleting")
      PROVE  /\ r \in Runs /\ OnItsWay(r) /\ Chunks(r)' = Chunks(r) /\ Keys(r)' = Keys(r)
             /\ pc'[r] \in {"reading", "writing", "deleting"}
             /\ pc'[r] \in {"writing", "deleting"} =>
                  /\ pc[r] \in {"writing", "deleting"}
                  /\ \A i \in 1..done[r] : Chunks(r)[i] \in Wanted /\ In(Chunks(r)[i])'
                  /\ Keys(r) = WantedKeys
                  /\ DOMAIN table' \subseteq DOMAIN table \cup Keys(r)
  <2>1. /\ r \in Runs /\ OnItsWay(r) /\ Chunks(r)' = Chunks(r) /\ Keys(r)' = Keys(r)
        /\ calm # {} /\ UpToDate(r) /\ Wrote(r)
    BY <1>t, <1>3 DEF CurrentInv, AllUpToDate
  <2>2. pc'[r] \in {"reading", "writing", "deleting"}
    BY <1>3, <2>1 DEF OnItsWay
  <2>3. ASSUME pc'[r] \in {"writing", "deleting"}
        PROVE  /\ pc[r] \in {"writing", "deleting"}
               /\ \A i \in 1..done[r] : Chunks(r)[i] \in Wanted /\ In(Chunks(r)[i])'
               /\ Keys(r) = WantedKeys
               /\ DOMAIN table' \subseteq DOMAIN table \cup Keys(r)
    <3>1. pc[r] \in {"writing", "deleting"}
      BY <1>3, <2>3
    <3>2. /\ ToSet(Chunks(r)) = Wanted /\ Keys(r) = WantedKeys /\ Len(Chunks(r)) \in Nat
          /\ DOMAIN Chunks(r) = 1..Len(Chunks(r))
      BY <2>1, <3>1, UpToDateWrites DEF WantedKeys
    <3>3. \A i \in 1..done[r] : Chunks(r)[i] \in Wanted
      <4>1. \A i \in 1..done[r] : i \in DOMAIN Chunks(r)
        BY <2>1, <3>2 DEF Wrote
      <4> QED
        BY <3>2, <4>1 DEF ToSet
    <3>4. \A chunk \in Wanted : In(chunk) => In(chunk)'
      BY <2>1, TableStep
    <3>5. \A i \in 1..done[r] : In(Chunks(r)[i])
      BY <2>1 DEF OnItsWay
    <3>6. ASSUME NEW i \in 1..done[r] PROVE In(Chunks(r)[i])'
      <4>1. PICK chunk \in Wanted : chunk = Chunks(r)[i]
        BY <3>3
      <4>2. In(chunk)'
        BY <3>4, <3>5, <4>1
      <4> QED
        BY <2>1, <4>1, <4>2 DEF In
    <3>7. DOMAIN table' \subseteq DOMAIN table \cup WantedKeys
      BY <2>1, TableStep
    <3> QED
      BY <3>1, <3>2, <3>3, <3>6, <3>7
  <2> QED
    BY <2>1, <2>2, <2>3
<1>4. ASSUME NEW s \in Runs, UpsertChunk(s) PROVE OnItsWay(r)'
  <2>1. /\ UNCHANGED <<pc, read, stale, calm>> /\ pc[s] = "writing"
        /\ done[s] < Len(Chunks(s)) /\ done' = [done EXCEPT ![s] = @ + 1]
        /\ LET c == Chunks(s)[done[s] + 1]
           IN  table' = [k \in DOMAIN table \cup {c.key} |->
                           IF k = c.key THEN c.row ELSE table[k]]
    BY <1>4 DEF UpsertChunk
  <2>2. r \in Runs /\ OnItsWay(r) /\ Chunks(r)' = Chunks(r) /\ Keys(r)' = Keys(r)
        /\ pc'[r] \in {"reading", "writing", "deleting"}
    BY <1>3, <2>1
  <2>3. ASSUME NEW i \in 1..done'[r] PROVE In(Chunks(r)[i])'
    <3>1. pc[r] \in {"writing", "deleting"}
      BY <1>t, <2>1, <2>2, <2>3 DEF Wrote
    <3>2. CASE i \in 1..done[r]
      BY <1>3, <2>1, <3>1, <3>2
    <3>3. CASE i \notin 1..done[r]
      <4>1. r = s /\ i = done[s] + 1
        BY <1>t, <2>1, <2>2, <2>3, <3>3
      <4> QED
        BY <2>1, <2>2, <4>1 DEF In
    <3> QED
      BY <3>2, <3>3
  <2>4. ASSUME pc'[r] = "deleting" PROVE DOMAIN table' \subseteq Keys(r) \cup stale'[r]
    BY <1>3, <2>1, <2>2, <2>4 DEF OnItsWay
  <2> QED
    BY <2>2, <2>3, <2>4 DEF OnItsWay, In
<1>5. ASSUME NEW s \in Runs, ListStale(s) PROVE OnItsWay(r)'
  <2>1. /\ UNCHANGED <<table, read, done, calm>> /\ pc[s] = "writing"
        /\ pc' = [pc EXCEPT ![s] = "deleting"]
        /\ stale' = [stale EXCEPT ![s] = DOMAIN table \ Keys(s)]
    BY <1>5 DEF ListStale
  <2>2. pc'[r] = pc[r] \/ (pc[r] = "writing" /\ pc'[r] = "deleting")
    BY <1>t, <2>1
  <2>3. r \in Runs /\ OnItsWay(r) /\ Chunks(r)' = Chunks(r) /\ Keys(r)' = Keys(r)
        /\ pc'[r] \in {"reading", "writing", "deleting"}
    BY <1>3, <2>1, <2>2
  <2>4. CASE r = s
    BY <1>t, <2>1, <2>3, <2>4 DEF OnItsWay, In
  <2>5. CASE r # s
    BY <1>t, <2>1, <2>3, <2>5 DEF OnItsWay, In
  <2> QED
    BY <2>4, <2>5
<1>6. ASSUME NEW s \in Runs, NEW key \in stale[s], DeleteStale(s, key) PROVE OnItsWay(r)'
  <2>1. /\ UNCHANGED <<pc, read, done, calm>> /\ pc[s] = "deleting"
        /\ stale' = [stale EXCEPT ![s] = @ \ {key}]
        /\ DOMAIN table' = DOMAIN table \ {key}
    BY <1>6 DEF DeleteStale
  <2>2. r \in Runs /\ OnItsWay(r) /\ Chunks(r)' = Chunks(r) /\ Keys(r)' = Keys(r)
        /\ pc'[r] \in {"reading", "writing", "deleting"}
    BY <1>3, <2>1
  <2>3. ASSUME NEW i \in 1..done'[r] PROVE In(Chunks(r)[i])'
    <3>1. pc[r] \in {"writing", "deleting"}
      BY <1>t, <2>1, <2>2, <2>3 DEF Wrote
    <3> QED
      BY <1>3, <2>1, <2>3, <3>1
  <2>4. ASSUME pc'[r] = "deleting" PROVE DOMAIN table' \subseteq Keys(r) \cup stale'[r]
    <3>1. DOMAIN table \subseteq Keys(r) \cup stale[r]
      BY <2>1, <2>2, <2>4 DEF OnItsWay
    <3>2. stale[r] \subseteq stale'[r] \cup {key}
      BY <1>t, <2>1, <2>2
    <3> QED
      BY <2>1, <3>1, <3>2
  <2> QED
    BY <2>2, <2>3, <2>4 DEF OnItsWay, In
<1>7. ASSUME NEW s \in Runs, Finish(s) \/ Fail(s) PROVE OnItsWay(r)'
  <2>1. /\ table' = table /\ r \in calm /\ r # s
        /\ pc' = [pc EXCEPT ![s] = "ended"] /\ read' = [read EXCEPT ![s] = <<>>]
        /\ done' = [done EXCEPT ![s] = 0] /\ stale' = [stale EXCEPT ![s] = {}]
    BY <1>7 DEF Finish, Fail, Exit
  <2>2. pc'[r] = pc[r] /\ read'[r] = read[r] /\ done'[r] = done[r] /\ stale'[r] = stale[r]
    BY <1>t, <2>1
  <2>3. OnItsWay(r) /\ Chunks(r)' = Chunks(r) /\ Keys(r)' = Keys(r)
    BY <1>t, <2>1, <2>2 DEF CurrentInv
  <2> QED
    BY <2>1, <2>2, <2>3 DEF OnItsWay, In
<1>8. CASE Edit
  BY <1>8 DEF Edit
<1>9. CASE UNCHANGED vars
  <2>1. UNCHANGED <<table, pc, read, done, stale, calm>>
    BY <1>9 DEF vars
  <2>2. OnItsWay(r) /\ Chunks(r)' = Chunks(r) /\ Keys(r)' = Keys(r)
    BY <1>t, <2>1 DEF CurrentInv
  <2> QED
    BY <2>1, <2>2 DEF OnItsWay, In
<1> QED
  BY <1>1, <1>2, <1>4, <1>5, <1>6, <1>7, <1>8, <1>9 DEF Next

LEMMA CompleteStep ==
  ASSUME TypeInv, CurrentInv, [Next]_vars, indexed'
  PROVE  Complete'
<1>0. UNCHANGED <<case, version>>
  BY DEF Next, vars, Edit, Start, ReadFile, UpsertChunk, ListStale, DeleteStale,
         Finish, Fail, Exit
<1>1. Wanted' = Wanted
  BY <1>0 DEF Wanted, Files
<1>2. CASE indexed
  <2>1. Complete
    BY <1>2 DEF CurrentInv
  <2>2. /\ \A chunk \in Wanted : In(chunk)'
        /\ DOMAIN table' \subseteq WantedKeys
    BY <1>2, <2>1, TableStep DEF Complete, WantedKeys
  <2> QED
    BY <1>1, <2>2 DEF Complete, WantedKeys
<1>3. CASE ~indexed
  <2>1. PICK r \in Runs : Finish(r) /\ r \in calm
    BY <1>3 DEF Next, vars, Edit, Start, ReadFile, UpsertChunk, ListStale, DeleteStale,
                Finish, Fail
  <2>2. pc[r] = "deleting" /\ stale[r] = {} /\ table' = table
    BY <2>1 DEF Finish, Exit
  <2>3. OnItsWay(r) /\ UpToDate(r) /\ done[r] = Len(Chunks(r))
    BY <2>1, <2>2 DEF CurrentInv, AllUpToDate, TypeInv, Wrote
  <2>4. /\ ToSet(Chunks(r)) = Wanted /\ Keys(r) = {chunk.key : chunk \in Wanted}
        /\ DOMAIN Chunks(r) = 1..Len(Chunks(r))
    BY <2>2, <2>3, UpToDateWrites
  <2>5. \A chunk \in Wanted : In(chunk)
    BY <2>3, <2>4 DEF OnItsWay, ToSet
  <2>6. DOMAIN table \subseteq {chunk.key : chunk \in Wanted}
    BY <2>2, <2>3, <2>4 DEF OnItsWay
  <2> QED
    BY <1>1, <2>2, <2>5, <2>6 DEF Complete, In
<1> QED
  BY <1>2, <1>3

LEMMA CurrentStep == TypeInv /\ CurrentInv /\ [Next]_vars => CurrentInv'
<1> SUFFICES ASSUME TypeInv, CurrentInv, [Next]_vars PROVE CurrentInv'
  OBVIOUS
<1>1. AllUpToDate' /\ OwnKeysKept'
  BY UpToDateStep, OwnKeysStep DEF CurrentInv
<1>2. \A r \in calm' : OnItsWay(r)'
  BY OnItsWayStep
<1>3. indexed' => Complete'
  BY CompleteStep
<1> QED
  BY <1>1, <1>2, <1>3 DEF CurrentInv

LEMMA CurrentAlways == Spec => []CurrentInv
  BY CurrentInit, CurrentStep, TypeAlways, PTL DEF Spec

(* A complete table holds, of each file, its text and its parts. *)
LEMMA PartsInTable ==
  ASSUME TypeInv, Complete, NEW f \in 1..Len(Paths)
  PROVE  /\ \A key \in Rows(Paths[f]) : table[key].text = Files[Paths[f]].text
         /\ Spans(Paths[f]) = SpansOf(Parts(Files[Paths[f]], case.size, case.overlap))
<1> DEFINE files == [g \in 1..Len(Paths) |-> Files[Paths[g]]]
           at(g, n) == ChunkAt(files, g, n, case.size, case.overlap)
           parts == Parts(Files[Paths[f]], case.size, case.overlap)
<1>1. /\ Documents(files) /\ Len(files) = Len(Paths)
      /\ case.size \in Int /\ case.overlap \in Int
  BY WantedDocuments
<1>2. files[f] = Files[Paths[f]]
  OBVIOUS
<1>3. parts \in Seq(Chunk) /\ Len(parts) \in Nat /\ DOMAIN parts = 1..Len(parts)
  <2>1. files[f].paragraphs \in Seq(Nat)
    BY <1>1 DEF Documents
  <2>2. parts \in Seq(Chunk)
    BY <1>1, <1>2, <2>1, ChunkTextSound DEF Parts
  <2> HIDE DEF parts
  <2> QED
    BY <2>2, LenProperties
<1>4. ASSUME NEW c
      PROVE  c \in Wanted <=>
               \E g \in 1..Len(Paths) :
                 \E n \in 1..Len(Parts(files[g], case.size, case.overlap)) : c = at(g, n)
  <2>1. Wanted = ToSet(ChunkDocuments(files, case.size, case.overlap))
    BY DEF Wanted
  <2> HIDE DEF files
  <2> QED
    BY <1>1, <2>1, ChunksAreParts
<1>5. \A n : /\ at(f, n).key = <<Paths[f], n - 1>>
             /\ at(f, n).row = [text |-> files[f].text, chunk |-> parts[n]]
  BY <1>2 DEF ChunkAt
<1>6. ASSUME NEW n \in 1..Len(parts)
      PROVE  /\ <<Paths[f], n - 1>> \in Rows(Paths[f])
             /\ table[<<Paths[f], n - 1>>] = [text |-> files[f].text, chunk |-> parts[n]]
  <2>1. at(f, n) \in Wanted
    BY <1>2, <1>4, <1>6
  <2>2. In(at(f, n))
    BY <2>1 DEF Complete
  <2> HIDE DEF at
  <2> QED
    BY <1>5, <2>2 DEF In, Rows
<1>7. ASSUME NEW key \in Rows(Paths[f])
      PROVE  \E n \in 1..Len(parts) : key = <<Paths[f], n - 1>>
  <2>1. PICK chunk \in Wanted : key = chunk.key
    BY <1>7 DEF Complete, Rows
  <2>2. PICK g \in 1..Len(Paths) :
          \E n \in 1..Len(Parts(files[g], case.size, case.overlap)) : chunk = at(g, n)
    BY <1>4, <2>1
  <2>3. PICK n \in 1..Len(Parts(files[g], case.size, case.overlap)) : chunk = at(g, n)
    BY <2>2
  <2>4. key = <<Paths[g], n - 1>>
    BY <2>1, <2>3 DEF ChunkAt
  <2>5. Paths[g] = Paths[f]
    BY <1>7, <2>4 DEF Rows
  <2>6. g = f
    BY <2>5, PathsAssumption, LenProperties
  <2> QED
    BY <1>2, <2>3, <2>4, <2>6
<1> HIDE DEF files, at, parts
<1>8. \A key \in Rows(Paths[f]) :
        \E n \in 1..Len(parts) : table[key] = [text |-> files[f].text, chunk |-> parts[n]]
  BY <1>6, <1>7
<1>9. ASSUME NEW x PROVE x \in Spans(Paths[f]) <=> x \in SpansOf(parts)
  <2>1. x \in Spans(Paths[f]) <=> \E key \in Rows(Paths[f]) : x \in ToSet(table[key].chunk)
    BY DEF Spans
  <2>2. x \in SpansOf(parts) <=> \E chunk \in ToSet(parts) : x \in ToSet(chunk)
    BY DEF SpansOf
  <2>3. ToSet(parts) = {parts[n] : n \in 1..Len(parts)}
    BY <1>3 DEF ToSet
  <2>4. ASSUME NEW key \in Rows(Paths[f]), x \in ToSet(table[key].chunk)
        PROVE  \E chunk \in ToSet(parts) : x \in ToSet(chunk)
    <3>1. PICK n \in 1..Len(parts) :
            table[key] = [text |-> files[f].text, chunk |-> parts[n]]
      BY <1>8
    <3>2. table[key].chunk = parts[n]
      BY <3>1
    <3> QED
      BY <2>3, <2>4, <3>2
  <2>5. ASSUME NEW n \in 1..Len(parts), x \in ToSet(parts[n])
        PROVE  \E key \in Rows(Paths[f]) : x \in ToSet(table[key].chunk)
    <3>1. /\ <<Paths[f], n - 1>> \in Rows(Paths[f])
          /\ table[<<Paths[f], n - 1>>] = [text |-> files[f].text, chunk |-> parts[n]]
      BY <1>6, <2>5
    <3>2. table[<<Paths[f], n - 1>>].chunk = parts[n]
      BY <3>1
    <3> QED
      BY <2>5, <3>1, <3>2
  <2>6. (\E key \in Rows(Paths[f]) : x \in ToSet(table[key].chunk))
          => \E chunk \in ToSet(parts) : x \in ToSet(chunk)
    BY <2>4
  <2>7. (\E chunk \in ToSet(parts) : x \in ToSet(chunk))
          => \E key \in Rows(Paths[f]) : x \in ToSet(table[key].chunk)
    BY <2>3, <2>5
  <2> QED
    BY <2>1, <2>2, <2>6, <2>7
<1>10. ASSUME NEW key \in Rows(Paths[f]) PROVE table[key].text = files[f].text
  <2>1. PICK n \in 1..Len(parts) :
          table[key] = [text |-> files[f].text, chunk |-> parts[n]]
    BY <1>8
  <2> QED
    BY <2>1
<1>11. Spans(Paths[f]) = SpansOf(parts)
  BY <1>9
<1> QED
  BY <1>2, <1>10, <1>11 DEF parts

LEMMA FileCovered ==
  ASSUME TypeInv, Complete, NEW p \in ToSet(Paths)
  PROVE  /\ \A key \in Rows(p) : table[key].text = Files[p].text
         /\ Overlap(Spans(p), ChunkOverlap(case.size, case.overlap))
         /\ \A i \in DOMAIN Files[p].paragraphs : Covers(Spans(p), i, Files[p].paragraphs[i])
<1>1. DOMAIN Paths = 1..Len(Paths)
  BY PathsAssumption, LenProperties
<1>2. PICK f \in 1..Len(Paths) : p = Paths[f]
  BY <1>1 DEF ToSet
<1>3. /\ \A key \in Rows(p) : table[key].text = Files[p].text
      /\ Spans(p) = SpansOf(Parts(Files[p], case.size, case.overlap))
  BY <1>2, PartsInTable
<1>4. /\ Files[p].paragraphs \in Seq(Nat)
      /\ case.size \in Int /\ case.overlap \in Int
  BY <1>2, WantedDocuments DEF Documents
<1>5. DOMAIN Files[p].paragraphs = 1..Len(Files[p].paragraphs)
  BY <1>4, LenProperties
<1>6. /\ Overlap(Spans(p), ChunkOverlap(case.size, case.overlap))
      /\ \A i \in 1..Len(Files[p].paragraphs) : Covers(Spans(p), i, Files[p].paragraphs[i])
  BY <1>3, <1>4, ChunkTextSound DEF Parts
<1> QED
  BY <1>3, <1>5, <1>6

(* Once a run that met neither an edit nor a run with other files has      *)
(* ended, every row of the table holds the text its file has now and the   *)
(* rows of a file cover all of it, until the next edit: for any files, any *)
(* settings, any number of runs that overlap, and any of them failing      *)
(* between two of its steps. (Index, UpsertChunk, DeleteMissing)           *)
THEOREM IndexStaysCurrent == Spec => []IndexIsCurrent
<1>1. ASSUME TypeInv, CurrentInv, indexed, NEW p \in ToSet(Paths)
      PROVE  /\ \A key \in Rows(p) : table[key].text = Files[p].text
             /\ \A i \in DOMAIN Files[p].paragraphs : \A n \in 1..Files[p].paragraphs[i] :
                  \E span \in Spans(p) : span.paragraph = i /\ n \in span.from..span.to
  <2>1. Complete
    BY <1>1 DEF CurrentInv
  <2> QED
    BY <1>1, <2>1, FileCovered DEF Covers
<1>2. TypeInv /\ CurrentInv => IndexIsCurrent
  BY <1>1 DEF IndexIsCurrent
<1> QED
  BY <1>2, TypeAlways, CurrentAlways, PTL

(* The table is then the index of the documents and nothing else: a row    *)
(* for each chunk of each file, with its text, and no row left over from a *)
(* file or a chunk that is gone. (Index, DeleteMissing)                    *)
THEOREM TableIsTheDocuments == Spec => [](indexed => Complete)
<1>1. CurrentInv => (indexed => Complete)
  BY DEF CurrentInv
<1> QED
  BY <1>1, CurrentAlways, PTL

(* The windows a long paragraph is cut into share exactly the overlap the  *)
(* settings ask for, once put in order, and each adds something to the one *)
(* before it, for any size and overlap. (splitLongText, ChunkDocuments)    *)
THEOREM WindowsShareOverlap == Spec => []WindowsOverlap
<1>1. ASSUME TypeInv, CurrentInv, indexed, NEW p \in ToSet(Paths)
      PROVE  Overlap(Spans(p), ChunkOverlap(case.size, case.overlap))
  <2>1. Complete
    BY <1>1 DEF CurrentInv
  <2> QED
    BY <1>1, <2>1, FileCovered
<1>2. TypeInv /\ CurrentInv => WindowsOverlap
  BY <1>1 DEF WindowsOverlap, Overlap
<1> QED
  BY <1>2, TypeAlways, CurrentAlways, PTL
=============================================================================
