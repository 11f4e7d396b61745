------------------------- MODULE ConversationProofs -------------------------
(* Proofs about Conversation, for any number of parts and of restarts.      *)
EXTENDS Conversation, FiniteSetTheorems, SequenceTheorems, TLAPS

USE DEF log

-----------------------------------------------------------------------------
(* Induction.  The library's induction theorems are about operators, which  *)
(* the provers cannot instantiate; these are about sets.                    *)

\* A set of naturals with 0 and every successor has all of them.  Otherwise the naturals up
\* to n that are missing are finitely many, and i - 1 maps them into all of them but n.
LEMMA NatInSet ==
  ASSUME NEW T, 0 \in T, \A n \in Nat : n \in T => n + 1 \in T
  PROVE  Nat \subseteq T
<1>. SUFFICES ASSUME NEW n \in Nat, n \notin T PROVE FALSE
  OBVIOUS
<1>. DEFINE A == {i \in 0..n : i \notin T}
            f == [i \in A |-> i - 1]
<1>1. IsFiniteSet(A) /\ IsFiniteSet(A \ {n}) /\ n \in A
  <2>1. IsFiniteSet(0..n)
    BY FS_Interval
  <2>2. QED
    BY <2>1, FS_Subset
<1>2. f \in [A -> A \ {n}]
  OBVIOUS
<1>3. \A i, j \in A : f[i] = f[j] => i = j
  OBVIOUS
<1>. HIDE DEF A, f
<1>4. Cardinality(A \ {n}) < Cardinality(A)
  <2>1. Cardinality(A) \in Nat /\ Cardinality(A \ {n}) = Cardinality(A) - 1
    BY <1>1, FS_CardinalityType, FS_RemoveElement
  <2>2. QED
    BY <2>1
<1>5. \E i, j \in A : i # j /\ f[i] = f[j]
  BY <1>1, <1>2, <1>4, FS_PigeonHole
<1>6. QED
  BY <1>3, <1>5

\* The same for sequences: the empty one, and one element more.
LEMMA SeqInSet ==
  ASSUME NEW S, NEW T, <<>> \in T, \A s \in Seq(S), e \in S : s \in T => Append(s, e) \in T
  PROVE  Seq(S) \subseteq T
<1>. DEFINE N == {n \in Nat : \A s \in Seq(S) : Len(s) = n => s \in T}
<1>1. 0 \in N
  OBVIOUS
<1>2. ASSUME NEW n \in Nat, n \in N PROVE n + 1 \in N
  <2>1. ASSUME NEW s \in Seq(S), Len(s) = n + 1 PROVE s \in T
    <3>. DEFINE front == SubSeq(s, 1, n)
    <3>1. front \in Seq(S) /\ Len(front) = n /\ s[n + 1] \in S
      BY <2>1
    <3>2. s = Append(front, s[n + 1])
      BY <2>1
    <3>3. front \in T
      BY <1>2, <3>1
    <3>. HIDE DEF front
    <3>4. QED
      BY <3>1, <3>2, <3>3
  <2>2. QED
    BY <2>1
<1>3. Nat \subseteq N
  <2>. HIDE DEF N
  <2>1. QED
    BY <1>1, <1>2, NatInSet
<1>4. QED
  BY <1>3

\* N steps from v0, each with its own function, can be written down.
Steps(V, N) == [1..N -> [V -> V]]

Run(f, N, v0, step) == f[0] = v0 /\ \A n \in 1..N : f[n] = step[n][f[n - 1]]

LEMMA Iterates ==
  ASSUME NEW V, NEW v0 \in V, NEW N \in Nat, NEW step \in Steps(V, N)
  PROVE  \E f \in [0..N -> V] : Run(f, N, v0, step)
<1>. DEFINE T == {n \in Nat : n <= N => \E f \in [0..n -> V] : Run(f, n, v0, step)}
<1>1. 0 \in T
  <2>. DEFINE f == [i \in 0..0 |-> v0]
  <2>1. f \in [0..0 -> V] /\ Run(f, 0, v0, step)
    BY DEF Run
  <2>. HIDE DEF f
  <2>2. QED
    BY <2>1
<1>2. ASSUME NEW n \in Nat, n \in T PROVE n + 1 \in T
  <2>1. SUFFICES ASSUME n + 1 <= N PROVE \E f \in [0..(n + 1) -> V] : Run(f, n + 1, v0, step)
    OBVIOUS
  <2>2. PICK f \in [0..n -> V] : Run(f, n, v0, step)
    BY <1>2, <2>1
  <2>. DEFINE g == [i \in 0..(n + 1) |-> IF i = n + 1 THEN step[n + 1][f[n]] ELSE f[i]]
  <2>3. g \in [0..(n + 1) -> V]
    BY <2>1 DEF Steps
  <2>4. g[0] = v0 /\ \A i \in 1..(n + 1) : g[i] = step[i][g[i - 1]]
    <3>1. f[0] = v0 /\ \A i \in 1..n : f[i] = step[i][f[i - 1]]
      BY <2>2 DEF Run
    <3>2. g[n + 1] = step[n + 1][f[n]] /\ \A i \in 0..n : g[i] = f[i]
      OBVIOUS
    <3>. HIDE DEF g
    <3>3. ASSUME NEW i \in 1..(n + 1) PROVE g[i] = step[i][g[i - 1]]
      <4>1. CASE i = n + 1
        BY <3>2, <4>1
      <4>2. CASE i # n + 1
        <5>1. i \in 1..n /\ i \in 0..n /\ i - 1 \in 0..n
          BY <4>2
        <5>2. QED
          BY <3>1, <3>2, <5>1
      <4>3. QED
        BY <4>1, <4>2
    <3>4. QED
      BY <3>1, <3>2, <3>3
  <2>. HIDE DEF g
  <2>5. Run(g, n + 1, v0, step)
    BY <2>4 DEF Run
  <2>6. QED
    BY <2>3, <2>5
<1>3. Nat \subseteq T
  <2>. HIDE DEF T
  <2>1. QED
    BY <1>1, <1>2, NatInSet
<1>4. QED
  BY <1>3

\* The first n elements of a sequence, and those behind them.
LEMMA FirstOf ==
  ASSUME NEW S, NEW s \in Seq(S), NEW n \in 0..Len(s)
  PROVE  /\ SubSeq(s, 1, n) \in Seq(S) /\ Len(SubSeq(s, 1, n)) = n
         /\ \A i \in 1..n : SubSeq(s, 1, n)[i] = s[i]
<1>1. 1 \in Int /\ n \in Int /\ \A i \in 1..n : s[i] \in S
  OBVIOUS
<1>2. /\ SubSeq(s, 1, n) \in Seq(S)
      /\ Len(SubSeq(s, 1, n)) = IF 1 <= n THEN n - 1 + 1 ELSE 0
      /\ \A i \in 1..(n - 1 + 1) : SubSeq(s, 1, n)[i] = s[1 + i - 1]
  BY <1>1, SubSeqProperties
<1>3. PICK q : q = SubSeq(s, 1, n)
  OBVIOUS
<1>4. Len(q) = n
  BY <1>2, <1>3
<1>5. ASSUME NEW i \in 1..n PROVE q[i] = s[i]
  <2>1. i \in 1..(n - 1 + 1) /\ 1 + i - 1 = i
    OBVIOUS
  <2>2. QED
    BY <1>2, <1>3, <2>1
<1>6. QED
  BY <1>2, <1>3, <1>4, <1>5

LEMMA RestOf ==
  ASSUME NEW S, NEW s \in Seq(S), NEW n \in 0..Len(s)
  PROVE  /\ SubSeq(s, n + 1, Len(s)) \in Seq(S)
         /\ Len(SubSeq(s, n + 1, Len(s))) = Len(s) - n
         /\ \A i \in 1..(Len(s) - n) : SubSeq(s, n + 1, Len(s))[i] = s[n + i]
<1>. DEFINE k == Len(s)
            q == SubSeq(s, n + 1, k)
<1>1. k \in Nat /\ n + 1 \in Int /\ k \in Int /\ \A i \in (n + 1)..k : s[i] \in S
  OBVIOUS
<1>. HIDE DEF k
<1>2. /\ q \in Seq(S)
      /\ Len(q) = IF n + 1 <= k THEN k - (n + 1) + 1 ELSE 0
      /\ \A i \in 1..(k - (n + 1) + 1) : q[i] = s[(n + 1) + i - 1]
  BY <1>1, SubSeqProperties
<1>. HIDE DEF q
<1>3. n \in Nat /\ n <= k
  BY DEF k
<1>4. Len(q) = k - n
  BY <1>1, <1>2, <1>3
<1>5. ASSUME NEW i \in 1..(k - n) PROVE q[i] = s[n + i]
  <2>1. i \in 1..(k - (n + 1) + 1) /\ (n + 1) + i - 1 = n + i
    BY <1>1, <1>3
  <2>2. QED
    BY <1>2, <2>1
<1>6. QED
  BY <1>2, <1>4, <1>5 DEF q, k


-----------------------------------------------------------------------------
(* The replay of a log, and coalescing, line by line and message by message *)

\* Messages with any number of parts; Message bounds them.
AnyPart == [kind : Kind, id : Nat \ {0}, full : BOOLEAN]
AnyMessage == [from : {"user", "model"}, parts : SUBSET AnyPart]
Line == [type : LineType, body : Seq(AnyMessage)]

LEMMA ReadType ==
  ASSUME NEW h \in Seq(AnyMessage), NEW line \in Line
  PROVE  Read(h, line) \in Seq(AnyMessage)
<1>1. line.body \in Seq(AnyMessage)
  BY DEF Line
<1>2. QED
  BY <1>1 DEF Read

LEMMA JoinType ==
  ASSUME NEW h \in Seq(AnyMessage), NEW m \in AnyMessage
  PROVE  Join(h, m) \in Seq(AnyMessage) /\ Join(h, m) # <<>>
<1>1. CASE h # <<>> /\ Last(h).from = m.from
  <2>1. Last(h) \in AnyMessage /\ Front(h) \in Seq(AnyMessage)
    BY <1>1 DEF Last, Front
  <2>2. [from |-> m.from, parts |-> Last(h).parts \cup m.parts] \in AnyMessage
    BY <2>1 DEF AnyMessage
  <2>3. QED
    BY <1>1, <2>1, <2>2 DEF Join
<1>2. CASE ~(h # <<>> /\ Last(h).from = m.from)
  BY <1>2 DEF Join
<1>3. QED
  BY <1>1, <1>2

\* Load goes line by line: there is a run of it, and it is the last value of that run.
LEMMA LoadRuns ==
  ASSUME NEW start \in Seq(AnyMessage), NEW lines \in Seq(Line)
  PROVE  \E f \in [0..Len(lines) -> Seq(AnyMessage)] :
           /\ f[0] = start
           /\ \A n \in 1..Len(lines) : f[n] = Read(f[n - 1], lines[n])
           /\ Load(start, lines) = f[Len(lines)]
<1>. DEFINE N == Len(lines)
            step == [n \in 1..N |-> [h \in Seq(AnyMessage) |-> Read(h, lines[n])]]
            Def(f, n) == IF n = 0 THEN start ELSE Read(f[n - 1], lines[n])
<1>1. N \in Nat /\ \A n \in 1..N : lines[n] \in Line
  OBVIOUS
<1>. HIDE DEF N
<1>2. step \in Steps(Seq(AnyMessage), N)
  BY <1>1, ReadType DEF Steps
<1>3. \A n \in 1..N, h \in Seq(AnyMessage) : step[n][h] = Read(h, lines[n])
  OBVIOUS
<1>. HIDE DEF step
<1>4. PICK f \in [0..N -> Seq(AnyMessage)] : f[0] = start /\ \A n \in 1..N : f[n] = step[n][f[n - 1]]
  <2>1. PICK f \in [0..N -> Seq(AnyMessage)] : Run(f, N, start, step)
    BY <1>1, <1>2, Iterates
  <2>2. QED
    BY <2>1 DEF Run
<1>5. ASSUME NEW n \in 1..N PROVE f[n] = Read(f[n - 1], lines[n])
  <2>1. n - 1 \in 0..N
    BY <1>1
  <2>2. QED
    BY <1>3, <1>4, <2>1
<1>6. f = [n \in 0..N |-> Def(f, n)]
  <2>1. ASSUME NEW n \in 0..N PROVE f[n] = Def(f, n)
    BY <1>1, <1>4, <1>5
  <2>. HIDE DEF Def
  <2>2. QED
    BY <2>1
<1>. DEFINE upTo == CHOOSE g : g = [n \in 0..N |-> Def(g, n)]
<1>7. upTo = [n \in 0..N |-> Def(upTo, n)]
  BY <1>6, Zenon
<1>8. Load(start, lines) = upTo[N]
  BY DEF Load, N
<1>. HIDE DEF upTo
<1>9. upTo[0] = start /\ \A n \in 1..N : upTo[n] = Read(upTo[n - 1], lines[n])
  BY <1>1, <1>7
<1>. DEFINE S == {n \in Nat : n <= N => upTo[n] = f[n]}
<1>10. 0 \in S
  BY <1>4, <1>9
<1>11. ASSUME NEW n \in Nat, n \in S PROVE n + 1 \in S
  <2>1. SUFFICES ASSUME n + 1 <= N PROVE upTo[n + 1] = f[n + 1]
    OBVIOUS
  <2>2. n <= N /\ n + 1 \in 1..N /\ (n + 1) - 1 = n
    BY <1>1, <2>1
  <2>3. upTo[n] = f[n]
    BY <1>11, <2>2
  <2>4. QED
    BY <1>5, <1>9, <2>2, <2>3
<1>12. Nat \subseteq S
  <2>. HIDE DEF S
  <2>1. QED
    BY <1>10, <1>11, NatInSet
<1>13. Load(start, lines) = f[N]
  BY <1>1, <1>8, <1>12
<1>14. QED
  BY <1>4, <1>5, <1>13 DEF N

LEMMA LoadType ==
  ASSUME NEW start \in Seq(AnyMessage), NEW lines \in Seq(Line)
  PROVE  Load(start, lines) \in Seq(AnyMessage)
<1>1. PICK f \in [0..Len(lines) -> Seq(AnyMessage)] : Load(start, lines) = f[Len(lines)]
  BY LoadRuns
<1>2. Len(lines) \in 0..Len(lines)
  OBVIOUS
<1>3. QED
  BY <1>1, <1>2

LEMMA LoadNothing ==
  ASSUME NEW start \in Seq(AnyMessage)
  PROVE  Load(start, <<>>) = start
<1>1. <<>> \in Seq(Line) /\ Len(<<>>) = 0
  OBVIOUS
<1>2. PICK f \in [0..Len(<<>>) -> Seq(AnyMessage)] :
        f[0] = start /\ Load(start, <<>>) = f[Len(<<>>)]
  BY <1>1, LoadRuns
<1>3. QED
  BY <1>1, <1>2

LEMMA LoadOneMore ==
  ASSUME NEW start \in Seq(AnyMessage), NEW lines \in Seq(Line), NEW line \in Line
  PROVE  Load(start, Append(lines, line)) = Read(Load(start, lines), line)
<1>. DEFINE more == Append(lines, line)
            n == Len(lines)
<1>1. /\ more \in Seq(Line) /\ n \in Nat /\ Len(more) = n + 1 /\ more[n + 1] = line
      /\ \A i \in 1..n : more[i] = lines[i]
  OBVIOUS
<1>2. PICK f \in [0..n -> Seq(AnyMessage)] :
        /\ f[0] = start
        /\ \A i \in 1..n : f[i] = Read(f[i - 1], lines[i])
        /\ Load(start, lines) = f[n]
  BY LoadRuns
<1>. HIDE DEF more, n
<1>3. PICK g \in [0..Len(more) -> Seq(AnyMessage)] :
        /\ g[0] = start
        /\ \A i \in 1..Len(more) : g[i] = Read(g[i - 1], more[i])
        /\ Load(start, more) = g[Len(more)]
  BY <1>1, LoadRuns
<1>. DEFINE T == {i \in Nat : i <= n => g[i] = f[i]}
<1>4. 0 \in T
  BY <1>2, <1>3
<1>5. ASSUME NEW i \in Nat, i \in T PROVE i + 1 \in T
  <2>1. SUFFICES ASSUME i + 1 <= n PROVE g[i + 1] = f[i + 1]
    OBVIOUS
  <2>2. i <= n /\ i + 1 \in 1..n /\ i + 1 \in 1..Len(more) /\ (i + 1) - 1 = i
    BY <1>1, <2>1
  <2>3. g[i] = f[i]
    BY <1>5, <2>2
  <2>4. QED
    BY <1>1, <1>2, <1>3, <2>2, <2>3
<1>6. Nat \subseteq T
  <2>. HIDE DEF T
  <2>1. QED
    BY <1>4, <1>5, NatInSet
<1>7. g[n] = f[n] /\ f[n] \in Seq(AnyMessage)
  BY <1>1, <1>2, <1>6
<1>8. g[n + 1] = Read(g[n], line)
  <2>1. n + 1 \in 1..Len(more) /\ (n + 1) - 1 = n
    BY <1>1
  <2>2. QED
    BY <1>1, <1>3, <2>1
<1>9. QED
  BY <1>1, <1>2, <1>3, <1>7, <1>8 DEF more

\* Coalesce goes message by message: there is a run of it, and it is the last value of that run.
LEMMA CoalesceRuns ==
  ASSUME NEW h \in Seq(AnyMessage)
  PROVE  \E f \in [0..Len(h) -> Seq(AnyMessage)] :
           /\ f[0] = <<>>
           /\ \A n \in 1..Len(h) : f[n] = Join(f[n - 1], h[n])
           /\ Coalesce(h) = f[Len(h)]
<1>. DEFINE N == Len(h)
            step == [n \in 1..N |-> [g \in Seq(AnyMessage) |-> Join(g, h[n])]]
            Def(f, n) == IF n = 0 THEN <<>> ELSE Join(f[n - 1], h[n])
<1>1. N \in Nat /\ \A n \in 1..N : h[n] \in AnyMessage
  OBVIOUS
<1>. HIDE DEF N
<1>2. step \in Steps(Seq(AnyMessage), N)
  BY <1>1, JoinType DEF Steps
<1>3. \A n \in 1..N, g \in Seq(AnyMessage) : step[n][g] = Join(g, h[n])
  OBVIOUS
<1>. HIDE DEF step
<1>4. PICK f \in [0..N -> Seq(AnyMessage)] : f[0] = <<>> /\ \A n \in 1..N : f[n] = step[n][f[n - 1]]
  <2>1. PICK f \in [0..N -> Seq(AnyMessage)] : Run(f, N, <<>>, step)
    <3>1. <<>> \in Seq(AnyMessage)
      OBVIOUS
    <3>2. QED
      BY <1>1, <1>2, <3>1, Iterates
  <2>2. QED
    BY <2>1 DEF Run
<1>5. ASSUME NEW n \in 1..N PROVE f[n] = Join(f[n - 1], h[n])
  <2>1. n - 1 \in 0..N
    BY <1>1
  <2>2. QED
    BY <1>3, <1>4, <2>1
<1>6. f = [n \in 0..N |-> Def(f, n)]
  <2>1. ASSUME NEW n \in 0..N PROVE f[n] = Def(f, n)
    BY <1>1, <1>4, <1>5
  <2>. HIDE DEF Def
  <2>2. QED
    BY <2>1
<1>. DEFINE upTo == CHOOSE g : g = [n \in 0..N |-> Def(g, n)]
<1>7. upTo = [n \in 0..N |-> Def(upTo, n)]
  BY <1>6, Zenon
<1>8. Coalesce(h) = upTo[N]
  BY DEF Coalesce, N
<1>. HIDE DEF upTo
<1>9. upTo[0] = <<>> /\ \A n \in 1..N : upTo[n] = Join(upTo[n - 1], h[n])
  BY <1>1, <1>7
<1>. DEFINE S == {n \in Nat : n <= N => upTo[n] = f[n]}
<1>10. 0 \in S
  BY <1>4, <1>9
<1>11. ASSUME NEW n \in Nat, n \in S PROVE n + 1 \in S
  <2>1. SUFFICES ASSUME n + 1 <= N PROVE upTo[n + 1] = f[n + 1]
    OBVIOUS
  <2>2. n <= N /\ n + 1 \in 1..N /\ (n + 1) - 1 = n
    BY <1>1, <2>1
  <2>3. upTo[n] = f[n]
    BY <1>11, <2>2
  <2>4. QED
    BY <1>5, <1>9, <2>2, <2>3
<1>12. Nat \subseteq S
  <2>. HIDE DEF S
  <2>1. QED
    BY <1>10, <1>11, NatInSet
<1>13. Coalesce(h) = f[N]
  BY <1>1, <1>8, <1>12
<1>14. QED
  BY <1>4, <1>5, <1>13 DEF N

LEMMA CoalesceType ==
  ASSUME NEW h \in Seq(AnyMessage)
  PROVE  Coalesce(h) \in Seq(AnyMessage)
<1>1. PICK f \in [0..Len(h) -> Seq(AnyMessage)] : Coalesce(h) = f[Len(h)]
  BY CoalesceRuns
<1>2. Len(h) \in 0..Len(h)
  OBVIOUS
<1>3. QED
  BY <1>1, <1>2

LEMMA CoalesceNothing == Coalesce(<<>>) = <<>>
<1>1. <<>> \in Seq(AnyMessage) /\ Len(<<>>) = 0
  OBVIOUS
<1>2. PICK f \in [0..Len(<<>>) -> Seq(AnyMessage)] :
        f[0] = <<>> /\ Coalesce(<<>>) = f[Len(<<>>)]
  BY <1>1, CoalesceRuns
<1>3. QED
  BY <1>1, <1>2

LEMMA CoalesceOneMore ==
  ASSUME NEW h \in Seq(AnyMessage), NEW m \in AnyMessage
  PROVE  Coalesce(Append(h, m)) = Join(Coalesce(h), m)
<1>. DEFINE more == Append(h, m)
            n == Len(h)
<1>1. /\ more \in Seq(AnyMessage) /\ n \in Nat /\ Len(more) = n + 1 /\ more[n + 1] = m
      /\ \A i \in 1..n : more[i] = h[i]
  OBVIOUS
<1>2. PICK f \in [0..n -> Seq(AnyMessage)] :
        /\ f[0] = <<>>
        /\ \A i \in 1..n : f[i] = Join(f[i - 1], h[i])
        /\ Coalesce(h) = f[n]
  BY CoalesceRuns
<1>. HIDE DEF more, n
<1>3. PICK g \in [0..Len(more) -> Seq(AnyMessage)] :
        /\ g[0] = <<>>
        /\ \A i \in 1..Len(more) : g[i] = Join(g[i - 1], more[i])
        /\ Coalesce(more) = g[Len(more)]
  BY <1>1, CoalesceRuns
<1>. DEFINE T == {i \in Nat : i <= n => g[i] = f[i]}
<1>4. 0 \in T
  BY <1>2, <1>3
<1>5. ASSUME NEW i \in Nat, i \in T PROVE i + 1 \in T
  <2>1. SUFFICES ASSUME i + 1 <= n PROVE g[i + 1] = f[i + 1]
    OBVIOUS
  <2>2. i <= n /\ i + 1 \in 1..n /\ i + 1 \in 1..Len(more) /\ (i + 1) - 1 = i
    BY <1>1, <2>1
  <2>3. g[i] = f[i]
    BY <1>5, <2>2
  <2>4. QED
    BY <1>1, <1>2, <1>3, <2>2, <2>3
<1>6. Nat \subseteq T
  <2>. HIDE DEF T
  <2>1. QED
    BY <1>4, <1>5, NatInSet
<1>7. g[n] = f[n] /\ f[n] \in Seq(AnyMessage)
  BY <1>1, <1>2, <1>6
<1>8. g[n + 1] = Join(g[n], m)
  <2>1. n + 1 \in 1..Len(more) /\ (n + 1) - 1 = n
    BY <1>1
  <2>2. QED
    BY <1>1, <1>3, <2>1
<1>9. QED
  BY <1>1, <1>2, <1>3, <1>7, <1>8 DEF more

-----------------------------------------------------------------------------
(* What coalescing does *)

\* Join merges the message into the last one of its role, or puts it behind it.
LEMMA JoinCases ==
  ASSUME NEW c \in Seq(AnyMessage), NEW m \in AnyMessage
  PROVE  \/ /\ c # <<>> /\ c[Len(c)].from = m.from
            /\ Len(Join(c, m)) = Len(c)
            /\ \A k \in 1..(Len(c) - 1) : Join(c, m)[k] = c[k]
            /\ Join(c, m)[Len(c)].from = m.from
            /\ Join(c, m)[Len(c)].parts = c[Len(c)].parts \cup m.parts
         \/ /\ c = <<>> \/ c[Len(c)].from # m.from
            /\ Len(Join(c, m)) = Len(c) + 1
            /\ \A k \in 1..Len(c) : Join(c, m)[k] = c[k]
            /\ Join(c, m)[Len(c) + 1] = m
<1>1. Last(c) = c[Len(c)] /\ Front(c) = SubSeq(c, 1, Len(c) - 1)
  BY DEF Last, Front
<1>2. CASE c # <<>> /\ Last(c).from = m.from
  <2>. DEFINE both == [from |-> m.from, parts |-> Last(c).parts \cup m.parts]
              front == SubSeq(c, 1, Len(c) - 1)
  <2>1. Join(c, m) = Append(front, both)
    BY <1>1, <1>2 DEF Join
  <2>2. both.from = m.from /\ both.parts = c[Len(c)].parts \cup m.parts
    BY <1>1
  <2>3. Len(c) \in Nat \ {0}
    BY <1>2
  <2>4. Len(c) - 1 \in 0..Len(c)
    BY <2>3
  <2>5. /\ front \in Seq(AnyMessage) /\ Len(front) = Len(c) - 1
        /\ \A k \in 1..(Len(c) - 1) : front[k] = c[k]
    BY <2>4, FirstOf
  <2>. HIDE DEF both, front
  <2>6. /\ Len(Append(front, both)) = Len(c) /\ Append(front, both)[Len(c)] = both
        /\ \A k \in 1..(Len(c) - 1) : Append(front, both)[k] = front[k]
    BY <2>3, <2>5
  <2>7. QED
    BY <1>1, <1>2, <2>1, <2>2, <2>5, <2>6
<1>3. CASE ~(c # <<>> /\ Last(c).from = m.from)
  <2>1. Join(c, m) = Append(c, m)
    BY <1>3 DEF Join
  <2>2. QED
    BY <1>1, <1>3, <2>1
<1>4. QED
  BY <1>2, <1>3

\* g[i] is the place in c of the i-th message of h.
Groups(g, h, c) ==
  /\ g \in [1..Len(h) -> 1..Len(c)]
  /\ IF Len(h) = 0 THEN Len(c) = 0 ELSE g[1] = 1 /\ g[Len(h)] = Len(c)
  /\ \A i \in 1..Len(h) :
       g[i] <= i /\ c[g[i]].from = h[i].from /\ h[i].parts \subseteq c[g[i]].parts
  /\ \A i, j \in 1..Len(h) : i <= j => g[i] <= g[j]
  /\ \A i \in 2..Len(h) :
       g[i] = IF h[i].from = h[i - 1].from THEN g[i - 1] ELSE g[i - 1] + 1
  /\ \A k \in 1..Len(c) : \A p \in c[k].parts :
       \E i \in 1..Len(h) : g[i] = k /\ p \in h[i].parts
  /\ \A k \in 2..Len(c) : c[k].from # c[k - 1].from

\* A message that is joined gets the place of the last one or the next.
LEMMA JoinGroups ==
  ASSUME NEW h \in Seq(AnyMessage), NEW c \in Seq(AnyMessage), NEW m \in AnyMessage,
         NEW g, Groups(g, h, c)
  PROVE  \E f : Groups(f, Append(h, m), Join(c, m))
<1>. DEFINE n == Len(h)
            k == Len(c)
            more == Append(h, m)
            d == Join(c, m)
            f == [i \in 1..(n + 1) |-> IF i = n + 1 THEN Len(d) ELSE g[i]]
<1>1. /\ n \in Nat /\ k \in Nat /\ Len(more) = n + 1 /\ more[n + 1] = m
      /\ \A i \in 1..n : more[i] = h[i]
  OBVIOUS
<1>2. \/ /\ k # 0 /\ c[k].from = m.from /\ Len(d) = k
         /\ \A i \in 1..(k - 1) : d[i] = c[i]
         /\ d[k].from = m.from /\ d[k].parts = c[k].parts \cup m.parts
      \/ /\ k = 0 \/ c[k].from # m.from
         /\ Len(d) = k + 1 /\ d[k + 1] = m
         /\ \A i \in 1..k : d[i] = c[i]
  BY JoinCases
<1>3. f[n + 1] = Len(d) /\ (\A i \in 1..n : f[i] = g[i]) /\ DOMAIN f = 1..(n + 1)
  <2>. HIDE DEF d
  <2>1. QED
    BY <1>1
<1>4. f = [i \in DOMAIN f |-> f[i]]
  OBVIOUS
<1>5. /\ \A i \in 1..n : g[i] \in 1..k
      /\ IF n = 0 THEN k = 0 ELSE g[1] = 1 /\ g[n] = k
      /\ \A i \in 1..n :
           g[i] <= i /\ c[g[i]].from = h[i].from /\ h[i].parts \subseteq c[g[i]].parts
      /\ \A i, j \in 1..n : i <= j => g[i] <= g[j]
      /\ \A i \in 2..n :
           g[i] = IF h[i].from = h[i - 1].from THEN g[i - 1] ELSE g[i - 1] + 1
      /\ \A j \in 1..k : \A p \in c[j].parts : \E i \in 1..n : g[i] = j /\ p \in h[i].parts
      /\ \A j \in 2..k : c[j].from # c[j - 1].from
  BY DEF Groups
<1>. HIDE DEF more, d, f, n, k
<1>6. Len(d) \in 1..(n + 1) /\ k <= Len(d) /\ Len(d) <= k + 1 /\ k <= n
  BY <1>1, <1>2, <1>5
<1>7. f \in [1..Len(more) -> 1..Len(d)]
  <2>1. ASSUME NEW i \in 1..(n + 1) PROVE f[i] \in 1..Len(d)
    <3>1. CASE i = n + 1
      BY <1>3, <1>6, <3>1
    <3>2. CASE i # n + 1
      <4>1. i \in 1..n
        BY <1>1, <3>2
      <4>2. f[i] = g[i] /\ g[i] \in 1..k
        BY <1>3, <1>5, <4>1
      <4>3. QED
        BY <1>1, <1>6, <4>2
    <3>3. QED
      BY <3>1, <3>2
  <2>2. QED
    BY <1>1, <1>3, <1>4, <2>1
<1>8. f[1] = 1 /\ f[Len(more)] = Len(d)
  BY <1>1, <1>2, <1>3, <1>5
<1>9. ASSUME NEW i \in 1..(n + 1)
      PROVE  /\ f[i] <= i /\ d[f[i]].from = more[i].from
             /\ more[i].parts \subseteq d[f[i]].parts
  <2>1. CASE i = n + 1
    BY <1>1, <1>2, <1>3, <1>6, <2>1
  <2>2. CASE i # n + 1
    <3>1. i \in 1..n /\ f[i] = g[i] /\ more[i] = h[i] /\ g[i] \in 1..k
      BY <1>1, <1>3, <1>5, <2>2
    <3>2. g[i] <= i /\ c[g[i]].from = h[i].from /\ h[i].parts \subseteq c[g[i]].parts
      BY <1>5, <3>1
    <3>3. d[g[i]].from = c[g[i]].from /\ c[g[i]].parts \subseteq d[g[i]].parts
      BY <1>1, <1>2, <3>1
    <3>4. QED
      BY <3>1, <3>2, <3>3
  <2>3. QED
    BY <2>1, <2>2
<1>10. ASSUME NEW i \in 1..(n + 1), NEW j \in 1..(n + 1), i <= j PROVE f[i] <= f[j]
  <2>1. CASE j = n + 1
    <3>1. f[i] \in 1..Len(d)
      BY <1>1, <1>7
    <3>2. QED
      BY <1>3, <1>6, <2>1, <3>1
  <2>2. CASE j # n + 1
    <3>1. i \in 1..n /\ j \in 1..n
      BY <1>1, <1>10, <2>2
    <3>2. QED
      BY <1>3, <1>5, <1>10, <3>1
  <2>3. QED
    BY <2>1, <2>2
<1>11. ASSUME NEW i \in 2..(n + 1)
       PROVE  f[i] = IF more[i].from = more[i - 1].from THEN f[i - 1] ELSE f[i - 1] + 1
  <2>1. CASE i = n + 1
    <3>1. n \in 1..n /\ i - 1 = n /\ f[i - 1] = k /\ more[i - 1] = h[n] /\ g[n] = k
      BY <1>1, <1>3, <1>5, <2>1
    <3>2. c[k].from = h[n].from /\ k # 0
      BY <1>1, <1>5, <3>1
    <3>3. QED
      BY <1>1, <1>2, <1>3, <2>1, <3>1, <3>2
  <2>2. CASE i # n + 1
    <3>1. i \in 2..n /\ i \in 1..n /\ i - 1 \in 1..n
      BY <1>1, <2>2
    <3>2. more[i] = h[i] /\ more[i - 1] = h[i - 1]
      BY <1>1, <3>1
    <3>3. f[i] = g[i] /\ f[i - 1] = g[i - 1]
      BY <1>3, <3>1
    <3>4. g[i] = IF h[i].from = h[i - 1].from THEN g[i - 1] ELSE g[i - 1] + 1
      BY <1>5, <3>1
    <3>5. QED
      BY <3>2, <3>3, <3>4
  <2>3. QED
    BY <2>1, <2>2
<1>12. ASSUME NEW j \in 1..Len(d), NEW p \in d[j].parts
       PROVE  \E i \in 1..(n + 1) : f[i] = j /\ p \in more[i].parts
  <2>1. CASE j = Len(d) /\ p \in m.parts
    <3>1. n + 1 \in 1..(n + 1) /\ f[n + 1] = j /\ p \in more[n + 1].parts
      BY <1>1, <1>3, <2>1
    <3>2. QED
      BY <3>1
  <2>2. CASE ~(j = Len(d) /\ p \in m.parts)
    <3>1. j \in 1..k /\ p \in c[j].parts
      BY <1>1, <1>2, <1>12, <2>2
    <3>2. PICK i \in 1..n : g[i] = j /\ p \in h[i].parts
      BY <1>5, <3>1
    <3>3. i \in 1..(n + 1) /\ f[i] = j /\ p \in more[i].parts
      BY <1>1, <1>3, <3>2
    <3>4. QED
      BY <3>3
  <2>3. QED
    BY <2>1, <2>2
<1>13. ASSUME NEW j \in 2..Len(d) PROVE d[j].from # d[j - 1].from
  <2>1. CASE j \in 2..k
    <3>1. j - 1 \in 1..k /\ j - 1 \in 1..(k - 1) /\ j \in 1..k
      BY <1>1, <2>1
    <3>2. d[j].from = c[j].from /\ d[j - 1].from = c[j - 1].from
      BY <1>1, <1>2, <3>1
    <3>3. QED
      BY <1>5, <2>1, <3>2
  <2>2. CASE j \notin 2..k
    <3>1. j = k + 1 /\ Len(d) = k + 1 /\ k \in 1..k /\ j - 1 = k
      BY <1>1, <1>6, <1>13, <2>2
    <3>2. QED
      BY <1>1, <1>2, <3>1
  <2>3. QED
    BY <2>1, <2>2
<1>14. Groups(f, more, d)
  BY <1>1, <1>7, <1>8, <1>9, <1>10, <1>11, <1>12, <1>13 DEF Groups
<1>15. QED
  BY <1>14 DEF more, d

LEMMA CoalesceGroups ==
  ASSUME NEW h \in Seq(AnyMessage)
  PROVE  \E g : Groups(g, h, Coalesce(h))
<1>. DEFINE T == {s \in Seq(AnyMessage) : \E g : Groups(g, s, Coalesce(s))}
<1>1. <<>> \in T
  <2>1. PICK c : c = Coalesce(<<>>)
    OBVIOUS
  <2>2. c = <<>>
    BY <2>1, CoalesceNothing
  <2>3. Groups([i \in 1..0 |-> 0], <<>>, c)
    BY <2>2 DEF Groups
  <2>4. QED
    BY <2>1, <2>3
<1>2. ASSUME NEW s \in Seq(AnyMessage), NEW e \in AnyMessage, s \in T
      PROVE  Append(s, e) \in T
  <2>1. PICK g : Groups(g, s, Coalesce(s))
    BY <1>2
  <2>2. Coalesce(s) \in Seq(AnyMessage)
    BY CoalesceType
  <2>3. \E f : Groups(f, Append(s, e), Join(Coalesce(s), e))
    BY <2>1, <2>2, JoinGroups
  <2>4. Append(s, e) \in Seq(AnyMessage)
    OBVIOUS
  <2>5. QED
    BY <2>3, <2>4, CoalesceOneMore
<1>3. Seq(AnyMessage) \subseteq T
  <2>. HIDE DEF T
  <2>1. QED
    BY <1>1, <1>2, SeqInSet
<1>4. QED
  BY <1>3

\* Nothing gets longer, and what stays as long stays what it is.
LEMMA CoalesceShortens ==
  ASSUME NEW h \in Seq(AnyMessage)
  PROVE  /\ Len(Coalesce(h)) <= Len(h)
         /\ Len(Coalesce(h)) = Len(h) => Coalesce(h) = h
<1>. DEFINE Shorter(c, s) == Len(c) <= Len(s) /\ (Len(c) = Len(s) => c = s)
            T == {s \in Seq(AnyMessage) : Shorter(Coalesce(s), s)}
<1>1. <<>> \in T
  BY CoalesceNothing
<1>2. ASSUME NEW s \in Seq(AnyMessage), NEW e \in AnyMessage, s \in T
      PROVE  Append(s, e) \in T
  <2>1. PICK c : c = Coalesce(s)
    OBVIOUS
  <2>2. c \in Seq(AnyMessage) /\ Shorter(c, s)
    BY <1>2, <2>1, CoalesceType
  <2>3. Len(Append(s, e)) = Len(s) + 1 /\ Len(s) \in Nat /\ Len(c) \in Nat
    BY <2>2
  <2>4. Len(Join(c, e)) = Len(c) \/ (Len(Join(c, e)) = Len(c) + 1 /\ Join(c, e) = Append(c, e))
    <3>1. CASE c # <<>> /\ Last(c).from = e.from
      <4>1. c[Len(c)].from = e.from
        BY <3>1 DEF Last
      <4>2. Len(Join(c, e)) = Len(c)
        BY <2>2, <3>1, <4>1, JoinCases
      <4>3. QED
        BY <4>2
    <3>2. CASE ~(c # <<>> /\ Last(c).from = e.from)
      BY <2>2, <3>2 DEF Join
    <3>3. QED
      BY <3>1, <3>2
  <2>5. Shorter(Join(c, e), Append(s, e))
    BY <2>2, <2>3, <2>4
  <2>6. Append(s, e) \in Seq(AnyMessage) /\ Coalesce(Append(s, e)) = Join(c, e)
    BY <2>1, CoalesceOneMore
  <2>. HIDE DEF Shorter
  <2>7. QED
    BY <2>5, <2>6
<1>3. Seq(AnyMessage) \subseteq T
  <2>. HIDE DEF T
  <2>1. QED
    BY <1>1, <1>2, SeqInSet
<1>4. QED
  BY <1>3

LEMMA AppendBack ==
  ASSUME NEW q \in Seq(AnyMessage), NEW e \in AnyMessage
  PROVE  /\ Last(Append(q, e)) = e /\ Front(Append(q, e)) = q
         /\ Append(q, e) \in Seq(AnyMessage) /\ Append(q, e) # <<>>
<1>1. PICK r : r = Append(q, e)
  OBVIOUS
<1>2. /\ r \in Seq(AnyMessage) /\ Len(r) = Len(q) + 1 /\ Len(q) \in Nat
      /\ r[Len(q) + 1] = e /\ r # <<>> /\ \A i \in 1..Len(q) : r[i] = q[i]
  BY <1>1, AppendProperties
<1>3. Len(q) \in 0..Len(r)
  BY <1>2
<1>4. PICK f : f = SubSeq(r, 1, Len(q))
  OBVIOUS
<1>5. f \in Seq(AnyMessage) /\ Len(f) = Len(q) /\ \A i \in 1..Len(q) : f[i] = r[i]
  BY <1>2, <1>3, <1>4, FirstOf
<1>6. f = q
  BY <1>2, <1>5, SeqEqual
<1>7. Last(r) = r[Len(r)] /\ Front(r) = SubSeq(r, 1, Len(r) - 1)
  BY DEF Last, Front
<1>8. Len(r) - 1 = Len(q)
  BY <1>2
<1>9. QED
  BY <1>1, <1>2, <1>4, <1>6, <1>7, <1>8

LEMMA FrontAndLast ==
  ASSUME NEW q \in Seq(AnyMessage), q # <<>>
  PROVE  /\ Last(q) \in AnyMessage /\ Front(q) \in Seq(AnyMessage)
         /\ q = Append(Front(q), Last(q))
<1>1. Len(q) \in Nat \ {0} /\ Last(q) = q[Len(q)] /\ Front(q) = SubSeq(q, 1, Len(q) - 1)
  BY DEF Last, Front
<1>2. Len(q) - 1 \in 0..Len(q) /\ Len(q) \in 1..Len(q)
  BY <1>1
<1>3. PICK f : f = Front(q)
  OBVIOUS
<1>4. PICK l : l = Last(q)
  OBVIOUS
<1>5. f \in Seq(AnyMessage) /\ Len(f) = Len(q) - 1 /\ \A i \in 1..(Len(q) - 1) : f[i] = q[i]
  <2>1. PICK n : n = Len(q) - 1
    OBVIOUS
  <2>2. n \in 0..Len(q) /\ f = SubSeq(q, 1, n)
    BY <1>1, <1>2, <1>3, <2>1
  <2>3. f \in Seq(AnyMessage) /\ Len(f) = n /\ \A i \in 1..n : f[i] = q[i]
    BY <2>2, FirstOf
  <2>4. QED
    BY <2>1, <2>3
<1>6. l \in AnyMessage
  BY <1>1, <1>2, <1>4, ElementOfSeq
<1>7. PICK r : r = Append(f, l)
  OBVIOUS
<1>8. /\ r \in Seq(AnyMessage) /\ Len(r) = Len(f) + 1
      /\ r[Len(f) + 1] = l /\ \A i \in 1..Len(f) : r[i] = f[i]
  BY <1>5, <1>6, <1>7, AppendProperties
<1>9. r = q
  <2>1. Len(r) = Len(q) /\ \A i \in 1..Len(q) : r[i] = q[i]
    BY <1>1, <1>4, <1>5, <1>8
  <2>2. QED
    BY <1>8, <2>1, SeqEqual
<1>10. QED
  BY <1>3, <1>4, <1>5, <1>6, <1>7, <1>9

\* Two messages of one role may be joined one after the other or together.
Both(a, b) == [from |-> a.from, parts |-> a.parts \cup b.parts]

LEMMA JoinTogether ==
  ASSUME NEW c \in Seq(AnyMessage), NEW a \in AnyMessage, NEW b \in AnyMessage, a.from = b.from
  PROVE  Both(a, b) \in AnyMessage /\ Join(Join(c, a), b) = Join(c, Both(a, b))
<1>1. Both(a, b) \in AnyMessage /\ Both(a, b).from = b.from /\ Both(a, b).parts = a.parts \cup b.parts
  BY DEF Both, AnyMessage
<1>3. CASE c # <<>> /\ Last(c).from = a.from
  <2>1. PICK f : f = Front(c)
    OBVIOUS
  <2>2. f \in Seq(AnyMessage) /\ Last(c) \in AnyMessage
    BY <1>3, <2>1, FrontAndLast
  <2>3. PICK l \in AnyMessage : l = Last(c)
    BY <2>2
  <2>4. PICK la : la = [from |-> a.from, parts |-> l.parts \cup a.parts]
    OBVIOUS
  <2>5. la \in AnyMessage /\ la.from = a.from /\ la.parts = l.parts \cup a.parts
    BY <2>4 DEF AnyMessage
  <2>6. Join(c, a) = Append(f, la)
    BY <1>3, <2>1, <2>3, <2>4 DEF Join
  <2>7. Join(Append(f, la), b) = Append(f, [from |-> b.from, parts |-> la.parts \cup b.parts])
    <3>1. PICK r : r = Append(f, la)
      OBVIOUS
    <3>2. r # <<>> /\ Last(r) = la /\ Front(r) = f
      BY <2>2, <2>5, <3>1, AppendBack
    <3>3. Join(r, b) = Append(f, [from |-> b.from, parts |-> la.parts \cup b.parts])
      BY <2>5, <3>2 DEF Join
    <3>4. QED
      BY <3>1, <3>3
  <2>8. Join(c, Both(a, b)) = Append(f, [from |-> b.from, parts |-> l.parts \cup Both(a, b).parts])
    BY <1>1, <1>3, <2>1, <2>3 DEF Join
  <2>9. la.parts \cup b.parts = l.parts \cup Both(a, b).parts
    BY <1>1, <2>5
  <2>10. QED
    BY <1>1, <2>6, <2>7, <2>8, <2>9
<1>4. CASE ~(c # <<>> /\ Last(c).from = a.from)
  <2>1. Join(c, a) = Append(c, a)
    BY <1>4 DEF Join
  <2>2. Join(Append(c, a), b) = Append(c, Both(a, b))
    <3>1. PICK r : r = Append(c, a)
      OBVIOUS
    <3>2. r # <<>> /\ Last(r) = a /\ Front(r) = c
      BY <3>1, AppendBack
    <3>3. Join(r, b) = Append(c, [from |-> b.from, parts |-> a.parts \cup b.parts])
      BY <3>2 DEF Join
    <3>4. QED
      BY <3>1, <3>3 DEF Both
  <2>3. Join(c, Both(a, b)) = Append(c, Both(a, b))
    BY <1>1, <1>4 DEF Join
  <2>4. QED
    BY <1>1, <2>1, <2>2, <2>3
<1>5. QED
  BY <1>1, <1>3, <1>4

\* To join a message before coalescing or after is the same.
LEMMA JoinBefore ==
  ASSUME NEW h \in Seq(AnyMessage), NEW m \in AnyMessage
  PROVE  Coalesce(Join(h, m)) = Join(Coalesce(h), m)
<1>1. CASE h # <<>> /\ Last(h).from = m.from
  <2>1. PICK l \in AnyMessage : l = Last(h)
    BY <1>1, FrontAndLast
  <2>2. PICK f \in Seq(AnyMessage) : f = Front(h)
    BY <1>1, FrontAndLast
  <2>3. h = Append(f, l)
    BY <1>1, <2>1, <2>2, FrontAndLast
  <2>4. l.from = m.from
    BY <1>1, <2>1
  <2>5. Both(l, m) \in AnyMessage
    BY <2>4, JoinTogether
  <2>6. Join(h, m) = Append(f, Both(l, m))
    BY <1>1, <2>1, <2>2, <2>4 DEF Join, Both
  <2>7. Coalesce(Append(f, Both(l, m))) = Join(Coalesce(f), Both(l, m))
    BY <2>5, CoalesceOneMore
  <2>8. Coalesce(Append(f, l)) = Join(Coalesce(f), l)
    BY CoalesceOneMore
  <2>9. Coalesce(f) \in Seq(AnyMessage)
    BY CoalesceType
  <2>10. Join(Join(Coalesce(f), l), m) = Join(Coalesce(f), Both(l, m))
    BY <2>4, <2>9, JoinTogether
  <2>11. QED
    BY <2>3, <2>6, <2>7, <2>8, <2>10
<1>2. CASE ~(h # <<>> /\ Last(h).from = m.from)
  <2>1. Join(h, m) = Append(h, m)
    BY <1>2 DEF Join
  <2>2. QED
    BY <2>1, CoalesceOneMore
<1>3. QED
  BY <1>1, <1>2

LEMMA CoalesceTwice ==
  ASSUME NEW h \in Seq(AnyMessage)
  PROVE  Coalesce(Coalesce(h)) = Coalesce(h)
<1>. DEFINE T == {s \in Seq(AnyMessage) : Coalesce(Coalesce(s)) = Coalesce(s)}
<1>1. <<>> \in T
  BY CoalesceNothing
<1>2. ASSUME NEW s \in Seq(AnyMessage), NEW e \in AnyMessage, s \in T
      PROVE  Append(s, e) \in T
  <2>1. PICK c : c = Coalesce(s)
    OBVIOUS
  <2>2. c \in Seq(AnyMessage) /\ Coalesce(c) = c
    BY <1>2, <2>1, CoalesceType
  <2>3. Coalesce(Join(c, e)) = Join(Coalesce(c), e)
    BY <2>2, JoinBefore
  <2>4. Append(s, e) \in Seq(AnyMessage) /\ Coalesce(Append(s, e)) = Join(c, e)
    BY <2>1, CoalesceOneMore
  <2>5. QED
    BY <2>2, <2>3, <2>4
<1>3. Seq(AnyMessage) \subseteq T
  <2>. HIDE DEF T
  <2>1. QED
    BY <1>1, <1>2, SeqInSet
<1>4. QED
  BY <1>3

\* What is appended to two histories that coalesce alike leaves them alike.
LEMMA CoalesceBehind ==
  ASSUME NEW g \in Seq(AnyMessage), NEW h \in Seq(AnyMessage), Coalesce(g) = Coalesce(h),
         NEW t \in Seq(AnyMessage)
  PROVE  Coalesce(g \o t) = Coalesce(h \o t)
<1>. DEFINE T == {s \in Seq(AnyMessage) : Coalesce(g \o s) = Coalesce(h \o s)}
<1>1. <<>> \in T
  <2>1. g \o <<>> = g /\ h \o <<>> = h
    BY ConcatEmptySeq
  <2>2. QED
    BY <2>1
<1>2. ASSUME NEW s \in Seq(AnyMessage), NEW e \in AnyMessage, s \in T
      PROVE  Append(s, e) \in T
  <2>1. ASSUME NEW q \in Seq(AnyMessage)
        PROVE  Coalesce(q \o Append(s, e)) = Join(Coalesce(q \o s), e)
    <3>1. q \o Append(s, e) = Append(q \o s, e)
      OBVIOUS
    <3>2. q \o s \in Seq(AnyMessage)
      OBVIOUS
    <3>3. QED
      BY <3>1, <3>2, CoalesceOneMore
  <2>2. Append(s, e) \in Seq(AnyMessage)
    OBVIOUS
  <2>3. QED
    BY <1>2, <2>1, <2>2
<1>3. Seq(AnyMessage) \subseteq T
  <2>. HIDE DEF T
  <2>1. QED
    BY <1>1, <1>2, SeqInSet
<1>4. QED
  BY <1>3

-----------------------------------------------------------------------------
(* Blanked bodies filled in again *)

Filled(m) == [m EXCEPT !.parts = {[p EXCEPT !.full = TRUE] : p \in @}]

FilledParts(s) == {[p EXCEPT !.full = TRUE] : p \in s}

LEMMA FilledMessage ==
  ASSUME NEW m \in AnyMessage
  PROVE  /\ Filled(m) \in AnyMessage /\ Filled(m).from = m.from
         /\ Filled(m).parts = FilledParts(m.parts)
         /\ Filled(m) = [from |-> m.from, parts |-> FilledParts(m.parts)]
<1>1. m.parts \in SUBSET AnyPart /\ m.from \in {"user", "model"}
  BY DEF AnyMessage
<1>2. \A p \in m.parts : [p EXCEPT !.full = TRUE] \in AnyPart
  BY <1>1 DEF AnyPart
<1>3. FilledParts(m.parts) \in SUBSET AnyPart
  BY <1>2 DEF FilledParts
<1>4. Filled(m) = [m EXCEPT !.parts = FilledParts(m.parts)]
  BY DEF Filled, FilledParts
<1>5. [m EXCEPT !.parts = FilledParts(m.parts)] = [from |-> m.from, parts |-> FilledParts(m.parts)]
  BY DEF AnyMessage
<1>6. QED
  BY <1>1, <1>3, <1>4, <1>5 DEF AnyMessage

LEMMA UnblankedHistory ==
  ASSUME NEW h \in Seq(AnyMessage)
  PROVE  /\ Unblanked(h) \in Seq(AnyMessage) /\ Len(Unblanked(h)) = Len(h)
         /\ \A i \in 1..Len(h) : Unblanked(h)[i] = Filled(h[i])
<1>1. Unblanked(h) = [i \in 1..Len(h) |-> Filled(h[i])]
  BY DEF Unblanked, Filled
<1>2. \A i \in 1..Len(h) : Filled(h[i]) \in AnyMessage
  BY FilledMessage
<1>. DEFINE u == [i \in 1..Len(h) |-> Filled(h[i])]
<1>3. u \in Seq(AnyMessage) /\ Len(u) = Len(h)
  BY <1>2
<1>4. QED
  BY <1>1, <1>3

LEMMA UnblankedNothing == Unblanked(<<>>) = <<>>
<1>1. <<>> \in Seq(AnyMessage) /\ Len(<<>>) = 0
  OBVIOUS
<1>2. PICK u : u = Unblanked(<<>>)
  OBVIOUS
<1>3. u \in Seq(AnyMessage) /\ Len(u) = 0
  BY <1>1, <1>2, UnblankedHistory
<1>4. u = <<>>
  BY <1>3
<1>5. QED
  BY <1>2, <1>4

LEMMA UnblankedAppend ==
  ASSUME NEW h \in Seq(AnyMessage), NEW m \in AnyMessage
  PROVE  Unblanked(Append(h, m)) = Append(Unblanked(h), Filled(m))
<1>1. PICK r : r = Append(h, m)
  OBVIOUS
<1>2. /\ r \in Seq(AnyMessage) /\ Len(r) = Len(h) + 1 /\ Len(h) \in Nat
      /\ r[Len(h) + 1] = m /\ \A i \in 1..Len(h) : r[i] = h[i]
  BY <1>1, AppendProperties
<1>3. PICK u : u = Unblanked(h)
  OBVIOUS
<1>4. u \in Seq(AnyMessage) /\ Len(u) = Len(h) /\ \A i \in 1..Len(h) : u[i] = Filled(h[i])
  BY <1>3, UnblankedHistory
<1>5. PICK v : v = Unblanked(r)
  OBVIOUS
<1>6. v \in Seq(AnyMessage) /\ Len(v) = Len(r) /\ \A i \in 1..Len(r) : v[i] = Filled(r[i])
  BY <1>2, <1>5, UnblankedHistory
<1>7. Filled(m) \in AnyMessage
  BY FilledMessage
<1>8. PICK w : w = Append(u, Filled(m))
  OBVIOUS
<1>9. /\ w \in Seq(AnyMessage) /\ Len(w) = Len(u) + 1
      /\ w[Len(u) + 1] = Filled(m) /\ \A i \in 1..Len(u) : w[i] = u[i]
  BY <1>4, <1>7, <1>8, AppendProperties
<1>10. Len(v) = Len(w) /\ \A i \in 1..Len(v) : v[i] = w[i]
  BY <1>2, <1>4, <1>6, <1>9
<1>11. QED
  BY <1>1, <1>3, <1>5, <1>6, <1>8, <1>9, <1>10, SeqEqual

LEMMA UnblankedJoin ==
  ASSUME NEW c \in Seq(AnyMessage), NEW m \in AnyMessage
  PROVE  Unblanked(Join(c, m)) = Join(Unblanked(c), Filled(m))
<1>1. CASE c = <<>>
  <2>2. Join(<<>>, m) = Append(<<>>, m) /\ Join(<<>>, Filled(m)) = Append(<<>>, Filled(m))
    BY DEF Join
  <2>3. QED
    BY <1>1, <2>2, UnblankedNothing, UnblankedAppend
<1>2. CASE c # <<>>
  <2>1. PICK l \in AnyMessage : l = Last(c)
    BY <1>2, FrontAndLast
  <2>2. PICK f \in Seq(AnyMessage) : f = Front(c)
    BY <1>2, FrontAndLast
  <2>3. c = Append(f, l)
    BY <1>2, <2>1, <2>2, FrontAndLast
  <2>4. PICK u \in Seq(AnyMessage) : u = Unblanked(f)
    BY UnblankedHistory
  <2>5. PICK l2 \in AnyMessage : l2 = Filled(l)
    BY FilledMessage
  <2>6. PICK m2 \in AnyMessage : m2 = Filled(m)
    BY FilledMessage
  <2>7. l2.from = l.from /\ m2.from = m.from
    BY <2>5, <2>6, FilledMessage
  <2>8. Unblanked(c) = Append(u, l2)
    BY <2>3, <2>4, <2>5, UnblankedAppend
  <2>9. PICK v : v = Append(u, l2)
    OBVIOUS
  <2>10. v # <<>> /\ Last(v) = l2 /\ Front(v) = u
    BY <2>9, AppendBack
  <2>11. CASE l.from = m.from
    <3>1. Both(l, m) \in AnyMessage /\ Both(l2, m2) \in AnyMessage
      BY <2>7, <2>11, JoinTogether
    <3>2. Join(c, m) = Append(f, Both(l, m))
      BY <1>2, <2>1, <2>2, <2>11 DEF Join, Both
    <3>3. Join(v, m2) = Append(u, Both(l2, m2))
      BY <2>7, <2>10, <2>11 DEF Join, Both
    <3>4. Filled(Both(l, m)) = Both(l2, m2)
      <4>1. /\ Both(l, m).from = l.from /\ Both(l, m).parts = l.parts \cup m.parts
        BY DEF Both
      <4>2. FilledParts(l.parts \cup m.parts) = FilledParts(l.parts) \cup FilledParts(m.parts)
        BY DEF FilledParts
      <4>3. Filled(Both(l, m)) = [from |-> l.from, parts |-> FilledParts(l.parts \cup m.parts)]
        BY <3>1, <4>1, FilledMessage
      <4>4. l2.parts = FilledParts(l.parts) /\ m2.parts = FilledParts(m.parts)
        BY <2>5, <2>6, FilledMessage
      <4>5. QED
        BY <2>7, <4>2, <4>3, <4>4 DEF Both
    <3>5. Unblanked(Append(f, Both(l, m))) = Append(u, Filled(Both(l, m)))
      BY <2>4, <3>1, UnblankedAppend
    <3>6. QED
      BY <2>6, <2>8, <2>9, <3>2, <3>3, <3>4, <3>5
  <2>12. CASE l.from # m.from
    <3>1. Join(c, m) = Append(c, m)
      BY <2>1, <2>12 DEF Join
    <3>2. Join(v, m2) = Append(v, m2)
      BY <2>7, <2>10, <2>12 DEF Join
    <3>3. QED
      BY <2>6, <2>8, <2>9, <3>1, <3>2, UnblankedAppend
  <2>13. QED
    BY <2>11, <2>12
<1>3. QED
  BY <1>1, <1>2

LEMMA UnblankedCoalesce ==
  ASSUME NEW h \in Seq(AnyMessage)
  PROVE  Coalesce(Unblanked(h)) = Unblanked(Coalesce(h))
<1>. DEFINE T == {s \in Seq(AnyMessage) : Coalesce(Unblanked(s)) = Unblanked(Coalesce(s))}
<1>1. <<>> \in T
  BY UnblankedNothing, CoalesceNothing
<1>2. ASSUME NEW s \in Seq(AnyMessage), NEW e \in AnyMessage, s \in T
      PROVE  Append(s, e) \in T
  <2>1. PICK u \in Seq(AnyMessage) : u = Unblanked(s)
    BY UnblankedHistory
  <2>2. PICK c \in Seq(AnyMessage) : c = Coalesce(s)
    BY CoalesceType
  <2>3. PICK f \in AnyMessage : f = Filled(e)
    BY FilledMessage
  <2>4. Unblanked(Append(s, e)) = Append(u, f)
    BY <2>1, <2>3, UnblankedAppend
  <2>5. Coalesce(Append(u, f)) = Join(Coalesce(u), f)
    BY CoalesceOneMore
  <2>6. Coalesce(u) = Unblanked(c)
    BY <1>2, <2>1, <2>2
  <2>7. Unblanked(Join(c, e)) = Join(Unblanked(c), f)
    BY <2>3, UnblankedJoin
  <2>8. Append(s, e) \in Seq(AnyMessage) /\ Coalesce(Append(s, e)) = Join(c, e)
    BY <2>2, CoalesceOneMore
  <2>9. QED
    BY <2>4, <2>5, <2>6, <2>7, <2>8
<1>3. Seq(AnyMessage) \subseteq T
  <2>. HIDE DEF T
  <2>1. QED
    BY <1>1, <1>2, SeqInSet
<1>4. QED
  BY <1>3

\* Same is kept by coalescing one side, and by appending the same to both.
LEMMA SameCoalesced ==
  ASSUME NEW g \in Seq(AnyMessage), NEW h \in Seq(AnyMessage), Same(g, h)
  PROVE  Same(g, Coalesce(h))
<1>1. PICK u \in Seq(AnyMessage) : u = Unblanked(h)
  BY UnblankedHistory
<1>2. PICK c \in Seq(AnyMessage) : c = Coalesce(h)
  BY CoalesceType
<1>3. Unblanked(c) = Coalesce(u)
  BY <1>1, <1>2, UnblankedCoalesce
<1>4. Coalesce(Coalesce(u)) = Coalesce(u)
  BY CoalesceTwice
<1>5. QED
  BY <1>1, <1>2, <1>3, <1>4 DEF Same

LEMMA UnblankedConcat ==
  ASSUME NEW g \in Seq(AnyMessage), NEW h \in Seq(AnyMessage)
  PROVE  Unblanked(g \o h) = Unblanked(g) \o Unblanked(h)
<1>1. PICK u \in Seq(AnyMessage) : u = Unblanked(g)
  BY UnblankedHistory
<1>2. PICK v \in Seq(AnyMessage) : v = Unblanked(h)
  BY UnblankedHistory
<1>3. Len(u) = Len(g) /\ \A i \in 1..Len(g) : u[i] = Filled(g[i])
  BY <1>1, UnblankedHistory
<1>4. Len(v) = Len(h) /\ \A i \in 1..Len(h) : v[i] = Filled(h[i])
  BY <1>2, UnblankedHistory
<1>5. PICK r \in Seq(AnyMessage) : r = g \o h
  BY ConcatProperties
<1>6. /\ Len(r) = Len(g) + Len(h) /\ Len(g) \in Nat /\ Len(h) \in Nat
      /\ \A i \in 1..(Len(g) + Len(h)) : r[i] = IF i <= Len(g) THEN g[i] ELSE h[i - Len(g)]
  BY <1>5, ConcatProperties
<1>7. PICK w \in Seq(AnyMessage) : w = Unblanked(r)
  BY UnblankedHistory
<1>8. Len(w) = Len(r) /\ \A i \in 1..Len(r) : w[i] = Filled(r[i])
  BY <1>7, UnblankedHistory
<1>9. PICK x \in Seq(AnyMessage) : x = u \o v
  BY ConcatProperties
<1>10. /\ Len(x) = Len(u) + Len(v)
       /\ \A i \in 1..(Len(u) + Len(v)) : x[i] = IF i <= Len(u) THEN u[i] ELSE v[i - Len(u)]
  BY <1>9, ConcatProperties
<1>11. Len(w) = Len(x)
  BY <1>3, <1>4, <1>6, <1>8, <1>10
<1>12. ASSUME NEW i \in 1..Len(w) PROVE w[i] = x[i]
  <2>1. i \in 1..(Len(g) + Len(h)) /\ w[i] = Filled(r[i])
    BY <1>6, <1>8
  <2>2. CASE i <= Len(g)
    <3>1. i \in 1..Len(g) /\ r[i] = g[i] /\ u[i] = Filled(g[i])
      BY <1>3, <1>6, <2>1, <2>2
    <3>2. i \in 1..(Len(u) + Len(v)) /\ x[i] = u[i]
      BY <1>3, <1>4, <1>10, <2>1, <2>2
    <3>3. QED
      BY <2>1, <3>1, <3>2
  <2>3. CASE ~(i <= Len(g))
    <3>1. i - Len(g) \in 1..Len(h)
      BY <1>6, <2>1, <2>3
    <3>2. QED
      BY <1>3, <1>4, <1>6, <1>10, <2>1, <2>3, <3>1
  <2>4. QED
    BY <2>2, <2>3
<1>13. w = x
  BY <1>11, <1>12, SeqEqual
<1>14. QED
  BY <1>1, <1>2, <1>5, <1>7, <1>9, <1>13

LEMMA SameBehind ==
  ASSUME NEW g \in Seq(AnyMessage), NEW h \in Seq(AnyMessage), Same(g, h),
         NEW t \in Seq(AnyMessage)
  PROVE  Same(g \o t, h \o t)
<1>1. PICK u \in Seq(AnyMessage) : u = Unblanked(g)
  BY UnblankedHistory
<1>2. PICK v \in Seq(AnyMessage) : v = Unblanked(h)
  BY UnblankedHistory
<1>3. PICK w \in Seq(AnyMessage) : w = Unblanked(t)
  BY UnblankedHistory
<1>4. Coalesce(u) = Coalesce(v)
  BY <1>1, <1>2 DEF Same
<1>5. Coalesce(u \o w) = Coalesce(v \o w)
  BY <1>4, CoalesceBehind
<1>6. Unblanked(g \o t) = u \o w /\ Unblanked(h \o t) = v \o w
  BY <1>1, <1>2, <1>3, UnblankedConcat
<1>7. QED
  BY <1>5, <1>6 DEF Same

-----------------------------------------------------------------------------
(* What a message carries: the parts it adds to the conversation, and the   *)
(* calls it answers.                                                        *)

Ids(m) == {p.id : p \in m.parts \ Returns(m)}

ReturnIds(m) == {p.id : p \in Returns(m)}

Full(m) == \A p \in m.parts : p.full

\* A prompt makes no call, an answer returns none.
InRole(m) == IF m.from = "user" THEN CallIds(m) = {} ELSE ReturnIds(m) = {}

\* The message has this role, adds these parts, makes these calls, answers those.
Carries(m, from, ids, calls, returns) ==
  /\ m \in AnyMessage /\ m.from = from /\ Full(m)
  /\ Ids(m) = ids /\ CallIds(m) = calls /\ ReturnIds(m) = returns
  /\ {p.id : p \in m.parts} = ids \cup returns

LEMMA NewPartFields ==
  ASSUME NEW kind \in Kind, NEW n \in Nat \ {0}
  PROVE  /\ NewPart(kind, n) \in AnyPart /\ NewPart(kind, n).kind = kind
         /\ NewPart(kind, n).id = n /\ NewPart(kind, n).full
BY DEF NewPart, AnyPart

LEMMA OneCarries ==
  ASSUME NEW from \in {"user", "model"}, NEW kind \in Kind, NEW n \in Nat \ {0},
         NEW m, m = [from |-> from, parts |-> {NewPart(kind, n)}]
  PROVE  /\ kind = "return" => Carries(m, from, {}, {}, {n})
         /\ kind = "call" => Carries(m, from, {n}, {n}, {})
         /\ kind \in {"prompt", "summary", "text"} => Carries(m, from, {n}, {}, {})
<1>1. PICK p \in AnyPart : p = NewPart(kind, n)
  BY NewPartFields
<1>2. p.kind = kind /\ p.id = n /\ p.full
  BY <1>1, NewPartFields
<1>3. m.from = from /\ m.parts = {p} /\ m \in AnyMessage
  BY <1>1 DEF AnyMessage
<1>4. Full(m) /\ {q.id : q \in m.parts} = {n}
  BY <1>2, <1>3 DEF Full
<1>5. CASE kind = "return"
  <2>1. Returns(m) = {p} /\ m.parts \ Returns(m) = {} /\ {q \in m.parts : q.kind = "call"} = {}
    BY <1>2, <1>3, <1>5 DEF Returns
  <2>2. Ids(m) = {} /\ CallIds(m) = {} /\ ReturnIds(m) = {n}
    BY <1>2, <2>1 DEF Ids, CallIds, ReturnIds
  <2>3. QED
    BY <1>3, <1>4, <1>5, <2>2 DEF Carries
<1>6. CASE kind = "call"
  <2>1. Returns(m) = {} /\ m.parts \ Returns(m) = {p} /\ {q \in m.parts : q.kind = "call"} = {p}
    BY <1>2, <1>3, <1>6 DEF Returns
  <2>2. Ids(m) = {n} /\ CallIds(m) = {n} /\ ReturnIds(m) = {}
    BY <1>2, <2>1 DEF Ids, CallIds, ReturnIds
  <2>3. QED
    BY <1>3, <1>4, <1>6, <2>2 DEF Carries
<1>7. CASE kind \in {"prompt", "summary", "text"}
  <2>1. Returns(m) = {} /\ m.parts \ Returns(m) = {p} /\ {q \in m.parts : q.kind = "call"} = {}
    BY <1>2, <1>3, <1>7 DEF Returns
  <2>2. Ids(m) = {n} /\ CallIds(m) = {} /\ ReturnIds(m) = {}
    BY <1>2, <2>1 DEF Ids, CallIds, ReturnIds
  <2>3. QED
    BY <1>3, <1>4, <1>7, <2>2 DEF Carries
<1>8. QED
  BY <1>5, <1>6, <1>7 DEF Kind

LEMMA RequestCarries ==
  ASSUME NEW n \in Nat \ {0}
  PROVE  /\ Carries(Request("prompt", n), "user", {n}, {}, {})
         /\ Carries(Request("summary", n), "user", {n}, {}, {})
         /\ Carries(Request("return", n), "user", {}, {}, {n})
BY OneCarries DEF Request, Kind

LEMMA ResponseCarries ==
  ASSUME NEW n \in Nat \ {0}
  PROVE  /\ Carries(Response("text", n), "model", {n}, {}, {})
         /\ Carries(Response("call", n), "model", {n}, {n}, {})
BY OneCarries DEF Response, Kind

LEMMA CallIdsType ==
  ASSUME NEW m \in AnyMessage
  PROVE  /\ CallIds(m) \in SUBSET (Nat \ {0}) /\ CallIds(m) \subseteq Ids(m)
         /\ ReturnIds(m) \in SUBSET (Nat \ {0}) /\ Ids(m) \in SUBSET (Nat \ {0})
         /\ Ids(m) \subseteq {p.id : p \in m.parts} /\ ReturnIds(m) \subseteq {p.id : p \in m.parts}
<1>1. m.parts \in SUBSET AnyPart
  BY DEF AnyMessage
<1>2. \A p \in m.parts : p.id \in Nat \ {0}
  BY <1>1 DEF AnyPart
<1>3. CallIds(m) \subseteq Ids(m)
  BY DEF CallIds, Ids, Returns
<1>4. QED
  BY <1>2, <1>3 DEF CallIds, Ids, ReturnIds, Returns

\* The message that answers every call of m: what a heal appends, and what a resume leg sends.
Answer(m) == [from |-> "user", parts |-> {NewPart("return", c) : c \in CallIds(m)}]

LEMMA AnswerCarries ==
  ASSUME NEW m \in AnyMessage
  PROVE  Carries(Answer(m), "user", {}, {}, CallIds(m))
<1>1. PICK a : a = Answer(m)
  OBVIOUS
<1>2. a.from = "user" /\ a.parts = {NewPart("return", c) : c \in CallIds(m)}
  BY <1>1 DEF Answer
<1>3. ASSUME NEW c \in CallIds(m)
      PROVE  /\ NewPart("return", c) \in AnyPart /\ NewPart("return", c).kind = "return"
             /\ NewPart("return", c).id = c /\ NewPart("return", c).full
  <2>1. c \in Nat \ {0} /\ "return" \in Kind
    BY CallIdsType DEF Kind
  <2>2. QED
    BY <2>1, NewPartFields
<1>4. a \in AnyMessage
  BY <1>1, <1>3 DEF AnyMessage, Answer
<1>5. Full(a)
  BY <1>2, <1>3 DEF Full
<1>6. Returns(a) = a.parts /\ {q \in a.parts : q.kind = "call"} = {}
  BY <1>2, <1>3 DEF Returns
<1>7. {p.id : p \in a.parts} = CallIds(m)
  BY <1>2, <1>3
<1>8. Ids(a) = {} /\ CallIds(a) = {} /\ ReturnIds(a) = CallIds(m)
  BY <1>6, <1>7 DEF Ids, CallIds, ReturnIds
<1>9. QED
  BY <1>1, <1>2, <1>4, <1>5, <1>7, <1>8 DEF Carries

-----------------------------------------------------------------------------
(* The order of a conversation *)

\* m may stand in front of n: what it adds is older, unless m is a summary, which is
\* newer than the tail behind it, and what it returns is not called or returned again.
Before(m, n) ==
  /\ \A x \in Ids(m), y \in Ids(n) : x < y \/ NewPart("summary", x) \in m.parts
  /\ ReturnIds(m) \cap (ReturnIds(n) \cup CallIds(n)) = {}

After(h, m) == \A i \in 1..Len(h) : Before(h[i], m)

Chain(h) ==
  /\ \A i \in 1..Len(h) : InRole(h[i])
  /\ \A i, j \in 1..Len(h) : i < j => Before(h[i], h[j])

Below(h, n) == \A i \in 1..Len(h) : \A x \in {p.id : p \in h[i].parts} : x <= n

\* Nothing follows the j-th message but answers of the model: its calls may be open.
Open(h, j) == \A k \in j..Len(h) : h[k].from = "model"

\* The messages of h behind the cursor may be written behind r: they are in order with
\* it, and no open call of h was answered in it.
Fits(r, h, cursor) ==
  /\ Chain(h) /\ Chain(r)
  /\ \A j \in 1..Len(h) : j > cursor => After(r, h[j])
  /\ \A j \in 1..Len(h) : Open(h, j) =>
       \A i \in 1..Len(r) : ReturnIds(r[i]) \cap CallIds(h[j]) = {}

LEMMA OpenChain ==
  ASSUME NEW h \in Seq(AnyMessage), Chain(h), NEW j \in 1..Len(h), Open(h, j),
         NEW i \in 1..Len(h)
  PROVE  ReturnIds(h[i]) \cap CallIds(h[j]) = {}
<1>1. CASE i < j
  BY <1>1 DEF Chain, Before
<1>2. CASE ~(i < j)
  <2>1. h[i].from = "model"
    BY <1>2 DEF Open
  <2>2. InRole(h[i])
    BY DEF Chain
  <2>3. QED
    BY <2>1, <2>2 DEF InRole
<1>3. QED
  BY <1>1, <1>2

\* A checkpoint, and a resume: the log is the history.
LEMMA FitsItself ==
  ASSUME NEW h \in Seq(AnyMessage), Chain(h)
  PROVE  Fits(h, h, Len(h))
<1>1. ASSUME NEW j \in 1..Len(h), Open(h, j), NEW i \in 1..Len(h)
      PROVE  ReturnIds(h[i]) \cap CallIds(h[j]) = {}
  BY <1>1, OpenChain
<1>2. \A j \in 1..Len(h) : ~(j > Len(h))
  OBVIOUS
<1>3. QED
  BY <1>1, <1>2 DEF Fits

LEMMA FitsAppend ==
  ASSUME NEW r \in Seq(AnyMessage), NEW h \in Seq(AnyMessage), NEW cursor \in Nat,
         NEW m \in AnyMessage, Fits(r, h, cursor), InRole(m), After(h, m), After(r, m)
  PROVE  Fits(r, Append(h, m), cursor)
<1>1. PICK q : q = Append(h, m)
  OBVIOUS
<1>2. /\ q \in Seq(AnyMessage) /\ Len(q) = Len(h) + 1 /\ Len(h) \in Nat
      /\ q[Len(h) + 1] = m /\ \A i \in 1..Len(h) : q[i] = h[i]
  BY <1>1, AppendProperties
<1>3. Chain(q)
  <2>1. ASSUME NEW i \in 1..Len(q) PROVE InRole(q[i])
    BY <1>2 DEF Fits, Chain
  <2>2. ASSUME NEW i \in 1..Len(q), NEW j \in 1..Len(q), i < j PROVE Before(q[i], q[j])
    <3>1. i \in 1..Len(h) /\ q[i] = h[i]
      BY <1>2, <2>2
    <3>2. CASE j = Len(h) + 1
      BY <1>2, <3>1, <3>2 DEF After
    <3>3. CASE j # Len(h) + 1
      <4>1. j \in 1..Len(h) /\ q[j] = h[j]
        BY <1>2, <3>3
      <4>2. QED
        BY <2>2, <3>1, <4>1 DEF Fits, Chain
    <3>4. QED
      BY <3>2, <3>3
  <2>3. QED
    BY <2>1, <2>2 DEF Chain
<1>4. ASSUME NEW j \in 1..Len(q), j > cursor PROVE After(r, q[j])
  <2>1. CASE j = Len(h) + 1
    BY <1>2, <2>1
  <2>2. CASE j # Len(h) + 1
    <3>1. j \in 1..Len(h) /\ q[j] = h[j]
      BY <1>2, <2>2
    <3>2. QED
      BY <1>4, <3>1 DEF Fits
  <2>3. QED
    BY <2>1, <2>2
<1>5. ASSUME NEW j \in 1..Len(q), Open(q, j), NEW i \in 1..Len(r)
      PROVE  ReturnIds(r[i]) \cap CallIds(q[j]) = {}
  <2>1. CASE j = Len(h) + 1
    BY <1>2, <2>1 DEF After, Before
  <2>2. CASE j # Len(h) + 1
    <3>1. j \in 1..Len(h) /\ q[j] = h[j]
      BY <1>2, <2>2
    <3>2. Open(h, j)
      BY <1>2, <1>5, <3>1 DEF Open
    <3>3. QED
      BY <3>1, <3>2 DEF Fits
  <2>3. QED
    BY <2>1, <2>2
<1>6. Fits(r, q, cursor)
  BY <1>3, <1>4, <1>5 DEF Fits
<1>7. QED
  BY <1>1, <1>6

\* A message of new parts, whose returns are new too, is behind everything.
LEMMA FitsNew ==
  ASSUME NEW r \in Seq(AnyMessage), NEW h \in Seq(AnyMessage), NEW cursor \in Nat,
         Fits(r, h, cursor), NEW n \in Nat, Below(h, n), Below(r, n),
         NEW k \in Nat, n < k, NEW m, NEW from \in {"user", "model"},
         \/ Carries(m, from, {k}, {}, {})
         \/ Carries(m, from, {k}, {k}, {}) /\ from = "model"
         \/ Carries(m, from, {}, {}, {k}) /\ from = "user"
  PROVE  m \in AnyMessage /\ Fits(r, Append(h, m), cursor) /\ Below(Append(h, m), k)
<1>1. m \in AnyMessage /\ InRole(m) /\ {p.id : p \in m.parts} = {k}
  BY DEF Carries, InRole
<1>2. ASSUME NEW q \in AnyMessage, \A x \in {p.id : p \in q.parts} : x <= n
      PROVE  Before(q, m)
  <2>1. \A x \in Ids(q) \cup ReturnIds(q) : x <= n /\ x \in Nat
    BY <1>2, CallIdsType
  <2>2. Ids(m) \subseteq {k} /\ ReturnIds(m) \cup CallIds(m) \subseteq {k}
    BY DEF Carries
  <2>3. QED
    BY <2>1, <2>2 DEF Before
<1>3. After(h, m) /\ After(r, m)
  BY <1>2 DEF After, Below
<1>4. Fits(r, Append(h, m), cursor)
  BY <1>1, <1>3, FitsAppend
<1>5. Below(Append(h, m), k)
  <2>1. PICK q : q = Append(h, m)
    OBVIOUS
  <2>2. /\ q \in Seq(AnyMessage) /\ Len(q) = Len(h) + 1 /\ Len(h) \in Nat
        /\ q[Len(h) + 1] = m /\ \A i \in 1..Len(h) : q[i] = h[i]
    BY <1>1, <2>1, AppendProperties
  <2>3. ASSUME NEW i \in 1..Len(q), NEW x \in {p.id : p \in q[i].parts} PROVE x <= k
    <3>1. CASE i = Len(h) + 1
      <4>1. {p.id : p \in q[i].parts} = {k}
        BY <1>1, <2>2, <3>1
      <4>2. x \in {k}
        BY <2>3, <4>1, Zenon
      <4>3. QED
        BY <4>2
    <3>2. CASE i # Len(h) + 1
      <4>1. i \in 1..Len(h) /\ q[i] = h[i] /\ h[i] \in AnyMessage
        BY <2>2, <3>2
      <4>2. x <= n /\ x \in Nat
        BY <2>3, <4>1 DEF Below, AnyMessage, AnyPart
      <4>3. QED
        BY <4>2
    <3>3. QED
      BY <3>1, <3>2
  <2>4. QED
    BY <2>1, <2>3 DEF Below
<1>6. QED
  BY <1>1, <1>4, <1>5

\* The answer to the calls of an open last message.
LEMMA FitsAnswered ==
  ASSUME NEW r \in Seq(AnyMessage), NEW h \in Seq(AnyMessage), NEW cursor \in Nat,
         Fits(r, h, cursor), h # <<>>, NEW m \in AnyMessage,
         \A i \in 1..Len(h) : ReturnIds(h[i]) \cap CallIds(m) = {},
         \A i \in 1..Len(r) : ReturnIds(r[i]) \cap CallIds(m) = {}
  PROVE  Fits(r, Append(h, Answer(m)), cursor)
<1>1. PICK a : a = Answer(m)
  OBVIOUS
<1>2. Carries(a, "user", {}, {}, CallIds(m))
  BY <1>1, AnswerCarries
<1>3. a \in AnyMessage /\ InRole(a)
  BY <1>2 DEF Carries, InRole
<1>4. After(h, a) /\ After(r, a)
  BY <1>2 DEF After, Before, Carries
<1>5. QED
  BY <1>1, <1>3, <1>4, FitsAppend

\* What is behind the cursor is written.
LEMMA FitsWritten ==
  ASSUME NEW r \in Seq(AnyMessage), NEW h \in Seq(AnyMessage), NEW cursor \in 0..Len(h),
         Fits(r, h, cursor)
  PROVE  Fits(r \o SubSeq(h, cursor + 1, Len(h)), h, Len(h))
<1>1. PICK t : t = SubSeq(h, cursor + 1, Len(h))
  OBVIOUS
<1>2. /\ t \in Seq(AnyMessage) /\ Len(t) = Len(h) - cursor
      /\ \A i \in 1..(Len(h) - cursor) : t[i] = h[cursor + i]
  BY <1>1, RestOf
<1>3. PICK q : q = r \o t
  OBVIOUS
<1>4. /\ q \in Seq(AnyMessage) /\ Len(q) = Len(r) + Len(t) /\ Len(r) \in Nat
      /\ Len(t) \in Nat /\ Len(h) \in Nat
      /\ \A i \in 1..(Len(r) + Len(t)) : q[i] = IF i <= Len(r) THEN r[i] ELSE t[i - Len(r)]
  <2>1. /\ q \in Seq(AnyMessage) /\ Len(q) = Len(r) + Len(t)
        /\ \A i \in 1..(Len(r) + Len(t)) : q[i] = IF i <= Len(r) THEN r[i] ELSE t[i - Len(r)]
    BY <1>2, <1>3, ConcatProperties
  <2>2. Len(r) \in Nat /\ Len(t) \in Nat /\ Len(h) \in Nat
    BY <1>2
  <2>3. QED
    BY <2>1, <2>2
<1>5. ASSUME NEW i \in 1..Len(q)
      PROVE  \/ i \in 1..Len(r) /\ q[i] = r[i]
             \/ /\ i > Len(r) /\ i - Len(r) + cursor \in 1..Len(h)
                /\ i - Len(r) + cursor > cursor
                /\ q[i] = h[i - Len(r) + cursor]
  <2>1. CASE i <= Len(r)
    BY <1>4, <2>1
  <2>2. CASE ~(i <= Len(r))
    <3>0. i \in 1..(Len(r) + Len(t)) /\ Len(t) = Len(h) - cursor
      BY <1>2, <1>4
    <3>1. i - Len(r) \in 1..(Len(h) - cursor) /\ q[i] = t[i - Len(r)]
      <4>1. i - Len(r) \in 1..(Len(h) - cursor)
        BY <1>4, <2>2, <3>0
      <4>2. q[i] = t[i - Len(r)]
        BY <1>4, <2>2, <3>0
      <4>3. QED
        BY <4>1, <4>2
    <3>2. q[i] = h[cursor + (i - Len(r))]
      BY <1>2, <3>1
    <3>. cursor \in Nat /\ i \in Nat /\ cursor + (i - Len(r)) = i - Len(r) + cursor
      BY <1>4
    <3>3. QED
      BY <1>4, <2>2, <3>1, <3>2
  <2>3. QED
    BY <2>1, <2>2
<1>6. Chain(q)
  <2>1. ASSUME NEW i \in 1..Len(q) PROVE InRole(q[i])
    BY <1>5 DEF Fits, Chain
  <2>2. ASSUME NEW i \in 1..Len(q), NEW j \in 1..Len(q), i < j PROVE Before(q[i], q[j])
    <3>1. CASE j \in 1..Len(r) /\ q[j] = r[j]
      <4>1. i \in 1..Len(r) /\ q[i] = r[i]
        BY <1>4, <1>5, <2>2, <3>1
      <4>2. QED
        BY <2>2, <3>1, <4>1 DEF Fits, Chain
    <3>2. CASE /\ j > Len(r) /\ j - Len(r) + cursor \in 1..Len(h)
               /\ j - Len(r) + cursor > cursor
               /\ q[j] = h[j - Len(r) + cursor]
      <4>1. CASE i \in 1..Len(r) /\ q[i] = r[i]
        BY <3>2, <4>1 DEF Fits, After
      <4>2. CASE i - Len(r) + cursor \in 1..Len(h) /\ q[i] = h[i - Len(r) + cursor]
        <5>1. i - Len(r) + cursor < j - Len(r) + cursor
          BY <1>4, <2>2
        <5>2. QED
          BY <3>2, <4>2, <5>1 DEF Fits, Chain
      <4>3. QED
        BY <1>5, <4>1, <4>2
    <3>3. QED
      BY <1>5, <3>1, <3>2
  <2>3. QED
    BY <2>1, <2>2 DEF Chain
<1>7. ASSUME NEW j \in 1..Len(h), Open(h, j), NEW i \in 1..Len(q)
      PROVE  ReturnIds(q[i]) \cap CallIds(h[j]) = {}
  <2>1. Chain(h)
    BY DEF Fits
  <2>2. QED
    <3>1. CASE i \in 1..Len(r) /\ q[i] = r[i]
      BY <1>7, <3>1 DEF Fits
    <3>2. CASE i - Len(r) + cursor \in 1..Len(h) /\ q[i] = h[i - Len(r) + cursor]
      BY <1>7, <2>1, <3>2, OpenChain
    <3>3. QED
      BY <1>5, <3>1, <3>2
<1>8. Fits(q, h, Len(h))
  <2>1. \A j \in 1..Len(h) : ~(j > Len(h))
    OBVIOUS
  <2>2. QED
    BY <1>6, <1>7, <2>1 DEF Fits
<1>9. QED
  BY <1>1, <1>3, <1>8

\* The history is coalesced under the cursor.
LEMMA FitsCoalesced ==
  ASSUME NEW r \in Seq(AnyMessage), NEW h \in Seq(AnyMessage), NEW p \in Nat,
         Fits(r, h, p), NEW cursor \in Nat,
         \A j \in 1..Len(Coalesce(h)) : j > cursor => j > p
  PROVE  Fits(r, Coalesce(h), cursor)
<1>1. PICK c \in Seq(AnyMessage) : c = Coalesce(h)
  BY CoalesceType
<1>2. PICK g : Groups(g, h, c)
  BY <1>1, CoalesceGroups
<1>3. /\ \A i \in 1..Len(h) : g[i] \in 1..Len(c)
      /\ \A i \in 1..Len(h) :
           g[i] <= i /\ c[g[i]].from = h[i].from /\ h[i].parts \subseteq c[g[i]].parts
      /\ \A i, j \in 1..Len(h) : i <= j => g[i] <= g[j]
      /\ \A k \in 1..Len(c) : \A x \in c[k].parts :
           \E i \in 1..Len(h) : g[i] = k /\ x \in h[i].parts
  BY <1>2 DEF Groups
<1>4. ASSUME NEW k \in 1..Len(c)
      PROVE  /\ \A x \in Ids(c[k]) : \E i \in 1..Len(h) : g[i] = k /\ x \in Ids(h[i])
             /\ \A x \in CallIds(c[k]) : \E i \in 1..Len(h) : g[i] = k /\ x \in CallIds(h[i])
             /\ \A x \in ReturnIds(c[k]) : \E i \in 1..Len(h) : g[i] = k /\ x \in ReturnIds(h[i])
  BY <1>3 DEF Ids, CallIds, ReturnIds, Returns
<1>5. ASSUME NEW k \in 1..Len(c) PROVE InRole(c[k])
  <2>1. CASE c[k].from = "user"
    <3>1. ASSUME NEW x \in CallIds(c[k]) PROVE FALSE
      <4>1. PICK i \in 1..Len(h) : g[i] = k /\ x \in CallIds(h[i])
        BY <1>4, <3>1
      <4>2. h[i].from = "user" /\ InRole(h[i])
        BY <1>3, <2>1, <4>1 DEF Fits, Chain
      <4>3. QED
        BY <4>1, <4>2 DEF InRole
    <3>2. QED
      BY <2>1, <3>1 DEF InRole
  <2>2. CASE c[k].from # "user"
    <3>1. ASSUME NEW x \in ReturnIds(c[k]) PROVE FALSE
      <4>1. PICK i \in 1..Len(h) : g[i] = k /\ x \in ReturnIds(h[i])
        BY <1>4, <3>1
      <4>2. h[i].from # "user" /\ InRole(h[i])
        BY <1>3, <2>2, <4>1 DEF Fits, Chain
      <4>3. QED
        BY <4>1, <4>2 DEF InRole
    <3>2. QED
      BY <2>2, <3>1 DEF InRole
  <2>3. QED
    BY <2>1, <2>2
<1>6. ASSUME NEW k \in 1..Len(c), NEW l \in 1..Len(c), k < l PROVE Before(c[k], c[l])
  <2>1. ASSUME NEW i \in 1..Len(h), NEW j \in 1..Len(h), g[i] = k, g[j] = l
        PROVE  Before(h[i], h[j])
    <3>1. i < j
      <4>1. ~(j <= i)
        BY <1>3, <1>6, <2>1
      <4>2. QED
        BY <4>1
    <3>2. QED
      BY <3>1 DEF Fits, Chain
  <2>2. ASSUME NEW x \in Ids(c[k]), NEW y \in Ids(c[l])
        PROVE  x < y \/ NewPart("summary", x) \in c[k].parts
    <3>1. PICK i \in 1..Len(h) : g[i] = k /\ x \in Ids(h[i])
      BY <1>4, <2>2
    <3>2. PICK j \in 1..Len(h) : g[j] = l /\ y \in Ids(h[j])
      BY <1>4, <2>2
    <3>3. x < y \/ NewPart("summary", x) \in h[i].parts
      BY <2>1, <3>1, <3>2 DEF Before
    <3>4. QED
      BY <1>3, <3>1, <3>3
  <2>3. ASSUME NEW x \in ReturnIds(c[k]), x \in ReturnIds(c[l]) \cup CallIds(c[l]) PROVE FALSE
    <3>1. PICK i \in 1..Len(h) : g[i] = k /\ x \in ReturnIds(h[i])
      BY <1>4, <2>3
    <3>2. PICK j \in 1..Len(h) : g[j] = l /\ x \in ReturnIds(h[j]) \cup CallIds(h[j])
      BY <1>4, <2>3
    <3>3. QED
      BY <2>1, <3>1, <3>2 DEF Before
  <2>4. QED
    BY <2>2, <2>3 DEF Before
<1>7. ASSUME NEW k \in 1..Len(c), k > cursor PROVE After(r, c[k])
  <2>1. ASSUME NEW i \in 1..Len(r), NEW j \in 1..Len(h), g[j] = k PROVE Before(r[i], h[j])
    <3>1. j > p
      <4>1. k > p /\ g[j] <= j /\ k \in Nat
        BY <1>1, <1>3, <1>7, <2>1
      <4>2. QED
        BY <2>1, <4>1
    <3>2. QED
      BY <3>1 DEF Fits, After
  <2>2. ASSUME NEW i \in 1..Len(r), NEW x \in Ids(r[i]), NEW y \in Ids(c[k])
        PROVE  x < y \/ NewPart("summary", x) \in r[i].parts
    <3>1. PICK j \in 1..Len(h) : g[j] = k /\ y \in Ids(h[j])
      BY <1>4, <2>2
    <3>2. QED
      BY <2>1, <3>1 DEF Before
  <2>3. ASSUME NEW i \in 1..Len(r), NEW x \in ReturnIds(r[i]),
               x \in ReturnIds(c[k]) \cup CallIds(c[k])
        PROVE  FALSE
    <3>1. PICK j \in 1..Len(h) : g[j] = k /\ x \in ReturnIds(h[j]) \cup CallIds(h[j])
      BY <1>4, <2>3
    <3>2. QED
      BY <2>1, <3>1 DEF Before
  <2>4. QED
    BY <2>2, <2>3 DEF After, Before
<1>8. ASSUME NEW k \in 1..Len(c), Open(c, k), NEW i \in 1..Len(r)
      PROVE  ReturnIds(r[i]) \cap CallIds(c[k]) = {}
  <2>1. ASSUME NEW x \in ReturnIds(r[i]), x \in CallIds(c[k]) PROVE FALSE
    <3>1. PICK j \in 1..Len(h) : g[j] = k /\ x \in CallIds(h[j])
      BY <1>4, <2>1
    <3>2. Open(h, j)
      <4>1. ASSUME NEW a \in j..Len(h) PROVE h[a].from = "model"
        <5>1. a \in 1..Len(h) /\ j <= a
          OBVIOUS
        <5>2. g[a] \in k..Len(c)
          BY <1>3, <3>1, <5>1
        <5>3. QED
          BY <1>3, <1>8, <5>1, <5>2 DEF Open
      <4>2. QED
        BY <4>1 DEF Open
    <3>3. QED
      BY <2>1, <3>1, <3>2 DEF Fits
  <2>2. QED
    BY <2>1
<1>9. Chain(c) /\ Chain(r)
  BY <1>5, <1>6 DEF Chain, Fits
<1>10. Fits(r, c, cursor)
  BY <1>7, <1>8, <1>9 DEF Fits
<1>11. QED
  BY <1>1, <1>10

LEMMA BelowAppend ==
  ASSUME NEW h \in Seq(AnyMessage), NEW n \in Nat, Below(h, n), NEW m \in AnyMessage,
         NEW k \in Nat, n <= k, \A x \in {p.id : p \in m.parts} : x <= k
  PROVE  Below(Append(h, m), k)
<1>1. PICK q : q = Append(h, m)
  OBVIOUS
<1>2. /\ q \in Seq(AnyMessage) /\ Len(q) = Len(h) + 1 /\ Len(h) \in Nat
      /\ q[Len(h) + 1] = m /\ \A i \in 1..Len(h) : q[i] = h[i]
  BY <1>1, AppendProperties
<1>3. ASSUME NEW i \in 1..Len(q), NEW p \in q[i].parts PROVE p.id <= k
  <2>1. CASE i = Len(h) + 1
    BY <1>2, <2>1
  <2>2. CASE i # Len(h) + 1
    <3>1. i \in 1..Len(h) /\ q[i] = h[i] /\ h[i] \in AnyMessage
      BY <1>2, <2>2
    <3>2. p.id <= n /\ p.id \in Nat
      BY <3>1 DEF Below, AnyMessage, AnyPart
    <3>3. QED
      BY <3>2
  <2>3. QED
    BY <2>1, <2>2
<1>4. Below(q, k)
  BY <1>3 DEF Below
<1>5. QED
  BY <1>1, <1>4

LEMMA BelowMore ==
  ASSUME NEW h \in Seq(AnyMessage), NEW n \in Nat, Below(h, n), NEW k \in Nat, n <= k
  PROVE  Below(h, k)
<1>1. ASSUME NEW i \in 1..Len(h), NEW p \in h[i].parts PROVE p.id <= k
  <2>1. h[i] \in AnyMessage
    OBVIOUS
  <2>2. p.id <= n /\ p.id \in Nat
    BY <2>1 DEF Below, AnyMessage, AnyPart
  <2>3. QED
    BY <2>2
<1>2. QED
  BY <1>1 DEF Below

LEMMA BelowConcat ==
  ASSUME NEW g \in Seq(AnyMessage), NEW h \in Seq(AnyMessage), NEW n \in Nat,
         Below(g, n), Below(h, n)
  PROVE  Below(g \o h, n)
<1>1. PICK q : q = g \o h
  OBVIOUS
<1>2. /\ q \in Seq(AnyMessage) /\ Len(q) = Len(g) + Len(h)
      /\ \A i \in 1..(Len(g) + Len(h)) : q[i] = IF i <= Len(g) THEN g[i] ELSE h[i - Len(g)]
  BY <1>1, ConcatProperties
<1>3. ASSUME NEW i \in 1..Len(q) PROVE \A x \in {p.id : p \in q[i].parts} : x <= n
  <2>0. Len(g) \in Nat /\ Len(h) \in Nat
    OBVIOUS
  <2>1. CASE i <= Len(g)
    BY <1>2, <2>0, <2>1 DEF Below
  <2>2. CASE ~(i <= Len(g))
    <3>1. i - Len(g) \in 1..Len(h) /\ q[i] = h[i - Len(g)]
      BY <1>2, <2>0, <2>2
    <3>2. QED
      BY <3>1 DEF Below
  <2>3. QED
    BY <2>1, <2>2
<1>4. QED
  BY <1>1, <1>3 DEF Below

LEMMA BelowCoalesced ==
  ASSUME NEW h \in Seq(AnyMessage), NEW n \in Nat, Below(h, n)
  PROVE  Below(Coalesce(h), n)
<1>1. PICK c \in Seq(AnyMessage) : c = Coalesce(h)
  BY CoalesceType
<1>2. PICK g : Groups(g, h, c)
  BY <1>1, CoalesceGroups
<1>3. ASSUME NEW k \in 1..Len(c), NEW p \in c[k].parts PROVE p.id <= n
  <2>1. PICK i \in 1..Len(h) : p \in h[i].parts
    BY <1>2 DEF Groups
  <2>2. QED
    BY <2>1 DEF Below
<1>4. QED
  BY <1>1, <1>3 DEF Below

\* What the model and the tools add in a leg, after its request, from part k on.
Tails(k) == Answers(k) \cup Pauses(k) \cup Crashes(k)

LEMMA TailIs ==
  ASSUME NEW k \in Nat \ {0}, NEW tail \in Tails(k)
  PROVE  \E call, return, text, last \in AnyMessage :
           /\ Carries(text, "model", {k}, {}, {}) /\ Carries(call, "model", {k}, {k}, {})
           /\ Carries(return, "user", {}, {}, {k}) /\ Carries(last, "model", {k + 1}, {}, {})
           /\ return = Answer(call)
           /\ tail \in {<<>>, <<text>>, <<call>>, <<call, return>>, <<call, return, last>>}
<1>1. k \in Nat \ {0} /\ k + 1 \in Nat \ {0}
  OBVIOUS
<1>2. PICK call : call = Response("call", k)
  OBVIOUS
<1>3. PICK return : return = Request("return", k)
  OBVIOUS
<1>4. PICK text : text = Response("text", k)
  OBVIOUS
<1>5. PICK last : last = Response("text", k + 1)
  OBVIOUS
<1>6. Carries(call, "model", {k}, {k}, {}) /\ Carries(text, "model", {k}, {}, {})
  BY <1>1, <1>2, <1>4, ResponseCarries
<1>7. Carries(last, "model", {k + 1}, {}, {})
  BY <1>1, <1>5, ResponseCarries
<1>8. Carries(return, "user", {}, {}, {k})
  BY <1>1, <1>3, RequestCarries
<1>9. return = Answer(call)
  <2>1. {NewPart("return", c) : c \in {k}} = {NewPart("return", k)}
    OBVIOUS
  <2>2. CallIds(call) = {k}
    BY <1>6 DEF Carries
  <2>3. QED
    BY <1>3, <2>1, <2>2 DEF Answer, Request
<1>10. tail \in {<<>>, <<text>>, <<call>>, <<call, return>>, <<call, return, last>>}
  BY <1>2, <1>3, <1>4, <1>5 DEF Tails, Answers, Pauses, Crashes
<1>11. call \in AnyMessage /\ return \in AnyMessage /\ text \in AnyMessage /\ last \in AnyMessage
  BY <1>6, <1>7, <1>8 DEF Carries
<1>12. QED
  BY <1>6, <1>7, <1>8, <1>9, <1>10, <1>11

LEMMA Behind ==
  ASSUME NEW h \in Seq(AnyMessage), NEW a \in AnyMessage, NEW b \in AnyMessage,
         NEW c \in AnyMessage
  PROVE  /\ h \o <<>> = h /\ h \o <<a>> = Append(h, a)
         /\ h \o <<a, b>> = Append(Append(h, a), b)
         /\ h \o <<a, b, c>> = Append(Append(Append(h, a), b), c)
OBVIOUS

LEMMA FitsTail ==
  ASSUME NEW r \in Seq(AnyMessage), NEW h \in Seq(AnyMessage), NEW cursor \in Nat,
         Fits(r, h, cursor), NEW n \in Nat, Below(h, n), Below(r, n),
         NEW k \in Nat, n < k, NEW tail \in Tails(k)
  PROVE  /\ tail \in Seq(AnyMessage)
         /\ Fits(r, h \o tail, cursor) /\ Below(h \o tail, k + 1)
<1>1. PICK call, return, text, last \in AnyMessage :
        /\ Carries(text, "model", {k}, {}, {}) /\ Carries(call, "model", {k}, {k}, {})
        /\ Carries(return, "user", {}, {}, {k}) /\ Carries(last, "model", {k + 1}, {}, {})
        /\ return = Answer(call)
        /\ tail \in {<<>>, <<text>>, <<call>>, <<call, return>>, <<call, return, last>>}
  <2>1. k \in Nat \ {0}
    OBVIOUS
  <2>2. QED
    BY <2>1, TailIs
<1>2. tail \in Seq(AnyMessage)
  <2>1. /\ <<>> \in Seq(AnyMessage) /\ <<text>> \in Seq(AnyMessage) /\ <<call>> \in Seq(AnyMessage)
        /\ <<call, return>> \in Seq(AnyMessage) /\ <<call, return, last>> \in Seq(AnyMessage)
    OBVIOUS
  <2>2. QED
    BY <1>1, <2>1, Zenon
<1>3. n <= k + 1 /\ k <= k + 1 /\ k + 1 \in Nat /\ k < k + 1
  OBVIOUS
<1>4. CASE tail = <<>>
  <2>1. h \o <<>> = h
    OBVIOUS
  <2>2. Below(h, k + 1)
    BY <1>3, BelowMore
  <2>3. QED
    BY <1>2, <1>4, <2>1, <2>2
<1>5. CASE tail = <<text>>
  <2>1. Fits(r, Append(h, text), cursor) /\ Below(Append(h, text), k)
    BY <1>1, FitsNew
  <2>2. Append(h, text) \in Seq(AnyMessage)
    BY <1>1, AppendProperties
  <2>3. Below(Append(h, text), k + 1)
    BY <1>3, <2>1, <2>2, BelowMore
  <2>4. h \o <<text>> = Append(h, text)
    BY <1>1, Behind
  <2>5. QED
    BY <1>2, <1>5, <2>1, <2>3, <2>4
<1>6. PICK h1 : h1 = Append(h, call)
  OBVIOUS
<1>7. h1 \in Seq(AnyMessage) /\ h1 # <<>> /\ Fits(r, h1, cursor) /\ Below(h1, k)
  <2>1. Fits(r, h1, cursor) /\ Below(h1, k)
    BY <1>1, <1>6, FitsNew
  <2>2. QED
    BY <1>6, <2>1, AppendBack
<1>8. CASE tail = <<call>>
  <2>1. Below(h1, k + 1)
    BY <1>3, <1>7, BelowMore
  <2>2. h \o <<call>> = h1
    BY <1>1, <1>6, Behind
  <2>3. QED
    BY <1>2, <1>7, <1>8, <2>1, <2>2
<1>9. PICK h2 : h2 = Append(h1, return)
  OBVIOUS
<1>10. h2 \in Seq(AnyMessage)
  BY <1>1, <1>7, <1>9, AppendProperties
<1>11. Fits(r, h2, cursor) /\ Below(h2, k)
  <2>1. CallIds(call) = {k} /\ ReturnIds(call) = {}
    BY <1>1 DEF Carries
  <2>2. ASSUME NEW q \in Seq(AnyMessage), Below(q, n), NEW i \in 1..Len(q)
        PROVE  ReturnIds(q[i]) \cap {k} = {}
    <3>1. q[i] \in AnyMessage
      OBVIOUS
    <3>2. \A x \in ReturnIds(q[i]) : x <= n /\ x \in Nat
      BY <2>2, <3>1, CallIdsType DEF Below
    <3>3. QED
      BY <3>2
  <2>3. \A i \in 1..Len(r) : ReturnIds(r[i]) \cap CallIds(call) = {}
    BY <2>1, <2>2
  <2>4. ASSUME NEW i \in 1..Len(h1) PROVE ReturnIds(h1[i]) \cap CallIds(call) = {}
    <3>1. /\ Len(h1) = Len(h) + 1 /\ Len(h) \in Nat /\ h1[Len(h) + 1] = call
          /\ \A j \in 1..Len(h) : h1[j] = h[j]
      BY <1>6, AppendProperties
    <3>2. CASE i = Len(h) + 1
      BY <2>1, <3>1, <3>2
    <3>3. CASE i # Len(h) + 1
      <4>1. i \in 1..Len(h) /\ h1[i] = h[i]
        BY <3>1, <3>3
      <4>2. QED
        BY <2>1, <2>2, <4>1
    <3>4. QED
      BY <3>2, <3>3
  <2>5. Fits(r, h2, cursor)
    BY <1>1, <1>7, <1>9, <2>3, <2>4, FitsAnswered
  <2>6. \A x \in {p.id : p \in return.parts} : x <= k
    <3>1. {p.id : p \in return.parts} = {k}
      BY <1>1 DEF Carries
    <3>2. \A x \in {k} : x <= k
      OBVIOUS
    <3>3. QED
      BY <3>1, <3>2, Zenon
  <2>7. Below(h2, k)
    BY <1>1, <1>7, <1>9, <2>6, BelowAppend
  <2>8. QED
    BY <2>5, <2>7
<1>12. CASE tail = <<call, return>>
  <2>1. h \o tail = h2
    BY <1>1, <1>6, <1>9, <1>12, Behind
  <2>2. QED
    BY <1>2, <1>3, <1>10, <1>11, <2>1, BelowMore
<1>13. CASE tail = <<call, return, last>>
  <2>1. Below(r, k)
    BY BelowMore
  <2>2. Fits(r, Append(h2, last), cursor) /\ Below(Append(h2, last), k + 1)
    BY <1>1, <1>3, <1>10, <1>11, <2>1, FitsNew
  <2>3. h \o tail = Append(h2, last)
    BY <1>1, <1>6, <1>9, <1>13, Behind
  <2>4. QED
    BY <1>2, <2>2, <2>3
<1>14. QED
  BY <1>1, <1>4, <1>5, <1>8, <1>12, <1>13

-----------------------------------------------------------------------------
(* Maxima, cuts and blanked bodies *)

LEMMA MaxIs ==
  ASSUME NEW S \in SUBSET Nat, S # {}, NEW b \in Nat, \A x \in S : x <= b
  PROVE  Max(S) \in S /\ \A x \in S : x <= Max(S)
<1>. DEFINE T == {n \in Nat : \A R \in SUBSET Nat :
                    R # {} /\ (\A x \in R : x <= n) => \E m \in R : \A x \in R : m >= x}
<1>1. 0 \in T
  <2>1. ASSUME NEW R \in SUBSET Nat, R # {}, \A x \in R : x <= 0
        PROVE  \E m \in R : \A x \in R : m >= x
    <3>1. \A x \in R : x = 0
      BY <2>1
    <3>2. QED
      BY <2>1, <3>1
  <2>2. QED
    BY <2>1
<1>2. ASSUME NEW n \in Nat, n \in T PROVE n + 1 \in T
  <2>1. ASSUME NEW R \in SUBSET Nat, R # {}, \A x \in R : x <= n + 1
        PROVE  \E m \in R : \A x \in R : m >= x
    <3>1. CASE n + 1 \in R
      BY <2>1, <3>1
    <3>2. CASE n + 1 \notin R
      <4>1. \A x \in R : x <= n
        BY <2>1, <3>2
      <4>2. QED
        BY <1>2, <2>1, <4>1
    <3>3. QED
      BY <3>1, <3>2
  <2>2. QED
    BY <2>1
<1>3. Nat \subseteq T
  <2>. HIDE DEF T
  <2>1. QED
    BY <1>1, <1>2, NatInSet
<1>4. PICK m \in S : \A x \in S : m >= x
  BY <1>3
<1>5. Max(S) \in S /\ \A x \in S : Max(S) >= x
  BY <1>4 DEF Max
<1>6. QED
  BY <1>5

LEMMA MinOfTwo ==
  ASSUME NEW a \in Nat, NEW b \in Nat
  PROVE  Min({a, b}) \in {a, b} /\ Min({a, b}) <= a /\ Min({a, b}) <= b
<1>1. \E x \in {a, b} : \A y \in {a, b} : x <= y
  OBVIOUS
<1>2. Min({a, b}) \in {a, b} /\ \A y \in {a, b} : Min({a, b}) <= y
  BY <1>1 DEF Min
<1>3. QED
  BY <1>2

\* A cut keeps everything, leaves only the summary, or falls on a boundary.
LEMMA SplitTailIs ==
  ASSUME NEW h \in Seq(AnyMessage), NEW cut \in 0..Len(h)
  PROVE  /\ SplitTail(h, cut) \in 0..Len(h)
         /\ \/ SplitTail(h, cut) \in {0, Len(h)}
            \/ IsBoundary(h[SplitTail(h, cut) + 1])
<1>1. CASE cut = Len(h)
  BY <1>1 DEF SplitTail
<1>2. CASE cut # Len(h)
  <2>. DEFINE S == {0} \cup {i \in 1..cut : IsBoundary(h[i + 1])}
  <2>1. S \in SUBSET Nat /\ S # {} /\ cut \in Nat /\ \A x \in S : x <= cut
    OBVIOUS
  <2>2. \A x \in S : x \in 0..cut /\ (x = 0 \/ IsBoundary(h[x + 1]))
    OBVIOUS
  <2>3. SplitTail(h, cut) = Max(S)
    BY <1>2 DEF SplitTail
  <2>. HIDE DEF S
  <2>4. Max(S) \in S
    BY <2>1, MaxIs
  <2>5. QED
    BY <2>2, <2>3, <2>4
<1>3. QED
  BY <1>1, <1>2

\* n carries what m does; only bodies may differ.
Alike(m, n) ==
  /\ n.from = m.from /\ Ids(n) = Ids(m) /\ CallIds(n) = CallIds(m) /\ ReturnIds(n) = ReturnIds(m)
  /\ {p.id : p \in n.parts} = {p.id : p \in m.parts}
  /\ \A x \in Ids(m) : NewPart("summary", x) \in m.parts => NewPart("summary", x) \in n.parts

LEMMA BlankedPart ==
  ASSUME NEW p \in AnyPart
  PROVE  LET b == [p EXCEPT !.full = @ /\ p.kind # "return"] IN
         /\ b \in AnyPart /\ b.kind = p.kind /\ b.id = p.id
         /\ p.kind # "return" => b = p
         /\ [b EXCEPT !.full = TRUE] = [p EXCEPT !.full = TRUE]
<1>1. PICK v : v = (p.full /\ p.kind # "return")
  OBVIOUS
<1>2. v \in BOOLEAN /\ (p.kind # "return" => v = p.full)
  BY <1>1 DEF AnyPart
<1>3. PICK b : b = [p EXCEPT !.full = v]
  OBVIOUS
<1>4. b \in AnyPart /\ b.kind = p.kind /\ b.id = p.id /\ (v = p.full => b = p)
  BY <1>2, <1>3 DEF AnyPart
<1>5. [b EXCEPT !.full = TRUE] = [p EXCEPT !.full = TRUE]
  BY <1>3 DEF AnyPart
<1>6. [p EXCEPT !.full = @ /\ p.kind # "return"] = b
  BY <1>1, <1>3
<1>7. QED
  BY <1>2, <1>4, <1>5, <1>6

LEMMA BlankedMessage ==
  ASSUME NEW m \in AnyMessage
  PROVE  Blank(m) \in AnyMessage /\ Alike(m, Blank(m)) /\ Filled(Blank(m)) = Filled(m)
<1>. DEFINE B(p) == [p EXCEPT !.full = @ /\ p.kind # "return"]
            F(p) == [p EXCEPT !.full = TRUE]
<1>1. m.parts \in SUBSET AnyPart /\ m.from \in {"user", "model"}
  BY DEF AnyMessage
<1>2. \A p \in m.parts : /\ B(p) \in AnyPart /\ B(p).kind = p.kind /\ B(p).id = p.id
                         /\ p.kind # "return" => B(p) = p
                         /\ F(B(p)) = F(p)
  BY <1>1, BlankedPart
<1>3. PICK n : n = Blank(m)
  OBVIOUS
<1>4. n = [m EXCEPT !.parts = {B(p) : p \in m.parts}]
  BY <1>3 DEF Blank
<1>5. n.from = m.from /\ n.parts = {B(p) : p \in m.parts}
  BY <1>4 DEF AnyMessage
<1>6. n \in AnyMessage
  <2>1. {B(p) : p \in m.parts} \in SUBSET AnyPart
    BY <1>2
  <2>. HIDE DEF B
  <2>2. QED
    BY <1>4, <2>1 DEF AnyMessage
<1>7. Filled(n) = Filled(m)
  <2>1. FilledParts(n.parts) = FilledParts(m.parts)
    <3>1. FilledParts(n.parts) = {F(q) : q \in {B(p) : p \in m.parts}}
      BY <1>5 DEF FilledParts
    <3>2. FilledParts(m.parts) = {F(p) : p \in m.parts}
      BY DEF FilledParts
    <3>. HIDE DEF F, B
    <3>3. {F(q) : q \in {B(p) : p \in m.parts}} = {F(p) : p \in m.parts}
      BY <1>2
    <3>4. QED
      BY <3>1, <3>2, <3>3
  <2>2. QED
    BY <1>5, <1>6, <2>1, FilledMessage
<1>. HIDE DEF B, F
<1>8. \A q \in n.parts : \E p \in m.parts : q = B(p) /\ q.kind = p.kind /\ q.id = p.id
  BY <1>2, <1>5
<1>9. \A p \in m.parts : \E q \in n.parts : q.kind = p.kind /\ q.id = p.id
  BY <1>2, <1>5
<1>10. /\ Ids(n) = Ids(m) /\ CallIds(n) = CallIds(m) /\ ReturnIds(n) = ReturnIds(m)
       /\ {p.id : p \in n.parts} = {p.id : p \in m.parts}
  BY <1>8, <1>9 DEF Ids, CallIds, ReturnIds, Returns
<1>11. ASSUME NEW x \in Ids(m), NewPart("summary", x) \in m.parts
       PROVE  NewPart("summary", x) \in n.parts
  <2>1. PICK s : s = NewPart("summary", x)
    OBVIOUS
  <2>2. s \in m.parts /\ s.kind # "return"
    BY <1>11, <2>1 DEF NewPart
  <2>3. B(s) = s
    BY <1>2, <2>2
  <2>4. QED
    BY <1>5, <2>1, <2>2, <2>3
<1>12. Alike(m, n)
  BY <1>5, <1>10, <1>11 DEF Alike
<1>13. QED
  BY <1>3, <1>6, <1>7, <1>12

LEMMA MicrocompactedIs ==
  ASSUME NEW h \in Seq(AnyMessage), NEW split \in 0..Len(h)
  PROVE  LET k == Microcompacted(h, split) IN
         /\ k \in Seq(AnyMessage) /\ Len(k) = Len(h)
         /\ \A i \in 1..Len(h) : Alike(h[i], k[i]) /\ Filled(k[i]) = Filled(h[i])
<1>. DEFINE k == [i \in 1..Len(h) |-> IF i <= split THEN Blank(h[i]) ELSE h[i]]
<1>1. \A i \in 1..Len(h) : k[i] \in AnyMessage /\ Alike(h[i], k[i]) /\ Filled(k[i]) = Filled(h[i])
  <2>1. ASSUME NEW i \in 1..Len(h)
        PROVE  k[i] \in AnyMessage /\ Alike(h[i], k[i]) /\ Filled(k[i]) = Filled(h[i])
    <3>1. h[i] \in AnyMessage /\ Alike(h[i], h[i])
      BY DEF Alike
    <3>2. k[i] = h[i] \/ k[i] = Blank(h[i])
      OBVIOUS
    <3>. HIDE DEF k
    <3>3. QED
      BY <3>1, <3>2, BlankedMessage
  <2>. HIDE DEF k
  <2>2. QED
    BY <2>1
<1>2. k \in Seq(AnyMessage) /\ Len(k) = Len(h)
  <2>1. \A i \in 1..Len(h) : k[i] \in AnyMessage
    BY <1>1
  <2>2. QED
    BY <2>1
<1>3. Microcompacted(h, split) = k
  BY DEF Microcompacted
<1>. HIDE DEF k
<1>4. QED
  BY <1>1, <1>2, <1>3

\* Other bodies change nothing for the order.
LEMMA FitsAlike ==
  ASSUME NEW r \in Seq(AnyMessage), NEW h \in Seq(AnyMessage), NEW k \in Seq(AnyMessage),
         Len(k) = Len(h), \A i \in 1..Len(h) : Alike(h[i], k[i]),
         NEW cursor \in Nat, Fits(r, h, cursor)
  PROVE  Fits(r, k, cursor)
<1>1. ASSUME NEW i \in 1..Len(k) PROVE InRole(k[i])
  BY DEF Fits, Chain, InRole, Alike
<1>2. ASSUME NEW i \in 1..Len(k), NEW j \in 1..Len(k), i < j PROVE Before(k[i], k[j])
  <2>1. Before(h[i], h[j]) /\ Alike(h[i], k[i]) /\ Alike(h[j], k[j])
    BY <1>2 DEF Fits, Chain
  <2>2. QED
    BY <2>1 DEF Before, Alike
<1>3. ASSUME NEW j \in 1..Len(k), j > cursor, NEW i \in 1..Len(r) PROVE Before(r[i], k[j])
  <2>1. Before(r[i], h[j]) /\ Alike(h[j], k[j])
    BY <1>3 DEF Fits, After
  <2>2. QED
    BY <2>1 DEF Before, Alike
<1>4. ASSUME NEW j \in 1..Len(k), Open(k, j), NEW i \in 1..Len(r)
      PROVE  ReturnIds(r[i]) \cap CallIds(k[j]) = {}
  <2>1. Open(h, j)
    <3>1. ASSUME NEW a \in j..Len(h) PROVE h[a].from = "model"
      <4>1. a \in 1..Len(h) /\ a \in j..Len(k)
        OBVIOUS
      <4>2. QED
        BY <1>4, <4>1 DEF Open, Alike
    <3>2. QED
      BY <3>1 DEF Open
  <2>2. CallIds(k[j]) = CallIds(h[j])
    BY DEF Alike
  <2>3. QED
    BY <2>1, <2>2 DEF Fits
<1>5. Chain(k) /\ Chain(r)
  BY <1>1, <1>2 DEF Chain, Fits
<1>6. QED
  BY <1>3, <1>4, <1>5 DEF Fits, After

LEMMA BelowAlike ==
  ASSUME NEW h, NEW k, Len(k) = Len(h), \A i \in 1..Len(h) : Alike(h[i], k[i]),
         NEW n, Below(h, n)
  PROVE  Below(k, n)
<1>1. ASSUME NEW i \in 1..Len(k) PROVE \A x \in {p.id : p \in k[i].parts} : x <= n
  <2>1. {p.id : p \in k[i].parts} = {p.id : p \in h[i].parts}
    BY DEF Alike
  <2>2. \A x \in {p.id : p \in h[i].parts} : x <= n
    BY DEF Below
  <2>3. QED
    BY <2>1, <2>2, Zenon
<1>2. QED
  BY <1>1 DEF Below

\* A summary and the tail behind it.
CompactedTo(h, split, n) == <<Request("summary", n)>> \o SubSeq(h, split + 1, Len(h))

LEMMA CompactedIs ==
  ASSUME NEW h \in Seq(AnyMessage), NEW split \in 0..Len(h), NEW n \in Nat \ {0}
  PROVE  LET k == CompactedTo(h, split, n) IN
         /\ k \in Seq(AnyMessage) /\ Len(k) = Len(h) - split + 1
         /\ k[1] = Request("summary", n)
         /\ \A i \in 2..Len(k) : i - 1 + split \in 1..Len(h) /\ k[i] = h[i - 1 + split]
<1>1. PICK s : s = Request("summary", n)
  OBVIOUS
<1>2. s \in AnyMessage
  BY <1>1, RequestCarries DEF Carries
<1>3. PICK t : t = SubSeq(h, split + 1, Len(h))
  OBVIOUS
<1>4. /\ t \in Seq(AnyMessage) /\ Len(t) = Len(h) - split
      /\ \A i \in 1..(Len(h) - split) : t[i] = h[split + i]
  BY <1>3, RestOf
<1>5. PICK k : k = <<s>> \o t
  OBVIOUS
<1>6. <<s>> \in Seq(AnyMessage) /\ Len(<<s>>) = 1 /\ <<s>>[1] = s
  BY <1>2
<1>7. PICK one : one = <<s>>
  OBVIOUS
<1>8. /\ k \in Seq(AnyMessage) /\ Len(k) = 1 + Len(t)
      /\ \A i \in 1..(1 + Len(t)) : k[i] = IF i <= 1 THEN one[i] ELSE t[i - 1]
  <2>1. one \in Seq(AnyMessage) /\ Len(one) = 1 /\ k = one \o t
    BY <1>5, <1>6, <1>7
  <2>2. /\ k \in Seq(AnyMessage) /\ Len(k) = Len(one) + Len(t)
        /\ \A i \in 1..(Len(one) + Len(t)) : k[i] = IF i <= Len(one) THEN one[i] ELSE t[i - Len(one)]
    BY <1>4, <2>1, ConcatProperties
  <2>3. QED
    BY <2>1, <2>2
<1>9. Len(h) \in Nat /\ split \in Nat /\ split <= Len(h)
  OBVIOUS
<1>10. k[1] = s
  BY <1>4, <1>6, <1>7, <1>8, <1>9
<1>11. ASSUME NEW i \in 2..Len(k) PROVE i - 1 + split \in 1..Len(h) /\ k[i] = h[i - 1 + split]
  <2>1. i - 1 \in 1..(Len(h) - split) /\ k[i] = t[i - 1]
    BY <1>4, <1>8, <1>9
  <2>2. t[i - 1] = h[split + (i - 1)]
    BY <1>4, <2>1, Zenon
  <2>3. split + (i - 1) = i - 1 + split /\ i - 1 + split \in 1..Len(h)
    BY <1>9, <2>1
  <2>4. QED
    BY <2>1, <2>2, <2>3
<1>12. Len(k) = Len(h) - split + 1
  BY <1>4, <1>8, <1>9
<1>13. CompactedTo(h, split, n) = k
  BY <1>1, <1>3, <1>5 DEF CompactedTo
<1>14. QED
  BY <1>1, <1>8, <1>10, <1>11, <1>12, <1>13

LEMMA FitsCompacted ==
  ASSUME NEW r \in Seq(AnyMessage), NEW h \in Seq(AnyMessage), NEW cursor \in Nat,
         Fits(r, h, cursor), NEW split \in 0..Len(h), NEW n \in Nat, Below(h, n), Below(r, n)
  PROVE  LET k == CompactedTo(h, split, n + 1) IN
         Fits(r, k, Len(k)) /\ Fits(k, k, Len(k)) /\ Below(k, n + 1)
<1>1. PICK k : k = CompactedTo(h, split, n + 1)
  OBVIOUS
<1>2. PICK s : s = Request("summary", n + 1)
  OBVIOUS
<1>3. n + 1 \in Nat \ {0}
  OBVIOUS
<1>4. Carries(s, "user", {n + 1}, {}, {}) /\ NewPart("summary", n + 1) \in s.parts
  <2>1. NewPart("summary", n + 1) \in s.parts
    BY <1>2 DEF Request
  <2>2. QED
    BY <1>2, <1>3, <2>1, RequestCarries
<1>5. /\ k \in Seq(AnyMessage) /\ Len(k) = Len(h) - split + 1 /\ k[1] = s
      /\ \A i \in 2..Len(k) : i - 1 + split \in 1..Len(h) /\ k[i] = h[i - 1 + split]
  <2>1. LET c == CompactedTo(h, split, n + 1) IN
        /\ c \in Seq(AnyMessage) /\ Len(c) = Len(h) - split + 1
        /\ c[1] = Request("summary", n + 1)
        /\ \A i \in 2..Len(c) : i - 1 + split \in 1..Len(h) /\ c[i] = h[i - 1 + split]
    BY <1>3, CompactedIs
  <2>2. QED
    BY <1>1, <1>2, <2>1, Zenon
<1>6. s.from = "user" /\ Ids(s) = {n + 1} /\ CallIds(s) = {} /\ ReturnIds(s) = {}
  BY <1>4 DEF Carries
<1>7. \A i \in 1..Len(k) : i = 1 \/ i \in 2..Len(k)
  OBVIOUS
<1>8. Chain(k)
  <2>1. ASSUME NEW i \in 1..Len(k) PROVE InRole(k[i])
    <3>1. CASE i = 1
      BY <1>5, <1>6, <3>1 DEF InRole
    <3>2. CASE i \in 2..Len(k)
      BY <1>5, <3>2 DEF Fits, Chain
    <3>3. QED
      BY <1>7, <3>1, <3>2
  <2>2. ASSUME NEW i \in 1..Len(k), NEW j \in 1..Len(k), i < j PROVE Before(k[i], k[j])
    <3>1. CASE i = 1
      BY <1>4, <1>5, <1>6, <3>1 DEF Before
    <3>2. CASE i \in 2..Len(k)
      <4>1. /\ i - 1 + split \in 1..Len(h) /\ k[i] = h[i - 1 + split]
            /\ j - 1 + split \in 1..Len(h) /\ k[j] = h[j - 1 + split]
        BY <1>5, <2>2, <3>2
      <4>2. i - 1 + split < j - 1 + split
        BY <2>2
      <4>3. QED
        BY <4>1, <4>2 DEF Fits, Chain
    <3>3. QED
      BY <1>7, <3>1, <3>2
  <2>3. QED
    BY <2>1, <2>2 DEF Chain
<1>9. ASSUME NEW j \in 1..Len(k), Open(k, j), NEW i \in 1..Len(r)
      PROVE  ReturnIds(r[i]) \cap CallIds(k[j]) = {}
  <2>1. CASE j = 1
    BY <1>5, <1>6, <2>1
  <2>2. CASE j \in 2..Len(k)
    <3>1. j - 1 + split \in 1..Len(h) /\ k[j] = h[j - 1 + split]
      BY <1>5, <2>2
    <3>2. Open(h, j - 1 + split)
      <4>1. ASSUME NEW a \in (j - 1 + split)..Len(h) PROVE h[a].from = "model"
        <5>1. PICK b : b = a - split + 1
          OBVIOUS
        <5>2. b \in j..Len(k) /\ b \in 2..Len(k) /\ b - 1 + split = a
          BY <1>5, <2>2, <3>1, <5>1
        <5>3. QED
          BY <1>5, <1>9, <5>2 DEF Open
      <4>2. QED
        BY <4>1 DEF Open
    <3>3. QED
      BY <3>1, <3>2 DEF Fits
  <2>3. QED
    BY <1>7, <2>1, <2>2
<1>10. Fits(r, k, Len(k))
  <2>1. \A j \in 1..Len(k) : ~(j > Len(k))
    OBVIOUS
  <2>2. QED
    BY <1>8, <1>9, <2>1 DEF Fits
<1>11. Fits(k, k, Len(k))
  BY <1>5, <1>8, FitsItself
<1>12. Below(k, n + 1)
  <2>1. ASSUME NEW i \in 1..Len(k) PROVE \A x \in {p.id : p \in k[i].parts} : x <= n + 1
    <3>1. CASE i = 1
      <4>1. {p.id : p \in k[i].parts} = {n + 1}
        BY <1>4, <1>5, <3>1 DEF Carries
      <4>2. \A x \in {n + 1} : x <= n + 1
        OBVIOUS
      <4>3. QED
        BY <4>1, <4>2, Zenon
    <3>2. CASE i \in 2..Len(k)
      <4>1. i - 1 + split \in 1..Len(h) /\ k[i] = h[i - 1 + split]
        BY <1>5, <3>2
      <4>2. Below(h, n + 1)
        BY <1>3, BelowMore
      <4>3. QED
        BY <4>1, <4>2 DEF Below
    <3>3. QED
      BY <1>7, <3>1, <3>2
  <2>2. QED
    BY <2>1 DEF Below
<1>13. QED
  BY <1>1, <1>10, <1>11, <1>12

\* What a log replays to ends with what it replays to without what it was resumed with.
LEMMA LoadSuffix ==
  ASSUME NEW start \in Seq(AnyMessage), NEW lines \in Seq(Line)
  PROVE  \/ Load(start, lines) = Load(<<>>, lines)
         \/ Load(start, lines) = start \o Load(<<>>, lines)
<1>. DEFINE T == {s \in Seq(Line) : \/ Load(start, s) = Load(<<>>, s)
                                    \/ Load(start, s) = start \o Load(<<>>, s)}
<1>0. <<>> \in Seq(AnyMessage)
  OBVIOUS
<1>1. <<>> \in T
  <2>1. Load(start, <<>>) = start /\ Load(<<>>, <<>>) = <<>> /\ start \o <<>> = start
    BY <1>0, LoadNothing, ConcatEmptySeq
  <2>2. QED
    BY <2>1
<1>2. ASSUME NEW s \in Seq(Line), NEW e \in Line, s \in T
      PROVE  Append(s, e) \in T
  <2>1. Load(start, Append(s, e)) = Read(Load(start, s), e)
    BY LoadOneMore
  <2>2. Load(<<>>, Append(s, e)) = Read(Load(<<>>, s), e)
    BY <1>0, LoadOneMore
  <2>3. PICK l \in Seq(AnyMessage) : l = Load(<<>>, s)
    BY <1>0, LoadType
  <2>4. PICK b \in Seq(AnyMessage) : b = e.body
    BY DEF Line
  <2>5. (start \o l) \o b = start \o (l \o b)
    BY ConcatAssociative
  <2>6. Read(start \o l, e) = Read(l, e) \/ Read(start \o l, e) = start \o Read(l, e)
    BY <2>4, <2>5 DEF Read
  <2>7. Append(s, e) \in Seq(Line)
    OBVIOUS
  <2>8. Load(start, s) = l \/ Load(start, s) = start \o l
    BY <1>2, <2>3
  <2>9. QED
    BY <2>1, <2>2, <2>3, <2>6, <2>7, <2>8
<1>3. Seq(Line) \subseteq T
  <2>. HIDE DEF T
  <2>1. QED
    BY <1>1, <1>2, SeqInSet
<1>4. QED
  BY <1>3

LEMMA ChainSuffix ==
  ASSUME NEW g \in Seq(AnyMessage), NEW h \in Seq(AnyMessage), NEW n, Chain(g \o h), Below(g \o h, n)
  PROVE  Chain(h) /\ Below(h, n)
<1>1. PICK q : q = g \o h
  OBVIOUS
<1>2. /\ q \in Seq(AnyMessage) /\ Len(q) = Len(g) + Len(h)
      /\ \A i \in 1..(Len(g) + Len(h)) : q[i] = IF i <= Len(g) THEN g[i] ELSE h[i - Len(g)]
  BY <1>1, ConcatProperties
<1>3. Len(g) \in Nat /\ Len(h) \in Nat
  OBVIOUS
<1>4. ASSUME NEW i \in 1..Len(h) PROVE i + Len(g) \in 1..Len(q) /\ q[i + Len(g)] = h[i]
  <2>1. i + Len(g) \in 1..(Len(g) + Len(h)) /\ ~(i + Len(g) <= Len(g)) /\ (i + Len(g)) - Len(g) = i
    BY <1>3
  <2>2. QED
    BY <1>2, <2>1
<1>5. Chain(q) /\ Below(q, n)
  BY <1>1
<1>6. ASSUME NEW i \in 1..Len(h), NEW j \in 1..Len(h), i < j PROVE Before(h[i], h[j])
  <2>1. i + Len(g) < j + Len(g)
    BY <1>3, <1>6
  <2>2. QED
    BY <1>4, <1>5, <2>1 DEF Chain
<1>7. QED
  BY <1>4, <1>5, <1>6 DEF Chain, Below

-----------------------------------------------------------------------------
(* The invariants of types and of order *)

\* What may have gone wrong with the log.
Failure == LineType \cup {"glued"}

TypeInv ==
  /\ history \in Seq(AnyMessage) /\ seed \in Seq(AnyMessage) /\ disk \in Seq(Line)
  /\ at \in {"idle", "paused", "stopping", "stopped"}
  /\ persisted \in Nat /\ parts \in Nat /\ parts <= MaxParts
  /\ resumes \in 0..MaxResumes /\ failed \in SUBSET Failure
  /\ drifted \in BOOLEAN /\ forgot \in BOOLEAN /\ steered \in BOOLEAN

OrderInv ==
  /\ Fits(Replay, history, persisted)
  /\ Below(history, parts) /\ Below(Replay, parts)
  /\ at = "paused" => history # <<>> /\ Last(history).from = "model"

LEMMA ReplayType ==
  ASSUME TypeInv
  PROVE  Replay \in Seq(AnyMessage)
BY LoadType DEF TypeInv, Replay

\* A line that is written is read after the others.
LEMMA WroteReads ==
  ASSUME TypeInv, NEW type \in LineType, NEW body \in Seq(AnyMessage),
         Wrote(type, body), seed' = seed
  PROVE  /\ disk' \in Seq(Line) /\ failed' = failed
         /\ disk' = Append(disk, [type |-> type, body |-> body])
         /\ Replay' = IF type = "messages" THEN Replay \o body ELSE body
<1>1. PICK line : line = [type |-> type, body |-> body]
  OBVIOUS
<1>2. line \in Line /\ line.type = type /\ line.body = body
  BY <1>1 DEF Line
<1>3. disk' = Append(disk, line) /\ failed' = failed
  BY <1>1 DEF Wrote
<1>4. seed \in Seq(AnyMessage) /\ disk \in Seq(Line)
  BY DEF TypeInv
<1>5. Load(seed, Append(disk, line)) = Read(Load(seed, disk), line)
  BY <1>2, <1>4, LoadOneMore
<1>6. Replay' = Read(Replay, line)
  BY <1>3, <1>5 DEF Replay
<1>7. disk' \in Seq(Line)
  BY <1>2, <1>3, <1>4
<1>8. QED
  BY <1>1, <1>2, <1>3, <1>6, <1>7 DEF Read

LEMMA NothingWritten ==
  ASSUME UNCHANGED <<seed, disk>>
  PROVE  Replay' = Replay
BY DEF Replay

\* Persist: what is behind the cursor is written, or it is not and the cursor stays.
LEMMA PersistIs ==
  ASSUME TypeInv, NEW h \in Seq(AnyMessage), NEW cursor \in Nat,
         Persist(h, cursor), seed' = seed
  PROVE  /\ disk' \in Seq(Line) /\ failed' \in SUBSET Failure /\ persisted' \in Nat
         /\ \/ /\ Replay' = Replay /\ persisted' = cursor /\ disk' = disk
               /\ \/ cursor >= Len(h) /\ failed' = failed
                  \/ failed' = failed \cup {"messages"}
            \/ /\ Replay' = Replay /\ disk' = disk /\ failed' = failed \cup {"glued"}
               /\ cursor < Len(h) /\ persisted' = Len(h)
            \/ /\ cursor < Len(h) /\ persisted' = Len(h) /\ failed' = failed
               /\ Replay' = Replay \o SubSeq(h, cursor + 1, Len(h))
               /\ disk' = Append(disk, [type |-> "messages", body |-> SubSeq(h, cursor + 1, Len(h))])
<1>1. PICK new : new = SubSeq(h, cursor + 1, Len(h))
  OBVIOUS
<1>2. Len(h) \in Nat
  OBVIOUS
<1>3. CASE cursor >= Len(h)
  <2>1. new = <<>>
    <3>1. cursor + 1 \in Int /\ Len(h) \in Int /\ Len(h) < cursor + 1
      BY <1>2, <1>3
    <3>2. QED
      BY <1>1, <3>1, SubSeqEmpty
  <2>2. persisted' = cursor /\ UNCHANGED <<disk, failed>>
    BY <1>1, <2>1 DEF Persist
  <2>3. QED
    BY <1>3, <2>2, NothingWritten DEF TypeInv
<1>4. CASE cursor < Len(h)
  <2>1. cursor \in 0..Len(h)
    BY <1>2, <1>4
  <2>2. new \in Seq(AnyMessage) /\ Len(new) = Len(h) - cursor
    BY <1>1, <2>1, RestOf
  <2>3. new # <<>>
    BY <1>2, <1>4, <2>2
  <2>4. \/ persisted' = Len(h) /\ (Wrote("messages", new) \/ WroteBehindHalf)
        \/ persisted' = cursor /\ WriteFailed("messages")
    BY <1>1, <2>3 DEF Persist
  <2>5. CASE persisted' = Len(h) /\ Wrote("messages", new)
    <3>1. "messages" \in LineType
      BY DEF LineType
    <3>2. /\ disk' \in Seq(Line) /\ failed' = failed
          /\ disk' = Append(disk, [type |-> "messages", body |-> new])
          /\ Replay' = Replay \o new
      BY <2>2, <2>5, <3>1, WroteReads
    <3>3. QED
      BY <1>1, <1>2, <1>4, <2>5, <3>2 DEF TypeInv
  <2>6. CASE persisted' = cursor /\ WriteFailed("messages")
    <3>1. failed' = failed \cup {"messages"} /\ disk' = disk
      BY <2>6 DEF Missed, WroteBehindHalf, WriteFailed
    <3>2. failed' \in SUBSET Failure
      BY <3>1 DEF TypeInv, LineType, Failure
    <3>3. QED
      BY <2>6, <3>1, <3>2, NothingWritten DEF TypeInv
  <2>7. CASE persisted' = Len(h) /\ WroteBehindHalf
    <3>1. failed' = failed \cup {"glued"} /\ disk' = disk
      BY <2>7 DEF WroteBehindHalf
    <3>2. failed' \in SUBSET Failure
      BY <3>1 DEF TypeInv, LineType, Failure
    <3>3. QED
      BY <1>2, <1>4, <2>7, <3>1, <3>2, NothingWritten DEF TypeInv
  <2>8. QED
    BY <2>4, <2>5, <2>6, <2>7
<1>5. cursor >= Len(h) \/ cursor < Len(h)
  BY <1>2
<1>6. QED
  BY <1>3, <1>4, <1>5

\* A leg or an abort ends: the history it leaves fits, and is written or is not.
LEMMA PersistFits ==
  ASSUME TypeInv, NEW h \in Seq(AnyMessage), NEW cursor \in Nat, Fits(Replay, h, cursor),
         \/ Persist(h, cursor)
         \/ persisted' = cursor /\ UNCHANGED <<disk, failed>>,
         seed' = seed, NEW n \in Nat, Below(h, n), Below(Replay, n)
  PROVE  /\ disk' \in Seq(Line) /\ failed' \in SUBSET Failure /\ persisted' \in Nat
         /\ Fits(Replay', h, persisted') /\ Below(Replay', n)
<1>1. CASE persisted' = cursor /\ UNCHANGED <<disk, failed>>
  BY <1>1, NothingWritten DEF TypeInv
<1>2. CASE Persist(h, cursor)
  <2>1. /\ disk' \in Seq(Line) /\ failed' \in SUBSET Failure /\ persisted' \in Nat
        /\ \/ Replay' = Replay /\ persisted' = cursor
           \/ Replay' = Replay /\ cursor < Len(h) /\ persisted' = Len(h)
           \/ /\ cursor < Len(h) /\ persisted' = Len(h)
              /\ Replay' = Replay \o SubSeq(h, cursor + 1, Len(h))
    BY <1>2, PersistIs
  <2>2. CASE Replay' = Replay /\ persisted' = cursor
    BY <2>1, <2>2
  <2>3. CASE /\ cursor < Len(h) /\ persisted' = Len(h)
             /\ Replay' = Replay \o SubSeq(h, cursor + 1, Len(h))
    <3>1. Replay \in Seq(AnyMessage) /\ cursor \in 0..Len(h)
      BY <2>3, ReplayType
    <3>2. Fits(Replay \o SubSeq(h, cursor + 1, Len(h)), h, Len(h))
      BY <3>1, FitsWritten
    <3>3. PICK t : t = SubSeq(h, cursor + 1, Len(h))
      OBVIOUS
    <3>4. /\ t \in Seq(AnyMessage) /\ Len(t) = Len(h) - cursor
          /\ \A i \in 1..(Len(h) - cursor) : t[i] = h[cursor + i]
      BY <3>1, <3>3, RestOf
    <3>5. Below(t, n)
      <4>1. ASSUME NEW i \in 1..Len(t) PROVE cursor + i \in 1..Len(h) /\ t[i] = h[cursor + i]
        BY <3>1, <3>4
      <4>2. QED
        BY <4>1 DEF Below
    <3>6. Below(Replay \o t, n)
      BY <3>1, <3>4, <3>5, BelowConcat
    <3>7. QED
      BY <2>1, <2>3, <3>2, <3>3, <3>6
  <2>4. CASE Replay' = Replay /\ cursor < Len(h) /\ persisted' = Len(h)
    <3>1. PICK r \in Seq(AnyMessage) : r = Replay
      BY ReplayType
    <3>2. Len(h) \in Nat /\ \A k \in 1..Len(h) : ~(k > Len(h))
      OBVIOUS
    <3>3. Fits(r, h, Len(h))
      BY <3>1, <3>2 DEF Fits
    <3>4. QED
      BY <2>1, <2>4, <3>1, <3>3
  <2>5. QED
    BY <2>1, <2>2, <2>3, <2>4
<1>3. QED
  BY <1>1, <1>2

\* parts' counts every part of the new history.
LEMMA TakeCounts ==
  ASSUME TypeInv, NEW prior \in Seq(AnyMessage), NEW new \in Seq(AnyMessage),
         Take(prior, new), NEW b \in Nat, Below(Coalesce(prior) \o new, b)
  PROVE  /\ history' = Coalesce(prior) \o new /\ Below(history', parts')
         /\ parts' \in Nat /\ parts <= parts' /\ parts' <= MaxParts
<1>0. PICK h \in Seq(AnyMessage) : h = Coalesce(prior) \o new /\ Below(h, b)
  BY CoalesceType, ConcatProperties
<1>. DEFINE S == {parts} \cup {p.id : p \in PartsOf(h)}
<1>1. history' = h /\ parts' = Max(S) /\ parts' <= MaxParts
  BY <1>0 DEF Take
<1>2. Range(h) = {h[i] : i \in 1..Len(h)}
  <2>1. DOMAIN h = 1..Len(h)
    BY LenProperties
  <2>2. QED
    BY <2>1 DEF Range
<1>3. \A p \in PartsOf(h) : \E i \in 1..Len(h) : p \in h[i].parts
  BY <1>2 DEF PartsOf
<1>4. \A i \in 1..Len(h) : \A p \in h[i].parts : p \in PartsOf(h)
  BY <1>2 DEF PartsOf
<1>5. \A p \in PartsOf(h) : p.id \in Nat /\ p.id <= b
  <2>1. \A i \in 1..Len(h) : h[i].parts \in SUBSET AnyPart
    <3>1. \A i \in 1..Len(h) : h[i] \in AnyMessage
      OBVIOUS
    <3>2. QED
      BY <3>1 DEF AnyMessage
  <2>2. QED
    BY <1>0, <1>3, <2>1 DEF Below, AnyPart
<1>6. PICK top \in Nat : parts <= top /\ b <= top
  <2>1. parts \in Nat
    BY DEF TypeInv
  <2>2. parts + b \in Nat /\ parts <= parts + b /\ b <= parts + b
    BY <2>1
  <2>3. QED
    BY <2>2
<1>7. S \in SUBSET Nat /\ S # {} /\ \A x \in S : x <= top
  BY <1>5, <1>6 DEF TypeInv
<1>8. \A x \in PartsOf(h) : x.id \in S
  OBVIOUS
<1>9. parts \in S
  OBVIOUS
<1>. HIDE DEF S
<1>10. Max(S) \in S /\ \A x \in S : x <= Max(S)
  BY <1>7, MaxIs
<1>11. Below(h, Max(S))
  BY <1>4, <1>8, <1>10 DEF Below
<1>12. QED
  BY <1>0, <1>1, <1>7, <1>9, <1>10, <1>11

-----------------------------------------------------------------------------
(* Legs keep the order *)

\* A leg that pauses ends with the gated call.
EndsOpen(new) == new # <<>> /\ Last(new).from = "model"

Leg(prior, new) ==
  \/ LegAnswers(prior, new)
  \/ LegPauses(prior, new) /\ EndsOpen(new)
  \/ LegCrashes(prior, new)

LEMMA PauseEndsOpen ==
  ASSUME NEW first \in AnyMessage, NEW k \in Nat \ {0}, NEW tail \in Pauses(k)
  PROVE  EndsOpen(<<first>> \o tail)
<1>1. PICK call : call = Response("call", k)
  OBVIOUS
<1>2. call \in AnyMessage /\ call.from = "model"
  BY <1>1, ResponseCarries DEF Carries
<1>3. tail = <<call>>
  BY <1>1 DEF Pauses
<1>4. <<first>> \o <<call>> = Append(<<first>>, call)
  BY <1>2
<1>5. <<first>> \in Seq(AnyMessage)
  OBVIOUS
<1>6. QED
  BY <1>2, <1>3, <1>4, <1>5, AppendBack DEF EndsOpen

LEMMA LastOfConcat ==
  ASSUME NEW g \in Seq(AnyMessage), NEW h \in Seq(AnyMessage), h # <<>>
  PROVE  g \o h # <<>> /\ Last(g \o h) = Last(h)
<1>1. PICK q : q = g \o h
  OBVIOUS
<1>2. /\ q \in Seq(AnyMessage) /\ Len(q) = Len(g) + Len(h)
      /\ \A i \in 1..(Len(g) + Len(h)) : q[i] = IF i <= Len(g) THEN g[i] ELSE h[i - Len(g)]
  BY <1>1, ConcatProperties
<1>3. Len(g) \in Nat /\ Len(h) \in Nat \ {0}
  OBVIOUS
<1>4. Len(q) \in 1..(Len(g) + Len(h)) /\ ~(Len(q) <= Len(g)) /\ Len(q) - Len(g) = Len(h)
  BY <1>2, <1>3
<1>5. q[Len(q)] = h[Len(h)] /\ q # <<>>
  BY <1>2, <1>3, <1>4
<1>6. QED
  BY <1>1, <1>5 DEF Last

LEMMA LastCallsFit ==
  ASSUME NEW r \in Seq(AnyMessage), NEW h \in Seq(AnyMessage), NEW cursor,
         Fits(r, h, cursor), h # <<>>
  PROVE  /\ Last(h) \in AnyMessage
         /\ \A i \in 1..Len(h) : ReturnIds(h[i]) \cap CallIds(Last(h)) = {}
         /\ \A i \in 1..Len(r) : ReturnIds(r[i]) \cap CallIds(Last(h)) = {}
<1>1. Len(h) \in Nat \ {0} /\ Last(h) = h[Len(h)] /\ Len(h) \in 1..Len(h)
  BY DEF Last
<1>2. Last(h) \in AnyMessage
  BY FrontAndLast
<1>3. CASE CallIds(Last(h)) = {}
  BY <1>2, <1>3
<1>4. CASE CallIds(Last(h)) # {}
  <2>1. InRole(h[Len(h)]) /\ Chain(h)
    BY <1>1 DEF Fits, Chain
  <2>2. h[Len(h)].from = "model"
    BY <1>1, <1>2, <1>4, <2>1 DEF InRole, AnyMessage
  <2>3. Open(h, Len(h))
    BY <1>1, <2>2 DEF Open
  <2>4. \A i \in 1..Len(h) : ReturnIds(h[i]) \cap CallIds(h[Len(h)]) = {}
    BY <1>1, <2>1, <2>3, OpenChain
  <2>5. \A i \in 1..Len(r) : ReturnIds(r[i]) \cap CallIds(h[Len(h)]) = {}
    BY <1>1, <2>3 DEF Fits
  <2>6. QED
    BY <1>1, <1>2, <2>4, <2>5
<1>5. QED
  BY <1>3, <1>4

\* Answering the last message keeps the order and adds no part.
LEMMA AnswerFits ==
  ASSUME NEW r \in Seq(AnyMessage), NEW h \in Seq(AnyMessage), NEW cursor \in Nat,
         Fits(r, h, cursor), NEW m \in AnyMessage,
         \A i \in 1..Len(h) : ReturnIds(h[i]) \cap CallIds(m) = {},
         \A i \in 1..Len(r) : ReturnIds(r[i]) \cap CallIds(m) = {},
         NEW n \in Nat, Below(h, n), \A x \in CallIds(m) : x <= n
  PROVE  /\ Answer(m) \in AnyMessage /\ Append(h, Answer(m)) \in Seq(AnyMessage)
         /\ Fits(r, Append(h, Answer(m)), cursor) /\ Below(Append(h, Answer(m)), n)
<1>1. PICK a : a = Answer(m)
  OBVIOUS
<1>2. Carries(a, "user", {}, {}, CallIds(m))
  BY <1>1, AnswerCarries
<1>3. a \in AnyMessage /\ InRole(a) /\ {p.id : p \in a.parts} = CallIds(m)
  BY <1>2 DEF Carries, InRole
<1>4. After(h, a) /\ After(r, a)
  BY <1>2 DEF After, Before, Carries
<1>5. Fits(r, Append(h, a), cursor)
  BY <1>3, <1>4, FitsAppend
<1>6. \A x \in {p.id : p \in a.parts} : x <= n
  BY <1>3, Zenon
<1>7. Below(Append(h, a), n)
  BY <1>3, <1>6, BelowAppend
<1>8. QED
  BY <1>1, <1>3, <1>5, <1>7, AppendProperties

LEMMA HealIs ==
  ASSUME NEW h \in Seq(AnyMessage)
  PROVE  \/ Heal(h) = h /\ (h = <<>> \/ CallIds(Last(h)) = {})
         \/ /\ h # <<>> /\ CallIds(Last(h)) # {}
            /\ Heal(h) = Append(h, Answer(Last(h)))
BY DEF Heal, Answer

LEMMA HealFits ==
  ASSUME NEW r \in Seq(AnyMessage), NEW h \in Seq(AnyMessage), NEW cursor \in Nat,
         Fits(r, h, cursor), NEW n \in Nat, Below(h, n)
  PROVE  Heal(h) \in Seq(AnyMessage) /\ Fits(r, Heal(h), cursor) /\ Below(Heal(h), n)
<1>1. CASE Heal(h) = h
  BY <1>1
<1>2. CASE /\ h # <<>> /\ CallIds(Last(h)) # {}
           /\ Heal(h) = Append(h, Answer(Last(h)))
  <2>1. PICK m \in AnyMessage : m = Last(h)
    BY <1>2, LastCallsFit
  <2>2. /\ \A i \in 1..Len(h) : ReturnIds(h[i]) \cap CallIds(m) = {}
        /\ \A i \in 1..Len(r) : ReturnIds(r[i]) \cap CallIds(m) = {}
    BY <1>2, <2>1, LastCallsFit
  <2>3. \A x \in CallIds(m) : x <= n
    <3>1. m = h[Len(h)] /\ Len(h) \in 1..Len(h)
      BY <1>2, <2>1 DEF Last
    <3>2. CallIds(m) \subseteq {p.id : p \in m.parts}
      BY <2>1, CallIdsType
    <3>3. \A x \in {p.id : p \in m.parts} : x <= n
      BY <3>1 DEF Below
    <3>4. QED
      BY <3>2, <3>3, Zenon
  <2>4. QED
    BY <1>2, <2>1, <2>2, <2>3, AnswerFits
<1>3. QED
  BY <1>1, <1>2, HealIs

LEMMA ClampIs ==
  ASSUME TypeInv, NEW prior \in Seq(AnyMessage)
  PROVE  /\ Clamp(prior) \in Nat /\ Clamp(prior) <= persisted
         /\ Clamp(prior) <= Len(Coalesce(prior))
         /\ Clamp(prior) \in {persisted, Len(Coalesce(prior))}
<1>1. Len(Coalesce(prior)) \in Nat /\ persisted \in Nat
  BY CoalesceType DEF TypeInv
<1>2. QED
  BY <1>1, MinOfTwo DEF Clamp

\* Parts are added, and what is written is the end of the new history.
Grows ==
  /\ parts <= parts' /\ seed' = seed
  /\ \/ disk' = disk
     \/ \E n \in Nat, type \in LineType :
          /\ n <= Len(history')
          /\ disk' = Append(disk, [type |-> type,
                                   body |-> SubSeq(history', n + 1, Len(history'))])

LEMMA PersistGrows ==
  ASSUME TypeInv, NEW h \in Seq(AnyMessage), NEW cursor \in Nat, history' = h,
         \/ Persist(h, cursor)
         \/ persisted' = cursor /\ UNCHANGED <<disk, failed>>,
         seed' = seed, parts <= parts'
  PROVE  Grows
<1>1. CASE disk' = disk
  BY <1>1 DEF Grows
<1>2. CASE disk' # disk
  <2>1. cursor < Len(h) /\ disk' = Append(disk, [type |-> "messages", body |-> SubSeq(h, cursor + 1, Len(h))])
    <3>1. Persist(h, cursor)
      BY <1>2
    <3>2. QED
      BY <1>2, <3>1, PersistIs
  <2>2. "messages" \in LineType /\ Len(h) \in Nat /\ cursor <= Len(h)
    BY <2>1 DEF LineType
  <2>3. QED
    BY <2>1, <2>2 DEF Grows
<1>3. QED
  BY <1>1, <1>2

\* A leg of any kind, whose messages fit behind what precedes them.
LEMMA LegOrder ==
  ASSUME TypeInv, OrderInv, NEW prior \in Seq(AnyMessage), Fits(Replay, prior, persisted),
         NEW new \in Seq(AnyMessage), NEW b \in Nat, parts <= b,
         \A cursor \in Nat : Fits(Replay, Coalesce(prior), cursor) =>
           Fits(Replay, Coalesce(prior) \o new, cursor),
         Below(Coalesce(prior) \o new, b),
         Leg(prior, new), UNCHANGED <<seed, resumes, forgot>>, steered' \in BOOLEAN
  PROVE  TypeInv' /\ OrderInv' /\ Grows
<1>1. PICK c \in Seq(AnyMessage) : c = Coalesce(prior)
  BY CoalesceType
<1>2. PICK h \in Seq(AnyMessage) : h = Coalesce(prior) \o new
  BY <1>1, ConcatProperties
<1>3. Take(prior, new)
  BY DEF Leg, LegAnswers, LegPauses, LegCrashes
<1>4. /\ history' = h /\ parts' \in Nat /\ parts <= parts' /\ parts' <= MaxParts
      /\ Below(h, parts')
  <2>1. /\ history' = Coalesce(prior) \o new /\ Below(history', parts')
        /\ parts' \in Nat /\ parts <= parts' /\ parts' <= MaxParts
    BY <1>3, TakeCounts
  <2>2. QED
    BY <1>2, <2>1
<1>5. PICK cursor \in Nat :
        /\ cursor \in {persisted, Clamp(prior)}
        /\ Persist(h, cursor) \/ (persisted' = cursor /\ UNCHANGED <<disk, failed>>)
  <2>1. persisted \in Nat /\ Clamp(prior) \in Nat
    BY ClampIs DEF TypeInv
  <2>2. CASE LegAnswers(prior, new)
    <3>1. Persist(h, Clamp(prior))
      BY <1>4, <2>2 DEF LegAnswers
    <3>2. QED
      BY <2>1, <3>1
  <2>3. CASE LegPauses(prior, new)
    BY <2>1, <2>3 DEF LegPauses
  <2>4. CASE LegCrashes(prior, new)
    <3>1. Persist(h, persisted)
      BY <1>4, <2>4 DEF LegCrashes
    <3>2. QED
      BY <2>1, <3>1
  <2>5. QED
    BY <2>2, <2>3, <2>4 DEF Leg
<1>6. \A j \in 1..Len(Coalesce(prior)) : j > cursor => j > persisted
  <2>1. Len(c) \in Nat /\ persisted \in Nat
    BY DEF TypeInv
  <2>2. QED
    BY <1>1, <1>5, <2>1, ClampIs
<1>7. Replay \in Seq(AnyMessage) /\ persisted \in Nat
  BY ReplayType DEF TypeInv
<1>8. Fits(Replay, Coalesce(prior), cursor)
  BY <1>6, <1>7, FitsCoalesced
<1>9. Fits(Replay, h, cursor)
  BY <1>2, <1>8
<1>10. Below(Replay, parts')
  BY <1>4, <1>7, BelowMore DEF OrderInv, TypeInv
<1>11. /\ disk' \in Seq(Line) /\ failed' \in SUBSET Failure /\ persisted' \in Nat
       /\ Fits(Replay', h, persisted') /\ Below(Replay', parts')
  BY <1>4, <1>5, <1>9, <1>10, PersistFits
<1>12. at' \in {"idle", "paused", "stopping", "stopped"} /\ drifted' \in BOOLEAN
  BY DEF Leg, LegAnswers, LegPauses, LegCrashes, Drifts, TypeInv
<1>13. TypeInv'
  BY <1>4, <1>11, <1>12 DEF TypeInv
<1>14. OrderInv'
  <2>1. ASSUME at' = "paused" PROVE h # <<>> /\ Last(h).from = "model"
    <3>1. EndsOpen(new)
      BY <2>1 DEF Leg, LegAnswers, LegCrashes
    <3>2. QED
      BY <1>1, <1>2, <3>1, LastOfConcat DEF EndsOpen
  <2>2. QED
    BY <1>4, <1>11, <2>1 DEF OrderInv
<1>15. Grows
  BY <1>4, <1>5, PersistGrows
<1>16. QED
  BY <1>13, <1>14, <1>15

\* A request in front of a tail.
LEMMA LegConcat ==
  ASSUME NEW c \in Seq(AnyMessage), NEW first \in AnyMessage, NEW tail \in Seq(AnyMessage)
  PROVE  /\ <<first>> \o tail \in Seq(AnyMessage)
         /\ c \o (<<first>> \o tail) = Append(c, first) \o tail
<1>1. <<first>> \in Seq(AnyMessage)
  OBVIOUS
<1>2. c \o (<<first>> \o tail) = (c \o <<first>>) \o tail
  BY <1>1, ConcatAssociative
<1>3. c \o <<first>> = Append(c, first)
  OBVIOUS
<1>4. QED
  BY <1>1, <1>2, <1>3, ConcatProperties

LEMMA LegWithTail ==
  ASSUME TypeInv, OrderInv, NEW prior \in Seq(AnyMessage), Fits(Replay, prior, persisted),
         NEW first \in AnyMessage, NEW n \in Nat, parts <= n,
         \A cursor \in Nat : Fits(Replay, Coalesce(prior), cursor) =>
           Fits(Replay, Append(Coalesce(prior), first), cursor),
         Below(Append(Coalesce(prior), first), n),
         NEW k \in Nat, n < k, NEW tail \in Tails(k),
         Leg(prior, <<first>> \o tail), UNCHANGED <<seed, resumes, forgot>>,
         steered' \in BOOLEAN
  PROVE  TypeInv' /\ OrderInv' /\ Grows
<1>1. PICK c \in Seq(AnyMessage) : c = Coalesce(prior)
  BY CoalesceType
<1>2. PICK r \in Seq(AnyMessage) : r = Replay
  BY ReplayType
<1>3. PICK h1 \in Seq(AnyMessage) : h1 = Append(c, first)
  BY AppendProperties
<1>4. Below(h1, n) /\ Below(r, n)
  BY <1>1, <1>2, <1>3, BelowMore DEF OrderInv, TypeInv
<1>5. Fits(r, h1, persisted) /\ persisted \in Nat
  <2>1. \A j \in 1..Len(c) : j > persisted => j > persisted
    OBVIOUS
  <2>2. Fits(r, c, persisted) /\ persisted \in Nat
    BY <1>1, <1>2, <2>1, FitsCoalesced DEF TypeInv
  <2>3. QED
    BY <1>1, <1>2, <1>3, <2>2
<1>6. tail \in Seq(AnyMessage) /\ Below(h1 \o tail, k + 1)
  BY <1>4, <1>5, FitsTail
<1>7. PICK new \in Seq(AnyMessage) : new = <<first>> \o tail
  BY <1>6, LegConcat
<1>8. c \o new = h1 \o tail
  BY <1>3, <1>6, <1>7, LegConcat
<1>9. ASSUME NEW cursor \in Nat, Fits(Replay, Coalesce(prior), cursor)
      PROVE  Fits(Replay, Coalesce(prior) \o new, cursor)
  <2>1. Fits(r, h1, cursor)
    BY <1>1, <1>2, <1>3, <1>9
  <2>2. Fits(r, h1 \o tail, cursor)
    BY <1>4, <2>1, FitsTail
  <2>3. QED
    BY <1>1, <1>2, <1>8, <2>2
<1>10. k + 1 \in Nat /\ parts <= k + 1
  BY DEF TypeInv
<1>11. Below(Coalesce(prior) \o new, k + 1)
  BY <1>1, <1>6, <1>8
<1>12. Leg(prior, new)
  BY <1>7
<1>13. QED
  BY <1>9, <1>10, <1>11, <1>12, LegOrder
\* A prompt leg sends a new prompt behind the healed history.
LEMMA PromptLegIs ==
  ASSUME TypeInv, PromptLeg
  PROVE  \E prior, n, k, first, tail :
           /\ prior = Heal(history) /\ n = parts + 1 /\ k = parts + 2
           /\ n \in Nat \ {0} /\ k \in Nat \ {0}
           /\ Carries(first, "user", {n}, {}, {}) /\ tail \in Tails(k)
           /\ Leg(prior, <<first>> \o tail)
<1>1. parts \in Nat
  BY DEF TypeInv
<1>2. PICK n, k : n = parts + 1 /\ k = parts + 2
  OBVIOUS
<1>3. n \in Nat \ {0} /\ k \in Nat \ {0}
  BY <1>1, <1>2
<1>4. PICK first : first = Request("prompt", n)
  OBVIOUS
<1>5. Carries(first, "user", {n}, {}, {})
  BY <1>3, <1>4, RequestCarries
<1>6. first \in AnyMessage
  BY <1>5 DEF Carries
<1>7. PICK prior : prior = Heal(history)
  OBVIOUS
<1>8. PICK tail \in Tails(k) : Leg(prior, <<first>> \o tail)
  <2>1. PICK tail :
          \/ tail \in Answers(k) /\ LegAnswers(prior, <<first>> \o tail)
          \/ tail \in Pauses(k) /\ LegPauses(prior, <<first>> \o tail)
          \/ tail \in Crashes(k) /\ LegCrashes(prior, <<first>> \o tail)
    BY <1>2, <1>4, <1>7 DEF PromptLeg
  <2>2. QED
    BY <1>3, <1>6, <2>1, PauseEndsOpen DEF Tails, Leg
<1>9. QED
  BY <1>2, <1>3, <1>5, <1>7, <1>8


LEMMA PromptLegOrder ==
  ASSUME TypeInv, OrderInv, PromptLeg
  PROVE  TypeInv' /\ OrderInv' /\ Grows
<1>1. PICK prior, n, k, first, tail :
        /\ prior = Heal(history) /\ n = parts + 1 /\ k = parts + 2
        /\ n \in Nat \ {0} /\ k \in Nat \ {0}
        /\ Carries(first, "user", {n}, {}, {}) /\ tail \in Tails(k)
        /\ Leg(prior, <<first>> \o tail)
  BY PromptLegIs
<1>2. PICK r \in Seq(AnyMessage) : r = Replay
  BY ReplayType
<1>3. history \in Seq(AnyMessage) /\ persisted \in Nat /\ parts \in Nat
  BY DEF TypeInv
<1>4. prior \in Seq(AnyMessage) /\ Fits(r, prior, persisted) /\ Below(prior, parts)
  BY <1>1, <1>2, <1>3, HealFits DEF OrderInv
<1>7. n < k /\ parts < n /\ parts <= n /\ n \in Nat /\ k \in Nat
  BY <1>1, <1>3
<1>9. Carries(first, "user", {n}, {}, {})
  BY <1>1
<1>10. first \in AnyMessage
  BY <1>9 DEF Carries
<1>11. tail \in Tails(k) /\ Leg(prior, <<first>> \o tail)
  BY <1>1
<1>12. PICK c \in Seq(AnyMessage) : c = Coalesce(prior)
  BY <1>4, CoalesceType
<1>13. Below(c, parts) /\ Below(r, parts)
  BY <1>2, <1>3, <1>4, <1>12, BelowCoalesced DEF OrderInv
<1>14. ASSUME NEW cursor \in Nat, Fits(r, c, cursor)
       PROVE  Fits(r, Append(c, first), cursor) /\ Below(Append(c, first), n)
  BY <1>3, <1>7, <1>9, <1>13, <1>14, FitsNew
<1>15. Below(Append(c, first), n)
  <2>1. \A j \in 1..Len(c) : j > persisted => j > persisted
    OBVIOUS
  <2>2. Fits(r, c, persisted)
    BY <1>3, <1>4, <1>12, <2>1, FitsCoalesced
  <2>3. QED
    BY <1>3, <1>14, <2>2
<1>16. UNCHANGED <<seed, resumes, forgot, steered>> /\ steered' \in BOOLEAN
  BY DEF PromptLeg, TypeInv
<1>17. QED
  BY <1>2, <1>4, <1>7, <1>10, <1>11, <1>12, <1>14, <1>15, <1>16, LegWithTail

\* A resume leg sends the returns of the calls the last message made, behind
\* what was steered.
ResumeLegIs(steer, prior, k, m) ==
  /\ steer \in BOOLEAN /\ k \in Nat \ {0} /\ m \in AnyMessage
  /\ history # <<>> /\ m = Last(history)
  /\ prior = IF steer THEN Append(history, Request("prompt", parts + 1)) ELSE history
  /\ k = IF steer THEN parts + 2 ELSE parts + 1
  /\ \/ \E tail \in Tails(k) : Leg(prior, <<Answer(m)>> \o tail)
     \/ LegCrashes(prior, <<>>)
  /\ steered' = (steered \/ steer)

LEMMA SomeResumeLeg ==
  ASSUME TypeInv, OrderInv, ResumeLeg
  PROVE  \E steer, prior, k, m : ResumeLegIs(steer, prior, k, m)
<1>1. history \in Seq(AnyMessage) /\ parts \in Nat
  BY DEF TypeInv
<1>2. history # <<>> /\ \E m \in AnyMessage : m = Last(history)
  <2>1. history # <<>>
    BY DEF ResumeLeg, OrderInv
  <2>2. QED
    BY <1>1, <2>1, FrontAndLast
<1>3. PICK m \in AnyMessage : m = Last(history)
  BY <1>2
<1>4. PICK first : first = Answer(m)
  OBVIOUS
<1>p. PICK steer \in BOOLEAN :
      LET prior == IF steer THEN Append(history, Request("prompt", parts + 1)) ELSE history
          next == IF steer THEN parts + 2 ELSE parts + 1 IN
      /\ \/ \E tail \in Answers(next) : LegAnswers(prior, <<first>> \o tail)
         \/ \E tail \in Pauses(next) : LegPauses(prior, <<first>> \o tail)
         \/ \E tail \in Crashes(next) : LegCrashes(prior, <<first>> \o tail)
         \/ LegCrashes(prior, <<>>)
      /\ steered' = (steered \/ steer)
  BY <1>3, <1>4 DEF ResumeLeg, Answer
<1>q. PICK prior, k :
      /\ prior = IF steer THEN Append(history, Request("prompt", parts + 1)) ELSE history
      /\ k = IF steer THEN parts + 2 ELSE parts + 1
  OBVIOUS
<1>5. /\ \/ \E tail \in Answers(k) : LegAnswers(prior, <<first>> \o tail)
         \/ \E tail \in Pauses(k) : LegPauses(prior, <<first>> \o tail)
         \/ \E tail \in Crashes(k) : LegCrashes(prior, <<first>> \o tail)
         \/ LegCrashes(prior, <<>>)
      /\ steered' = (steered \/ steer)
  BY <1>p, <1>q
<1>6. k \in Nat \ {0} /\ first \in AnyMessage
  BY <1>1, <1>4, <1>q, AnswerCarries DEF Carries
<1>7. \A tail \in Pauses(k) : EndsOpen(<<first>> \o tail)
  BY <1>6, PauseEndsOpen
<1>8. \/ \E tail \in Tails(k) : Leg(prior, <<first>> \o tail)
      \/ LegCrashes(prior, <<>>)
  BY <1>5, <1>7 DEF Tails, Leg
<1>9. ResumeLegIs(steer, prior, k, m)
  BY <1>2, <1>3, <1>4, <1>5, <1>6, <1>8, <1>q DEF ResumeLegIs
<1>10. QED
  BY <1>9

LEMMA ResumeLegOrder ==
  ASSUME TypeInv, OrderInv, ResumeLeg
  PROVE  TypeInv' /\ OrderInv' /\ Grows
<1>1. PICK r \in Seq(AnyMessage) : r = Replay
  BY ReplayType
<1>2. history \in Seq(AnyMessage) /\ persisted \in Nat /\ parts \in Nat
  BY DEF TypeInv
<1>3. PICK steer, prior, k, m : ResumeLegIs(steer, prior, k, m)
  BY SomeResumeLeg
<1>. m \in AnyMessage
  BY <1>3 DEF ResumeLegIs
<1>4. PICK first : first = Answer(m)
  OBVIOUS
<1>5. /\ steer \in BOOLEAN /\ history # <<>> /\ m = Last(history)
      /\ prior = IF steer THEN Append(history, Request("prompt", parts + 1)) ELSE history
      /\ k = IF steer THEN parts + 2 ELSE parts + 1
      /\ \/ \E tail \in Tails(k) : Leg(prior, <<first>> \o tail)
         \/ LegCrashes(prior, <<>>)
      /\ steered' = (steered \/ steer)
  BY <1>3, <1>4 DEF ResumeLegIs
<1>6. Fits(r, history, persisted) /\ Below(history, parts) /\ Below(r, parts)
  BY <1>1 DEF OrderInv
<1>7. /\ \A i \in 1..Len(history) : ReturnIds(history[i]) \cap CallIds(m) = {}
      /\ \A i \in 1..Len(r) : ReturnIds(r[i]) \cap CallIds(m) = {}
  BY <1>2, <1>5, <1>6, LastCallsFit
<1>8. \A x \in CallIds(m) : x <= parts /\ x \in Nat
  <2>1. m = history[Len(history)] /\ Len(history) \in 1..Len(history)
    BY <1>2, <1>5 DEF Last
  <2>2. CallIds(m) \subseteq {p.id : p \in m.parts} /\ CallIds(m) \in SUBSET (Nat \ {0})
    BY CallIdsType
  <2>3. \A x \in {p.id : p \in m.parts} : x <= parts
    BY <1>6, <2>1 DEF Below
  <2>4. QED
    BY <2>2, <2>3, Zenon
<1>9. PICK n \in Nat : n = IF steer THEN parts + 1 ELSE parts
  BY <1>2
<1>10. n < k /\ parts <= n /\ k \in Nat
  BY <1>2, <1>5, <1>9
<1>11. /\ prior \in Seq(AnyMessage) /\ Fits(r, prior, persisted) /\ Below(prior, n)
       /\ \A i \in 1..Len(prior) : ReturnIds(prior[i]) \cap CallIds(m) = {}
  <2>1. CASE ~steer
    BY <1>2, <1>5, <1>6, <1>7, <1>9, <2>1
  <2>2. CASE steer
    <3>1. PICK s : s = Request("prompt", parts + 1)
      OBVIOUS
    <3>2. parts + 1 \in Nat /\ parts + 1 \in Nat \ {0} /\ parts < parts + 1
      BY <1>2
    <3>3. Carries(s, "user", {parts + 1}, {}, {})
      BY <3>1, <3>2, RequestCarries
    <3>4. s \in AnyMessage /\ ReturnIds(s) = {}
      BY <3>3 DEF Carries
    <3>5. prior = Append(history, s) /\ n = parts + 1
      BY <1>5, <1>9, <2>2, <3>1
    <3>6. Fits(r, prior, persisted) /\ Below(prior, n)
      BY <1>2, <1>6, <3>2, <3>3, <3>5, FitsNew
    <3>7. /\ prior \in Seq(AnyMessage) /\ Len(prior) = Len(history) + 1 /\ Len(history) \in Nat
          /\ prior[Len(history) + 1] = s /\ \A i \in 1..Len(history) : prior[i] = history[i]
      BY <1>2, <3>4, <3>5, AppendProperties
    <3>8. ASSUME NEW i \in 1..Len(prior) PROVE ReturnIds(prior[i]) \cap CallIds(m) = {}
      <4>1. CASE i = Len(history) + 1
        BY <3>4, <3>7, <4>1
      <4>2. CASE i # Len(history) + 1
        <5>1. i \in 1..Len(history)
          BY <3>7, <4>2
        <5>2. QED
          BY <1>7, <3>7, <5>1
      <4>3. QED
        BY <4>1, <4>2
    <3>9. QED
      BY <3>6, <3>7, <3>8
  <2>3. QED
    BY <2>1, <2>2
<1>12. PICK c \in Seq(AnyMessage) : c = Coalesce(prior)
  BY <1>11, CoalesceType
<1>13. Below(c, n)
  BY <1>11, <1>12, BelowCoalesced
<1>14. \A i \in 1..Len(c) : ReturnIds(c[i]) \cap CallIds(m) = {}
  <2>1. PICK g : Groups(g, prior, c)
    BY <1>11, <1>12, CoalesceGroups
  <2>2. ASSUME NEW i \in 1..Len(c), NEW x \in ReturnIds(c[i]), x \in CallIds(m) PROVE FALSE
    <3>1. PICK p \in c[i].parts : p.kind = "return" /\ p.id = x
      BY DEF ReturnIds, Returns
    <3>2. PICK j \in 1..Len(prior) : p \in prior[j].parts
      BY <2>1, <3>1 DEF Groups
    <3>3. x \in ReturnIds(prior[j])
      BY <3>1, <3>2 DEF ReturnIds, Returns
    <3>4. QED
      BY <1>11, <2>2, <3>3
  <2>3. QED
    BY <2>2
<1>15. first \in AnyMessage
  BY <1>4, AnswerCarries DEF Carries
<1>16. \A x \in CallIds(m) : x <= n
  BY <1>2, <1>8, <1>9
<1>17. ASSUME NEW cursor \in Nat, Fits(r, c, cursor)
       PROVE  Fits(r, Append(c, first), cursor) /\ Below(Append(c, first), n)
  BY <1>4, <1>7, <1>13, <1>14, <1>16, <1>17, AnswerFits
<1>18. Fits(r, c, persisted)
  <2>1. \A j \in 1..Len(c) : j > persisted => j > persisted
    OBVIOUS
  <2>2. QED
    BY <1>2, <1>11, <1>12, <2>1, FitsCoalesced
<1>19. UNCHANGED <<seed, resumes, forgot>> /\ steered' \in BOOLEAN
  BY <1>5 DEF ResumeLeg, TypeInv
<1>20. CASE LegCrashes(prior, <<>>)
  <2>1. PICK none \in Seq(AnyMessage) : none = <<>>
    <3>1. <<>> \in Seq(AnyMessage)
      OBVIOUS
    <3>2. QED
      BY <3>1, Zenon
  <2>2. c \o none = c
    BY <2>1, ConcatEmptySeq
  <2>3. Leg(prior, none)
    BY <1>20, <2>1 DEF Leg
  <2>4. \A cursor \in Nat : Fits(Replay, Coalesce(prior), cursor) =>
           Fits(Replay, Coalesce(prior) \o none, cursor)
    BY <1>12, <2>2
  <2>5. Below(Coalesce(prior) \o none, n)
    BY <1>12, <1>13, <2>2
  <2>6. QED
    BY <1>1, <1>10, <1>11, <1>19, <2>3, <2>4, <2>5, LegOrder
<1>21. CASE \E tail \in Tails(k) : Leg(prior, <<first>> \o tail)
  <2>1. PICK tail \in Tails(k) : Leg(prior, <<first>> \o tail)
    BY <1>21
  <2>2. Below(Append(c, first), n)
    BY <1>2, <1>17, <1>18
  <2>3. QED
    BY <1>1, <1>10, <1>11, <1>12, <1>15, <1>17, <1>19, <2>1, <2>2, LegWithTail
<1>22. QED
  BY <1>5, <1>20, <1>21

-----------------------------------------------------------------------------
(* The other actions keep the order *)

\* Abort and EndTurn write what is behind the cursor.
LEMMA FinallyOrder ==
  ASSUME TypeInv, OrderInv, Abort \/ EndTurn
  PROVE  TypeInv' /\ OrderInv'
<1>1. /\ at' = "idle" /\ Persist(history, persisted)
      /\ UNCHANGED <<history, seed, parts, resumes, drifted, forgot, steered>>
  BY DEF Abort, EndTurn
<1>2. PICK h \in Seq(AnyMessage) : h = history
  BY DEF TypeInv
<1>3. PICK cursor \in Nat : cursor = persisted
  BY DEF TypeInv
<1>4. PICK n \in Nat : n = parts
  BY DEF TypeInv
<1>5. Persist(h, cursor) /\ seed' = seed /\ Fits(Replay, h, cursor) /\ Below(h, n) /\ Below(Replay, n)
  BY <1>1, <1>2, <1>3, <1>4 DEF OrderInv
<1>6. /\ disk' \in Seq(Line) /\ failed' \in SUBSET Failure /\ persisted' \in Nat
      /\ Fits(Replay', h, persisted') /\ Below(Replay', n)
  BY <1>5, PersistFits
<1>7. history' = h /\ parts' = n
  BY <1>1, <1>2, <1>4
<1>8. TypeInv'
  BY <1>1, <1>6 DEF TypeInv
<1>9. OrderInv'
  BY <1>1, <1>5, <1>6, <1>7 DEF OrderInv
<1>10. QED
  BY <1>8, <1>9

LEMMA CompactOrder ==
  ASSUME TypeInv, OrderInv, NEW cut \in 0..Len(history), Compact(cut),
         UNCHANGED <<seed, resumes, drifted, forgot, steered>>,
         at' \in {"idle", "stopped"}
  PROVE  TypeInv' /\ OrderInv'
<1>1. PICK h \in Seq(AnyMessage) : h = history
  BY DEF TypeInv
<1>2. PICK n \in Nat : n = parts /\ Below(h, n) /\ Below(Replay, n)
  BY <1>1 DEF TypeInv, OrderInv
<1>3. PICK split \in 0..Len(h) : split = SplitTail(h, cut)
  BY <1>1, SplitTailIs
<1>4. PICK k : k = CompactedTo(h, split, n + 1)
  OBVIOUS
<1>5. n + 1 \in Nat \ {0} /\ n + 1 \in Nat /\ n <= n + 1
  OBVIOUS
<1>6. k \in Seq(AnyMessage) /\ Len(k) \in Nat
  BY <1>4, <1>5, CompactedIs
<1>7. PICK r \in Seq(AnyMessage) : r = Replay
  BY ReplayType
<1>8. Fits(r, k, Len(k)) /\ Fits(k, k, Len(k)) /\ Below(k, n + 1)
  <2>1. persisted \in Nat /\ Fits(r, h, persisted) /\ Below(r, n)
    BY <1>1, <1>2, <1>7 DEF TypeInv, OrderInv
  <2>2. QED
    BY <1>2, <1>4, <2>1, FitsCompacted
<1>9. /\ parts < MaxParts /\ parts' = n + 1 /\ history' = k /\ persisted' = Len(k)
      /\ Wrote("compaction", k) \/ Missed("compaction")
  BY <1>1, <1>2, <1>3, <1>4 DEF Compact, CompactedTo
<1>10. parts' <= MaxParts
  BY <1>2, <1>9, BoundsAssumption
<1>11. Below(r, n + 1)
  BY <1>2, <1>5, <1>7, BelowMore
<1>12. CASE Wrote("compaction", k)
  <2>1. "compaction" \in LineType /\ "compaction" # "messages"
    BY DEF LineType
  <2>2. disk' \in Seq(Line) /\ failed' = failed /\ Replay' = k
    BY <1>6, <1>12, <2>1, WroteReads
  <2>3. TypeInv'
    BY <1>5, <1>6, <1>9, <1>10, <2>2 DEF TypeInv
  <2>4. OrderInv'
    BY <1>8, <1>9, <2>2 DEF OrderInv
  <2>5. QED
    BY <2>3, <2>4
<1>13. CASE Missed("compaction")
  <2>1. disk' = disk /\ failed' \in {failed \cup {"compaction"}, failed \cup {"glued"}}
    BY <1>13 DEF Missed, WroteBehindHalf, WriteFailed
  <2>2. Replay' = r
    BY <1>7, <2>1, NothingWritten
  <2>3. TypeInv'
    BY <1>5, <1>6, <1>9, <1>10, <2>1 DEF TypeInv, LineType, Failure
  <2>4. OrderInv'
    BY <1>8, <1>9, <1>11, <2>2 DEF OrderInv
  <2>5. QED
    BY <2>3, <2>4
<1>14. QED
  BY <1>9, <1>12, <1>13

LEMMA CascadeOrder ==
  ASSUME TypeInv, OrderInv, Cascade
  PROVE  TypeInv' /\ OrderInv'
<1>1. at' = "stopped" /\ UNCHANGED <<seed, resumes, drifted, forgot, steered>>
  BY DEF Cascade
<1>2. CASE UNCHANGED <<history, persisted, disk, parts, failed>>
  BY <1>1, <1>2, NothingWritten DEF TypeInv, OrderInv
<1>3. CASE \E cut \in 0..Len(history) : Compact(cut)
  BY <1>1, <1>3, CompactOrder
<1>4. CASE \E cut \in 0..Len(history) :
             /\ history' = Microcompacted(history, SplitTail(history, cut))
             /\ UNCHANGED <<persisted, disk, parts, failed>>
  <2>1. PICK h \in Seq(AnyMessage) : h = history
    BY DEF TypeInv
  <2>2. PICK cut \in 0..Len(h) : history' = Microcompacted(h, SplitTail(h, cut))
    BY <1>4, <2>1
  <2>3. PICK split \in 0..Len(h) : split = SplitTail(h, cut)
    BY SplitTailIs
  <2>4. PICK k : k = Microcompacted(h, split)
    OBVIOUS
  <2>5. k \in Seq(AnyMessage) /\ Len(k) = Len(h) /\ \A i \in 1..Len(h) : Alike(h[i], k[i])
    BY <2>4, MicrocompactedIs
  <2>6. history' = k /\ UNCHANGED <<persisted, disk, parts, failed>>
    BY <1>4, <2>2, <2>3, <2>4
  <2>7. PICK r \in Seq(AnyMessage) : r = Replay
    BY ReplayType
  <2>8. PICK cursor \in Nat : cursor = persisted
    BY DEF TypeInv
  <2>9. Fits(r, h, cursor) /\ Below(h, parts) /\ Below(r, parts)
    BY <2>1, <2>7, <2>8 DEF OrderInv
  <2>10. Fits(r, k, cursor)
    BY <2>5, <2>9, FitsAlike
  <2>11. Below(k, parts)
    BY <2>5, <2>9, BelowAlike
  <2>12. Replay' = r
    BY <1>1, <2>6, <2>7, NothingWritten
  <2>13. TypeInv'
    BY <1>1, <2>5, <2>6 DEF TypeInv
  <2>14. OrderInv'
    BY <1>1, <2>6, <2>8, <2>9, <2>10, <2>11, <2>12 DEF OrderInv
  <2>15. QED
    BY <2>13, <2>14
<1>5. QED
  BY <1>2, <1>3, <1>4 DEF Cascade

LEMMA CompactCommandOrder ==
  ASSUME TypeInv, OrderInv, CompactCommand
  PROVE  TypeInv' /\ OrderInv'
<1>1. PICK cut \in 0..Len(history) : Compact(cut)
  BY DEF CompactCommand
<1>2. at' = "idle" /\ UNCHANGED <<seed, resumes, drifted, forgot, steered>>
  BY DEF CompactCommand
<1>3. QED
  BY <1>1, <1>2, CompactOrder

LEMMA EmptyFits ==
  ASSUME NEW r \in Seq(AnyMessage), Chain(r), NEW n
  PROVE  Fits(r, <<>>, 0) /\ Below(<<>>, n) /\ Chain(<<>>)
BY DEF Fits, Chain, Below

LEMMA ClearOrder ==
  ASSUME TypeInv, OrderInv, Clear
  PROVE  TypeInv' /\ OrderInv'
<1>1. PICK none \in Seq(AnyMessage) : none = <<>>
  <2>1. <<>> \in Seq(AnyMessage)
    OBVIOUS
  <2>2. QED
    BY <2>1, Zenon
<1>2. /\ history' = none /\ persisted' = 0 /\ at' = "idle"
      /\ UNCHANGED <<seed, parts, resumes, drifted, forgot, steered>>
      /\ Wrote("clear", none) \/ Missed("clear")
  BY <1>1 DEF Clear, TypeInv
<1>3. PICK r \in Seq(AnyMessage) : r = Replay
  BY ReplayType
<1>4. Chain(r) /\ Below(r, parts)
  BY <1>3 DEF OrderInv, Fits
<1>5. Fits(r, none, 0) /\ Below(none, parts) /\ Chain(none)
  BY <1>1, <1>4, EmptyFits
<1>6. Fits(none, none, 0)
  BY <1>1, <1>5, EmptyFits
<1>7. at' = "idle"
  BY DEF Clear
<1>8. CASE Wrote("clear", none)
  <2>1. "clear" \in LineType /\ "clear" # "messages"
    BY DEF LineType
  <2>2. disk' \in Seq(Line) /\ failed' = failed /\ Replay' = none
    BY <1>2, <1>8, <2>1, WroteReads
  <2>3. TypeInv'
    BY <1>2, <2>2 DEF TypeInv
  <2>4. OrderInv'
    BY <1>2, <1>5, <1>6, <2>2 DEF OrderInv
  <2>5. QED
    BY <2>3, <2>4
<1>9. CASE Missed("clear")
  <2>1. disk' = disk /\ failed' \in {failed \cup {"clear"}, failed \cup {"glued"}}
    BY <1>9 DEF Missed, WroteBehindHalf, WriteFailed
  <2>2. Replay' = r
    BY <1>2, <1>3, <2>1, NothingWritten
  <2>3. TypeInv'
    BY <1>2, <2>1 DEF TypeInv, LineType, Failure
  <2>4. OrderInv'
    BY <1>2, <1>4, <1>5, <2>2 DEF OrderInv
  <2>5. QED
    BY <2>3, <2>4
<1>10. QED
  BY <1>2, <1>8, <1>9

LEMMA ResumeOrder ==
  ASSUME TypeInv, OrderInv, Resume
  PROVE  TypeInv' /\ OrderInv'
<1>1. seed \in Seq(AnyMessage) /\ disk \in Seq(Line)
  BY DEF TypeInv
<1>2. PICK r \in Seq(AnyMessage) : r = Replay
  BY ReplayType
<1>3. PICK h \in Seq(AnyMessage) : h = Load(<<>>, disk)
  <2>1. <<>> \in Seq(AnyMessage)
    OBVIOUS
  <2>2. Load(<<>>, disk) \in Seq(AnyMessage)
    BY <1>1, <2>1, LoadType
  <2>3. QED
    BY <2>2, Zenon
<1>4. r = h \/ r = seed \o h
  BY <1>1, <1>2, <1>3, LoadSuffix DEF Replay
<1>5. Chain(h) /\ Below(h, parts)
  <2>1. Chain(r) /\ Below(r, parts)
    BY <1>2 DEF OrderInv, Fits
  <2>2. CASE r = h
    BY <2>1, <2>2
  <2>3. CASE r = seed \o h
    BY <1>1, <2>1, <2>3, ChainSuffix
  <2>4. QED
    BY <1>4, <2>2, <2>3
<1>6. /\ history' = h /\ seed' = h /\ persisted' = Len(h) /\ disk' = <<>> /\ at' = "idle"
      /\ resumes < MaxResumes /\ resumes' = resumes + 1
      /\ UNCHANGED <<parts, failed, drifted, steered>>
      /\ forgot' \in BOOLEAN
  BY <1>3 DEF Resume, TypeInv
<1>7. Fits(h, h, Len(h)) /\ Len(h) \in Nat
  BY <1>5, FitsItself
<1>8. Replay' = h
  <2>1. Replay' = Load(h, <<>>)
    BY <1>6 DEF Replay
  <2>2. QED
    BY <2>1, LoadNothing
<1>9. disk' \in Seq(Line)
  BY <1>6
<1>10. resumes' \in 0..MaxResumes
  BY <1>6, BoundsAssumption DEF TypeInv
<1>11. TypeInv'
  BY <1>6, <1>7, <1>9, <1>10 DEF TypeInv
<1>12. OrderInv'
  BY <1>5, <1>6, <1>7, <1>8 DEF OrderInv
<1>13. QED
  BY <1>11, <1>12

-----------------------------------------------------------------------------
(* The invariants hold *)

LEMMA OrderInit ==
  ASSUME Init
  PROVE  TypeInv /\ OrderInv
<1>1. <<>> \in Seq(AnyMessage) /\ <<>> \in Seq(Line)
  OBVIOUS
<1>2. TypeInv
  <2>1. history \in Seq(AnyMessage) /\ seed \in Seq(AnyMessage) /\ disk \in Seq(Line)
    BY <1>1, Zenon DEF Init
  <2>2. persisted \in Nat /\ parts \in Nat /\ parts <= MaxParts /\ resumes \in 0..MaxResumes
    BY BoundsAssumption DEF Init
  <2>3. /\ at \in {"idle", "paused", "stopping", "stopped"} /\ failed \in SUBSET Failure
        /\ drifted \in BOOLEAN /\ forgot \in BOOLEAN /\ steered \in BOOLEAN
    BY DEF Init
  <2>4. QED
    BY <2>1, <2>2, <2>3 DEF TypeInv
<1>3. Replay = <<>>
  BY <1>1, LoadNothing DEF Init, Replay
<1>4. Chain(<<>>) /\ Below(<<>>, 0)
  BY DEF Chain, Below
<1>5. Fits(<<>>, <<>>, 0)
  BY <1>1, <1>4, EmptyFits
<1>6. OrderInv
  BY <1>3, <1>4, <1>5 DEF Init, OrderInv
<1>7. QED
  BY <1>2, <1>6

LEMMA OrderNext ==
  ASSUME TypeInv, OrderInv, [Next]_vars
  PROVE  TypeInv' /\ OrderInv'
<1>1. CASE UNCHANGED vars
  BY <1>1, NothingWritten DEF vars, TypeInv, OrderInv
<1>2. CASE Next
  BY <1>2, PromptLegOrder, ResumeLegOrder, FinallyOrder, CascadeOrder, CompactCommandOrder,
     ClearOrder, ResumeOrder DEF Next
<1>3. QED
  BY <1>1, <1>2

LEMMA OrderHolds == Spec => [](TypeInv /\ OrderInv)
<1>1. Init => TypeInv /\ OrderInv
  BY OrderInit
<1>2. TypeInv /\ OrderInv /\ [Next]_vars => (TypeInv /\ OrderInv)'
  BY OrderNext
<1>3. QED
  BY <1>1, <1>2, PTL DEF Spec

(* However writes fail and cursors drift, the log never replays a part      *)
(* twice, nor a prompt or an answer in front of an earlier one (Persist,    *)
(* Take, Compact, Heal and Resume together).                                *)
THEOREM LogReplaysOnceInOrder == Spec => []ReplaysOnceInOrder
<1>1. ASSUME TypeInv, OrderInv PROVE ReplaysOnceInOrder
  <2>1. PICK r \in Seq(AnyMessage) : r = Replay
    BY <1>1, ReplayType
  <2>2. DOMAIN r = 1..Len(r)
    BY LenProperties
  <2>3. Chain(r)
    BY <1>1, <2>1 DEF OrderInv, Fits
  <2>4. ASSUME NEW i \in DOMAIN r, NEW j \in DOMAIN r, i < j
        PROVE  /\ \A n \in Ids(r[i]), k \in Ids(r[j]) :
                    n < k \/ NewPart("summary", n) \in r[i].parts
               /\ Returns(r[i]) \cap Returns(r[j]) = {}
    <3>1. Before(r[i], r[j])
      BY <2>2, <2>3, <2>4 DEF Chain
    <3>2. Returns(r[i]) \cap Returns(r[j]) = {}
      BY <3>1 DEF Before, ReturnIds
    <3>3. QED
      BY <3>1, <3>2 DEF Before
  <2>5. QED
    BY <2>1, <2>4 DEF ReplaysOnceInOrder, Ids
<1>2. QED
  BY <1>1, OrderHolds, PTL

-----------------------------------------------------------------------------
(* The log is the history *)

\* The markers that restart a replay have all been written.
Clean == failed \cap {"compaction", "clear", "glued"} = {}

FullBehind(h, cursor) == \A j \in 1..Len(h) : j > cursor => Full(h[j])

BodiesFull(lines) ==
  \A i \in 1..Len(lines) : lines[i].type = "messages" => FullBehind(lines[i].body, 0)

FaithInv ==
  /\ ~drifted => persisted <= Len(history)
  /\ ~drifted /\ Clean => Same(Replay, SubSeq(history, 1, persisted))
  /\ at = "idle" /\ "messages" \notin failed /\ ~drifted => persisted = Len(history)
  /\ at \in {"stopping", "stopped"} /\ "messages" \notin failed => persisted >= Len(history)
  /\ "messages" \notin failed => BodiesFull(disk) /\ FullBehind(history, persisted)

LEMMA FirstAndRest ==
  ASSUME NEW h \in Seq(AnyMessage), NEW n \in 0..Len(h)
  PROVE  SubSeq(h, 1, n) \o SubSeq(h, n + 1, Len(h)) = h
<1>1. PICK a \in Seq(AnyMessage) : a = SubSeq(h, 1, n) /\ Len(a) = n /\ \A i \in 1..n : a[i] = h[i]
  BY FirstOf
<1>2. PICK b : b = SubSeq(h, n + 1, Len(h))
  OBVIOUS
<1>b. /\ b \in Seq(AnyMessage) /\ Len(b) = Len(h) - n
      /\ \A i \in 1..(Len(h) - n) : b[i] = h[n + i]
  BY <1>2, RestOf
<1>3. PICK q : q = a \o b
  OBVIOUS
<1>4. /\ q \in Seq(AnyMessage) /\ Len(q) = Len(a) + Len(b)
      /\ \A i \in 1..(Len(a) + Len(b)) : q[i] = IF i <= Len(a) THEN a[i] ELSE b[i - Len(a)]
  <2>1. /\ a \o b \in Seq(AnyMessage) /\ Len(a \o b) = Len(a) + Len(b)
        /\ \A i \in 1..(Len(a) + Len(b)) :
             (a \o b)[i] = IF i <= Len(a) THEN a[i] ELSE b[i - Len(a)]
    BY <1>b, ConcatProperties, Zenon
  <2>2. QED
    BY <1>3, <2>1, Zenon
<1>5. Len(h) \in Nat /\ n \in Nat /\ Len(q) = Len(h)
  BY <1>1, <1>b, <1>4
<1>6. ASSUME NEW i \in 1..Len(h) PROVE q[i] = h[i]
  <2>1. CASE i <= n
    <3>1. i \in 1..n /\ i \in 1..(Len(a) + Len(b)) /\ i <= Len(a)
      BY <1>1, <1>b, <1>5, <2>1
    <3>2. QED
      BY <1>1, <1>4, <3>1
  <2>2. CASE ~(i <= n)
    <3>1. i - n \in 1..(Len(h) - n) /\ n + (i - n) = i
      BY <1>5, <2>2
    <3>2. b[i - n] = h[i]
      BY <1>b, <3>1
    <3>3. q[i] = b[i - n]
      BY <1>1, <1>b, <1>4, <1>5, <2>2
    <3>4. QED
      BY <3>2, <3>3
  <2>3. QED
    BY <2>1, <2>2
<1>7. q = h
  BY <1>4, <1>5, <1>6, SeqEqual
<1>8. QED
  BY <1>1, <1>2, <1>3, <1>7

LEMMA FirstAll ==
  ASSUME NEW h \in Seq(AnyMessage)
  PROVE  SubSeq(h, 1, Len(h)) = h
<1>1. Len(h) \in 0..Len(h)
  OBVIOUS
<1>2. PICK a : a = SubSeq(h, 1, Len(h)) /\ a \in Seq(AnyMessage) /\ Len(a) = Len(h)
               /\ \A i \in 1..Len(h) : a[i] = h[i]
  BY <1>1, FirstOf
<1>3. QED
  BY <1>2, SeqEqual

\* The part of a history in front of the cursor does not depend on what follows it.
LEMMA FirstSame ==
  ASSUME NEW g \in Seq(AnyMessage), NEW h \in Seq(AnyMessage), NEW n \in 0..Len(g), n <= Len(h),
         \A i \in 1..n : g[i] = h[i]
  PROVE  SubSeq(g, 1, n) = SubSeq(h, 1, n)
<1>1. n \in 0..Len(h)
  OBVIOUS
<1>2. PICK a : a = SubSeq(g, 1, n)
  OBVIOUS
<1>a. a \in Seq(AnyMessage) /\ Len(a) = n /\ \A i \in 1..n : a[i] = g[i]
  BY <1>2, FirstOf
<1>3. PICK b : b = SubSeq(h, 1, n)
  OBVIOUS
<1>b. b \in Seq(AnyMessage) /\ Len(b) = n /\ \A i \in 1..n : b[i] = h[i]
  BY <1>1, <1>3, FirstOf
<1>4. a = b
  BY <1>a, <1>b, SeqEqual
<1>5. QED
  BY <1>2, <1>3, <1>4

\* Persist keeps the log true to the history it is given.
LEMMA PersistFaith ==
  ASSUME TypeInv, NEW h \in Seq(AnyMessage), NEW cursor \in Nat, seed' = seed,
         \/ Persist(h, cursor)
         \/ persisted' = cursor /\ UNCHANGED <<disk, failed>>
  PROVE  /\ Clean' => Clean
         /\ "messages" \notin failed' => "messages" \notin failed
         /\ cursor <= Len(h) => persisted' <= Len(h)
         /\ Persist(h, cursor) /\ "messages" \notin failed' => persisted' >= Len(h)
         /\ Clean' /\ cursor <= Len(h) /\ Same(Replay, SubSeq(h, 1, cursor)) =>
              Same(Replay', SubSeq(h, 1, persisted'))
         /\ "messages" \notin failed' /\ BodiesFull(disk) /\ FullBehind(h, cursor) =>
              BodiesFull(disk') /\ FullBehind(h, persisted')
<1>1. CASE persisted' = cursor /\ UNCHANGED <<disk, failed>> /\ ~Persist(h, cursor)
  BY <1>1, NothingWritten DEF Clean
<1>2. CASE Persist(h, cursor)
  <2>1. /\ disk' \in Seq(Line)
        /\ \/ /\ Replay' = Replay /\ persisted' = cursor /\ disk' = disk
              /\ \/ cursor >= Len(h) /\ failed' = failed
                 \/ failed' = failed \cup {"messages"}
           \/ /\ Replay' = Replay /\ disk' = disk /\ failed' = failed \cup {"glued"}
              /\ cursor < Len(h) /\ persisted' = Len(h)
           \/ /\ cursor < Len(h) /\ persisted' = Len(h) /\ failed' = failed
              /\ Replay' = Replay \o SubSeq(h, cursor + 1, Len(h))
              /\ disk' = Append(disk, [type |-> "messages", body |-> SubSeq(h, cursor + 1, Len(h))])
    BY <1>2, PersistIs
  <2>2. CASE /\ Replay' = Replay /\ persisted' = cursor /\ disk' = disk
             /\ cursor >= Len(h) /\ failed' = failed
    BY <2>2 DEF Clean
  <2>3. CASE /\ Replay' = Replay /\ persisted' = cursor /\ disk' = disk
             /\ failed' = failed \cup {"messages"}
    BY <2>3 DEF Clean
  <2>4. CASE /\ cursor < Len(h) /\ persisted' = Len(h) /\ failed' = failed
             /\ Replay' = Replay \o SubSeq(h, cursor + 1, Len(h))
             /\ disk' = Append(disk, [type |-> "messages", body |-> SubSeq(h, cursor + 1, Len(h))])
    <3>1. cursor \in 0..Len(h) /\ Len(h) \in Nat
      BY <2>4
    <3>t. PICK t : t = SubSeq(h, cursor + 1, Len(h))
      OBVIOUS
    <3>2. /\ t \in Seq(AnyMessage) /\ Len(t) = Len(h) - cursor
          /\ \A i \in 1..(Len(h) - cursor) : t[i] = h[cursor + i]
      BY <3>1, <3>t, RestOf
    <3>3. PICK r \in Seq(AnyMessage) : r = Replay
      BY ReplayType
    <3>4. PICK a \in Seq(AnyMessage) : a = SubSeq(h, 1, cursor)
      BY <3>1, FirstOf
    <3>5. ASSUME Same(r, a) PROVE Same(Replay', SubSeq(h, 1, persisted'))
      <4>1. Same(r \o t, a \o t)
        BY <3>2, <3>5, SameBehind
      <4>2. a \o t = h
        BY <3>1, <3>t, <3>4, FirstAndRest
      <4>3. SubSeq(h, 1, Len(h)) = h
        BY FirstAll
      <4>4. QED
        BY <2>4, <3>t, <3>3, <4>1, <4>2, <4>3
    <3>6. FullBehind(h, persisted')
      <4>1. \A j \in 1..Len(h) : ~(j > Len(h))
        BY <3>1
      <4>2. QED
        BY <2>4, <4>1 DEF FullBehind
    <3>7. ASSUME BodiesFull(disk), FullBehind(h, cursor) PROVE BodiesFull(disk')
      <4>1. PICK line : line = [type |-> "messages", body |-> t]
        OBVIOUS
      <4>2. line \in Line /\ line.body = t
        BY <3>2, <4>1 DEF Line, LineType
      <4>3. FullBehind(t, 0)
        <5>1. ASSUME NEW i \in 1..Len(t) PROVE Full(t[i])
          <6>1. cursor + i \in 1..Len(h) /\ cursor + i > cursor /\ t[i] = h[cursor + i]
            BY <3>1, <3>2
          <6>2. QED
            BY <3>7, <6>1 DEF FullBehind
        <5>2. QED
          BY <5>1 DEF FullBehind
      <4>4. PICK d \in Seq(Line) : d = disk
        BY DEF TypeInv
      <4>5. PICK e : e = Append(d, line)
        OBVIOUS
      <4>6. /\ Len(e) = Len(d) + 1 /\ Len(d) \in Nat /\ e[Len(d) + 1] = line
            /\ \A i \in 1..Len(d) : e[i] = d[i]
        BY <4>2, <4>5, AppendProperties
      <4>7. ASSUME NEW i \in 1..Len(e), e[i].type = "messages" PROVE FullBehind(e[i].body, 0)
        <5>1. CASE i = Len(d) + 1
          BY <4>2, <4>3, <4>6, <5>1
        <5>2. CASE i # Len(d) + 1
          <6>1. i \in 1..Len(d) /\ e[i] = d[i]
            BY <4>6, <5>2
          <6>2. QED
            BY <3>7, <4>4, <4>7, <6>1 DEF BodiesFull
        <5>3. QED
          BY <5>1, <5>2
      <4>8. disk' = e
        BY <2>4, <3>t, <4>1, <4>4, <4>5
      <4>9. QED
        BY <4>7, <4>8 DEF BodiesFull
    <3>8. QED
      BY <2>4, <3>1, <3>3, <3>4, <3>5, <3>6, <3>7 DEF Clean
  <2>5. CASE /\ Replay' = Replay /\ disk' = disk /\ failed' = failed \cup {"glued"}
             /\ cursor < Len(h) /\ persisted' = Len(h)
    <3>1. FullBehind(h, persisted') /\ persisted' <= Len(h) /\ persisted' >= Len(h)
      <4>1. Len(h) \in Nat /\ \A j \in 1..Len(h) : ~(j > Len(h))
        OBVIOUS
      <4>2. QED
        BY <2>5, <4>1 DEF FullBehind
    <3>2. ~Clean'
      BY <2>5 DEF Clean
    <3>3. QED
      BY <2>5, <3>1, <3>2 DEF Clean
  <2>6. QED
    BY <2>1, <2>2, <2>3, <2>4, <2>5
<1>3. QED
  BY <1>1, <1>2

\* A history with full messages behind it.
Extends(prior, h) ==
  /\ Len(h) <= Len(prior) /\ \A i \in 1..Len(h) : prior[i] = h[i]
  /\ FullBehind(prior, Len(h))

\* What a leg keeps in front of the cursor is what the log replays to.
LEMMA KeptIsLogged ==
  ASSUME TypeInv, FaithInv, NEW prior \in Seq(AnyMessage), Extends(prior, history),
         NEW reliable \in BOOLEAN, Drifts(prior, reliable), ~drifted',
         NEW cursor, cursor = IF reliable THEN Clamp(prior) ELSE persisted
  PROVE  /\ ~drifted /\ cursor \in 0..Len(Coalesce(prior))
         /\ Clean => Same(Replay, SubSeq(Coalesce(prior), 1, cursor))
<1>1. PICK c \in Seq(AnyMessage) : c = Coalesce(prior)
  BY CoalesceType
<1>2. /\ Len(c) \in Nat /\ Len(prior) \in Nat /\ Len(history) \in Nat /\ persisted \in Nat
      /\ Len(c) <= Len(prior) /\ history \in Seq(AnyMessage)
      /\ Len(c) = Len(prior) => c = prior
  BY <1>1, CoalesceShortens DEF TypeInv
<1>3. ~drifted /\ ~(Len(c) < Len(prior) /\ (~reliable \/ persisted < Len(prior)))
  BY <1>1 DEF Drifts, TypeInv
<1>4. persisted <= Len(history) /\ (Clean => Same(Replay, SubSeq(history, 1, persisted)))
  BY <1>3 DEF FaithInv
<1>5. CASE Len(c) = Len(prior)
  <2>1. c = prior /\ persisted <= Len(c) /\ persisted <= Len(history)
    BY <1>2, <1>4, <1>5 DEF Extends
  <2>2. cursor = persisted
    <3>1. Clamp(prior) \in Nat /\ Clamp(prior) \in {persisted, Len(c)} /\ Clamp(prior) <= persisted
      BY <1>1, ClampIs
    <3>2. Clamp(prior) = persisted
      BY <1>2, <2>1, <3>1
    <3>3. QED
      BY <3>2
  <2>3. persisted \in 0..Len(history) /\ \A i \in 1..persisted : history[i] = prior[i]
    <3>1. \A i \in 1..persisted : i \in 1..Len(history)
      BY <1>2, <2>1
    <3>2. QED
      BY <1>2, <2>1, <3>1 DEF Extends
  <2>4. SubSeq(history, 1, persisted) = SubSeq(prior, 1, persisted)
    BY <1>2, <2>1, <2>3, FirstSame
  <2>5. cursor \in 0..Len(c)
    BY <1>2, <2>1, <2>2
  <2>6. Clean => Same(Replay, SubSeq(c, 1, cursor))
    BY <1>4, <2>1, <2>2, <2>4
  <2>7. QED
    BY <1>1, <1>3, <2>5, <2>6
<1>6. CASE Len(c) # Len(prior)
  <2>1. reliable /\ persisted >= Len(prior)
    BY <1>2, <1>3, <1>6
  <2>2. Len(history) = Len(prior) /\ persisted = Len(prior)
    BY <1>2, <1>4, <2>1 DEF Extends
  <2>3. prior = history
    BY <1>2, <2>2, SeqEqual DEF Extends
  <2>4. cursor = Len(c)
    <3>1. /\ Clamp(prior) \in Nat /\ Clamp(prior) \in {persisted, Len(c)}
          /\ Clamp(prior) <= Len(c)
      BY <1>1, ClampIs
    <3>2. Clamp(prior) = Len(c)
      BY <1>2, <1>6, <2>2, <3>1
    <3>3. QED
      BY <2>1, <3>2
  <2>5. PICK r \in Seq(AnyMessage) : r = Replay
    BY ReplayType
  <2>6. SubSeq(history, 1, persisted) = prior /\ SubSeq(c, 1, cursor) = c
    BY <2>2, <2>3, <2>4, FirstAll
  <2>7. ASSUME Clean PROVE Same(r, c)
    <3>1. Same(r, prior)
      BY <1>4, <2>5, <2>6, <2>7
    <3>2. QED
      BY <1>1, <3>1, SameCoalesced
  <2>8. cursor \in 0..Len(c)
    BY <1>2, <2>4
  <2>9. Clean => Same(Replay, SubSeq(c, 1, cursor))
    BY <2>5, <2>6, <2>7
  <2>10. QED
    BY <1>1, <1>3, <2>8, <2>9
<1>7. QED
  BY <1>5, <1>6

\* What is behind the cursor of a leg's history is as it was made.
LEMMA NewIsFull ==
  ASSUME TypeInv, FullBehind(history, persisted), NEW prior \in Seq(AnyMessage),
         Extends(prior, history), NEW new \in Seq(AnyMessage), FullBehind(new, 0),
         NEW cursor \in {persisted, Clamp(prior)}
  PROVE  FullBehind(Coalesce(prior) \o new, cursor)
<1>1. PICK c \in Seq(AnyMessage) : c = Coalesce(prior)
  BY CoalesceType
<1>2. PICK h : h = c \o new
  OBVIOUS
<1>3. /\ h \in Seq(AnyMessage) /\ Len(h) = Len(c) + Len(new)
      /\ \A i \in 1..(Len(c) + Len(new)) : h[i] = IF i <= Len(c) THEN c[i] ELSE new[i - Len(c)]
  BY <1>2, ConcatProperties
<1>4. Len(c) \in Nat /\ Len(new) \in Nat /\ Len(prior) \in Nat /\ Len(history) \in Nat
      /\ persisted \in Nat /\ cursor \in Nat
  <2>1. Clamp(prior) \in Nat
    BY ClampIs
  <2>2. history \in Seq(AnyMessage) /\ persisted \in Nat
    BY DEF TypeInv
  <2>3. QED
    BY <2>1, <2>2
<1>5. PICK g : Groups(g, prior, c)
  BY <1>1, CoalesceGroups
<1>6. \A i \in 1..Len(prior) : i > persisted => Full(prior[i])
  <2>1. ASSUME NEW i \in 1..Len(prior), i > persisted PROVE Full(prior[i])
    <3>1. CASE i <= Len(history)
      <4>1. i \in 1..Len(history)
        BY <1>4, <3>1
      <4>2. QED
        BY <2>1, <4>1 DEF Extends, FullBehind
    <3>2. CASE i > Len(history)
      BY <3>2 DEF Extends, FullBehind
    <3>3. QED
      BY <1>4, <3>1, <3>2
  <2>2. QED
    BY <2>1
<1>7. ASSUME NEW j \in 1..Len(h), j > cursor PROVE Full(h[j])
  <2>1. CASE j > Len(c)
    <3>1. j - Len(c) \in 1..Len(new) /\ h[j] = new[j - Len(c)] /\ j - Len(c) > 0
      BY <1>3, <1>4, <2>1
    <3>2. QED
      BY <3>1 DEF FullBehind
  <2>2. CASE j <= Len(c)
    <3>1. j \in 1..Len(c) /\ h[j] = c[j]
      BY <1>3, <1>4, <2>2
    <3>2. cursor = persisted
      <4>1. Clamp(prior) \in {persisted, Len(c)}
        BY <1>1, ClampIs
      <4>2. QED
        BY <1>4, <1>7, <2>2, <4>1
    <3>3. ASSUME NEW p \in c[j].parts PROVE p.full
      <4>1. PICK i \in 1..Len(prior) : g[i] = j /\ p \in prior[i].parts
        BY <1>5, <3>1 DEF Groups
      <4>2. j <= i
        BY <1>5, <4>1 DEF Groups
      <4>3. i > persisted
        BY <1>4, <1>7, <3>2, <4>2
      <4>4. QED
        BY <1>6, <4>1, <4>3 DEF Full
    <3>4. QED
      BY <3>1, <3>3 DEF Full
  <2>3. QED
    BY <1>3, <1>4, <2>1, <2>2
<1>8. QED
  BY <1>1, <1>2, <1>7 DEF FullBehind

LEMMA LegFaith ==
  ASSUME TypeInv, FaithInv, NEW prior \in Seq(AnyMessage), Extends(prior, history),
         NEW new \in Seq(AnyMessage), FullBehind(new, 0), Leg(prior, new), seed' = seed
  PROVE  FaithInv'
<1>1. PICK c \in Seq(AnyMessage) : c = Coalesce(prior)
  BY CoalesceType
<1>2. PICK h : h = c \o new
  OBVIOUS
<1>3. /\ h \in Seq(AnyMessage) /\ Len(h) = Len(c) + Len(new)
      /\ \A i \in 1..(Len(c) + Len(new)) : h[i] = IF i <= Len(c) THEN c[i] ELSE new[i - Len(c)]
  BY <1>2, ConcatProperties
<1>4. history' = h
  BY <1>1, <1>2 DEF Leg, LegAnswers, LegPauses, LegCrashes, Take
<1>5. PICK reliable \in BOOLEAN, cursor \in Nat :
        /\ Drifts(prior, reliable)
        /\ cursor = IF reliable THEN Clamp(prior) ELSE persisted
        /\ \/ at' \in {"stopping", "idle"} /\ Persist(h, cursor)
           \/ at' = "paused" /\ persisted' = cursor /\ UNCHANGED <<disk, failed>>
        /\ at' = "idle" => ~reliable
  <2>1. persisted \in Nat /\ Clamp(prior) \in Nat
    BY ClampIs DEF TypeInv
  <2>2. CASE LegAnswers(prior, new)
    <3>1. Persist(h, Clamp(prior)) /\ at' = "stopping" /\ Drifts(prior, TRUE)
      BY <1>4, <2>2 DEF LegAnswers
    <3>2. QED
      BY <2>1, <3>1
  <2>3. CASE LegPauses(prior, new)
    <3>1. persisted' = Clamp(prior) /\ at' = "paused" /\ Drifts(prior, TRUE) /\ UNCHANGED <<disk, failed>>
      BY <2>3 DEF LegPauses
    <3>2. QED
      BY <2>1, <3>1
  <2>4. CASE LegCrashes(prior, new)
    <3>1. Persist(h, persisted) /\ at' = "idle" /\ Drifts(prior, FALSE)
      BY <1>4, <2>4 DEF LegCrashes
    <3>2. QED
      BY <2>1, <3>1
  <2>5. QED
    BY <2>2, <2>3, <2>4 DEF Leg
<1>6. /\ Clean' => Clean
      /\ "messages" \notin failed' => "messages" \notin failed
      /\ cursor <= Len(h) => persisted' <= Len(h)
      /\ Persist(h, cursor) /\ "messages" \notin failed' => persisted' >= Len(h)
      /\ Clean' /\ cursor <= Len(h) /\ Same(Replay, SubSeq(h, 1, cursor)) =>
           Same(Replay', SubSeq(h, 1, persisted'))
      /\ "messages" \notin failed' /\ BodiesFull(disk) /\ FullBehind(h, cursor) =>
           BodiesFull(disk') /\ FullBehind(h, persisted')
  <2>1. \/ Persist(h, cursor)
        \/ persisted' = cursor /\ UNCHANGED <<disk, failed>>
    BY <1>5
  <2>2. QED
    BY <1>3, <2>1, PersistFaith
<1>7. ASSUME ~drifted'
      PROVE  /\ cursor <= Len(h)
             /\ Clean => Same(Replay, SubSeq(h, 1, cursor))
  <2>1. /\ cursor \in 0..Len(c)
        /\ Clean => Same(Replay, SubSeq(c, 1, cursor))
    BY <1>1, <1>5, <1>7, KeptIsLogged
  <2>2. Len(c) \in Nat /\ Len(new) \in Nat
    OBVIOUS
  <2>3. cursor <= Len(h) /\ \A i \in 1..cursor : c[i] = h[i]
    BY <1>3, <2>1, <2>2
  <2>4. SubSeq(c, 1, cursor) = SubSeq(h, 1, cursor)
    BY <1>3, <2>1, <2>3, FirstSame
  <2>5. QED
    BY <2>1, <2>3, <2>4
<1>8. ASSUME "messages" \notin failed' PROVE BodiesFull(disk') /\ FullBehind(h, persisted')
  <2>1. BodiesFull(disk) /\ FullBehind(history, persisted)
    BY <1>6, <1>8 DEF FaithInv
  <2>2. cursor \in {persisted, Clamp(prior)}
    BY <1>5
  <2>3. FullBehind(h, cursor)
    BY <1>1, <1>2, <2>1, <2>2, NewIsFull
  <2>4. QED
    BY <1>6, <1>8, <2>1, <2>3
<1>9. Len(h) \in Nat /\ persisted' \in Nat
  <2>1. CASE Persist(h, cursor)
    <3>1. h \in Seq(AnyMessage) /\ Len(h) \in Nat
      BY <1>3
    <3>2. persisted' \in Nat
      BY <2>1, <3>1, PersistIs
    <3>3. QED
      BY <3>1, <3>2
  <2>2. CASE persisted' = cursor
    BY <1>3, <2>2
  <2>3. QED
    BY <1>5, <2>1, <2>2
<1>10. at' = "idle" /\ "messages" \notin failed' /\ ~drifted' => persisted' = Len(h)
  BY <1>5, <1>6, <1>7, <1>9
<1>11. at' \in {"stopping", "stopped"} /\ "messages" \notin failed' => persisted' >= Len(h)
  BY <1>5, <1>6
<1>12. QED
  BY <1>4, <1>6, <1>7, <1>8, <1>10, <1>11 DEF FaithInv

LEMMA TailFull ==
  ASSUME NEW first \in AnyMessage, Full(first), NEW k \in Nat \ {0}, NEW tail \in Tails(k)
  PROVE  <<first>> \o tail \in Seq(AnyMessage) /\ FullBehind(<<first>> \o tail, 0)
<1>1. PICK call \in AnyMessage, return \in AnyMessage, text \in AnyMessage, last \in AnyMessage :
        /\ Full(call) /\ Full(return) /\ Full(text) /\ Full(last)
        /\ tail \in {<<>>, <<text>>, <<call>>, <<call, return>>, <<call, return, last>>}
  <2>1. PICK call, return, text, last \in AnyMessage :
           /\ Carries(text, "model", {k}, {}, {}) /\ Carries(call, "model", {k}, {k}, {})
           /\ Carries(return, "user", {}, {}, {k}) /\ Carries(last, "model", {k + 1}, {}, {})
           /\ return = Answer(call)
           /\ tail \in {<<>>, <<text>>, <<call>>, <<call, return>>, <<call, return, last>>}
    BY TailIs
  <2>2. Full(call) /\ Full(return) /\ Full(text) /\ Full(last)
    BY <2>1 DEF Carries
  <2>3. QED
    BY <2>1, <2>2
<1>2. PICK q : q = <<first>> \o tail
  OBVIOUS
<1>3. tail \in Seq(AnyMessage) /\ Len(tail) \in Nat /\ \A i \in 1..Len(tail) : Full(tail[i])
  <2>1. CASE tail = <<>>
    <3>1. <<>> \in Seq(AnyMessage)
      OBVIOUS
    <3>2. tail \in Seq(AnyMessage) /\ Len(tail) = 0
      BY <2>1, <3>1, Zenon, LenProperties, EmptySeq
    <3>3. QED
      BY <3>2
  <2>2. CASE tail = <<text>>
    BY <1>1, <2>2
  <2>3. CASE tail = <<call>>
    BY <1>1, <2>3
  <2>4. CASE tail = <<call, return>>
    BY <1>1, <2>4
  <2>5. CASE tail = <<call, return, last>>
    BY <1>1, <2>5
  <2>6. QED
    BY <1>1, <2>1, <2>2, <2>3, <2>4, <2>5
<1>4. <<first>> \in Seq(AnyMessage) /\ Len(<<first>>) = 1 /\ <<first>>[1] = first
  OBVIOUS
<1>5. /\ q \in Seq(AnyMessage) /\ Len(q) = 1 + Len(tail)
      /\ \A i \in 1..(1 + Len(tail)) : q[i] = IF i <= 1 THEN <<first>>[i] ELSE tail[i - 1]
  BY <1>2, <1>3, <1>4, ConcatProperties
<1>6. ASSUME NEW i \in 1..Len(q) PROVE Full(q[i])
  <2>1. CASE i = 1
    BY <1>3, <1>4, <1>5, <2>1
  <2>2. CASE i # 1
    <3>1. i - 1 \in 1..Len(tail) /\ q[i] = tail[i - 1]
      BY <1>3, <1>5, <2>2
    <3>2. QED
      BY <1>3, <3>1
  <2>3. QED
    BY <2>1, <2>2
<1>7. QED
  BY <1>2, <1>5, <1>6 DEF FullBehind

LEMMA ExtendsAppend ==
  ASSUME NEW h \in Seq(AnyMessage), NEW m \in AnyMessage, Full(m)
  PROVE  Append(h, m) \in Seq(AnyMessage) /\ Extends(Append(h, m), h) /\ Extends(h, h)
<1>1. PICK q : q = Append(h, m)
  OBVIOUS
<1>2. /\ q \in Seq(AnyMessage) /\ Len(q) = Len(h) + 1 /\ Len(h) \in Nat /\ q[Len(h) + 1] = m
      /\ \A i \in 1..Len(h) : q[i] = h[i]
  BY <1>1, AppendProperties
<1>3. \A i \in 1..Len(q) : i > Len(h) => i = Len(h) + 1
  BY <1>2
<1>4. \A i \in 1..Len(h) : ~(i > Len(h))
  BY <1>2
<1>5. Extends(h, h)
  BY <1>2, <1>4 DEF Extends, FullBehind
<1>6. Len(h) <= Len(q)
  BY <1>2
<1>7. QED
  BY <1>1, <1>2, <1>3, <1>5, <1>6 DEF Extends, FullBehind

LEMMA HealExtends ==
  ASSUME NEW h \in Seq(AnyMessage)
  PROVE  Heal(h) \in Seq(AnyMessage) /\ Extends(Heal(h), h)
<1>1. CASE Heal(h) = h
  <2>1. \A i \in 1..Len(h) : ~(i > Len(h))
    OBVIOUS
  <2>2. Len(h) <= Len(h)
    OBVIOUS
  <2>3. QED
    BY <1>1, <2>1, <2>2 DEF Extends, FullBehind
<1>2. CASE /\ h # <<>> /\ CallIds(Last(h)) # {}
           /\ Heal(h) = Append(h, Answer(Last(h)))
  <2>1. PICK m \in AnyMessage : m = Last(h)
    BY <1>2, FrontAndLast
  <2>2. Answer(m) \in AnyMessage /\ Full(Answer(m))
    BY AnswerCarries DEF Carries
  <2>3. QED
    BY <1>2, <2>1, <2>2, ExtendsAppend
<1>3. QED
  BY <1>1, <1>2, HealIs

LEMMA PromptLegFaith ==
  ASSUME TypeInv, FaithInv, PromptLeg
  PROVE  FaithInv'
<1>1. PICK prior, n, k, first, tail :
        /\ prior = Heal(history) /\ n = parts + 1 /\ k = parts + 2
        /\ n \in Nat \ {0} /\ k \in Nat \ {0}
        /\ Carries(first, "user", {n}, {}, {}) /\ tail \in Tails(k)
        /\ Leg(prior, <<first>> \o tail)
  BY PromptLegIs
<1>2. prior \in Seq(AnyMessage) /\ Extends(prior, history)
  BY <1>1, HealExtends DEF TypeInv
<1>3. first \in AnyMessage /\ Full(first)
  BY <1>1 DEF Carries
<1>4. PICK new : new = <<first>> \o tail
  OBVIOUS
<1>5. new \in Seq(AnyMessage) /\ FullBehind(new, 0)
  BY <1>1, <1>3, <1>4, TailFull
<1>6. seed' = seed
  BY DEF PromptLeg
<1>7. QED
  BY <1>1, <1>2, <1>4, <1>5, <1>6, LegFaith

LEMMA ResumeLegFaith ==
  ASSUME TypeInv, OrderInv, FaithInv, ResumeLeg
  PROVE  FaithInv'
<1>1. history \in Seq(AnyMessage) /\ parts \in Nat
  BY DEF TypeInv
<1>2. PICK steer, prior, k, m : ResumeLegIs(steer, prior, k, m)
  BY SomeResumeLeg
<1>3. PICK first : first = Answer(m)
  OBVIOUS
<1>4. /\ k \in Nat \ {0} /\ m \in AnyMessage
      /\ prior = IF steer THEN Append(history, Request("prompt", parts + 1)) ELSE history
      /\ \/ \E tail \in Tails(k) : Leg(prior, <<first>> \o tail)
         \/ LegCrashes(prior, <<>>)
  BY <1>2, <1>3 DEF ResumeLegIs
<1>5. first \in AnyMessage /\ Full(first)
  BY <1>3, <1>4, AnswerCarries DEF Carries
<1>6. prior \in Seq(AnyMessage) /\ Extends(prior, history)
  <2>1. PICK s : s = Request("prompt", parts + 1)
    OBVIOUS
  <2>2. parts + 1 \in Nat \ {0}
    BY <1>1
  <2>3. s \in AnyMessage /\ Full(s)
    BY <2>1, <2>2, RequestCarries DEF Carries
  <2>4. Append(history, s) \in Seq(AnyMessage) /\ Extends(Append(history, s), history)
        /\ Extends(history, history)
    BY <1>1, <2>3, ExtendsAppend
  <2>5. prior = Append(history, s) \/ prior = history
    BY <1>4, <2>1
  <2>6. QED
    BY <1>1, <2>4, <2>5
<1>7. seed' = seed
  BY DEF ResumeLeg
<1>8. CASE LegCrashes(prior, <<>>)
  <2>1. PICK none \in Seq(AnyMessage) : none = <<>>
    <3>1. <<>> \in Seq(AnyMessage)
      OBVIOUS
    <3>2. QED
      BY <3>1, Zenon
  <2>2. FullBehind(none, 0) /\ Leg(prior, none)
    BY <1>8, <2>1 DEF FullBehind, Leg
  <2>3. QED
    BY <1>6, <1>7, <2>2, LegFaith
<1>9. CASE \E tail \in Tails(k) : Leg(prior, <<first>> \o tail)
  <2>1. PICK tail \in Tails(k) : Leg(prior, <<first>> \o tail)
    BY <1>9
  <2>2. PICK new : new = <<first>> \o tail
    OBVIOUS
  <2>3. new \in Seq(AnyMessage) /\ FullBehind(new, 0)
    BY <1>4, <1>5, <2>2, TailFull
  <2>4. QED
    BY <1>6, <1>7, <2>1, <2>2, <2>3, LegFaith
<1>10. QED
  BY <1>4, <1>8, <1>9

\* Abort and EndTurn write what is behind the cursor.
LEMMA FinallyFaith ==
  ASSUME TypeInv, FaithInv, Abort \/ EndTurn
  PROVE  FaithInv'
<1>1. /\ at' = "idle" /\ Persist(history, persisted)
      /\ UNCHANGED <<history, seed, drifted>>
  BY DEF Abort, EndTurn
<1>2. PICK h \in Seq(AnyMessage) : h = history
  BY DEF TypeInv
<1>3. PICK cursor \in Nat : cursor = persisted
  BY DEF TypeInv
<1>4. Persist(h, cursor) /\ seed' = seed
  BY <1>1, <1>2, <1>3
<1>5. /\ Clean' => Clean
      /\ "messages" \notin failed' => "messages" \notin failed
      /\ cursor <= Len(h) => persisted' <= Len(h)
      /\ Persist(h, cursor) /\ "messages" \notin failed' => persisted' >= Len(h)
      /\ Clean' /\ cursor <= Len(h) /\ Same(Replay, SubSeq(h, 1, cursor)) =>
           Same(Replay', SubSeq(h, 1, persisted'))
      /\ "messages" \notin failed' /\ BodiesFull(disk) /\ FullBehind(h, cursor) =>
           BodiesFull(disk') /\ FullBehind(h, persisted')
  BY <1>4, PersistFaith
<1>6. persisted' \in Nat /\ Len(h) \in Nat
  <2>1. persisted' \in Nat
    BY <1>4, PersistIs
  <2>2. QED
    BY <2>1
<1>7. history' = h
  BY <1>1, <1>2
<1>8. ~drifted' => persisted' <= Len(h)
  BY <1>1, <1>2, <1>3, <1>5 DEF FaithInv
<1>9. ~drifted' /\ Clean' => Same(Replay', SubSeq(h, 1, persisted'))
  BY <1>1, <1>2, <1>3, <1>5 DEF FaithInv
<1>10. "messages" \notin failed' => BodiesFull(disk') /\ FullBehind(h, persisted')
  BY <1>2, <1>3, <1>5 DEF FaithInv
<1>11. "messages" \notin failed' => persisted' >= Len(h)
  BY <1>4, <1>5
<1>12. QED
  BY <1>1, <1>6, <1>7, <1>8, <1>9, <1>10, <1>11 DEF FaithInv

LEMMA BodiesMore ==
  ASSUME NEW lines \in Seq(Line), BodiesFull(lines), NEW line \in Line,
         line.type # "messages"
  PROVE  BodiesFull(Append(lines, line))
<1>1. PICK e : e = Append(lines, line)
  OBVIOUS
<1>2. /\ Len(e) = Len(lines) + 1 /\ Len(lines) \in Nat /\ e[Len(lines) + 1] = line
      /\ \A i \in 1..Len(lines) : e[i] = lines[i]
  BY <1>1, AppendProperties
<1>3. ASSUME NEW i \in 1..Len(e), e[i].type = "messages" PROVE FullBehind(e[i].body, 0)
  <2>1. i # Len(lines) + 1
    BY <1>2, <1>3
  <2>2. i \in 1..Len(lines) /\ e[i] = lines[i]
    BY <1>2, <2>1
  <2>3. QED
    BY <1>3, <2>2 DEF BodiesFull
<1>4. QED
  BY <1>1, <1>3 DEF BodiesFull

LEMMA NothingBehind ==
  ASSUME NEW h \in Seq(AnyMessage), NEW n \in Nat, n >= Len(h)
  PROVE  FullBehind(h, n)
<1>1. \A j \in 1..Len(h) : ~(j > n)
  OBVIOUS
<1>2. QED
  BY <1>1 DEF FullBehind

\* The log holds the history whole, or could not be given the marker.
LEMMA FaithReached ==
  ASSUME NEW h \in Seq(AnyMessage), history' = h, persisted' = Len(h), Clean' => Replay' = h,
         "messages" \notin failed' => BodiesFull(disk')
  PROVE  FaithInv'
<1>1. FullBehind(h, Len(h)) /\ SubSeq(h, 1, Len(h)) = h /\ Len(h) \in Nat /\ Len(h) <= Len(h)
  BY NothingBehind, FirstAll
<1>2. Same(h, h)
  BY DEF Same
<1>3. FullBehind(history', persisted') /\ persisted' <= Len(history') /\ persisted' >= Len(history')
      /\ SubSeq(history', 1, persisted') = h /\ persisted' = Len(history')
  BY <1>1
<1>4. Clean' => Same(Replay', SubSeq(history', 1, persisted'))
  BY <1>2, <1>3
<1>5. QED
  BY <1>3, <1>4 DEF FaithInv

\* A history is written whole by a marker, or the marker fails.
LEMMA MarkerFaith ==
  ASSUME TypeInv, FaithInv, NEW h \in Seq(AnyMessage), NEW type \in {"compaction", "clear"},
         history' = h, persisted' = Len(h), Wrote(type, h) \/ Missed(type), seed' = seed,
         drifted' = drifted
  PROVE  FaithInv'
<1>1. type \in LineType /\ type # "messages"
  BY DEF LineType
<1>3. CASE Wrote(type, h)
  <2>1. /\ failed' = failed /\ Replay' = h
        /\ disk' = Append(disk, [type |-> type, body |-> h])
    BY <1>1, <1>3, WroteReads
  <2>2. ASSUME BodiesFull(disk) PROVE BodiesFull(disk')
    <3>1. PICK line : line = [type |-> type, body |-> h]
      OBVIOUS
    <3>2. line \in Line /\ line.type # "messages"
      BY <1>1, <3>1 DEF Line
    <3>3. disk \in Seq(Line)
      BY DEF TypeInv
    <3>4. QED
      BY <2>1, <2>2, <3>1, <3>2, <3>3, BodiesMore
  <2>3. "messages" \notin failed' => BodiesFull(disk')
    BY <2>1, <2>2 DEF FaithInv
  <2>4. QED
    BY <2>1, <2>3, FaithReached
<1>4. CASE Missed(type)
  <2>1. failed' \in {failed \cup {type}, failed \cup {"glued"}} /\ disk' = disk
    BY <1>4 DEF Missed, WroteBehindHalf, WriteFailed
  <2>2. ~Clean'
    BY <2>1 DEF Clean
  <2>3. "messages" \notin failed' => BodiesFull(disk')
    BY <2>1 DEF FaithInv
  <2>4. QED
    BY <2>2, <2>3, FaithReached
<1>5. QED
  BY <1>3, <1>4

LEMMA CompactFaith ==
  ASSUME TypeInv, FaithInv, NEW cut \in 0..Len(history), Compact(cut),
         UNCHANGED <<seed, drifted>>
  PROVE  FaithInv'
<1>1. PICK h \in Seq(AnyMessage) : h = history
  BY DEF TypeInv
<1>2. PICK n \in Nat : n = parts
  BY DEF TypeInv
<1>3. PICK split \in 0..Len(h) : split = SplitTail(h, cut)
  BY <1>1, SplitTailIs
<1>4. PICK k : k = CompactedTo(h, split, n + 1)
  OBVIOUS
<1>5. n + 1 \in Nat \ {0}
  OBVIOUS
<1>6. k \in Seq(AnyMessage)
  BY <1>4, <1>5, CompactedIs
<1>7. /\ history' = k /\ persisted' = Len(k)
      /\ Wrote("compaction", k) \/ Missed("compaction")
  BY <1>1, <1>2, <1>3, <1>4 DEF Compact, CompactedTo
<1>8. QED
  BY <1>6, <1>7, MarkerFaith

LEMMA CascadeFaith ==
  ASSUME TypeInv, FaithInv, Cascade
  PROVE  FaithInv'
<1>1. at = "stopping" /\ at' = "stopped" /\ UNCHANGED <<seed, drifted>>
  BY DEF Cascade
<1>2. CASE UNCHANGED <<history, persisted, disk, parts, failed>>
  BY <1>1, <1>2, NothingWritten DEF FaithInv, Clean
<1>3. CASE \E cut \in 0..Len(history) : Compact(cut)
  BY <1>1, <1>3, CompactFaith
<1>4. CASE \E cut \in 0..Len(history) :
             /\ history' = Microcompacted(history, SplitTail(history, cut))
             /\ UNCHANGED <<persisted, disk, parts, failed>>
  <2>1. PICK h \in Seq(AnyMessage) : h = history
    BY DEF TypeInv
  <2>2. PICK cut \in 0..Len(h) : history' = Microcompacted(h, SplitTail(h, cut))
    BY <1>4, <2>1
  <2>3. PICK split \in 0..Len(h) : split = SplitTail(h, cut)
    BY SplitTailIs
  <2>4. PICK k : k = Microcompacted(h, split)
    OBVIOUS
  <2>5. k \in Seq(AnyMessage) /\ Len(k) = Len(h) /\ \A i \in 1..Len(h) : Filled(k[i]) = Filled(h[i])
    BY <2>4, MicrocompactedIs
  <2>6. history' = k /\ UNCHANGED <<persisted, disk, parts, failed>>
    BY <1>4, <2>2, <2>3, <2>4
  <2>7. PICK n \in Nat : n = persisted
    BY DEF TypeInv
  <2>8. Replay' = Replay
    BY <1>1, <2>6, NothingWritten
  <2>9. ASSUME n <= Len(h) PROVE Unblanked(SubSeq(k, 1, n)) = Unblanked(SubSeq(h, 1, n))
    <3>1. n \in 0..Len(h) /\ n \in 0..Len(k)
      BY <2>5, <2>9
    <3>2. PICK a : a = SubSeq(k, 1, n)
      OBVIOUS
    <3>a. a \in Seq(AnyMessage) /\ Len(a) = n /\ \A i \in 1..n : a[i] = k[i]
      BY <2>5, <3>1, <3>2, FirstOf
    <3>3. PICK b : b = SubSeq(h, 1, n)
      OBVIOUS
    <3>4. b \in Seq(AnyMessage) /\ Len(b) = n /\ \A i \in 1..n : b[i] = h[i]
      BY <3>1, <3>3, FirstOf
    <3>5. PICK u : u = Unblanked(a)
      OBVIOUS
    <3>u. u \in Seq(AnyMessage) /\ Len(u) = n /\ \A i \in 1..n : u[i] = Filled(a[i])
      BY <3>a, <3>5, UnblankedHistory
    <3>6. PICK v : v = Unblanked(b)
      OBVIOUS
    <3>7. v \in Seq(AnyMessage) /\ Len(v) = n /\ \A i \in 1..n : v[i] = Filled(b[i])
      BY <3>4, <3>6, UnblankedHistory
    <3>8. ASSUME NEW i \in 1..n PROVE u[i] = v[i]
      <4>1. i \in 1..Len(h)
        BY <2>9
      <4>2. QED
        BY <2>5, <3>a, <3>4, <3>u, <3>7, <4>1
    <3>9. u = v
      BY <3>u, <3>7, <3>8, SeqEqual
    <3>10. QED
      BY <3>2, <3>3, <3>5, <3>6, <3>9
  <2>10. ASSUME ~drifted, Clean PROVE Same(Replay, SubSeq(k, 1, n))
    <3>1. n <= Len(h) /\ Same(Replay, SubSeq(h, 1, n))
      BY <2>1, <2>7, <2>10 DEF FaithInv
    <3>2. QED
      BY <2>9, <3>1 DEF Same
  <2>11. ASSUME "messages" \notin failed PROVE BodiesFull(disk) /\ FullBehind(k, n) /\ n >= Len(k)
    <3>1. BodiesFull(disk) /\ n >= Len(k)
      BY <1>1, <2>1, <2>5, <2>7, <2>11 DEF FaithInv
    <3>2. QED
      BY <2>5, <3>1, NothingBehind
  <2>12. ~drifted => n <= Len(k)
    BY <2>1, <2>5, <2>7 DEF FaithInv
  <2>13. QED
    BY <1>1, <2>6, <2>7, <2>8, <2>10, <2>11, <2>12 DEF FaithInv, Clean
<1>5. QED
  BY <1>2, <1>3, <1>4 DEF Cascade

LEMMA ClearFaith ==
  ASSUME TypeInv, FaithInv, Clear
  PROVE  FaithInv'
<1>1. PICK none \in Seq(AnyMessage) : none = <<>>
  <2>1. <<>> \in Seq(AnyMessage)
    OBVIOUS
  <2>2. QED
    BY <2>1, Zenon
<1>2. Len(none) = 0
  BY <1>1
<1>3. /\ history' = none /\ persisted' = Len(none) /\ seed' = seed /\ drifted' = drifted
      /\ Wrote("clear", none) \/ Missed("clear")
  BY <1>1, <1>2 DEF Clear
<1>4. QED
  BY <1>3, MarkerFaith

\* What a resumed session starts from.
LEMMA ResumeIs ==
  ASSUME TypeInv, Resume
  PROVE  \E h \in Seq(AnyMessage) :
           /\ h = Load(<<>>, disk) /\ history' = h /\ Replay' = h /\ persisted' = Len(h)
           /\ Len(h) \in Nat /\ seed' = h /\ disk' = <<>> /\ at' = "idle"
<1>1. disk \in Seq(Line)
  BY DEF TypeInv
<1>2. PICK h \in Seq(AnyMessage) : h = Load(<<>>, disk)
  <2>1. <<>> \in Seq(AnyMessage)
    OBVIOUS
  <2>2. Load(<<>>, disk) \in Seq(AnyMessage)
    BY <1>1, <2>1, LoadType
  <2>3. QED
    BY <2>2, Zenon
<1>3. /\ history' = h /\ seed' = h /\ persisted' = Len(h) /\ disk' = <<>> /\ at' = "idle"
  BY <1>2 DEF Resume
<1>4. Replay' = Load(h, <<>>)
  BY <1>3 DEF Replay
<1>5. Replay' = h
  BY <1>4, LoadNothing
<1>6. Len(h) \in Nat
  OBVIOUS
<1>7. QED
  BY <1>2, <1>3, <1>5, <1>6

LEMMA ResumeFaith ==
  ASSUME TypeInv, Resume
  PROVE  FaithInv'
<1>1. PICK h \in Seq(AnyMessage) :
        /\ history' = h /\ Replay' = h /\ persisted' = Len(h)
        /\ Len(h) \in Nat /\ disk' = <<>> /\ at' = "idle"
  BY ResumeIs
<1>2. BodiesFull(disk')
  BY <1>1 DEF BodiesFull
<1>3. QED
  BY <1>1, <1>2, FaithReached

LEMMA FaithInit ==
  ASSUME Init
  PROVE  FaithInv
<1>1. PICK none \in Seq(AnyMessage) : none = <<>>
  <2>1. <<>> \in Seq(AnyMessage)
    OBVIOUS
  <2>2. QED
    BY <2>1, Zenon
<1>2. Len(none) = 0
  BY <1>1
<1>3. Replay = none
  BY <1>1, LoadNothing DEF Init, Replay
<1>4. /\ FullBehind(none, Len(none)) /\ SubSeq(none, 1, Len(none)) = none
      /\ Same(none, none)
  <2>1. Len(none) \in Nat /\ Len(none) >= Len(none)
    BY <1>2
  <2>2. QED
    BY <2>1, NothingBehind, FirstAll DEF Same
<1>5. BodiesFull(disk)
  BY DEF BodiesFull, Init
<1>6. history = none /\ persisted = 0 /\ Len(history) = 0
  BY <1>1, <1>2 DEF Init
<1>7. FullBehind(history, persisted) /\ Same(Replay, SubSeq(history, 1, persisted))
  BY <1>2, <1>3, <1>4, <1>6
<1>8. QED
  BY <1>5, <1>6, <1>7 DEF FaithInv

LEMMA FaithNext ==
  ASSUME TypeInv, OrderInv, FaithInv, [Next]_vars
  PROVE  FaithInv'
<1>1. CASE UNCHANGED vars
  BY <1>1, NothingWritten DEF vars, FaithInv, Clean
<1>2. CASE CompactCommand
  <2>1. PICK cut \in 0..Len(history) : Compact(cut)
    BY <1>2 DEF CompactCommand
  <2>2. UNCHANGED <<seed, drifted>>
    BY <1>2 DEF CompactCommand
  <2>3. QED
    BY <2>1, <2>2, CompactFaith
<1>3. CASE Next /\ ~CompactCommand
  BY <1>3, PromptLegFaith, ResumeLegFaith, FinallyFaith, CascadeFaith,
     ClearFaith, ResumeFaith DEF Next
<1>4. QED
  BY <1>1, <1>2, <1>3

LEMMA FaithHolds == Spec => [](TypeInv /\ OrderInv /\ FaithInv)
<1>1. Init => FaithInv
  BY FaithInit
<1>2. TypeInv /\ OrderInv /\ FaithInv /\ [Next]_vars => FaithInv'
  BY FaithNext
<1>3. QED
  BY <1>1, <1>2, OrderHolds, PTL DEF Spec

(* Whatever is compacted, cleared, coalesced, healed, retried or resumed,   *)
(* the log replays to exactly what is in front of the cursor, with nothing  *)
(* behind it between turns, and no body in it is blanked (_persist_turn,    *)
(* compact, clear, microcompact and the clamp of _run_turn).                *)
THEOREM LogStaysFaithful == Spec => []LogIsFaithful
<1>1. ASSUME TypeInv, FaithInv PROVE CursorIsTrue
  BY <1>1 DEF FaithInv, CursorIsTrue, Clean
<1>2. ASSUME TypeInv, FaithInv PROVE LogKeepsBodies
  <2>1. PICK d \in Seq(Line) : d = disk
    BY <1>2 DEF TypeInv
  <2>2. ASSUME "messages" \notin failed, NEW line \in Range(disk), line.type = "messages",
               NEW p \in PartsOf(line.body)
        PROVE  p.full
    <3>1. PICK i \in 1..Len(d) : line = d[i]
      <4>1. DOMAIN d = 1..Len(d)
        BY LenProperties
      <4>2. QED
        BY <2>1, <4>1 DEF Range
    <3>2. line \in Line
      BY <3>1
    <3>3. PICK b \in Seq(AnyMessage) : b = line.body
      BY <3>2 DEF Line
    <3>4. FullBehind(b, 0)
      BY <1>2, <2>1, <2>2, <3>1, <3>3 DEF FaithInv, BodiesFull
    <3>5. PICK m \in Range(b) : p \in m.parts
      BY <3>3 DEF PartsOf
    <3>6. PICK j \in 1..Len(b) : m = b[j]
      <4>1. DOMAIN b = 1..Len(b)
        BY LenProperties
      <4>2. QED
        BY <3>5, <4>1 DEF Range
    <3>7. j > 0
      OBVIOUS
    <3>8. QED
      BY <3>4, <3>5, <3>6, <3>7 DEF FullBehind, Full
  <2>3. QED
    BY <2>2 DEF LogKeepsBodies
<1>3. TypeInv /\ FaithInv => LogIsFaithful
  BY <1>1, <1>2 DEF LogIsFaithful
<1>4. QED
  BY <1>3, FaithHolds, PTL

-----------------------------------------------------------------------------
(* Calls stay answered *)

\* A message that may come right behind another: a model speaks to a user, and
\* what it called is what is returned, neither more nor less.
Follows(m, n) ==
  ~(m.from = "model" /\ n.from = "model") /\ ReturnIds(n) = CallIds(m)

Paired(h) ==
  /\ \A i \in 1..Len(h) : InRole(h[i])
  /\ h # <<>> => ReturnIds(h[1]) = {}
  /\ \A i \in 2..Len(h) : Follows(h[i - 1], h[i])

\* Two histories behind which the same messages may come.
Ends(g, h) ==
  /\ g = <<>> <=> h = <<>>
  /\ h # <<>> => Last(g).from = Last(h).from /\ CallIds(Last(g)) = CallIds(Last(h))

LEMMA PairedNothing == Paired(<<>>)
BY DEF Paired

LEMMA PairedAppend ==
  ASSUME NEW h \in Seq(AnyMessage), NEW m \in AnyMessage
  PROVE  Paired(Append(h, m)) <=>
           /\ Paired(h) /\ InRole(m)
           /\ IF h = <<>> THEN ReturnIds(m) = {} ELSE Follows(Last(h), m)
<1>1. PICK q : q = Append(h, m)
  OBVIOUS
<1>2. /\ q \in Seq(AnyMessage) /\ Len(q) = Len(h) + 1 /\ Len(h) \in Nat /\ q[Len(h) + 1] = m
      /\ q # <<>> /\ \A i \in 1..Len(h) : q[i] = h[i]
  BY <1>1, AppendProperties
<1>3. CASE h = <<>>
  <2>1. Len(h) = 0 /\ Len(q) = 1 /\ q[1] = m
    BY <1>2, <1>3
  <2>2. \A i \in 1..Len(q) : i = 1
    BY <2>1
  <2>3. \A i \in 2..Len(q) : FALSE
    BY <2>1
  <2>4. Paired(h)
    BY <1>3, PairedNothing
  <2>5. 1 \in 1..Len(q)
    BY <2>1
  <2>6. QED
    BY <1>1, <1>2, <1>3, <2>1, <2>2, <2>3, <2>4, <2>5 DEF Paired
<1>4. CASE h # <<>>
  <2>1. Len(h) \in Nat \ {0} /\ Last(h) = h[Len(h)]
    BY <1>4 DEF Last
  <2>2. Len(h) + 1 \in 2..Len(q) /\ (Len(h) + 1) - 1 = Len(h) /\ q[Len(h)] = Last(h)
        /\ q[1] = h[1]
    BY <1>2, <2>1
  <2>3. ASSUME Paired(q) PROVE Paired(h) /\ InRole(m) /\ Follows(Last(h), m)
    <3>1. \A i \in 1..Len(h) : i \in 1..Len(q) /\ q[i] = h[i]
      BY <1>2
    <3>2. \A i \in 2..Len(h) : i \in 2..Len(q) /\ q[i] = h[i] /\ q[i - 1] = h[i - 1]
      BY <1>2
    <3>3. Paired(h)
      BY <1>2, <2>2, <2>3, <3>1, <3>2 DEF Paired
    <3>4. InRole(m)
      BY <1>2, <2>2, <2>3 DEF Paired
    <3>5. Follows(q[(Len(h) + 1) - 1], q[Len(h) + 1])
      BY <2>2, <2>3 DEF Paired
    <3>6. Follows(Last(h), m)
      BY <1>2, <2>2, <3>5
    <3>7. QED
      BY <3>3, <3>4, <3>6
  <2>4. ASSUME Paired(h), InRole(m), Follows(Last(h), m) PROVE Paired(q)
    <3>1. ASSUME NEW i \in 1..Len(q) PROVE InRole(q[i])
      <4>1. CASE i = Len(h) + 1
        BY <1>2, <2>4, <4>1
      <4>2. CASE i # Len(h) + 1
        <5>1. i \in 1..Len(h)
          BY <1>2, <4>2
        <5>2. QED
          BY <1>2, <2>4, <5>1 DEF Paired
      <4>3. QED
        BY <4>1, <4>2
    <3>2. ASSUME NEW i \in 2..Len(q) PROVE Follows(q[i - 1], q[i])
      <4>1. CASE i = Len(h) + 1
        <5>1. i - 1 = Len(h)
          BY <1>2, <4>1
        <5>2. QED
          BY <1>2, <2>2, <2>4, <4>1, <5>1
      <4>2. CASE i # Len(h) + 1
        <5>1. i \in 2..Len(h) /\ i - 1 \in 1..Len(h) /\ i \in 1..Len(h)
          BY <1>2, <4>2
        <5>2. QED
          BY <1>2, <2>4, <5>1 DEF Paired
      <4>3. QED
        BY <4>1, <4>2
    <3>3. ReturnIds(q[1]) = {}
      BY <1>4, <2>2, <2>4 DEF Paired
    <3>4. QED
      BY <3>1, <3>2, <3>3 DEF Paired
  <2>5. QED
    BY <1>1, <1>4, <2>3, <2>4
<1>5. QED
  BY <1>3, <1>4

\* What is in front of a paired history's end is paired.
LEMMA PairedFront ==
  ASSUME NEW g \in Seq(AnyMessage), NEW t \in Seq(AnyMessage), Paired(g \o t)
  PROVE  Paired(g)
<1>. DEFINE T == {s \in Seq(AnyMessage) : Paired(g \o s) => Paired(g)}
<1>1. <<>> \in T
  <2>1. <<>> \in Seq(AnyMessage) /\ g \o <<>> = g
    OBVIOUS
  <2>2. QED
    BY <2>1, Zenon
<1>2. ASSUME NEW s \in Seq(AnyMessage), NEW e \in AnyMessage, s \in T
      PROVE  Append(s, e) \in T
  <2>1. g \o Append(s, e) = Append(g \o s, e) /\ g \o s \in Seq(AnyMessage)
        /\ Append(s, e) \in Seq(AnyMessage)
    OBVIOUS
  <2>2. Paired(g \o Append(s, e)) => Paired(g \o s)
    BY <2>1, PairedAppend
  <2>3. QED
    BY <1>2, <2>1, <2>2
<1>3. Seq(AnyMessage) \subseteq T
  <2>. HIDE DEF T
  <2>1. QED
    BY <1>1, <1>2, SeqInSet
<1>4. QED
  BY <1>3

LEMMA PairedBehind ==
  ASSUME NEW g \in Seq(AnyMessage), NEW h \in Seq(AnyMessage), Paired(g), Ends(g, h),
         NEW t \in Seq(AnyMessage), Paired(h \o t)
  PROVE  Paired(g \o t)
<1>. DEFINE T == {s \in Seq(AnyMessage) :
                    Paired(h \o s) => Paired(g \o s) /\ Ends(g \o s, h \o s)}
<1>1. <<>> \in T
  <2>1. <<>> \in Seq(AnyMessage) /\ g \o <<>> = g /\ h \o <<>> = h
    OBVIOUS
  <2>2. QED
    BY <2>1, Zenon
<1>2. ASSUME NEW s \in Seq(AnyMessage), NEW e \in AnyMessage, s \in T
      PROVE  Append(s, e) \in T
  <2>1. Append(s, e) \in Seq(AnyMessage) /\ g \o Append(s, e) = Append(g \o s, e)
        /\ h \o Append(s, e) = Append(h \o s, e)
    OBVIOUS
  <2>2. PICK a \in Seq(AnyMessage) : a = g \o s
    BY ConcatProperties
  <2>3. PICK b \in Seq(AnyMessage) : b = h \o s
    BY ConcatProperties
  <2>4. ASSUME Paired(Append(b, e)) PROVE Paired(Append(a, e)) /\ Ends(Append(a, e), Append(b, e))
    <3>1. Paired(b) /\ InRole(e) /\ IF b = <<>> THEN ReturnIds(e) = {} ELSE Follows(Last(b), e)
      BY <2>4, PairedAppend
    <3>2. Paired(a) /\ Ends(a, b)
      BY <1>2, <2>2, <2>3, <3>1
    <3>3. IF a = <<>> THEN ReturnIds(e) = {} ELSE Follows(Last(a), e)
      BY <3>1, <3>2 DEF Ends, Follows
    <3>4. Paired(Append(a, e))
      BY <3>1, <3>2, <3>3, PairedAppend
    <3>5. /\ Last(Append(a, e)) = e /\ Append(a, e) # <<>>
          /\ Last(Append(b, e)) = e /\ Append(b, e) # <<>>
      BY AppendBack
    <3>6. QED
      BY <3>4, <3>5 DEF Ends
  <2>5. QED
    BY <2>1, <2>2, <2>3, <2>4
<1>3. Seq(AnyMessage) \subseteq T
  <2>. HIDE DEF T
  <2>1. QED
    BY <1>1, <1>2, SeqInSet
<1>4. QED
  BY <1>3

\* Requests merged keep what they return, responses are never adjacent.
LEMMA PairedJoin ==
  ASSUME NEW c \in Seq(AnyMessage), NEW m \in AnyMessage, Paired(c), InRole(m),
         IF c = <<>> THEN ReturnIds(m) = {} ELSE Follows(Last(c), m)
  PROVE  Paired(Join(c, m)) /\ Ends(Join(c, m), Append(c, m))
<1>1. CASE c # <<>> /\ Last(c).from = m.from
  <2>1. PICK f \in Seq(AnyMessage), l \in AnyMessage : f = Front(c) /\ l = Last(c) /\ c = Append(f, l)
    BY <1>1, FrontAndLast
  <2>2. PICK b \in AnyMessage : b = Both(l, m)
    BY <1>1, <2>1, JoinTogether
  <2>3. Join(c, m) = Append(f, b)
    BY <1>1, <2>1, <2>2 DEF Join, Both
  <2>4. /\ Paired(f) /\ InRole(l)
        /\ IF f = <<>> THEN ReturnIds(l) = {} ELSE Follows(Last(f), l)
    BY <2>1, PairedAppend
  <2>5. l.from = "user" /\ m.from = "user" /\ CallIds(l) = {} /\ CallIds(m) = {}
    <3>1. ~(l.from = "model" /\ m.from = "model") /\ l.from = m.from
      BY <1>1, <2>1 DEF Follows
    <3>2. l.from \in {"user", "model"}
      BY DEF AnyMessage
    <3>3. QED
      BY <2>4, <3>1, <3>2 DEF InRole
  <2>6. ReturnIds(m) = {}
    BY <1>1, <2>1, <2>5 DEF Follows
  <2>7. b.from = "user" /\ b.parts = l.parts \cup m.parts
    BY <2>2, <2>5 DEF Both
  <2>8. ReturnIds(b) = ReturnIds(l)
    <3>1. Returns(b) = Returns(l) \cup Returns(m)
      BY <2>7 DEF Returns
    <3>2. Returns(m) = {}
      BY <2>6 DEF ReturnIds
    <3>3. QED
      BY <3>1, <3>2 DEF ReturnIds
  <2>9. CallIds(b) = {}
    <3>1. {q \in l.parts : q.kind = "call"} = {} /\ {q \in m.parts : q.kind = "call"} = {}
      BY <2>5 DEF CallIds
    <3>2. {q \in b.parts : q.kind = "call"} = {}
      BY <2>7, <3>1
    <3>3. QED
      BY <3>2 DEF CallIds
  <2>10. InRole(b)
    BY <2>7, <2>9 DEF InRole
  <2>11. IF f = <<>> THEN ReturnIds(b) = {} ELSE Follows(Last(f), b)
    BY <2>4, <2>5, <2>7, <2>8 DEF Follows
  <2>12. Paired(Append(f, b))
    BY <2>4, <2>10, <2>11, PairedAppend
  <2>13. /\ Last(Append(f, b)) = b /\ Append(f, b) # <<>>
         /\ Last(Append(c, m)) = m /\ Append(c, m) # <<>>
    BY AppendBack
  <2>14. QED
    BY <2>3, <2>5, <2>7, <2>9, <2>12, <2>13 DEF Ends
<1>2. CASE ~(c # <<>> /\ Last(c).from = m.from)
  <2>1. Join(c, m) = Append(c, m)
    BY <1>2 DEF Join
  <2>2. QED
    BY <2>1, PairedAppend DEF Ends
<1>3. QED
  BY <1>1, <1>2

LEMMA PairedCoalesced ==
  ASSUME NEW h \in Seq(AnyMessage), Paired(h)
  PROVE  Paired(Coalesce(h)) /\ Ends(Coalesce(h), h)
<1>. DEFINE T == {s \in Seq(AnyMessage) :
                    Paired(s) => Paired(Coalesce(s)) /\ Ends(Coalesce(s), s)}
<1>1. <<>> \in T
  <2>1. <<>> \in Seq(AnyMessage)
    OBVIOUS
  <2>2. Paired(Coalesce(<<>>)) /\ Ends(Coalesce(<<>>), <<>>)
    BY CoalesceNothing, PairedNothing DEF Ends
  <2>3. QED
    BY <2>1, <2>2, Zenon
<1>2. ASSUME NEW s \in Seq(AnyMessage), NEW e \in AnyMessage, s \in T
      PROVE  Append(s, e) \in T
  <2>1. Append(s, e) \in Seq(AnyMessage)
    OBVIOUS
  <2>2. PICK c \in Seq(AnyMessage) : c = Coalesce(s)
    BY CoalesceType
  <2>3. Coalesce(Append(s, e)) = Join(c, e)
    BY <2>2, CoalesceOneMore
  <2>4. ASSUME Paired(Append(s, e)) PROVE Paired(Join(c, e)) /\ Ends(Join(c, e), Append(s, e))
    <3>1. Paired(s) /\ InRole(e) /\ IF s = <<>> THEN ReturnIds(e) = {} ELSE Follows(Last(s), e)
      BY <2>4, PairedAppend
    <3>2. Paired(c) /\ Ends(c, s)
      BY <1>2, <2>2, <3>1
    <3>3. IF c = <<>> THEN ReturnIds(e) = {} ELSE Follows(Last(c), e)
      BY <3>1, <3>2 DEF Ends, Follows
    <3>4. Paired(Join(c, e)) /\ Ends(Join(c, e), Append(c, e))
      BY <3>1, <3>2, <3>3, PairedJoin
    <3>5. /\ Last(Append(c, e)) = e /\ Append(c, e) # <<>>
          /\ Last(Append(s, e)) = e /\ Append(s, e) # <<>>
      BY AppendBack
    <3>6. QED
      BY <3>4, <3>5 DEF Ends
  <2>5. QED
    BY <2>1, <2>3, <2>4
<1>3. Seq(AnyMessage) \subseteq T
  <2>. HIDE DEF T
  <2>1. QED
    BY <1>1, <1>2, SeqInSet
<1>4. QED
  BY <1>3

LEMMA FilledCalls ==
  ASSUME NEW m \in AnyMessage
  PROVE  CallIds(Filled(m)) = CallIds(m)
<1>1. m.parts \in SUBSET AnyPart /\ Filled(m).parts = {[p EXCEPT !.full = TRUE] : p \in m.parts}
  BY FilledMessage DEF AnyMessage, FilledParts
<1>2. \A p \in AnyPart : [p EXCEPT !.full = TRUE].kind = p.kind /\ [p EXCEPT !.full = TRUE].id = p.id
  BY DEF AnyPart
<1>3. ASSUME NEW x \in CallIds(Filled(m)) PROVE x \in CallIds(m)
  <2>1. PICK q \in Filled(m).parts : q.kind = "call" /\ q.id = x
    BY DEF CallIds
  <2>2. PICK p \in m.parts : q = [p EXCEPT !.full = TRUE]
    BY <1>1, <2>1
  <2>3. p.kind = "call" /\ p.id = x
    BY <1>1, <1>2, <2>1, <2>2
  <2>4. QED
    BY <2>3 DEF CallIds
<1>4. ASSUME NEW x \in CallIds(m) PROVE x \in CallIds(Filled(m))
  <2>1. PICK p \in m.parts : p.kind = "call" /\ p.id = x
    BY DEF CallIds
  <2>2. PICK q : q = [p EXCEPT !.full = TRUE]
    OBVIOUS
  <2>3. q \in Filled(m).parts /\ q.kind = "call" /\ q.id = x
    BY <1>1, <1>2, <2>1, <2>2
  <2>4. QED
    BY <2>3 DEF CallIds
<1>5. QED
  BY <1>3, <1>4

LEMMA SameEnds ==
  ASSUME NEW g \in Seq(AnyMessage), NEW h \in Seq(AnyMessage), Paired(g), Paired(h), Same(g, h)
  PROVE  Ends(g, h)
<1>1. PICK a \in Seq(AnyMessage) : a = Coalesce(g)
  BY CoalesceType
<1>2. PICK b \in Seq(AnyMessage) : b = Coalesce(h)
  BY CoalesceType
<1>3. Ends(a, g) /\ Ends(b, h)
  BY <1>1, <1>2, PairedCoalesced
<1>4. Unblanked(a) = Unblanked(b)
  BY <1>1, <1>2, UnblankedCoalesce DEF Same
<1>5. /\ Len(Unblanked(a)) = Len(a) /\ \A i \in 1..Len(a) : Unblanked(a)[i] = Filled(a[i])
      /\ Len(Unblanked(b)) = Len(b) /\ \A i \in 1..Len(b) : Unblanked(b)[i] = Filled(b[i])
  BY UnblankedHistory
<1>6. Len(a) = Len(b) /\ \A i \in 1..Len(a) : Filled(a[i]) = Filled(b[i])
  BY <1>4, <1>5
<1>7. CASE Len(a) = 0
  <2>1. a = <<>>
    BY <1>7
  <2>2. Len(b) = 0
    BY <1>6, <1>7
  <2>3. b = <<>>
    BY <2>2
  <2>4. QED
    BY <1>3, <2>1, <2>3 DEF Ends
<1>8. CASE Len(a) # 0
  <2>1. Len(a) \in 1..Len(a) /\ a # <<>> /\ b # <<>>
    BY <1>6, <1>8
  <2>2. PICK m \in AnyMessage : m = Last(a)
    BY <2>1, FrontAndLast
  <2>3. PICK n \in AnyMessage : n = Last(b)
    BY <2>1, FrontAndLast
  <2>4. Filled(m) = Filled(n)
    BY <1>6, <2>1, <2>2, <2>3 DEF Last
  <2>5. m.from = n.from /\ CallIds(m) = CallIds(n)
    BY <2>4, FilledMessage, FilledCalls
  <2>6. QED
    BY <1>3, <2>1, <2>2, <2>3, <2>5 DEF Ends
<1>9. QED
  BY <1>7, <1>8

LEMMA PairedAlike ==
  ASSUME NEW h \in Seq(AnyMessage), NEW k \in Seq(AnyMessage), Len(k) = Len(h),
         \A i \in 1..Len(h) : Alike(h[i], k[i]), Paired(h)
  PROVE  Paired(k)
<1>1. \A i \in 1..Len(h) :
        k[i].from = h[i].from /\ CallIds(k[i]) = CallIds(h[i]) /\ ReturnIds(k[i]) = ReturnIds(h[i])
  BY DEF Alike
<1>2. \A i \in 1..Len(k) : InRole(k[i])
  BY <1>1 DEF Paired, InRole
<1>3. k # <<>> => ReturnIds(k[1]) = {}
  <2>1. k # <<>> => h # <<>> /\ 1 \in 1..Len(h)
    OBVIOUS
  <2>2. QED
    BY <1>1, <2>1 DEF Paired
<1>4. ASSUME NEW i \in 2..Len(k) PROVE Follows(k[i - 1], k[i])
  <2>1. i \in 1..Len(h) /\ i - 1 \in 1..Len(h) /\ i \in 2..Len(h)
    OBVIOUS
  <2>2. Follows(h[i - 1], h[i])
    BY <2>1 DEF Paired
  <2>3. QED
    BY <1>1, <2>1, <2>2 DEF Follows
<1>5. QED
  BY <1>2, <1>3, <1>4 DEF Paired

\* A tail cut at a boundary returns nothing that was called in front of it.
LEMMA PairedCompacted ==
  ASSUME NEW h \in Seq(AnyMessage), Paired(h), NEW split \in 0..Len(h), NEW n \in Nat \ {0},
         split = Len(h) \/ IsBoundary(h[split + 1])
  PROVE  Paired(CompactedTo(h, split, n))
<1>1. PICK k : k = CompactedTo(h, split, n)
  OBVIOUS
<1>2. /\ k \in Seq(AnyMessage) /\ Len(k) = Len(h) - split + 1 /\ k[1] = Request("summary", n)
      /\ \A i \in 2..Len(k) : i - 1 + split \in 1..Len(h) /\ k[i] = h[i - 1 + split]
  BY <1>1, CompactedIs
<1>3. Carries(Request("summary", n), "user", {n}, {}, {})
  BY RequestCarries
<1>4. k[1].from = "user" /\ CallIds(k[1]) = {} /\ ReturnIds(k[1]) = {} /\ InRole(k[1])
  BY <1>2, <1>3 DEF Carries, InRole
<1>5. Len(h) \in Nat /\ split \in Nat /\ Len(k) \in Nat
  BY <1>2
<1>6. ASSUME NEW i \in 1..Len(k) PROVE InRole(k[i])
  <2>1. CASE i = 1
    BY <1>4, <2>1
  <2>2. CASE i # 1
    <3>1. i \in 2..Len(k)
      BY <2>2
    <3>2. QED
      BY <1>2, <3>1 DEF Paired
  <2>3. QED
    BY <2>1, <2>2
<1>7. ASSUME NEW i \in 2..Len(k) PROVE Follows(k[i - 1], k[i])
  <2>1. i - 1 + split \in 1..Len(h) /\ k[i] = h[i - 1 + split]
    BY <1>2
  <2>2. CASE i = 2
    <3>1. split + 1 \in 1..Len(h) /\ k[2] = h[split + 1] /\ split # Len(h) /\ i - 1 = 1
      BY <1>5, <2>1, <2>2
    <3>2. IsBoundary(h[split + 1]) /\ InRole(h[split + 1])
      BY <3>1 DEF Paired
    <3>3. ReturnIds(k[2]) = {}
      BY <3>1, <3>2 DEF IsBoundary, InRole, ReturnIds
    <3>4. QED
      BY <1>4, <2>2, <3>1, <3>3 DEF Follows
  <2>3. CASE i # 2
    <3>1. i - 1 \in 2..Len(k) /\ (i - 1) - 1 + split = (i - 1 + split) - 1
          /\ i - 1 + split \in 2..Len(h)
      BY <1>5, <2>1, <2>3
    <3>2. k[i - 1] = h[(i - 1 + split) - 1]
      BY <1>2, <3>1
    <3>3. QED
      BY <2>1, <3>1, <3>2 DEF Paired
  <2>4. QED
    BY <2>2, <2>3
<1>8. QED
  BY <1>1, <1>4, <1>6, <1>7 DEF Paired

\* Behind a history that calls nothing, a leg's messages stay paired.
LEMMA PairedTail ==
  ASSUME NEW h \in Seq(AnyMessage), Paired(h), h # <<>>, Last(h).from = "user",
         CallIds(Last(h)) = {}, NEW k \in Nat \ {0}, NEW tail \in Tails(k)
  PROVE  Paired(h \o tail)
<1>1. PICK call, return, text, last \in AnyMessage :
        /\ Carries(text, "model", {k}, {}, {}) /\ Carries(call, "model", {k}, {k}, {})
        /\ Carries(return, "user", {}, {}, {k}) /\ Carries(last, "model", {k + 1}, {}, {})
        /\ return = Answer(call)
        /\ tail \in {<<>>, <<text>>, <<call>>, <<call, return>>, <<call, return, last>>}
  BY TailIs
<1>2. /\ text.from = "model" /\ CallIds(text) = {} /\ ReturnIds(text) = {}
      /\ call.from = "model" /\ CallIds(call) = {k} /\ ReturnIds(call) = {}
      /\ return.from = "user" /\ CallIds(return) = {} /\ ReturnIds(return) = {k}
      /\ last.from = "model" /\ CallIds(last) = {} /\ ReturnIds(last) = {}
  BY <1>1 DEF Carries
<1>3. InRole(text) /\ InRole(call) /\ InRole(return) /\ InRole(last)
  BY <1>2 DEF InRole
<1>4. PICK b \in Seq(AnyMessage) : b = Append(h, call) /\ b # <<>> /\ Last(b) = call
  BY AppendBack
<1>5. PICK c \in Seq(AnyMessage) : c = Append(b, return) /\ c # <<>> /\ Last(c) = return
  BY AppendBack
<1>6. Paired(Append(h, text))
  BY <1>2, <1>3, PairedAppend DEF Follows
<1>7. Paired(b)
  BY <1>2, <1>3, <1>4, PairedAppend DEF Follows
<1>8. Paired(c)
  BY <1>2, <1>3, <1>4, <1>5, <1>7, PairedAppend DEF Follows
<1>9. Paired(Append(c, last))
  BY <1>2, <1>3, <1>5, <1>8, PairedAppend DEF Follows
<1>10. /\ h \o <<>> = h /\ h \o <<text>> = Append(h, text) /\ h \o <<call>> = b
       /\ h \o <<call, return>> = c /\ h \o <<call, return, last>> = Append(c, last)
  BY <1>4, <1>5, Behind
<1>11. QED
  BY <1>1, <1>6, <1>7, <1>8, <1>9, <1>10

\* Nothing has spoilt the conversation, in memory and in the log.
Whole == ~steered /\ ~drifted /\ ~forgot /\ Clean

SoundInv ==
  /\ (~steered /\ resumes = 0) \/ Whole => Paired(history)
  /\ Whole => Paired(Replay)

\* What is written behind a paired replay continues it as it does the history.
LEMMA WrittenPaired ==
  ASSUME NEW r \in Seq(AnyMessage), Paired(r), NEW h \in Seq(AnyMessage), Paired(h),
         NEW n \in 0..Len(h), Same(r, SubSeq(h, 1, n))
  PROVE  Paired(r \o SubSeq(h, n + 1, Len(h)))
<1>1. PICK a \in Seq(AnyMessage) : a = SubSeq(h, 1, n)
  BY FirstOf
<1>2. PICK t : t = SubSeq(h, n + 1, Len(h))
  OBVIOUS
<1>3. t \in Seq(AnyMessage)
  BY <1>2, RestOf
<1>4. a \o t = h
  BY <1>1, <1>2, FirstAndRest
<1>5. Paired(a)
  BY <1>3, <1>4, PairedFront
<1>6. Ends(r, a)
  BY <1>1, <1>5, SameEnds
<1>7. Paired(r \o t)
  BY <1>3, <1>4, <1>6, PairedBehind
<1>8. QED
  BY <1>2, <1>7

\* Persist continues the replay as the history continues what it mirrors.
LEMMA PersistPaired ==
  ASSUME TypeInv, NEW h \in Seq(AnyMessage), Paired(h), Paired(Replay), NEW cursor \in 0..Len(h),
         Same(Replay, SubSeq(h, 1, cursor)),
         \/ Persist(h, cursor)
         \/ persisted' = cursor /\ UNCHANGED <<disk, failed>>,
         seed' = seed
  PROVE  Paired(Replay')
<1>1. CASE persisted' = cursor /\ UNCHANGED <<disk, failed>>
  BY <1>1, NothingWritten
<1>2. CASE Persist(h, cursor)
  <2>1. PICK r \in Seq(AnyMessage) : r = Replay
    BY ReplayType
  <2>2. Replay' = r \/ Replay' = r \o SubSeq(h, cursor + 1, Len(h))
    <3>1. cursor \in Nat
      OBVIOUS
    <3>2. QED
      BY <1>2, <2>1, <3>1, PersistIs
  <2>3. Paired(r \o SubSeq(h, cursor + 1, Len(h)))
    BY <2>1, WrittenPaired
  <2>4. QED
    BY <2>1, <2>2, <2>3
<1>3. QED
  BY <1>1, <1>2

LEMMA LegSound ==
  ASSUME TypeInv, FaithInv, SoundInv, NEW prior \in Seq(AnyMessage), Extends(prior, history),
         NEW new \in Seq(AnyMessage), Leg(prior, new), UNCHANGED <<seed, resumes, forgot>>,
         steered => steered', ~steered' /\ Paired(history) => Paired(Coalesce(prior) \o new)
  PROVE  SoundInv'
<1>1. PICK c \in Seq(AnyMessage) : c = Coalesce(prior)
  BY CoalesceType
<1>2. PICK h : h = c \o new
  OBVIOUS
<1>3. /\ h \in Seq(AnyMessage) /\ Len(h) = Len(c) + Len(new)
      /\ \A i \in 1..(Len(c) + Len(new)) : h[i] = IF i <= Len(c) THEN c[i] ELSE new[i - Len(c)]
  BY <1>2, ConcatProperties
<1>4. history' = h
  BY <1>1, <1>2 DEF Leg, LegAnswers, LegPauses, LegCrashes, Take
<1>5. PICK reliable \in BOOLEAN, cursor \in Nat :
        /\ Drifts(prior, reliable)
        /\ cursor = IF reliable THEN Clamp(prior) ELSE persisted
        /\ \/ Persist(h, cursor)
           \/ persisted' = cursor /\ UNCHANGED <<disk, failed>>
  <2>1. persisted \in Nat /\ Clamp(prior) \in Nat
    BY ClampIs DEF TypeInv
  <2>2. CASE LegAnswers(prior, new)
    <3>1. Persist(h, Clamp(prior)) /\ Drifts(prior, TRUE)
      BY <1>4, <2>2 DEF LegAnswers
    <3>2. QED
      BY <2>1, <3>1
  <2>3. CASE LegPauses(prior, new)
    <3>1. persisted' = Clamp(prior) /\ Drifts(prior, TRUE) /\ UNCHANGED <<disk, failed>>
      BY <2>3 DEF LegPauses
    <3>2. QED
      BY <2>1, <3>1
  <2>4. CASE LegCrashes(prior, new)
    <3>1. Persist(h, persisted) /\ Drifts(prior, FALSE)
      BY <1>4, <2>4 DEF LegCrashes
    <3>2. QED
      BY <2>1, <3>1
  <2>5. QED
    BY <2>2, <2>3, <2>4 DEF Leg
<1>6. Clean' => Clean
  <2>1. CASE Persist(h, cursor)
    BY <1>3, <2>1, PersistFaith
  <2>2. CASE UNCHANGED failed
    BY <2>2 DEF Clean
  <2>3. QED
    BY <1>5, <2>1, <2>2
<1>7. drifted => drifted'
  BY <1>5 DEF Drifts
<1>8. Whole' => Whole
  BY <1>6, <1>7 DEF Whole
<1>9. (~steered' /\ resumes' = 0) \/ Whole' => Paired(h)
  <2>1. ASSUME (~steered' /\ resumes' = 0) \/ Whole' PROVE ~steered' /\ Paired(history)
    BY <1>8, <2>1 DEF SoundInv, Whole
  <2>2. QED
    BY <1>1, <1>2, <2>1
<1>10. ASSUME Whole' PROVE Paired(Replay')
  <2>1. Paired(Replay) /\ Clean /\ ~drifted' /\ Paired(h)
    BY <1>6, <1>8, <1>9, <1>10 DEF SoundInv, Whole
  <2>2. cursor \in 0..Len(c) /\ Same(Replay, SubSeq(c, 1, cursor))
    BY <1>1, <1>5, <2>1, KeptIsLogged
  <2>3. Len(c) \in Nat /\ Len(new) \in Nat
    OBVIOUS
  <2>4. cursor \in 0..Len(h) /\ \A i \in 1..cursor : c[i] = h[i]
    BY <1>3, <2>2, <2>3
  <2>5. SubSeq(c, 1, cursor) = SubSeq(h, 1, cursor)
    BY <1>3, <2>2, <2>4, FirstSame
  <2>6. \/ Persist(h, cursor)
        \/ persisted' = cursor /\ UNCHANGED <<disk, failed>>
    BY <1>5
  <2>7. QED
    BY <1>3, <2>1, <2>2, <2>4, <2>5, <2>6, PersistPaired
<1>11. QED
  BY <1>4, <1>9, <1>10 DEF SoundInv

\* A first message that returns what was called last, and a tail.
LEMMA PairedLeg ==
  ASSUME NEW h \in Seq(AnyMessage), Paired(h), NEW first \in AnyMessage, InRole(first),
         first.from = "user", IF h = <<>> THEN ReturnIds(first) = {} ELSE ReturnIds(first) = CallIds(Last(h)),
         NEW k \in Nat \ {0}, NEW tail \in Tails(k)
  PROVE  /\ <<first>> \o tail \in Seq(AnyMessage)
         /\ Paired(Coalesce(h) \o (<<first>> \o tail))
<1>1. PICK c \in Seq(AnyMessage) : c = Coalesce(h) /\ Paired(c) /\ Ends(c, h)
  BY CoalesceType, PairedCoalesced
<1>2. IF c = <<>> THEN ReturnIds(first) = {} ELSE Follows(Last(c), first)
  BY <1>1 DEF Ends, Follows
<1>3. Paired(Append(c, first))
  BY <1>1, <1>2, PairedAppend
<1>4. PICK b \in Seq(AnyMessage) : b = Append(c, first) /\ b # <<>> /\ Last(b) = first
  BY AppendBack
<1>5. CallIds(first) = {}
  BY DEF InRole
<1>6. Paired(b \o tail)
  BY <1>3, <1>4, <1>5, PairedTail
<1>7. tail \in Seq(AnyMessage)
  <2>1. PICK call, return, text, last \in AnyMessage :
          tail \in {<<>>, <<text>>, <<call>>, <<call, return>>, <<call, return, last>>}
    BY TailIs
  <2>2. <<>> \in Seq(AnyMessage)
    OBVIOUS
  <2>3. CASE tail = <<>>
    BY <2>2, <2>3, Zenon
  <2>4. CASE tail = <<text>>
    BY <2>4
  <2>5. CASE tail = <<call>>
    BY <2>5
  <2>6. CASE tail = <<call, return>>
    BY <2>6
  <2>7. CASE tail = <<call, return, last>>
    BY <2>7
  <2>8. QED
    BY <2>1, <2>3, <2>4, <2>5, <2>6, <2>7
<1>8. <<first>> \o tail \in Seq(AnyMessage) /\ c \o (<<first>> \o tail) = b \o tail
  BY <1>1, <1>4, <1>7, LegConcat
<1>9. QED
  BY <1>1, <1>6, <1>8

\* Healing answers the last message, and nothing is called behind it.
LEMMA PairedHealed ==
  ASSUME NEW h \in Seq(AnyMessage), Paired(h)
  PROVE  Paired(Heal(h)) /\ (Heal(h) # <<>> => CallIds(Last(Heal(h))) = {})
<1>1. CASE Heal(h) = h /\ (h = <<>> \/ CallIds(Last(h)) = {})
  BY <1>1
<1>2. CASE /\ h # <<>> /\ CallIds(Last(h)) # {}
           /\ Heal(h) = Append(h, Answer(Last(h)))
  <2>1. PICK m \in AnyMessage : m = Last(h)
    BY <1>2, FrontAndLast
  <2>2. PICK a : a = Answer(m)
    OBVIOUS
  <2>3. a \in AnyMessage /\ a.from = "user" /\ CallIds(a) = {} /\ ReturnIds(a) = CallIds(m)
    BY <2>2, AnswerCarries DEF Carries
  <2>4. InRole(a) /\ Follows(m, a)
    BY <2>3 DEF InRole, Follows
  <2>5. Paired(Append(h, a))
    BY <1>2, <2>1, <2>3, <2>4, PairedAppend
  <2>6. Last(Append(h, a)) = a
    BY <2>3, AppendBack
  <2>7. QED
    BY <1>2, <2>1, <2>2, <2>3, <2>5, <2>6
<1>3. QED
  BY <1>1, <1>2, HealIs

LEMMA PromptLegSound ==
  ASSUME TypeInv, FaithInv, SoundInv, PromptLeg
  PROVE  SoundInv'
<1>1. PICK prior, n, k, first, tail :
        /\ prior = Heal(history) /\ n = parts + 1 /\ k = parts + 2
        /\ n \in Nat \ {0} /\ k \in Nat \ {0}
        /\ Carries(first, "user", {n}, {}, {}) /\ tail \in Tails(k)
        /\ Leg(prior, <<first>> \o tail)
  BY PromptLegIs
<1>2. prior \in Seq(AnyMessage) /\ Extends(prior, history)
  BY <1>1, HealExtends DEF TypeInv
<1>3. /\ first \in AnyMessage /\ Full(first) /\ first.from = "user" /\ CallIds(first) = {}
      /\ ReturnIds(first) = {} /\ InRole(first)
  BY <1>1 DEF Carries, InRole
<1>4. PICK new : new = <<first>> \o tail
  OBVIOUS
<1>5. new \in Seq(AnyMessage)
  BY <1>1, <1>3, <1>4, TailFull
<1>6. ASSUME Paired(history) PROVE Paired(Coalesce(prior) \o new)
  <2>1. Paired(prior) /\ (prior # <<>> => CallIds(Last(prior)) = {})
    BY <1>1, <1>6, PairedHealed DEF TypeInv
  <2>2. IF prior = <<>> THEN ReturnIds(first) = {} ELSE ReturnIds(first) = CallIds(Last(prior))
    BY <1>3, <2>1
  <2>3. QED
    BY <1>1, <1>2, <1>3, <1>4, <2>1, <2>2, PairedLeg
<1>7. UNCHANGED <<seed, resumes, forgot>> /\ (steered => steered')
  BY DEF PromptLeg
<1>8. Leg(prior, new)
  BY <1>1, <1>4
<1>9. QED
  BY <1>2, <1>5, <1>6, <1>7, <1>8, LegSound

LEMMA ResumeLegSound ==
  ASSUME TypeInv, OrderInv, FaithInv, SoundInv, ResumeLeg
  PROVE  SoundInv'
<1>1. history \in Seq(AnyMessage) /\ parts \in Nat
  BY DEF TypeInv
<1>2. PICK steer, prior, k, m : ResumeLegIs(steer, prior, k, m)
  BY SomeResumeLeg
<1>3. PICK first : first = Answer(m)
  OBVIOUS
<1>4. /\ steer \in BOOLEAN /\ k \in Nat \ {0} /\ m \in AnyMessage
      /\ history # <<>> /\ m = Last(history)
      /\ prior = IF steer THEN Append(history, Request("prompt", parts + 1)) ELSE history
      /\ \/ \E tail \in Tails(k) : Leg(prior, <<first>> \o tail)
         \/ LegCrashes(prior, <<>>)
      /\ steered' = (steered \/ steer)
  BY <1>2, <1>3 DEF ResumeLegIs
<1>5. /\ first \in AnyMessage /\ Full(first) /\ first.from = "user" /\ CallIds(first) = {}
      /\ ReturnIds(first) = CallIds(m) /\ InRole(first)
  BY <1>3, <1>4, AnswerCarries DEF Carries, InRole
<1>6. prior \in Seq(AnyMessage) /\ Extends(prior, history)
  <2>1. PICK s : s = Request("prompt", parts + 1)
    OBVIOUS
  <2>2. parts + 1 \in Nat \ {0}
    BY <1>1
  <2>3. s \in AnyMessage /\ Full(s)
    BY <2>1, <2>2, RequestCarries DEF Carries
  <2>4. Append(history, s) \in Seq(AnyMessage) /\ Extends(Append(history, s), history)
        /\ Extends(history, history)
    BY <1>1, <2>3, ExtendsAppend
  <2>5. prior = Append(history, s) \/ prior = history
    BY <1>4, <2>1
  <2>6. QED
    BY <1>1, <2>4, <2>5
<1>7. UNCHANGED <<seed, resumes, forgot>> /\ (steered => steered')
  BY <1>4 DEF ResumeLeg
<1>8. ~steered' => prior = history
  BY <1>4
<1>9. CASE LegCrashes(prior, <<>>)
  <2>1. PICK none \in Seq(AnyMessage) : none = <<>>
    <3>1. <<>> \in Seq(AnyMessage)
      OBVIOUS
    <3>2. QED
      BY <3>1, Zenon
  <2>2. Leg(prior, none)
    BY <1>9, <2>1 DEF Leg
  <2>3. ASSUME ~steered', Paired(history) PROVE Paired(Coalesce(prior) \o none)
    <3>1. PICK c \in Seq(AnyMessage) : c = Coalesce(history) /\ Paired(c)
      BY <1>1, <2>3, CoalesceType, PairedCoalesced
    <3>2. c \o none = c
      BY <2>1, ConcatEmptySeq
    <3>3. QED
      BY <1>8, <2>3, <3>1, <3>2
  <2>4. QED
    BY <1>6, <1>7, <2>2, <2>3, LegSound
<1>10. CASE \E tail \in Tails(k) : Leg(prior, <<first>> \o tail)
  <2>1. PICK tail \in Tails(k) : Leg(prior, <<first>> \o tail)
    BY <1>10
  <2>2. PICK new : new = <<first>> \o tail
    OBVIOUS
  <2>3. new \in Seq(AnyMessage)
    BY <1>4, <1>5, <2>2, TailFull
  <2>4. ASSUME ~steered', Paired(history) PROVE Paired(Coalesce(prior) \o new)
    <3>1. IF history = <<>> THEN ReturnIds(first) = {} ELSE ReturnIds(first) = CallIds(Last(history))
      BY <1>4, <1>5
    <3>2. Paired(Coalesce(history) \o new)
      BY <1>1, <1>4, <1>5, <2>2, <2>4, <3>1, PairedLeg
    <3>3. QED
      BY <1>8, <2>4, <3>2
  <2>5. QED
    BY <1>6, <1>7, <2>1, <2>2, <2>3, <2>4, LegSound
<1>11. QED
  BY <1>4, <1>9, <1>10

\* Abort and EndTurn write what is behind the cursor.
LEMMA FinallySound ==
  ASSUME TypeInv, FaithInv, SoundInv, Abort \/ EndTurn
  PROVE  SoundInv'
<1>1. /\ Persist(history, persisted)
      /\ UNCHANGED <<history, seed, resumes, drifted, forgot, steered>>
  BY DEF Abort, EndTurn
<1>2. PICK h \in Seq(AnyMessage) : h = history
  BY DEF TypeInv
<1>3. PICK cursor \in Nat : cursor = persisted
  BY DEF TypeInv
<1>4. Persist(h, cursor) /\ seed' = seed /\ history' = h
  BY <1>1, <1>2, <1>3
<1>5. Clean' => Clean
  BY <1>4, PersistFaith
<1>6. Whole' => Whole
  BY <1>1, <1>5 DEF Whole
<1>7. ASSUME Whole' PROVE Paired(Replay')
  <2>1. /\ Paired(h) /\ Paired(Replay)
    BY <1>2, <1>6, <1>7 DEF SoundInv
  <2>2. cursor <= Len(h) /\ Same(Replay, SubSeq(h, 1, cursor))
    BY <1>2, <1>3, <1>6, <1>7 DEF FaithInv, Whole
  <2>3. cursor \in 0..Len(h)
    BY <2>2
  <2>4. QED
    BY <1>4, <2>1, <2>2, <2>3, PersistPaired
<1>8. (~steered' /\ resumes' = 0) \/ Whole' => Paired(h)
  BY <1>1, <1>2, <1>6 DEF SoundInv
<1>9. QED
  BY <1>4, <1>7, <1>8 DEF SoundInv

LEMMA CompactSound ==
  ASSUME TypeInv, SoundInv, NEW cut \in 0..Len(history), Compact(cut),
         UNCHANGED <<seed, resumes, drifted, forgot, steered>>
  PROVE  SoundInv'
<1>1. PICK h \in Seq(AnyMessage) : h = history
  BY DEF TypeInv
<1>2. PICK n \in Nat : n = parts
  BY DEF TypeInv
<1>3. PICK split : split = SplitTail(h, cut)
  OBVIOUS
<1>s. split \in 0..Len(h) /\ (split \in {0, Len(h)} \/ IsBoundary(h[split + 1]))
  BY <1>1, <1>3, SplitTailIs
<1>4. PICK k : k = CompactedTo(h, split, n + 1)
  OBVIOUS
<1>5. n + 1 \in Nat \ {0}
  OBVIOUS
<1>6. k \in Seq(AnyMessage)
  BY <1>s, <1>4, <1>5, CompactedIs
<1>7. /\ history' = k /\ split # 0
      /\ Wrote("compaction", k) \/ Missed("compaction")
  BY <1>1, <1>2, <1>3, <1>4 DEF Compact, CompactedTo
<1>8. Paired(h) => Paired(k)
  <2>1. split = Len(h) \/ IsBoundary(h[split + 1])
    BY <1>s, <1>7
  <2>2. QED
    BY <1>s, <1>4, <1>5, <2>1, PairedCompacted
<1>9. Clean' => Clean
  BY <1>7 DEF Clean, Wrote, Missed, WroteBehindHalf, WriteFailed
<1>10. Whole' => Whole
  BY <1>9 DEF Whole
<1>11. (~steered' /\ resumes' = 0) \/ Whole' => Paired(k)
  BY <1>1, <1>8, <1>10 DEF SoundInv
<1>12. Whole' => Replay' = k
  <2>1. CASE Wrote("compaction", k)
    <3>1. "compaction" \in LineType /\ "compaction" # "messages"
      BY DEF LineType
    <3>2. QED
      BY <1>6, <2>1, <3>1, WroteReads
  <2>2. CASE Missed("compaction")
    <3>1. ~Clean'
      BY <2>2 DEF Clean, Missed, WroteBehindHalf, WriteFailed
    <3>2. QED
      BY <3>1 DEF Whole
  <2>3. QED
    BY <1>7, <2>1, <2>2
<1>13. QED
  BY <1>7, <1>11, <1>12 DEF SoundInv

LEMMA CascadeSound ==
  ASSUME TypeInv, SoundInv, Cascade
  PROVE  SoundInv'
<1>1. UNCHANGED <<seed, resumes, drifted, forgot, steered>>
  BY DEF Cascade
<1>2. CASE UNCHANGED <<history, persisted, disk, parts, failed>>
  BY <1>1, <1>2, NothingWritten DEF SoundInv, Whole, Clean
<1>3. CASE \E cut \in 0..Len(history) : Compact(cut)
  BY <1>1, <1>3, CompactSound
<1>4. CASE \E cut \in 0..Len(history) :
             /\ history' = Microcompacted(history, SplitTail(history, cut))
             /\ UNCHANGED <<persisted, disk, parts, failed>>
  <2>1. PICK h \in Seq(AnyMessage) : h = history
    BY DEF TypeInv
  <2>2. PICK cut \in 0..Len(h) : history' = Microcompacted(h, SplitTail(h, cut))
    BY <1>4, <2>1
  <2>3. PICK split \in 0..Len(h) : split = SplitTail(h, cut)
    BY SplitTailIs
  <2>4. PICK k : k = Microcompacted(h, split)
    OBVIOUS
  <2>5. k \in Seq(AnyMessage) /\ Len(k) = Len(h) /\ \A i \in 1..Len(h) : Alike(h[i], k[i])
    BY <2>4, MicrocompactedIs
  <2>6. history' = k /\ UNCHANGED <<disk, failed>>
    BY <1>4, <2>2, <2>3, <2>4
  <2>7. Paired(h) => Paired(k)
    BY <2>5, PairedAlike
  <2>8. Replay' = Replay
    BY <1>1, <2>6, NothingWritten
  <2>9. Whole' <=> Whole
    BY <1>1, <2>6 DEF Whole, Clean
  <2>10. QED
    BY <1>1, <2>1, <2>6, <2>7, <2>8, <2>9 DEF SoundInv
<1>5. QED
  BY <1>2, <1>3, <1>4 DEF Cascade

LEMMA ClearSound ==
  ASSUME TypeInv, SoundInv, Clear
  PROVE  SoundInv'
<1>1. PICK none \in Seq(AnyMessage) : none = <<>>
  <2>1. <<>> \in Seq(AnyMessage)
    OBVIOUS
  <2>2. QED
    BY <2>1, Zenon
<1>2. history' = none /\ seed' = seed /\ (Wrote("clear", none) \/ Missed("clear"))
  BY <1>1 DEF Clear
<1>3. Paired(none)
  BY <1>1, PairedNothing
<1>4. Whole' => Replay' = none
  <2>1. CASE Wrote("clear", none)
    <3>1. "clear" \in LineType /\ "clear" # "messages"
      BY DEF LineType
    <3>2. QED
      BY <1>2, <2>1, <3>1, WroteReads
  <2>2. CASE Missed("clear")
    <3>1. ~Clean'
      BY <2>2 DEF Clean, Missed, WroteBehindHalf, WriteFailed
    <3>2. QED
      BY <3>1 DEF Whole
  <2>3. QED
    BY <1>2, <2>1, <2>2
<1>5. QED
  BY <1>2, <1>3, <1>4 DEF SoundInv

\* A session that resumes all it should resumes what the last one would have.
LEMMA ResumeSound ==
  ASSUME TypeInv, SoundInv, Resume
  PROVE  SoundInv'
<1>1. PICK h \in Seq(AnyMessage) : h = Load(<<>>, disk) /\ history' = h /\ Replay' = h
  BY ResumeIs
<1>2. /\ resumes' # 0 /\ UNCHANGED <<failed, drifted, steered>>
      /\ forgot' = (forgot \/ h # Replay)
  <2>1. resumes' = resumes + 1 /\ resumes \in Nat
    BY BoundsAssumption DEF Resume, TypeInv
  <2>2. resumes' # 0
    BY <2>1
  <2>3. QED
    BY <1>1, <2>2 DEF Resume, Replay
<1>3. ASSUME Whole' PROVE Paired(h)
  <2>1. ~forgot /\ h = Replay
    BY <1>2, <1>3 DEF Whole
  <2>2. Whole
    BY <1>2, <1>3, <2>1 DEF Whole, Clean
  <2>3. QED
    BY <2>1, <2>2 DEF SoundInv
<1>4. QED
  BY <1>1, <1>2, <1>3 DEF SoundInv

LEMMA SoundNext ==
  ASSUME TypeInv, OrderInv, FaithInv, SoundInv, [Next]_vars
  PROVE  SoundInv'
<1>1. CASE UNCHANGED vars
  BY <1>1, NothingWritten DEF vars, SoundInv, Whole, Clean
<1>2. CASE CompactCommand
  <2>1. PICK cut \in 0..Len(history) : Compact(cut)
    BY <1>2 DEF CompactCommand
  <2>2. UNCHANGED <<seed, resumes, drifted, forgot, steered>>
    BY <1>2 DEF CompactCommand
  <2>3. QED
    BY <2>1, <2>2, CompactSound
<1>3. CASE Next /\ ~CompactCommand
  BY <1>3, PromptLegSound, ResumeLegSound, FinallySound, CascadeSound,
     ClearSound, ResumeSound DEF Next
<1>4. QED
  BY <1>1, <1>2, <1>3

LEMMA PairedIsSound ==
  ASSUME NEW h \in Seq(AnyMessage), Paired(h)
  PROVE  Answered(h) /\ NoOrphan(h)
<1>1. PICK c \in Seq(AnyMessage) : c = Coalesce(h) /\ Paired(c)
  BY CoalesceType, PairedCoalesced
<1>2. ASSUME NEW i \in 1..(Len(c) - 1)
      PROVE  CallIds(c[i]) \subseteq {p.id : p \in Returns(c[i + 1])}
  <2>1. i + 1 \in 2..Len(c) /\ (i + 1) - 1 = i
    OBVIOUS
  <2>2. Follows(c[(i + 1) - 1], c[i + 1])
    BY <1>1, <2>1 DEF Paired
  <2>3. QED
    BY <2>1, <2>2 DEF Follows, ReturnIds
<1>3. ASSUME NEW i \in DOMAIN c, NEW p \in Returns(c[i])
      PROVE  i > 1 /\ p.id \in CallIds(c[i - 1])
  <2>1. i \in 1..Len(c) /\ Len(c) \in Nat /\ c # <<>>
    BY LenProperties
  <2>2. p.id \in ReturnIds(c[i])
    BY DEF ReturnIds
  <2>3. i # 1
    BY <1>1, <2>1, <2>2 DEF Paired
  <2>4. i \in 2..Len(c) /\ i > 1
    BY <2>1, <2>3
  <2>5. QED
    BY <1>1, <2>2, <2>4 DEF Paired, Follows
<1>4. QED
  BY <1>1, <1>2, <1>3 DEF Answered, NoOrphan

(* A crashed, aborted or compacted conversation stays one the model will    *)
(* accept, in memory and when it is resumed: no call but those of the last  *)
(* message is without its returns and no return is without its call         *)
(* (_heal_dangling_tool_calls, split_tail, _persist_turn and the replay).   *)
THEOREM EveryCallStaysAnswered == Spec => []CallsStayAnswered
<1>1. Init => SoundInv
  <2>1. ASSUME Init PROVE SoundInv
    <3>1. <<>> \in Seq(AnyMessage)
      OBVIOUS
    <3>2. Load(<<>>, <<>>) = <<>>
      BY <3>1, LoadNothing, Zenon
    <3>3. Replay = <<>> /\ history = <<>>
      BY <2>1, <3>2 DEF Init, Replay
    <3>4. QED
      BY <3>3, PairedNothing DEF SoundInv
  <2>2. QED
    BY <2>1
<1>2. TypeInv /\ OrderInv /\ FaithInv /\ SoundInv /\ [Next]_vars => SoundInv'
  BY SoundNext
<1>3. TypeInv /\ SoundInv => CallsStayAnswered
  <2>1. ASSUME TypeInv, SoundInv, NEW h \in Sound PROVE Answered(h) /\ NoOrphan(h)
    <3>1. h \in Seq(AnyMessage)
      BY <2>1, ReplayType DEF Sound, TypeInv
    <3>2. Paired(h)
      BY <2>1 DEF Sound, SoundInv, Whole, Clean
    <3>3. QED
      BY <3>1, <3>2, PairedIsSound
  <2>2. QED
    BY <2>1 DEF CallsStayAnswered
<1>4. QED
  BY <1>1, <1>2, <1>3, FaithHolds, PTL DEF Spec

-----------------------------------------------------------------------------
(* The types *)

StoredInv ==
  Below(seed, parts) /\ \A i \in 1..Len(disk) : Below(disk[i].body, parts)

LEMMA BelowEnd ==
  ASSUME NEW h \in Seq(AnyMessage), NEW b \in Nat, Below(h, b), NEW n \in 0..Len(h)
  PROVE  Below(SubSeq(h, n + 1, Len(h)), b)
<1>1. PICK t : t = SubSeq(h, n + 1, Len(h))
  OBVIOUS
<1>2. Len(t) = Len(h) - n /\ \A i \in 1..(Len(h) - n) : t[i] = h[n + i]
  BY <1>1, RestOf
<1>3. ASSUME NEW i \in 1..Len(t) PROVE n + i \in 1..Len(h) /\ t[i] = h[n + i]
  BY <1>2
<1>4. QED
  BY <1>1, <1>3 DEF Below

LEMMA GrowsStored ==
  ASSUME TypeInv, TypeInv', OrderInv', StoredInv, Grows
  PROVE  StoredInv'
<1>1. PICK b \in Nat : b = parts
  BY DEF TypeInv
<1>2. PICK c \in Nat : c = parts'
  BY DEF TypeInv
<1>3. b <= c
  BY <1>1, <1>2 DEF Grows
<1>4. PICK s \in Seq(AnyMessage) : s = seed
  BY DEF TypeInv
<1>5. PICK d \in Seq(Line) : d = disk
  BY DEF TypeInv
<1>6. \A i \in 1..Len(d) : d[i].body \in Seq(AnyMessage)
  <2>1. \A i \in 1..Len(d) : d[i] \in Line
    OBVIOUS
  <2>2. QED
    BY <2>1 DEF Line
<1>7. Below(s, c)
  BY <1>1, <1>3, <1>4, BelowMore DEF StoredInv
<1>8. ASSUME NEW i \in 1..Len(d) PROVE Below(d[i].body, c)
  <2>1. PICK body \in Seq(AnyMessage) : body = d[i].body
    BY <1>6
  <2>2. Below(body, b)
    BY <1>1, <1>5, <2>1 DEF StoredInv
  <2>3. QED
    BY <1>3, <2>1, <2>2, BelowMore
<1>9. CASE disk' = disk
  BY <1>2, <1>4, <1>5, <1>7, <1>8, <1>9 DEF StoredInv, Grows
<1>10. CASE disk' # disk
  <2>1. PICK h \in Seq(AnyMessage) : h = history'
    BY DEF TypeInv
  <2>2. PICK n \in Nat, type \in LineType :
          n <= Len(h) /\ disk' = Append(disk, [type |-> type, body |-> SubSeq(h, n + 1, Len(h))])
    BY <1>10, <2>1 DEF Grows
  <2>3. PICK t : t = SubSeq(h, n + 1, Len(h))
    OBVIOUS
  <2>4. n \in 0..Len(h)
    BY <2>2
  <2>5. t \in Seq(AnyMessage) /\ Below(t, c)
    BY <1>2, <2>1, <2>3, <2>4, RestOf, BelowEnd DEF OrderInv
  <2>6. PICK line : line = [type |-> type, body |-> t]
    OBVIOUS
  <2>7. line \in Line /\ line.body = t
    BY <2>5, <2>6 DEF Line
  <2>8. PICK e : e = Append(d, line)
    OBVIOUS
  <2>9. /\ Len(e) = Len(d) + 1 /\ Len(d) \in Nat /\ e[Len(d) + 1] = line
        /\ \A i \in 1..Len(d) : e[i] = d[i]
    BY <2>7, <2>8, AppendProperties
  <2>10. ASSUME NEW i \in 1..Len(e) PROVE Below(e[i].body, c)
    <3>1. CASE i = Len(d) + 1
      BY <2>5, <2>7, <2>9, <3>1
    <3>2. CASE i # Len(d) + 1
      <4>1. i \in 1..Len(d) /\ e[i] = d[i]
        BY <2>9, <3>2
      <4>2. QED
        BY <1>8, <4>1
    <3>3. QED
      BY <3>1, <3>2
  <2>11. disk' = e
    BY <1>5, <2>2, <2>3, <2>6, <2>8
  <2>12. seed' = s
    BY <1>4 DEF Grows
  <2>13. QED
    BY <1>2, <1>7, <2>10, <2>11, <2>12 DEF StoredInv
<1>11. QED
  BY <1>9, <1>10

\* A checkpoint or a marker is the new history whole.
LEMMA MarkerGrows ==
  ASSUME NEW h \in Seq(AnyMessage), history' = h, NEW type \in LineType,
         Wrote(type, h) \/ Missed(type), seed' = seed, parts <= parts'
  PROVE  Grows
<1>1. CASE Missed(type)
  BY <1>1 DEF Grows, Missed, WroteBehindHalf, WriteFailed
<1>2. CASE Wrote(type, h)
  <2>1. 0 \in Nat /\ 0 <= Len(h) /\ 0 + 1 = 1
    OBVIOUS
  <2>2. SubSeq(h, 1, Len(h)) = h
    BY FirstAll
  <2>3. disk' = Append(disk, [type |-> type, body |-> SubSeq(h, 0 + 1, Len(h))])
    BY <1>2, <2>1, <2>2 DEF Wrote
  <2>4. QED
    BY <2>1, <2>3 DEF Grows
<1>3. QED
  BY <1>1, <1>2

LEMMA CompactGrows ==
  ASSUME TypeInv, TypeInv', NEW cut \in 0..Len(history), Compact(cut), seed' = seed
  PROVE  Grows
<1>1. Wrote("compaction", history') \/ Missed("compaction")
  BY DEF Compact
<1>2. parts <= parts'
  BY DEF Compact, TypeInv
<1>3. history' \in Seq(AnyMessage) /\ "compaction" \in LineType
  BY DEF TypeInv, LineType, Failure
<1>4. QED
  BY <1>1, <1>2, <1>3, MarkerGrows

LEMMA StoredNext ==
  ASSUME TypeInv, OrderInv, StoredInv, [Next]_vars
  PROVE  StoredInv'
<1>0. TypeInv' /\ OrderInv'
  BY OrderNext
<1>1. CASE UNCHANGED vars
  BY <1>1 DEF vars, StoredInv
<1>2. CASE PromptLeg
  BY <1>0, <1>2, PromptLegOrder, GrowsStored
<1>3. CASE ResumeLeg
  BY <1>0, <1>3, ResumeLegOrder, GrowsStored
<1>4. CASE Abort \/ EndTurn
  <2>1. PICK h \in Seq(AnyMessage) : h = history
    BY DEF TypeInv
  <2>2. PICK cursor \in Nat : cursor = persisted
    BY DEF TypeInv
  <2>3. Persist(h, cursor) /\ history' = h /\ seed' = seed /\ parts' = parts
    BY <1>4, <2>1, <2>2 DEF Abort, EndTurn
  <2>4. parts <= parts'
    BY <2>3 DEF TypeInv
  <2>5. QED
    BY <1>0, <2>3, <2>4, PersistGrows, GrowsStored
<1>5. CASE Cascade
  <2>1. CASE \E cut \in 0..Len(history) : Compact(cut)
    <3>1. seed' = seed
      BY <1>5 DEF Cascade
    <3>2. QED
      BY <1>0, <2>1, <3>1, CompactGrows, GrowsStored
  <2>2. CASE UNCHANGED <<disk, parts>>
    <3>1. seed' = seed
      BY <1>5 DEF Cascade
    <3>2. QED
      BY <2>2, <3>1 DEF StoredInv
  <2>3. QED
    BY <1>5, <2>1, <2>2 DEF Cascade
<1>6. CASE CompactCommand
  <2>1. PICK cut \in 0..Len(history) : Compact(cut)
    BY <1>6 DEF CompactCommand
  <2>2. seed' = seed
    BY <1>6 DEF CompactCommand
  <2>3. QED
    BY <1>0, <2>1, <2>2, CompactGrows, GrowsStored
<1>7. CASE Clear
  <2>1. seed' = seed /\ parts' = parts /\ history' = <<>>
        /\ (Wrote("clear", history') \/ Missed("clear"))
    BY <1>7 DEF Clear
  <2>2. history' \in Seq(AnyMessage) /\ "clear" \in LineType /\ parts <= parts'
    BY <1>0, <2>1 DEF TypeInv, LineType, Failure
  <2>3. Grows
    BY <2>1, <2>2, MarkerGrows
  <2>4. QED
    BY <1>0, <2>3, GrowsStored
<1>8. CASE Resume
  <2>1. seed' = history' /\ disk' = <<>>
    BY <1>8 DEF Resume
  <2>2. Below(seed', parts')
    BY <1>0, <2>1 DEF OrderInv
  <2>3. QED
    BY <2>1, <2>2 DEF StoredInv
<1>9. QED
  BY <1>1, <1>2, <1>3, <1>4, <1>5, <1>6, <1>7, <1>8 DEF Next

LEMMA SeqOfOthers ==
  ASSUME NEW S, NEW T, NEW s \in Seq(S), \A i \in 1..Len(s) : s[i] \in T
  PROVE  s \in Seq(T)
<1>1. Len(s) \in Nat /\ s = [i \in 1..Len(s) |-> s[i]]
  OBVIOUS
<1>2. QED
  BY <1>1, SeqDef

LEMMA BelowMessages ==
  ASSUME NEW h \in Seq(AnyMessage), Below(h, parts), TypeInv
  PROVE  h \in Seq(Message)
<1>1. ASSUME NEW i \in 1..Len(h) PROVE h[i] \in Message
  <2>1. PICK m \in AnyMessage : m = h[i]
    OBVIOUS
  <2>2. \A x \in {p.id : p \in m.parts} : x <= parts
    BY <2>1 DEF Below
  <2>3. ASSUME NEW p \in m.parts PROVE p \in Part
    <3>1. p \in AnyPart
      BY DEF AnyMessage
    <3>2. p.id <= parts /\ p.id \in Nat \ {0}
      BY <2>2, <3>1 DEF AnyPart
    <3>3. p.id \in 1..MaxParts
      BY <3>2, BoundsAssumption DEF TypeInv
    <3>4. QED
      BY <3>1, <3>3 DEF AnyPart, Part
  <2>4. m \in Message
    BY <2>3 DEF AnyMessage, Message
  <2>5. QED
    BY <2>1, <2>4
<1>2. QED
  BY <1>1, SeqOfOthers

\* Half a line is at the end of the log, or is not.
LEMMA TornType ==
  ASSUME torn \in BOOLEAN, [Next]_vars
  PROVE  torn' \in BOOLEAN
<1>1. ASSUME NEW type, Missed(type) PROVE torn' \in BOOLEAN
  <2>1. torn' = FALSE \/ torn' = torn \/ torn' = (torn \/ failed = {})
    BY <1>1 DEF Missed, WroteBehindHalf, WriteFailed
  <2>2. QED
    BY <2>1
<1>2. ASSUME NEW type, NEW body, Wrote(type, body) PROVE torn' \in BOOLEAN
  BY <1>2 DEF Wrote
<1>3. ASSUME NEW h, NEW cursor, Persist(h, cursor) PROVE torn' \in BOOLEAN
  <2>1. \/ torn' = torn
        \/ \E body : Wrote("messages", body)
        \/ Missed("messages")
    BY <1>3 DEF Persist, Missed
  <2>2. QED
    BY <1>1, <1>2, <2>1
<1>4. ASSUME NEW cut, Compact(cut) PROVE torn' \in BOOLEAN
  BY <1>1, <1>2, <1>4 DEF Compact
<1>5. ASSUME NEW prior, NEW new,
                  LegAnswers(prior, new) \/ LegPauses(prior, new) \/ LegCrashes(prior, new)
           PROVE  torn' \in BOOLEAN
  BY <1>3, <1>5 DEF LegAnswers, LegPauses, LegCrashes
<1>6. CASE PromptLeg
  <2>1. \E prior, new : LegAnswers(prior, new) \/ LegPauses(prior, new) \/ LegCrashes(prior, new)
    BY <1>6, Zenon DEF PromptLeg
  <2>2. QED
    BY <1>5, <2>1
<1>7. CASE ResumeLeg
  <2>1. \E prior, new : LegAnswers(prior, new) \/ LegPauses(prior, new) \/ LegCrashes(prior, new)
    BY <1>7, Zenon DEF ResumeLeg
  <2>2. QED
    BY <1>5, <2>1
<1>8. CASE Abort \/ EndTurn
  BY <1>3, <1>8 DEF Abort, EndTurn
<1>9. CASE Cascade \/ CompactCommand
  BY <1>4, <1>9 DEF Cascade, CompactCommand
<1>10. CASE Clear
  BY <1>1, <1>2, <1>10 DEF Clear
<1>11. CASE Resume \/ UNCHANGED vars
  BY <1>11 DEF Resume, vars
<1>12. QED
  BY <1>6, <1>7, <1>8, <1>9, <1>10, <1>11 DEF Next

(* Every variable stays in its domain, and the cursor inside the history,   *)
(* unless a leg that raised left it beyond a history that coalesced.        *)
THEOREM ConversationTypes == Spec => []TypeOK
<1>1. Init => StoredInv
  BY DEF Init, StoredInv, Below
<1>2. TypeInv /\ OrderInv /\ StoredInv /\ [Next]_vars => StoredInv'
  BY StoredNext
<1>3. ASSUME TypeInv, OrderInv, FaithInv, StoredInv, torn \in BOOLEAN PROVE TypeOK
  <2>1. history \in Seq(Message)
    BY <1>3, BelowMessages DEF OrderInv, TypeInv
  <2>2. seed \in Seq(Message)
    BY <1>3, BelowMessages DEF StoredInv, TypeInv
  <2>3. disk \in Seq([type : LineType, body : Seq(Message)])
    <3>1. PICK d \in Seq(Line) : d = disk
      BY <1>3 DEF TypeInv
    <3>2. ASSUME NEW i \in 1..Len(d) PROVE d[i] \in [type : LineType, body : Seq(Message)]
      <4>1. PICK line \in Line : line = d[i]
        OBVIOUS
      <4>2. PICK body \in Seq(AnyMessage) : body = line.body
        BY DEF Line
      <4>3. Below(body, parts)
        BY <1>3, <3>1, <4>1, <4>2 DEF StoredInv
      <4>4. body \in Seq(Message)
        BY <1>3, <4>3, BelowMessages
      <4>5. QED
        BY <4>1, <4>2, <4>4 DEF Line
    <3>3. QED
      BY <3>1, <3>2, SeqOfOthers
  <2>4. parts \in 0..MaxParts
    BY <1>3, BoundsAssumption DEF TypeInv
  <2>5. persisted \in Nat /\ (persisted <= Len(history) \/ drifted)
    BY <1>3 DEF TypeInv, FaithInv
  <2>6. QED
    BY <1>3, <2>1, <2>2, <2>3, <2>4, <2>5 DEF TypeInv, TypeOK, Failure
<1>4. (Init => torn \in BOOLEAN) /\ (torn \in BOOLEAN /\ [Next]_vars => (torn \in BOOLEAN)')
  BY TornType DEF Init
<1>5. QED
  BY <1>1, <1>2, <1>3, <1>4, FaithHolds, PTL DEF Spec
=============================================================================
