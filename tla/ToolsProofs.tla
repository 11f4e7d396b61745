---------------------------- MODULE ToolsProofs ----------------------------
(* Proofs about the tools.  Exec, for any number of commands, processes and *)
(* pieces of output: its types, and that the reply is the whole output.     *)
(* Files, for any texts, windows and caps: a save is all or nothing, an     *)
(* edit replaces what was asked for and nothing else, and what is shown is  *)
(* as much as both caps allow.  Fanout, for any calls, slots and responses: *)
(* slots are exact and folds tell the truth.                                *)
EXTENDS Exec, Files, Fanout, FiniteSetTheorems, FunctionTheorems, SequenceTheorems, TLAPS

\* A command has processes only once it was spawned, and after its reply none that could
\* still write.  Without the first the signalled processes of the command before could be
\* taken for those of this one; without the second the reply could be outgrown.
Before == {"creating", "installing", "ready"}
ExecInv ==
  /\ TypeOK
  /\ pc \in Before => group = {} /\ doomed = {}
  /\ reply.ran => pc \in {"idle", "dead"} /\ ~Held /\ reply.out = written

USE ExecAssumption DEF command, backend

LEMMA NumbersAreNat == MaxCalls \in Nat /\ MaxGroup \in Nat /\ MaxWritten \in Nat
  OBVIOUS

LEMMA InitInv == Init => ExecInv
<1> SUFFICES ASSUME Init PROVE ExecInv
  OBVIOUS
<1>1. 0 \in 0 .. MaxCalls /\ 0 \in 0 .. MaxWritten
  BY NumbersAreNat
<1>2. NoReply \in [late : BOOLEAN, out : 0 .. MaxWritten, ran : BOOLEAN]
  BY <1>1 DEF NoReply
<1>3. TypeOK
  BY <1>1, <1>2 DEF Init, TypeOK
<1>4. QED
  BY <1>3 DEF Init, ExecInv, NoReply, Before

\* What a process does on its own: it ends, forks or writes.
LEMMA ProcessKeeps ==
  ASSUME ExecInv,
         \/ Writes
         \/ \E p \in group : Ends(p)
         \/ \E p \in Proc : Fork(p)
         \/ \E p \in doomed : Dies(p)
  PROVE  ExecInv'
<1>1. CASE Writes
  BY <1>1, NumbersAreNat DEF ExecInv, TypeOK, Writes, Held
<1>2. ASSUME NEW p \in group, Ends(p) PROVE ExecInv'
  BY <1>2 DEF ExecInv, TypeOK, Ends, Held
<1>3. ASSUME NEW p \in doomed, Dies(p) PROVE ExecInv'
  BY <1>3 DEF ExecInv, TypeOK, Dies, Held
<1>4. ASSUME NEW p \in Proc, Fork(p) PROVE ExecInv'
  BY <1>4 DEF ExecInv, TypeOK, Fork, Before
<1>5. QED
  BY <1>1, <1>2, <1>3, <1>4

\* What happens to the keeper container.
LEMMA KeeperKeeps ==
  ASSUME ExecInv, KeeperDies \/ (\E c \in inside : InsideEnds(c)) \/ KeeperUp \/ KeeperFails
                  \/ Installed \/ Close
  PROVE  ExecInv'
<1>1. CASE KeeperDies
  BY <1>1 DEF ExecInv, TypeOK, KeeperDies, Held
<1>2. CASE \E c \in inside : InsideEnds(c)
  BY <1>2 DEF ExecInv, TypeOK, InsideEnds, Held
<1>3. CASE KeeperUp
  <2>1. inside' \subseteq 0 .. calls'
    BY <1>3, NumbersAreNat DEF ExecInv, TypeOK, KeeperUp
  <2>2. QED
    BY <1>3, <2>1 DEF ExecInv, TypeOK, KeeperUp, Held, Before
<1>4. CASE KeeperFails
  BY <1>4 DEF ExecInv, TypeOK, KeeperFails, Held, Before
<1>5. CASE Installed
  BY <1>5 DEF ExecInv, TypeOK, Installed, Held, Before
<1>6. CASE Close
  BY <1>6 DEF ExecInv, TypeOK, Close, Held, Before
<1>7. QED
  BY <1>1, <1>2, <1>3, <1>4, <1>5, <1>6

LEMMA BeginKeeps == ExecInv /\ Begin => ExecInv'
<1> SUFFICES ASSUME ExecInv, Begin PROVE ExecInv'
  OBVIOUS
<1>1. TypeOK'
  BY NumbersAreNat DEF ExecInv, TypeOK, Begin, NoReply
<1>2. QED
  BY <1>1 DEF ExecInv, Begin, NoReply

LEMMA SpawnKeeps == ExecInv /\ (Spawn \/ SpawnFails) => ExecInv'
<1>1. ASSUME ExecInv, Spawn PROVE ExecInv'
  <2>1. group' \subseteq Proc /\ doomed' = {}
    BY <1>1 DEF ExecInv, Spawn, Lead, Proc, Before
  <2>2. inside' \subseteq 0 .. calls'
    BY <1>1 DEF ExecInv, TypeOK, Spawn
  <2>3. QED
    BY <1>1, <2>1, <2>2 DEF ExecInv, TypeOK, Spawn, Before
<1>2. ASSUME ExecInv, SpawnFails PROVE ExecInv'
  BY <1>2 DEF ExecInv, TypeOK, SpawnFails, Held, Before
<1>3. QED
  BY <1>1, <1>2

\* The two deadlines: a signal is sent only while the exit of the lead is unknown.
LEMMA SignalKeeps == ExecInv /\ (Deadline \/ GraceOver \/ Reap) => ExecInv'
<1>1. ASSUME ExecInv, Deadline PROVE ExecInv'
  BY <1>1 DEF ExecInv, TypeOK, Deadline, Signal, InGroup, Before
<1>2. ASSUME ExecInv, GraceOver PROVE ExecInv'
  BY <1>2 DEF ExecInv, TypeOK, GraceOver, Signal, InGroup, Before
<1>3. ASSUME ExecInv, Reap PROVE ExecInv'
  BY <1>3 DEF ExecInv, TypeOK, Reap, Held
<1>4. QED
  BY <1>1, <1>2, <1>3

LEMMA ReturnKeeps == ExecInv /\ (Return \/ Crash) => ExecInv'
<1>1. ASSUME ExecInv, Return PROVE ExecInv'
  <2>1. ~Held' /\ reply'.out = written'
    BY <1>1 DEF Return, CommDone, Held
  <2>2. TypeOK'
    BY <1>1 DEF ExecInv, TypeOK, Return
  <2>3. QED
    BY <1>1, <2>1, <2>2 DEF ExecInv, Return, Before
<1>2. ASSUME ExecInv, Crash PROVE ExecInv'
  BY <1>2 DEF ExecInv, TypeOK, Crash, Held, Before
<1>3. QED
  BY <1>1, <1>2

\* The inductive invariant.
THEOREM ExecSafety == Spec => []ExecInv
<1>1. ExecInv /\ [Next]_vars => ExecInv'
  <2> SUFFICES ASSUME ExecInv, [Next]_vars PROVE ExecInv'
    OBVIOUS
  <2>1. CASE UNCHANGED vars
    BY <2>1 DEF vars, ExecInv, TypeOK, Held
  <2>2. CASE Next
    BY <2>2, ProcessKeeps, KeeperKeeps, BeginKeeps, SpawnKeeps, SignalKeeps, ReturnKeeps
       DEF Next, Answered, Outside
  <2>3. QED
    BY <2>1, <2>2
<1>2. QED
  BY InitInv, <1>1, PTL DEF Spec

\* Whatever a command forks, and whenever its processes print, end or are killed, nothing is
\* written after the reply that is not in it (tools/exec.py, LocalExecutor.run).
THEOREM ExecReplyIsWhole == Spec => []ReplyIsWhole
<1>1. ExecInv => ReplyIsWhole
  BY DEF ExecInv, ReplyIsWhole
<1>2. QED
  BY ExecSafety, <1>1, PTL

-----------------------------------------------------------------------------
(* The saves of the file tools *)

HIDE ExecAssumption DEF command, backend

\* What a save that is under way has done so far: the sibling is what stands between the old
\* file and the new one, so the target is still the old file until os.replace.
SaveInv ==
    /\ stage \notin {"fill", "replace", "crashed"} => temp = None
    /\ stage \in {"save", "fill", "replace", "put"} => op.tool \in {"edit", "write"}
    /\ stage \in {"fill", "replace"} => via = "host"
    /\ stage = "put" => via = "docker"
    /\ stage = "replace" => temp = final
    /\ via = "host" /\ stage # "done" => disk = file
    /\ stage = "done" => IF op.tool \in {"edit", "write"} THEN disk = final ELSE via = "host" => disk = file

LEMMA InitSaves == FilesInit => SaveInv
  BY DEF FilesInit, SaveInv

LEMMA StepSaves == SaveInv /\ [FilesNext]_filesVars => SaveInv'
<1>1. SUFFICES ASSUME SaveInv, [FilesNext]_filesVars PROVE SaveInv'
  OBVIOUS
<1>2. CASE Edit \/ Write
  BY <1>1, <1>2 DEF Edit, Write, SaveInv
<1>3. CASE Read \/ Stream
  BY <1>1, <1>3 DEF Read, Stream, Show, SaveInv
<1>4. CASE OpenTemp \/ FillTemp
  BY <1>1, <1>4 DEF OpenTemp, FillTemp, SaveInv
<1>5. CASE Replace \/ SaveFails
  BY <1>1, <1>5 DEF Replace, SaveFails, SaveInv
<1>6. CASE OpenMount \/ Put \/ PutFails
  BY <1>1, <1>6 DEF OpenMount, Put, PutFails, SaveInv
<1>7. CASE ProcessEnds \/ UNCHANGED filesVars
  BY <1>1, <1>7 DEF ProcessEnds, filesVars, SaveInv
<1>8. QED
  BY <1>1, <1>2, <1>3, <1>4, <1>5, <1>6, <1>7 DEF FilesNext

\* Whatever is edited or written, and wherever the save fails or the process dies: on the host
\* the file is the old one or the new one, never a part, and a save that is over has left no
\* sibling (tools/files.py, _atomic_write_bytes).
THEOREM FilesNeverTorn == FilesSpec => []NeverTorn
<1>1. SaveInv => NeverTorn
  BY DEF SaveInv, NeverTorn
<1>2. QED
  BY <1>1, InitSaves, StepSaves, PTL DEF FilesSpec

-----------------------------------------------------------------------------
(* Induction, the least and the greatest of a set.  The induction theorems  *)
(* of the library are about operators, which the provers cannot              *)
(* instantiate; these are about sets.                                        *)

LEMMA NatInSet ==
  ASSUME NEW T, 0 \in T, \A n \in Nat : n \in T => n + 1 \in T
  PROVE  Nat \subseteq T
<1>. SUFFICES ASSUME NEW n \in Nat, n \notin T PROVE FALSE
  OBVIOUS
<1>. DEFINE A == {i \in 0..n : i \notin T}
            f == [i \in A |-> i - 1]
<1>1. IsFiniteSet(A) /\ IsFiniteSet(A \ {n}) /\ n \in A
  <2>1. IsFiniteSet(0..n)
    BY FS_Interval
  <2>2. QED
    BY <2>1, FS_Subset
<1>2. f \in [A -> A \ {n}]
  OBVIOUS
<1>3. \A i, j \in A : f[i] = f[j] => i = j
  OBVIOUS
<1>. HIDE DEF A, f
<1>4. Cardinality(A \ {n}) < Cardinality(A)
  <2>1. Cardinality(A) \in Nat /\ Cardinality(A \ {n}) = Cardinality(A) - 1
    BY <1>1, FS_CardinalityType, FS_RemoveElement
  <2>2. QED
    BY <2>1
<1>5. \E i, j \in A : i # j /\ f[i] = f[j]
  BY <1>1, <1>2, <1>4, FS_PigeonHole
<1>6. QED
  BY <1>3, <1>5

\* A set of natural numbers has a least element.
LEMMA LeastIs ==
  ASSUME NEW S \in SUBSET Nat, S # {}
  PROVE  \E m \in S : \A x \in S : m <= x
<1> DEFINE T == {n \in Nat : \A x \in S : x <= n => \E m \in S : \A y \in S : m <= y}
<1>1. 0 \in T
  <2>1. ASSUME NEW x \in S, x <= 0 PROVE \E m \in S : \A y \in S : m <= y
    <3>1. \A y \in S : x <= y
      BY <2>1
    <3>2. QED
      BY <3>1
  <2>2. QED
    BY <2>1
<1>2. ASSUME NEW n \in Nat, n \in T PROVE n + 1 \in T
  <2>1. ASSUME NEW x \in S, x <= n + 1 PROVE \E m \in S : \A y \in S : m <= y
    <3>1. CASE \E z \in S : z <= n
      BY <1>2, <3>1
    <3>2. CASE ~\E z \in S : z <= n
      <4>1. \A y \in S : x <= y
        BY <1>2, <2>1, <3>2
      <4>2. QED
        BY <4>1
    <3>3. QED
      BY <3>1, <3>2
  <2>2. QED
    BY <2>1
<1>3. Nat \subseteq T
  <2>. HIDE DEF T
  <2>1. QED
    BY <1>1, <1>2, NatInSet
<1>4. PICK x : x \in S
  OBVIOUS
<1>5. x \in T /\ x <= x
  BY <1>3, <1>4
<1>6. QED
  BY <1>4, <1>5

LEMMA MaxIs ==
  ASSUME NEW S \in SUBSET Nat, S # {}, NEW b \in Nat, \A x \in S : x <= b
  PROVE  Max(S) \in S /\ \A x \in S : x <= Max(S)
<1>. DEFINE T == {n \in Nat : \A R \in SUBSET Nat :
                    R # {} /\ (\A x \in R : x <= n) => \E m \in R : \A x \in R : m >= x}
<1>1. 0 \in T
  <2>1. ASSUME NEW R \in SUBSET Nat, R # {}, \A x \in R : x <= 0
        PROVE  \E m \in R : \A x \in R : m >= x
    <3>1. \A x \in R : x = 0
      BY <2>1
    <3>2. QED
      BY <2>1, <3>1
  <2>2. QED
    BY <2>1
<1>2. ASSUME NEW n \in Nat, n \in T PROVE n + 1 \in T
  <2>1. ASSUME NEW R \in SUBSET Nat, R # {}, \A x \in R : x <= n + 1
        PROVE  \E m \in R : \A x \in R : m >= x
    <3>1. CASE n + 1 \in R
      BY <2>1, <3>1
    <3>2. CASE n + 1 \notin R
      <4>1. \A x \in R : x <= n
        BY <2>1, <3>2
      <4>2. QED
        BY <1>2, <2>1, <4>1
    <3>3. QED
      BY <3>1, <3>2
  <2>2. QED
    BY <2>1
<1>3. Nat \subseteq T
  <2>. HIDE DEF T
  <2>1. QED
    BY <1>1, <1>2, NatInSet
<1>4. PICK m \in S : \A x \in S : m >= x
  BY <1>3
<1>5. Max(S) \in S /\ \A x \in S : Max(S) >= x
  BY <1>4 DEF Max
<1>6. QED
  BY <1>5

LEMMA MinOfTwo ==
  ASSUME NEW a \in Nat, NEW b \in Nat
  PROVE  Min({a, b}) \in {a, b} /\ Min({a, b}) <= a /\ Min({a, b}) <= b
<1>1. \E x \in {a, b} : \A y \in {a, b} : x <= y
  OBVIOUS
<1>2. Min({a, b}) \in {a, b} /\ \A y \in {a, b} : Min({a, b}) <= y
  BY <1>1 DEF Min
<1>3. QED
  BY <1>2


LEMMA MaxOfSet ==
  ASSUME NEW S \in SUBSET Nat, NEW m \in S, \A y \in S : y <= m
  PROVE  Max(S) = m
<1>1. Max(S) \in S /\ \A y \in S : y <= Max(S)
  BY MaxIs
<1> HIDE DEF Max
<1>2. m \in Nat /\ Max(S) \in Nat /\ m <= Max(S) /\ Max(S) <= m
  BY <1>1
<1>3. QED
  BY <1>2

LEMMA MinOfSet ==
  ASSUME NEW S \in SUBSET Nat, NEW m \in S, \A y \in S : m <= y
  PROVE  Min(S) = m
<1>1. \E x \in S : \A y \in S : x <= y
  OBVIOUS
<1>2. Min(S) \in S /\ \A y \in S : Min(S) <= y
  BY <1>1 DEF Min
<1>3. m \in Nat /\ Min(S) \in Nat /\ m <= Min(S) /\ Min(S) <= m
  BY <1>2
<1>4. QED
  BY <1>3

LEMMA NoBytes == ASSUME NEW t PROVE Bytes(t, 0) = 0
<1> DEFINE choice(S) == Max(S)
           Def(g, s) == IF s = {} THEN 0
                        ELSE LET x == choice(s) IN g[s \ {x}] + SubSeq(t, 1, 0)[x].size
           iter == CHOOSE g : g = [s \in SUBSET {} |-> Def(g, s)]
           f == [s \in SUBSET {} |-> 0]
<1>1. f = [s \in SUBSET {} |-> Def(f, s)]
  OBVIOUS
<1> HIDE DEF f, Def
<1>2. iter = [s \in SUBSET {} |-> Def(iter, s)]
  BY <1>1, Zenon
<1> HIDE DEF iter
<1>3. iter[{}] = 0
  BY <1>2 DEF Def
<1>4. SubSeq(t, 1, 0) = <<>> /\ DOMAIN SubSeq(t, 1, 0) = {}
  OBVIOUS
<1>5. Bytes(t, 0) = iter[{}]
  BY <1>4, Zenon DEF Bytes, FoldLeft, MapThenFoldSet, iter, Def
<1>6. QED
  BY <1>3, <1>5

\* The first lines of a head are the first lines.
LEMMA BytesOfHead ==
  ASSUME NEW t \in Seq(Line), NEW m \in 0 .. Len(t), NEW k \in 0 .. m
  PROVE  Bytes(SubSeq(t, 1, m), k) = Bytes(t, k)
<1> DEFINE Sum(s) == FoldLeft(LAMBDA n, l : n + l.size, 0, s)
<1>1. SubSeq(SubSeq(t, 1, m), 1, k) = SubSeq(t, 1, k)
  OBVIOUS
<1>2. Bytes(SubSeq(t, 1, m), k) = Sum(SubSeq(SubSeq(t, 1, m), 1, k)) /\ Bytes(t, k) = Sum(SubSeq(t, 1, k))
  BY DEF Bytes
<1> HIDE DEF Sum
<1>3. QED
  BY <1>1, <1>2

\* Whatever the text and the caps, as long as a line may be kept: the longest head of whole
\* lines within both caps, and the first line where not even that one fits, provided the lines
\* end in line feeds (tools/truncate.py).
THEOREM TruncateKeepsTheLongest ==
  ASSUME NEW t \in Seq(Line), NEW maxLines \in Nat \ {0}, NEW maxBytes \in Nat,
         \A k \in 1 .. Len(t) - 1 : t[k].feed
  PROVE  Kept(t, maxLines, maxBytes) =
           Max({k \in 0 .. Len(t) : k <= maxLines /\ Bytes(t, k) <= maxBytes} \union {Min({1, Len(t)})})
<1> DEFINE Within == {k \in 0 .. Len(t) : k <= maxLines /\ Bytes(t, k) <= maxBytes}
           least == Min({1, Len(t)})
           m == Min({maxLines, Len(t)})
           head == SubSeq(t, 1, m)
           fits == {k \in LineEnds(head) : Bytes(head, k) <= maxBytes}
<1>1. Len(t) \in Nat
  OBVIOUS
<1>2. least \in Nat /\ least <= 1 /\ least <= Len(t) /\ (Len(t) >= 1 => least = 1)
  <2>1. CASE Len(t) = 0
    <3>1. least = 0
      BY <2>1, MinOfSet
    <3>2. QED
      BY <2>1, <3>1
  <2>2. CASE Len(t) >= 1
    <3>1. least = 1
      BY <1>1, <2>2, MinOfSet
    <3>2. QED
      BY <2>2, <3>1
  <2>3. QED
    BY <1>1, <2>1, <2>2
<1>3. m \in 0 .. Len(t) /\ m <= maxLines /\ (m = maxLines \/ m = Len(t))
  <2>1. CASE maxLines <= Len(t)
    <3>1. m = maxLines
      BY <1>1, <2>1, MinOfSet
    <3>2. QED
      BY <1>1, <2>1, <3>1
  <2>2. CASE Len(t) <= maxLines
    <3>1. m = Len(t)
      BY <1>1, <2>2, MinOfSet
    <3>2. QED
      BY <1>1, <2>2, <3>1
  <2>3. QED
    BY <1>1, <2>1, <2>2
<1>4. Bytes(t, 0) <= maxBytes /\ 0 \in Within
  <2>1. Bytes(t, 0) = 0
    BY NoBytes
  <2>2. QED
    BY <1>1, <2>1
<1> HIDE DEF m, least
<1>5. Len(head) = m /\ \A k \in 0 .. m : Bytes(head, k) = Bytes(t, k)
  <2>1. Len(head) = m
    BY <1>1, <1>3
  <2>2. QED
    BY <1>3, <2>1, BytesOfHead
<1>6. LineEnds(head) = 1 .. m
  <2>1. \A k \in 1 .. m : k = m \/ head[k].feed
    <3>1. \A k \in 1 .. m : head[k] = t[k] /\ (k = m \/ k \in 1 .. Len(t) - 1)
      BY <1>1, <1>3
    <3>2. QED
      BY <3>1
  <2>2. QED
    BY <1>5, <2>1 DEF LineEnds
<1>7. Within = {k \in 0 .. m : Bytes(t, k) <= maxBytes} /\ fits = Within \ {0}
  <2>1. Within = {k \in 0 .. m : Bytes(t, k) <= maxBytes}
    BY <1>1, <1>3
  <2>2. \A k \in 1 .. m : k \in 0 .. m /\ k # 0
    BY <1>3
  <2>3. fits = {k \in 1 .. m : Bytes(t, k) <= maxBytes}
    BY <1>5, <1>6, <2>2
  <2>4. QED
    BY <1>3, <2>1, <2>3
<1> HIDE DEF head, fits
<1>8. /\ Within \union {least} \in SUBSET Nat /\ fits \in SUBSET Nat
      /\ \A k \in Within : 0 <= k /\ k <= m
  BY <1>2, <1>3, <1>7
<1>9. Bytes(head, Len(head)) = Bytes(t, m)
  BY <1>3, <1>5
<1> HIDE DEF Within
<1>10. CASE Bytes(t, m) <= maxBytes
  <2>1. Kept(t, maxLines, maxBytes) = m
    <3>1. TruncateText(t, maxLines, maxBytes) = Len(head)
      BY <1>9, <1>10 DEF TruncateText, head, m
    <3>2. QED
      BY <1>1, <1>3, <1>5, <3>1 DEF Kept
  <2>2. m \in Within /\ least <= m
    BY <1>1, <1>2, <1>3, <1>7, <1>10
  <2>3. Max(Within \union {least}) = m
    BY <1>8, <2>2, MaxOfSet
  <2>4. QED
    BY <2>1, <2>3 DEF Within, least
<1>11. CASE ~(Bytes(t, m) <= maxBytes)
  <2>1. Kept(t, maxLines, maxBytes) = IF fits # {} THEN Max(fits) ELSE Min(LineEnds(head))
    <3>1. ~(Len(t) <= maxLines /\ Bytes(t, Len(t)) <= maxBytes)
      BY <1>1, <1>3, <1>11
    <3>2. QED
      BY <1>9, <1>11, <3>1 DEF Kept, TruncateText, head, fits, m
  <2>2. m >= 1 /\ least = 1
    <3>1. m # 0
      BY <1>4, <1>11
    <3>2. QED
      BY <1>1, <1>2, <1>3, <3>1
  <2>3. CASE fits = {}
    <3>1. Min(LineEnds(head)) = 1
      BY <1>3, <1>6, <2>2, MinOfSet
    <3>2. Within = {0}
      BY <1>4, <1>7, <2>3
    <3>3. Max(Within \union {least}) = 1
      BY <1>8, <2>2, <3>2, MaxOfSet
    <3>4. QED
      BY <2>1, <2>3, <3>1, <3>3 DEF Within, least
  <2>4. CASE fits # {}
    <3>0. m \in Nat /\ fits \in SUBSET Nat /\ fits = Within \ {0} /\ \A j \in fits : j <= m
      BY <1>3, <1>7, <1>8
    <3>1. Max(fits) \in fits /\ \A j \in fits : j <= Max(fits)
      <4> HIDE DEF Max
      <4>1. QED
        BY <2>4, <3>0, MaxIs
    <3>2. PICK k \in fits : k = Max(fits) /\ \A j \in fits : j <= k
      BY <3>1
    <3>4. k \in Within /\ k >= 1 /\ \A j \in Within : j <= k
      <4>1. \A j \in Within : j = 0 \/ j \in fits
        BY <3>0
      <4>2. k \in Within /\ k \in Nat /\ k # 0
        BY <3>0
      <4>3. QED
        BY <3>2, <4>1, <4>2
    <3>5. Max(Within \union {least}) = k
      BY <1>8, <2>2, <3>4, MaxOfSet
    <3>6. QED
      BY <2>1, <2>4, <3>2, <3>5 DEF Within, least
  <2>5. QED
    BY <2>3, <2>4
<1>12. QED
  BY <1>10, <1>11

-----------------------------------------------------------------------------
(* The texts of the file tools *)

\* What FlattenSeq computes of its prefixes.
FlatOf(ss, n, f) == f = [i \in 1 .. n |-> IF i = 1 THEN ss[i] ELSE f[i - 1] \o ss[i]]

LEMMA FlatExists == ASSUME NEW ss, NEW n \in Nat PROVE \E f : FlatOf(ss, n, f)
<1> DEFINE T == {k \in Nat : \E f : FlatOf(ss, k, f)}
<1>1. 0 \in T
  <2>1. FlatOf(ss, 0, [i \in 1 .. 0 |-> <<>>])
    BY DEF FlatOf
  <2>2. QED
    BY <2>1
<1>2. ASSUME NEW k \in Nat, k \in T PROVE k + 1 \in T
  <2>1. PICK f : FlatOf(ss, k, f)
    BY <1>2
  <2> DEFINE more(i) == IF i = 1 THEN ss[i] ELSE f[i - 1] \o ss[i]
             g == [i \in 1 .. k + 1 |-> more(i)]
  <2>2. f = [i \in 1 .. k |-> more(i)]
    BY <2>1 DEF FlatOf
  <2>3. \A i \in 1 .. k : g[i] = f[i]
    <3>1. \A i \in 1 .. k : i \in 1 .. k + 1
      OBVIOUS
    <3> HIDE DEF more
    <3>2. QED
      BY <2>2, <3>1
  <2>4. \A i \in 1 .. k + 1 : more(i) = IF i = 1 THEN ss[i] ELSE g[i - 1] \o ss[i]
    <3> TAKE i \in 1 .. k + 1
    <3>1. CASE i = 1
      BY <3>1
    <3>2. CASE i # 1
      <4>1. i - 1 \in 1 .. k
        BY <3>2
      <4>2. g[i - 1] = f[i - 1]
        BY <2>3, <4>1
      <4> HIDE DEF g
      <4>3. QED
        BY <3>2, <4>2
    <3>3. QED
      BY <3>1, <3>2
  <2>5. g = [i \in 1 .. k + 1 |-> IF i = 1 THEN ss[i] ELSE g[i - 1] \o ss[i]]
    <3>1. g = [i \in 1 .. k + 1 |-> more(i)]
      OBVIOUS
    <3> HIDE DEF g, more
    <3>2. QED
      BY <2>4, <3>1
  <2> HIDE DEF g
  <2>6. FlatOf(ss, k + 1, g)
    BY <2>5, Zenon DEF FlatOf
  <2>7. QED
    BY <2>6
<1>3. Nat \subseteq T
  <2> HIDE DEF T
  <2>1. QED
    BY <1>1, <1>2, NatInSet
<1>4. QED
  BY <1>3

\* It looks at no more of the sequence than the prefix.
LEMMA FlatIsOne ==
  ASSUME NEW ss, NEW tt, NEW m \in Nat, NEW f, NEW g, FlatOf(ss, m, f), FlatOf(tt, m + 1, g),
         \A i \in 1 .. m : ss[i] = tt[i]
  PROVE  \A i \in 1 .. m : f[i] = g[i]
<1> DEFINE n == m + 1
<1> DEFINE T == {k \in Nat : k + 1 \in 1 .. m => f[k + 1] = g[k + 1]}
<1>1. \A i \in 1 .. m : f[i] = IF i = 1 THEN ss[i] ELSE f[i - 1] \o ss[i]
  BY Zenon DEF FlatOf
<1>2. \A i \in 1 .. n : g[i] = IF i = 1 THEN tt[i] ELSE g[i - 1] \o tt[i]
  BY Zenon DEF FlatOf
<1>3. 0 \in T
  <2>1. ASSUME 1 \in 1 .. m PROVE f[1] = g[1]
    <3>1. 1 \in 1 .. n
      BY <2>1
    <3>2. f[1] = ss[1] /\ g[1] = tt[1] /\ ss[1] = tt[1]
      BY <1>1, <1>2, <2>1, <3>1, Zenon
    <3>3. QED
      BY <3>2
  <2>2. QED
    BY <2>1
<1>4. ASSUME NEW k \in Nat, k \in T PROVE k + 1 \in T
  <2>1. ASSUME k + 2 \in 1 .. m PROVE f[k + 2] = g[k + 2]
    <3>1. k + 1 \in 1 .. m /\ k + 2 \in 1 .. n /\ k + 2 # 1 /\ (k + 2) - 1 = k + 1
      BY <2>1
    <3>2. f[k + 2] = f[k + 1] \o ss[k + 2] /\ g[k + 2] = g[k + 1] \o tt[k + 2] /\ ss[k + 2] = tt[k + 2]
      BY <1>1, <1>2, <2>1, <3>1
    <3>3. QED
      BY <1>4, <3>1, <3>2
  <2>2. QED
    BY <2>1
<1>5. Nat \subseteq T
  <2> HIDE DEF T
  <2>1. QED
    BY <1>3, <1>4, NatInSet
<1>6. QED
  <2> TAKE i \in 1 .. m
  <2>1. i - 1 \in Nat /\ (i - 1) + 1 = i
    OBVIOUS
  <2>2. i - 1 \in T
    BY <1>5, <2>1
  <2>3. QED
    BY <2>1, <2>2

LEMMA FlatIs ==
  ASSUME NEW X, NEW ss \in Seq(X), ss # <<>>
  PROVE  \E f : FlatOf(ss, Len(ss), f) /\ FlattenSeq(ss) = f[Len(ss)]
<1> DEFINE f == CHOOSE f : FlatOf(ss, Len(ss), f)
<1>1. Len(ss) \in Nat /\ Len(ss) # 0
  OBVIOUS
<1>2. FlatOf(ss, Len(ss), f)
  BY <1>1, FlatExists
<1>3. FlattenSeq(ss) = f[Len(ss)]
  BY <1>1, Zenon DEF FlattenSeq, FlatOf
<1>4. QED
  BY <1>2, <1>3

LEMMA FlatEmpty == FlattenSeq(<<>>) = <<>>
<1>1. Len(<<>>) = 0
  OBVIOUS
<1>2. QED
  BY <1>1, Zenon DEF FlattenSeq

\* One more sequence is appended.
LEMMA FlatAppend ==
  ASSUME NEW X, NEW ss \in Seq(Seq(X)), NEW s \in Seq(X)
  PROVE  FlattenSeq(Append(ss, s)) = FlattenSeq(ss) \o s
<1> DEFINE more == Append(ss, s)
           n == Len(ss)
<1>1. /\ more \in Seq(Seq(X)) /\ Len(more) = n + 1 /\ n \in Nat /\ more # <<>> /\ more[n + 1] = s
      /\ \A i \in 1 .. n : more[i] = ss[i]
  <2>1. more \in Seq(Seq(X)) /\ Len(more) = n + 1 /\ more[n + 1] = s /\ \A i \in 1 .. n : more[i] = ss[i]
    BY AppendProperties
  <2>2. n \in Nat
    OBVIOUS
  <2> HIDE DEF more, n
  <2>3. more # <<>>
    BY <2>1, <2>2
  <2>4. QED
    BY <2>1, <2>2, <2>3
<1> HIDE DEF more
<1>2. PICK g : FlatOf(more, n + 1, g) /\ FlattenSeq(more) = g[n + 1]
  BY <1>1, FlatIs
<1>3. g[n + 1] = IF n + 1 = 1 THEN s ELSE g[n] \o s
  <2>1. \A i \in 1 .. n + 1 : g[i] = IF i = 1 THEN more[i] ELSE g[i - 1] \o more[i]
    BY <1>2, Zenon DEF FlatOf
  <2>2. n + 1 \in 1 .. n + 1 /\ (n + 1) - 1 = n
    BY <1>1
  <2>3. QED
    BY <1>1, <2>1, <2>2
<1>4. CASE n = 0
  <2>1. ss = <<>> /\ FlattenSeq(ss) = <<>>
    BY <1>1, <1>4, FlatEmpty
  <2>2. g[n + 1] = s
    BY <1>3, <1>4
  <2>3. <<>> \o s = s
    OBVIOUS
  <2>4. QED
    BY <1>2, <2>1, <2>2, <2>3 DEF more
<1>5. CASE n # 0
  <2>1. ss # <<>> /\ n \in 1 .. n /\ n <= n + 1 /\ n + 1 # 1 /\ n + 1 \in Nat
    BY <1>1, <1>5
  <2>2. PICK f : FlatOf(ss, n, f) /\ FlattenSeq(ss) = f[n]
    BY <2>1, FlatIs
  <2>3. f[n] = g[n]
    <3>1. \A i \in 1 .. n : ss[i] = more[i]
      BY <1>1
    <3> HIDE DEF n
    <3>2. \A i \in 1 .. n : f[i] = g[i]
      <4>1. n \in Nat /\ FlatOf(ss, n, f) /\ FlatOf(more, n + 1, g)
        BY <1>1, <1>2, <2>1, <2>2
      <4>2. QED
        BY <3>1, <4>1, FlatIsOne, SMTT(60)
    <3>3. QED
      BY <2>1, <3>2
  <2>4. g[n + 1] = g[n] \o s
    BY <1>3, <2>1
  <2>5. QED
    BY <1>2, <2>2, <2>3, <2>4 DEF more
<1>6. QED
  BY <1>4, <1>5

\* What holds of the empty text and, with a text, of the text with one more character, holds of
\* every text.
LEMMA TextInduction ==
  ASSUME NEW C, NEW T, <<>> \in T, \A t \in Seq(C), c \in C : t \in T => Append(t, c) \in T
  PROVE  Seq(C) \subseteq T
<1> DEFINE N == {n \in Nat : \A t \in Seq(C) : Len(t) = n => t \in T}
<1>1. 0 \in N
  <2>1. \A t \in Seq(C) : Len(t) = 0 => t = <<>>
    OBVIOUS
  <2>2. QED
    BY <2>1
<1>2. ASSUME NEW n \in Nat, n \in N PROVE n + 1 \in N
  <2>1. ASSUME NEW t \in Seq(C), Len(t) = n + 1 PROVE t \in T
    <3> DEFINE f == SubSeq(t, 1, n)
    <3>1. f \in Seq(C) /\ Len(f) = n /\ t[n + 1] \in C
      BY <2>1
    <3>2. t = Append(f, t[n + 1])
      BY <2>1
    <3> HIDE DEF f
    <3>3. f \in T
      BY <1>2, <3>1
    <3>4. QED
      BY <3>1, <3>2, <3>3
  <2>2. QED
    BY <2>1
<1>3. Nat \subseteq N
  <2> HIDE DEF N
  <2>1. QED
    BY <1>1, <1>2, NatInSet
<1>4. QED
  BY <1>3

Char == STRING \union {"N", "R"}
Text == Seq(Char)
EolStyles == {<<"N">>, <<"R">>, <<"R", "N">>}
\* A text of line feeds only.
Clean == Seq(Char \ {"R"})

\* What one more character adds to a text whose line ends are converted.
EolPiece(c, e) == IF c = "N" THEN e ELSE <<c>>
LfPiece(t, c) == IF t # <<>> /\ t[Len(t)] = "R" /\ c = "N" THEN <<>>
                 ELSE IF c = "R" THEN <<"N">> ELSE <<c>>

LEMMA Appended ==
  ASSUME NEW X, NEW p \in Seq(X), NEW q \in Seq(X), NEW x \in X, Len(q) = Len(p) + 1,
         \A i \in 1 .. Len(p) : q[i] = p[i], q[Len(p) + 1] = x
  PROVE  q = Append(p, x)
<1> DEFINE r == Append(p, x)
           n == Len(p)
<1>1. r \in Seq(X) /\ Len(r) = n + 1 /\ r[n + 1] = x /\ \A i \in 1 .. n : r[i] = p[i]
  BY AppendProperties
<1>2. n \in Nat
  OBVIOUS
<1> HIDE DEF r
<1>3. \A i \in 1 .. Len(q) : q[i] = r[i]
  BY <1>1, <1>2
<1>4. q = r
  BY <1>1, <1>3, SeqEqual
<1>5. QED
  BY <1>4 DEF r

LEMMA EolStylesAre == EolStyles \subseteq Text /\ \A c \in Char : <<c>> \in Text /\ <<"N">> \in Text /\ <<>> \in Text
  BY DEF EolStyles, Text, Char

LEMMA WithEolAppend ==
  ASSUME NEW t \in Text, NEW c \in Char, NEW e \in EolStyles
  PROVE  WithEol(Append(t, c), e) = WithEol(t, e) \o EolPiece(c, e)
<1> DEFINE of(s) == [i \in DOMAIN s |-> IF s[i] = "N" THEN e ELSE <<s[i]>>]
           n == Len(t)
           more == Append(t, c)
<1>1. /\ n \in Nat /\ DOMAIN t = 1 .. n /\ DOMAIN more = 1 .. n + 1 /\ more[n + 1] = c
      /\ \A i \in 1 .. n : more[i] = t[i] /\ t[i] \in Char
  BY DEF Text
<1> HIDE DEF more, n
<1>2. \A k \in Char : (IF k = "N" THEN e ELSE <<k>>) \in Text
  BY EolStylesAre
<1>3. of(t) \in Seq(Text) /\ Len(of(t)) = n
  <2>1. of(t) = [i \in 1 .. n |-> IF t[i] = "N" THEN e ELSE <<t[i]>>]
    BY <1>1
  <2>2. \A i \in 1 .. n : (IF t[i] = "N" THEN e ELSE <<t[i]>>) \in Text
    BY <1>1, <1>2
  <2> HIDE DEF of
  <2>3. of(t) \in [1 .. n -> Text]
    BY <2>1, <2>2
  <2>4. QED
    BY <1>1, <2>3
<1>4. EolPiece(c, e) \in Text
  BY <1>2 DEF EolPiece
<1>5. of(more) = Append(of(t), EolPiece(c, e))
  <2>1. /\ DOMAIN of(more) = 1 .. n + 1 /\ of(more)[n + 1] = EolPiece(c, e)
        /\ \A i \in 1 .. n : of(more)[i] = of(t)[i]
        /\ of(more) = [i \in 1 .. n + 1 |-> of(more)[i]]
    BY <1>1 DEF EolPiece
  <2> HIDE DEF of
  <2>2. \A i \in 1 .. n : of(t)[i] \in Text
    BY <1>3
  <2>3. of(more) \in [1 .. n + 1 -> Text]
    <3>1. \A i \in 1 .. n + 1 : i = n + 1 \/ i \in 1 .. n
      BY <1>1
    <3>2. \A i \in 1 .. n + 1 : of(more)[i] \in Text
      BY <1>4, <2>1, <2>2, <3>1
    <3>3. QED
      BY <2>1, <3>2
  <2>4. of(more) \in Seq(Text) /\ Len(of(more)) = n + 1
    BY <1>1, <2>3
  <2>5. /\ Len(of(more)) = Len(of(t)) + 1 /\ of(more)[Len(of(t)) + 1] = EolPiece(c, e)
        /\ \A i \in 1 .. Len(of(t)) : of(more)[i] = of(t)[i]
    BY <1>3, <2>1, <2>4
  <2>6. QED
    BY <1>3, <1>4, <2>4, <2>5, Appended
<1>6. WithEol(more, e) = FlattenSeq(of(more)) /\ WithEol(t, e) = FlattenSeq(of(t))
  BY DEF WithEol
<1> HIDE DEF of
<1>7. FlattenSeq(Append(of(t), EolPiece(c, e))) = FlattenSeq(of(t)) \o EolPiece(c, e)
  BY <1>3, <1>4, FlatAppend DEF Text
<1>8. QED
  BY <1>5, <1>6, <1>7 DEF more

LEMMA ToLfAppend ==
  ASSUME NEW t \in Text, NEW c \in Char
  PROVE  ToLf(Append(t, c)) = ToLf(t) \o LfPiece(t, c)
<1> DEFINE piece(s, i) == IF i > 1 /\ s[i - 1] = "R" /\ s[i] = "N" THEN <<>>
                          ELSE IF s[i] = "R" THEN <<"N">> ELSE <<s[i]>>
           of(s) == [i \in DOMAIN s |-> piece(s, i)]
           n == Len(t)
           more == Append(t, c)
<1>1. /\ n \in Nat /\ DOMAIN t = 1 .. n /\ DOMAIN more = 1 .. n + 1 /\ more[n + 1] = c
      /\ \A i \in 1 .. n : more[i] = t[i] /\ t[i] \in Char
      /\ t # <<>> <=> n > 0
  BY DEF Text
<1> HIDE DEF more
<1>2. \A i \in 1 .. n : piece(t, i) \in Text /\ piece(more, i) = piece(t, i)
  <2> TAKE i \in 1 .. n
  <2>1. t[i] \in Char /\ more[i] = t[i] /\ (i > 1 => more[i - 1] = t[i - 1])
    BY <1>1
  <2>2. QED
    BY <2>1, EolStylesAre
<1>3. piece(more, n + 1) = LfPiece(t, c) /\ LfPiece(t, c) \in Text
  <2>1. piece(more, n + 1) = LfPiece(t, c)
    <3>1. n > 0 => more[(n + 1) - 1] = t[n]
      BY <1>1
    <3>2. n + 1 > 1 <=> n > 0
      BY <1>1
    <3>3. QED
      BY <1>1, <3>1, <3>2 DEF LfPiece
  <2>2. LfPiece(t, c) \in Text
    BY EolStylesAre DEF LfPiece
  <2>3. QED
    BY <2>1, <2>2
<1> HIDE DEF piece, n
<1>4. of(t) \in Seq(Text) /\ Len(of(t)) = n
  <2>1. of(t) = [i \in 1 .. n |-> piece(t, i)]
    BY <1>1
  <2> HIDE DEF of
  <2>2. of(t) \in [1 .. n -> Text]
    BY <1>2, <2>1
  <2>3. QED
    BY <1>1, <2>2
<1>5. of(more) = Append(of(t), LfPiece(t, c))
  <2>1. /\ DOMAIN of(more) = 1 .. n + 1 /\ of(more)[n + 1] = LfPiece(t, c)
        /\ \A i \in 1 .. n : of(more)[i] = of(t)[i]
        /\ of(more) = [i \in 1 .. n + 1 |-> of(more)[i]]
    BY <1>1, <1>2, <1>3
  <2> HIDE DEF of
  <2>2. \A i \in 1 .. n : of(t)[i] \in Text
    BY <1>4
  <2>3. of(more) \in [1 .. n + 1 -> Text]
    <3>1. \A i \in 1 .. n + 1 : i = n + 1 \/ i \in 1 .. n
      BY <1>1
    <3>2. \A i \in 1 .. n + 1 : of(more)[i] \in Text
      BY <1>3, <2>1, <2>2, <3>1
    <3>3. QED
      BY <2>1, <3>2
  <2>4. of(more) \in Seq(Text) /\ Len(of(more)) = n + 1
    BY <1>1, <2>3
  <2>5. /\ Len(of(more)) = Len(of(t)) + 1 /\ of(more)[Len(of(t)) + 1] = LfPiece(t, c)
        /\ \A i \in 1 .. Len(of(t)) : of(more)[i] = of(t)[i]
    BY <1>4, <2>1, <2>4
  <2>6. QED
    BY <1>3, <1>4, <2>4, <2>5, Appended
<1>6. ToLf(more) = FlattenSeq(of(more)) /\ ToLf(t) = FlattenSeq(of(t))
  BY DEF ToLf, piece
<1> HIDE DEF of
<1>7. FlattenSeq(Append(of(t), LfPiece(t, c))) = FlattenSeq(of(t)) \o LfPiece(t, c)
  BY <1>3, <1>4, FlatAppend DEF Text
<1>8. QED
  BY <1>5, <1>6, <1>7 DEF more

LEMMA EmptyTexts == <<>> \in Text /\ <<>> \in Clean /\ ToLf(<<>>) = <<>> /\ \A e : WithEol(<<>>, e) = <<>>
<1>1. DOMAIN <<>> = {} /\ <<>> \in Text /\ <<>> \in Clean
  BY DEF Text, Clean
<1>2. ToLf(<<>>) = FlattenSeq(<<>>)
  BY <1>1 DEF ToLf
<1>3. ASSUME NEW e PROVE WithEol(<<>>, e) = FlattenSeq(<<>>)
  BY <1>1 DEF WithEol
<1>4. QED
  BY <1>1, <1>2, <1>3, FlatEmpty

\* Without carriage returns, and with something in it when there was something.
LEMMA ToLfIs ==
  ASSUME NEW text \in Text
  PROVE  ToLf(text) \in Clean /\ (text # <<>> => ToLf(text) # <<>>)
<1> DEFINE T == {t \in Text : ToLf(t) \in Clean /\ (t # <<>> => ToLf(t) # <<>>)}
<1>1. <<>> \in T
  BY EmptyTexts
<1>2. ASSUME NEW t \in Text, NEW c \in Char, t \in T PROVE Append(t, c) \in T
  <2>1. ToLf(Append(t, c)) = ToLf(t) \o LfPiece(t, c)
    BY ToLfAppend
  <2>2. Append(t, c) \in Text
    BY DEF Text
  <2>3. ToLf(t) \in Clean /\ (t # <<>> => ToLf(t) # <<>>)
    BY <1>2
  <2>4. LfPiece(t, c) \in Clean
    <3>1. "N" \in Char \ {"R"}
      BY DEF Char
    <3>2. \A d \in Char \ {"R"} : <<d>> \in Clean
      BY DEF Clean
    <3>3. c # "R" => c \in Char \ {"R"}
      OBVIOUS
    <3>4. QED
      BY <3>1, <3>2, <3>3, EmptyTexts DEF LfPiece
  <2>5. ToLf(t) \o LfPiece(t, c) \in Clean
    BY <2>3, <2>4 DEF Clean
  <2>6. ToLf(t) \o LfPiece(t, c) # <<>>
    <3>1. CASE LfPiece(t, c) # <<>>
      BY <2>3, <2>4, <3>1, ConcatEqualIffEmpty DEF Clean
    <3>2. CASE LfPiece(t, c) = <<>>
      <4>1. t # <<>>
        BY <3>2 DEF LfPiece
      <4>2. QED
        BY <2>3, <2>4, <4>1, ConcatEqualIffEmpty DEF Clean
    <3>3. QED
      BY <3>1, <3>2
  <2>7. QED
    BY <2>1, <2>2, <2>5, <2>6
<1>3. Text \subseteq T
  <2> HIDE DEF T
  <2>1. \A t \in Seq(Char), c \in Char : t \in T => Append(t, c) \in T
    BY <1>2 DEF Text
  <2>2. QED
    BY <1>1, <2>1, TextInduction DEF Text
<1>4. QED
  BY <1>3

LEMMA WithEolIs ==
  ASSUME NEW text \in Text, NEW e \in EolStyles
  PROVE  WithEol(text, e) \in Text
<1> DEFINE T == {t \in Text : WithEol(t, e) \in Text}
<1>1. <<>> \in T
  BY EmptyTexts
<1>2. ASSUME NEW t \in Text, NEW c \in Char, t \in T PROVE Append(t, c) \in T
  <2>1. WithEol(Append(t, c), e) = WithEol(t, e) \o EolPiece(c, e)
    BY WithEolAppend
  <2>2. Append(t, c) \in Text
    BY DEF Text
  <2>3. EolPiece(c, e) \in Text
    BY EolStylesAre DEF EolPiece
  <2>4. WithEol(t, e) \o EolPiece(c, e) \in Text
    BY <1>2, <2>3 DEF Text
  <2>5. QED
    BY <2>1, <2>2, <2>4
<1>3. Text \subseteq T
  <2> HIDE DEF T
  <2>1. \A t \in Seq(Char), c \in Char : t \in T => Append(t, c) \in T
    BY <1>2 DEF Text
  <2>2. QED
    BY <1>1, <2>1, TextInduction DEF Text
<1>4. QED
  BY <1>3

\* The line ends of two texts are converted one after the other.
LEMMA WithEolConcat ==
  ASSUME NEW head \in Text, NEW text \in Text, NEW e \in EolStyles
  PROVE  WithEol(head \o text, e) = WithEol(head, e) \o WithEol(text, e)
<1> DEFINE T == {t \in Text : WithEol(head \o t, e) = WithEol(head, e) \o WithEol(t, e)}
<1>1. <<>> \in T
  <2>1. WithEol(head, e) \in Text
    BY WithEolIs
  <2>2. head \o <<>> = head /\ WithEol(head, e) \o <<>> = WithEol(head, e)
    BY <2>1, ConcatEmptySeq DEF Text
  <2>3. QED
    BY <2>2, EmptyTexts
<1>2. ASSUME NEW t \in Text, NEW c \in Char, t \in T PROVE Append(t, c) \in T
  <2>1. head \o Append(t, c) = Append(head \o t, c) /\ head \o t \in Text /\ Append(t, c) \in Text
    BY DEF Text
  <2>2. WithEol(Append(head \o t, c), e) = WithEol(head \o t, e) \o EolPiece(c, e)
    BY <2>1, WithEolAppend
  <2>3. WithEol(Append(t, c), e) = WithEol(t, e) \o EolPiece(c, e)
    BY WithEolAppend
  <2>4. WithEol(head, e) \in Text /\ WithEol(t, e) \in Text /\ EolPiece(c, e) \in Text
    BY WithEolIs, EolStylesAre DEF EolPiece
  <2>5. (WithEol(head, e) \o WithEol(t, e)) \o EolPiece(c, e) = WithEol(head, e) \o (WithEol(t, e) \o EolPiece(c, e))
    BY <2>4, ConcatAssociative DEF Text
  <2>6. WithEol(head \o t, e) = WithEol(head, e) \o WithEol(t, e)
    BY <1>2
  <2>7. WithEol(head \o Append(t, c), e) = WithEol(head, e) \o WithEol(Append(t, c), e)
    BY <2>1, <2>2, <2>3, <2>5, <2>6
  <2>8. QED
    BY <2>1, <2>7
<1>3. Text \subseteq T
  <2> HIDE DEF T
  <2>1. \A t \in Seq(Char), c \in Char : t \in T => Append(t, c) \in T
    BY <1>2 DEF Text
  <2>2. QED
    BY <1>1, <2>1, TextInduction DEF Text
<1>4. QED
  BY <1>3

\* Line feeds written as an end come back as line feeds.
LEMMA ToLfBack ==
  ASSUME NEW text \in Clean, NEW e \in EolStyles
  PROVE  ToLf(WithEol(text, e)) = text
<1> DEFINE EndsInReturn(y) == y # <<>> /\ y[Len(y)] = "R"
           T == {t \in Clean : ToLf(WithEol(t, e)) = t /\ (EndsInReturn(WithEol(t, e)) => e = <<"R">>)}
<1>0. Clean \subseteq Text
  BY DEF Clean, Text
<1>1. <<>> \in T
  BY EmptyTexts
<1>2. ASSUME NEW t \in Clean, NEW c \in Char \ {"R"}, t \in T PROVE Append(t, c) \in T
  <2> DEFINE y == WithEol(t, e)
             z == WithEol(Append(t, c), e)
  <2>1. y \in Text /\ t \in Text /\ c \in Char /\ c # "R" /\ Append(t, c) \in Clean
    BY <1>0, WithEolIs DEF Clean
  <2>2. z = y \o EolPiece(c, e)
    BY <2>1, WithEolAppend
  <2>3. ToLf(y) = t /\ (EndsInReturn(y) => e = <<"R">>)
    BY <1>2
  <2> HIDE DEF y, z
  <2>4. ASSUME NEW d \in Char PROVE y \o <<d>> = Append(y, d) /\ Append(y, d) \in Text
                                    /\ Append(y, d) # <<>> /\ Append(y, d)[Len(Append(y, d))] = d
    BY <2>1 DEF Text
  <2>5. ASSUME NEW d \in Char PROVE ToLf(Append(y, d)) = t \o LfPiece(y, d)
    BY <2>1, <2>3, ToLfAppend
  <2>6. \A d : t \o <<d>> = Append(t, d)
    BY <2>1 DEF Text
  <2>7. "N" \in Char /\ "R" \in Char
    BY DEF Char
  <2>8. CASE c # "N"
    <3>1. z = Append(y, c)
      BY <2>1, <2>2, <2>4, <2>8 DEF EolPiece
    <3>2. LfPiece(y, c) = <<c>>
      BY <2>1, <2>8 DEF LfPiece
    <3>3. ToLf(z) = Append(t, c)
      BY <2>1, <2>5, <2>6, <3>1, <3>2
    <3>4. ~EndsInReturn(z)
      BY <2>1, <2>4, <3>1
    <3>5. QED
      BY <2>1, <3>3, <3>4 DEF z
  <2>9. CASE c = "N" /\ e = <<"N">>
    <3>1. z = Append(y, "N")
      BY <2>2, <2>4, <2>7, <2>9 DEF EolPiece
    <3>2. ~EndsInReturn(y)
      BY <2>3, <2>9
    <3>3. LfPiece(y, "N") = <<"N">>
      BY <3>2 DEF LfPiece
    <3>4. ToLf(z) = Append(t, c)
      BY <2>5, <2>6, <2>7, <2>9, <3>1, <3>3
    <3>5. ~EndsInReturn(z)
      BY <2>4, <2>7, <3>1
    <3>6. QED
      BY <2>1, <3>4, <3>5 DEF z
  <2>10. CASE c = "N" /\ e = <<"R">>
    <3>1. z = Append(y, "R")
      BY <2>2, <2>4, <2>7, <2>10 DEF EolPiece
    <3>2. LfPiece(y, "R") = <<"N">>
      BY DEF LfPiece
    <3>3. ToLf(z) = Append(t, c)
      BY <2>5, <2>6, <2>7, <2>10, <3>1, <3>2
    <3>4. QED
      BY <2>1, <2>10, <3>3 DEF z
  <2>11. CASE c = "N" /\ e = <<"R", "N">>
    <3> DEFINE r == Append(y, "R")
    <3>1. r \in Text /\ r # <<>> /\ r[Len(r)] = "R"
      BY <2>4, <2>7
    <3>2. ToLf(r) = Append(t, "N")
      <4>1. LfPiece(y, "R") = <<"N">>
        BY DEF LfPiece
      <4>2. QED
        BY <2>5, <2>6, <2>7, <4>1
    <3>3. z = Append(r, "N")
      BY <2>1, <2>2, <2>11 DEF EolPiece, Text
    <3> HIDE DEF r
    <3>4. LfPiece(r, "N") = <<>>
      BY <3>1 DEF LfPiece
    <3>5. ToLf(z) = Append(t, "N") \o <<>>
      BY <2>7, <3>1, <3>2, <3>3, <3>4, ToLfAppend
    <3>6. Append(t, "N") \o <<>> = Append(t, c)
      BY <2>1, <2>11, ConcatEmptySeq DEF Clean
    <3>7. ~EndsInReturn(z)
      BY <2>7, <3>1, <3>3 DEF Text
    <3>8. QED
      BY <2>1, <3>5, <3>6, <3>7 DEF z
  <2>12. QED
    BY <2>8, <2>9, <2>10, <2>11 DEF EolStyles
<1>3. Clean \subseteq T
  <2> HIDE DEF T
  <2>1. \A t \in Seq(Char \ {"R"}), c \in Char \ {"R"} : t \in T => Append(t, c) \in T
    BY <1>2 DEF Clean
  <2>2. QED
    BY <1>1, <2>1, TextInduction DEF Clean
<1>4. QED
  BY <1>3

-----------------------------------------------------------------------------
(* The stretch an edit replaces *)

\* What Span finds is a stretch of the text that is the one asked for, or, where that does not
\* occur at all, is it up to white space.
LEMMA SpanIs ==
  ASSUME NEW n \in Clean, n # <<>>, NEW u \in Clean, NEW s \in Span(n, u)
  PROVE  /\ s[1] \in 1 .. Len(u) /\ s[2] \in s[1] .. Len(u)
         /\ \/ SubSeq(u, s[1], s[2]) = n
            \/ At(n, u) = {} /\ Normalize(SubSeq(u, s[1], s[2])) = Normalize(n)
<1>1. Len(u) \in Nat /\ Len(n) \in Nat \ {0} /\ DOMAIN u = 1 .. Len(u)
  BY DEF Clean
<1>2. CASE At(n, u) = {}
  <2>1. s \in FuzzySpans(n, u)
    <3>1. Span(n, u) = IF Cardinality(MinimalSpans(FuzzySpans(n, u))) = 1 THEN MinimalSpans(FuzzySpans(n, u)) ELSE {}
      BY <1>2 DEF Span
    <3>2. s \in MinimalSpans(FuzzySpans(n, u))
      BY <3>1
    <3>3. QED
      BY <3>2 DEF MinimalSpans
  <2>2. /\ s[1] \in DOMAIN u /\ s[2] \in DOMAIN u /\ s[1] <= s[2]
        /\ Normalize(SubSeq(u, s[1], s[2])) = Normalize(n)
    <3> DEFINE solid == {i \in DOMAIN u : ~Blank(u[i])}
    <3>1. Normalize(n) # <<>>
      BY <2>1 DEF FuzzySpans
    <3>2. FuzzySpans(n, u) = {x \in solid \X solid :
                                x[1] <= x[2] /\ Normalize(SubSeq(u, x[1], x[2])) = Normalize(n)}
      BY <3>1 DEF FuzzySpans
    <3>3. solid \subseteq DOMAIN u
      OBVIOUS
    <3> HIDE DEF solid
    <3>4. s \in solid \X solid /\ s[1] <= s[2] /\ Normalize(SubSeq(u, s[1], s[2])) = Normalize(n)
      BY <2>1, <3>2
    <3>5. s[1] \in solid /\ s[2] \in solid
      BY <3>4
    <3>6. QED
      BY <3>3, <3>4, <3>5
  <2>3. s[1] \in 1 .. Len(u) /\ s[2] \in 1 .. Len(u)
    BY <1>1, <2>2
  <2>4. s[2] \in s[1] .. Len(u)
    BY <1>1, <2>2, <2>3
  <2>5. QED
    BY <1>2, <2>2, <2>3, <2>4
<1>3. CASE At(n, u) # {}
  <2> DEFINE i == Min(At(n, u))
  <2>1. s = <<i, i + Len(n) - 1>>
    BY <1>3 DEF Span
  <2>2. At(n, u) \in SUBSET Nat
    BY <1>1 DEF At
  <2>3. i \in At(n, u)
    <3>1. PICK x \in At(n, u) : \A y \in At(n, u) : x <= y
      BY <1>3, <2>2, LeastIs
    <3>2. QED
      BY <3>1 DEF Min
  <2> HIDE DEF i
  <2>4. i \in 1 .. Len(u) - Len(n) + 1 /\ SubSeq(u, i, i + Len(n) - 1) = n
    BY <2>3 DEF At
  <2>5. s[1] = i /\ s[2] = i + Len(n) - 1
    BY <2>1
  <2>6. i \in 1 .. Len(u) /\ i + Len(n) - 1 \in i .. Len(u)
    BY <1>1, <2>4
  <2>7. QED
    BY <2>4, <2>5, <2>6
<1>4. QED
  BY <1>2, <1>3

LEMMA DetectEolIs == ASSUME NEW t PROVE DetectEol(t) \in EolStyles
  BY DEF DetectEol, EolStyles

\* The text b is p, then m, then q.
InParts(b, p, m, q) ==
  \E i \in 1 .. Len(b), j \in 1 .. Len(b) :
    SubSeq(b, 1, i - 1) = p /\ SubSeq(b, i, j) = m /\ SubSeq(b, j + 1, Len(b)) = q

LEMMA PartsAre ==
  ASSUME NEW p \in Text, NEW m \in Text, NEW q \in Text, m # <<>>
  PROVE  InParts(p \o (m \o q), p, m, q)
<1> DEFINE b == p \o (m \o q)
           k == Len(p)
           l == Len(m)
           n == Len(q)
           i == k + 1
           j == k + l
<1>1. k \in Nat /\ l \in Nat \ {0} /\ n \in Nat
  BY DEF Text
<1>2. /\ b \in Seq(Char) /\ Len(b) = k + (l + n)
      /\ \A x \in 1 .. k : b[x] = p[x]
      /\ \A x \in 1 .. l : b[k + x] = m[x]
      /\ \A x \in 1 .. n : b[k + l + x] = q[x]
  BY DEF Text
<1>3. i \in 1 .. Len(b) /\ j \in 1 .. Len(b)
  BY <1>1, <1>2
<1>4. SubSeq(b, 1, i - 1) = p
  BY <1>1, <1>2 DEF Text
<1>5. SubSeq(b, i, j) = m
  BY <1>1, <1>2 DEF Text
<1>6. SubSeq(b, j + 1, Len(b)) = q
  BY <1>1, <1>2 DEF Text
<1>7. QED
  BY <1>3, <1>4, <1>5, <1>6 DEF InParts

\* An edit replaces the stretch that was found and leaves the rest.
LEMMA EditCuts ==
  ASSUME NEW b \in Text, NEW o \in Text, NEW w \in Text, o # <<>>, Uniform(b),
         NEW s \in Span(ToLf(o), ToLf(b))
  PROVE  \E i \in 1 .. Len(b), j \in 1 .. Len(b) :
           /\ \/ ToLf(SubSeq(b, i, j)) = ToLf(o)
              \/ At(ToLf(o), ToLf(b)) = {} /\ Normalize(ToLf(SubSeq(b, i, j))) = Normalize(ToLf(o))
           /\ ApplyEdit(b, s, w) =
                SubSeq(b, 1, i - 1) \o WithEol(ToLf(w), DetectEol(b)) \o SubSeq(b, j + 1, Len(b))
<1> DEFINE u == ToLf(b)
           e == DetectEol(b)
           head == SubSeq(u, 1, s[1] - 1)
           mid == SubSeq(u, s[1], s[2])
           tail == SubSeq(u, s[2] + 1, Len(u))
           new == ToLf(w)
<1>1. u \in Clean /\ new \in Clean /\ ToLf(o) \in Clean /\ ToLf(o) # <<>> /\ e \in EolStyles /\ Clean \subseteq Text
  BY ToLfIs, DetectEolIs DEF Clean, Text
<1>2. WithEol(u, e) = b
  BY DEF Uniform
<1>3. /\ s[1] \in 1 .. Len(u) /\ s[2] \in s[1] .. Len(u)
      /\ \/ mid = ToLf(o)
         \/ At(ToLf(o), u) = {} /\ Normalize(mid) = Normalize(ToLf(o))
  BY <1>1, SpanIs
<1>4. ApplyEdit(b, s, w) = WithEol((head \o new) \o tail, e)
  BY DEF ApplyEdit, Splice
<1> HIDE DEF u, e, new
<1>5. /\ head \in Clean /\ mid \in Clean /\ tail \in Clean /\ mid # <<>>
      /\ u = head \o (mid \o tail)
  <2>1. Len(u) \in Nat /\ u \in Seq(Char \ {"R"}) /\ s[1] \in Nat /\ s[2] \in Nat
    BY <1>1, <1>3 DEF Clean
  <2>2. head \in Clean
    <3>1. \A x \in 1 .. s[1] - 1 : u[x] \in Char \ {"R"}
      BY <1>3, <2>1
    <3>2. QED
      BY <2>1, <3>1, SubSeqProperties DEF Clean
  <2>3. mid \in Clean /\ Len(mid) = s[2] - s[1] + 1
    <3>1. \A x \in s[1] .. s[2] : u[x] \in Char \ {"R"}
      BY <1>3, <2>1
    <3>2. s[1] <= s[2]
      BY <1>3, <2>1
    <3>3. QED
      BY <2>1, <3>1, <3>2, SubSeqProperties DEF Clean
  <2>4. tail \in Clean
    <3>1. \A x \in s[2] + 1 .. Len(u) : u[x] \in Char \ {"R"}
      BY <1>3, <2>1
    <3>2. QED
      BY <2>1, <3>1, SubSeqProperties DEF Clean
  <2>5. mid # <<>>
    <3>1. s[1] <= s[2]
      BY <1>3, <2>1
    <3>2. Len(mid) # 0
      BY <2>1, <2>3, <3>1
    <3> HIDE DEF mid
    <3>3. Len(<<>>) = 0
      OBVIOUS
    <3>4. QED
      BY <3>2, <3>3
  <2>6. mid \o tail = SubSeq(u, s[1], Len(u))
    <3>1. s[1] \in 1 .. Len(u) + 1 /\ s[2] \in s[1] - 1 .. Len(u) /\ Len(u) \in s[2] .. Len(u)
      BY <1>3, <2>1
    <3>2. QED
      BY <2>1, <3>1, ConcatAdjacentSubSeq
  <2>7. head \o SubSeq(u, s[1], Len(u)) = SubSeq(u, 1, Len(u))
    <3> DEFINE k == s[1] - 1
    <3>1. 1 \in 1 .. Len(u) + 1 /\ k \in 1 - 1 .. Len(u) /\ Len(u) \in k .. Len(u) /\ k + 1 = s[1]
      BY <1>3, <2>1
    <3> HIDE DEF k
    <3>2. SubSeq(u, 1, k) \o SubSeq(u, k + 1, Len(u)) = SubSeq(u, 1, Len(u))
      BY <2>1, <3>1, ConcatAdjacentSubSeq
    <3>3. QED
      BY <3>1, <3>2 DEF k
  <2>8. u = head \o (mid \o tail)
    BY <2>1, <2>6, <2>7, SubSeqFull
  <2>9. QED
    BY <2>2, <2>3, <2>4, <2>5, <2>8
<1> HIDE DEF head, mid, tail
<1> DEFINE P == WithEol(head, e)
           M == WithEol(mid, e)
           Q == WithEol(tail, e)
           W == WithEol(new, e)
<1>6. P \in Text /\ M \in Text /\ Q \in Text /\ W \in Text
  BY <1>1, <1>5, WithEolIs
<1>7. b = P \o (M \o Q)
  <2>1. mid \o tail \in Text
    BY <1>1, <1>5 DEF Text
  <2>2. WithEol(head \o (mid \o tail), e) = P \o WithEol(mid \o tail, e) /\ WithEol(mid \o tail, e) = M \o Q
    BY <1>1, <1>5, <2>1, WithEolConcat
  <2>3. QED
    BY <1>2, <1>5, <2>2
<1>8. ApplyEdit(b, s, w) = (P \o W) \o Q
  <2>1. head \o new \in Text
    BY <1>1, <1>5 DEF Text
  <2>2. WithEol((head \o new) \o tail, e) = WithEol(head \o new, e) \o Q /\ WithEol(head \o new, e) = P \o W
    BY <1>1, <1>5, <2>1, WithEolConcat
  <2>3. QED
    BY <1>4, <2>2
<1>9. ToLf(M) = mid /\ M # <<>>
  <2>1. ToLf(M) = mid
    BY <1>1, <1>5, ToLfBack
  <2>2. QED
    BY <1>5, <2>1, EmptyTexts
<1> HIDE DEF P, M, Q, W
<1>10. InParts(P \o (M \o Q), P, M, Q)
  BY <1>6, <1>9, PartsAre
<1>11. InParts(b, P, M, Q)
  BY <1>7, <1>10
<1>12. PICK i \in 1 .. Len(b), j \in 1 .. Len(b) :
         SubSeq(b, 1, i - 1) = P /\ SubSeq(b, i, j) = M /\ SubSeq(b, j + 1, Len(b)) = Q
  BY <1>11 DEF InParts
<1>13. ToLf(SubSeq(b, i, j)) = mid
  BY <1>9, <1>12
<1>14. ApplyEdit(b, s, w) = SubSeq(b, 1, i - 1) \o WithEol(ToLf(w), DetectEol(b)) \o SubSeq(b, j + 1, Len(b))
  BY <1>8, <1>12 DEF W, new, e
<1>15. QED
  BY <1>3, <1>13, <1>14 DEF u

-----------------------------------------------------------------------------
(* The lines that are shown *)

\* The k-th number of a set is one of its members.
LEMMA AscendingIs ==
  ASSUME NEW S \in SUBSET Nat, IsFiniteSet(S)
  PROVE  Cardinality(S) \in Nat /\ Ascending(S) \in [1 .. Cardinality(S) -> S]
<1> DEFINE n == Cardinality(S)
           Upto(x) == {y \in S : y <= x}
           rank == [x \in S |-> Cardinality(Upto(x))]
<1>1. n \in Nat
  BY FS_CardinalityType
<1>2. \A x \in S : IsFiniteSet(Upto(x)) /\ Cardinality(Upto(x)) \in 1 .. n
  <2> TAKE x \in S
  <2>1. Upto(x) \in SUBSET S /\ Upto(x) # {}
    OBVIOUS
  <2> HIDE DEF Upto
  <2>2. IsFiniteSet(Upto(x)) /\ Cardinality(Upto(x)) <= n
    BY <2>1, FS_Subset
  <2>3. Cardinality(Upto(x)) \in Nat /\ Cardinality(Upto(x)) # 0
    BY <2>1, <2>2, FS_CardinalityType, FS_EmptySet
  <2>4. QED
    BY <1>1, <2>2, <2>3
<1>3. \A x, y \in S : x < y => Cardinality(Upto(x)) # Cardinality(Upto(y))
  <2> SUFFICES ASSUME NEW x \in S, NEW y \in S, x < y
               PROVE  Cardinality(Upto(x)) # Cardinality(Upto(y))
    OBVIOUS
  <2>1. Upto(x) \in SUBSET Upto(y) /\ y \in Upto(y) /\ y \notin Upto(x)
    <3>1. x \in Nat /\ y \in Nat /\ \A z \in S : z \in Nat
      OBVIOUS
    <3>2. \A z \in S : z <= x => z <= y
      BY <3>1
    <3>3. y <= y /\ ~(y <= x)
      BY <3>1
    <3>4. QED
      BY <3>2, <3>3
  <2> HIDE DEF Upto
  <2>2. QED
    BY <1>2, <2>1, FS_Subset
<1> HIDE DEF Upto
<1>4. rank \in Injection(S, 1 .. n)
  <2>1. rank \in [S -> 1 .. n]
    BY <1>2
  <2>2. ASSUME NEW x \in S, NEW y \in S, rank[x] = rank[y] PROVE x = y
    <3>1. ~(x < y) /\ ~(y < x)
      BY <1>3, <2>2
    <3>2. QED
      BY <3>1
  <2>3. QED
    BY <2>1, <2>2 DEF Injection, IsInjective
<1>5. rank \in Surjection(S, 1 .. n)
  <2>1. IsFiniteSet(1 .. n) /\ Cardinality(1 .. n) = n
    BY <1>1, FS_Interval
  <2>2. QED
    BY <1>4, <2>1, FS_Injection
<1>6. \A k \in 1 .. n : \E x \in S : Cardinality(Upto(x)) = k
  BY <1>5 DEF Surjection
<1>7. Ascending(S) = [k \in 1 .. n |-> CHOOSE x \in S : Cardinality(Upto(x)) = k]
  BY DEF Ascending, Upto
<1>8. QED
  BY <1>1, <1>6, <1>7

LEMMA PositionsAre ==
  ASSUME NEW n \in Nat, NEW S \in SUBSET (1 .. n)
  PROVE  S \in SUBSET Nat /\ IsFiniteSet(S)
<1>1. S \in SUBSET Nat /\ \A x \in S : x <= n
  <2>1. \A x \in S : x \in Nat /\ x <= n
    OBVIOUS
  <2>2. QED
    BY <2>1
<1>2. QED
  BY <1>1, FS_BoundedSetOfNaturals

\* Where the line that ends at e begins: behind the end before.
LEMMA LineStarts ==
  ASSUME NEW n \in Nat, NEW ends \in SUBSET (1 .. n), NEW e \in ends
  PROVE  Max({0} \union {j \in ends : j < e}) + 1 \in 1 .. e
<1> DEFINE S == {0} \union {j \in ends : j < e}
<1>1. S \in SUBSET Nat /\ S # {} /\ e \in Nat /\ \A x \in S : x < e /\ x <= e
  <2>1. e \in Nat /\ e > 0 /\ \A j \in ends : j \in Nat
    OBVIOUS
  <2>2. 0 \in S /\ \A x \in S : x = 0 \/ (x \in ends /\ x < e)
    OBVIOUS
  <2> HIDE DEF S
  <2>3. \A x \in S : x \in Nat /\ x < e /\ x <= e
    <3> TAKE x \in S
    <3>1. CASE x = 0
      BY <2>1, <3>1
    <3>2. CASE x \in ends /\ x < e
      BY <2>1, <3>2
    <3>3. QED
      BY <2>2, <3>1, <3>2
  <2>4. QED
    BY <2>1, <2>2, <2>3
<1> HIDE DEF S, Max
<1>2. Max(S) \in S
  BY <1>1, MaxIs
<1>3. QED
  BY <1>1, <1>2 DEF S

LEMMA LinesOfIs ==
  ASSUME NEW t \in Text
  PROVE  Len(LinesOf(t)) \in Nat /\ \A k \in 1 .. Len(LinesOf(t)) : Len(LinesOf(t)[k]) \in Nat
<1> DEFINE u    == ToLf(t)
           ends == {i \in DOMAIN u : u[i] = "N" \/ i = Len(u)}
           from(i) == Max({0} \union {j \in ends : j < i}) + 1
           line(k) == LET e == Ascending(ends)[k]
                      IN  SubSeq(u, from(e), IF u[e] = "N" THEN e - 1 ELSE e)
<1>1. LinesOf(t) = [k \in 1 .. Cardinality(ends) |-> line(k)]
  BY DEF LinesOf
<1>2. u \in Clean
  BY ToLfIs
<1> HIDE DEF u
<1>3. ends \in SUBSET (1 .. Len(u)) /\ Len(u) \in Nat
  BY <1>2
<1> HIDE DEF ends
<1>4. ends \in SUBSET Nat /\ IsFiniteSet(ends)
  BY <1>3, PositionsAre
<1>5. Cardinality(ends) \in Nat /\ Ascending(ends) \in [1 .. Cardinality(ends) -> ends]
  BY <1>4, AscendingIs
<1>6. \A e \in ends : from(e) \in Int
  <2> TAKE e \in ends
  <2>1. from(e) \in 1 .. e
    BY <1>3, LineStarts
  <2> HIDE DEF from
  <2>2. QED
    BY <1>4, <2>1
<1> HIDE DEF from
<1>7. \A k \in 1 .. Cardinality(ends) : Len(line(k)) \in Nat
  <2> TAKE k \in 1 .. Cardinality(ends)
  <2> DEFINE e == Ascending(ends)[k]
             a == from(e)
             b == IF u[e] = "N" THEN e - 1 ELSE e
  <2>1. a \in Int /\ b \in Int
    <3>1. e \in ends
      BY <1>5
    <3> HIDE DEF e
    <3>2. e \in Int /\ e - 1 \in Int
      BY <1>4, <3>1
    <3>3. QED
      BY <1>6, <3>1, <3>2
  <2>2. line(k) = SubSeq(u, a, b)
    OBVIOUS
  <2> HIDE DEF a, b, line
  <2>3. Len(SubSeq(u, a, b)) \in Nat
    BY <2>1
  <2>4. QED
    BY <2>2, <2>3
<1> HIDE DEF line
<1>8. QED
  BY <1>1, <1>5, <1>7

LEMMA NumberedIs ==
  ASSUME NEW t \in Text, NEW start \in Nat \ {0}, start <= Len(LinesOf(t)), NEW limit \in Int
  PROVE  Numbered(t, start, limit) \in Seq(Line)
<1> DEFINE of   == LinesOf(t)
           size == Min({limit, Len(of) - start + 1})
<1>1. Len(of) \in Nat /\ \A k \in 1 .. Len(of) : Len(of[k]) \in Nat
  BY LinesOfIs
<1> HIDE DEF of
<1>2. size \in Int /\ size <= Len(of) - start + 1
  <2> DEFINE a == Len(of) - start + 1
  <2>1. a \in Int
    BY <1>1
  <2> HIDE DEF a
  <2>2. \E x \in {limit, a} : \A y \in {limit, a} : x <= y
    BY <2>1
  <2>3. Min({limit, a}) \in {limit, a} /\ \A y \in {limit, a} : Min({limit, a}) <= y
    BY <2>2 DEF Min
  <2> HIDE DEF Min
  <2>4. QED
    BY <2>1, <2>3 DEF a
<1>3. Numbered(t, start, limit) =
        [k \in 1 .. size |-> [size |-> 2 + Len(of[start + k - 1]) + (IF k < size THEN 1 ELSE 0), feed |-> k < size]]
  BY DEF Numbered, of
<1> HIDE DEF size
<1>4. \A k \in 1 .. size : start + k - 1 \in 1 .. Len(of)
  BY <1>1, <1>2
<1>5. \A k \in 1 .. size :
        [size |-> 2 + Len(of[start + k - 1]) + (IF k < size THEN 1 ELSE 0), feed |-> k < size] \in Line
  <2> TAKE k \in 1 .. size
  <2>1. Len(of[start + k - 1]) \in Nat
    BY <1>1, <1>4
  <2> DEFINE most == 2 + Len(of[start + k - 1]) + (IF k < size THEN 1 ELSE 0)
  <2>2. most \in Nat \ {0}
    <3>1. PICK end : end = IF k < size THEN 1 ELSE 0
      OBVIOUS
    <3>2. PICK width \in Nat : width = Len(of[start + k - 1])
      BY <2>1
    <3>3. most = 2 + width + end
      BY <3>1, <3>2
    <3>4. end \in {0, 1}
      BY <3>1
    <3> HIDE DEF most
    <3>5. QED
      BY <3>3, <3>4
  <2> HIDE DEF most
  <2>3. [size |-> most, feed |-> TRUE] \in Line /\ [size |-> most, feed |-> FALSE] \in Line
    BY <2>2 DEF Line
  <2>4. (k < size) = TRUE \/ (k < size) = FALSE
    BY <1>2
  <2>5. QED
    BY <2>3, <2>4, Zenon DEF most
<1>6. PICK numbered : numbered = [k \in 1 .. size |->
        [size |-> 2 + Len(of[start + k - 1]) + (IF k < size THEN 1 ELSE 0), feed |-> k < size]]
  OBVIOUS
<1>7. numbered \in [1 .. size -> Line]
  BY <1>5, <1>6
<1>8. numbered \in Seq(Line)
  <2>1. CASE size >= 0
    BY <1>2, <1>7, <2>1
  <2>2. CASE size < 0
    <3>1. 1 .. size = 1 .. 0
      BY <1>2, <2>2
    <3>2. QED
      <4>1. numbered \in [1 .. 0 -> Line]
        BY <1>7, <3>1
      <4>2. QED
        BY <4>1
  <2>3. QED
    BY <1>2, <2>1, <2>2
<1>9. QED
  BY <1>3, <1>6, <1>8

LEMMA StreamedIs ==
  ASSUME NEW t \in Text
  PROVE  Streamed(t) \in Seq(Line)
<1> DEFINE ends == {i \in DOMAIN t : \/ t[i] = "N" \/ i = Len(t)
                                     \/ t[i] = "R" /\ t[i + 1] # "N"}
           from(i) == Max({0} \union {j \in ends : j < i}) + 1
           line(k) == LET e == Ascending(ends)[k] IN [size |-> e - from(e) + 1, feed |-> t[e] = "N"]
<1>1. Streamed(t) = [k \in 1 .. Cardinality(ends) |-> line(k)]
  BY DEF Streamed
<1>2. ends \in SUBSET (1 .. Len(t)) /\ Len(t) \in Nat
  OBVIOUS
<1> HIDE DEF ends
<1>3. ends \in SUBSET Nat /\ IsFiniteSet(ends)
  BY <1>2, PositionsAre
<1>4. Cardinality(ends) \in Nat /\ Ascending(ends) \in [1 .. Cardinality(ends) -> ends]
  BY <1>3, AscendingIs
<1>5. \A e \in ends : from(e) \in 1 .. e
  BY <1>2, LineStarts
<1> HIDE DEF from
<1>6. \A k \in 1 .. Cardinality(ends) : line(k) \in Line
  <2> TAKE k \in 1 .. Cardinality(ends)
  <2> DEFINE e == Ascending(ends)[k]
  <2>1. e \in Nat /\ from(e) \in 1 .. e
    BY <1>3, <1>4, <1>5
  <2>2. line(k) = [size |-> e - from(e) + 1, feed |-> t[e] = "N"]
    OBVIOUS
  <2> HIDE DEF e, line
  <2>3. QED
    BY <2>1, <2>2 DEF Line
<1> HIDE DEF line
<1>7. QED
  BY <1>1, <1>4, <1>6

\* What an edit saves is the file with the stretch replaced that was found in it, and what is
\* shown is a text of lines, cut where the caps of the call cut it.
Found ==
    /\ op.old # <<>> /\ file # Missing
    /\ \E s \in Edited : final = [bom |-> file.bom, body |-> ApplyEdit(file.body, s, op.new)]
CutsInv ==
    /\ SaveInv
    /\ op \in FileCalls /\ file \in {Missing} \union [bom : BOOLEAN, body : Bodies]
    /\ op.tool = "bash" => file # Missing
    /\ op.tool = "edit" /\ stage \in {"save", "fill", "replace", "put", "done"} => Found
    /\ Shows => shown.text \in Seq(Line) /\ shown.kept = Kept(shown.text, op.caps[1], op.caps[2])

LEMMA InitCuts == FilesInit => CutsInv
<1> SUFFICES ASSUME FilesInit PROVE CutsInv
  OBVIOUS
<1>1. SaveInv
  BY InitSaves
<1>2. ~Shows
  BY DEF FilesInit, Shows
<1>3. QED
  BY <1>1, <1>2 DEF FilesInit, CutsInv

LEMMA CallsAre ==
  ASSUME op \in FileCalls
  PROVE  /\ op.tool \in {"read", "bash"} => op.caps[1] \in Nat /\ op.caps[2] \in Nat /\ op.caps \in Caps
         /\ op.tool = "read" => op.window.offset \in Int /\ op.window.limit \in Int
         /\ op.tool = "edit" => op.old \in Text /\ op.new \in Text
<1>1. op.tool \in {"read", "bash"} => op.caps \in Caps
  BY DEF FileCalls
<1>2. op.tool = "read" => op.window \in Windows
  BY DEF FileCalls
<1>3. op.tool = "edit" => op.old \in Olds /\ op.new \in News
  BY DEF FileCalls
<1>4. Seq(STRING) \subseteq Text
  BY DEF Text, Char
<1>5. QED
  BY <1>1, <1>2, <1>3, <1>4, FilesAssumption

LEMMA BodiesAre ==
  ASSUME file \in {Missing} \union [bom : BOOLEAN, body : Bodies], file # Missing
  PROVE  file.body \in Text
<1>1. Seq(STRING) \subseteq Text
  BY DEF Text, Char
<1>2. file.body \in Bodies
  OBVIOUS
<1>3. QED
  BY <1>1, <1>2, FilesAssumption

LEMMA StepCuts == CutsInv /\ [FilesNext]_filesVars => CutsInv'
<1> SUFFICES ASSUME CutsInv, [FilesNext]_filesVars PROVE CutsInv'
  OBVIOUS
<1>1. SaveInv'
  BY StepSaves DEF CutsInv
<1>2. op' = op /\ file' = file
  BY DEF FilesNext, filesVars, Edit, Write, Read, Stream, OpenTemp, FillTemp, Replace, SaveFails, OpenMount,
         Put, PutFails, ProcessEnds
<1>3. ASSUME Shows' PROVE shown'.text \in Seq(Line) /\ shown'.kept = Kept(shown'.text, op.caps[1], op.caps[2])
  <2>1. stage' = "done" /\ op.tool \in {"read", "bash"}
    BY <1>2, <1>3 DEF Shows
  <2>2. CASE Read
    <3> DEFINE start == Max({1, op.window.offset})
    <3>1. op.tool = "read"
      BY <2>2 DEF Read
    <3>2. /\ file # Missing /\ start <= Len(LinesOf(file.body))
          /\ Show(Numbered(file.body, start, op.window.limit))
      BY <2>1, <2>2 DEF Read
    <3>3. op.window.offset \in Int /\ op.window.limit \in Int
      BY <3>1, CallsAre DEF CutsInv
    <3>4. file.body \in Text
      BY <3>2, BodiesAre DEF CutsInv
    <3>5. start \in Nat \ {0}
      <4>1. \E x \in {1, op.window.offset} : \A y \in {1, op.window.offset} : x >= y
        BY <3>3
      <4>2. start \in {1, op.window.offset} /\ start >= 1
        BY <4>1 DEF Max
      <4> HIDE DEF start
      <4>3. QED
        BY <3>3, <4>2
    <3> HIDE DEF start
    <3>6. Numbered(file.body, start, op.window.limit) \in Seq(Line)
      BY <3>2, <3>3, <3>4, <3>5, NumberedIs
    <3>7. QED
      BY <3>2, <3>6 DEF Show
  <2>3. CASE Stream
    <3>1. op.tool = "bash" /\ Show(Streamed(file.body))
      BY <2>3 DEF Stream
    <3>2. file.body \in Text
      BY <3>1, BodiesAre DEF CutsInv
    <3>3. Streamed(file.body) \in Seq(Line)
      BY <3>2, StreamedIs
    <3>4. QED
      BY <3>1, <3>3 DEF Show
  <2>4. CASE Shows /\ shown' = shown
    BY <2>4 DEF CutsInv
  <2>5. Read \/ Stream \/ (Shows /\ shown' = shown)
    <3>1. stage \notin {"save", "fill", "replace", "put"}
      BY <2>1 DEF CutsInv, SaveInv
    <3>2. ~(Edit \/ Write)
      BY <2>1 DEF Edit, Write
    <3>3. ~(OpenTemp \/ FillTemp \/ Replace \/ SaveFails)
      BY <3>1 DEF OpenTemp, FillTemp, Replace, SaveFails
    <3>4. ~(OpenMount \/ Put \/ PutFails \/ ProcessEnds)
      BY <3>1 DEF OpenMount, Put, PutFails, ProcessEnds
    <3>5. Read \/ Stream \/ UNCHANGED filesVars
      BY <3>2, <3>3, <3>4 DEF FilesNext
    <3>6. ASSUME UNCHANGED filesVars PROVE Shows /\ shown' = shown
      <4>1. stage = "done" /\ shown' = shown
        BY <2>1, <3>6 DEF filesVars
      <4>2. QED
        BY <2>1, <4>1 DEF Shows
    <3>7. QED
      BY <3>5, <3>6
  <2>6. QED
    BY <2>2, <2>3, <2>4, <2>5
<1>4. ASSUME op'.tool = "edit", stage' \in {"save", "fill", "replace", "put", "done"} PROVE Found'
  <2>1. op.tool = "edit"
    BY <1>2, <1>4
  <2>2. CASE Edit
    <3>1. stage' # "refused"
      BY <1>4
    <3>2. /\ op.old # <<>> /\ file # Missing
          /\ \E s \in Edited : final' = [bom |-> file.bom, body |-> ApplyEdit(file.body, s, op.new)]
      BY <2>2, <3>1 DEF Edit
    <3>3. QED
      BY <1>2, <3>2 DEF Found, Edited
  <2>3. CASE ~Edit
    <3>1. ~(Write \/ Read \/ Stream)
      BY <2>1 DEF Write, Read, Stream
    <3>2. final' = final /\ stage \in {"save", "fill", "replace", "put", "done"}
      BY <1>4, <2>3, <3>1 DEF FilesNext, filesVars, OpenTemp, FillTemp, Replace, SaveFails, OpenMount, Put,
         PutFails, ProcessEnds
    <3>3. Found
      BY <2>1, <3>2 DEF CutsInv
    <3>4. QED
      BY <1>2, <3>2, <3>3 DEF Found, Edited
  <2>4. QED
    BY <2>2, <2>3
<1>5. QED
  BY <1>1, <1>2, <1>3, <1>4 DEF CutsInv

LEMMA CutsLocal == CutsInv => EditIsLocal
<1> SUFFICES ASSUME CutsInv, EditDone, Uniform(file.body) PROVE Local
  BY DEF EditIsLocal
<1>1. op.tool = "edit" /\ stage = "done" /\ Found /\ disk = final
  BY DEF EditDone, CutsInv, SaveInv
<1> DEFINE b == file.body
<1>2. b \in Text /\ op.old \in Text /\ op.new \in Text
  BY <1>1, BodiesAre, CallsAre DEF CutsInv, Found
<1>3. PICK s \in Edited : final = [bom |-> file.bom, body |-> ApplyEdit(b, s, op.new)]
  BY <1>1 DEF Found
<1>4. disk.bom = file.bom /\ disk.body = ApplyEdit(b, s, op.new)
  BY <1>1, <1>3
<1>5. op.old # <<>> /\ s \in Span(ToLf(op.old), ToLf(b))
  BY <1>1, <1>3 DEF Found, Edited
<1> HIDE DEF b
<1>6. Uniform(b)
  BY DEF b
<1>7. \E i \in 1 .. Len(b), j \in 1 .. Len(b) :
        /\ \/ ToLf(SubSeq(b, i, j)) = ToLf(op.old)
           \/ At(ToLf(op.old), ToLf(b)) = {} /\ Normalize(ToLf(SubSeq(b, i, j))) = Normalize(ToLf(op.old))
        /\ ApplyEdit(b, s, op.new) =
             SubSeq(b, 1, i - 1) \o WithEol(ToLf(op.new), DetectEol(b)) \o SubSeq(b, j + 1, Len(b))
  BY <1>2, <1>5, <1>6, EditCuts
<1>8. QED
  BY <1>4, <1>7 DEF Local, b

LEMMA CutsLongest ==
  ASSUME \A c \in Caps : c[1] > 0
  PROVE  CutsInv => LongestHead
<1> SUFFICES ASSUME CutsInv, Shows, \A k \in 1 .. Len(shown.text) - 1 : shown.text[k].feed
             PROVE  Longest
  BY DEF LongestHead
<1>1. op.caps[1] \in Nat \ {0} /\ op.caps[2] \in Nat
  <2>1. op.tool \in {"read", "bash"} /\ op \in FileCalls
    BY DEF CutsInv, Shows
  <2>2. op.caps[1] \in Nat /\ op.caps[2] \in Nat /\ op.caps \in Caps
    BY <2>1, CallsAre
  <2>3. op.caps[1] > 0
    BY <2>2
  <2>4. QED
    BY <2>2, <2>3
<1>2. shown.text \in Seq(Line) /\ shown.kept = Kept(shown.text, op.caps[1], op.caps[2])
  BY DEF CutsInv
<1>3. QED
  BY <1>1, <1>2, TruncateKeepsTheLongest DEF Longest, Allowed

\* Whatever is edited, read or printed, over every transport: an edit of a file with one style of
\* line ends replaces the stretch that was asked for and leaves the rest to the byte; and, as long
\* as the settings leave room for a line, what the model is shown is the longest head of whole
\* lines within both caps (tools/files.py, tools/truncate.py).
THEOREM FilesCutsAreExact ==
  ASSUME \A c \in Caps : c[1] > 0
  PROVE  FilesSpec => []CutsAreExact
<1>1. CutsInv => CutsAreExact
  BY CutsLocal, CutsLongest DEF CutsAreExact
<1>2. QED
  BY <1>1, InitCuts, StepCuts, PTL DEF FilesSpec

-----------------------------------------------------------------------------
(* The fan-out of the agent tool *)

\* What is the same of every call and child, whatever it does.
AnsweredOf(c) ==
  /\ c.at \in {"idle", "rejected", "gather", "folded"}
  /\ c.prompts \in PromptLists
  /\ c.at = "idle" => c.prompts = <<>>

NoTerse(c) == \A i \in DOMAIN call[c].prompts : call[c].prompts[i] # "terse"

\* A call that was accepted has a child for each prompt, and any other has none.
ChildrenMatch(c) ==
  /\ call[c].at \in {"idle", "rejected"} => child[c] = <<>>
  /\ call[c].at \in {"gather", "folded"} =>
        DOMAIN child[c] = DOMAIN call[c].prompts /\ Len(call[c].prompts) \in 1 .. MaxFanout /\ NoTerse(c)

\* What a child has seen at each point of its life, and what its section says of it.
Tells(seen, s) ==
  /\ s.note = "none" <=> seen \in {<<"good">>, <<"bad", "good">>}
  /\ s.note = "no usable report" <=> seen = <<"bad", "bad">>
  /\ s.note = "child failed" <=> seen \in {<<"raise">>, <<"bad", "raise">>}

ChildOk(x) ==
  /\ DOMAIN x = {"at", "seen", "section"}
  /\ x.at \in {"new", "spawned", "done", "cancelled"}
  /\ x.at = "new" => x.seen = <<>>
  /\ x.at = "spawned" => x.seen \in {<<>>, <<"bad">>}
  /\ x.at = "done" => Tells(x.seen, x.section)

FoldOk(c) ==
  call[c].at = "folded" =>
    /\ DOMAIN call[c].fold = DOMAIN call[c].prompts
    /\ \A i \in DOMAIN child[c] : child[c][i].at = "done" /\ call[c].fold[i] = child[c][i].section

CallOk(c) ==
  /\ DOMAIN call[c] = {"at", "prompts", "fold"} /\ AnsweredOf(call[c]) /\ ChildrenMatch(c)
  /\ \A i \in DOMAIN child[c] : ChildOk(child[c][i])
  /\ FoldOk(c)

CallsOk ==
  /\ DOMAIN call = Calls /\ DOMAIN child = Calls
  /\ \A c \in Calls : CallOk(c)

\* The semaphore: who waits waits once and holds no slot, and nobody waits while one is free.
UnderWay == {k \in Children : child[k[1]][k[2]].at = "spawned"}
SlotsOk(w, h, under) ==
  /\ w \in Seq(under) /\ h \subseteq under /\ IsFiniteSet(h)
  /\ IsInjective(w) /\ Range(w) \intersect h = {} /\ Range(w) \union h = under
  /\ Cardinality(h) <= MaxParallel
  /\ w # <<>> => Cardinality(h) = MaxParallel

FanoutInv == CallsOk /\ SlotsOk(waiting, held, UnderWay)

\* A sequence without repetitions is as long as its range is large.
LEMMA InjectiveCount ==
  ASSUME NEW S, NEW w \in Seq(S), IsInjective(w)
  PROVE  IsFiniteSet(Range(w)) /\ Cardinality(Range(w)) = Len(w)
<1> DEFINE R == Range(w)
<1>1. R = {w[i] : i \in 1 .. Len(w)} /\ Len(w) \in Nat
  BY DEF Range
<1>2. w \in Bijection(1 .. Len(w), R)
  <2>1. w \in [1 .. Len(w) -> R]
    BY <1>1
  <2>2. \A a, b \in 1 .. Len(w) : w[a] = w[b] => a = b
    BY DEF IsInjective
  <2>3. \A t \in R : \E s \in 1 .. Len(w) : w[s] = t
    BY <1>1
  <2>4. QED
    BY <2>1, <2>2, <2>3, Fun_IsBij
<1>3. IsFiniteSet(1 .. Len(w)) /\ Cardinality(1 .. Len(w)) = Len(w)
  <2>1. 1 \in Int /\ Len(w) \in Int /\ Len(w) - 1 + 1 = Len(w) /\ (1 > Len(w) => Len(w) = 0)
    BY <1>1
  <2>2. QED
    BY <2>1, FS_Interval
<1> HIDE DEF R
<1>4. IsFiniteSet(R) /\ Cardinality(R) = Cardinality(1 .. Len(w))
  <2>1. ExistsBijection(1 .. Len(w), R)
    BY <1>2 DEF ExistsBijection
  <2>2. QED
    BY <1>3, <2>1, FS_Bijection
<1>5. QED
  BY <1>3, <1>4 DEF R

LEMMA FanoutInvImplies == FanoutInv => SlotsExact /\ FoldTellsTheTruth
<1> SUFFICES ASSUME FanoutInv PROVE SlotsExact /\ FoldTellsTheTruth
  OBVIOUS
<1>1. CallsOk /\ SlotsOk(waiting, held, UnderWay)
  BY DEF FanoutInv
<1>2. ASSUME NEW c \in Calls, "terse" \in Range(call[c].prompts) PROVE child[c] = <<>>
  BY <1>1, <1>2 DEF CallsOk, CallOk, ChildrenMatch, NoTerse, Range, AnsweredOf
<1>3. Len(waiting) = Cardinality(Range(waiting) \ held)
  <2>1. Range(waiting) \ held = Range(waiting)
    BY <1>1 DEF SlotsOk
  <2>2. Len(waiting) = Cardinality(Range(waiting))
    BY <1>1, InjectiveCount DEF SlotsOk
  <2>3. QED
    BY <2>1, <2>2
<1>4. SlotsExact
  BY <1>1, <1>2, <1>3 DEF SlotsExact, SlotsOk, UnderWay
<1>5. ASSUME NEW c \in Calls, call[c].at = "folded", NEW i \in DOMAIN call[c].fold
      PROVE  Tells(child[c][i].seen, call[c].fold[i])
  <2>1. CallOk(c)
    BY <1>1 DEF CallsOk
  <2>2. i \in DOMAIN child[c] /\ child[c][i].at = "done" /\ call[c].fold[i] = child[c][i].section
    BY <1>5, <2>1 DEF CallOk, FoldOk, ChildrenMatch
  <2>3. ChildOk(child[c][i])
    BY <2>1, <2>2 DEF CallOk
  <2>4. QED
    BY <2>2, <2>3 DEF ChildOk
<1>6. \A c \in Calls : call[c].at = "folded" => DOMAIN call[c].fold = DOMAIN call[c].prompts
  BY <1>1 DEF CallsOk, CallOk, FoldOk
<1>7. FoldTellsTheTruth
  BY <1>5, <1>6 DEF FoldTellsTheTruth, Tells
<1>8. QED
  BY <1>4, <1>7

LEMMA EmptySlots == SlotsOk(<<>>, {}, {})
<1>1. IsFiniteSet({}) /\ Cardinality({}) = 0
  BY FS_EmptySet
<1>2. Range(<<>>) = {} /\ IsInjective(<<>>) /\ <<>> \in Seq({})
  BY DEF Range, IsInjective
<1>3. QED
  BY <1>1, <1>2, FanoutAssumption DEF SlotsOk

LEMMA FanoutStarts == FanoutInit => FanoutInv
<1> SUFFICES ASSUME FanoutInit PROVE FanoutInv
  OBVIOUS
<1>1. <<>> \in PromptLists
  <2>1. 0 \in 0 .. MaxFanout + 1
    BY FanoutAssumption
  <2>2. <<>> \in [1 .. 0 -> Prompts]
    OBVIOUS
  <2>3. QED
    BY <2>1, <2>2 DEF PromptLists
<1>2. CallsOk
  <2>1. DOMAIN call = Calls /\ DOMAIN child = Calls
    BY DEF FanoutInit
  <2>2. ASSUME NEW c \in Calls PROVE CallOk(c)
    <3>1. call[c] = Idle /\ child[c] = <<>>
      BY DEF FanoutInit
    <3>2. QED
      BY <1>1, <3>1 DEF CallOk, AnsweredOf, ChildrenMatch, FoldOk, Idle
  <2>3. QED
    BY <2>1, <2>2 DEF CallsOk
<1>3. UnderWay = {} /\ waiting = <<>> /\ held = {}
  BY DEF FanoutInit, UnderWay, Children
<1>4. QED
  BY <1>2, <1>3, EmptySlots DEF FanoutInv

\* One more takes a slot, or waits behind the others.
LEMMA AcquireKeeps ==
  ASSUME NEW w, NEW h, NEW U, SlotsOk(w, h, U), NEW k, k \notin U, Acquire(k, w, h)
  PROVE  SlotsOk(waiting', held', U \union {k})
<1> DEFINE V == U \union {k}
<1>1. /\ w \in Seq(U) /\ h \subseteq U /\ IsFiniteSet(h) /\ IsInjective(w) /\ Range(w) \intersect h = {}
      /\ Range(w) \union h = U /\ Cardinality(h) <= MaxParallel /\ (w # <<>> => Cardinality(h) = MaxParallel)
  BY DEF SlotsOk
<1>2. Cardinality(h) \in Nat /\ MaxParallel \in Nat
  BY <1>1, FS_CardinalityType, FanoutAssumption
<1>3. CASE Granted(k, w, h)
  <2>1. waiting' = w /\ held' = h \union {k} /\ w = <<>> /\ Cardinality(h) < MaxParallel
    BY <1>3 DEF Acquire, Granted
  <2>2. IsFiniteSet(h \union {k}) /\ Cardinality(h \union {k}) = Cardinality(h) + 1
    BY <1>1, FS_AddElement
  <2>3. Range(w) = {}
    BY <2>1 DEF Range
  <2>4. w \in Seq(V)
    BY <2>1
  <2>5. QED
    BY <1>1, <1>2, <2>1, <2>2, <2>3, <2>4 DEF SlotsOk
<1>4. CASE ~Granted(k, w, h)
  <2>1. waiting' = Append(w, k) /\ held' = h /\ Cardinality(h) = MaxParallel
    BY <1>1, <1>2, <1>4 DEF Acquire, Granted
  <2>2. w \in Seq(V) /\ k \in V
    BY <1>1
  <2>3. /\ Append(w, k) \in Seq(V) /\ DOMAIN Append(w, k) = DOMAIN w \union {Len(w) + 1} /\ Len(w) \in Nat
        /\ Append(w, k)[Len(w) + 1] = k /\ \A i \in DOMAIN w : Append(w, k)[i] = w[i] /\ i # Len(w) + 1
    <3> HIDE DEF V
    <3>1. QED
      BY <2>2
  <2>4. Range(Append(w, k)) = Range(w) \union {k}
    BY <2>3 DEF Range
  <2>5. IsInjective(Append(w, k))
    <3>1. \A i \in DOMAIN w : w[i] # k
      BY <1>1 DEF Range
    <3>2. QED
      BY <1>1, <2>3, <3>1 DEF IsInjective
  <2>6. QED
    BY <1>1, <2>1, <2>3, <2>4, <2>5 DEF SlotsOk
<1>5. QED
  BY <1>3, <1>4

LEMMA RemoveFirstIs ==
  ASSUME NEW S, NEW w \in Seq(S), NEW e, e \in Range(w)
  PROVE  \E i \in DOMAIN w : w[i] = e /\ RemoveFirst(w, e) = RemoveAt(w, i)
<1> DEFINE I == {i \in 1 .. Len(w) : w[i] = e}
<1>1. I # {} /\ I \in SUBSET Nat
  BY DEF Range
<1>2. Min(I) \in I
  <2>1. \E m \in I : \A x \in I : m <= x
    BY <1>1, LeastIs
  <2>2. QED
    BY <2>1 DEF Min
<1>3. SelectInSeq(w, LAMBDA x : x = e) = Min(I)
  BY <1>1 DEF SelectInSeq
<1>4. RemoveFirst(w, e) = RemoveAt(w, SelectInSeq(w, LAMBDA x : x = e))
  BY <1>1 DEF RemoveFirst
<1>5. PICK i : i = Min(I)
  OBVIOUS
<1>6. RemoveFirst(w, e) = RemoveAt(w, i) /\ i \in DOMAIN w /\ w[i] = e
  BY <1>2, <1>3, <1>4, <1>5
<1>7. QED
  BY <1>6

\* What is left of a sequence without repetitions when one place is taken out of it.
LEMMA RemoveAtIs ==
  ASSUME NEW S, NEW w \in Seq(S), IsInjective(w), NEW i \in DOMAIN w
  PROVE  LET v == RemoveAt(w, i)
         IN  v \in Seq(S \ {w[i]}) /\ IsInjective(v) /\ Range(v) = Range(w) \ {w[i]}
<1> DEFINE v == RemoveAt(w, i)
<1>1. i \in 1 .. Len(w) /\ Len(w) \in Nat
  OBVIOUS
<1>2. v = [j \in 1 .. Len(w) - 1 |-> IF j < i THEN w[j] ELSE w[j + 1]]
  <2>1. PICK a : a = SubSeq(w, 1, i - 1)
    OBVIOUS
  <2>2. PICK b : b = SubSeq(w, i + 1, Len(w))
    OBVIOUS
  <2>3. a \in Seq(S) /\ Len(a) = i - 1 /\ \A j \in 1 .. i - 1 : a[j] = w[j]
    BY <1>1, <2>1
  <2>4. b \in Seq(S) /\ Len(b) = Len(w) - i /\ \A j \in 1 .. Len(w) - i : b[j] = w[i + j]
    BY <1>1, <2>2
  <2>5. v = a \o b
    BY <2>1, <2>2 DEF RemoveAt
  <2>6. /\ DOMAIN (a \o b) = 1 .. Len(w) - 1 /\ a \o b = [j \in 1 .. Len(w) - 1 |-> (a \o b)[j]]
        /\ \A j \in 1 .. Len(w) - 1 : (a \o b)[j] = IF j < i THEN a[j] ELSE b[j - i + 1]
    <3>1. /\ a \o b \in Seq(S) /\ Len(a \o b) = Len(a) + Len(b)
          /\ \A j \in 1 .. Len(a) + Len(b) : (a \o b)[j] = IF j <= Len(a) THEN a[j] ELSE b[j - Len(a)]
      BY <2>3, <2>4, ConcatProperties
    <3>2. PICK x : x = a \o b
      OBVIOUS
    <3>3. x \in Seq(S) /\ Len(x) = Len(w) - 1
      <4>1. i - 1 + (Len(w) - i) = Len(w) - 1
        BY <1>1
      <4>2. QED
        BY <2>3, <2>4, <3>1, <3>2, <4>1
    <3>4. DOMAIN x = 1 .. Len(w) - 1 /\ x = [j \in 1 .. Len(w) - 1 |-> x[j]]
      BY <3>3
    <3>5. \A j \in 1 .. Len(w) - 1 : x[j] = IF j < i THEN a[j] ELSE b[j - i + 1]
      <4>1. ASSUME NEW j \in 1 .. Len(w) - 1 PROVE x[j] = IF j < i THEN a[j] ELSE b[j - i + 1]
        <5>1. j \in 1 .. Len(a) + Len(b) /\ (j <= Len(a) <=> j < i) /\ j - Len(a) = j - i + 1
          BY <1>1, <2>3, <2>4
        <5>2. x[j] = IF j <= Len(a) THEN a[j] ELSE b[j - Len(a)]
          BY <3>1, <3>2, <5>1
        <5>3. QED
          BY <5>1, <5>2
      <4>2. QED
        BY <4>1
    <3>6. QED
      BY <3>2, <3>4, <3>5
  <2>7. \A j \in 1 .. Len(w) - 1 : (a \o b)[j] = IF j < i THEN w[j] ELSE w[j + 1]
    <3>1. ASSUME NEW j \in 1 .. Len(w) - 1 PROVE (a \o b)[j] = IF j < i THEN w[j] ELSE w[j + 1]
      <4>1. CASE j < i
        <5>1. j \in 1 .. i - 1
          BY <1>1, <4>1
        <5>2. QED
          BY <2>3, <2>6, <4>1, <5>1
      <4>2. CASE ~(j < i)
        <5>1. j - i + 1 \in 1 .. Len(w) - i /\ i + (j - i + 1) = j + 1
          BY <1>1, <4>2
        <5>2. b[j - i + 1] = w[i + (j - i + 1)]
          BY <2>4, <5>1
        <5>3. QED
          BY <2>6, <4>2, <5>1, <5>2
      <4>3. QED
        BY <4>1, <4>2
    <3>2. QED
      BY <3>1
  <2>8. QED
    BY <2>5, <2>6, <2>7
<1>3. \A j \in 1 .. Len(w) - 1 : v[j] = w[IF j < i THEN j ELSE j + 1]
  BY <1>2
<1>4. DOMAIN v = 1 .. Len(w) - 1
  BY <1>2
<1> HIDE DEF v
<1>5. \A j \in 1 .. Len(w) - 1 : v[j] \in S \ {w[i]}
  BY <1>1, <1>3 DEF IsInjective
<1>6. v \in Seq(S \ {w[i]})
  BY <1>1, <1>2, <1>5, <1>4
<1>7. IsInjective(v)
  <2>1. ASSUME NEW a \in 1 .. Len(w) - 1, NEW b \in 1 .. Len(w) - 1, v[a] = v[b] PROVE a = b
    <3>1. PICK m, n : m = (IF a < i THEN a ELSE a + 1) /\ n = IF b < i THEN b ELSE b + 1
      OBVIOUS
    <3>2. m \in DOMAIN w /\ n \in DOMAIN w /\ (m = n => a = b)
      BY <1>1, <3>1
    <3>3. w[m] = w[n]
      BY <1>3, <2>1, <3>1
    <3>4. QED
      BY <3>2, <3>3 DEF IsInjective
  <2>2. QED
    BY <1>4, <2>1 DEF IsInjective
<1>8. Range(v) = Range(w) \ {w[i]}
  <2>1. ASSUME NEW x \in Range(w), x # w[i] PROVE x \in Range(v)
    <3>1. PICK m \in 1 .. Len(w) : w[m] = x
      BY <2>1 DEF Range
    <3>2. CASE m < i
      <4>1. m \in 1 .. Len(w) - 1 /\ v[m] = x
        BY <1>1, <1>3, <3>1, <3>2
      <4>2. QED
        BY <1>4, <4>1 DEF Range
    <3>3. CASE m > i
      <4>1. m - 1 \in 1 .. Len(w) - 1 /\ v[m - 1] = x
        BY <1>1, <1>3, <3>1, <3>3
      <4>2. QED
        BY <1>4, <4>1 DEF Range
    <3>4. QED
      BY <1>1, <2>1, <3>1, <3>2, <3>3
  <2>2. ASSUME NEW j \in DOMAIN v PROVE v[j] \in Range(w) /\ v[j] # w[i]
    <3>1. (IF j < i THEN j ELSE j + 1) \in DOMAIN w
      BY <1>1, <1>4
    <3>2. QED
      BY <1>3, <1>4, <1>5, <3>1 DEF Range
  <2>3. QED
    BY <2>1, <2>2 DEF Range
<1>9. QED
  BY <1>6, <1>7, <1>8 DEF v

\* One leaves: its slot goes to the first who waits, or it waits no more.
LEMMA LeaveKeeps ==
  ASSUME NEW U, SlotsOk(waiting, held, U), NEW k \in U
  PROVE  SlotsOk(WaitersAfter(k), HoldersAfter(k), U \ {k})
<1>1. /\ waiting \in Seq(U) /\ held \subseteq U /\ IsFiniteSet(held) /\ IsInjective(waiting)
      /\ Range(waiting) \intersect held = {} /\ Range(waiting) \union held = U
      /\ Cardinality(held) <= MaxParallel /\ (waiting # <<>> => Cardinality(held) = MaxParallel)
  BY DEF SlotsOk
<1>2. Cardinality(held) \in Nat /\ MaxParallel \in Nat
  BY <1>1, FS_CardinalityType, FanoutAssumption
<1>3. CASE k \in held /\ waiting # <<>>
  <2>1. PICK first : first = waiting[1]
    OBVIOUS
  <2>2. 1 \in DOMAIN waiting /\ Head(waiting) = first /\ Tail(waiting) = RemoveAt(waiting, 1)
    BY <1>1, <1>3, <2>1 DEF RemoveAt
  <2>3. Tail(waiting) \in Seq(U \ {first}) /\ IsInjective(Tail(waiting)) /\ Range(Tail(waiting)) = Range(waiting) \ {first}
    <3>1. LET v == RemoveAt(waiting, 1)
          IN  v \in Seq(U \ {waiting[1]}) /\ IsInjective(v) /\ Range(v) = Range(waiting) \ {waiting[1]}
      BY <1>1, <2>2, RemoveAtIs
    <3>2. QED
      BY <2>1, <2>2, <3>1
  <2>4. first \in Range(waiting)
    BY <2>1, <2>2 DEF Range
  <2>5. PICK v, h : v = WaitersAfter(k) /\ h = HoldersAfter(k)
    OBVIOUS
  <2>6. v = Tail(waiting) /\ h = (held \ {k}) \union {first}
    BY <1>3, <2>2, <2>5 DEF WaitersAfter, HoldersAfter
  <2>7. IsFiniteSet(h) /\ Cardinality(h) = MaxParallel
    <3>1. IsFiniteSet(held \ {k}) /\ Cardinality(held \ {k}) = MaxParallel - 1
      BY <1>1, <1>2, <1>3, FS_RemoveElement
    <3>2. first \notin held \ {k}
      BY <1>1, <2>4
    <3>3. QED
      <4>1. MaxParallel - 1 + 1 = MaxParallel
        BY <1>2
      <4>2. QED
        BY <2>6, <3>1, <3>2, <4>1, FS_AddElement
  <2>8. v \in Seq(U \ {k})
    <3>1. Range(v) \subseteq U \ {k} /\ v \in Seq(U \ {first})
      BY <1>1, <1>3, <2>3, <2>6
    <3>2. QED
      BY <3>1 DEF Range
  <2>9. Range(v) \intersect h = {} /\ Range(v) \union h = U \ {k} /\ h \subseteq U \ {k}
    BY <1>1, <1>3, <2>3, <2>4, <2>6
  <2>10. SlotsOk(v, h, U \ {k})
    BY <1>2, <2>3, <2>6, <2>7, <2>8, <2>9 DEF SlotsOk
  <2>11. QED
    BY <2>5, <2>10
<1>4. CASE k \in held /\ waiting = <<>>
  <2>1. RemoveFirst(<<>>, k) = <<>>
    BY DEF RemoveFirst
  <2>2. WaitersAfter(k) = <<>> /\ HoldersAfter(k) = held \ {k}
    BY <1>4, <2>1 DEF WaitersAfter, HoldersAfter
  <2>3. IsFiniteSet(held \ {k}) /\ Cardinality(held \ {k}) = Cardinality(held) - 1
    BY <1>1, <1>4, FS_RemoveElement
  <2>4. Range(<<>>) = {} /\ IsInjective(<<>>) /\ <<>> \in Seq(U \ {k})
    BY DEF Range, IsInjective
  <2>5. SlotsOk(<<>>, held \ {k}, U \ {k})
    BY <1>1, <1>2, <1>4, <2>3, <2>4 DEF SlotsOk
  <2>6. QED
    BY <2>2, <2>5
<1>5. CASE k \notin held
  <2>1. PICK i \in DOMAIN waiting : waiting[i] = k /\ RemoveFirst(waiting, k) = RemoveAt(waiting, i)
    BY <1>1, <1>5, RemoveFirstIs
  <2>2. PICK v : v = RemoveAt(waiting, i)
    OBVIOUS
  <2>3. v \in Seq(U \ {k}) /\ IsInjective(v) /\ Range(v) = Range(waiting) \ {k}
    BY <1>1, <2>1, <2>2, RemoveAtIs
  <2>4. WaitersAfter(k) = v /\ HoldersAfter(k) = held
    BY <1>5, <2>1, <2>2 DEF WaitersAfter, HoldersAfter
  <2>5. waiting # <<>>
    BY <1>1, <2>1
  <2>6. SlotsOk(v, held, U \ {k})
    BY <1>1, <1>2, <1>5, <2>3, <2>5 DEF SlotsOk
  <2>7. QED
    BY <2>4, <2>6
<1>6. QED
  BY <1>3, <1>4, <1>5

\* One child of a call that is gathered changes.
Turns(c, i, x) ==
  /\ call' = call /\ DOMAIN child' = DOMAIN child /\ DOMAIN child'[c] = DOMAIN child[c] /\ child'[c][i] = x
  /\ \A j \in DOMAIN child[c] : j # i => child'[c][j] = child[c][j]
  /\ \A d \in Calls : d # c => child'[d] = child[d]

LEMMA ChildChanges ==
  ASSUME CallsOk, NEW c \in Calls, NEW i \in DOMAIN child[c], child[c][i].at \in {"new", "spawned"},
         NEW x, ChildOk(x), Turns(c, i, x)
  PROVE  /\ CallsOk' /\ call[c].at = "gather" /\ <<c, i>> \in Children
         /\ UnderWay' = IF x.at = "spawned" THEN UnderWay \union {<<c, i>>} ELSE UnderWay \ {<<c, i>>}
<1>1. /\ DOMAIN call = Calls /\ DOMAIN child = Calls /\ \A d \in Calls : CallOk(d)
  BY DEF CallsOk
<1>2. CallOk(c) /\ AnsweredOf(call[c]) /\ ChildrenMatch(c) /\ FoldOk(c)
  BY <1>1 DEF CallOk
<1>3. call[c].at = "gather"
  BY <1>2 DEF AnsweredOf, ChildrenMatch, FoldOk
<1>4. i \in 1 .. MaxFanout /\ <<c, i>> \in Children
  <2>1. DOMAIN child[c] = DOMAIN call[c].prompts /\ Len(call[c].prompts) \in 1 .. MaxFanout
    BY <1>2, <1>3 DEF ChildrenMatch
  <2>2. PICK n \in 0 .. MaxFanout + 1 : call[c].prompts \in [1 .. n -> Prompts]
    BY <1>2 DEF AnsweredOf, PromptLists
  <2>3. DOMAIN call[c].prompts = 1 .. n /\ Len(call[c].prompts) = n
    BY <2>2
  <2>4. i \in 1 .. MaxFanout
    BY <2>1, <2>3, FanoutAssumption
  <2>5. QED
    BY <2>4 DEF Children
<1>5. /\ DOMAIN child' = Calls /\ DOMAIN child'[c] = DOMAIN child[c] /\ child'[c][i] = x
      /\ \A j \in DOMAIN child[c] : j # i => child'[c][j] = child[c][j]
      /\ \A d \in Calls : d # c => child'[d] = child[d]
  BY <1>1 DEF Turns
<1>6. ASSUME NEW d \in Calls PROVE CallOk(d)'
  <2>1. CASE d = c
    <3>1. DOMAIN call'[c] = {"at", "prompts", "fold"} /\ AnsweredOf(call[c])'
      BY <1>1 DEF CallOk, AnsweredOf, Turns
    <3>2. ChildrenMatch(c)'
      BY <1>2, <1>3, <1>5 DEF ChildrenMatch, NoTerse, Turns
    <3>3. \A j \in DOMAIN child'[c] : ChildOk(child[c][j])'
      <4>1. ASSUME NEW j \in DOMAIN child'[c] PROVE ChildOk(child'[c][j])
        <5>1. CASE j = i
          BY <1>5, <5>1
        <5>2. CASE j # i
          BY <1>2, <1>5, <4>1, <5>2 DEF CallOk
        <5>3. QED
          BY <5>1, <5>2
      <4>2. QED
        BY <4>1 DEF ChildOk, Tells
    <3>4. FoldOk(c)'
      BY <1>3 DEF FoldOk, Turns
    <3>5. QED
      BY <2>1, <3>1, <3>2, <3>3, <3>4 DEF CallOk
  <2>2. CASE d # c
    <3>1. child'[d] = child[d] /\ call'[d] = call[d] /\ CallOk(d)
      BY <1>1, <1>5, <2>2 DEF Turns
    <3>2. DOMAIN call'[d] = {"at", "prompts", "fold"} /\ AnsweredOf(call[d])' /\ ChildrenMatch(d)' /\ FoldOk(d)'
      BY <3>1 DEF CallOk, AnsweredOf, ChildrenMatch, NoTerse, FoldOk
    <3>3. \A j \in DOMAIN child'[d] : ChildOk(child'[d][j])
      BY <3>1 DEF CallOk
    <3>4. QED
      BY <3>2, <3>3 DEF CallOk
  <2>3. QED
    BY <2>1, <2>2
<1>7. CallsOk'
  BY <1>1, <1>5, <1>6 DEF CallsOk, Turns
<1>8. \A k \in Calls \X (1 .. MaxFanout) : k \in Children' <=> k \in Children
  BY <1>5 DEF Children
<1>9. ASSUME NEW k \in Calls \X (1 .. MaxFanout), k # <<c, i>>
      PROVE  k \in UnderWay' <=> k \in UnderWay
  <2>1. PICK d \in Calls, j \in 1 .. MaxFanout : k = <<d, j>>
    OBVIOUS
  <2>2. k[1] = d /\ k[2] = j
    BY <2>1
  <2>3. d # c \/ j # i
    BY <1>9, <2>1
  <2>4. j \in DOMAIN child[d] => child'[d][j] = child[d][j]
    BY <1>5, <2>3
  <2>5. k \in Children => j \in DOMAIN child[d]
    BY <2>2 DEF Children
  <2>6. QED
    BY <1>8, <2>2, <2>4, <2>5 DEF UnderWay
<1>10. <<c, i>> \in UnderWay' <=> x.at = "spawned"
  <2>1. <<c, i>>[1] = c /\ <<c, i>>[2] = i /\ <<c, i>> \in Calls \X (1 .. MaxFanout)
    BY <1>4
  <2>2. <<c, i>> \in Children'
    BY <1>4, <1>8, <2>1
  <2>3. QED
    BY <1>5, <2>1, <2>2 DEF UnderWay
<1>11. UnderWay \subseteq Calls \X (1 .. MaxFanout) /\ UnderWay' \subseteq Calls \X (1 .. MaxFanout)
       /\ <<c, i>> \in Calls \X (1 .. MaxFanout)
  BY <1>4 DEF UnderWay, Children
<1>12. UnderWay' = IF x.at = "spawned" THEN UnderWay \union {<<c, i>>} ELSE UnderWay \ {<<c, i>>}
  <2>1. PICK p : p = <<c, i>>
    OBVIOUS
  <2>2. QED
    BY <1>9, <1>10, <1>11, <2>1
<1>13. QED
  BY <1>3, <1>4, <1>7, <1>12

LEMMA UnderWayIs ==
  ASSUME NEW c \in Calls, NEW i, <<c, i>> \in UnderWay
  PROVE  i \in DOMAIN child[c] /\ child[c][i].at = "spawned"
<1>1. <<c, i>>[1] = c /\ <<c, i>>[2] = i
  OBVIOUS
<1>2. QED
  BY <1>1 DEF UnderWay, Children

LEMMA StartsKeep ==
  ASSUME FanoutInv, NEW c \in Calls, NEW i, Start(c, i)
  PROVE  FanoutInv'
<1>1. CallsOk /\ SlotsOk(waiting, held, UnderWay)
  BY DEF FanoutInv
<1>2. /\ i \in DOMAIN child[c] /\ child[c][i].at = "new" /\ call' = call
      /\ child' = [child EXCEPT ![c][i].at = "spawned"] /\ Acquire(<<c, i>>, waiting, held)
  BY DEF Start
<1>3. PICK x : x = [child[c][i] EXCEPT !.at = "spawned"]
  OBVIOUS
<1>4. ChildOk(child[c][i])
  BY <1>1, <1>2 DEF CallsOk, CallOk
<1>5. ChildOk(x) /\ x.at = "spawned"
  BY <1>2, <1>3, <1>4 DEF ChildOk
<1>6. Turns(c, i, x)
  BY <1>1, <1>2, <1>3 DEF Turns, CallsOk
<1>7. CallsOk' /\ UnderWay' = UnderWay \union {<<c, i>>}
  <2>1. child[c][i].at \in {"new", "spawned"}
    BY <1>2
  <2>2. CallsOk' /\ UnderWay' = IF x.at = "spawned" THEN UnderWay \union {<<c, i>>} ELSE UnderWay \ {<<c, i>>}
    BY <1>1, <1>2, <1>5, <1>6, <2>1, ChildChanges
  <2>3. QED
    BY <1>5, <2>2
<1>8. <<c, i>> \notin UnderWay
  BY <1>2, UnderWayIs
<1>9. SlotsOk(waiting', held', UnderWay \union {<<c, i>>})
  BY <1>1, <1>2, <1>8, AcquireKeeps
<1>10. QED
  BY <1>7, <1>9 DEF FanoutInv

LEMMA SeenDiffer ==
  /\ <<"good">> \notin {<<"bad", "bad">>, <<"raise">>, <<"bad", "raise">>}
  /\ <<"bad", "good">> \notin {<<"bad", "bad">>, <<"raise">>, <<"bad", "raise">>}
  /\ <<"bad", "bad">> \notin {<<"raise">>, <<"bad", "raise">>}
  OBVIOUS

\* How an attempt goes on, or ends, given what the child has seen.
LEMMA VerdictIs ==
  ASSUME NEW seen \in {<<>>, <<"bad">>}, NEW outcome \in Outcomes, NEW report, NEW share
  PROVE  LET s == Verdict(seen, outcome, report, share)
         IN  /\ s = NoSection => Append(seen, outcome) = <<"bad">>
             /\ s # NoSection => Tells(Append(seen, outcome), s)
<1>1. PICK s : s = Verdict(seen, outcome, report, share)
  OBVIOUS
<1>2. /\ outcome = "good" => s.note = "none"
      /\ outcome = "raise" => s = ChildFailed
      /\ outcome = "bad" => s = IF seen = <<>> THEN NoSection ELSE NoUsableReport
  BY <1>1 DEF Verdict, Report
<1>3. outcome \in {"good", "bad", "raise"}
  BY DEF Outcomes
<1>4. NoSection.note = "pending" /\ ChildFailed.note = "child failed" /\ NoUsableReport.note = "no usable report"
  BY DEF NoSection, ChildFailed, NoUsableReport, Note
<1>5. Append(<<>>, outcome) = <<outcome>> /\ Append(<<"bad">>, outcome) = <<"bad", outcome>>
  <2>1. <<>> \in Seq(Outcomes) /\ <<"bad">> \in Seq(Outcomes) /\ Len(<<>>) = 0 /\ Len(<<"bad">>) = 1
    BY DEF Outcomes
  <2>2. outcome \in Outcomes
    OBVIOUS
  <2>3. Append(<<>>, outcome) = <<outcome>>
    OBVIOUS
  <2>4. Append(<<"bad">>, outcome) = <<"bad", outcome>>
    <3>1. PICK a : a = Append(<<"bad">>, outcome)
      OBVIOUS
    <3>2. a \in Seq(Outcomes) /\ Len(a) = 2 /\ a[1] = "bad" /\ a[2] = outcome
      BY <2>1, <2>2, <3>1, AppendProperties
    <3>3. a = <<"bad", outcome>>
      BY <3>2
    <3>4. QED
      BY <3>1, <3>3
  <2>5. QED
    BY <2>3, <2>4
<1>6. PICK next : next = Append(seen, outcome)
  OBVIOUS
<1>7. CASE outcome = "good"
  <2>1. next \in {<<"good">>, <<"bad", "good">>} /\ s.note = "none"
    BY <1>2, <1>5, <1>6, <1>7
  <2>2. s # NoSection /\ Tells(next, s)
    BY <1>4, <2>1, SeenDiffer DEF Tells
  <2>3. QED
    BY <1>1, <1>6, <2>2
<1>8. CASE outcome = "raise"
  <2>1. next \in {<<"raise">>, <<"bad", "raise">>} /\ s.note = "child failed"
    BY <1>2, <1>4, <1>5, <1>6, <1>8
  <2>2. s # NoSection /\ Tells(next, s)
    BY <1>4, <2>1, SeenDiffer DEF Tells
  <2>3. QED
    BY <1>1, <1>6, <2>2
<1>9. CASE outcome = "bad" /\ seen = <<"bad">>
  <2>1. next = <<"bad", "bad">> /\ s.note = "no usable report"
    BY <1>2, <1>4, <1>5, <1>6, <1>9
  <2>2. s # NoSection /\ Tells(next, s)
    BY <1>4, <2>1, SeenDiffer DEF Tells
  <2>3. QED
    BY <1>1, <1>6, <2>2
<1>10. CASE outcome = "bad" /\ seen = <<>>
  <2>1. next = <<"bad">> /\ s = NoSection
    BY <1>2, <1>5, <1>6, <1>10
  <2>2. QED
    BY <1>1, <1>6, <2>1
<1>11. QED
  BY <1>3, <1>7, <1>8, <1>9, <1>10

LEMMA AttemptsKeep ==
  ASSUME FanoutInv, NEW c \in Calls, NEW i, EndAttempt(c, i)
  PROVE  FanoutInv'
<1>1. CallsOk /\ SlotsOk(waiting, held, UnderWay)
  BY DEF FanoutInv
<1> DEFINE k == <<c, i>>
<1>2. k \in held /\ k \in UnderWay
  BY <1>1 DEF EndAttempt, SlotsOk
<1>3. i \in DOMAIN child[c] /\ child[c][i].at = "spawned"
  BY <1>2, UnderWayIs
<1>4. PICK outcome \in Outcomes, report \in Reports :
        LET s == Verdict(child[c][i].seen, outcome, report, Share(c))
        IN  /\ outcome # "good" => report = CHOOSE r \in Reports : TRUE
            /\ child' = [child EXCEPT ![c][i].at = IF s = NoSection THEN @ ELSE "done",
                                      ![c][i].seen = Append(@, outcome), ![c][i].section = s]
            /\ IF s = NoSection THEN Acquire(<<c, i>>, WaitersAfter(<<c, i>>), HoldersAfter(<<c, i>>))
               ELSE waiting' = WaitersAfter(<<c, i>>) /\ held' = HoldersAfter(<<c, i>>)
  BY DEF EndAttempt
<1>. PICK s : s = Verdict(child[c][i].seen, outcome, report, Share(c))
  OBVIOUS
<1>5. PICK x : x = [child[c][i] EXCEPT !.at = IF s = NoSection THEN @ ELSE "done", !.seen = Append(@, outcome), !.section = s]
  OBVIOUS
<1>6. PICK seen : seen = child[c][i].seen
  OBVIOUS
<1>7. ChildOk(child[c][i]) /\ seen \in {<<>>, <<"bad">>}
  BY <1>1, <1>3, <1>6 DEF CallsOk, CallOk, ChildOk
<1>8. /\ s = NoSection => Append(seen, outcome) = <<"bad">>
      /\ s # NoSection => Tells(Append(seen, outcome), s)
  BY <1>6, <1>7, VerdictIs
<1>9. /\ DOMAIN x = {"at", "seen", "section"} /\ x.seen = Append(seen, outcome) /\ x.section = s
      /\ x.at = IF s = NoSection THEN "spawned" ELSE "done"
  BY <1>3, <1>5, <1>6, <1>7 DEF ChildOk
<1>10. ChildOk(x)
  BY <1>8, <1>9 DEF ChildOk
<1>11. Turns(c, i, x)
  <2>1. call' = call
    BY DEF EndAttempt
  <2>2. child' = [child EXCEPT ![c][i] = x]
    BY <1>4, <1>5
  <2>3. QED
    BY <1>1, <1>3, <2>1, <2>2 DEF Turns, CallsOk
<1>12. CallsOk' /\ UnderWay' = IF x.at = "spawned" THEN UnderWay \union {k} ELSE UnderWay \ {k}
  <2>1. child[c][i].at \in {"new", "spawned"}
    BY <1>3
  <2>2. QED
    BY <1>1, <1>3, <1>10, <1>11, <2>1, ChildChanges
<1>13. IF s = NoSection THEN Acquire(k, WaitersAfter(k), HoldersAfter(k))
       ELSE waiting' = WaitersAfter(k) /\ held' = HoldersAfter(k)
  BY <1>4
<1> HIDE DEF k
<1>14. PICK w, h : w = WaitersAfter(k) /\ h = HoldersAfter(k)
  OBVIOUS
<1>15. SlotsOk(w, h, UnderWay \ {k})
  BY <1>1, <1>2, <1>14, LeaveKeeps
<1>16. CASE s = NoSection
  <2>1. Acquire(k, w, h)
    BY <1>14, <1>16, <1>13
  <2>2. SlotsOk(waiting', held', (UnderWay \ {k}) \union {k})
    BY <1>15, <2>1, AcquireKeeps
  <2>3. UnderWay' = (UnderWay \ {k}) \union {k}
    BY <1>2, <1>9, <1>12, <1>16
  <2>4. QED
    BY <1>12, <2>2, <2>3 DEF FanoutInv
<1>17. CASE s # NoSection
  <2>1. waiting' = w /\ held' = h /\ UnderWay' = UnderWay \ {k}
    BY <1>9, <1>12, <1>14, <1>17, <1>13
  <2>2. QED
    BY <1>12, <1>15, <2>1 DEF FanoutInv
<1>18. QED
  BY <1>16, <1>17

LEMMA CancelKeeps ==
  ASSUME FanoutInv, NEW c \in Calls, NEW i, Cancel(c, i)
  PROVE  FanoutInv'
<1>1. CallsOk /\ SlotsOk(waiting, held, UnderWay)
  BY DEF FanoutInv
<1> DEFINE k == <<c, i>>
<1>2. /\ i \in DOMAIN child[c] /\ child[c][i].at = "spawned" /\ call' = call
      /\ child' = [child EXCEPT ![c][i].at = "cancelled"]
      /\ waiting' = WaitersAfter(k) /\ held' = HoldersAfter(k)
  BY DEF Cancel
<1>3. PICK x : x = [child[c][i] EXCEPT !.at = "cancelled"]
  OBVIOUS
<1>4. ChildOk(x) /\ x.at = "cancelled"
  <2>1. ChildOk(child[c][i])
    BY <1>1, <1>2 DEF CallsOk, CallOk
  <2>2. QED
    BY <1>3, <2>1 DEF ChildOk
<1>5. Turns(c, i, x)
  BY <1>1, <1>2, <1>3 DEF Turns, CallsOk
<1>6. CallsOk' /\ k \in Children /\ UnderWay' = UnderWay \ {k}
  <2>1. child[c][i].at \in {"new", "spawned"}
    BY <1>2
  <2>2. /\ CallsOk' /\ k \in Children
        /\ UnderWay' = IF x.at = "spawned" THEN UnderWay \union {k} ELSE UnderWay \ {k}
    BY <1>1, <1>2, <1>4, <1>5, <2>1, ChildChanges
  <2>3. QED
    BY <1>4, <2>2
<1>7. k \in UnderWay
  <2>1. k[1] = c /\ k[2] = i
    OBVIOUS
  <2>2. QED
    BY <1>2, <1>6, <2>1 DEF UnderWay
<1> HIDE DEF k
<1>8. SlotsOk(WaitersAfter(k), HoldersAfter(k), UnderWay \ {k})
  BY <1>1, <1>7, LeaveKeeps
<1>9. QED
  BY <1>2, <1>6, <1>8 DEF FanoutInv

LEMMA FoldKeeps ==
  ASSUME FanoutInv, NEW c \in Calls, Fold(c)
  PROVE  FanoutInv'
<1>1. CallsOk /\ SlotsOk(waiting, held, UnderWay)
  BY DEF FanoutInv
<1>2. /\ call[c].at = "gather" /\ \A i \in DOMAIN child[c] : child[c][i].at = "done"
      /\ call' = [call EXCEPT ![c].at = "folded", ![c].fold = [i \in DOMAIN child[c] |-> child[c][i].section]]
      /\ UNCHANGED <<child, waiting, held>>
  BY DEF Fold
<1>3. DOMAIN call = Calls /\ \A d \in Calls : CallOk(d)
  BY <1>1 DEF CallsOk
<1>4. DOMAIN call[c] = {"at", "prompts", "fold"}
  BY <1>3 DEF CallOk
<1>5. /\ DOMAIN call' = Calls /\ call'[c].at = "folded" /\ call'[c].prompts = call[c].prompts
      /\ DOMAIN call'[c] = {"at", "prompts", "fold"}
      /\ call'[c].fold = [i \in DOMAIN child[c] |-> child[c][i].section]
      /\ \A d \in Calls : d # c => call'[d] = call[d]
  BY <1>2, <1>3, <1>4
<1>6. ASSUME NEW d \in Calls PROVE CallOk(d)'
  <2>1. CallOk(d) /\ child'[d] = child[d]
    BY <1>2, <1>3
  <2>2. \A i \in DOMAIN child'[d] : ChildOk(child'[d][i])
    BY <2>1 DEF CallOk
  <2>3. CASE d = c
    <3>1. AnsweredOf(call[c])' /\ ChildrenMatch(c)'
      BY <1>2, <1>5, <2>1, <2>3 DEF CallOk, AnsweredOf, ChildrenMatch, NoTerse
    <3>2. FoldOk(c)'
      BY <1>2, <1>5, <2>1, <2>3 DEF CallOk, ChildrenMatch, FoldOk
    <3>3. QED
      BY <1>5, <2>2, <2>3, <3>1, <3>2 DEF CallOk
  <2>4. CASE d # c
    <3>1. call'[d] = call[d]
      BY <1>5, <2>4
    <3>2. DOMAIN call'[d] = {"at", "prompts", "fold"} /\ AnsweredOf(call[d])' /\ ChildrenMatch(d)' /\ FoldOk(d)'
      BY <2>1, <3>1 DEF CallOk, AnsweredOf, ChildrenMatch, NoTerse, FoldOk
    <3>3. QED
      BY <2>2, <3>2 DEF CallOk
  <2>5. QED
    BY <2>3, <2>4
<1>7. CallsOk'
  BY <1>1, <1>2, <1>5, <1>6 DEF CallsOk
<1>8. UnderWay' = UnderWay
  BY <1>2 DEF UnderWay, Children
<1>9. QED
  BY <1>1, <1>2, <1>7, <1>8 DEF FanoutInv

LEMMA NewChildIs == ChildOk(NewChild) /\ NewChild.at = "new"
  BY DEF ChildOk, NewChild, Tells

\* The parent model answers when no call is under way, so every slot is free.
LEMMA RespondKeeps ==
  ASSUME FanoutInv, Respond
  PROVE  FanoutInv'
<1>1. CallsOk /\ SlotsOk(waiting, held, UnderWay)
  BY DEF FanoutInv
<1>2. \A c \in Calls : call[c].at # "gather"
  BY DEF Respond
<1>3. UnderWay = {}
  <2>1. ASSUME NEW k \in UnderWay PROVE FALSE
    <3>1. PICK c \in Calls, i \in 1 .. MaxFanout : k = <<c, i>>
      BY DEF UnderWay, Children
    <3>2. i \in DOMAIN child[c] /\ child[c][i].at = "spawned"
      BY <3>1, UnderWayIs
    <3>3. CallOk(c)
      BY <1>1 DEF CallsOk
    <3>4. QED
      BY <1>2, <3>2, <3>3 DEF CallOk, AnsweredOf, ChildrenMatch, FoldOk
  <2>2. QED
    BY <2>1
<1>4. waiting = <<>> /\ held = {} /\ UNCHANGED <<waiting, held>>
  BY <1>1, <1>3 DEF SlotsOk, Respond
<1>5. PICK C \in SUBSET Calls, prompts \in [Calls -> PromptLists] :
        LET bad == {c \in C : Rejected(prompts[c])}
        IN  /\ \A c \in Calls \ C : prompts[c] = <<>>
            /\ call' = [c \in Calls |->
                  IF c \notin C THEN Idle
                  ELSE [at |-> IF c \in bad THEN "rejected" ELSE "gather", prompts |-> prompts[c], fold |-> <<>>]]
            /\ child' = [c \in Calls |-> IF c \in C \ bad THEN [i \in DOMAIN prompts[c] |-> NewChild] ELSE <<>>]
  BY DEF Respond
<1> DEFINE bad == {c \in C : Rejected(prompts[c])}
<1>6. ASSUME NEW c \in Calls
      PROVE  CallOk(c)' /\ \A i \in DOMAIN child'[c] : child'[c][i].at # "spawned"
  <2>1. prompts[c] \in PromptLists
    BY <1>5
  <2>2. CASE c \notin C
    <3>1. call'[c] = Idle /\ child'[c] = <<>>
      BY <1>5, <2>2
    <3>2. <<>> \in PromptLists
      BY <1>5, <2>1, <2>2
    <3>3. QED
      BY <3>1, <3>2 DEF CallOk, AnsweredOf, ChildrenMatch, FoldOk, Idle
  <2>3. CASE c \in bad
    <3>1. call'[c] = [at |-> "rejected", prompts |-> prompts[c], fold |-> <<>>] /\ child'[c] = <<>>
      BY <1>5, <2>3
    <3>2. QED
      BY <2>1, <3>1 DEF CallOk, AnsweredOf, ChildrenMatch, FoldOk
  <2>4. CASE c \in C \ bad
    <3>1. /\ call'[c] = [at |-> "gather", prompts |-> prompts[c], fold |-> <<>>]
          /\ child'[c] = [i \in DOMAIN prompts[c] |-> NewChild]
      BY <1>5, <2>4
    <3>2. prompts[c] # <<>> /\ ~(Len(prompts[c]) > MaxFanout) /\ \A i \in DOMAIN prompts[c] : prompts[c][i] # "terse"
      BY <1>5, <2>4 DEF Rejected
    <3>3. Len(prompts[c]) \in 1 .. MaxFanout
      <4>1. PICK n \in 0 .. MaxFanout + 1 : prompts[c] \in [1 .. n -> Prompts]
        BY <2>1 DEF PromptLists
      <4>2. Len(prompts[c]) = n /\ n # 0
        BY <3>2, <4>1
      <4>3. QED
        BY <3>2, <4>1, <4>2, FanoutAssumption
    <3>4. AnsweredOf(call[c])'
      BY <2>1, <3>1 DEF AnsweredOf
    <3>5. ChildrenMatch(c)' /\ FoldOk(c)'
      BY <3>1, <3>2, <3>3 DEF ChildrenMatch, NoTerse, FoldOk
    <3>6. \A i \in DOMAIN child'[c] : child'[c][i] = NewChild
      BY <3>1
    <3>7. \A i \in DOMAIN child'[c] : ChildOk(child'[c][i]) /\ child'[c][i].at # "spawned"
      BY <3>6, NewChildIs
    <3>8. QED
      BY <3>1, <3>4, <3>5, <3>7 DEF CallOk
  <2>5. QED
    BY <1>5, <2>2, <2>3, <2>4
<1>7. CallsOk'
  BY <1>5, <1>6 DEF CallsOk
<1>8. UnderWay' = {}
  <2>1. ASSUME NEW k \in UnderWay' PROVE FALSE
    <3>1. PICK c \in Calls, i \in 1 .. MaxFanout : k = <<c, i>>
      BY <2>1 DEF UnderWay, Children
    <3>2. k[1] = c /\ k[2] = i
      BY <3>1
    <3>3. i \in DOMAIN child'[c] /\ child'[c][i].at = "spawned"
      BY <2>1, <3>2 DEF UnderWay, Children
    <3>4. QED
      BY <1>6, <3>3
  <2>2. QED
    BY <2>1
<1>9. QED
  BY <1>4, <1>7, <1>8, EmptySlots DEF FanoutInv

LEMMA FanoutStep == FanoutInv /\ [FanoutNext]_fanoutVars => FanoutInv'
<1> SUFFICES ASSUME FanoutInv, [FanoutNext]_fanoutVars PROVE FanoutInv'
  OBVIOUS
<1>1. CASE UNCHANGED fanoutVars
  <2>1. UNCHANGED <<call, child, waiting, held>>
    BY <1>1 DEF fanoutVars
  <2>2. UnderWay' = UnderWay
    BY <2>1 DEF UnderWay, Children
  <2>3. CallsOk'
    <3>1. ASSUME NEW c \in Calls PROVE CallOk(c)'
      <4>1. CallOk(c)
        BY DEF FanoutInv, CallsOk
      <4>2. QED
        BY <2>1, <4>1 DEF CallOk, AnsweredOf, ChildrenMatch, NoTerse, FoldOk
    <3>2. QED
      BY <2>1, <3>1 DEF FanoutInv, CallsOk
  <2>4. QED
    BY <2>1, <2>2, <2>3 DEF FanoutInv
<1>2. QED
  BY <1>1, RespondKeeps, FoldKeeps, StartsKeep, AttemptsKeep, CancelKeeps DEF FanoutNext

\* The inductive invariant of a fan-out: what each call, child and waiter is at.
THEOREM FanoutSafety == FanoutSpec => []FanoutInv
<1>1. QED
  BY FanoutStarts, FanoutStep, PTL DEF FanoutSpec

\* For any number of calls, prompts, slots and responses, and however the attempts end or are
\* cancelled: no slot is lost or given twice, and a lazy call starts no child (tools/agent.py,
\* _semaphore, _run_attempt).
THEOREM FanoutSlotsExact == FanoutSpec => []SlotsExact
<1>1. FanoutInv => SlotsExact
  BY FanoutInvImplies
<1>2. QED
  BY <1>1, FanoutSafety, PTL

\* What a fold says of each prompt is what its own child did (tools/agent.py, _spawn_child).
THEOREM FanoutFoldIsTrue == FanoutSpec => []FoldTellsTheTruth
<1>1. FanoutInv => FoldTellsTheTruth
  BY FanoutInvImplies
<1>2. QED
  BY <1>1, FanoutSafety, PTL
=============================================================================
