------------------------ MODULE SearchResultsProofs ------------------------
(***************************************************************************)
(* What a search answers is what was staged: proofs about SearchResults.   *)
(*                                                                         *)
(* The invariant ResultsInv relates the event files to what the histograms *)
(* have counted: FilesInv says what an event file can have, and that it is *)
(* one event ahead of the histogram at most, DoneInv that a file is        *)
(* searched once, HistoInv that a count of a histogram is the number of    *)
(* the collected events of its batch, key and bucket, and                  *)
(* AnswersInv that no file is searched after an answer.  Most of the work  *)
(* is about the operators: Those and FlattenSeq (which elements they have, *)
(* and in which order), SumFunction (the size of sets that have nothing in *)
(* common), and the bucket of a time.  What a recursive function is for    *)
(* every length is proved by Induction over a set of numbers.              *)
(***************************************************************************)
EXTENDS SearchResults, FiniteSetTheorems, WellFoundedInduction, TLAPS

-----------------------------------------------------------------------------
(* Numbers *)

\* A set of numbers has a least one.
LEMMA LeastOf == ASSUME NEW T \in SUBSET Nat, T # {} PROVE \E m \in T : \A k \in T : m <= k
<1>. DEFINE R == {p \in Nat \X Nat : p[1] < p[2]}
<1>1. R = OpToRel(<, Nat)
  BY Zenon DEF OpToRel
<1>2. IsWellFoundedOn(R, Nat)
  BY <1>1, NatLessThanWellFounded
<1>. HIDE DEF R
<1>3. PICK m \in T : \A k \in T : ~ (<<k, m>> \in R)
  BY <1>2, WFMin
<1>4. \A k \in T : ~ (k < m)
  BY <1>3 DEF R
<1>. QED
  BY <1>4

\* Induction, for a set of numbers.
LEMMA Induction == ASSUME NEW S \in SUBSET Nat, 0 \in S, \A n \in S : n + 1 \in S PROVE S = Nat
<1>. DEFINE T == Nat \ S
<1>1. SUFFICES ASSUME T # {} PROVE FALSE
  OBVIOUS
<1>2. PICK m \in T : \A k \in T : m <= k
  BY <1>1, LeastOf
<1>3. m # 0 /\ m \in Nat
  OBVIOUS
<1>4. m - 1 \in Nat /\ m - 1 \notin T
  BY <1>2, <1>3
<1>. QED
  BY <1>4

-----------------------------------------------------------------------------
(* The elements of a sequence that are in a set *)

\* t has those of the first m elements of s that are in S, in their order.
Chosen(t, s, m, S) ==
  /\ Len(t) \in Nat /\ t = [j \in 1 .. Len(t) |-> t[j]]
  /\ \E at \in [1 .. Len(t) -> 1 .. m] :
       /\ \A j \in 1 .. Len(t) : t[j] = s[at[j]] /\ t[j] \in S
       /\ \A i, j \in 1 .. Len(t) : i < j => at[i] < at[j]
       /\ \A i \in 1 .. m : s[i] \in S => \E j \in 1 .. Len(t) : at[j] = i

LEMMA ChosenNext ==
  ASSUME NEW T, NEW s \in Seq(T), NEW S, NEW m \in Nat, m + 1 <= Len(s), NEW t \in Seq(T), Chosen(t, s, m, S)
  PROVE  Chosen(IF s[m + 1] \in S THEN Append(t, s[m + 1]) ELSE t, s, m + 1, S)
<1>1. PICK at \in [1 .. Len(t) -> 1 .. m] :
        /\ \A j \in 1 .. Len(t) : t[j] = s[at[j]] /\ t[j] \in S
        /\ \A i, j \in 1 .. Len(t) : i < j => at[i] < at[j]
        /\ \A i \in 1 .. m : s[i] \in S => \E j \in 1 .. Len(t) : at[j] = i
  BY DEF Chosen
<1>2. Len(t) \in Nat /\ \A j \in 1 .. Len(t) : at[j] \in 1 .. m
  OBVIOUS
<1>3. CASE s[m + 1] \notin S
  <2>1. at \in [1 .. Len(t) -> 1 .. m + 1]
    BY <1>2
  <2>2. \A i \in 1 .. m + 1 : s[i] \in S => \E j \in 1 .. Len(t) : at[j] = i
    BY <1>1, <1>3
  <2>3. Chosen(t, s, m + 1, S)
    BY <1>1, <2>1, <2>2 DEF Chosen
  <2>. QED
    BY <1>3, <2>3
<1>4. CASE s[m + 1] \in S
  <2>. DEFINE u == Append(t, s[m + 1])
              on == [j \in 1 .. Len(t) + 1 |-> IF j = Len(t) + 1 THEN m + 1 ELSE at[j]]
  <2>1. /\ u \in Seq(T) /\ Len(u) = Len(t) + 1 /\ u[Len(t) + 1] = s[m + 1]
        /\ \A j \in 1 .. Len(t) : u[j] = t[j]
        /\ s[m + 1] \in T
    OBVIOUS
  <2>2. /\ on \in [1 .. Len(t) + 1 -> 1 .. m + 1] /\ on[Len(t) + 1] = m + 1
        /\ \A j \in 1 .. Len(t) : on[j] = at[j]
    BY <1>2
  <2>. HIDE DEF u, on
  <2>3. \A j \in 1 .. Len(u) : j = Len(t) + 1 \/ j \in 1 .. Len(t)
    BY <1>2, <2>1
  <2>4. \A j \in 1 .. Len(u) : u[j] = s[on[j]] /\ u[j] \in S
    BY <1>1, <1>4, <2>1, <2>2, <2>3
  <2>5. \A i, j \in 1 .. Len(u) : i < j => on[i] < on[j]
    <3>. SUFFICES ASSUME NEW i \in 1 .. Len(u), NEW j \in 1 .. Len(u), i < j PROVE on[i] < on[j]
      OBVIOUS
    <3>1. i \in 1 .. Len(t) /\ on[i] = at[i]
      BY <1>2, <2>1, <2>2
    <3>2. CASE j = Len(t) + 1
      BY <1>2, <2>2, <3>1, <3>2
    <3>3. CASE j \in 1 .. Len(t)
      BY <1>1, <2>2, <3>1, <3>3
    <3>. QED
      BY <2>3, <3>2, <3>3
  <2>6. \A i \in 1 .. m + 1 : s[i] \in S => \E j \in 1 .. Len(u) : on[j] = i
    <3>. SUFFICES ASSUME NEW i \in 1 .. m + 1, s[i] \in S PROVE \E j \in 1 .. Len(u) : on[j] = i
      OBVIOUS
    <3>1. CASE i = m + 1
      BY <1>2, <2>1, <2>2, <3>1
    <3>2. CASE i \in 1 .. m
      <4>1. PICK j \in 1 .. Len(t) : at[j] = i
        BY <1>1, <3>2
      <4>. QED
        BY <1>2, <2>1, <2>2, <4>1
    <3>. QED
      BY <3>1, <3>2
  <2>7. on \in [1 .. Len(u) -> 1 .. m + 1] /\ Len(u) \in Nat /\ u = [j \in 1 .. Len(u) |-> u[j]]
    BY <1>2, <2>1, <2>2
  <2>8. Chosen(u, s, m + 1, S)
    BY <2>4, <2>5, <2>6, <2>7 DEF Chosen
  <2>. QED
    BY <1>4, <2>8 DEF u
<1>. QED
  BY <1>3, <1>4

\* Those(s, S) are the elements of s that are in S.
LEMMA ThoseAre ==
  ASSUME NEW T, NEW s \in Seq(T), NEW S
  PROVE  Those(s, S) \in Seq(T) /\ Chosen(Those(s, S), s, Len(s), S)
<1>. DEFINE n == Len(s)
            Next1(h, i) == IF i = 0 THEN <<>> ELSE IF s[i] \in S THEN Append(h[i - 1], s[i]) ELSE h[i - 1]
            Is(h) == h = [i \in 0 .. n |-> Next1(h, i)]
            Upto(h, m) == \A i \in 0 .. m : h[i] = Next1(h, i)
<1>1. Those(s, S) = (CHOOSE h : Is(h))[n]
  BY Zenon DEF Those
<1>2. n \in Nat /\ \A i \in 1 .. n : s[i] \in T
  OBVIOUS
<1>. HIDE DEF n
<1>3. \E h : Is(h)
  <2>. DEFINE Some(m) == \E h \in [0 .. m -> Seq(T)] : Upto(h, m)
              M == {m \in Nat : m <= n => Some(m)}
  <2>1. 0 \in M
    <3>. DEFINE h == [i \in 0 .. 0 |-> <<>>]
    <3>1. h \in [0 .. 0 -> Seq(T)] /\ Upto(h, 0)
      OBVIOUS
    <3>. QED
      BY <3>1
  <2>2. ASSUME NEW m \in M, m + 1 <= n PROVE Some(m + 1)
    <3>0. Some(m)
      <4>. HIDE DEF Some
      <4>. QED
        BY <1>2, <2>2
    <3>1. PICK g \in [0 .. m -> Seq(T)] : Upto(g, m)
      BY <3>0
    <3>. DEFINE h == [i \in 0 .. m + 1 |-> IF i = m + 1 THEN Next1(g, m + 1) ELSE g[i]]
    <3>2. m \in Nat /\ m + 1 # 0 /\ s[m + 1] \in T /\ g[m] \in Seq(T) /\ (m + 1) - 1 = m
      BY <1>2, <2>2
    <3>3. Next1(g, m + 1) \in Seq(T)
      BY <3>2
    <3>4. h \in [0 .. m + 1 -> Seq(T)] /\ h[m + 1] = Next1(g, m + 1) /\ \A i \in 0 .. m : h[i] = g[i]
      <4>. HIDE DEF Next1
      <4>. QED
        BY <3>2, <3>3
    <3>. HIDE DEF h
    <3>5. Upto(h, m + 1)
      <4>. SUFFICES ASSUME NEW i \in 0 .. m + 1 PROVE h[i] = Next1(h, i)
        OBVIOUS
      <4>1. CASE i = m + 1
        BY <3>2, <3>4, <4>1
      <4>2. CASE i = 0
        BY <3>1, <3>2, <3>4, <4>2
      <4>3. CASE i \in 1 .. m
        <5>1. i - 1 \in 0 .. m /\ i \in 0 .. m
          BY <3>2, <4>3
        <5>. QED
          BY <3>1, <3>4, <5>1
      <4>. QED
        BY <3>2, <4>1, <4>2, <4>3
    <3>. QED
      BY <3>4, <3>5
  <2>. HIDE DEF Some
  <2>3. \A m \in M : m + 1 \in M
    BY <2>2
  <2>4. M = Nat
    BY <2>1, <2>3, Induction
  <2>5. Some(n)
    BY <1>2, <2>4
  <2>. HIDE DEF Upto
  <2>6. PICK h \in [0 .. n -> Seq(T)] : Upto(h, n)
    BY <2>5 DEF Some
  <2>7. Is(h)
    BY <2>6 DEF Upto
  <2>. QED
    BY <2>7
<1>. HIDE DEF Is
<1>4. PICK h : Is(h) /\ Those(s, S) = h[n]
  BY <1>1, <1>3
<1>5. \A i \in 0 .. n : h[i] = Next1(h, i)
  BY <1>4 DEF Is
<1>. DEFINE M == {m \in Nat : m <= n => h[m] \in Seq(T) /\ Chosen(h[m], s, m, S)}
<1>6. 0 \in M
  <2>1. h[0] = <<>>
    BY <1>2, <1>5
  <2>. QED
    BY <2>1 DEF Chosen
<1>7. ASSUME NEW m \in M, m + 1 <= n PROVE h[m + 1] \in Seq(T) /\ Chosen(h[m + 1], s, m + 1, S)
  <2>1. h[m] \in Seq(T) /\ Chosen(h[m], s, m, S) /\ m \in Nat /\ m + 1 \in 1 .. n
    BY <1>2, <1>7
  <2>2. h[m + 1] = IF s[m + 1] \in S THEN Append(h[m], s[m + 1]) ELSE h[m]
    BY <1>2, <1>5, <2>1
  <2>3. h[m + 1] \in Seq(T)
    BY <1>2, <2>1, <2>2
  <2>. QED
    BY <1>7, <2>1, <2>2, <2>3, ChosenNext DEF n
<1>8. \A m \in M : m + 1 \in M
  BY <1>7
<1>9. M = Nat
  <2>. HIDE DEF M
  <2>1. M \in SUBSET Nat
    BY DEF M
  <2>. QED
    BY <1>6, <1>8, <2>1, Induction
<1>. QED
  BY <1>2, <1>4, <1>9 DEF n

\* What they have, each as often and in the order it has in s.
LEMMA ThoseHave ==
  ASSUME NEW T, NEW s \in Seq(T), NEW S
  PROVE  /\ Range(Those(s, S)) = Range(s) \cap S
         /\ IsInjective(s) => IsInjective(Those(s, S))
<1>. DEFINE t == Those(s, S)
<1>1. PICK at \in [1 .. Len(t) -> 1 .. Len(s)] :
        /\ \A j \in 1 .. Len(t) : t[j] = s[at[j]] /\ t[j] \in S
        /\ \A i, j \in 1 .. Len(t) : i < j => at[i] < at[j]
        /\ \A i \in 1 .. Len(s) : s[i] \in S => \E j \in 1 .. Len(t) : at[j] = i
  BY ThoseAre DEF Chosen
<1>2. t \in Seq(T) /\ Len(t) \in Nat /\ DOMAIN t = 1 .. Len(t) /\ DOMAIN s = 1 .. Len(s) /\ Len(s) \in Nat
  BY ThoseAre
<1>. HIDE DEF t
<1>3. Range(t) \subseteq Range(s) \cap S
  BY <1>1, <1>2 DEF Range
<1>4. Range(s) \cap S \subseteq Range(t)
  <2>. SUFFICES ASSUME NEW i \in 1 .. Len(s), s[i] \in S PROVE s[i] \in Range(t)
    BY <1>2 DEF Range
  <2>1. PICK j \in 1 .. Len(t) : at[j] = i
    BY <1>1
  <2>. QED
    BY <1>1, <1>2, <2>1 DEF Range
<1>5. ASSUME IsInjective(s) PROVE IsInjective(t)
  <2>. SUFFICES ASSUME NEW i \in 1 .. Len(t), NEW j \in 1 .. Len(t), t[i] = t[j] PROVE i = j
    BY <1>2 DEF IsInjective
  <2>1. at[i] \in 1 .. Len(s) /\ at[j] \in 1 .. Len(s) /\ s[at[i]] = s[at[j]]
    BY <1>1
  <2>2. at[i] = at[j] /\ at[i] \in Nat
    BY <1>2, <1>5, <2>1 DEF IsInjective
  <2>3. ~(i < j) /\ ~(j < i)
    BY <1>1, <2>2
  <2>. QED
    BY <1>2, <2>3
<1>. QED
  BY <1>3, <1>4, <1>5 DEF t

-----------------------------------------------------------------------------
(* Sequences one after the other *)

\* t has the first m sequences of seqs, one after the other: in row and col is where each
\* of its n elements is from.
LaidBy(t, n, seqs, m, row, col) ==
  /\ \A k \in 1 .. n : col[k] \in 1 .. Len(seqs[row[k]]) /\ t[k] = seqs[row[k]][col[k]]
  /\ \A k, l \in 1 .. n : k < l => row[k] < row[l] \/ (row[k] = row[l] /\ col[k] < col[l])
  /\ \A i \in 1 .. m : \A j \in 1 .. Len(seqs[i]) : \E k \in 1 .. n : row[k] = i /\ col[k] = j

Laid(t, seqs, m) ==
  \E row \in [1 .. Len(t) -> 1 .. m], col \in [1 .. Len(t) -> Nat] : LaidBy(t, Len(t), seqs, m, row, col)

LEMMA LaidNext ==
  ASSUME NEW T, NEW seqs \in Seq(Seq(T)), NEW m \in Nat, m + 1 <= Len(seqs),
         NEW t \in Seq(T), Laid(t, seqs, m)
  PROVE  Laid(t \o seqs[m + 1], seqs, m + 1)
<1>. DEFINE s == seqs[m + 1]
            u == t \o s
            a == Len(t)
            n == Len(s)
<1>0. PICK row \in [1 .. a -> 1 .. m], col \in [1 .. a -> Nat] : LaidBy(t, a, seqs, m, row, col)
  BY DEF Laid
<1>1.   /\ \A k \in 1 .. a : col[k] \in 1 .. Len(seqs[row[k]]) /\ t[k] = seqs[row[k]][col[k]]
        /\ \A k, l \in 1 .. a : k < l => row[k] < row[l] \/ (row[k] = row[l] /\ col[k] < col[l])
        /\ \A i \in 1 .. m : \A j \in 1 .. Len(seqs[i]) : \E k \in 1 .. a : row[k] = i /\ col[k] = j
  BY <1>0 DEF LaidBy
<1>2. s \in Seq(T)
  OBVIOUS
<1>3. /\ a \in Nat /\ n \in Nat /\ Len(u) = a + n
      /\ \A k \in 1 .. a : u[k] = t[k]
      /\ \A k \in 1 .. n : u[a + k] = s[k]
  BY <1>2
<1>. DEFINE row2 == [k \in 1 .. a + n |-> IF k <= a THEN row[k] ELSE m + 1]
            col2 == [k \in 1 .. a + n |-> IF k <= a THEN col[k] ELSE k - a]
<1>4. \A k \in 1 .. a : row[k] \in 1 .. m /\ col[k] \in Nat
  OBVIOUS
<1>. HIDE DEF a, n, u
<1>5. /\ row2 \in [1 .. a + n -> 1 .. m + 1] /\ col2 \in [1 .. a + n -> Nat]
      /\ \A k \in 1 .. a : row2[k] = row[k] /\ col2[k] = col[k]
      /\ \A k \in 1 .. n : row2[a + k] = m + 1 /\ col2[a + k] = k
  <2>1. ASSUME NEW k \in 1 .. a + n PROVE (k <= a /\ k \in 1 .. a) \/ (~(k <= a) /\ k - a \in Nat)
    BY <1>3
  <2>2. \A k \in 1 .. n : a + k \in 1 .. a + n /\ ~(a + k <= a) /\ (a + k) - a = k
    BY <1>3
  <2>3. row2 \in [1 .. a + n -> 1 .. m + 1]
    BY <1>4, <2>1
  <2>4. col2 \in [1 .. a + n -> Nat]
    BY <1>4, <2>1
  <2>5. \A k \in 1 .. a : row2[k] = row[k] /\ col2[k] = col[k]
    BY <1>3
  <2>6. \A k \in 1 .. n : row2[a + k] = m + 1 /\ col2[a + k] = k
    BY <2>2
  <2>. QED
    BY <2>3, <2>4, <2>5, <2>6
<1>6. \A k \in 1 .. a + n : k \in 1 .. a \/ \E j \in 1 .. n : k = a + j
  <2>. SUFFICES ASSUME NEW k \in 1 .. a + n, k \notin 1 .. a PROVE \E j \in 1 .. n : k = a + j
    OBVIOUS
  <2>1. k - a \in 1 .. n /\ k = a + (k - a)
    BY <1>3
  <2>. QED
    BY <2>1
<1>. HIDE DEF row2, col2
<1>7. \A k \in 1 .. a + n : col2[k] \in 1 .. Len(seqs[row2[k]]) /\ u[k] = seqs[row2[k]][col2[k]]
  <2>. SUFFICES ASSUME NEW k \in 1 .. a + n
                PROVE  col2[k] \in 1 .. Len(seqs[row2[k]]) /\ u[k] = seqs[row2[k]][col2[k]]
    OBVIOUS
  <2>1. CASE k \in 1 .. a
    BY <1>1, <1>3, <1>5, <2>1
  <2>2. ASSUME NEW j \in 1 .. n, k = a + j
        PROVE  col2[k] \in 1 .. Len(seqs[row2[k]]) /\ u[k] = seqs[row2[k]][col2[k]]
    BY <1>3, <1>5, <2>2 DEF n
  <2>. QED
    BY <1>6, <2>1, <2>2
<1>8. ASSUME NEW k \in 1 .. a + n, NEW l \in 1 .. a + n, k < l
      PROVE  row2[k] < row2[l] \/ (row2[k] = row2[l] /\ col2[k] < col2[l])
  <2>1. CASE k \in 1 .. a /\ l \in 1 .. a
    BY <1>1, <1>5, <1>8, <2>1
  <2>2. ASSUME NEW j \in 1 .. n, l = a + j, k \in 1 .. a PROVE row2[k] < row2[l]
    BY <1>4, <1>5, <2>2
  <2>3. ASSUME NEW i \in 1 .. n, NEW j \in 1 .. n, k = a + i, l = a + j
        PROVE  row2[k] = row2[l] /\ col2[k] < col2[l]
    <3>1. i < j
      BY <1>3, <1>8, <2>3
    <3>. QED
      BY <1>5, <2>3, <3>1
  <2>4. ASSUME NEW i \in 1 .. n, k = a + i, l \in 1 .. a PROVE FALSE
    BY <1>3, <1>8, <2>4
  <2>. QED
    BY <1>6, <2>1, <2>2, <2>3, <2>4
<1>9. ASSUME NEW i \in 1 .. m + 1, NEW j \in 1 .. Len(seqs[i])
      PROVE  \E k \in 1 .. a + n : row2[k] = i /\ col2[k] = j
  <2>1. CASE i \in 1 .. m
    <3>1. PICK k \in 1 .. a : row[k] = i /\ col[k] = j
      BY <1>1, <2>1
    <3>2. k \in 1 .. a + n
      BY <1>3
    <3>. QED
      BY <1>5, <3>1, <3>2
  <2>2. CASE i = m + 1
    <3>1. j \in 1 .. n /\ a + j \in 1 .. a + n
      BY <1>3, <2>2 DEF n
    <3>. QED
      BY <1>5, <2>2, <3>1
  <2>. QED
    BY <2>1, <2>2
<1>10. Laid(u, seqs, m + 1)
  <2>1. Len(u) = a + n
    BY <1>3
  <2>2. LaidBy(u, a + n, seqs, m + 1, row2, col2)
    BY <1>7, <1>8, <1>9, Zenon DEF LaidBy
  <2>. QED
    BY <1>5, <2>1, <2>2 DEF Laid
<1>. QED
  BY <1>10 DEF u

LEMMA FlatIs ==
  ASSUME NEW T, NEW seqs \in Seq(Seq(T))
  PROVE  FlattenSeq(seqs) \in Seq(T) /\ Laid(FlattenSeq(seqs), seqs, Len(seqs))
<1>. DEFINE n == Len(seqs)
            Next1(h, i) == IF i = 1 THEN seqs[i] ELSE h[i - 1] \o seqs[i]
            Is(h) == h = [i \in 1 .. n |-> Next1(h, i)]
            Upto(h, m) == \A i \in 1 .. m : h[i] = Next1(h, i)
<1>1. n # 0 => FlattenSeq(seqs) = (CHOOSE h : Is(h))[n]
  BY Zenon DEF FlattenSeq
<1>2. n \in Nat /\ \A i \in 1 .. n : seqs[i] \in Seq(T)
  OBVIOUS
<1>3. Laid(<<>>, seqs, 0) /\ <<>> \in Seq(T)
  <2>. DEFINE none == [k \in 1 .. 0 |-> 0]
  <2>1. PICK t : t = <<>> /\ Len(t) = 0
    OBVIOUS
  <2>2. none \in [1 .. 0 -> 1 .. 0] /\ none \in [1 .. 0 -> Nat] /\ \A k \in 1 .. 0 : FALSE
    OBVIOUS
  <2>. HIDE DEF none
  <2>3. LaidBy(t, 0, seqs, 0, none, none)
    BY <2>2 DEF LaidBy
  <2>4. \E row \in [1 .. 0 -> 1 .. 0], col \in [1 .. 0 -> Nat] : LaidBy(t, 0, seqs, 0, row, col)
    BY <2>2, <2>3
  <2>5. Laid(t, seqs, 0)
    BY <2>1, <2>4 DEF Laid
  <2>. QED
    BY <2>1, <2>5
<1>4. CASE n = 0
  <2>1. seqs = <<>> /\ FlattenSeq(seqs) = seqs
    BY <1>4 DEF FlattenSeq
  <2>. QED
    BY <1>3, <1>4, <2>1
<1>5. CASE n # 0
  <2>. HIDE DEF n
  <2>1. \E h : Is(h)
    <3>. DEFINE Some(m) == \E h \in [1 .. m -> Seq(T)] : Upto(h, m)
                M == {m \in Nat : m <= n => Some(m)}
    <3>1. 0 \in M
      <4>. DEFINE h == [i \in 1 .. 0 |-> <<>>]
      <4>1. h \in [1 .. 0 -> Seq(T)] /\ Upto(h, 0)
        OBVIOUS
      <4>. QED
        BY <4>1
    <3>2. ASSUME NEW m \in M, m + 1 <= n PROVE Some(m + 1)
      <4>1. Some(m)
        <5>. HIDE DEF Some
        <5>. QED
          BY <1>2, <3>2
      <4>2. PICK g \in [1 .. m -> Seq(T)] : Upto(g, m)
        BY <4>1
      <4>. DEFINE h == [i \in 1 .. m + 1 |-> IF i = m + 1 THEN Next1(g, m + 1) ELSE g[i]]
      <4>3. m \in Nat /\ seqs[m + 1] \in Seq(T) /\ (m + 1) - 1 = m /\ (m # 0 => g[m] \in Seq(T))
        BY <1>2, <3>2
      <4>4. Next1(g, m + 1) \in Seq(T)
        BY <4>3
      <4>5. h \in [1 .. m + 1 -> Seq(T)] /\ h[m + 1] = Next1(g, m + 1) /\ \A i \in 1 .. m : h[i] = g[i]
        <5>. HIDE DEF Next1
        <5>. QED
          BY <4>3, <4>4
      <4>. HIDE DEF h
      <4>6. Upto(h, m + 1)
        <5>. SUFFICES ASSUME NEW i \in 1 .. m + 1 PROVE h[i] = Next1(h, i)
          OBVIOUS
        <5>1. CASE i = m + 1
          BY <4>3, <4>5, <5>1
        <5>2. CASE i \in 1 .. m
          <6>1. i # 1 => i - 1 \in 1 .. m
            BY <4>3, <5>2
          <6>. QED
            BY <4>2, <4>5, <5>2, <6>1
        <5>. QED
          BY <4>3, <5>1, <5>2
      <4>. QED
        BY <4>5, <4>6
    <3>. HIDE DEF Some
    <3>3. \A m \in M : m + 1 \in M
      BY <3>2
    <3>4. M = Nat
      BY <3>1, <3>3, Induction
    <3>5. Some(n)
      <4>1. \A m \in Nat : m <= n => Some(m)
        BY <3>4
      <4>2. PICK m \in Nat : m = n
        BY <1>2
      <4>. HIDE DEF M
      <4>. QED
        BY <4>1, <4>2
    <3>. HIDE DEF Upto
    <3>6. PICK h \in [1 .. n -> Seq(T)] : Upto(h, n)
      BY <3>5 DEF Some
    <3>7. Is(h)
      BY <3>6 DEF Upto
    <3>. QED
      BY <3>7
  <2>. HIDE DEF Is
  <2>2. PICK h : Is(h) /\ FlattenSeq(seqs) = h[n]
    BY <1>1, <1>5, <2>1
  <2>3. \A i \in 1 .. n : h[i] = Next1(h, i)
    BY <2>2 DEF Is
  <2>. DEFINE Good(m) == h[m] \in Seq(T) /\ Laid(h[m], seqs, m)
              M == {m \in Nat : m + 1 <= n => Good(m + 1)}
  <2>4. 0 \in M
    <3>1. h[1] = seqs[1] /\ seqs[1] \in Seq(T) /\ 0 + 1 <= Len(seqs)
      BY <1>2, <1>5, <2>3 DEF n
    <3>2. <<>> \o seqs[1] = seqs[1] /\ 0 + 1 = 1
      BY <3>1
    <3>3. Laid(<<>> \o seqs[0 + 1], seqs, 0 + 1)
      BY <1>3, <3>1, LaidNext
    <3>4. Laid(seqs[1], seqs, 1)
      BY <3>2, <3>3
    <3>. QED
      BY <3>1, <3>4
  <2>5. ASSUME NEW m \in M, (m + 1) + 1 <= n PROVE Good((m + 1) + 1)
    <3>1. m \in Nat /\ m + 1 <= n /\ Good(m + 1)
      <4>. HIDE DEF Good
      <4>. QED
        BY <1>2, <2>5
    <3>. DEFINE k == m + 1
    <3>2. k \in Nat \ {0} /\ k + 1 <= Len(seqs) /\ k + 1 \in 1 .. n /\ h[k] \in Seq(T) /\ Laid(h[k], seqs, k)
      BY <2>5, <3>1 DEF n
    <3>. HIDE DEF k
    <3>3. h[k + 1] = h[k] \o seqs[k + 1]
      <4>1. k + 1 # 1 /\ (k + 1) - 1 = k
        BY <3>2
      <4>2. h[k + 1] = Next1(h, k + 1)
        BY <2>3, <3>2
      <4>. QED
        BY <4>1, <4>2
    <3>4. Laid(h[k] \o seqs[k + 1], seqs, k + 1)
      BY <3>2, LaidNext
    <3>5. h[k] \o seqs[k + 1] \in Seq(T)
      BY <1>2, <3>2
    <3>. QED
      BY <3>3, <3>4, <3>5 DEF k
  <2>. HIDE DEF Good
  <2>6. \A m \in M : m + 1 \in M
    BY <2>5
  <2>7. M = Nat
    <3>. HIDE DEF M
    <3>1. M \in SUBSET Nat
      BY DEF M
    <3>. QED
      BY <2>4, <2>6, <3>1, Induction
  <2>8. n - 1 \in Nat /\ (n - 1) + 1 = n
    BY <1>2, <1>5
  <2>9. Good(n)
    <3>1. \A m \in Nat : m + 1 <= n => Good(m + 1)
      BY <2>7
    <3>2. (n - 1) + 1 <= n => Good((n - 1) + 1)
      BY <2>8, <3>1
    <3>. QED
      BY <1>2, <2>8, <3>2
  <2>. QED
    BY <2>2, <2>9 DEF Good, n
<1>. QED
  BY <1>4, <1>5
-----------------------------------------------------------------------------
(* Sums *)

\* The sum of the sizes of sets that have nothing in common is the size of them all.
LEMMA SumOfCards ==
  ASSUME NEW S, IsFiniteSet(S), NEW fun, DOMAIN fun = S, NEW E,
         \A x \in S : IsFiniteSet(E[x]) /\ fun[x] = Cardinality(E[x]),
         \A x, y \in S : x # y => E[x] \cap E[y] = {}
  PROVE  /\ IsFiniteSet(UNION {E[x] : x \in S})
         /\ SumFunction(fun) = Cardinality(UNION {E[x] : x \in S})
<1>. DEFINE All(T) == UNION {E[x] : x \in T}
            Pick(T) == CHOOSE x \in T : TRUE
            Of(h, T) == IF T = {} THEN 0 ELSE fun[Pick(T)] + h[T \ {Pick(T)}]
            Is(h) == h = [T \in SUBSET S |-> Of(h, T)]
<1>1. SumFunction(fun) = (CHOOSE h : Is(h))[S]
  BY Zenon DEF SumFunction, SumFunctionOnSet, FoldFunctionOnSet, MapThenFoldSet
<1>2. ASSUME NEW T \in SUBSET S PROVE IsFiniteSet(T) /\ IsFiniteSet(All(T)) /\ Cardinality(All(T)) \in Nat
  <2>1. IsFiniteSet(T)
    BY FS_Subset
  <2>2. IsFiniteSet({E[x] : x \in T})
    <3>. DEFINE e == [x \in T |-> E[x]]
    <3>1. e \in Surjection(T, {E[x] : x \in T})
      BY Zenon DEF Surjection
    <3>. QED
      BY <2>1, <3>1, FS_Surjection
  <2>3. \A X \in {E[x] : x \in T} : IsFiniteSet(X)
    OBVIOUS
  <2>4. IsFiniteSet(All(T))
    BY <2>2, <2>3, FS_UNION
  <2>. QED
    BY <2>1, <2>4, FS_CardinalityType
<1>3. ASSUME NEW T \in SUBSET S, T # {}
      PROVE  /\ Pick(T) \in T /\ T \ {Pick(T)} \in SUBSET S
             /\ Cardinality(All(T)) = fun[Pick(T)] + Cardinality(All(T \ {Pick(T)}))
  <2>1. PICK x : x = Pick(T)
    OBVIOUS
  <2>2. x \in T
    BY <1>3, <2>1
  <2>. HIDE DEF Pick
  <2>3. PICK R : R = T \ {x}
    OBVIOUS
  <2>4. R \in SUBSET S /\ T = R \cup {x} /\ x \notin R
    BY <2>2, <2>3
  <2>5. All(T) = E[x] \cup All(R)
    BY <2>4
  <2>6. E[x] \cap All(R) = {}
    BY <2>2, <2>4
  <2>7. IsFiniteSet(E[x]) /\ IsFiniteSet(All(R)) /\ fun[x] = Cardinality(E[x])
    BY <1>2, <2>2, <2>4
  <2>. HIDE DEF All
  <2>8. Cardinality(All(T)) = Cardinality(E[x]) + Cardinality(All(R))
    <3>1. Cardinality(E[x] \cup All(R)) = Cardinality(E[x]) + Cardinality(All(R)) - Cardinality(E[x] \cap All(R))
      BY <2>7, FS_Union
    <3>2. Cardinality(E[x]) \in Nat /\ Cardinality(All(R)) \in Nat
      BY <2>7, FS_CardinalityType
    <3>3. Cardinality(E[x] \cap All(R)) = 0
      BY <2>6, FS_EmptySet
    <3>. QED
      BY <2>5, <3>1, <3>2, <3>3
  <2>. QED
    BY <2>1, <2>2, <2>3, <2>4, <2>7, <2>8
<1>4. Cardinality(All({})) = 0
  BY FS_EmptySet
<1>. HIDE DEF All, Pick
<1>5. \E h : Is(h)
  <2>. DEFINE h == [T \in SUBSET S |-> Cardinality(All(T))]
  <2>1. \A T \in SUBSET S : h[T] = Of(h, T)
    BY <1>3, <1>4
  <2>2. Is(h)
    <3>. HIDE DEF Of
    <3>1. h = [T \in SUBSET S |-> h[T]]
      OBVIOUS
    <3>. HIDE DEF h
    <3>. QED
      BY <2>1, <3>1
  <2>. QED
    BY <2>2
<1>. HIDE DEF Is
<1>6. PICK h : Is(h) /\ SumFunction(fun) = h[S]
  BY <1>1, <1>5
<1>7. \A T \in SUBSET S : h[T] = Of(h, T)
  <2>. HIDE DEF Of
  <2>. QED
    BY <1>6 DEF Is
<1>. DEFINE M == {m \in Nat : \A T \in SUBSET S : Cardinality(T) = m => h[T] = Cardinality(All(T))}
<1>8. 0 \in M
  <2>. SUFFICES ASSUME NEW T \in SUBSET S, Cardinality(T) = 0 PROVE h[T] = Cardinality(All(T))
    OBVIOUS
  <2>1. T = {}
    BY <1>2, FS_EmptySet
  <2>. QED
    BY <1>4, <1>7, <2>1
<1>9. ASSUME NEW m \in M PROVE m + 1 \in M
  <2>. SUFFICES ASSUME NEW T \in SUBSET S, Cardinality(T) = m + 1 PROVE h[T] = Cardinality(All(T))
    OBVIOUS
  <2>0. m \in Nat /\ Cardinality(T) # 0
    OBVIOUS
  <2>1. T # {}
    BY <2>0, FS_EmptySet
  <2>2. PICK x : x = Pick(T)
    OBVIOUS
  <2>3. x \in T /\ T \ {x} \in SUBSET S /\ Cardinality(All(T)) = fun[x] + Cardinality(All(T \ {x}))
    BY <1>3, <2>1, <2>2
  <2>4. Cardinality(T \ {x}) = m
    <3>1. Cardinality(T \ {x}) = Cardinality(T) - 1
      BY <1>2, <2>3, FS_RemoveElement
    <3>. QED
      BY <2>0, <3>1
  <2>5. h[T \ {x}] = Cardinality(All(T \ {x}))
    BY <2>3, <2>4
  <2>. QED
    BY <1>7, <2>1, <2>2, <2>3, <2>5
<1>10. M = Nat
  <2>. HIDE DEF M
  <2>1. M \in SUBSET Nat
    BY DEF M
  <2>. QED
    BY <1>8, <1>9, <2>1, Induction
<1>11. Cardinality(S) \in Nat
  BY FS_CardinalityType
<1>12. h[S] = Cardinality(All(S))
  BY <1>10, <1>11
<1>. QED
  BY <1>2, <1>6, <1>12 DEF All
-----------------------------------------------------------------------------
(* The constants *)

LEMMA BatchFacts ==
  /\ Len(Batches) \in Nat /\ BatchIds = 1 .. Len(Batches)
  /\ \A b \in BatchIds : /\ Batches[b] \in Seq(Files) /\ Len(Batches[b]) \in Nat \ {0}
                         /\ DOMAIN Batches[b] = 1 .. Len(Batches[b])
                         /\ \A n \in 1 .. Len(Batches[b]) : Batches[b][n] \in Files
                         /\ TagOfBatch(b) \in Tags
<1>1. Len(Batches) \in Nat /\ BatchIds = 1 .. Len(Batches) /\ \A b \in BatchIds : Batches[b] \in Seq(Files)
  BY ResultsAssumption DEF BatchIds
<1>2. ASSUME NEW b \in BatchIds
      PROVE  /\ Batches[b] \in Seq(Files) /\ Len(Batches[b]) \in Nat \ {0}
             /\ DOMAIN Batches[b] = 1 .. Len(Batches[b])
             /\ \A n \in 1 .. Len(Batches[b]) : Batches[b][n] \in Files
             /\ TagOfBatch(b) \in Tags
  <2>1. Batches[b] \in Seq(Files) /\ Batches[b] # <<>>
    BY <1>1, ResultsAssumption DEF BatchIds
  <2>2. Len(Batches[b]) \in Nat \ {0} /\ \A n \in 1 .. Len(Batches[b]) : Batches[b][n] \in Files
    BY <2>1
  <2>3. Batches[b][1] \in Files /\ Tag \in [Files -> Tags]
    BY <2>2, ResultsAssumption
  <2>. QED
    BY <2>1, <2>2, <2>3 DEF TagOfBatch
<1>. QED
  BY <1>1, <1>2

\* A file is of one batch, and at one place in it.
LEMMA FileFacts ==
  /\ \A b, c \in BatchIds : b # c => Range(Batches[b]) \cap Range(Batches[c]) = {}
  /\ \A b \in BatchIds : \A m, n \in 1 .. Len(Batches[b]) : Batches[b][m] = Batches[b][n] => m = n
  /\ \A f \in Files : BatchOf(f) \in BatchIds /\ f \in Range(Batches[BatchOf(f)])
  /\ \A f \in Files, b \in BatchIds : f \in Range(Batches[b]) => BatchOf(f) = b
<1>1. \A b, c \in BatchIds : b # c => Range(Batches[b]) \cap Range(Batches[c]) = {}
  BY ResultsAssumption DEF BatchIds
<1>2. \A b \in BatchIds : \A m, n \in 1 .. Len(Batches[b]) : Batches[b][m] = Batches[b][n] => m = n
  BY BatchFacts, ResultsAssumption DEF BatchIds, IsInjective
<1>3. ASSUME NEW f \in Files PROVE \E b \in BatchIds : f \in Range(Batches[b])
  BY DEF Files, BatchIds, Range
<1>4. \A f \in Files : BatchOf(f) \in BatchIds /\ f \in Range(Batches[BatchOf(f)])
  BY <1>3 DEF BatchOf
<1>5. \A f \in Files, b \in BatchIds : f \in Range(Batches[b]) => BatchOf(f) = b
  BY <1>1, <1>4
<1>. QED
  BY <1>1, <1>2, <1>4, <1>5

LEMMA FilesFinite == IsFiniteSet(Files) /\ IsFiniteSet(BatchIds)
<1>1. IsFiniteSet(BatchIds)
  BY BatchFacts, FS_Interval
<1>2. ASSUME NEW R \in Range(Batches) PROVE IsFiniteSet(Range(R))
  <2>1. PICK b \in BatchIds : R = Batches[b]
    BY DEF Range, BatchIds
  <2>2. R \in Surjection(1 .. Len(R), Range(R)) /\ Len(R) \in Nat
    BY <2>1, BatchFacts DEF Surjection, Range
  <2>. QED
    BY <2>2, FS_Interval, FS_Surjection
<1>3. IsFiniteSet(Range(Batches))
  <2>1. Batches \in Surjection(1 .. Len(Batches), Range(Batches))
    <3>1. Batches \in Seq(Seq(Files))
      BY ResultsAssumption
    <3>2. Batches \in [1 .. Len(Batches) -> Range(Batches)] /\ DOMAIN Batches = 1 .. Len(Batches)
      BY <3>1 DEF Range
    <3>3. \A R \in Range(Batches) : \E b \in 1 .. Len(Batches) : Batches[b] = R
      BY <3>2, Zenon DEF Range
    <3>. QED
      BY <3>2, <3>3, Zenon DEF Surjection
  <2>2. IsFiniteSet(1 .. Len(Batches))
    BY <1>1, BatchFacts
  <2>. QED
    BY <2>1, <2>2, FS_Surjection
<1>4. IsFiniteSet({Range(R) : R \in Range(Batches)})
  <2>. DEFINE r == [R \in Range(Batches) |-> Range(R)]
  <2>1. r \in Surjection(Range(Batches), {Range(R) : R \in Range(Batches)})
    BY Zenon DEF Surjection
  <2>. QED
    BY <1>3, <2>1, FS_Surjection
<1>5. IsFiniteSet(UNION {Range(R) : R \in Range(Batches)})
  BY <1>2, <1>4, FS_UNION
<1>. QED
  BY <1>1, <1>5 DEF Files

-----------------------------------------------------------------------------
(* Times and buckets *)

LEMMA FloorMinIs ==
  ASSUME NEW t \in Nat
  PROVE  /\ FloorMin(t) \in Nat /\ FloorMin(t) <= t /\ t < FloorMin(t) + Minute
         /\ t \div Minute \in Nat /\ FloorMin(t) = (t \div Minute) * Minute
         /\ \A q \in Nat : q * Minute <= t => q * Minute <= FloorMin(t)
<1>1. Minute \in Nat /\ Minute > 0
  BY ResultsAssumption
<1>2. PICK d : d = t \div Minute
  OBVIOUS
<1>3. d \in Nat /\ d * Minute <= t /\ t < (d + 1) * Minute
  BY <1>1, <1>2
<1>4. d * Minute \in Nat /\ (d + 1) * Minute = d * Minute + Minute
  BY <1>1, <1>3
<1>5. ASSUME NEW q \in Nat, q * Minute <= t PROVE q * Minute <= d * Minute
  <2>1. CASE q <= d
    BY <1>1, <1>3, <2>1
  <2>2. CASE q >= d + 1
    <3>1. q * Minute >= (d + 1) * Minute
      BY <1>1, <1>3, <2>2
    <3>2. q * Minute \in Nat
      BY <1>1
    <3>. QED
      BY <1>1, <1>3, <1>4, <1>5, <3>1, <3>2
  <2>. QED
    BY <1>3, <2>1, <2>2
<1>. QED
  BY <1>2, <1>3, <1>4, <1>5 DEF FloorMin

LEMMA StartIs == Start \in Nat /\ Start <= From /\ From \in Nat /\ Delta \in Nat /\ Delta > 0
<1>1. From \in Nat /\ Delta \in Nat \ {0}
  BY ResultsAssumption
<1>2. FloorMin(From) \in Nat /\ FloorMin(From) <= From
  BY <1>1, FloorMinIs
<1>. QED
  BY <1>1, <1>2 DEF Start

\* Index(t) is the bucket t is in.
LEMMA IndexIs ==
  ASSUME NEW t \in Nat, Start <= t
  PROVE  /\ Index(t) \in Nat
         /\ \A i \in Nat : Index(t) = i <=> Start + i * Delta <= t /\ t < Start + (i + 1) * Delta
<1>1. PICK d : d = Index(t)
  OBVIOUS
<1>2. PICK u \in Nat : u = t - Start
  BY StartIs
<1>3. d = u \div Delta
  BY <1>1, <1>2 DEF Index
<1>4. d \in Nat /\ d * Delta <= u /\ u < (d + 1) * Delta
  BY <1>2, <1>3, StartIs
<1>5. d * Delta \in Nat /\ (d + 1) * Delta \in Nat
  BY <1>4, StartIs
<1>6. Start + d * Delta <= t /\ t < Start + (d + 1) * Delta
  BY <1>2, <1>4, <1>5, StartIs
<1>7. ASSUME NEW i \in Nat, Start + i * Delta <= t, t < Start + (i + 1) * Delta PROVE i = d
  <2>0. i * Delta \in Nat /\ (i + 1) * Delta \in Nat
    BY StartIs
  <2>1. i * Delta <= u /\ u < (i + 1) * Delta
    BY <1>2, <1>7, <2>0, StartIs
  <2>2. ASSUME i >= d + 1 PROVE FALSE
    <3>1. i * Delta >= (d + 1) * Delta
      BY <1>4, <2>2, StartIs
    <3>. QED
      BY <1>2, <1>4, <1>5, <2>0, <2>1, <3>1
  <2>3. ASSUME d >= i + 1 PROVE FALSE
    <3>1. d * Delta >= (i + 1) * Delta
      BY <1>4, <2>3, StartIs
    <3>. QED
      BY <1>2, <1>4, <1>5, <2>0, <2>1, <3>1
  <2>. QED
    BY <1>4, <2>2, <2>3
<1>. QED
  BY <1>1, <1>4, <1>6, <1>7

\* A time in the range has a bucket.
LEMMA IndexInBuckets ==
  ASSUME NEW t \in Nat, From < t, t < To
  PROVE  Start <= t /\ Index(t) \in Buckets
<1>0. Start <= t
  BY StartIs
<1>1. PICK i \in Nat : i = Index(t)
  BY <1>0, IndexIs
<1>2. Start + i * Delta <= t
  BY <1>0, <1>1, IndexIs
<1>3. PICK m \in Nat : Delta = m * Minute
  <2>1. Minute \in Nat /\ Minute > 0 /\ Delta \in Nat /\ Delta % Minute = 0
    BY ResultsAssumption
  <2>2. Delta \div Minute \in Nat /\ Delta = (Delta \div Minute) * Minute
    BY <2>1
  <2>. QED
    BY <2>2
<1>4. PICK q \in Nat : Start = q * Minute
  BY FloorMinIs, ResultsAssumption DEF Start
<1>5. Start + i * Delta = (q + i * m) * Minute /\ q + i * m \in Nat /\ i * Delta \in Nat
  <2>1. Minute \in Nat
    BY ResultsAssumption
  <2>. QED
    BY <1>3, <1>4, <2>1
<1>6. Start + i * Delta <= FloorMin(To) /\ FloorMin(To) \in Nat
  <2>1. To \in Nat
    BY ResultsAssumption
  <2>2. (q + i * m) * Minute <= To
    BY <1>2, <1>5, <2>1, StartIs
  <2>. QED
    BY <1>5, <2>1, <2>2, FloorMinIs
<1>7. PICK u \in Nat : u = FloorMin(To) - Start
  BY <1>5, <1>6, StartIs
<1>8. i * Delta <= u
  BY <1>5, <1>6, <1>7, StartIs
<1>9. i <= u \div Delta /\ u \div Delta \in Nat
  <2>1. PICK d \in Nat : d = u \div Delta /\ u < (d + 1) * Delta
    BY StartIs
  <2>2. ASSUME i >= d + 1 PROVE FALSE
    <3>1. i * Delta >= (d + 1) * Delta /\ (d + 1) * Delta \in Nat
      BY <2>2, StartIs
    <3>. QED
      BY <1>5, <1>8, <2>1, <3>1
  <2>. QED
    BY <2>1, <2>2
<1>. QED
  BY <1>0, <1>1, <1>7, <1>9 DEF Buckets
-----------------------------------------------------------------------------
(* The inductive invariant *)

\* What can be in the event file of f: events the search keeps, in the order of the file.
EventFile(f, s) ==
  /\ s \in Seq(Event)
  /\ \A i \in 1 .. Len(s) : s[i].file = f /\ Kept(s[i])
  /\ \A i, j \in 1 .. Len(s) : i < j => s[i].line < s[j].line

EventFiles(files) == DOMAIN files \subseteq Files /\ \A f \in DOMAIN files : EventFile(f, files[f])

\* At most one event of a file is staged and not counted.
FilesInv ==
  /\ \A f \in Files : lines[f] \in Seq(Lines)
  /\ EventFiles(staged) /\ EventFiles(counted)
  /\ DOMAIN staged \subseteq DOMAIN counted
  /\ \A f \in DOMAIN staged : \A d, e \in Range(staged[f]) \ Range(counted[f]) : d = e

\* A file is searched once: those ahead in a batch have no events.
DoneInv ==
  /\ done \in [BatchIds -> Nat]
  /\ \A b \in BatchIds : done[b] \in 0 .. Len(Batches[b]) + 1
  /\ \A b \in BatchIds : \A n \in 1 .. Len(Batches[b]) : n > done[b] => Batches[b][n] \notin DOMAIN counted

\* The events of S that are of a batch and count under a key and in a bucket.
EventsAt(S, b, k, i) ==
  {e \in S : e.file \in Range(Batches[b]) /\ <<TagOfBatch(b), e.field>> = k /\ Index(e.time) = i}

\* A histogram has counted the collected events of its batch, no more and no fewer.
HistoInv ==
  /\ histo \in [BatchIds -> [Keys -> [Buckets -> Nat]]]
  /\ \A b \in BatchIds, k \in Keys, i \in Buckets : histo[b][k][i] = Cardinality(EventsAt(Collected, b, k, i))
  /\ stored \subseteq BatchIds

\* Nothing is searched, or lost, after an answer.
AnswersInv ==
  /\ merged # NoEvents \/ chart # NoChart => \A b \in BatchIds : Closed(b)
  /\ merged.from \in Nat \cup {-1} /\ Range(merged.events) \subseteq Event
  /\ MergedWhole
  /\ chart # NoChart => chart \in [Tags -> [Buckets -> Nat]]
  /\ ChartCountsEvents

ResultsInv == FilesInv /\ DoneInv /\ HistoInv /\ AnswersInv
-----------------------------------------------------------------------------
(* Event files *)

LEMMA PositionsOf ==
  ASSUME NEW T, NEW s \in Seq(T), IsInjective(s), NEW S
  PROVE  /\ IsFiniteSet(Range(s)) /\ IsFiniteSet(Range(s) \cap S)
         /\ Cardinality({j \in DOMAIN s : s[j] \in S}) = Cardinality(Range(s) \cap S)
         /\ Len(s) = Cardinality(Range(s))
<1>1. DOMAIN s = 1 .. Len(s) /\ Len(s) \in Nat /\ s \in [DOMAIN s -> Range(s)]
  BY DEF Range
<1>2. IsFiniteSet(DOMAIN s) /\ Cardinality(DOMAIN s) = Len(s)
  <2>1. \A a, b \in Int : IsFiniteSet(a .. b) /\ Cardinality(a .. b) = (IF a > b THEN 0 ELSE b - a + 1)
    BY FS_Interval
  <2>2. PICK n \in Nat : n = Len(s) /\ DOMAIN s = 1 .. n
    BY <1>1
  <2>3. IsFiniteSet(1 .. n) /\ Cardinality(1 .. n) = (IF 1 > n THEN 0 ELSE n - 1 + 1)
    BY <2>1
  <2>. QED
    BY <2>2, <2>3
<1>3. s \in Surjection(DOMAIN s, Range(s)) /\ s \in Injection(DOMAIN s, Range(s))
  BY <1>1 DEF Surjection, Injection, Range, IsInjective
<1>4. IsFiniteSet(Range(s)) /\ Len(s) = Cardinality(Range(s))
  BY <1>2, <1>3, FS_Surjection
<1>. DEFINE J == {j \in DOMAIN s : s[j] \in S}
            g == [j \in J |-> s[j]]
<1>5. IsFiniteSet(J)
  BY <1>2, FS_Subset
<1>6. g \in Bijection(J, Range(s) \cap S)
  BY <1>1 DEF Bijection, Surjection, Injection, Range, IsInjective
<1>7. ExistsBijection(J, Range(s) \cap S)
  BY <1>6 DEF ExistsBijection
<1>8. Cardinality(J) = Cardinality(Range(s) \cap S) /\ IsFiniteSet(Range(s) \cap S)
  BY <1>5, <1>7, FS_Bijection
<1>. QED
  BY <1>4, <1>8

LEMMA EventFileInjective ==
  ASSUME NEW f, NEW s, EventFile(f, s)
  PROVE  IsInjective(s) /\ s \in Seq(Event) /\ \A e \in Range(s) : e \in Event /\ e.file = f /\ Kept(e)
<1>1. s \in Seq(Event) /\ DOMAIN s = 1 .. Len(s) /\ Len(s) \in Nat
  BY DEF EventFile
<1>2. \A i \in 1 .. Len(s) : s[i] \in Event /\ s[i].file = f /\ Kept(s[i])
  BY <1>1 DEF EventFile
<1>3. \A i \in 1 .. Len(s) : s[i].line \in Nat
  BY <1>2 DEF Event
<1>4. ASSUME NEW i \in 1 .. Len(s), NEW j \in 1 .. Len(s), s[i] = s[j] PROVE i = j
  <2>1. ~(i < j) /\ ~(j < i)
    BY <1>3, <1>4 DEF EventFile
  <2>. QED
    BY <1>1, <2>1
<1>. QED
  BY <1>1, <1>2, <1>4 DEF IsInjective, Range

\* EventsOf is what can be in an event file.
LEMMA EventsAre ==
  ASSUME NEW f \in Files, lines[f] \in Seq(Lines), NEW n \in 0 .. Len(lines[f])
  PROVE  EventFile(f, EventsOf(f, n))
<1>. DEFINE ev(i) == [file |-> f, line |-> i, time |-> lines[f][i].time,
                      field |-> lines[f][i].field, match |-> lines[f][i].match]
            all == [i \in 1 .. n |-> ev(i)]
            S == {e \in Range(all) : Kept(e)}
            s == Those(all, S)
<1>1. s = EventsOf(f, n)
  BY Zenon DEF EventsOf
<1>2. n \in Nat /\ n <= Len(lines[f])
  OBVIOUS
<1>3. \A i \in 1 .. n : ev(i) \in Event /\ ev(i).file = f /\ ev(i).line = i
  <2>. SUFFICES ASSUME NEW i \in 1 .. n PROVE ev(i) \in Event
    OBVIOUS
  <2>1. lines[f][i] \in Lines /\ i \in Nat
    BY <1>2
  <2>2. lines[f][i] \in [time : Nat, match : BOOLEAN, field : Fields \cup {NoField}]
    BY <2>1, ResultsAssumption
  <2>. QED
    BY <2>1, <2>2 DEF Event
<1>. HIDE DEF ev
<1>4. all \in Seq(Event) /\ Len(all) = n /\ \A i \in 1 .. n : all[i] = ev(i)
  BY <1>2, <1>3
<1>. HIDE DEF all, S, s
<1>5. s \in Seq(Event) /\ Chosen(s, all, n, S)
  BY <1>4, ThoseAre DEF s
<1>6. PICK at \in [1 .. Len(s) -> 1 .. n] :
        /\ \A j \in 1 .. Len(s) : s[j] = all[at[j]] /\ s[j] \in S
        /\ \A i, j \in 1 .. Len(s) : i < j => at[i] < at[j]
  BY <1>5 DEF Chosen
<1>7. \A j \in 1 .. Len(s) : s[j] = ev(at[j]) /\ s[j].file = f /\ s[j].line = at[j]
  BY <1>3, <1>4, <1>6
<1>8. \A j \in 1 .. Len(s) : Kept(s[j])
  BY <1>6 DEF S
<1>9. \A i, j \in 1 .. Len(s) : i < j => s[i].line < s[j].line
  BY <1>6, <1>7
<1>. QED
  BY <1>1, <1>5, <1>7, <1>8, <1>9 DEF EventFile

\* Up to one more line there is at most one more event.
LEMMA OneAhead ==
  ASSUME NEW f \in Files, lines[f] \in Seq(Lines),
         NEW n \in 0 .. Len(lines[f]), NEW m \in 0 .. Len(lines[f]), m <= n + 1
  PROVE  \A d, e \in Range(EventsOf(f, m)) \ Range(EventsOf(f, n)) : d = e
<1>. DEFINE ev(i) == [file |-> f, line |-> i, time |-> lines[f][i].time,
                      field |-> lines[f][i].field, match |-> lines[f][i].match]
            all(l) == [i \in 1 .. l |-> ev(i)]
            S(l) == {e \in Range(all(l)) : Kept(e)}
<1>1. \A l : EventsOf(f, l) = Those(all(l), S(l))
  BY Zenon DEF EventsOf
<1>2. ASSUME NEW l \in 0 .. Len(lines[f])
      PROVE  Range(EventsOf(f, l)) = {e \in Range(all(l)) : Kept(e)} /\ Range(all(l)) = {ev(i) : i \in 1 .. l}
  <2>. DEFINE T == {ev(i) : i \in 1 .. l}
  <2>1. l \in Nat
    OBVIOUS
  <2>. HIDE DEF ev
  <2>2. all(l) \in Seq(T) /\ DOMAIN all(l) = 1 .. l /\ \A i \in 1 .. l : all(l)[i] = ev(i)
    <3>1. \A i \in 1 .. l : ev(i) \in T
      OBVIOUS
    <3>. HIDE DEF T
    <3>. QED
      BY <2>1, <3>1
  <2>3. Range(all(l)) = T
    <3>1. PICK a : a = all(l)
      OBVIOUS
    <3>2. DOMAIN a = 1 .. l /\ \A i \in 1 .. l : a[i] = ev(i)
      BY <2>2, <3>1
    <3>3. Range(a) = {a[i] : i \in 1 .. l}
      BY <3>2, Zenon DEF Range
    <3>4. {a[i] : i \in 1 .. l} = T
      <4>. HIDE DEF all
      <4>. QED
        BY <3>2
    <3>. QED
      BY <3>1, <3>3, <3>4
  <2>4. Range(Those(all(l), S(l))) = Range(all(l)) \cap S(l)
    <3>. HIDE DEF all, S, T
    <3>. QED
      BY <2>2, ThoseHave
  <2>. QED
    BY <1>1, <2>3, <2>4
<1>. HIDE DEF ev, all, S
<1>3. ASSUME NEW d \in Range(EventsOf(f, m)) \ Range(EventsOf(f, n)) PROVE d = ev(n + 1)
  <2>1. PICK i \in 1 .. m : d = ev(i) /\ Kept(d)
    BY <1>2, <1>3
  <2>2. i \notin 1 .. n
    BY <1>2, <1>3, <2>1
  <2>3. i = n + 1
    BY <2>2
  <2>. QED
    BY <2>1, <2>3
<1>. QED
  BY <1>3

\* The events of event files.
LEMMA EventsInIs ==
  ASSUME NEW files, EventFiles(files)
  PROVE  /\ IsFiniteSet(EventsIn(files))
         /\ \A e \in EventsIn(files) :
              e \in Event /\ Kept(e) /\ e.file \in DOMAIN files /\ e \in Range(files[e.file])
<1>1. ASSUME NEW f \in DOMAIN files
      PROVE  IsFiniteSet(Range(files[f])) /\ \A e \in Range(files[f]) : e \in Event /\ e.file = f /\ Kept(e)
  BY EventFileInjective, PositionsOf DEF EventFiles
<1>2. IsFiniteSet({Range(files[f]) : f \in DOMAIN files})
  <2>. DEFINE r == [f \in DOMAIN files |-> Range(files[f])]
  <2>1. r \in Surjection(DOMAIN files, {Range(files[f]) : f \in DOMAIN files})
    BY Zenon DEF Surjection
  <2>2. IsFiniteSet(DOMAIN files)
    BY FilesFinite, FS_Subset DEF EventFiles
  <2>. QED
    BY <2>1, <2>2, FS_Surjection
<1>3. IsFiniteSet(EventsIn(files))
  BY <1>1, <1>2, FS_UNION DEF EventsIn
<1>. QED
  BY <1>1, <1>3 DEF EventsIn

LEMMA StagedIs ==
  ASSUME FilesInv
  PROVE  /\ IsFiniteSet(Staged) /\ IsFiniteSet(Collected)
         /\ \A e \in Staged : e \in Event /\ Kept(e) /\ e.file \in DOMAIN staged /\ e \in Range(staged[e.file])
         /\ \A e \in Collected : e \in Event /\ Kept(e) /\ e.file \in DOMAIN counted
  BY EventsInIs DEF FilesInv, Staged, Collected

LEMMA AheadIs ==
  ASSUME FilesInv
  PROVE  \A d, e \in Staged \ Collected : d.file = e.file => d = e
<1>1. ASSUME NEW d \in Staged \ Collected
      PROVE  d.file \in DOMAIN staged /\ d \in Range(staged[d.file]) \ Range(counted[d.file])
  <2>1. d.file \in DOMAIN staged /\ d \in Range(staged[d.file]) /\ d.file \in DOMAIN counted
    BY StagedIs DEF FilesInv
  <2>2. \A f \in DOMAIN counted : Range(counted[f]) \subseteq Collected
    BY DEF Collected, EventsIn
  <2>. QED
    BY <2>1, <2>2
<1>. QED
  BY <1>1 DEF FilesInv
-----------------------------------------------------------------------------
(* The answer to the final events *)

\* The order of the files of es is kept.
InFileOrder(es) ==
  \A i, j \in 1 .. Len(es) : i < j /\ es[i].file = es[j].file => es[i].line < es[j].line

\* The staged files, one after the other, are the staged events.
LEMMA FlatStaged ==
  ASSUME FilesInv, NEW order \in Orders,
         NEW flat, flat = FlattenSeq([i \in DOMAIN order |-> staged[order[i]]])
  PROVE  flat \in Seq(Event) /\ Range(flat) = Staged /\ IsInjective(flat) /\ InFileOrder(flat)
<1>. DEFINE D == DOMAIN staged
            n == Cardinality(D)
            seqs == [i \in DOMAIN order |-> staged[order[i]]]
<1>1. IsFiniteSet(D) /\ n \in Nat
  BY FilesFinite, FS_Subset, FS_CardinalityType DEF FilesInv, EventFiles
<1>2. order \in [1 .. n -> D] /\ DOMAIN order = 1 .. n /\ \A i, j \in 1 .. n : order[i] = order[j] => i = j
  BY DEF Orders, IsInjective
<1>3. \A f \in D : \E i \in 1 .. n : order[i] = f
  <2>1. order \in Injection(1 .. n, D)
    BY <1>2 DEF Injection, IsInjective
  <2>2. IsFiniteSet(1 .. n) /\ Cardinality(1 .. n) = n
    <3>1. \A a, b \in Int : IsFiniteSet(a .. b) /\ Cardinality(a .. b) = (IF a > b THEN 0 ELSE b - a + 1)
      BY FS_Interval
    <3>2. PICK m \in Nat : m = n
      BY <1>1
    <3>3. IsFiniteSet(1 .. m) /\ Cardinality(1 .. m) = (IF 1 > m THEN 0 ELSE m - 1 + 1)
      BY <3>1
    <3>. QED
      BY <3>2, <3>3
  <2>3. order \in Surjection(1 .. n, D)
    BY <1>1, <2>1, <2>2, FS_Injection
  <2>. QED
    BY <2>3 DEF Surjection
<1>4. \A f \in D : EventFile(f, staged[f])
  BY DEF FilesInv, EventFiles
<1>5. /\ seqs \in Seq(Seq(Event)) /\ Len(seqs) = n
      /\ \A i \in 1 .. n : seqs[i] = staged[order[i]]
  <2>1. \A i \in 1 .. n : staged[order[i]] \in Seq(Event)
    BY <1>2, <1>4 DEF EventFile
  <2>. QED
    BY <1>1, <1>2, <2>1
<1>6. flat = FlattenSeq(seqs)
  OBVIOUS
<1>. HIDE DEF seqs, n, D
<1>7. flat \in Seq(Event) /\ Laid(flat, seqs, n)
  BY <1>5, <1>6, FlatIs
<1>8. PICK row \in [1 .. Len(flat) -> 1 .. n], col \in [1 .. Len(flat) -> Nat] :
           LaidBy(flat, Len(flat), seqs, n, row, col)
  BY <1>7 DEF Laid
<1>9. Len(flat) \in Nat /\ DOMAIN flat = 1 .. Len(flat)
  BY <1>7
<1>10. ASSUME NEW k \in 1 .. Len(flat)
       PROVE  /\ row[k] \in 1 .. n /\ order[row[k]] \in D
              /\ col[k] \in 1 .. Len(staged[order[row[k]]]) /\ flat[k] = staged[order[row[k]]][col[k]]
              /\ flat[k].file = order[row[k]]
  <2>1. row[k] \in 1 .. n /\ order[row[k]] \in D
    BY <1>2, <1>8
  <2>2. col[k] \in 1 .. Len(seqs[row[k]]) /\ flat[k] = seqs[row[k]][col[k]]
    BY <1>8 DEF LaidBy
  <2>3. EventFile(order[row[k]], staged[order[row[k]]])
    BY <1>4, <2>1
  <2>. QED
    BY <1>5, <2>1, <2>2, <2>3 DEF EventFile
<1>11. ASSUME NEW k \in 1 .. Len(flat), NEW l \in 1 .. Len(flat), k < l, flat[k].file = flat[l].file
       PROVE  flat[k].line < flat[l].line
  <2>1. row[k] = row[l]
    BY <1>2, <1>10, <1>11
  <2>2. row[k] < row[l] \/ (row[k] = row[l] /\ col[k] < col[l])
    BY <1>8, <1>11 DEF LaidBy
  <2>3. col[k] < col[l]
    BY <1>10, <2>1, <2>2
  <2>4. PICK s : s = staged[order[row[k]]] /\ EventFile(order[row[k]], s)
    BY <1>4, <1>10
  <2>5. \A i, j \in 1 .. Len(s) : i < j => s[i].line < s[j].line
    BY <2>4 DEF EventFile
  <2>6. col[k] \in 1 .. Len(s) /\ flat[k] = s[col[k]]
    BY <1>10, <2>4
  <2>7. col[l] \in 1 .. Len(s) /\ flat[l] = s[col[l]]
    BY <1>10, <2>1, <2>4
  <2>. QED
    BY <2>3, <2>5, <2>6, <2>7
<1>12. IsInjective(flat)
  <2>. SUFFICES ASSUME NEW k \in 1 .. Len(flat), NEW l \in 1 .. Len(flat), flat[k] = flat[l] PROVE k = l
    BY <1>9 DEF IsInjective
  <2>1. flat[k].line \in Nat
    <3>1. flat[k] \in Event
      BY <1>7, <1>9
    <3>. QED
      BY <3>1 DEF Event
  <2>2. ~(k < l) /\ ~(l < k)
    <3>1. ASSUME k < l PROVE FALSE
      <4>1. flat[k].line < flat[l].line
        BY <1>11, <3>1
      <4>. QED
        BY <2>1, <4>1
    <3>2. ASSUME l < k PROVE FALSE
      <4>1. flat[l].line < flat[k].line
        BY <1>11, <3>2
      <4>. QED
        BY <2>1, <4>1
    <3>. QED
      BY <3>1, <3>2
  <2>. QED
    BY <1>9, <2>2
<1>13. Range(flat) \subseteq Staged
  <2>. SUFFICES ASSUME NEW k \in 1 .. Len(flat) PROVE flat[k] \in Staged
    BY <1>9 DEF Range
  <2>1. PICK f \in D : f = order[row[k]]
    BY <1>10
  <2>2. col[k] \in DOMAIN staged[f] /\ flat[k] = staged[f][col[k]]
    BY <1>4, <1>10, <2>1 DEF EventFile
  <2>. QED
    BY <2>2 DEF Staged, EventsIn, Range, D
<1>14. Staged \subseteq Range(flat)
  <2>. SUFFICES ASSUME NEW f \in D, NEW j \in DOMAIN staged[f] PROVE staged[f][j] \in Range(flat)
    <3>. SUFFICES ASSUME NEW f \in D, NEW e \in Range(staged[f]) PROVE e \in Range(flat)
      BY Zenon DEF Staged, EventsIn, D
    <3>. QED
      BY DEF Range
  <2>1. PICK i \in 1 .. n : order[i] = f
    BY <1>3
  <2>2. seqs[i] = staged[f] /\ j \in 1 .. Len(seqs[i])
    <3>1. staged[f] \in Seq(Event)
      BY <1>4 DEF EventFile
    <3>. QED
      BY <1>5, <2>1, <3>1
  <2>3. PICK k \in 1 .. Len(flat) : row[k] = i /\ col[k] = j
    <3>1. \A a \in 1 .. n : \A b \in 1 .. Len(seqs[a]) : \E k \in 1 .. Len(flat) : row[k] = a /\ col[k] = b
      BY <1>8, Zenon DEF LaidBy
    <3>. QED
      BY <2>2, <3>1
  <2>4. flat[k] = staged[f][j]
    BY <1>10, <2>1, <2>3
  <2>. QED
    BY <1>9, <2>4 DEF Range
<1>. QED
  BY <1>7, <1>11, <1>12, <1>13, <1>14 DEF InFileOrder

\* Those after a time, and as many as are asked for, stay in order.
LEMMA SplicedIs ==
  ASSUME FilesInv, NEW order \in Orders, NEW from \in Nat, NEW es, es = Spliced(order, from)
  PROVE  /\ es \in Seq(Event) /\ IsInjective(es) /\ InFileOrder(es)
         /\ Range(es) = {e \in Staged : e.time > from}
         /\ Len(es) = Cardinality({e \in Staged : e.time > from})
<1>1. PICK flat : flat = FlattenSeq([i \in DOMAIN order |-> staged[order[i]]])
  OBVIOUS
<1>2. flat \in Seq(Event) /\ Range(flat) = Staged /\ IsInjective(flat) /\ InFileOrder(flat)
  BY <1>1, FlatStaged
<1>3. PICK S : S = {e \in Range(flat) : e.time > from}
  OBVIOUS
<1>4. es = Those(flat, S)
  BY <1>1, <1>3, Zenon DEF Spliced, After
<1>5. es \in Seq(Event) /\ Chosen(es, flat, Len(flat), S)
  BY <1>2, <1>4, ThoseAre
<1>6. Range(es) = Range(flat) \cap S /\ IsInjective(es)
  BY <1>2, <1>4, ThoseHave
<1>7. Range(es) = {e \in Staged : e.time > from}
  BY <1>2, <1>3, <1>6
<1>8. Len(es) = Cardinality(Range(es))
  BY <1>5, <1>6, PositionsOf
<1>9. InFileOrder(es)
  <2>1. PICK at \in [1 .. Len(es) -> 1 .. Len(flat)] :
          /\ \A j \in 1 .. Len(es) : es[j] = flat[at[j]]
          /\ \A i, j \in 1 .. Len(es) : i < j => at[i] < at[j]
    BY <1>5 DEF Chosen
  <2>2. \A j \in 1 .. Len(es) : at[j] \in 1 .. Len(flat)
    BY <2>1
  <2>3. \A i, j \in 1 .. Len(flat) : i < j /\ flat[i].file = flat[j].file => flat[i].line < flat[j].line
    BY <1>2, Zenon DEF InFileOrder
  <2>4. \A i, j \in 1 .. Len(es) : i < j /\ es[i].file = es[j].file => es[i].line < es[j].line
    BY <2>1, <2>2, <2>3
  <2>. QED
    BY <2>4, Zenon DEF InFileOrder
<1>. QED
  BY <1>5, <1>6, <1>7, <1>8, <1>9

LEMMA MinIs ==
  ASSUME NEW a \in Nat, NEW b \in Nat
  PROVE  Min({a, b}) = IF a <= b THEN a ELSE b
<1>1. PICK m \in {a, b} : m = IF a <= b THEN a ELSE b
  OBVIOUS
<1>2. \A y \in {a, b} : m <= y
  BY <1>1
<1>3. Min({a, b}) \in {a, b} /\ \A y \in {a, b} : Min({a, b}) <= y
  BY <1>2 DEF Min
<1>. QED
  BY <1>1, <1>2, <1>3

LEMMA CutIs ==
  ASSUME NEW es \in Seq(Event), IsInjective(es), InFileOrder(es), NEW cut, cut = Cut(es)
  PROVE  /\ cut \in Seq(Event) /\ IsInjective(cut) /\ InFileOrder(cut)
         /\ Range(cut) \subseteq Range(es) /\ Len(cut) = Min({Limit, Len(es)})
<1>1. PICK n : n = Min({Limit, Len(es)})
  OBVIOUS
<1>2. n \in Nat /\ n <= Len(es) /\ Len(es) \in Nat
  <2>1. Limit \in Nat /\ Len(es) \in Nat
    BY ResultsAssumption
  <2>2. n = IF Limit <= Len(es) THEN Limit ELSE Len(es)
    BY <1>1, <2>1, MinIs
  <2>. QED
    BY <2>1, <2>2
<1>3. cut = SubSeq(es, 1, n)
  BY <1>1 DEF Cut
<1>4. cut \in Seq(Event) /\ Len(cut) = n /\ \A i \in 1 .. n : cut[i] = es[i] /\ i \in 1 .. Len(es)
  BY <1>2, <1>3
<1>5. DOMAIN cut = 1 .. n /\ DOMAIN es = 1 .. Len(es)
  BY <1>4
<1>6. IsInjective(cut) /\ Range(cut) \subseteq Range(es)
  BY <1>4, <1>5 DEF IsInjective, Range
<1>7. InFileOrder(cut)
  BY <1>4 DEF InFileOrder
<1>. QED
  BY <1>1, <1>4, <1>6, <1>7
-----------------------------------------------------------------------------
(* The answer to the final histogram *)

\* The events a chart counts, and those of a bar.
FieldedEvents == {e \in Collected : e.field # NoField /\ BatchOf(e.file) \in stored}

BarOf(t, i) ==
  {e \in FieldedEvents : /\ TagOfBatch(BatchOf(e.file)) = t
                         /\ Start + i * Delta <= e.time
                         /\ e.time < Start + (i + 1) * Delta}

\* What is known of a collected event.
LEMMA CollectedEvent ==
  ASSUME FilesInv, NEW e \in Collected
  PROVE  /\ e.file \in Files /\ e.time \in Nat /\ e.field \in Fields \cup {NoField}
         /\ Start <= e.time /\ Index(e.time) \in Buckets
         /\ BatchOf(e.file) \in BatchIds /\ TagOfBatch(BatchOf(e.file)) \in Tags
<1>1. e \in Event /\ Kept(e)
  BY StagedIs
<1>2. e.file \in Files /\ e.time \in Nat /\ e.field \in Fields \cup {NoField} /\ From < e.time /\ e.time < To
  BY <1>1 DEF Event, Kept
<1>3. Start <= e.time /\ Index(e.time) \in Buckets
  BY <1>2, IndexInBuckets
<1>. QED
  BY <1>2, <1>3, FileFacts, BatchFacts

\* A bar has what its batches have counted under the keys of its tag.
LEMMA BarIs ==
  ASSUME FilesInv, NEW t \in Tags, NEW i \in Buckets, stored \subseteq BatchIds
  PROVE  BarOf(t, i) =
           UNION {UNION {EventsAt(Collected, b, k, i) : b \in stored} : k \in {key \in Keys : key[1] = t}}
<1>. DEFINE K == {key \in Keys : key[1] = t}
            Sum == UNION {UNION {EventsAt(Collected, b, k, i) : b \in stored} : k \in K}
<1>0. i \in Nat
  BY DEF Buckets
<1>1. ASSUME NEW e \in BarOf(t, i) PROVE e \in Sum
  <2>1. e \in Collected /\ e.field # NoField /\ BatchOf(e.file) \in stored /\ TagOfBatch(BatchOf(e.file)) = t
        /\ Start + i * Delta <= e.time /\ e.time < Start + (i + 1) * Delta
    BY DEF BarOf, FieldedEvents
  <2>2. PICK b \in stored : b = BatchOf(e.file)
    BY <2>1
  <2>3. e.time \in Nat /\ Start <= e.time /\ e.field \in Fields /\ e.file \in Files
    BY <2>1, CollectedEvent
  <2>4. Index(e.time) = i
    BY <1>0, <2>1, <2>3, IndexIs
  <2>5. e.file \in Range(Batches[b])
    BY <2>2, <2>3, FileFacts
  <2>6. PICK k \in K : k = <<t, e.field>>
    BY <2>3 DEF Keys
  <2>7. e \in EventsAt(Collected, b, k, i)
    BY <2>1, <2>2, <2>4, <2>5, <2>6 DEF EventsAt
  <2>8. PICK U : U = UNION {EventsAt(Collected, d, k, i) : d \in stored}
    OBVIOUS
  <2>9. e \in U
    BY <2>7, <2>8, Zenon
  <2>10. U \in {UNION {EventsAt(Collected, d, l, i) : d \in stored} : l \in K}
    <3>. HIDE DEF K
    <3>. QED
      BY <2>8, Zenon
  <2>. QED
    BY <2>9, <2>10, Zenon
<1>2. ASSUME NEW k \in K, NEW b \in stored, NEW e \in EventsAt(Collected, b, k, i) PROVE e \in BarOf(t, i)
  <2>1. e \in Collected /\ e.file \in Range(Batches[b]) /\ <<TagOfBatch(b), e.field>> = k /\ Index(e.time) = i
    BY DEF EventsAt
  <2>2. e.time \in Nat /\ Start <= e.time /\ e.file \in Files
    BY <2>1, CollectedEvent
  <2>3. BatchOf(e.file) = b
    BY <2>1, <2>2, FileFacts
  <2>4. k[1] = t /\ k[2] \in Fields /\ k[1] = TagOfBatch(b) /\ k[2] = e.field
    BY <2>1 DEF Keys
  <2>5. e.field # NoField
    BY <2>4, ResultsAssumption
  <2>6. Start + i * Delta <= e.time /\ e.time < Start + (i + 1) * Delta
    BY <1>0, <2>1, <2>2, IndexIs
  <2>. QED
    BY <2>1, <2>3, <2>4, <2>5, <2>6 DEF BarOf, FieldedEvents
<1>. HIDE DEF K
<1>3. Sum \subseteq BarOf(t, i)
  <2>. SUFFICES ASSUME NEW k \in K, NEW e \in UNION {EventsAt(Collected, b, k, i) : b \in stored}
                PROVE  e \in BarOf(t, i)
    BY Zenon
  <2>1. PICK b \in stored : e \in EventsAt(Collected, b, k, i)
    BY Zenon
  <2>. QED
    BY <1>2, <2>1
<1>4. BarOf(t, i) \subseteq Sum
  <2>. HIDE DEF Sum
  <2>. QED
    BY <1>1
<1>5. BarOf(t, i) = Sum
  <2>. HIDE DEF Sum
  <2>. QED
    BY <1>3, <1>4
<1>. QED
  BY <1>5 DEF K

LEMMA ChartIs ==
  ASSUME FilesInv, HistoInv, NEW t \in Tags, NEW i \in Buckets, NEW c,
         c = SumFunction([k \in {key \in Keys : key[1] = t} |-> SumFunction([b \in stored |-> histo[b][k][i]])])
  PROVE  c = Cardinality(BarOf(t, i)) /\ c \in Nat
<1>. DEFINE K == {key \in Keys : key[1] = t}
            Under(k) == UNION {EventsAt(Collected, b, k, i) : b \in stored}
            of == [k \in K |-> SumFunction([b \in stored |-> histo[b][k][i]])]
            Es == [k \in K |-> Under(k)]
<1>1. stored \subseteq BatchIds /\ IsFiniteSet(stored)
  BY FilesFinite, FS_Subset DEF HistoInv
<1>2. IsFiniteSet(K)
  <2>. DEFINE g == [x \in Fields |-> <<t, x>>]
  <2>1. g \in Surjection(Fields, K)
    <3>1. \A x \in Fields : g[x] \in K
      BY DEF Keys
    <3>2. \A k \in K : \E x \in Fields : g[x] = k
      BY DEF Keys
    <3>3. g \in [Fields -> K]
      BY <3>1
    <3>. QED
      BY <3>2, <3>3, Zenon DEF Surjection
  <2>. QED
    BY <2>1, FS_Surjection, ResultsAssumption
<1>3. \A b \in BatchIds, k \in K : /\ IsFiniteSet(EventsAt(Collected, b, k, i))
                                   /\ histo[b][k][i] = Cardinality(EventsAt(Collected, b, k, i))
  <2>1. \A b \in BatchIds, k \in K : EventsAt(Collected, b, k, i) \subseteq Collected
    BY DEF EventsAt
  <2>2. IsFiniteSet(Collected)
    BY StagedIs
  <2>3. \A b \in BatchIds, k \in K : IsFiniteSet(EventsAt(Collected, b, k, i))
    BY <2>1, <2>2, FS_Subset
  <2>. QED
    BY <2>3 DEF HistoInv
<1>4. ASSUME NEW k \in K PROVE of[k] = Cardinality(Under(k)) /\ IsFiniteSet(Under(k))
  <2>. DEFINE fun == [b \in stored |-> histo[b][k][i]]
              E == [b \in stored |-> EventsAt(Collected, b, k, i)]
  <2>1. DOMAIN fun = stored /\ \A b \in stored : IsFiniteSet(E[b]) /\ fun[b] = Cardinality(E[b])
    BY <1>1, <1>3
  <2>2. \A b, d \in stored : b # d => E[b] \cap E[d] = {}
    <3>1. \A b, d \in BatchIds : b # d => EventsAt(Collected, b, k, i) \cap EventsAt(Collected, d, k, i) = {}
      BY FileFacts DEF EventsAt
    <3>. QED
      BY <1>1, <3>1
  <2>3. UNION {E[b] : b \in stored} = Under(k)
    OBVIOUS
  <2>4. of[k] = SumFunction(fun)
    OBVIOUS
  <2>. HIDE DEF fun, E, Under, of, K
  <2>. QED
    BY <1>1, <2>1, <2>2, <2>3, <2>4, SumOfCards
<1>5. \A k, l \in K : k # l => Under(k) \cap Under(l) = {}
  BY DEF EventsAt
<1>6. DOMAIN of = K /\ \A k \in K : IsFiniteSet(Es[k]) /\ of[k] = Cardinality(Es[k])
  <2>1. \A k \in K : Es[k] = Under(k)
    OBVIOUS
  <2>. HIDE DEF Under
  <2>. QED
    BY <1>4, <2>1
<1>7. \A k, l \in K : k # l => Es[k] \cap Es[l] = {}
  <2>. HIDE DEF Under
  <2>. QED
    BY <1>5
<1>8. UNION {Es[k] : k \in K} = BarOf(t, i)
  <2>1. UNION {Es[k] : k \in K} = UNION {Under(k) : k \in K}
    <3>. HIDE DEF Under
    <3>. QED
      OBVIOUS
  <2>2. BarOf(t, i) = UNION {Under(k) : k \in K}
    BY <1>1, BarIs, Zenon
  <2>. QED
    BY <2>1, <2>2
<1>9. c = SumFunction(of)
  OBVIOUS
<1>. HIDE DEF K, of, Es
<1>10. IsFiniteSet(UNION {Es[k] : k \in K}) /\ SumFunction(of) = Cardinality(UNION {Es[k] : k \in K})
  BY <1>2, <1>6, <1>7, SumOfCards
<1>. QED
  BY <1>8, <1>9, <1>10, FS_CardinalityType
LEMMA FieldedAreBars ==
  ASSUME FilesInv
  PROVE  FieldedEvents = UNION {BarOf(t, i) : t \in Tags, i \in Buckets}
<1>1. ASSUME NEW e \in FieldedEvents PROVE \E t \in Tags, i \in Buckets : e \in BarOf(t, i)
  <2>1. e \in Collected
    BY DEF FieldedEvents
  <2>2. /\ e.time \in Nat /\ Start <= e.time /\ Index(e.time) \in Buckets
        /\ TagOfBatch(BatchOf(e.file)) \in Tags
    BY <2>1, CollectedEvent
  <2>3. PICK i \in Buckets : i = Index(e.time)
    BY <2>2
  <2>4. Start + i * Delta <= e.time /\ e.time < Start + (i + 1) * Delta
    BY <2>2, <2>3, IndexIs DEF Buckets
  <2>5. e \in BarOf(TagOfBatch(BatchOf(e.file)), i)
    BY <2>4 DEF BarOf
  <2>. QED
    BY <2>2, <2>5
<1>2. \A t, i : BarOf(t, i) \subseteq FieldedEvents
  BY DEF BarOf
<1>. DEFINE Bars == {BarOf(t, i) : t \in Tags, i \in Buckets}
<1>3. FieldedEvents \subseteq UNION Bars
  <2>. SUFFICES ASSUME NEW e \in FieldedEvents PROVE e \in UNION Bars
    OBVIOUS
  <2>1. PICK t \in Tags, i \in Buckets : e \in BarOf(t, i)
    BY <1>1
  <2>2. PICK B \in Bars : B = BarOf(t, i)
    OBVIOUS
  <2>3. e \in B
    BY <2>1, <2>2
  <2>. HIDE DEF Bars
  <2>. QED
    BY <2>3, Zenon
<1>4. \A B \in Bars : B \subseteq FieldedEvents
  BY <1>2
<1>. HIDE DEF Bars
<1>5. FieldedEvents = UNION Bars
  BY <1>3, <1>4
<1>. QED
  BY <1>5 DEF Bars

-----------------------------------------------------------------------------
(* The invariant is inductive *)

LEMMA InitResults == Init => ResultsInv
<1>. SUFFICES ASSUME Init PROVE ResultsInv
  OBVIOUS
<1>. USE DEF Init
<1>1. FilesInv
  <2>1. ASSUME NEW f \in Files PROVE lines[f] \in Seq(Lines)
    <3>1. lines[f] \in UNION {BoundedSeq(Lines, MaxLines[g]) : g \in Files}
      BY DEF Contents
    <3>2. PICK g \in Files : lines[f] \in BoundedSeq(Lines, MaxLines[g])
      BY <3>1, Zenon
    <3>3. PICK m \in 0 .. MaxLines[g] : lines[f] \in [1 .. m -> Lines]
      BY <3>2 DEF BoundedSeq, SeqOf
    <3>4. m \in Nat
      BY <3>3, ResultsAssumption
    <3>. QED
      BY <3>3, <3>4
  <2>2. DOMAIN staged = {} /\ DOMAIN counted = {}
    OBVIOUS
  <2>3. EventFiles(staged) /\ EventFiles(counted)
    BY <2>2 DEF EventFiles
  <2>. QED
    BY <2>1, <2>2, <2>3 DEF FilesInv
<1>2. DoneInv
  BY BatchFacts DEF DoneInv
<1>3. HistoInv
  <2>1. Collected = {}
    BY DEF Collected, EventsIn
  <2>2. \A b, k, i : EventsAt(Collected, b, k, i) = {}
    BY <2>1 DEF EventsAt
  <2>3. ASSUME NEW b \in BatchIds, NEW k \in Keys, NEW i \in Buckets
        PROVE  histo[b][k][i] = Cardinality(EventsAt(Collected, b, k, i))
    BY <2>2, FS_EmptySet DEF NoCounts
  <2>. QED
    BY <2>3 DEF HistoInv, NoCounts
<1>4. AnswersInv
  BY DEF AnswersInv, MergedWhole, ChartCountsEvents, NoEvents, Range
<1>. QED
  BY <1>1, <1>2, <1>3, <1>4 DEF ResultsInv

\* As long as a batch is not closed, there is no answer.
LEMMA NoAnswerYet ==
  ASSUME AnswersInv, NEW b \in BatchIds, ~ Closed(b), UNCHANGED <<merged, chart>>
  PROVE  AnswersInv'
<1>1. merged = NoEvents /\ chart = NoChart
  BY DEF AnswersInv
<1>2. merged' = NoEvents /\ chart' = NoChart
  BY <1>1
<1>3. NoEvents.from = -1 /\ Range(NoEvents.events) = {}
  BY DEF NoEvents, Range
<1>. QED
  BY <1>2, <1>3 DEF AnswersInv, MergedWhole, ChartCountsEvents

\* One more file of a batch is searched, or its histogram is closed.
LEMMA DoneNext ==
  ASSUME DoneInv, NEW b \in BatchIds, done[b] <= Len(Batches[b]), done' = [done EXCEPT ![b] = @ + 1],
         \A f \in DOMAIN counted' \ DOMAIN counted : done[b] < Len(Batches[b]) /\ f = Batches[b][done[b] + 1]
  PROVE  DoneInv'
<1>1. done[b] \in Nat /\ done' \in [BatchIds -> Nat] /\ done'[b] = done[b] + 1
      /\ \A c \in BatchIds : c # b => done'[c] = done[c]
  BY DEF DoneInv
<1>2. \A c \in BatchIds : done'[c] \in 0 .. Len(Batches[c]) + 1
  BY <1>1, BatchFacts DEF DoneInv
<1>3. ASSUME NEW c \in BatchIds, NEW n \in 1 .. Len(Batches[c]), n > done'[c], Batches[c][n] \in DOMAIN counted'
      PROVE  FALSE
  <2>1. n > done[c]
    BY <1>1, <1>3, BatchFacts DEF DoneInv
  <2>2. Batches[c][n] \notin DOMAIN counted
    BY <2>1 DEF DoneInv
  <2>3. done[b] < Len(Batches[b]) /\ Batches[c][n] = Batches[b][done[b] + 1]
    BY <1>3, <2>2
  <2>4. done[b] + 1 \in 1 .. Len(Batches[b])
    BY <1>1, <2>3, BatchFacts
  <2>5. Batches[c][n] \in Range(Batches[c]) /\ Batches[c][n] \in Range(Batches[b])
    BY <2>3, <2>4, BatchFacts DEF Range
  <2>6. c = b
    BY <2>5, FileFacts
  <2>7. n = done[b] + 1
    BY <2>3, <2>4, <2>6, FileFacts
  <2>. QED
    BY <1>1, <1>3, <2>6, <2>7
<1>. QED
  BY <1>1, <1>2, <1>3 DEF DoneInv, BatchIds

\* A file more, with events.
LEMMA WithIs ==
  ASSUME NEW files, EventFiles(files), NEW f \in Files, f \notin DOMAIN files, NEW s, EventFile(f, s),
         NEW more, more = With(files, f, s)
  PROVE  /\ EventFiles(more) /\ DOMAIN more = DOMAIN files \cup {f} /\ more[f] = s
         /\ \A g \in DOMAIN files : more[g] = files[g]
         /\ EventsIn(more) = EventsIn(files) \cup Range(s)
<1>1. DOMAIN more = DOMAIN files \cup {f} /\ more[f] = s
      /\ \A g \in DOMAIN files : more[g] = files[g]
  BY DEF With
<1>2. EventFiles(more)
  <2>1. ASSUME NEW g \in DOMAIN more PROVE EventFile(g, more[g])
    BY <1>1 DEF EventFiles
  <2>. QED
    BY <1>1, <2>1 DEF EventFiles
<1>3. EventsIn(more) = EventsIn(files) \cup Range(s)
  <2>1. ASSUME NEW e PROVE e \in EventsIn(more) <=> e \in EventsIn(files) \/ e \in Range(s)
    <3>1. e \in EventsIn(more) <=> \E g \in DOMAIN more : e \in Range(more[g])
      BY Zenon DEF EventsIn
    <3>2. e \in EventsIn(files) <=> \E g \in DOMAIN files : e \in Range(files[g])
      BY Zenon DEF EventsIn
    <3>. QED
      BY <1>1, <3>1, <3>2
  <2>. QED
    BY <2>1, Zenon
<1>. QED
  BY <1>1, <1>2, <1>3

LEMMA FilesNext ==
  ASSUME FilesInv, NEW f \in Files, f \notin DOMAIN counted, lines' = lines,
         NEW s, EventFile(f, s), counted' = With(counted, f, s),
         NEW w, EventFile(f, w), staged' \in {staged, With(staged, f, w)},
         \A d, e \in Range(w) \ Range(s) : d = e
  PROVE  FilesInv' /\ Collected' = Collected \cup Range(s)
<1>1. EventFiles(staged) /\ EventFiles(counted) /\ DOMAIN staged \subseteq DOMAIN counted
      /\ \A g \in DOMAIN staged : \A d, e \in Range(staged[g]) \ Range(counted[g]) : d = e
  BY DEF FilesInv
<1>2. /\ EventFiles(counted') /\ DOMAIN counted' = DOMAIN counted \cup {f} /\ counted'[f] = s
      /\ \A g \in DOMAIN counted : counted'[g] = counted[g]
      /\ EventsIn(counted') = EventsIn(counted) \cup Range(s)
  <2>1. PICK old, new : old = counted /\ new = counted'
    OBVIOUS
  <2>2. EventFiles(old) /\ f \notin DOMAIN old /\ new = With(old, f, s)
    BY <1>1, <2>1 DEF EventFiles, With
  <2>3. /\ EventFiles(new) /\ DOMAIN new = DOMAIN old \cup {f} /\ new[f] = s
        /\ \A g \in DOMAIN old : new[g] = old[g]
        /\ EventsIn(new) = EventsIn(old) \cup Range(s)
    BY <2>2, WithIs
  <2>. QED
    BY <2>1, <2>3 DEF EventFiles, EventsIn
<1>3. Collected' = Collected \cup Range(s)
  BY <1>2 DEF Collected
<1>4. /\ EventFiles(staged') /\ DOMAIN staged' \subseteq DOMAIN staged \cup {f}
      /\ f \in DOMAIN staged' => staged'[f] = w
      /\ \A g \in DOMAIN staged : staged'[g] = staged[g]
  <2>1. f \notin DOMAIN staged
    BY <1>1
  <2>2. CASE staged' = staged
    BY <1>1, <2>1, <2>2
  <2>3. CASE staged' = With(staged, f, w)
    <3>1. PICK old, new : old = staged /\ new = staged'
      OBVIOUS
    <3>2. EventFiles(old) /\ f \notin DOMAIN old /\ new = With(old, f, w)
      BY <1>1, <2>1, <2>3, <3>1 DEF EventFiles, With
    <3>3. /\ EventFiles(new) /\ DOMAIN new = DOMAIN old \cup {f} /\ new[f] = w
          /\ \A g \in DOMAIN old : new[g] = old[g]
      BY <3>2, WithIs
    <3>. QED
      BY <3>1, <3>3 DEF EventFiles
  <2>. QED
    BY <2>2, <2>3
<1>5. ASSUME NEW g \in DOMAIN staged', NEW d \in Range(staged'[g]) \ Range(counted'[g]),
             NEW e \in Range(staged'[g]) \ Range(counted'[g])
      PROVE  d = e
  <2>1. CASE g = f
    BY <1>2, <1>4, <1>5, <2>1
  <2>2. CASE g \in DOMAIN staged
    BY <1>1, <1>2, <1>4, <1>5, <2>2
  <2>. QED
    BY <1>4, <2>1, <2>2
<1>6. DOMAIN staged' \subseteq DOMAIN counted' /\ \A g \in Files : lines'[g] \in Seq(Lines)
  BY <1>1, <1>2, <1>4 DEF FilesInv
<1>. QED
  BY <1>2, <1>3, <1>4, <1>5, <1>6 DEF FilesInv

\* An event file adds nothing to what other batches count.
LEMMA OfOthers ==
  ASSUME NEW b \in BatchIds, NEW f \in Range(Batches[b]), NEW s, EventFile(f, s),
         NEW c \in BatchIds, c # b, NEW S, NEW k, NEW i
  PROVE  EventsAt(S \cup Range(s), c, k, i) = EventsAt(S, c, k, i)
<1>1. \A e \in Range(s) : e.file = f
  BY EventFileInjective
<1>2. f \notin Range(Batches[c])
  BY FileFacts
<1>. QED
  BY <1>1, <1>2 DEF EventsAt

\* What the events of a file that was not searched before add to a histogram of its batch.
LEMMA CountedIs ==
  ASSUME FilesInv, NEW b \in BatchIds, NEW f \in Range(Batches[b]), f \notin DOMAIN counted,
         NEW s, EventFile(f, s), NEW k \in Keys, NEW i \in Buckets, NEW h,
         h[k][i] = Cardinality(EventsAt(Collected, b, k, i))
  PROVE  /\ Counted(h, TagOfBatch(b), s)[k][i] = Cardinality(EventsAt(Collected \cup Range(s), b, k, i))
         /\ Counted(h, TagOfBatch(b), s)[k][i] \in Nat
<1>. DEFINE S == EventsAt(Range(s), b, k, i)
            Old == EventsAt(Collected, b, k, i)
<1>1. IsInjective(s) /\ s \in Seq(Event) /\ \A e \in Range(s) : e \in Event /\ e.file = f
  BY EventFileInjective
<1>2. IsFiniteSet(Collected) /\ \A e \in Collected : e.file \in DOMAIN counted
  BY StagedIs
<1>3. Old \cap S = {}
  BY <1>1, <1>2 DEF EventsAt
<1>4. EventsAt(Collected \cup Range(s), b, k, i) = Old \cup S
  BY DEF EventsAt
<1>6. Cardinality({j \in DOMAIN s : s[j] \in S}) = Cardinality(Range(s) \cap S) /\ IsFiniteSet(Range(s) \cap S)
  BY <1>1, PositionsOf
<1>7. Range(s) \cap S = S
  BY DEF EventsAt
<1>8. {j \in DOMAIN s : <<TagOfBatch(b), s[j].field>> = k /\ Index(s[j].time) = i} = {j \in DOMAIN s : s[j] \in S}
  <2>1. \A j \in DOMAIN s : s[j] \in Range(s) /\ s[j].file \in Range(Batches[b])
    BY <1>1 DEF Range
  <2>. QED
    BY <2>1 DEF EventsAt
<1>9. Counted(h, TagOfBatch(b), s)[k][i] = h[k][i] + Cardinality({j \in DOMAIN s : s[j] \in S})
  BY <1>8 DEF Counted
<1>10. IsFiniteSet(Old)
  BY <1>2, FS_Subset DEF EventsAt
<1>. HIDE DEF Old, S
<1>11. Cardinality(Old \cup S) = Cardinality(Old) + Cardinality(S)
       /\ Cardinality(Old) \in Nat /\ Cardinality(S) \in Nat
  <2>1. Cardinality(Old \cup S) = Cardinality(Old) + Cardinality(S) - Cardinality(Old \cap S)
    BY <1>6, <1>7, <1>10, FS_Union
  <2>2. Cardinality(Old \cap S) = 0
    BY <1>3, FS_EmptySet
  <2>3. Cardinality(Old) \in Nat /\ Cardinality(S) \in Nat
    BY <1>6, <1>7, <1>10, FS_CardinalityType
  <2>. QED
    BY <2>1, <2>2, <2>3
<1>12. h[k][i] = Cardinality(Old)
  BY DEF Old
<1>13. Counted(h, TagOfBatch(b), s)[k][i] = Cardinality(Old) + Cardinality(S)
  BY <1>6, <1>7, <1>9, <1>12
<1>14. Cardinality(EventsAt(Collected \cup Range(s), b, k, i)) = Cardinality(Old) + Cardinality(S)
  BY <1>4, <1>11
<1>15. Cardinality(Old) + Cardinality(S) \in Nat
  BY <1>11
<1>. QED
  BY <1>13, <1>14, <1>15, Zenon

LEMMA SearchFileKeeps ==
  ASSUME ResultsInv, NEW b \in BatchIds, SearchFile(b)
  PROVE  ResultsInv'
<1>1. FilesInv /\ DoneInv /\ HistoInv /\ AnswersInv
  BY DEF ResultsInv
<1>2. /\ done[b] < Len(Batches[b]) /\ done' = [done EXCEPT ![b] = @ + 1]
      /\ UNCHANGED <<lines, stored, merged, chart>>
  BY DEF SearchFile
<1>3. done[b] \in Nat /\ Len(Batches[b]) \in Nat /\ done[b] + 1 \in 1 .. Len(Batches[b])
  BY <1>1, <1>2, BatchFacts DEF DoneInv
<1>9. done[b] <= Len(Batches[b])
  BY <1>3
<1>4. AnswersInv'
  <2>1. ~ Closed(b)
    BY <1>2, <1>3 DEF Closed
  <2>2. UNCHANGED <<merged, chart>>
    BY <1>2
  <2>. QED
    BY <1>1, <2>1, <2>2, NoAnswerYet
<1>5. PICK f : f = Batches[b][done[b] + 1]
  OBVIOUS
<1>6. f \in Files /\ f \in Range(Batches[b]) /\ f \notin DOMAIN counted
  <2>1. f \in Files /\ f \in Range(Batches[b])
    BY <1>3, <1>5, BatchFacts DEF Range
  <2>2. done[b] + 1 > done[b]
    BY <1>3
  <2>. QED
    BY <1>1, <1>3, <1>5, <2>1, <2>2 DEF DoneInv
<1>7. CASE UNCHANGED <<staged, counted, histo>>
  <2>1. FilesInv'
    BY <1>1, <1>2, <1>7 DEF FilesInv
  <2>2. DoneInv'
    <3>1. \A g \in DOMAIN counted' \ DOMAIN counted : done[b] < Len(Batches[b]) /\ g = Batches[b][done[b] + 1]
      BY <1>7
    <3>. QED
      BY <1>1, <1>2, <1>9, <3>1, DoneNext
  <2>3. HistoInv'
    <3>1. Collected' = Collected /\ histo' = histo /\ stored' = stored
      BY <1>2, <1>7 DEF Collected
    <3>. QED
      BY <1>1, <3>1 DEF HistoInv
  <2>. QED
    BY <1>4, <2>1, <2>2, <2>3 DEF ResultsInv
<1>8. ASSUME NEW n \in 0 .. Len(lines[f]), NEW m \in 0 .. Len(lines[f]), m <= n + 1,
             counted' = With(counted, f, EventsOf(f, n)),
             staged' \in {staged, With(staged, f, EventsOf(f, m))},
             histo' = [histo EXCEPT ![b] = Counted(@, TagOfBatch(b), EventsOf(f, n))]
      PROVE  ResultsInv'
  <2>1. lines[f] \in Seq(Lines) /\ lines' = lines
    BY <1>1, <1>2, <1>6 DEF FilesInv
  <2>2. PICK s : s = EventsOf(f, n) /\ EventFile(f, s)
    BY <1>6, <1>8, <2>1, EventsAre
  <2>3. FilesInv' /\ Collected' = Collected \cup Range(s)
    <3>1. PICK w : w = EventsOf(f, m) /\ EventFile(f, w)
      BY <1>6, <1>8, <2>1, EventsAre
    <3>2. \A d, e \in Range(w) \ Range(s) : d = e
      BY <1>6, <1>8, <2>1, <2>2, <3>1, OneAhead
    <3>3. counted' = With(counted, f, s) /\ staged' \in {staged, With(staged, f, w)}
      BY <1>8, <2>2, <3>1
    <3>. QED
      BY <1>1, <1>6, <2>1, <2>2, <3>1, <3>2, <3>3, FilesNext
  <2>4. DoneInv'
    <3>1. \A g \in DOMAIN counted' \ DOMAIN counted : g = f
      BY <1>8 DEF With
    <3>2. \A g \in DOMAIN counted' \ DOMAIN counted : done[b] < Len(Batches[b]) /\ g = Batches[b][done[b] + 1]
      BY <1>2, <1>5, <3>1
    <3>. QED
      BY <1>1, <1>2, <1>9, <3>2, DoneNext
  <2>5. /\ histo' \in [BatchIds -> [Keys -> [Buckets -> Nat]]]
        /\ \A c \in BatchIds, k \in Keys, i \in Buckets :
             histo'[c][k][i] = Cardinality(EventsAt(Collected \cup Range(s), c, k, i))
    <3>. DEFINE h == Counted(histo[b], TagOfBatch(b), s)
    <3>1. histo' = [histo EXCEPT ![b] = h]
      BY <1>8, <2>2
    <3>2. ASSUME NEW k \in Keys, NEW i \in Buckets
          PROVE  /\ h[k][i] = Cardinality(EventsAt(Collected \cup Range(s), b, k, i)) /\ h[k][i] \in Nat
                 /\ \A c \in BatchIds : c # b =>
                      EventsAt(Collected \cup Range(s), c, k, i) = EventsAt(Collected, c, k, i)
      <4>1. PICK g : g = histo[b]
        OBVIOUS
      <4>2. g[k][i] = Cardinality(EventsAt(Collected, b, k, i))
        BY <1>1, <4>1 DEF HistoInv
      <4>3. EventFile(f, s) /\ FilesInv
        BY <1>1, <2>2
      <4>4. /\ Counted(g, TagOfBatch(b), s)[k][i] = Cardinality(EventsAt(Collected \cup Range(s), b, k, i))
            /\ Counted(g, TagOfBatch(b), s)[k][i] \in Nat
        BY <1>6, <4>2, <4>3, CountedIs, Zenon
      <4>5. ASSUME NEW c \in BatchIds, c # b
            PROVE  EventsAt(Collected \cup Range(s), c, k, i) = EventsAt(Collected, c, k, i)
        BY <1>6, <4>3, <4>5, OfOthers
      <4>. QED
        BY <4>1, <4>4, <4>5, Zenon
    <3>3. h = [k \in Keys |-> [i \in Buckets |-> h[k][i]]]
      BY DEF Counted
    <3>. HIDE DEF h
    <3>4. h \in [Keys -> [Buckets -> Nat]]
      BY <3>2, <3>3
    <3>5. histo \in [BatchIds -> [Keys -> [Buckets -> Nat]]]
      BY <1>1 DEF HistoInv
    <3>6. histo' \in [BatchIds -> [Keys -> [Buckets -> Nat]]]
      BY <3>1, <3>4, <3>5
    <3>7. histo'[b] = h /\ \A c \in BatchIds : c # b => histo'[c] = histo[c]
      BY <3>1, <3>5
    <3>8. ASSUME NEW c \in BatchIds, NEW k \in Keys, NEW i \in Buckets
          PROVE  histo'[c][k][i] = Cardinality(EventsAt(Collected \cup Range(s), c, k, i))
      <4>1. CASE c = b
        BY <3>2, <3>7, <4>1
      <4>2. CASE c # b
        <5>1. histo[c][k][i] = Cardinality(EventsAt(Collected, c, k, i))
          BY <1>1 DEF HistoInv
        <5>. QED
          BY <3>2, <3>7, <4>2, <5>1
      <4>. QED
        BY <4>1, <4>2
    <3>. QED
      BY <3>6, <3>8
  <2>6. HistoInv'
    <3>1. stored' \subseteq BatchIds
      BY <1>1, <1>2 DEF HistoInv
    <3>. QED
      BY <2>3, <2>5, <3>1 DEF HistoInv
  <2>. QED
    BY <1>4, <2>3, <2>4, <2>6 DEF ResultsInv
<1>. QED
  BY <1>5, <1>7, <1>8 DEF SearchFile
LEMMA CloseHistoKeeps ==
  ASSUME ResultsInv, NEW b \in BatchIds, CloseHisto(b)
  PROVE  ResultsInv'
<1>1. FilesInv /\ DoneInv /\ HistoInv /\ AnswersInv
  BY DEF ResultsInv
<1>2. /\ done[b] = Len(Batches[b]) /\ done' = [done EXCEPT ![b] = @ + 1]
      /\ stored' \in {stored, stored \cup {b}} /\ UNCHANGED <<lines, staged, counted, histo, merged, chart>>
  BY DEF CloseHisto, Searched
<1>3. done[b] <= Len(Batches[b]) /\ Len(Batches[b]) \in Nat
  BY <1>2, BatchFacts
<1>4. FilesInv'
  BY <1>1, <1>2 DEF FilesInv
<1>5. DoneInv'
  <2>1. \A f \in DOMAIN counted' \ DOMAIN counted : done[b] < Len(Batches[b]) /\ f = Batches[b][done[b] + 1]
    BY <1>2
  <2>. QED
    BY <1>1, <1>2, <1>3, <2>1, DoneNext
<1>6. HistoInv'
  <2>1. Collected' = Collected /\ histo' = histo /\ (stored \subseteq BatchIds => stored' \subseteq BatchIds)
    BY <1>2 DEF Collected
  <2>. QED
    BY <1>1, <2>1 DEF HistoInv
<1>7. AnswersInv'
  <2>1. ~ Closed(b) /\ UNCHANGED <<merged, chart>>
    BY <1>2, <1>3 DEF Closed
  <2>. QED
    BY <1>1, <2>1, NoAnswerYet
<1>. QED
  BY <1>4, <1>5, <1>6, <1>7 DEF ResultsInv

\* An answer leaves the files and the histograms alone.
LEMMA Answered ==
  ASSUME ResultsInv, UNCHANGED <<lines, done, staged, counted, histo, stored>>
  PROVE  FilesInv' /\ DoneInv' /\ HistoInv' /\ Staged' = Staged /\ Collected' = Collected
<1>1. FilesInv /\ DoneInv /\ HistoInv /\ Staged' = Staged /\ Collected' = Collected
  BY DEF ResultsInv, Staged, Collected
<1>2. FilesInv'
  BY <1>1 DEF FilesInv
<1>3. DoneInv'
  BY <1>1 DEF DoneInv
<1>4. HistoInv'
  BY <1>1 DEF HistoInv
<1>. QED
  BY <1>1, <1>2, <1>3, <1>4

LEMMA MergeEventsKeeps ==
  ASSUME ResultsInv, MergeEvents
  PROVE  ResultsInv'
<1>1. FilesInv /\ AnswersInv
  BY DEF ResultsInv
<1>2. (\A b \in BatchIds : Closed(b)) /\ UNCHANGED <<lines, done, staged, counted, histo, stored, chart>>
  BY DEF MergeEvents
<1>3. PICK order \in Orders, from \in {From} \cup {Start + i * Delta : i \in Buckets} :
        merged' = [from |-> from, events |-> Cut(Spliced(order, from))]
  BY DEF MergeEvents
<1>4. FilesInv' /\ DoneInv' /\ HistoInv' /\ Staged' = Staged /\ Collected' = Collected
  BY <1>2, Answered
<1>5. from \in Nat
  <2>1. ASSUME NEW i \in Buckets PROVE Start + i * Delta \in Nat
    BY StartIs DEF Buckets
  <2>. QED
    BY <2>1, StartIs
<1>6. PICK all : all = Spliced(order, from)
  OBVIOUS
<1>7. PICK es : es = Cut(all)
  OBVIOUS
<1>. DEFINE W == {e \in Staged : e.time > from}
<1>8. /\ all \in Seq(Event) /\ IsInjective(all) /\ InFileOrder(all)
      /\ Range(all) = W /\ Len(all) = Cardinality(W)
  BY <1>1, <1>5, <1>6, SplicedIs
<1>. HIDE DEF W
<1>9. /\ es \in Seq(Event) /\ IsInjective(es) /\ InFileOrder(es)
      /\ Range(es) \subseteq W /\ Len(es) = Min({Limit, Cardinality(W)})
  BY <1>7, <1>8, CutIs
<1>10. merged'.from = from /\ merged'.events = es
  BY <1>3, <1>6, <1>7
<1>11. Range(es) \subseteq Event /\ DOMAIN es = 1 .. Len(es)
  BY <1>9 DEF Range
<1>12. MergedWhole'
  <2>1. \A i, j \in DOMAIN es : i < j /\ es[i].file = es[j].file => es[i].line < es[j].line
    BY <1>9, <1>11 DEF InFileOrder
  <2>2. {e \in Staged' : e.time > merged'.from} = W
    BY <1>4, <1>10 DEF W
  <2>. QED
    BY <1>9, <1>10, <2>1, <2>2 DEF MergedWhole
<1>13. ChartCountsEvents'
  <2>1. ChartCountsEvents
    BY <1>1 DEF AnswersInv
  <2>2. chart' = chart /\ stored' = stored /\ Staged' = Staged /\ Collected' = Collected
    BY <1>2, <1>4
  <2>. QED
    BY <2>1, <2>2 DEF ChartCountsEvents
<1>14. \A b \in BatchIds : Closed(b)'
  BY <1>2 DEF Closed
<1>15. AnswersInv'
  <2>1. merged'.from \in Nat \cup {-1} /\ Range(merged'.events) \subseteq Event
    BY <1>5, <1>10, <1>11
  <2>2. chart' # NoChart => chart' \in [Tags -> [Buckets -> Nat]]
    BY <1>1, <1>2 DEF AnswersInv
  <2>. QED
    BY <1>12, <1>13, <1>14, <2>1, <2>2 DEF AnswersInv, BatchIds
<1>. QED
  BY <1>4, <1>15 DEF ResultsInv

LEMMA MergeHistoKeeps ==
  ASSUME ResultsInv, MergeHisto
  PROVE  ResultsInv'
<1>1. FilesInv /\ HistoInv /\ AnswersInv
  BY DEF ResultsInv
<1>2. (\A b \in BatchIds : Closed(b)) /\ UNCHANGED <<lines, done, staged, counted, histo, stored, merged>>
  BY DEF MergeHisto
<1>. DEFINE bar(t, i) == SumFunction([k \in {key \in Keys : key[1] = t} |->
                           SumFunction([b \in stored |-> histo[b][k][i]])])
<1>3. chart' = [t \in Tags |-> [i \in Buckets |-> bar(t, i)]]
  BY DEF MergeHisto
<1>4. FilesInv' /\ DoneInv' /\ HistoInv' /\ Staged' = Staged /\ Collected' = Collected
  BY <1>2, Answered
<1>5. ASSUME NEW t \in Tags, NEW i \in Buckets PROVE bar(t, i) = Cardinality(BarOf(t, i)) /\ bar(t, i) \in Nat
  BY <1>1, ChartIs
<1>. HIDE DEF bar
<1>6. /\ chart' \in [Tags -> [Buckets -> Nat]]
      /\ \A t \in Tags, i \in Buckets : chart'[t][i] = Cardinality(BarOf(t, i))
  BY <1>3, <1>5
<1>7. FieldedEvents = UNION {BarOf(t, i) : t \in Tags, i \in Buckets}
  BY <1>1, FieldedAreBars
<1>8. ChartCountsEvents'
  <2>1. stored' = stored /\ Staged' = Staged /\ Collected' = Collected
    BY <1>2, <1>4
  <2>2. FieldedEvents' = FieldedEvents /\ \A t, i : BarOf(t, i)' = BarOf(t, i)
    BY <2>1 DEF FieldedEvents, BarOf
  <2>3. \A d, e \in Staged \ Collected : d.file = e.file => d = e
    BY <1>1, AheadIs
  <2>. QED
    BY <1>6, <1>7, <2>1, <2>2, <2>3 DEF ChartCountsEvents, FieldedEvents, BarOf
<1>9. MergedWhole'
  <2>1. MergedWhole /\ merged' = merged
    BY <1>1, <1>2 DEF AnswersInv
  <2>. QED
    BY <1>4, <2>1 DEF MergedWhole
<1>10. \A b \in BatchIds : Closed(b)'
  BY <1>2 DEF Closed
<1>11. AnswersInv'
  <2>1. merged'.from \in Nat \cup {-1} /\ Range(merged'.events) \subseteq Event
    BY <1>1, <1>2 DEF AnswersInv
  <2>. QED
    BY <1>6, <1>8, <1>9, <1>10, <2>1 DEF AnswersInv, BatchIds
<1>. QED
  BY <1>4, <1>11 DEF ResultsInv

LEMMA ResultsInductive == Spec => []ResultsInv
<1>1. ResultsInv /\ [Next]_vars => ResultsInv'
  <2>. SUFFICES ASSUME ResultsInv, [Next]_vars PROVE ResultsInv'
    OBVIOUS
  <2>1. ASSUME NEW b \in BatchIds, SearchFile(b) PROVE ResultsInv'
    BY <2>1, SearchFileKeeps
  <2>2. ASSUME NEW b \in BatchIds, CloseHisto(b) PROVE ResultsInv'
    BY <2>2, CloseHistoKeeps
  <2>3. CASE MergeEvents
    BY <2>3, MergeEventsKeeps
  <2>4. CASE MergeHisto
    BY <2>4, MergeHistoKeeps
  <2>5. CASE UNCHANGED vars
    <3>1. FilesInv' /\ DoneInv' /\ HistoInv' /\ Staged' = Staged /\ Collected' = Collected
      BY <2>5, Answered DEF vars
    <3>2. AnswersInv /\ merged' = merged /\ chart' = chart /\ done' = done /\ stored' = stored
      BY <2>5 DEF ResultsInv, vars
    <3>3. MergedWhole'
      BY <3>1, <3>2 DEF AnswersInv, MergedWhole
    <3>4. ChartCountsEvents'
      BY <3>1, <3>2 DEF AnswersInv, ChartCountsEvents
    <3>5. AnswersInv'
      BY <3>2, <3>3, <3>4 DEF AnswersInv, Closed
    <3>. QED
      BY <3>1, <3>5 DEF ResultsInv
  <2>. QED
    BY <2>1, <2>2, <2>3, <2>4, <2>5 DEF Next
<1>. QED
  BY <1>1, InitResults, PTL DEF Spec

-----------------------------------------------------------------------------
(* Theorems *)

\* Every variable has its type, and every event of an event file or of a histogram is one
\* the search keeps: process writes and adds a line in the range that matches.
THEOREM TypeCorrect == Spec => []TypeOK
<1>1. ResultsInv => TypeOK
  <2>. SUFFICES ASSUME ResultsInv PROVE TypeOK
    OBVIOUS
  <2>1. FilesInv /\ DoneInv /\ HistoInv /\ AnswersInv
    BY DEF ResultsInv
  <2>2. \A e \in Staged \cup Collected : e \in Event /\ From < e.time /\ e.time < To /\ e.match
    BY <2>1, StagedIs DEF Kept
  <2>. QED
    BY <2>1, <2>2 DEF TypeOK, FilesInv, EventFiles, DoneInv, HistoInv, AnswersInv
<1>. QED
  BY <1>1, ResultsInductive, PTL

\* However many files, batches, tags, fields and buckets there are, whichever streams and
\* adds failed and whichever event files were lost: a bar of the chart has as many as
\* there are collected events of its time and tag, every event with a field is in a bar,
\* if its histogram was written, and at most one staged event of a file was not counted.
THEOREM ChartIsTheEvents == Spec => []ChartCountsEvents
<1>1. ResultsInv => ChartCountsEvents
  BY DEF ResultsInv, AnswersInv
<1>. QED
  BY <1>1, ResultsInductive, PTL

\* The final events are staged events after the time asked for, each once, those of a
\* file in its order, and as many as there are or the limit allows, whatever order the
\* HashMap has the files in.
THEOREM MergeIsWhole == Spec => []MergedWhole
<1>1. ResultsInv => MergedWhole
  BY DEF ResultsInv, AnswersInv
<1>. QED
  BY <1>1, ResultsInductive, PTL
=============================================================================
