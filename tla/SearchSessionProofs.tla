------------------------ MODULE SearchSessionProofs ------------------------
(***************************************************************************)
(* Theorems about SearchSession, for any listing, size of a batch and      *)
(* throttle, and any number of searches: its types, the count of batches,  *)
(* that a search is merged after its last batch, and that it implements    *)
(* SearchPromise.                                                          *)
(***************************************************************************)
EXTENDS SearchSession, FiniteSetTheorems, WellFoundedInduction, TLAPS

-----------------------------------------------------------------------------
(* The operators *)

LEMMA Products == ASSUME NEW a \in Nat, NEW b \in Nat, NEW s \in Nat, a <= b PROVE a * s <= b * s
<1>1. PICK d \in Nat : b = a + d
  <2>1. b - a \in Nat /\ b = a + (b - a)
    OBVIOUS
  <2>. QED
    BY <2>1
<1>2. b * s = a * s + d * s /\ d * s >= 0
  BY <1>1
<1>. QED
  BY <1>2

\* The least of two numbers.
LEMMA LeastOfTwo == ASSUME NEW a \in Nat, NEW b \in Nat PROVE Min({a, b}) = IF a <= b THEN a ELSE b
  BY DEF Min

\* A set of numbers up to n has a greatest one.
LEMMA GreatestOf ==
  ASSUME NEW n \in Nat, NEW T \in SUBSET (1 .. n), T # {}
  PROVE  \E m \in T : \A k \in T : m >= k
<1>. DEFINE R == {p \in Nat \X Nat : p[1] < p[2]}
            D == {n - k : k \in T}
<1>1. R = OpToRel(<, Nat)
  BY Zenon DEF OpToRel
<1>2. IsWellFoundedOn(R, Nat)
  BY <1>1, NatLessThanWellFounded
<1>3. D \in SUBSET Nat /\ D # {}
  <2>1. \A k \in T : k \in 1 .. n /\ n - k \in Nat
    OBVIOUS
  <2>. QED
    BY <2>1
<1>. HIDE DEF R, D
<1>4. PICK d \in D : \A e \in D : ~ (<<e, d>> \in R)
  BY <1>2, <1>3, WFMin
<1>5. d \in Nat /\ \A e \in D : e \in Nat /\ ~ (e < d)
  BY <1>3, <1>4 DEF R
<1>6. PICK m \in T : d = n - m
  BY DEF D
<1>7. \A k \in T : n - k \in D
  BY DEF D
<1>8. \A k \in T : m >= k
  BY <1>5, <1>6, <1>7
<1>. QED
  BY <1>8

\* What is left under a name is the events of a file of that name.
LEMMA EventsPutIs ==
  ASSUME NEW c, c.files \in Seq(Files), NEW put \in SUBSET Range(c.files)
  PROVE  /\ DOMAIN EventsPut(c, put) = {EventsName(c, f) : f \in put}
         /\ \A n \in DOMAIN EventsPut(c, put) :
              EventsPut(c, put)[n] \in put /\ EventsName(c, EventsPut(c, put)[n]) = n
<1>. DEFINE Of(n) == {i \in DOMAIN c.files : c.files[i] \in put /\ EventsName(c, c.files[i]) = n}
<1>1. EventsPut(c, put) = [n \in {EventsName(c, f) : f \in put} |-> c.files[Max(Of(n))]]
  BY DEF EventsPut
<1>2. Len(c.files) \in Nat /\ DOMAIN c.files = 1 .. Len(c.files)
  OBVIOUS
<1>3. ASSUME NEW n \in {EventsName(c, f) : f \in put} PROVE Max(Of(n)) \in Of(n)
  <2>1. Of(n) \in SUBSET (1 .. Len(c.files)) /\ Of(n) # {}
    BY <1>2 DEF Range
  <2>. HIDE DEF Of
  <2>2. \E m \in Of(n) : \A k \in Of(n) : m >= k
    BY <1>2, <2>1, GreatestOf
  <2>. QED
    BY <2>2 DEF Max
<1>4. \A n \in {EventsName(c, f) : f \in put} :
        c.files[Max(Of(n))] \in put /\ EventsName(c, c.files[Max(Of(n))]) = n
  BY <1>3
<1>. HIDE DEF Of
<1>. QED
  BY <1>1, <1>4

\* The batches are segments of the files: each has the files from where the one before
\* it ends, and there is none without a file.
LEMMA BatchesAre ==
  ASSUME NEW files \in Seq(Files)
  PROVE  /\ Len(Batches(files)) \in Nat
         /\ DOMAIN Batches(files) = 1 .. Len(Batches(files))
         /\ \A i \in DOMAIN Batches(files) :
              /\ Batches(files)[i] \in Seq(Files)
              /\ Len(Batches(files)[i]) \in 1 .. FileBatch + 1
              /\ (i - 1) * (FileBatch + 1) + Len(Batches(files)[i]) <= Len(files)
              /\ \A k \in 1 .. Len(Batches(files)[i]) :
                   Batches(files)[i][k] = files[(i - 1) * (FileBatch + 1) + k]
<1>. DEFINE size == FileBatch + 1
            n == (Len(files) + FileBatch) \div size
            last(i) == Min({i * size, Len(files)})
<1>1. size \in Nat \ {0} /\ Len(files) \in Nat /\ n \in Nat /\ n * size <= Len(files) + FileBatch
  <2>1. FileBatch \in Nat /\ Len(files) \in Nat
    BY SearchAssumption
  <2>2. size \in Nat \ {0} /\ Len(files) + FileBatch \in Nat
    BY <2>1
  <2>3. \A a \in Nat, b \in Nat \ {0} : a \div b \in Nat /\ (a \div b) * b <= a
    BY Z3
  <2>4. n \in Nat /\ n * size <= Len(files) + FileBatch
    BY <2>2, <2>3
  <2>. QED
    BY <2>1, <2>2, <2>4
<1>2. Batches(files) = [i \in 1 .. n |-> SubSeq(files, (i - 1) * size + 1, last(i))]
  BY DEF Batches
<1>3. ASSUME NEW i \in 1 .. n
      PROVE  /\ SubSeq(files, (i - 1) * size + 1, last(i)) \in Seq(Files)
             /\ Len(SubSeq(files, (i - 1) * size + 1, last(i))) = last(i) - (i - 1) * size
             /\ last(i) - (i - 1) * size \in 1 .. size
             /\ last(i) <= Len(files)
             /\ \A k \in 1 .. last(i) - (i - 1) * size :
                  SubSeq(files, (i - 1) * size + 1, last(i))[k] = files[(i - 1) * size + k]
  <2>1. i \in Nat /\ i - 1 \in Nat /\ i * size \in Nat /\ (i - 1) * size \in Nat
    BY <1>1, <1>3
  <2>2. i * size = (i - 1) * size + size /\ i * size <= n * size
    BY <1>1, <1>3, <2>1, Products
  <2>3. last(i) = IF i * size <= Len(files) THEN i * size ELSE Len(files)
    BY <1>1, <2>1, LeastOfTwo
  <2>4. /\ last(i) \in Nat /\ last(i) <= Len(files) /\ last(i) - (i - 1) * size \in 1 .. size
    <3>1. ASSUME NEW p \in Nat, NEW q \in Nat, NEW l \in Nat, NEW f \in Nat, q = p + (f + 1), q <= l + f
          PROVE  LET m == IF q <= l THEN q ELSE l IN m \in Nat /\ m <= l /\ m - p \in 1 .. f + 1
      BY <3>1
    <3>2. FileBatch \in Nat /\ size = FileBatch + 1
      BY SearchAssumption
    <3>3. i * size <= Len(files) + FileBatch
      <4>1. ASSUME NEW a \in Nat, NEW b \in Int, NEW d \in Nat, a <= b, b <= d PROVE a <= d
        BY <4>1
      <4>2. n * size \in Int /\ Len(files) + FileBatch \in Nat
        BY <1>1, <3>2
      <4>. HIDE DEF n, size
      <4>. QED
        BY <1>1, <2>1, <2>2, <4>1, <4>2
    <3>. HIDE DEF n, size, last
    <3>4. i * size = (i - 1) * size + (FileBatch + 1)
      BY <2>2, <3>2
    <3>5. LET m == IF i * size <= Len(files) THEN i * size ELSE Len(files)
          IN m \in Nat /\ m <= Len(files) /\ m - (i - 1) * size \in 1 .. FileBatch + 1
      BY <1>1, <2>1, <3>1, <3>2, <3>3, <3>4
    <3>. QED
      BY <2>3, <3>2, <3>5
  <2>. HIDE DEF size, n, last
  <2>5. \A a, b \in Nat : a + 1 <= b /\ b <= Len(files) =>
          /\ SubSeq(files, a + 1, b) \in Seq(Files)
          /\ Len(SubSeq(files, a + 1, b)) = b - a
          /\ \A k \in 1 .. b - a : SubSeq(files, a + 1, b)[k] = files[a + k]
    OBVIOUS
  <2>6. (i - 1) * size + 1 <= last(i)
    BY <1>1, <2>1, <2>4
  <2>. QED
    BY <2>1, <2>4, <2>5, <2>6
<1>4. DOMAIN Batches(files) = 1 .. n /\ Len(Batches(files)) = n
  BY <1>1, <1>2
<1>5. ASSUME NEW i \in 1 .. n
      PROVE  /\ Batches(files)[i] \in Seq(Files)
             /\ Len(Batches(files)[i]) \in 1 .. size
             /\ (i - 1) * size + Len(Batches(files)[i]) <= Len(files)
             /\ \A k \in 1 .. Len(Batches(files)[i]) : Batches(files)[i][k] = files[(i - 1) * size + k]
  <2>1. Batches(files)[i] = SubSeq(files, (i - 1) * size + 1, last(i))
    BY <1>2
  <2>2. (i - 1) * size \in Nat /\ last(i) \in Int
    <3>1. i \in Nat /\ i - 1 \in Nat /\ i * size \in Nat /\ (i - 1) * size \in Nat
      BY <1>1, <1>5
    <3>2. last(i) = IF i * size <= Len(files) THEN i * size ELSE Len(files)
      BY <1>1, <3>1, LeastOfTwo
    <3>. QED
      BY <1>1, <3>1, <3>2
  <2>. HIDE DEF n, size, last
  <2>3. /\ SubSeq(files, (i - 1) * size + 1, last(i)) \in Seq(Files)
        /\ Len(SubSeq(files, (i - 1) * size + 1, last(i))) = last(i) - (i - 1) * size
        /\ last(i) - (i - 1) * size \in 1 .. size
        /\ last(i) <= Len(files)
        /\ \A k \in 1 .. last(i) - (i - 1) * size :
             SubSeq(files, (i - 1) * size + 1, last(i))[k] = files[(i - 1) * size + k]
    BY <1>3
  <2>4. ASSUME NEW a \in Nat, NEW b \in Int PROVE a + (b - a) = b
    BY <2>4
  <2>5. (i - 1) * size + (last(i) - (i - 1) * size) = last(i)
    BY <2>2, <2>4
  <2>. QED
    BY <2>1, <2>3, <2>5, Zenon
<1>. HIDE DEF n
<1>. QED
  BY <1>1, <1>4, <1>5

\* No file is in two batches, or twice in one.
LEMMA BatchesApart ==
  ASSUME NEW files \in Seq(Files), IsInjective(files), NEW i \in DOMAIN Batches(files)
  PROVE  /\ IsInjective(Batches(files)[i]) /\ Range(Batches(files)[i]) \subseteq Range(files)
         /\ \A j \in DOMAIN Batches(files) : i # j => Range(Batches(files)[i]) \cap Range(Batches(files)[j]) = {}
<1>. DEFINE size == FileBatch + 1
            bs == Batches(files)
            base == [j \in Nat \ {0} |-> (j - 1) * size]
<1>1. /\ Len(bs) \in Nat /\ DOMAIN bs = 1 .. Len(bs) /\ size \in Nat \ {0}
      /\ Len(files) \in Nat /\ DOMAIN files = 1 .. Len(files)
  BY BatchesAre, SearchAssumption
<1>2. ASSUME NEW j \in DOMAIN bs
      PROVE  /\ bs[j] \in Seq(Files) /\ Len(bs[j]) \in 1 .. size /\ base[j] + Len(bs[j]) <= Len(files)
             /\ \A k \in 1 .. Len(bs[j]) : bs[j][k] = files[base[j] + k]
             /\ j \in Nat \ {0}
  <2>1. /\ bs[j] \in Seq(Files) /\ Len(bs[j]) \in 1 .. size /\ (j - 1) * size + Len(bs[j]) <= Len(files)
        /\ \A k \in 1 .. Len(bs[j]) : bs[j][k] = files[(j - 1) * size + k]
    BY BatchesAre, <1>2
  <2>2. j \in Nat \ {0}
    BY <1>1, <1>2
  <2>. HIDE DEF size, bs
  <2>. QED
    BY <2>1, <2>2
<1>3. ASSUME NEW j \in Nat \ {0} PROVE base[j] \in Nat
  <2>1. j - 1 \in Nat /\ (j - 1) * size \in Nat
    BY <1>1
  <2>. QED
    BY <2>1
<1>4. ASSUME NEW j \in Nat \ {0}, NEW k \in Nat \ {0}, j < k PROVE base[j] + size <= base[k]
  <2>1. j \in Nat /\ k - 1 \in Nat /\ j <= k - 1
    BY <1>4
  <2>2. j * size <= (k - 1) * size
    BY <1>1, <2>1, Products
  <2>3. j * size = (j - 1) * size + size
    BY <1>1, <2>1
  <2>. QED
    BY <2>2, <2>3
<1>. HIDE DEF base, bs, size
<1>5. ASSUME NEW j \in DOMAIN bs
      PROVE  /\ DOMAIN bs[j] = 1 .. Len(bs[j]) /\ base[j] \in Nat
             /\ \A k \in DOMAIN bs[j] : /\ k \in 1 .. size /\ bs[j][k] = files[base[j] + k]
                                        /\ base[j] + k \in DOMAIN files
  <2>1. DOMAIN bs[j] = 1 .. Len(bs[j]) /\ Len(bs[j]) \in Nat
    BY <1>2
  <2>2. base[j] \in Nat /\ base[j] + Len(bs[j]) <= Len(files) /\ Len(bs[j]) <= size
    BY <1>1, <1>2, <1>3
  <2>3. \A k \in 1 .. Len(bs[j]) : k \in 1 .. size /\ base[j] + k \in 1 .. Len(files)
    BY <1>1, <2>1, <2>2
  <2>. QED
    BY <1>1, <1>2, <2>1, <2>2, <2>3
<1>6. ASSUME NEW j \in DOMAIN bs, NEW k \in DOMAIN bs[i], NEW m \in DOMAIN bs[j], bs[i][k] = bs[j][m]
      PROVE  i = j /\ k = m
  <2>1. base[i] + k = base[j] + m
    BY <1>5, <1>6 DEF IsInjective, bs
  <2>2. /\ i \in Nat \ {0} /\ j \in Nat \ {0} /\ base[i] \in Nat /\ base[j] \in Nat
        /\ k \in 1 .. size /\ m \in 1 .. size
    BY <1>2, <1>5, <1>6 DEF bs
  <2>3. ~(i < j) /\ ~(j < i)
    <3>1. ASSUME NEW a \in Nat, NEW b \in Nat, NEW x \in 1 .. size, NEW y \in 1 .. size, a + x = b + y
          PROVE  ~(a + size <= b) /\ ~(b + size <= a)
      BY <1>1, <3>1
    <3>2. ~(base[i] + size <= base[j]) /\ ~(base[j] + size <= base[i])
      BY <2>1, <2>2, <3>1
    <3>. QED
      BY <1>4, <2>2, <3>2
  <2>4. i = j
    BY <2>2, <2>3
  <2>5. ASSUME NEW a \in Nat, NEW x \in 1 .. size, NEW y \in 1 .. size, a + x = a + y PROVE x = y
    BY <1>1, <2>5
  <2>. QED
    BY <2>1, <2>2, <2>4, <2>5
<1>7. i \in DOMAIN bs
  BY DEF bs
<1>8. IsInjective(bs[i])
  BY <1>6, <1>7 DEF IsInjective
<1>9. Range(bs[i]) \subseteq Range(files)
  BY <1>5, <1>7 DEF Range
<1>10. \A j \in DOMAIN bs : i # j => Range(bs[i]) \cap Range(bs[j]) = {}
  BY <1>6 DEF Range
<1>. QED
  BY <1>8, <1>9, <1>10 DEF bs

LEMMA Counting == ASSUME NEW n \in Nat PROVE IsFiniteSet(1 .. n) /\ Cardinality(1 .. n) = n
  BY FS_Interval

\* Results added up are a number, and grow by at most the new ones.
LEMMA SumIs ==
  ASSUME NEW rs \in Seq({0, 1})
  PROVE  SumOf(rs) \in Nat /\ SumOf(rs) <= Len(rs) /\ IsFiniteSet({i \in DOMAIN rs : rs[i] = 1})
<1>1. DOMAIN rs = 1 .. Len(rs) /\ Len(rs) \in Nat
  OBVIOUS
<1>2. IsFiniteSet(1 .. Len(rs)) /\ Cardinality(1 .. Len(rs)) = Len(rs)
  BY <1>1, Counting, Zenon
<1>3. {i \in DOMAIN rs : rs[i] = 1} \in SUBSET (1 .. Len(rs))
  BY <1>1
<1>4. /\ IsFiniteSet({i \in DOMAIN rs : rs[i] = 1})
      /\ Cardinality({i \in DOMAIN rs : rs[i] = 1}) <= Cardinality(1 .. Len(rs))
  BY <1>2, <1>3, FS_Subset
<1>. QED
  BY <1>2, <1>4, FS_CardinalityType DEF SumOf

LEMMA SumGrows ==
  ASSUME NEW rs \in Seq({0, 1}), NEW ts \in Seq({0, 1})
  PROVE  SumOf(rs \o ts) \in SumOf(rs) .. SumOf(rs) + Len(ts)
<1>. DEFINE all == rs \o ts
            ones == {i \in DOMAIN all : all[i] = 1}
            old == {i \in DOMAIN rs : rs[i] = 1}
            new == {i \in Len(rs) + 1 .. Len(rs) + Len(ts) : all[i] = 1}
<1>1. /\ Len(rs) \in Nat /\ Len(ts) \in Nat /\ DOMAIN rs = 1 .. Len(rs)
      /\ DOMAIN all = 1 .. Len(rs) + Len(ts) /\ all \in Seq({0, 1})
      /\ \A i \in 1 .. Len(rs) : all[i] = rs[i]
  OBVIOUS
<1>2. ones = old \cup new /\ old \cap new = {}
  BY <1>1
<1>3. IsFiniteSet(old) /\ Cardinality(old) \in Nat
  BY SumIs, FS_CardinalityType
<1>4. IsFiniteSet(Len(rs) + 1 .. Len(rs) + Len(ts)) /\ Cardinality(Len(rs) + 1 .. Len(rs) + Len(ts)) = Len(ts)
  <2>1. \A a \in Nat, b \in Nat : IsFiniteSet(a + 1 .. a + b) /\ Cardinality(a + 1 .. a + b) = b
    <3>. SUFFICES ASSUME NEW a \in Nat, NEW b \in Nat
                  PROVE  IsFiniteSet(a + 1 .. a + b) /\ Cardinality(a + 1 .. a + b) = b
      OBVIOUS
    <3>. DEFINE c == a + 1
                d == a + b
    <3>1. c \in Int /\ d \in Int
      OBVIOUS
    <3>. HIDE DEF c, d
    <3>2. IsFiniteSet(c .. d) /\ Cardinality(c .. d) = IF c > d THEN 0 ELSE d - c + 1
      BY <3>1, FS_Interval
    <3>. QED
      BY <3>1, <3>2 DEF c, d
  <2>. QED
    BY <1>1, <2>1
<1>5. IsFiniteSet(new) /\ Cardinality(new) \in Nat /\ Cardinality(new) <= Len(ts)
  <2>1. new \in SUBSET (Len(rs) + 1 .. Len(rs) + Len(ts))
    OBVIOUS
  <2>. QED
    BY <1>4, <2>1, FS_Subset, FS_CardinalityType
<1>. HIDE DEF old, new, ones
<1>6. Cardinality(ones) = Cardinality(old) + Cardinality(new)
  <2>1. Cardinality(old \cup new) = Cardinality(old) + Cardinality(new) - Cardinality(old \cap new)
    BY <1>3, <1>5, FS_Union
  <2>2. Cardinality(old \cap new) = 0
    BY <1>2, FS_EmptySet
  <2>. QED
    BY <1>2, <1>3, <1>5, <2>1, <2>2
<1>7. Cardinality(ones) \in Cardinality(old) .. Cardinality(old) + Len(ts)
  BY <1>1, <1>3, <1>5, <1>6
<1>. QED
  BY <1>7 DEF SumOf, old, ones

-----------------------------------------------------------------------------
(* Types *)

\* A submit is the only call of its file list, which has no file twice; a batch has
\* files, and a count for each or none; no two have the same files of the same list.
CallInv ==
  /\ \A c \in calls : c.uid <= search /\ c.list <= search
  /\ \A c \in calls : c.kind = "submit" => c.list = c.uid /\ IsInjective(c.files)
  /\ \A c, d \in calls : c.kind = "submit" /\ d.list = c.uid => d = c
  /\ \A c \in calls : c.kind = "batch" => Len(c.files) > 0 /\ Len(c.counts) \in {0, Len(c.files)}
  /\ \A c, d \in OfKind("batch") : c.list = d.list /\ c.files = d.files => c = d

\* That count stays a number needs that it counts the batches.
TypeInv == TypeOK /\ IsFiniteSet(calls) /\ CallInv /\ CountsBatches

LEMMA TypeInit == Init => TypeInv
<1>. SUFFICES ASSUME Init PROVE TypeInv
  OBVIOUS
<1>1. TypeOK
  BY SearchAssumption DEF Init, TypeOK, Empty, View
<1>2. OfKind("batch") = {} /\ count = 0 /\ lost = 0
  BY DEF Init, OfKind
<1>3. CountsBatches
  BY <1>2, FS_EmptySet DEF CountsBatches
<1>. QED
  BY <1>1, <1>3, FS_EmptySet DEF Init, TypeInv, CallInv, OfKind

\* What is made of a call is one.
LEMMA NewCallTypes ==
  ASSUME NEW kind \in {"submit", "batch", "events", "histo"}, NEW uid \in Uids, NEW list \in Uids,
         NEW files \in Seq(Files), NEW at \in {"waiting", "sent", "answered"}
  PROVE  NewCall(kind, uid, list, files, at) \in Call
<1>1. <<>> \in Seq({0, 1}) /\ {} \in SUBSET Files
  OBVIOUS
<1>. QED
  BY <1>1 DEF NewCall, Call

LEMMA AnswerTypes ==
  ASSUME NEW c \in Call, NEW answer \in Call, Answers(c, answer), TypeInv
  PROVE  calls' \subseteq Call /\ IsFiniteSet(calls')
<1>. DEFINE new == [answer EXCEPT !.at = "answered"]
<1>1. new \in Call
  BY DEF Call
<1>2. calls' = (calls \ {c}) \cup {new}
  BY DEF Answers
<1>3. IsFiniteSet(calls \ {c})
  BY FS_RemoveElement DEF TypeInv
<1>4. IsFiniteSet((calls \ {c}) \cup {new})
  BY <1>3, FS_AddElement
<1>. QED
  BY <1>1, <1>2, <1>4 DEF TypeInv, TypeOK

\* Of n calls that are made, or files that are listed, there are n if all differ.
LEMMA NewCallsCounted ==
  ASSUME NEW n \in Nat, NEW f, NEW T, T = {f[i] : i \in 1 .. n}
  PROVE  /\ IsFiniteSet(T) /\ Cardinality(T) <= n
         /\ (\A i, j \in 1 .. n : f[i] = f[j] => i = j) => Cardinality(T) = n
<1>. DEFINE g == [i \in 1 .. n |-> f[i]]
<1>1. g \in Surjection(1 .. n, T)
  BY DEF Surjection
<1>2. IsFiniteSet(1 .. n) /\ Cardinality(1 .. n) = n
  BY FS_Interval
<1>3. ASSUME \A i, j \in 1 .. n : f[i] = f[j] => i = j PROVE g \in Injection(1 .. n, T)
  BY <1>3 DEF Injection, IsInjective
<1>. HIDE DEF g
<1>4. IsFiniteSet(T) /\ Cardinality(T) <= n /\ (g \in Injection(1 .. n, T) => Cardinality(T) = n)
  BY <1>1, <1>2, FS_Surjection
<1>. QED
  BY <1>3, <1>4

\* TypeOK, and finitely many calls.
LEMMA TypeStep ==
  ASSUME TypeInv, [Next]_vars
  PROVE  TypeOK' /\ IsFiniteSet(calls')
<1>. USE DEF TypeInv, pageVars, stagingVars, historyVars, stagedVars
<1>1. CASE Submit
  <2>1. search + 1 \in Uids /\ search' \in 0 .. MaxSearches
    BY <1>1, SearchAssumption DEF Submit, TypeOK, Uids
  <2>2. NewCall("submit", search + 1, search + 1, <<>>, "sent") \in Call
    <3>1. <<>> \in Seq(Files)
      OBVIOUS
    <3>. QED
      BY <2>1, <3>1, NewCallTypes
  <2>3. calls' \subseteq Call /\ IsFiniteSet(calls')
    BY <1>1, <2>2, FS_AddElement DEF Submit, TypeOK
  <2>4. mixed' \subseteq 0 .. MaxSearches
    BY <1>1, <2>1 DEF Submit, TypeOK, Uids
  <2>5. Empty \in View
    BY SearchAssumption DEF Empty, View
  <2>. QED
    BY <1>1, <2>1, <2>3, <2>4, <2>5 DEF Submit, TypeOK
<1>2. ASSUME NEW c \in calls, ReceiveFiles(c) PROVE TypeOK' /\ IsFiniteSet(calls')
  <2>. DEFINE bs == Batches(c.files)
              At(i) == IF count + i > ThrottleAt THEN "waiting" ELSE "sent"
              f == [i \in DOMAIN bs |-> NewCall("batch", search, c.uid, bs[i], At(i))]
              New == {NewCall("batch", search, c.uid, bs[i], At(i)) : i \in DOMAIN bs}
  <2>1. c.files \in Seq(Files) /\ c.uid \in Uids
    BY DEF TypeOK, Call
  <2>2. search \in Uids
    BY <2>1, SearchAssumption DEF TypeOK, CallInv, Uids
  <2>3. Len(bs) \in Nat /\ DOMAIN bs = 1 .. Len(bs) /\ \A i \in DOMAIN bs : bs[i] \in Seq(Files)
    BY <2>1, BatchesAre
  <2>4. \A i \in DOMAIN bs : f[i] \in Call
    BY <2>1, <2>2, <2>3, NewCallTypes
  <2>5. New = {f[i] : i \in 1 .. Len(bs)} /\ New \subseteq Call
    BY <2>3, <2>4
  <2>6. IsFiniteSet(New)
    <3>. HIDE DEF f, New
    <3>. QED
      BY <2>3, <2>5, NewCallsCounted
  <2>7. calls' = (calls \ {c}) \cup New
    BY <1>2 DEF ReceiveFiles
  <2>8. calls' \subseteq Call /\ IsFiniteSet(calls')
    <3>1. IsFiniteSet(calls \ {c})
      BY FS_RemoveElement
    <3>. HIDE DEF New
    <3>. QED
      BY <2>5, <2>6, <2>7, <3>1, FS_Union DEF TypeOK
  <2>9. count' \in Nat /\ results' = <<>> /\ metas' = c.files /\ total' = 0 /\ listed' = search
    BY <1>2, <2>3 DEF ReceiveFiles, Counted, FirstResults, TypeOK
  <2>. QED
    BY <1>2, <2>1, <2>8, <2>9 DEF ReceiveFiles, TypeOK
<1>3. ASSUME NEW c \in calls, Wake(c) PROVE TypeOK' /\ IsFiniteSet(calls')
  <2>1. [c EXCEPT !.at = "sent"] \in Call
    BY DEF TypeOK, Call
  <2>2. calls' \subseteq Call /\ IsFiniteSet(calls')
    BY <1>3, <2>1, FS_RemoveElement, FS_AddElement DEF Wake, TypeOK
  <2>. QED
    BY <1>3, <2>2 DEF Wake, TypeOK
<1>4. ASSUME NEW c \in calls, ReceiveResults(c) PROVE TypeOK' /\ IsFiniteSet(calls')
  <2>1. c.counts \in Seq({0, 1}) /\ c.list \in Uids /\ search \in Uids
    <3>1. c.counts \in Seq({0, 1}) /\ c.list \in Uids /\ c.list <= search
      BY DEF TypeOK, Call, CallInv
    <3>. QED
      BY <3>1, SearchAssumption DEF TypeOK, Uids
  <2>2. results' \in Seq({0, 1})
    BY <1>4, <2>1 DEF ReceiveResults, TypeOK
  <2>3. count' \in Nat
    <3>1. c \in OfKind("batch") /\ IsFiniteSet(OfKind("batch"))
      BY <1>4, FS_Subset DEF ReceiveResults, Received, OfKind
    <3>2. Cardinality(OfKind("batch")) \in Nat \ {0}
      BY <3>1, FS_EmptySet, FS_CardinalityType
    <3>. QED
      BY <1>4, <3>2 DEF ReceiveResults, CountsBatches, TypeOK
  <2>4. total' \in Nat
    <3>1. ASSUME Completes(results') PROVE SubSeq(results', 1, Len(metas)) \in Seq({0, 1})
      BY <2>2, <3>1 DEF Completes, TypeOK
    <3>. QED
      BY <1>4, <2>2, <3>1, SumIs DEF ReceiveResults, TotalOf, TypeOK
  <2>5. calls' \subseteq Call /\ IsFiniteSet(calls')
    <3>0. <<>> \in Seq(Files)
      OBVIOUS
    <3>1. \A k \in {"events", "histo"} : NewCall(k, search, c.list, <<>>, "sent") \in Call
      BY <2>1, <3>0, NewCallTypes
    <3>. DEFINE New == {NewCall(k, search, c.list, <<>>, "sent") : k \in {"events", "histo"}}
    <3>2. New = {NewCall("events", search, c.list, <<>>, "sent"), NewCall("histo", search, c.list, <<>>, "sent")}
      OBVIOUS
    <3>3. IsFiniteSet(New) /\ New \subseteq Call
      <4>1. ASSUME NEW x, NEW y PROVE IsFiniteSet({x, y})
        <5>1. IsFiniteSet({x})
          BY FS_Singleton
        <5>2. IsFiniteSet({x} \cup {y})
          BY <5>1, FS_AddElement
        <5>3. {x, y} = {x} \cup {y}
          OBVIOUS
        <5>. QED
          BY <5>2, <5>3
      <4>. QED
        BY <3>1, <3>2, <4>1
    <3>4. IsFiniteSet(calls \ {c})
      BY FS_RemoveElement
    <3>5. calls' \in {(calls \ {c}) \cup New, calls \ {c}}
      BY <1>4 DEF ReceiveResults
    <3>. HIDE DEF New
    <3>6. calls \subseteq Call
      BY DEF TypeOK
    <3>7. IsFiniteSet((calls \ {c}) \cup New)
      BY <3>3, <3>4, FS_Union
    <3>. QED
      BY <3>3, <3>4, <3>5, <3>6, <3>7, Zenon
  <2>. QED
    BY <1>4, <2>2, <2>3, <2>4, <2>5 DEF ReceiveResults, TypeOK
<1>5. ASSUME NEW c \in calls, ReceiveEvents(c) \/ ReceiveHisto(c) PROVE TypeOK' /\ IsFiniteSet(calls')
  <2>1. c.uid \in 0 .. MaxSearches /\ c.merged \in SUBSET Files /\ 0 \in Nat
    BY SearchAssumption DEF TypeOK, Call, Uids
  <2>2. calls' = calls \ {c} /\ IsFiniteSet(calls')
    BY <1>5, FS_RemoveElement DEF ReceiveEvents, ReceiveHisto
  <2>3. CASE ReceiveEvents(c)
    BY <2>1, <2>2, <2>3 DEF ReceiveEvents, TypeOK, View
  <2>4. CASE ReceiveHisto(c)
    BY <2>1, <2>2, <2>4 DEF ReceiveHisto, TypeOK, View
  <2>. QED
    BY <1>5, <2>3, <2>4
<1>6. ASSUME NEW c \in calls, ServeSubmit(c) PROVE TypeOK' /\ IsFiniteSet(calls')
  <2>0. PICK n \in 0 .. Len(Listing) : \E files \in [1 .. n -> Files] : Answers(c, [c EXCEPT !.files = files])
    BY <1>6 DEF ServeSubmit
  <2>1. PICK files \in [1 .. n -> Files] : Answers(c, [c EXCEPT !.files = files])
    BY <2>0
  <2>2. files \in Seq(Files)
    BY SearchAssumption
  <2>3. c \in Call /\ [c EXCEPT !.files = files] \in Call
    BY <2>2 DEF TypeOK, Call
  <2>4. calls' \subseteq Call /\ IsFiniteSet(calls')
    BY <2>1, <2>3, AnswerTypes
  <2>. QED
    BY <1>6, <2>4 DEF ServeSubmit, TypeOK
<1>7. ASSUME NEW c \in calls, ServeBatch(c) PROVE TypeOK' /\ IsFiniteSet(calls')
  <2>1. PICK whole \in SUBSET Range(c.files), put \in SUBSET Range(c.files), histo \in SUBSET {c.files[1]} :
          /\ events' = Write(events, EventsPut(c, put))
          /\ histos' = Write(histos, [n \in {HistoName(c) : f \in histo} |-> c.files])
          /\ Answers(c, [c EXCEPT !.counts = CountsOf(c.files, whole)])
          /\ searched' = searched \cup {<<c.uid, f>> : f \in whole}
          /\ stored' = stored \cup {<<"events", c.uid, f>> : f \in put}
                                \cup {<<"histo", c.uid, f>> : f \in histo}
    BY <1>7 DEF ServeBatch
  <2>2. /\ c \in Call /\ c.files \in Seq(Files) /\ c.uid \in Uids /\ Range(c.files) \subseteq Files
        /\ c.kind = "batch"
    BY <1>7 DEF TypeOK, Call, Range, ServeBatch, Sent
  <2>3. Len(c.files) > 0 /\ c.files[1] \in Files /\ c.files # <<>>
    BY <2>2 DEF CallInv
  <2>4. CountsOf(c.files, whole) \in Seq({0, 1})
    BY <2>2 DEF CountsOf
  <2>5. calls' \subseteq Call /\ IsFiniteSet(calls')
    <3>1. [c EXCEPT !.counts = CountsOf(c.files, whole)] \in Call
      BY <2>2, <2>4 DEF Call
    <3>. QED
      BY <2>1, <2>2, <3>1, AnswerTypes
  <2>6. DOMAIN events' \subseteq Uids \X Paths /\ \A n \in DOMAIN events' : events'[n] \in Files
    <3>. DEFINE new == EventsPut(c, put)
    <3>1. DOMAIN new = {EventsName(c, f) : f \in put} /\ \A n \in DOMAIN new : new[n] \in put
      BY <2>2, EventsPutIs
    <3>2. \A f \in put : EventsName(c, f) \in Uids \X Paths /\ f \in Files
      BY <2>2, PathAssumption DEF EventsName
    <3>3. events' = Write(events, new)
      BY <2>1
    <3>. HIDE DEF new
    <3>4. DOMAIN new \subseteq Uids \X Paths /\ \A n \in DOMAIN new : new[n] \in Files
      BY <3>1, <3>2
    <3>. QED
      BY <3>3, <3>4 DEF Write, TypeOK
  <2>7. DOMAIN histos' \subseteq Uids \X Paths /\ \A n \in DOMAIN histos' : histos'[n] \in Seq(Files) \ {<<>>}
    <3>. DEFINE one == [n \in {HistoName(c) : f \in histo} |-> c.files]
    <3>1. DOMAIN one \subseteq Uids \X Paths /\ \A n \in DOMAIN one : one[n] \in Seq(Files) \ {<<>>}
      BY <2>2, <2>3, PathAssumption DEF HistoName
    <3>2. histos' = Write(histos, one)
      BY <2>1
    <3>. HIDE DEF one
    <3>. QED
      BY <3>1, <3>2 DEF Write, TypeOK
  <2>8. searched' \subseteq Uids \X Files /\ stored' \subseteq {"events", "histo"} \X Uids \X Files
    BY <2>1, <2>2, <2>3 DEF TypeOK
  <2>. QED
    BY <1>7, <2>5, <2>6, <2>7, <2>8 DEF ServeBatch, TypeOK
<1>8. ASSUME NEW c \in calls, ServeNothing(c) PROVE TypeOK' /\ IsFiniteSet(calls')
  <2>1. c \in Call /\ c.uid \in Uids
    BY DEF TypeOK, Call
  <2>2. calls' \subseteq Call /\ IsFiniteSet(calls')
    BY <1>8, <2>1, AnswerTypes DEF ServeNothing
  <2>. QED
    BY <1>8, <2>1, <2>2 DEF ServeNothing, Failing, TypeOK
<1>9. ASSUME NEW c \in calls, ServeEvents(c) PROVE TypeOK' /\ IsFiniteSet(calls')
  <2>1. PICK some \in SUBSET StagedBy(c, events) :
          /\ Answers(c, [c EXCEPT !.merged = {events[n] : n \in some}])
          /\ left' = left \cup {<<"events", c.uid, events[n]>> : n \in StagedBy(c, events) \ some}
    BY <1>9 DEF ServeEvents
  <2>2. c \in Call /\ c.uid \in Uids /\ \A n \in StagedBy(c, events) : events[n] \in Files
    BY DEF TypeOK, Call, StagedBy
  <2>3. [c EXCEPT !.merged = {events[n] : n \in some}] \in Call
    BY <2>2 DEF Call
  <2>4. calls' \subseteq Call /\ IsFiniteSet(calls')
    BY <2>1, <2>2, <2>3, AnswerTypes
  <2>5. left' \subseteq {"events", "histo"} \X Uids \X Files
    BY <2>1, <2>2 DEF TypeOK
  <2>. QED
    BY <1>9, <2>4, <2>5 DEF ServeEvents, TypeOK
<1>10. ASSUME NEW c \in calls, ServeHisto(c) PROVE TypeOK' /\ IsFiniteSet(calls')
  <2>1. PICK some \in SUBSET StagedBy(c, histos) :
          /\ Answers(c, [c EXCEPT !.merged = UNION {Range(histos[n]) : n \in some}])
          /\ left' = left \cup {<<"histo", c.uid, histos[n][1]>> : n \in StagedBy(c, histos) \ some}
    BY <1>10 DEF ServeHisto
  <2>2. c \in Call /\ c.uid \in Uids
    BY DEF TypeOK, Call
  <2>3. \A n \in StagedBy(c, histos) : Range(histos[n]) \subseteq Files /\ histos[n][1] \in Files
    <3>1. ASSUME NEW b \in Seq(Files) \ {<<>>} PROVE Range(b) \subseteq Files /\ b[1] \in Files
      BY DEF Range
    <3>. QED
      BY <3>1 DEF TypeOK, StagedBy
  <2>4. [c EXCEPT !.merged = UNION {Range(histos[n]) : n \in some}] \in Call
    BY <2>2, <2>3 DEF Call
  <2>5. calls' \subseteq Call /\ IsFiniteSet(calls')
    BY <2>1, <2>2, <2>4, AnswerTypes
  <2>6. left' \subseteq {"events", "histo"} \X Uids \X Files
    BY <2>1, <2>2, <2>3 DEF TypeOK
  <2>. QED
    BY <1>10, <2>5, <2>6 DEF ServeHisto, TypeOK
<1>11. ASSUME NEW c \in calls, Fail(c) PROVE TypeOK' /\ IsFiniteSet(calls')
  <2>1. c.uid \in Uids /\ calls' = calls \ {c} /\ IsFiniteSet(calls')
    BY <1>11, FS_RemoveElement DEF Fail, TypeOK, Call
  <2>. QED
    BY <1>11, <2>1 DEF Fail, Failing, TypeOK
<1>12. CASE UNCHANGED vars
  BY <1>12 DEF vars, TypeOK
<1>. QED
  BY <1>1, <1>2, <1>3, <1>4, <1>5, <1>6, <1>7, <1>8, <1>9, <1>10, <1>11, <1>12
  DEF Next, Advance, Receive, Serve

-----------------------------------------------------------------------------
(* The calls and their count *)

\* A call is dropped.
LEMMA CallDropped ==
  ASSUME TypeInv, NEW c \in calls, calls' = calls \ {c}, search' = search
  PROVE  /\ CallInv'
         /\ Cardinality(OfKind("batch")') =
              IF c.kind = "batch" THEN Cardinality(OfKind("batch")) - 1 ELSE Cardinality(OfKind("batch"))
<1>1. CallInv'
  BY DEF TypeInv, CallInv, OfKind
<1>2. OfKind("batch")' = OfKind("batch") \ {c} /\ IsFiniteSet(OfKind("batch"))
  <2>1. OfKind("batch") \in SUBSET calls /\ OfKind("batch")' = OfKind("batch") \ {c}
    BY DEF OfKind
  <2>. QED
    BY <2>1, FS_Subset DEF TypeInv
<1>3. Cardinality(OfKind("batch") \ {c}) =
        IF c \in OfKind("batch") THEN Cardinality(OfKind("batch")) - 1 ELSE Cardinality(OfKind("batch"))
  BY <1>2, FS_RemoveElement
<1>. QED
  BY <1>1, <1>2, <1>3 DEF OfKind

\* A call moves on.
LEMMA CallMoves ==
  ASSUME TypeInv, NEW c \in calls, NEW d, d.kind = c.kind, d.uid = c.uid, d.list = c.list,
         c.kind = "submit" => IsInjective(d.files),
         c.kind = "batch" => d.files = c.files /\ Len(d.counts) \in {0, Len(c.files)},
         calls' = (calls \ {c}) \cup {d}, search' = search
  PROVE  CallInv' /\ Cardinality(OfKind("batch")') = Cardinality(OfKind("batch"))
<1>. USE DEF TypeInv, CallInv, OfKind
<1>1. CallInv'
  <2>1. \A e \in calls' : e.uid <= search' /\ e.list <= search'
    OBVIOUS
  <2>2. \A e \in calls' : e.kind = "submit" => e.list = e.uid /\ IsInjective(e.files)
    OBVIOUS
  <2>3. \A e, g \in calls' : e.kind = "submit" /\ g.list = e.uid => g = e
    OBVIOUS
  <2>4. \A e \in calls' : e.kind = "batch" => Len(e.files) > 0 /\ Len(e.counts) \in {0, Len(e.files)}
    OBVIOUS
  <2>5. \A e, g \in OfKind("batch")' : e.list = g.list /\ e.files = g.files => e = g
    OBVIOUS
  <2>. QED
    BY <2>1, <2>2, <2>3, <2>4, <2>5
<1>2. IsFiniteSet(OfKind("batch"))
  <2>1. OfKind("batch") \in SUBSET calls
    OBVIOUS
  <2>. HIDE DEF OfKind
  <2>. QED
    BY <2>1, FS_Subset
<1>3. CASE c.kind # "batch"
  <2>1. OfKind("batch")' = OfKind("batch")
    BY <1>3
  <2>. QED
    BY <1>1, <2>1
<1>4. CASE c.kind = "batch"
  <2>1. OfKind("batch")' = (OfKind("batch") \ {c}) \cup {d} /\ c \in OfKind("batch") /\ d \notin OfKind("batch") \ {c}
    BY <1>4
  <2>. HIDE DEF OfKind, CallInv
  <2>2. /\ IsFiniteSet(OfKind("batch") \ {c})
        /\ Cardinality(OfKind("batch") \ {c}) = Cardinality(OfKind("batch")) - 1
    BY <1>2, <2>1, FS_RemoveElement
  <2>3. Cardinality((OfKind("batch") \ {c}) \cup {d}) = Cardinality(OfKind("batch") \ {c}) + 1
    BY <2>1, <2>2, FS_AddElement
  <2>4. Cardinality(OfKind("batch")) \in Nat
    BY <1>2, FS_CardinalityType
  <2>5. Cardinality((OfKind("batch") \ {c}) \cup {d}) = Cardinality(OfKind("batch"))
    BY <2>2, <2>3, <2>4
  <2>6. Cardinality(OfKind("batch")') = Cardinality(OfKind("batch"))
    BY <2>1, <2>5
  <2>. QED
    BY <1>1, <2>6
<1>. QED
  BY <1>3, <1>4

\* What a submit is answered with has no file twice.
LEMMA ListedOnce ==
  ASSUME NEW n \in Nat, NEW files \in [1 .. n -> Files], AsListed(files)
  PROVE  IsInjective(files)
<1>1. \A f \in Files : Place[f] \in DOMAIN Listing
  BY DEF Files, Range, Place
<1>2. DOMAIN Listing \subseteq Nat
  BY SearchAssumption
<1>3. ASSUME NEW i \in 1 .. n, NEW j \in 1 .. n, files[i] = files[j] PROVE i = j
  <2>1. Place[files[i]] \in Nat /\ Place[files[i]] = Place[files[j]]
    BY <1>1, <1>2, <1>3
  <2>2. ~(i < j) /\ ~(j < i)
    BY <2>1 DEF AsListed
  <2>. QED
    BY <2>2
<1>. QED
  BY <1>3 DEF IsInjective

\* The calls stay what they are, and the count of the batches is kept.
LEMMA CallStep ==
  ASSUME TypeInv, [Next]_vars
  PROVE  CallInv' /\ CountsBatches'
<1>. USE DEF pageVars, stagingVars, historyVars
<1>0. /\ IsFiniteSet(calls) /\ calls \subseteq Call /\ count = Cardinality(OfKind("batch")) + lost
      /\ lost \in Nat /\ IsFiniteSet(OfKind("batch")) /\ Cardinality(OfKind("batch")) \in Nat
  <2>1. OfKind("batch") \in SUBSET calls
    BY DEF OfKind
  <2>. QED
    BY <2>1, FS_Subset, FS_CardinalityType DEF TypeInv, TypeOK, CountsBatches
<1>1. CASE Submit
  <2>. DEFINE new == NewCall("submit", search + 1, search + 1, <<>>, "sent")
  <2>1. /\ new.kind = "submit" /\ new.uid = search + 1 /\ new.list = search + 1 /\ new.files = <<>>
        /\ calls' = calls \cup {new} /\ search' = search + 1 /\ search \in Nat
    BY <1>1, SearchAssumption DEF Submit, NewCall, TypeInv, TypeOK
  <2>2. \A c \in calls : c.uid \in Nat /\ c.list \in Nat
    BY <1>0 DEF Call, Uids
  <2>3. IsInjective(<<>>)
    BY DEF IsInjective
  <2>. HIDE DEF new
  <2>4. CallInv'
    BY <2>1, <2>2, <2>3 DEF CallInv, TypeInv, OfKind
  <2>5. OfKind("batch")' = OfKind("batch") /\ count' = count /\ lost' = lost
    BY <1>1, <2>1 DEF OfKind, Submit
  <2>. QED
    BY <1>0, <2>4, <2>5 DEF CountsBatches
<1>2. ASSUME NEW c \in calls, ReceiveFiles(c) PROVE CallInv' /\ CountsBatches'
  <2>. DEFINE bs == Batches(c.files)
              At(i) == IF count + i > ThrottleAt THEN "waiting" ELSE "sent"
              f == [i \in DOMAIN bs |-> NewCall("batch", search, c.uid, bs[i], At(i))]
              New == {NewCall("batch", search, c.uid, bs[i], At(i)) : i \in DOMAIN bs}
  <2>1. /\ c.files \in Seq(Files) /\ c.kind = "submit" /\ c.list = c.uid /\ c.uid <= search /\ IsInjective(c.files)
        /\ c.uid \in Nat /\ search \in Nat
    <3>1. c.files \in Seq(Files) /\ c.uid \in Nat /\ search \in Nat
      BY <1>0 DEF TypeInv, TypeOK, Call, Uids
    <3>2. c.kind = "submit"
      BY <1>2 DEF ReceiveFiles, Received
    <3>. QED
      BY <1>0, <3>1, <3>2 DEF TypeInv, CallInv
  <2>2. /\ Len(bs) \in Nat /\ DOMAIN bs = 1 .. Len(bs)
        /\ \A i \in DOMAIN bs : Len(bs[i]) > 0 /\ bs[i] \in Seq(Files)
    BY <2>1, SearchAssumption, BatchesAre
  <2>3. ASSUME NEW i \in DOMAIN bs, NEW j \in DOMAIN bs, bs[i] = bs[j] PROVE i = j
    <3>1. i # j => Range(bs[i]) \cap Range(bs[j]) = {}
      BY <2>1, BatchesApart
    <3>2. bs[i][1] \in Range(bs[i]) /\ bs[j][1] \in Range(bs[j])
      BY <2>2 DEF Range
    <3>. QED
      BY <2>3, <3>1, <3>2
  <2>4. /\ calls' = (calls \ {c}) \cup New /\ search' = search
        /\ count' = count + Len(bs) /\ lost' = lost
    BY <1>2 DEF ReceiveFiles, Counted
  <2>5. \A i \in DOMAIN bs : /\ f[i].kind = "batch" /\ f[i].uid = search /\ f[i].list = c.uid
                             /\ f[i].files = bs[i] /\ f[i].counts = <<>>
    BY DEF NewCall
  <2>6. New = {f[i] : i \in 1 .. Len(bs)}
    BY <2>2
  <2>7. \A d \in New : \E i \in DOMAIN bs : d = f[i]
    OBVIOUS
  <2>. HIDE DEF f, New, bs
  <2>8. \A d \in New : /\ d.kind = "batch" /\ d.uid = search /\ d.list = c.uid /\ d \notin calls
                       /\ Len(d.files) > 0 /\ Len(d.counts) = 0
    BY <2>1, <2>2, <2>5, <2>7 DEF CallInv, TypeInv
  <2>9. \A d, e \in New : d.files = e.files => d = e
    BY <2>3, <2>5, <2>7
  <2>10. CallInv'
    BY <2>1, <2>4, <2>8, <2>9 DEF CallInv, TypeInv, OfKind
  <2>11. OfKind("batch")' = OfKind("batch") \cup New /\ OfKind("batch") \cap New = {}
    BY <2>1, <2>4, <2>8 DEF OfKind
  <2>12. IsFiniteSet(New) /\ Cardinality(New) = Len(bs)
    <3>1. ASSUME NEW i \in 1 .. Len(bs), NEW j \in 1 .. Len(bs), f[i] = f[j] PROVE i = j
      <4>1. i \in DOMAIN bs /\ j \in DOMAIN bs
        BY <2>2
      <4>2. bs[i] = bs[j]
        BY <2>5, <3>1, <4>1
      <4>. QED
        BY <2>3, <4>1, <4>2
    <3>2. Len(bs) \in Nat /\ \A i, j \in 1 .. Len(bs) : f[i] = f[j] => i = j
      BY <2>2, <3>1
    <3>. QED
      BY <2>6, <3>2, NewCallsCounted
  <2>13. Cardinality(OfKind("batch") \cup New) =
           Cardinality(OfKind("batch")) + Cardinality(New) - Cardinality(OfKind("batch") \cap New)
    BY <1>0, <2>12, FS_Union
  <2>14. Cardinality(OfKind("batch")') = Cardinality(OfKind("batch")) + Len(bs)
    <3>1. Cardinality(OfKind("batch") \cap New) = 0
      BY <2>11, FS_EmptySet
    <3>2. Cardinality(OfKind("batch") \cup New) = Cardinality(OfKind("batch")) + Len(bs)
      BY <1>0, <2>2, <2>12, <2>13, <3>1
    <3>. QED
      BY <2>11, <3>2
  <2>. QED
    BY <1>0, <2>2, <2>4, <2>10, <2>14 DEF CountsBatches
<1>3. ASSUME NEW c \in calls, Wake(c) PROVE CallInv' /\ CountsBatches'
  <2>. DEFINE d == [c EXCEPT !.at = "sent"]
  <2>1. /\ d.kind = c.kind /\ d.uid = c.uid /\ d.list = c.list /\ d.files = c.files /\ d.counts = c.counts
        /\ calls' = (calls \ {c}) \cup {d} /\ search' = search /\ count' = count /\ lost' = lost
    BY <1>0, <1>3 DEF Wake, Call
  <2>. HIDE DEF d
  <2>2. CallInv' /\ Cardinality(OfKind("batch")') = Cardinality(OfKind("batch"))
    BY <2>1, CallMoves DEF TypeInv, CallInv
  <2>. QED
    BY <1>0, <2>1, <2>2 DEF CountsBatches
<1>4. ASSUME NEW c \in calls, ReceiveResults(c) PROVE CallInv' /\ CountsBatches'
  <2>. DEFINE ev == NewCall("events", search, c.list, <<>>, "sent")
              hi == NewCall("histo", search, c.list, <<>>, "sent")
  <2>1. /\ calls' \in {(calls \ {c}) \cup {ev, hi}, calls \ {c}} /\ search' = search
        /\ count' = count - 1 /\ lost' = lost /\ c \in OfKind("batch") /\ c.kind = "batch"
    BY <1>4 DEF ReceiveResults, Received, OfKind
  <2>2. /\ ev.kind = "events" /\ ev.uid = search /\ ev.list = c.list
        /\ hi.kind = "histo" /\ hi.uid = search /\ hi.list = c.list /\ search \in Nat
    BY SearchAssumption DEF NewCall, TypeInv, TypeOK
  <2>. HIDE DEF ev, hi
  <2>3. CallInv'
    BY <2>1, <2>2 DEF CallInv, TypeInv, OfKind
  <2>4. OfKind("batch")' = OfKind("batch") \ {c}
    BY <2>1, <2>2 DEF OfKind
  <2>5. Cardinality(OfKind("batch") \ {c}) = Cardinality(OfKind("batch")) - 1
    BY <1>0, <2>1, FS_RemoveElement
  <2>6. Cardinality(OfKind("batch")') = Cardinality(OfKind("batch")) - 1
    BY <2>4, <2>5
  <2>. QED
    BY <1>0, <2>1, <2>3, <2>6 DEF CountsBatches
<1>5. ASSUME NEW c \in calls, ReceiveEvents(c) \/ ReceiveHisto(c) PROVE CallInv' /\ CountsBatches'
  <2>1. /\ calls' = calls \ {c} /\ search' = search /\ count' = count /\ lost' = lost /\ c.kind # "batch"
    BY <1>5 DEF ReceiveEvents, ReceiveHisto, Received
  <2>. QED
    BY <1>0, <2>1, CallDropped DEF CountsBatches
<1>6. ASSUME NEW c \in calls, ServeSubmit(c) PROVE CallInv' /\ CountsBatches'
  <2>1. PICK n \in 0 .. Len(Listing) : \E files \in [1 .. n -> Files] :
          AsListed(files) /\ Answers(c, [c EXCEPT !.files = files])
    BY <1>6 DEF ServeSubmit
  <2>2. PICK files \in [1 .. n -> Files] : AsListed(files) /\ Answers(c, [c EXCEPT !.files = files])
    BY <2>1
  <2>3. n \in Nat /\ IsInjective(files)
    BY <2>1, <2>2, SearchAssumption, ListedOnce
  <2>. DEFINE d == [[c EXCEPT !.files = files] EXCEPT !.at = "answered"]
  <2>4. /\ d.kind = c.kind /\ d.uid = c.uid /\ d.list = c.list /\ d.files = files /\ c.kind = "submit"
        /\ calls' = (calls \ {c}) \cup {d} /\ search' = search /\ count' = count /\ lost' = lost
    BY <1>0, <1>6, <2>2 DEF ServeSubmit, Answers, Sent, Call
  <2>. HIDE DEF d
  <2>5. CallInv' /\ Cardinality(OfKind("batch")') = Cardinality(OfKind("batch"))
    BY <2>3, <2>4, CallMoves
  <2>. QED
    BY <1>0, <2>4, <2>5 DEF CountsBatches
<1>7. ASSUME NEW c \in calls, ServeBatch(c) PROVE CallInv' /\ CountsBatches'
  <2>1. PICK whole : Answers(c, [c EXCEPT !.counts = CountsOf(c.files, whole)])
    BY <1>7 DEF ServeBatch
  <2>2. Len(CountsOf(c.files, whole)) = Len(c.files)
    BY <1>0 DEF CountsOf, Call
  <2>. DEFINE d == [[c EXCEPT !.counts = CountsOf(c.files, whole)] EXCEPT !.at = "answered"]
  <2>3. /\ d.kind = c.kind /\ d.uid = c.uid /\ d.list = c.list /\ d.files = c.files /\ c.kind = "batch"
        /\ d.counts = CountsOf(c.files, whole)
        /\ calls' = (calls \ {c}) \cup {d} /\ search' = search /\ count' = count /\ lost' = lost
    BY <1>0, <1>7, <2>1 DEF ServeBatch, Answers, Sent, Call
  <2>. HIDE DEF d
  <2>4. CallInv' /\ Cardinality(OfKind("batch")') = Cardinality(OfKind("batch"))
    BY <2>2, <2>3, CallMoves
  <2>. QED
    BY <1>0, <2>3, <2>4 DEF CountsBatches
<1>8. ASSUME NEW c \in calls, ServeNothing(c) PROVE CallInv' /\ CountsBatches'
  <2>. DEFINE d == [c EXCEPT !.at = "answered"]
  <2>1. /\ d.kind = c.kind /\ d.uid = c.uid /\ d.list = c.list /\ d.files = c.files /\ c.kind = "batch"
        /\ d.counts = c.counts
        /\ calls' = (calls \ {c}) \cup {d} /\ search' = search /\ count' = count /\ lost' = lost
    BY <1>0, <1>8 DEF ServeNothing, Answers, Sent, Call
  <2>. HIDE DEF d
  <2>2. CallInv' /\ Cardinality(OfKind("batch")') = Cardinality(OfKind("batch"))
    BY <2>1, CallMoves DEF TypeInv, CallInv
  <2>. QED
    BY <1>0, <2>1, <2>2 DEF CountsBatches
<1>9. ASSUME NEW c \in calls, ServeEvents(c) \/ ServeHisto(c) PROVE CallInv' /\ CountsBatches'
  <2>1. PICK found : Answers(c, [c EXCEPT !.merged = found])
    BY <1>9 DEF ServeEvents, ServeHisto
  <2>2. PICK d : /\ d.kind = c.kind /\ d.uid = c.uid /\ d.list = c.list
                 /\ calls' = (calls \ {c}) \cup {d}
    BY <1>0, <2>1 DEF Answers, Call
  <2>3. c.kind \in {"events", "histo"} /\ search' = search /\ count' = count /\ lost' = lost
    BY <1>9 DEF ServeEvents, ServeHisto, Sent
  <2>4. CallInv' /\ Cardinality(OfKind("batch")') = Cardinality(OfKind("batch"))
    BY <2>2, <2>3, CallMoves
  <2>. QED
    BY <1>0, <2>3, <2>4 DEF CountsBatches
<1>10. ASSUME NEW c \in calls, Fail(c) PROVE CallInv' /\ CountsBatches'
  <2>1. /\ calls' = calls \ {c} /\ search' = search /\ count' = count
        /\ lost' = IF c.kind = "batch" THEN lost + 1 ELSE lost
    BY <1>10 DEF Fail
  <2>. QED
    BY <1>0, <2>1, CallDropped DEF CountsBatches
<1>11. CASE UNCHANGED vars
  BY <1>11 DEF vars, TypeInv, CallInv, CountsBatches, OfKind
<1>. QED
  BY <1>1, <1>2, <1>3, <1>4, <1>5, <1>6, <1>7, <1>8, <1>9, <1>10, <1>11
  DEF Next, Advance, Receive, Serve

LEMMA TypeInductive == Spec => []TypeInv
<1>1. Init => TypeInv
  BY TypeInit
<1>2. TypeInv /\ [Next]_vars => TypeInv'
  BY TypeStep, CallStep DEF TypeInv
<1>. QED
  BY <1>1, <1>2, PTL DEF Spec

\* Every variable has its type.
THEOREM TypeCorrect == Spec => []TypeOK
<1>1. TypeInv => TypeOK
  BY DEF TypeInv
<1>. QED
  BY <1>1, TypeInductive, PTL

\* searchingFilesCount counts the batches under way and those that ever failed, however
\* searches overlap: setFileUrls and setSearchFileResults keep it, and nothing does for
\* a call that fails.
THEOREM BatchesAreCounted == Spec => []CountsBatches
<1>1. TypeInv => CountsBatches
  BY DEF TypeInv
<1>. QED
  BY <1>1, TypeInductive, PTL

-----------------------------------------------------------------------------
(* A search that no other one overlaps *)

LEMMA RangeCounted ==
  ASSUME NEW s \in Seq(Files)
  PROVE  /\ IsFiniteSet(Range(s)) /\ Cardinality(Range(s)) \in Nat /\ Cardinality(Range(s)) <= Len(s)
         /\ Range(s) \subseteq Files
         /\ IsInjective(s) => Cardinality(Range(s)) = Len(s)
<1>1. Len(s) \in Nat /\ DOMAIN s = 1 .. Len(s) /\ Range(s) = {s[i] : i \in 1 .. Len(s)}
  BY DEF Range
<1>2. IsFiniteSet(Range(s)) /\ Cardinality(Range(s)) <= Len(s)
  <2>. DEFINE n == Len(s)
              T == Range(s)
  <2>1. n \in Nat /\ T = {s[i] : i \in 1 .. n}
    BY <1>1
  <2>. HIDE DEF n, T
  <2>2. IsFiniteSet(T) /\ Cardinality(T) <= n
    BY <2>1, NewCallsCounted
  <2>. QED
    BY <2>2 DEF n, T
<1>3. ASSUME IsInjective(s) PROVE Cardinality(Range(s)) = Len(s)
  <2>1. s \in Surjection(1 .. Len(s), Range(s))
    BY <1>1 DEF Surjection
  <2>2. s \in Injection(1 .. Len(s), Range(s))
    BY <1>1, <1>3, <2>1 DEF Injection, Surjection, IsInjective
  <2>3. IsFiniteSet(1 .. Len(s)) /\ Cardinality(1 .. Len(s)) = Len(s)
    BY <1>1, Counting
  <2>. QED
    BY <2>1, <2>2, <2>3, FS_Surjection
<1>4. Range(s) \subseteq Files
  BY DEF Range
<1>. QED
  BY <1>2, <1>3, <1>4, FS_CardinalityType

LEMMA FilesFinite == IsFiniteSet(Files)
<1>1. Listing \in Seq(Files)
  BY SearchAssumption DEF Files
<1>. QED
  BY <1>1, RangeCounted DEF Files

\* The files a result is to come for.
Pending == UNION {Range(c.files) : c \in OfKind("batch")}
Final == OfKind("events") \cup OfKind("histo")

\* A call of an earlier search is one that is known to overlap.
MixedInv ==
  /\ mixed \subseteq 1 .. search /\ listed <= search /\ view.uid <= search
  /\ \A c \in calls : c.uid = search \/ c.uid \in mixed
  /\ \A c \in OfKind("submit") : Len(c.files) <= Len(Listing)

\* Every call is the last search's: a submit alone, the others after its list came.
LoneCalls ==
  \A c \in calls :
    /\ c.uid = search
    /\ c.kind = "submit" => calls = {c} /\ listed # search
    /\ c.kind # "submit" => listed = search

\* A file is in one batch, and there are not more to come than are without a result.
LoneBatches ==
  listed = search =>
    /\ \A c \in OfKind("batch") : IsInjective(c.files)
    /\ \A c, d \in OfKind("batch") : c # d => Range(c.files) \cap Range(d.files) = {}
    /\ Cardinality(Pending) + Len(results) <= Len(metas)
    /\ Len(results) = Len(metas) => total = SumOf(results)

\* The end is asked for once, when all the results are there, and shown after that.
LoneEnd ==
  /\ Final # {} => Len(results) = Len(metas) /\ metas # <<>>
  /\ \A c, d \in OfKind("events") : c = d
  /\ OfKind("events") # {} => view.uid # search
  /\ view.uid = search => listed = search /\ (search # 0 => Len(results) = Len(metas) /\ metas # <<>>)

LoneInv == search \notin mixed => LoneCalls /\ LoneBatches /\ LoneEnd

SearchInv == TypeInv /\ MixedInv /\ LoneInv

LEMMA SearchInit == Init => SearchInv
<1>. SUFFICES ASSUME Init PROVE SearchInv
  OBVIOUS
<1>1. TypeInv
  BY TypeInit
<1>2. OfKind("batch") = {} /\ OfKind("events") = {} /\ OfKind("histo") = {} /\ OfKind("submit") = {}
  BY DEF Init, OfKind
<1>3. MixedInv
  BY <1>2 DEF Init, MixedInv, Empty
<1>4. LoneCalls
  BY DEF Init, LoneCalls
<1>5. LoneBatches
  <2>1. Pending = {} /\ {i \in DOMAIN <<>> : <<>>[i] = 1} = {}
    BY <1>2 DEF Pending
  <2>2. Cardinality(Pending) = 0 /\ SumOf(results) = 0 /\ total = 0 /\ Len(results) = 0 /\ Len(metas) = 0
    BY <2>1, FS_EmptySet DEF Init, SumOf
  <2>. QED
    BY <1>2, <2>2 DEF LoneBatches
<1>6. LoneEnd
  BY <1>2 DEF Init, LoneEnd, Final
<1>. QED
  BY <1>1, <1>3, <1>4, <1>5, <1>6 DEF SearchInv, LoneInv

\* Fewer batches, fewer files to come.
LEMMA PendingFinite == ASSUME TypeInv PROVE Pending \subseteq Files /\ IsFiniteSet(Pending) /\ Cardinality(Pending) \in Nat
<1>1. Pending \subseteq Files
  BY RangeCounted DEF TypeInv, TypeOK, Call, OfKind, Pending
<1>2. IsFiniteSet(Pending)
  BY <1>1, FilesFinite, FS_Subset
<1>. QED
  BY <1>1, <1>2, FS_CardinalityType

\* A call moves on or is dropped, and nothing else of the page changes.
LEMMA LoneMoves ==
  ASSUME SearchInv, NEW c \in calls, NEW New, calls' = (calls \ {c}) \cup New,
         \A d, e \in New : d = e,
         \A d \in New : /\ d.kind = c.kind /\ d.uid = c.uid
                        /\ d.kind = "submit" => Len(d.files) <= Len(Listing)
                        /\ d.kind = "batch" => d.files = c.files,
         search' = search, metas' = metas, results' = results, total' = total,
         listed' = listed, mixed' = mixed, view' = view
  PROVE  MixedInv' /\ LoneInv'
<1>1. MixedInv'
  BY DEF SearchInv, MixedInv, OfKind
<1>. SUFFICES ASSUME search \notin mixed PROVE LoneCalls' /\ LoneBatches' /\ LoneEnd'
  BY <1>1 DEF LoneInv
<1>2. LoneCalls /\ LoneBatches /\ LoneEnd
  BY DEF SearchInv, LoneInv
<1>3. LoneCalls'
  <2>. SUFFICES ASSUME NEW d \in calls'
                PROVE  /\ d.uid = search
                       /\ d.kind = "submit" => calls' = {d} /\ listed # search
                       /\ d.kind # "submit" => listed = search
    BY DEF LoneCalls
  <2>1. CASE d \in New
    BY <1>2, <2>1 DEF LoneCalls
  <2>2. CASE d \in calls \ {c}
    BY <1>2, <2>2 DEF LoneCalls
  <2>. QED
    BY <2>1, <2>2
<1>4. LoneBatches'
  <2>1. \A d \in OfKind("batch")' : \E e \in OfKind("batch") : d.files = e.files /\ (d \in New => e = c) /\ (d \notin New => e = d /\ e # c)
    BY DEF OfKind
  <2>2. Pending' \subseteq Pending
    BY <2>1 DEF Pending
  <2>3. Cardinality(Pending') <= Cardinality(Pending) /\ Cardinality(Pending') \in Nat /\ Cardinality(Pending) \in Nat
    <3>1. IsFiniteSet(Pending) /\ Cardinality(Pending) \in Nat
      BY PendingFinite DEF SearchInv
    <3>2. Pending' \in SUBSET Pending
      BY <2>2
    <3>3. IsFiniteSet(Pending') /\ Cardinality(Pending') <= Cardinality(Pending)
      BY <3>1, <3>2, FS_Subset
    <3>. QED
      BY <3>1, <3>3, FS_CardinalityType
  <2>4. Len(results) \in Nat /\ Len(metas) \in Nat
    BY DEF SearchInv, TypeInv, TypeOK
  <2>. SUFFICES ASSUME listed = search
                PROVE  /\ \A d \in OfKind("batch")' : IsInjective(d.files)
                       /\ \A d, e \in OfKind("batch")' : d # e => Range(d.files) \cap Range(e.files) = {}
                       /\ Cardinality(Pending') + Len(results) <= Len(metas)
                       /\ Len(results) = Len(metas) => total = SumOf(results)
    BY DEF LoneBatches, SumOf
  <2>5. \A d \in OfKind("batch")' : IsInjective(d.files)
    BY <1>2, <2>1 DEF LoneBatches
  <2>6. \A d, e \in OfKind("batch")' : d # e => Range(d.files) \cap Range(e.files) = {}
    BY <1>2, <2>1 DEF LoneBatches
  <2>7. Cardinality(Pending') + Len(results) <= Len(metas)
    BY <1>2, <2>3, <2>4 DEF LoneBatches
  <2>. QED
    BY <1>2, <2>5, <2>6, <2>7 DEF LoneBatches
<1>5. LoneEnd'
  <2>1. /\ Final' # {} => Final # {}
        /\ OfKind("events")' # {} => OfKind("events") # {}
        /\ \A d, e \in OfKind("events")' : d = e
    BY <1>2 DEF LoneEnd, Final, OfKind
  <2>. QED
    BY <1>2, <2>1 DEF LoneEnd
<1>. QED
  BY <1>3, <1>4, <1>5

LEMMA LoneSubmit ==
  ASSUME SearchInv, Submit
  PROVE  MixedInv' /\ LoneInv'
<1>. DEFINE new == NewCall("submit", search + 1, search + 1, <<>>, "sent")
<1>1. /\ new.kind = "submit" /\ new.uid = search + 1 /\ new.files = <<>> /\ Len(new.files) = 0
      /\ calls' = calls \cup {new} /\ search' = search + 1 /\ search \in Nat
      /\ mixed' = (IF calls = {} THEN mixed ELSE mixed \cup {search, search + 1})
      /\ metas' = metas /\ results' = results /\ total' = total /\ listed' = listed /\ view' = view
  BY SearchAssumption DEF Submit, NewCall, SearchInv, TypeInv, TypeOK, pageVars, stagingVars
<1>2. Len(Listing) \in Nat /\ listed \in Nat /\ view.uid \in Nat /\ listed <= search /\ view.uid <= search
  BY SearchAssumption DEF SearchInv, TypeInv, TypeOK, MixedInv, View
<1>. HIDE DEF new
<1>3. MixedInv'
  <2>1. mixed' \subseteq 1 .. search' /\ listed' <= search' /\ view'.uid <= search'
    <3>1. \A c \in calls : c.uid \in Nat \ {0} /\ c.uid <= search
      BY DEF SearchInv, TypeInv, TypeOK, CallInv, Call, Uids
    <3>2. calls # {} => search >= 1
      BY <1>1, <3>1
    <3>. QED
      BY <1>1, <1>2, <3>2 DEF SearchInv, MixedInv
  <2>2. \A c \in calls' : c.uid = search' \/ c.uid \in mixed'
    BY <1>1 DEF SearchInv, MixedInv
  <2>3. \A c \in OfKind("submit")' : Len(c.files) <= Len(Listing)
    BY <1>1, <1>2 DEF SearchInv, MixedInv, OfKind
  <2>. QED
    BY <2>1, <2>2, <2>3 DEF MixedInv
<1>4. LoneInv'
  <2>. SUFFICES ASSUME search' \notin mixed' PROVE LoneCalls' /\ LoneBatches' /\ LoneEnd'
    BY DEF LoneInv
  <2>1. calls = {} /\ calls' = {new} /\ listed' # search' /\ view'.uid # search'
    BY <1>1, <1>2
  <2>2. LoneCalls'
    BY <1>1, <2>1 DEF LoneCalls
  <2>3. LoneBatches'
    BY <2>1 DEF LoneBatches
  <2>4. OfKind("events")' = {} /\ Final' = {}
    BY <1>1, <2>1 DEF OfKind, Final
  <2>5. LoneEnd'
    BY <2>1, <2>4 DEF LoneEnd
  <2>. QED
    BY <2>2, <2>3, <2>5
<1>. QED
  BY <1>3, <1>4

LEMMA LoneFiles ==
  ASSUME SearchInv, NEW c \in calls, ReceiveFiles(c)
  PROVE  MixedInv' /\ LoneInv'
<1>. DEFINE bs == Batches(c.files)
            At(i) == IF count + i > ThrottleAt THEN "waiting" ELSE "sent"
            New == {NewCall("batch", search, c.uid, bs[i], At(i)) : i \in DOMAIN bs}
<1>1. c.files \in Seq(Files) /\ c.kind = "submit" /\ c \in OfKind("submit") /\ IsInjective(c.files) /\ c.uid \in Uids
  BY DEF ReceiveFiles, Received, SearchInv, TypeInv, TypeOK, CallInv, Call, OfKind
<1>2. /\ calls' = (calls \ {c}) \cup New /\ search' = search /\ listed' = search
      /\ metas' = c.files /\ results' = <<>> /\ total' = 0 /\ view' = view /\ mixed' = mixed
  BY DEF ReceiveFiles, FirstResults
<1>3. \A d \in New : /\ d.kind = "batch" /\ d.uid = search
                     /\ \E i \in DOMAIN bs : d = NewCall("batch", search, c.uid, bs[i], At(i))
  BY DEF NewCall
<1>4. \A i \in DOMAIN bs : NewCall("batch", search, c.uid, bs[i], At(i)).files = bs[i]
  BY DEF NewCall
<1>5. \A d \in New : \E i \in DOMAIN bs : d = NewCall("batch", search, c.uid, bs[i], At(i)) /\ d.files = bs[i]
  BY <1>3, <1>4
<1>6. /\ \A i \in DOMAIN bs : IsInjective(bs[i]) /\ Range(bs[i]) \subseteq Range(c.files)
      /\ \A i, j \in DOMAIN bs : i # j => Range(bs[i]) \cap Range(bs[j]) = {}
  BY <1>1, BatchesApart
<1>. HIDE DEF New, bs
<1>7. MixedInv'
  <2>1. search \in Nat
    BY SearchAssumption DEF SearchInv, TypeInv, TypeOK
  <2>. QED
    BY <1>2, <1>3, <2>1 DEF SearchInv, MixedInv, OfKind
<1>8. LoneInv'
  <2>. SUFFICES ASSUME search \notin mixed PROVE LoneCalls' /\ LoneBatches' /\ LoneEnd'
    BY <1>2 DEF LoneInv
  <2>1. LoneCalls /\ LoneEnd
    BY DEF SearchInv, LoneInv
  <2>2. calls = {c} /\ listed # search /\ view.uid # search /\ calls' = New
    BY <1>1, <1>2, <2>1 DEF LoneCalls, LoneEnd
  <2>3. LoneCalls'
    BY <1>2, <1>3, <2>2 DEF LoneCalls
  <2>4. OfKind("events")' = {} /\ Final' = {} /\ OfKind("batch")' = New
    BY <1>3, <2>2 DEF OfKind, Final
  <2>5. LoneEnd'
    BY <1>2, <2>2, <2>4 DEF LoneEnd
  <2>6. LoneBatches'
    <3>1. \A d \in New : IsInjective(d.files) /\ Range(d.files) \subseteq Range(c.files)
      BY <1>5, <1>6
    <3>2. \A d, e \in New : d # e => Range(d.files) \cap Range(e.files) = {}
      BY <1>5, <1>6
    <3>3. Pending' \in SUBSET Range(c.files)
      BY <2>4, <3>1 DEF Pending
    <3>4. /\ IsFiniteSet(Range(c.files)) /\ Cardinality(Range(c.files)) \in Nat
          /\ Cardinality(Range(c.files)) <= Len(c.files)
      BY <1>1, RangeCounted
    <3>5. IsFiniteSet(Pending') /\ Cardinality(Pending') <= Cardinality(Range(c.files))
      BY <3>3, <3>4, FS_Subset
    <3>6. Cardinality(Pending') \in Nat /\ Len(c.files) \in Nat /\ Len(<<>>) = 0
      BY <1>1, <3>5, FS_CardinalityType
    <3>7. Cardinality(Pending') + Len(results') <= Len(metas')
      BY <1>2, <3>4, <3>5, <3>6
    <3>8. SumOf(<<>>) = 0
      <4>1. {i \in DOMAIN <<>> : <<>>[i] = 1} = {}
        OBVIOUS
      <4>. QED
        BY <4>1, FS_EmptySet DEF SumOf
    <3>9. total' = SumOf(results)'
      BY <1>2, <3>8 DEF SumOf
    <3>. QED
      BY <2>4, <3>1, <3>2, <3>7, <3>9 DEF LoneBatches
  <2>. QED
    BY <2>3, <2>5, <2>6
<1>. QED
  BY <1>7, <1>8

\* What the results of a batch do to a search that no other one overlaps: its files are
\* no longer pending, and the end was neither asked for nor shown.
LEMMA LoneAnswered ==
  ASSUME SearchInv, NEW c \in calls, ReceiveResults(c), search \notin mixed
  PROVE  /\ Final = {} /\ Len(results) < Len(metas) /\ listed = search /\ view.uid # search
         /\ results' \in Seq({0, 1}) /\ c.counts \in Seq({0, 1})
         /\ Len(results') = Len(results) + Len(c.counts)
         /\ Cardinality(Pending') + Len(results') <= Len(metas)
         /\ Cardinality(Pending') \in Nat
         /\ c.uid = search
<1>1. c \in OfKind("batch") /\ c.kind = "batch" /\ results' = results \o c.counts /\ search' = search /\ metas' = metas
  BY DEF ReceiveResults, Received, OfKind
<1>2. /\ c.files \in Seq(Files) /\ c.counts \in Seq({0, 1}) /\ results \in Seq({0, 1}) /\ metas \in Seq(Files)
      /\ Len(c.files) > 0 /\ Len(c.counts) \in {0, Len(c.files)} /\ c.uid \in Nat \ {0}
  BY <1>1 DEF SearchInv, TypeInv, TypeOK, Call, CallInv, Uids
<1>3. LoneCalls /\ LoneBatches /\ LoneEnd
  BY DEF SearchInv, LoneInv
<1>4. listed = search /\ c.uid = search /\ search # 0
  BY <1>1, <1>2, <1>3 DEF LoneCalls
<1>5. IsInjective(c.files) /\ IsFiniteSet(Range(c.files)) /\ Cardinality(Range(c.files)) = Len(c.files)
  BY <1>1, <1>2, <1>3, <1>4, RangeCounted DEF LoneBatches
<1>6. Range(c.files) \subseteq Pending /\ IsFiniteSet(Pending) /\ Cardinality(Pending) \in Nat
  BY <1>1, PendingFinite DEF SearchInv, Pending
<1>7. OfKind("batch")' = OfKind("batch") \ {c}
  <2>1. calls' = calls \ {c} \/ calls' = (calls \ {c}) \cup {NewCall(k, search, c.list, <<>>, "sent") : k \in {"events", "histo"}}
    BY DEF ReceiveResults
  <2>2. \A d \in {NewCall(k, search, c.list, <<>>, "sent") : k \in {"events", "histo"}} : d.kind # "batch"
    BY DEF NewCall
  <2>. QED
    BY <2>1, <2>2 DEF OfKind
<1>8. Pending' = Pending \ Range(c.files)
  BY <1>1, <1>3, <1>4, <1>7 DEF Pending, LoneBatches
<1>9. Cardinality(Pending \ Range(c.files)) = Cardinality(Pending) - Len(c.files)
  <2>1. Pending \cap Range(c.files) = Range(c.files)
    BY <1>6
  <2>2. Cardinality(Pending \ Range(c.files)) = Cardinality(Pending) - Cardinality(Pending \cap Range(c.files))
    BY <1>6, FS_Difference
  <2>. QED
    BY <1>5, <2>1, <2>2
<1>10. Cardinality(Pending') \in Nat /\ Cardinality(Pending') = Cardinality(Pending) - Len(c.files)
  <2>1. IsFiniteSet(Pending \ Range(c.files))
    BY <1>6, FS_Difference
  <2>2. Cardinality(Pending \ Range(c.files)) \in Nat
    BY <2>1, FS_CardinalityType
  <2>. QED
    BY <1>8, <1>9, <2>2
<1>11. Len(results') = Len(results) + Len(c.counts) /\ results' \in Seq({0, 1})
  BY <1>1, <1>2
<1>12. Len(results) \in Nat /\ Len(metas) \in Nat /\ Len(c.counts) \in Nat /\ Len(c.files) \in Nat
  BY <1>2
<1>13. Cardinality(Pending) + Len(results) <= Len(metas)
  BY <1>3, <1>4 DEF LoneBatches
<1>14. Len(results) < Len(metas) /\ Cardinality(Pending') + Len(results') <= Len(metas)
  <2>1. ASSUME NEW p \in Nat, NEW q \in Nat, NEW r \in Nat, NEW m \in Nat, NEW k \in Nat, NEW f \in Nat,
               q = p - f, p + r <= m, f > 0, k \in {0, f}
        PROVE  r < m /\ q + (r + k) <= m
    BY <2>1
  <2>2. Len(c.files) > 0 /\ Len(c.counts) \in {0, Len(c.files)}
    BY <1>2
  <2>3. Len(results) < Len(metas) /\ Cardinality(Pending') + (Len(results) + Len(c.counts)) <= Len(metas)
    BY <1>6, <1>10, <1>12, <1>13, <2>1, <2>2
  <2>4. Len(results') = Len(results) + Len(c.counts)
    BY <1>11
  <2>. QED
    BY <2>3, <2>4, Zenon
<1>15. Final = {} /\ view.uid # search
  BY <1>3, <1>4, <1>12, <1>14 DEF LoneEnd
<1>. QED
  BY <1>2, <1>4, <1>10, <1>11, <1>14, <1>15

LEMMA LoneResults ==
  ASSUME SearchInv, NEW c \in calls, ReceiveResults(c)
  PROVE  MixedInv' /\ LoneInv'
<1>. DEFINE ev == NewCall("events", search, c.list, <<>>, "sent")
            hi == NewCall("histo", search, c.list, <<>>, "sent")
<1>1. /\ search' = search /\ metas' = metas /\ view' = view /\ listed' = listed /\ mixed' = mixed
      /\ IF Completes(results')
           THEN total' = TotalOf(results') /\ calls' = (calls \ {c}) \cup {ev, hi}
           ELSE total' = total /\ calls' = calls \ {c}
      /\ c.kind = "batch"
  BY DEF ReceiveResults, Received, historyVars
<1>2. /\ ev.kind = "events" /\ ev.uid = search /\ hi.kind = "histo" /\ hi.uid = search
  BY DEF NewCall
<1>. HIDE DEF ev, hi
<1>3. MixedInv'
  BY <1>1, <1>2 DEF SearchInv, MixedInv, OfKind
<1>4. LoneInv'
  <2>. SUFFICES ASSUME search \notin mixed PROVE LoneCalls' /\ LoneBatches' /\ LoneEnd'
    BY <1>1 DEF LoneInv
  <2>1. LoneCalls /\ LoneBatches /\ LoneEnd
    BY DEF SearchInv, LoneInv
  <2>2. /\ Final = {} /\ Len(results) < Len(metas) /\ listed = search /\ view.uid # search
        /\ results' \in Seq({0, 1}) /\ Len(results') <= Len(metas)
        /\ Cardinality(Pending') + Len(results') <= Len(metas)
        /\ Len(results') \in Nat /\ Len(metas) \in Nat
    <3>1. metas \in Seq(Files)
      BY DEF SearchInv, TypeInv, TypeOK
    <3>. QED
      BY <3>1, LoneAnswered
  <2>3. LoneCalls'
    BY <1>1, <1>2, <2>1, <2>2 DEF LoneCalls
  <2>4. \A d \in OfKind("batch")' : d \in OfKind("batch")
    BY <1>1, <1>2 DEF OfKind
  <2>5. Completes(results') <=> Len(results') = Len(metas)
    BY <2>2 DEF Completes
  <2>6. Len(results') = Len(metas) => total' = SumOf(results')
    <3>. SUFFICES ASSUME Len(results') = Len(metas) PROVE total' = SumOf(results')
      OBVIOUS
    <3>1. SubSeq(results', 1, Len(metas)) = results'
      BY <2>2
    <3>. QED
      BY <1>1, <2>5, <3>1 DEF TotalOf
  <2>7. LoneBatches'
    <3>1. total' = SumOf(results') <=> (total = SumOf(results))'
      BY DEF SumOf
    <3>. QED
      BY <1>1, <2>1, <2>2, <2>4, <2>6, <3>1 DEF LoneBatches
  <2>8. LoneEnd'
    <3>1. CASE Completes(results')
      <4>1. OfKind("events")' = {ev} /\ Final' = {ev, hi}
        BY <1>1, <1>2, <2>2, <3>1 DEF OfKind, Final
      <4>2. Len(results') = Len(metas') /\ metas' # <<>>
        <5>1. Len(results) \in Nat /\ Len(<<>>) = 0
          BY DEF SearchInv, TypeInv, TypeOK
        <5>. QED
          BY <1>1, <2>2, <2>5, <3>1, <5>1
      <4>. QED
        BY <1>1, <2>2, <4>1, <4>2 DEF LoneEnd
    <3>2. CASE ~Completes(results')
      <4>1. OfKind("events")' = {} /\ Final' = {}
        BY <1>1, <2>2, <3>2 DEF OfKind, Final
      <4>. QED
        BY <1>1, <2>2, <4>1 DEF LoneEnd
    <3>. QED
      BY <3>1, <3>2
  <2>. QED
    BY <2>3, <2>7, <2>8
<1>. QED
  BY <1>3, <1>4

LEMMA LoneEvents ==
  ASSUME SearchInv, NEW c \in calls, ReceiveEvents(c)
  PROVE  MixedInv' /\ LoneInv'
<1>1. /\ search' = search /\ metas' = metas /\ results' = results /\ total' = total /\ listed' = listed
      /\ mixed' = mixed /\ calls' = calls \ {c} /\ view'.uid = c.uid /\ c.kind = "events"
  BY DEF ReceiveEvents, Received, historyVars
<1>2. MixedInv'
  BY <1>1 DEF SearchInv, MixedInv, OfKind, TypeInv, CallInv
<1>3. LoneInv'
  <2>. SUFFICES ASSUME search \notin mixed PROVE LoneCalls' /\ LoneBatches' /\ LoneEnd'
    BY <1>1 DEF LoneInv
  <2>1. LoneCalls /\ LoneBatches /\ LoneEnd
    BY DEF SearchInv, LoneInv
  <2>2. c \in OfKind("events") /\ c.uid = search /\ listed = search
    BY <1>1, <2>1 DEF OfKind, LoneCalls
  <2>3. LoneCalls'
    BY <1>1, <2>1 DEF LoneCalls
  <2>4. OfKind("batch")' = OfKind("batch") /\ Pending' = Pending
    BY <1>1 DEF OfKind, Pending
  <2>5. LoneBatches'
    BY <1>1, <2>1, <2>4 DEF LoneBatches, SumOf
  <2>6. OfKind("events")' = {} /\ (Final' # {} => Final # {})
    BY <1>1, <2>1, <2>2 DEF OfKind, Final, LoneEnd
  <2>7. Len(results) = Len(metas) /\ metas # <<>>
    BY <2>1, <2>2 DEF LoneEnd, Final
  <2>8. LoneEnd'
    BY <1>1, <2>2, <2>6, <2>7 DEF LoneEnd
  <2>. QED
    BY <2>3, <2>5, <2>8
<1>. QED
  BY <1>2, <1>3

LEMMA SearchStep ==
  ASSUME SearchInv, [Next]_vars
  PROVE  MixedInv' /\ LoneInv'
<1>. USE DEF pageVars, stagingVars, historyVars
<1>1. calls \subseteq Call
  BY DEF SearchInv, TypeInv, TypeOK
<1>2. ASSUME NEW c \in calls, ReceiveHisto(c) \/ Fail(c) PROVE MixedInv' /\ LoneInv'
  <2>. DEFINE New == {}
  <2>1. /\ calls' = (calls \ {c}) \cup New /\ search' = search /\ metas' = metas /\ results' = results
        /\ total' = total /\ listed' = listed /\ mixed' = mixed /\ view' = view
    BY <1>2 DEF ReceiveHisto, Fail
  <2>2. /\ \A d, e \in New : d = e
        /\ \A d \in New : /\ d.kind = c.kind /\ d.uid = c.uid
                          /\ d.kind = "submit" => Len(d.files) <= Len(Listing)
                          /\ d.kind = "batch" => d.files = c.files
    OBVIOUS
  <2>. HIDE DEF New
  <2>. QED
    BY <2>1, <2>2, LoneMoves
<1>3. ASSUME NEW c \in calls, NEW d, calls' = (calls \ {c}) \cup {d}, d.kind = c.kind, d.uid = c.uid,
             c.kind = "submit" => Len(d.files) <= Len(Listing), c.kind = "batch" => d.files = c.files,
             search' = search, metas' = metas, results' = results, total' = total,
             listed' = listed, mixed' = mixed, view' = view
      PROVE  MixedInv' /\ LoneInv'
  <2>. DEFINE New == {d}
  <2>1. /\ calls' = (calls \ {c}) \cup New /\ \A e, g \in New : e = g
        /\ \A e \in New : /\ e.kind = c.kind /\ e.uid = c.uid
                          /\ e.kind = "submit" => Len(e.files) <= Len(Listing)
                          /\ e.kind = "batch" => e.files = c.files
    BY <1>3
  <2>. HIDE DEF New
  <2>. QED
    BY <1>3, <2>1, LoneMoves
<1>4. ASSUME NEW c \in calls, Wake(c) PROVE MixedInv' /\ LoneInv'
  <2>. DEFINE d == [c EXCEPT !.at = "sent"]
  <2>1. /\ d.kind = c.kind /\ d.uid = c.uid /\ d.files = c.files /\ calls' = (calls \ {c}) \cup {d}
        /\ search' = search /\ metas' = metas /\ results' = results
        /\ total' = total /\ listed' = listed /\ mixed' = mixed /\ view' = view
    BY <1>1, <1>4 DEF Wake, Call
  <2>2. c.kind = "submit" => Len(c.files) <= Len(Listing)
    BY DEF SearchInv, MixedInv, OfKind
  <2>. HIDE DEF d
  <2>. QED
    BY <1>3, <2>1, <2>2
<1>5. ASSUME NEW c \in calls, ServeSubmit(c) PROVE MixedInv' /\ LoneInv'
  <2>1. PICK n \in 0 .. Len(Listing) : \E files \in [1 .. n -> Files] : Answers(c, [c EXCEPT !.files = files])
    BY <1>5 DEF ServeSubmit
  <2>2. PICK files \in [1 .. n -> Files] : Answers(c, [c EXCEPT !.files = files])
    BY <2>1
  <2>. DEFINE d == [[c EXCEPT !.files = files] EXCEPT !.at = "answered"]
  <2>3. /\ d.kind = c.kind /\ d.uid = c.uid /\ d.files = files /\ calls' = (calls \ {c}) \cup {d}
        /\ c.kind = "submit" /\ search' = search /\ metas' = metas /\ results' = results
        /\ total' = total /\ listed' = listed /\ mixed' = mixed /\ view' = view
    BY <1>1, <1>5, <2>2 DEF ServeSubmit, Answers, Sent, Call
  <2>4. Len(files) <= Len(Listing)
    BY <2>1, SearchAssumption
  <2>. HIDE DEF d
  <2>. QED
    BY <1>3, <2>3, <2>4
<1>6. ASSUME NEW c \in calls, ServeBatch(c) \/ ServeNothing(c) PROVE MixedInv' /\ LoneInv'
  <2>1. PICK counts : \/ Answers(c, [c EXCEPT !.counts = counts])
                      \/ Answers(c, c)
    BY <1>6 DEF ServeBatch, ServeNothing
  <2>2. PICK d : /\ d.kind = c.kind /\ d.uid = c.uid /\ d.files = c.files
                 /\ calls' = (calls \ {c}) \cup {d}
    BY <1>1, <2>1 DEF Answers, Call
  <2>3. /\ c.kind = "batch" /\ search' = search /\ metas' = metas /\ results' = results
        /\ total' = total /\ listed' = listed /\ mixed' = mixed /\ view' = view
    BY <1>6 DEF ServeBatch, ServeNothing, Sent
  <2>. QED
    BY <1>3, <2>2, <2>3
<1>7. ASSUME NEW c \in calls, ServeEvents(c) \/ ServeHisto(c) PROVE MixedInv' /\ LoneInv'
  <2>1. PICK found : Answers(c, [c EXCEPT !.merged = found])
    BY <1>7 DEF ServeEvents, ServeHisto
  <2>2. PICK d : d.kind = c.kind /\ d.uid = c.uid /\ calls' = (calls \ {c}) \cup {d}
    BY <1>1, <2>1 DEF Answers, Call
  <2>3. /\ c.kind \in {"events", "histo"} /\ search' = search /\ metas' = metas /\ results' = results
        /\ total' = total /\ listed' = listed /\ mixed' = mixed /\ view' = view
    BY <1>7 DEF ServeEvents, ServeHisto, Sent
  <2>. QED
    BY <1>3, <2>2, <2>3
<1>8. CASE UNCHANGED vars
  BY <1>8 DEF vars, SearchInv, MixedInv, LoneInv, LoneCalls, LoneBatches, LoneEnd, Pending, Final, OfKind, SumOf
<1>. QED
  BY <1>2, <1>4, <1>5, <1>6, <1>7, <1>8, LoneSubmit, LoneFiles, LoneResults, LoneEvents
  DEF Next, Advance, Receive, Serve

LEMMA SearchInductive == Spec => []SearchInv
<1>1. Init => SearchInv
  BY SearchInit
<1>2. SearchInv /\ [Next]_vars => SearchInv'
  BY TypeStep, CallStep, SearchStep DEF SearchInv, TypeInv
<1>. QED
  BY <1>1, <1>2, PTL DEF Spec

\* Nothing is merged of a search that no other one overlaps while a batch of it is under
\* way: the results are as many as the files only when the last batch has answered.
THEOREM MergedAfterBatches == Spec => []FinalAfterBatches
<1>1. SearchInv => FinalAfterBatches
  <2>. SUFFICES ASSUME SearchInv, NEW c \in calls, c.kind \in {"events", "histo"}, c.uid \notin mixed
                PROVE  OfKind("batch") = {} /\ Len(results) = Len(metas)
    BY DEF FinalAfterBatches
  <2>1. c.uid = search /\ search \notin mixed /\ c \in Final
    BY DEF SearchInv, MixedInv, Final, OfKind
  <2>2. LoneCalls /\ LoneBatches /\ LoneEnd
    BY <2>1 DEF SearchInv, LoneInv
  <2>3. Len(results) = Len(metas) /\ listed = search
    BY <2>1, <2>2 DEF LoneEnd, LoneCalls
  <2>4. Cardinality(Pending) = 0 /\ IsFiniteSet(Pending)
    <3>1. Len(results) \in Nat /\ Cardinality(Pending) \in Nat /\ IsFiniteSet(Pending)
      BY PendingFinite DEF SearchInv, TypeInv, TypeOK
    <3>. QED
      BY <2>2, <2>3, <3>1 DEF LoneBatches
  <2>5. Pending = {}
    BY <2>4, FS_EmptySet
  <2>6. \A d \in OfKind("batch") : d.files[1] \in Range(d.files)
    BY DEF SearchInv, TypeInv, TypeOK, CallInv, Call, OfKind, Range
  <2>7. OfKind("batch") = {}
    BY <2>5, <2>6 DEF Pending
  <2>. QED
    BY <2>3, <2>7
<1>. QED
  BY <1>1, SearchInductive, PTL

-----------------------------------------------------------------------------
(* SearchPromise is implemented *)

\* Where a search is.
PhaseIs ==
  /\ search = 0 => Phase = "idle"
  /\ search # 0 /\ search \in mixed => Phase = "overlapped"
  /\ search # 0 /\ search \notin mixed =>
       /\ listed # search => Phase = "asked"
       /\ listed = search =>
            IF view.uid = search THEN Phase = "shown"
            ELSE IF Len(results) < Len(metas) \/ metas = <<>> THEN Phase = "searching"
            ELSE Phase = "complete"

LEMMA Phases == SearchInv => PhaseIs
<1>. SUFFICES ASSUME SearchInv PROVE PhaseIs
  OBVIOUS
<1>. USE DEF PhaseIs
<1>1. 0 \notin mixed
  BY DEF SearchInv, MixedInv
<1>2. CASE search = 0
  BY <1>1, <1>2 DEF Phase
<1>3. CASE search # 0 /\ search \in mixed
  BY <1>3 DEF Phase
<1>4. CASE search # 0 /\ search \notin mixed /\ listed # search
  BY <1>4 DEF Phase
<1>5. CASE search # 0 /\ search \notin mixed /\ listed = search /\ view.uid = search
  BY <1>5 DEF Phase
<1>6. CASE search # 0 /\ search \notin mixed /\ listed = search /\ view.uid # search
  BY <1>6 DEF Phase
<1>. QED
  BY <1>2, <1>3, <1>4, <1>5, <1>6

LEMMA PhasesLater == SearchInv' => PhaseIs'
BY Phases, PTL

\* There is a call only for a search.
LEMMA Searching == ASSUME SearchInv, NEW c \in calls PROVE search # 0
<1>1. c.uid \in Nat \ {0} /\ search \in Nat
  BY DEF SearchInv, TypeInv, TypeOK, Call, Uids
<1>2. c.uid <= search
  BY DEF SearchInv, TypeInv, CallInv
<1>. QED
  BY <1>1, <1>2

LEMMA PromiseInit == ASSUME Init PROVE Promise!Init
<1>1. SearchInv /\ search = 0
  BY SearchInit DEF Init
<1>2. Phase = "idle"
  BY <1>1, Phases DEF PhaseIs
<1>. QED
  BY <1>2 DEF Promise!Init, Underway

\* What SearchPromise sees changes with these variables only.
LEMMA PromiseStutters ==
  ASSUME search' = search, mixed' = mixed, listed' = listed, view' = view, metas' = metas, results' = results
  PROVE  UNCHANGED Promise!vars
<1>1. Phase' = Phase
  BY DEF Phase
<1>2. SumOf(results)' = SumOf(results)
  BY DEF SumOf
<1>. QED
  BY <1>1, <1>2 DEF Promise!vars, Underway

LEMMA PromiseSubmit ==
  ASSUME SearchInv, SearchInv', Submit
  PROVE  Promise!Ask
<1>1. search' # 0 /\ listed' # search'
  BY SearchAssumption DEF Submit, SearchInv, MixedInv, TypeInv, TypeOK
<1>2. Phase' \in {"asked", "overlapped"}
  BY <1>1, PhasesLater DEF PhaseIs
<1>. QED
  BY <1>2 DEF Promise!Ask, Underway

LEMMA PromiseFiles ==
  ASSUME SearchInv, SearchInv', NEW c \in calls, ReceiveFiles(c)
  PROVE  Promise!Find \/ UNCHANGED Promise!vars
<1>1. /\ search' = search /\ mixed' = mixed /\ listed' = search /\ view' = view
      /\ metas' = c.files /\ results' = <<>> /\ c \in OfKind("submit") /\ c.kind = "submit"
  BY DEF ReceiveFiles, Received, FirstResults, OfKind
<1>2. search # 0 /\ c.files \in Seq(Files) /\ Len(c.files) <= Len(Listing)
  BY <1>1, SearchAssumption DEF SearchInv, TypeInv, TypeOK, CallInv, MixedInv, Call, Uids
<1>3. CASE search \in mixed
  <2>1. Phase = "overlapped" /\ Phase' = "overlapped"
    <3>1. PhaseIs /\ PhaseIs'
      BY Phases, PhasesLater
    <3>2. search' # 0 /\ search' \in mixed'
      BY <1>1, <1>2, <1>3
    <3>. QED
      BY <1>2, <1>3, <3>1, <3>2 DEF PhaseIs
  <2>. QED
    BY <2>1 DEF Promise!vars, Underway
<1>4. CASE search \notin mixed
  <2>1. listed # search /\ view.uid # search
    BY <1>1, <1>4 DEF SearchInv, LoneInv, LoneCalls, LoneEnd
  <2>2. Phase = "asked"
    BY <1>2, <1>4, <2>1, Phases DEF PhaseIs
  <2>3. Len(results') < Len(metas') \/ metas' = <<>>
    BY <1>1, <1>2
  <2>4. Phase' = "searching"
    BY <1>1, <1>2, <1>4, <2>1, <2>3, PhasesLater DEF PhaseIs
  <2>5. SumOf(results') = 0 /\ SumOf(results)' = SumOf(results')
    <3>1. {i \in DOMAIN <<>> : <<>>[i] = 1} = {}
      OBVIOUS
    <3>2. SumOf(<<>>) = 0
      BY <3>1, FS_EmptySet DEF SumOf
    <3>. QED
      BY <1>1, <3>2 DEF SumOf
  <2>6. Len(metas') - Len(results') \in 0 .. Len(Listing)
    BY <1>1, <1>2, SearchAssumption
  <2>. QED
    BY <2>2, <2>4, <2>5, <2>6 DEF Promise!Find, Underway
<1>. QED
  BY <1>3, <1>4

LEMMA PromiseResults ==
  ASSUME SearchInv, SearchInv', NEW c \in calls, ReceiveResults(c)
  PROVE  Promise!Answer \/ UNCHANGED Promise!vars
<1>1. /\ search' = search /\ mixed' = mixed /\ listed' = listed /\ view' = view /\ metas' = metas
      /\ results' = results \o c.counts
  BY DEF ReceiveResults, historyVars
<1>2. search # 0 /\ results \in Seq({0, 1}) /\ metas \in Seq(Files)
  BY Searching DEF SearchInv, TypeInv, TypeOK
<1>3. CASE search \in mixed
  <2>1. Phase = "overlapped" /\ Phase' = "overlapped"
    <3>1. PhaseIs /\ PhaseIs'
      BY Phases, PhasesLater
    <3>2. search' # 0 /\ search' \in mixed'
      BY <1>1, <1>2, <1>3
    <3>. QED
      BY <1>2, <1>3, <3>1, <3>2 DEF PhaseIs
  <2>. QED
    BY <2>1 DEF Promise!vars, Underway
<1>4. CASE search \notin mixed
  <2>1. /\ Len(results) < Len(metas) /\ listed = search /\ view.uid # search
        /\ c.counts \in Seq({0, 1}) /\ Len(results') = Len(results) + Len(c.counts)
        /\ Len(results') <= Len(metas)
        /\ Len(results) \in Nat /\ Len(metas) \in Nat /\ Len(c.counts) \in Nat
    BY <1>2, <1>4, LoneAnswered
  <2>2. Phase = "searching"
    BY <1>2, <1>4, <2>1, Phases DEF PhaseIs
  <2>3. CASE Len(c.counts) = 0
    <3>1. results' = results
      BY <1>1, <1>2, <2>1, <2>3
    <3>. QED
      BY <1>1, <3>1, PromiseStutters
  <2>4. CASE Len(c.counts) # 0
    <3>1. /\ Len(metas') - Len(results') \in 0 .. (Len(metas) - Len(results)) - 1
          /\ (Len(metas) - Len(results)) - (Len(metas') - Len(results')) = Len(c.counts)
      BY <1>1, <2>1, <2>4
    <3>2. metas # <<>>
      <4>1. Len(<<>>) = 0
        OBVIOUS
      <4>. QED
        BY <2>1, <4>1
    <3>3. Phase' = IF Len(metas') - Len(results') = 0 THEN "complete" ELSE "searching"
      BY <1>1, <1>2, <1>4, <2>1, <3>1, <3>2, PhasesLater DEF PhaseIs
    <3>4. SumOf(results') \in SumOf(results) .. SumOf(results) + Len(c.counts) /\ SumOf(results)' = SumOf(results')
      BY <1>1, <1>2, <2>1, SumGrows DEF SumOf
    <3>5. Underway /\ Underway' /\ Phase # "shown" /\ Phase' # "shown"
      BY <2>2, <3>3 DEF Underway
    <3>. QED
      BY <2>2, <3>1, <3>3, <3>4, <3>5 DEF Promise!Answer
  <2>. QED
    BY <2>3, <2>4
<1>. QED
  BY <1>3, <1>4

LEMMA PromiseEvents ==
  ASSUME SearchInv, SearchInv', NEW c \in calls, ReceiveEvents(c)
  PROVE  Promise!Show \/ UNCHANGED Promise!vars
<1>1. /\ search' = search /\ mixed' = mixed /\ listed' = listed /\ metas' = metas /\ results' = results
      /\ view' = [uid |-> c.uid, files |-> c.merged, total |-> total] /\ c \in OfKind("events") /\ c.kind = "events"
  BY DEF ReceiveEvents, Received, OfKind, historyVars
<1>2. search # 0
  BY Searching
<1>3. CASE search \in mixed
  <2>1. Phase = "overlapped" /\ Phase' = "overlapped"
    <3>1. PhaseIs /\ PhaseIs'
      BY Phases, PhasesLater
    <3>2. search' # 0 /\ search' \in mixed'
      BY <1>1, <1>2, <1>3
    <3>. QED
      BY <1>2, <1>3, <3>1, <3>2 DEF PhaseIs
  <2>. QED
    BY <2>1 DEF Promise!vars, Underway
<1>4. CASE search \notin mixed
  <2>1. /\ listed = search /\ c.uid = search /\ view.uid # search
        /\ Len(results) = Len(metas) /\ metas # <<>> /\ total = SumOf(results)
    BY <1>1, <1>4 DEF SearchInv, LoneInv, LoneCalls, LoneBatches, LoneEnd, Final
  <2>2. Len(results) \in Nat
    BY DEF SearchInv, TypeInv, TypeOK
  <2>3. Phase = "complete"
    BY <1>2, <1>4, <2>1, <2>2, Phases DEF PhaseIs
  <2>4. Phase' = "shown"
    BY <1>1, <1>2, <1>4, <2>1, PhasesLater DEF PhaseIs
  <2>5. view'.total = SumOf(results) /\ SumOf(results)' = SumOf(results)
    BY <1>1, <2>1 DEF SumOf
  <2>. QED
    BY <1>1, <2>3, <2>4, <2>5 DEF Promise!Show, Underway
<1>. QED
  BY <1>3, <1>4

LEMMA PromiseStep ==
  ASSUME SearchInv, SearchInv', [Next]_vars
  PROVE  [Promise!Next]_Promise!vars
<1>. USE DEF pageVars, stagingVars, historyVars
<1>1. ASSUME NEW c \in calls, ReceiveHisto(c) \/ Wake(c) \/ Serve(c) \/ Fail(c) PROVE UNCHANGED Promise!vars
  <2>1. /\ search' = search /\ mixed' = mixed /\ listed' = listed /\ view' = view /\ metas' = metas
        /\ results' = results
    BY <1>1 DEF ReceiveHisto, Wake, Serve, ServeSubmit, ServeBatch, ServeNothing, ServeEvents, ServeHisto, Fail
  <2>. QED
    BY <2>1, PromiseStutters
<1>2. CASE UNCHANGED vars
  <2>1. /\ search' = search /\ mixed' = mixed /\ listed' = listed /\ view' = view /\ metas' = metas
        /\ results' = results
    BY <1>2 DEF vars
  <2>. QED
    BY <2>1, PromiseStutters
<1>. QED
  BY <1>1, <1>2, PromiseSubmit, PromiseFiles, PromiseResults, PromiseEvents
  DEF Next, Advance, Receive, Promise!Next

\* SearchSession implements SearchPromise: for a search that no other one overlaps,
\* setSearchFileResults counts the files down once each and setFinalEvents shows, once,
\* the total of what was counted, whatever order the calls are answered or fail in.
THEOREM PromiseIsKept == Spec => KeepsPromise
<1>1. Init => Promise!Init
  BY PromiseInit
<1>2. SearchInv /\ SearchInv' /\ [Next]_vars => [Promise!Next]_Promise!vars
  BY PromiseStep
<1>3. Spec => []SearchInv
  BY SearchInductive
<1>. QED
  BY <1>1, <1>2, <1>3, PTL DEF Spec, KeepsPromise, Promise!Spec
=============================================================================
