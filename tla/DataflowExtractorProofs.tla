---------------------- MODULE DataflowExtractorProofs ----------------------
(***************************************************************************)
(* Theorems about DataflowExtractor, for every set of source files, of     *)
(* correlation ids and of times, and for files of any number of lines.     *)
(***************************************************************************)
EXTENDS DataflowExtractor, FiniteSetTheorems, TLAPS

-----------------------------------------------------------------------------
(* Type correctness *)

\* A step that waits for the next segment has the line that begins it.
HasPending ==
  \A f \in Files :
    pc[f] = "open" \/ (pc[f] \in {"corr", "dat"} /\ ending[f] = "no")
      => /\ lines[f] # <<>>
         /\ Pending(f).key \in Keys

TypeInv == TypeOK /\ HasPending

\* The name of a segment is well formed, with its start before its end.
LEMMA NameOfSegment ==
  ASSUME TypeOK, NEW f \in Files
  PROVE  /\ SegmentName(f) \in Name
         /\ SegmentName(f)[1] < SegmentName(f)[2]
<1>1. start[f] \in Nat /\ last[f] \in Nat /\ cur[f] \in Keys \cup {NoKey}
  BY DEF TypeOK
<1>2. EndTime(start[f], last[f]) \in Nat /\ start[f] < EndTime(start[f], last[f])
  BY <1>1 DEF EndTime
<1>. QED BY <1>1, <1>2 DEF SegmentName, Name

LEMMA TypeInit == Init => TypeInv
BY ExtractorAssumption DEF Init, TypeInv, TypeOK, HasPending, PC

\* A read adds its line to the file's lines and changes no line that was read.
LEMMA ReadAppends ==
  ASSUME TypeOK, NEW f \in Files, NEW line \in Line, Read(f, line)
  PROVE  /\ lines' \in [Files -> Seq(Line)]
         /\ Len(lines'[f]) = Len(lines[f]) + 1
         /\ lines'[f][Len(lines'[f])] = line
         /\ \A n \in 1 .. Len(lines[f]) : lines'[f][n] = lines[f][n]
         /\ \A g \in Files \ {f} : lines'[g] = lines[g]
<1>1. lines \in [Files -> Seq(Line)] /\ lines[f] \in Seq(Line)
  BY DEF TypeOK
<1>2. lines' = [lines EXCEPT ![f] = Append(lines[f], line)]
  BY DEF Read
<1>3. Append(lines[f], line) \in Seq(Line)
  BY <1>1
<1>. QED BY <1>1, <1>2, <1>3

\* The lines that the three reading actions add.
LEMMA LinesRead ==
  /\ [key |-> NoKey, time |-> 0, op |-> FALSE] \in Line
  /\ \A k \in Keys, t \in Times, o \in Ops : [key |-> k, time |-> t, op |-> o] \in Line
BY ExtractorAssumption DEF Line

LEMMA TypeFlush ==
  ASSUME TypeInv, NEW f \in Files, Flush(f)
  PROVE  TypeInv'
<1>. USE DEF TypeInv
<1>. DEFINE name == SegmentName(f)
<1>1. name \in Name
  BY NameOfSegment
<1>2. ASSUME NEW kept \in Seq(Nat), CopyCorr(f, kept), cut' \subseteq Files \X Nat
      PROVE  TypeInv'
  <2>1. /\ DOMAIN corr' = DOMAIN corr \cup {name}
        /\ \A m \in DOMAIN corr' :
             corr'[m] = IF m = name THEN [file |-> f, lines |-> kept] ELSE corr[m]
    BY <1>2 DEF CopyCorr, Put
  <2>2. LinesAt(name) \subseteq Files \X Nat
    <3>1. CASE name \in DOMAIN corr
      <4>1. corr[name].file \in Files /\ corr[name].lines \in Seq(Nat)
        BY <3>1 DEF TypeOK
      <4>2. Range(corr[name].lines) \subseteq Nat
        BY <4>1 DEF Range
      <4>. QED BY <3>1, <4>1, <4>2 DEF LinesAt
    <3>2. CASE name \notin DOMAIN corr
      BY <3>2 DEF LinesAt
    <3>. QED BY <3>1, <3>2
  <2>3. DOMAIN corr' \subseteq Name
    BY <1>1, <2>1 DEF TypeOK
  <2>4. \A m \in DOMAIN corr' : corr'[m] \in [file : Files, lines : Seq(Nat)]
    BY <1>2, <2>1 DEF TypeOK
  <2>5. replaced' \subseteq Files \X Nat
    BY <1>2, <2>2 DEF CopyCorr, TypeOK
  <2>6. TypeOK'
    BY <1>2, <2>3, <2>4, <2>5 DEF CopyCorr, TypeOK, PC
  <2>7. HasPending'
    BY <1>2 DEF CopyCorr, HasPending, Pending, TypeOK
  <2>. QED BY <2>6, <2>7
<1>3. {f} \X Range(seg[f]) \subseteq Files \X Nat
  BY DEF TypeOK, Range
<1>4. CASE StoreCorr(f)
  BY <1>4, <1>2 DEF StoreCorr, TypeOK
<1>5. CASE CutCorr(f)
  <2>1. PICK m \in 0 .. MaxLines : m < Len(seg[f]) /\ CopyCorr(f, SubSeq(seg[f], 1, m))
    BY <1>5 DEF CutCorr
  <2>2. seg[f] \in Seq(Nat) /\ m \in Nat
    BY <2>1, ExtractorAssumption DEF TypeOK
  <2>3. SubSeq(seg[f], 1, m) \in Seq(Nat)
    BY <2>1, <2>2
  <2>4. cut' \subseteq Files \X Nat
    BY <1>5, <1>3 DEF CutCorr, TypeOK
  <2>. QED BY <1>2, <2>1, <2>3, <2>4
<1>6. CASE LoseCorr(f)
  <2>1. TypeOK'
    BY <1>6, <1>3 DEF LoseCorr, TypeOK, PC
  <2>2. HasPending'
    BY <1>6 DEF LoseCorr, TypeOK, HasPending, Pending
  <2>. QED BY <2>1, <2>2
<1>7. ASSUME LeaveFlush(f), pc[f] \in {"corr", "dat"}
      PROVE  TypeInv'
  <2>1. UNCHANGED <<lines, segVars, bucket>>
    BY <1>7 DEF LeaveFlush
  <2>2. PICK p \in {"corr", "done"} :
          pc' = [pc EXCEPT ![f] = p] /\ ending' = [ending EXCEPT ![f] = "throw"]
    BY <1>7 DEF LeaveFlush, EnterFinally, FailFinally
  <2>3. pc' \in [Files -> PC] /\ ending' \in [Files -> {"no", "eof", "throw"}]
    BY <2>2 DEF TypeOK, PC
  <2>4. TypeOK'
    BY <2>1, <2>3 DEF TypeOK, segVars, bucket
  <2>5. pc'[f] # "open" /\ ending'[f] # "no"
    BY <2>2 DEF TypeOK
  <2>6. \A g \in Files \ {f} : pc'[g] = pc[g] /\ ending'[g] = ending[g]
    BY <2>2 DEF TypeOK
  <2>7. HasPending'
    BY <2>1, <2>5, <2>6 DEF HasPending, Pending
  <2>. QED BY <2>4, <2>7
<1>8. CASE CorrThrows(f) \/ CorrMissing(f) \/ DatThrows(f)
  BY <1>7, <1>8 DEF CorrThrows, CorrMissing, DatThrows
<1>9. ASSUME FlushDat(f), DOMAIN dats' \subseteq Name, cutDat' \subseteq Name,
             \A m \in DOMAIN dats' : dats'[m] \in [file : Files, lines : Seq(Nat), ops : Nat]
      PROVE  TypeInv'
  <2>1. TypeOK'
    BY <1>9 DEF FlushDat, AfterFlush, TypeOK, PC
  <2>2. HasPending'
    BY <1>9 DEF FlushDat, AfterFlush, HasPending, Pending, TypeOK
  <2>. QED BY <2>1, <2>2
<1>10. CASE StoreDat(f)
  <2>1. /\ DOMAIN dats' = DOMAIN dats \cup {name}
        /\ \A m \in DOMAIN dats' : dats'[m] = IF m = name THEN DatOf(f) ELSE dats[m]
    BY <1>10 DEF StoreDat, Put
  <2>2. DatOf(f) \in [file : Files, lines : Seq(Nat), ops : Nat]
    BY DEF DatOf, TypeOK
  <2>. QED BY <1>1, <1>9, <1>10, <2>1, <2>2 DEF StoreDat, TypeOK
<1>11. CASE LoseDat(f)
  <2>1. DOMAIN dats' \subseteq DOMAIN dats /\ \A m \in DOMAIN dats' : dats'[m] = dats[m]
    BY <1>11 DEF LoseDat, Drop, Restrict
  <2>. QED BY <1>1, <1>9, <1>11, <2>1 DEF LoseDat, TypeOK
<1>. QED BY <1>4, <1>5, <1>6, <1>8, <1>10, <1>11 DEF Flush

LEMMA TypeStep ==
  ASSUME TypeInv, NEW f \in Files, Step(f) \/ Killed(f)
  PROVE  TypeInv'
<1>. USE DEF TypeInv
<1>1. CASE Skip(f)
  <2>1. Len(lines'[f]) = Len(lines[f]) + 1 /\ lines' \in [Files -> Seq(Line)]
    BY <1>1, ReadAppends, LinesRead DEF Skip
  <2>2. TypeOK'
    BY <1>1, <2>1 DEF Skip, TypeOK, readVars, segVars, bucket
  <2>3. HasPending'
    BY <1>1, ReadAppends, LinesRead DEF Skip, Read, HasPending, Pending, TypeOK, readVars
  <2>. QED BY <2>2, <2>3
<1>2. CASE ReadSame(f)
  <2>1. PICK t \in Times, o \in Ops :
          /\ cur[f] \in Keys
          /\ Read(f, [key |-> cur[f], time |-> t, op |-> o])
          /\ last' = [last EXCEPT ![f] = t]
          /\ ops' = [ops EXCEPT ![f] = @ + Count(o)]
    BY <1>2 DEF ReadSame
  <2>2. /\ Len(lines'[f]) = Len(lines[f]) + 1
        /\ lines' \in [Files -> Seq(Line)]
        /\ \A g \in Files \ {f} : lines'[g] = lines[g]
    BY <2>1, ReadAppends, LinesRead
  <2>3. Len(lines'[f]) \in Nat /\ t \in Nat /\ Count(o) \in Nat
    BY <2>2, ExtractorAssumption DEF Count
  <2>4. /\ seg' = [seg EXCEPT ![f] = Append(seg[f], Len(lines'[f]))]
        /\ dat' = [dat EXCEPT ![f] = Append(dat[f], Len(lines'[f]))]
        /\ UNCHANGED <<pc, ending, cur, tmp, start, bucket>>
    BY <1>2 DEF ReadSame
  <2>5. /\ Append(seg[f], Len(lines'[f])) \in Seq(Nat)
        /\ Append(dat[f], Len(lines'[f])) \in Seq(Nat)
    BY <2>3 DEF TypeOK
  <2>6. last' \in [Files -> Nat] /\ ops' \in [Files -> Nat]
    <3>1. ops[f] + Count(o) \in Nat
      BY <2>3 DEF TypeOK
    <3>. QED BY <2>1, <2>3, <3>1 DEF TypeOK
  <2>7. seg' \in [Files -> Seq(Nat)] /\ dat' \in [Files -> Seq(Nat)]
    BY <2>4, <2>5 DEF TypeOK
  <2>8. TypeOK'
    BY <2>2, <2>4, <2>6, <2>7 DEF TypeOK, bucket
  <2>9. HasPending'
    BY <2>1, <2>2, <2>4 DEF HasPending, Pending, Read, TypeOK
  <2>. QED BY <2>8, <2>9
<1>3. CASE ReadOther(f)
  <2>1. PICK k \in Keys, t \in Times, o \in Ops : Read(f, [key |-> k, time |-> t, op |-> o])
    BY <1>3 DEF ReadOther
  <2>2. /\ Len(lines'[f]) = Len(lines[f]) + 1
        /\ lines'[f][Len(lines'[f])].key = k
        /\ lines' \in [Files -> Seq(Line)]
        /\ \A g \in Files \ {f} : lines'[g] = lines[g]
    BY <2>1, ReadAppends, LinesRead
  <2>3. TypeOK'
    BY <1>3, <2>2 DEF ReadOther, TypeOK, PC, segVars, bucket
  <2>4. lines'[f] # <<>> /\ Pending(f)'.key = k
    BY <2>2 DEF Pending, TypeOK
  <2>5. \A g \in Files \ {f} : pc'[g] = pc[g] /\ Pending(g)' = Pending(g)
    BY <1>3, <2>2 DEF ReadOther, Pending, TypeOK
  <2>6. HasPending'
    BY <1>3, <2>2, <2>4, <2>5 DEF ReadOther, HasPending
  <2>. QED BY <2>3, <2>6
<1>4. CASE Eof(f)
  BY <1>4 DEF Eof, EnterFinally, HasSegment, TypeOK, HasPending, Pending, PC, segVars, bucket
<1>5. CASE ReadFails(f)
  BY <1>5 DEF ReadFails, EnterFinally, HasSegment, TypeOK, HasPending, Pending, PC, segVars, bucket
<1>6. CASE WriteFails(f)
  BY <1>6 DEF WriteFails, FailFinally, TypeOK, HasPending, Pending, PC, segVars, bucket
<1>7. CASE Flush(f)
  BY <1>7, TypeFlush
<1>8. CASE OpenSegment(f)
  <2>1. Len(lines[f]) \in Nat \ {0} /\ lines[f] \in Seq(Line)
    BY <1>8 DEF OpenSegment, TypeOK, HasPending
  <2>2. Pending(f) \in Line /\ Pending(f).key \in Keys
    BY <1>8, <2>1 DEF OpenSegment, HasPending, Pending
  <2>3. /\ Pending(f).time \in Nat
        /\ Count(Pending(f).op) \in Nat
        /\ <<Len(lines[f])>> \in Seq(Nat)
        /\ Append(dat[f], Len(lines[f])) \in Seq(Nat)
    <3>1. Pending(f).time \in Times \cup {0}
      BY <2>2 DEF Line
    <3>2. \A t \in Times \cup {0} : t \in Nat
      BY ExtractorAssumption
    <3>3. Count(Pending(f).op) \in Nat
      BY DEF Count
    <3>4. Append(dat[f], Len(lines[f])) \in Seq(Nat)
      BY <2>1 DEF TypeOK
    <3>. QED BY <2>1, <3>1, <3>2, <3>3, <3>4
  <2>4. TypeOK'
    BY <1>8, <2>2, <2>3 DEF OpenSegment, TypeOK, PC, bucket
  <2>5. HasPending'
    BY <1>8 DEF OpenSegment, HasPending, Pending, TypeOK
  <2>. QED BY <2>4, <2>5
<1>9. CASE TempFileFails(f)
  <2>1. Pending(f).key \in Keys
    BY <1>9 DEF TempFileFails, HasPending
  <2>2. TypeOK'
    BY <1>9, <2>1 DEF TempFileFails, EnterFinally, HasSegment, TypeOK, PC, bucket
  <2>3. HasPending'
    BY <1>9 DEF TempFileFails, EnterFinally, HasSegment, HasPending, Pending, TypeOK
  <2>. QED BY <2>2, <2>3
<1>10. CASE StreamFails(f)
  <2>1. Pending(f).key \in Keys /\ <<>> \in Seq(Nat)
    BY <1>10 DEF StreamFails, HasPending
  <2>2. tmp' \in [Files -> {"none", "open", "deleted"}] /\ seg' \in [Files -> Seq(Nat)]
    <3>1. CASE HasSegment(f)
      <4>1. tmp' = [tmp EXCEPT ![f] = "open"] /\ seg' = [seg EXCEPT ![f] = <<>>]
        BY <1>10, <3>1 DEF StreamFails
      <4>. QED BY <2>1, <4>1 DEF TypeOK
    <3>2. CASE ~HasSegment(f)
      BY <1>10, <3>2 DEF StreamFails, TypeOK
    <3>. QED BY <3>1, <3>2
  <2>3. TypeOK'
    BY <1>10, <2>1, <2>2 DEF StreamFails, EnterFinally, HasSegment, TypeOK, PC, bucket
  <2>4. HasPending'
    BY <1>10 DEF StreamFails, EnterFinally, HasSegment, HasPending, Pending, TypeOK
  <2>. QED BY <2>3, <2>4
<1>11. CASE Killed(f)
  BY <1>11 DEF Killed, TypeOK, HasPending, Pending, PC, segVars, bucket
<1>. QED
  BY <1>1, <1>2, <1>3, <1>4, <1>5, <1>6, <1>7, <1>8, <1>9, <1>10, <1>11 DEF Step

\* The type invariant holds in every behaviour: every definition is applied to
\* values of its domain, and a step that opens a segment has its first line.
THEOREM TypeCorrect == Spec => []TypeOK
<1>1. TypeInv /\ [Next]_vars => TypeInv'
  <2>. SUFFICES ASSUME TypeInv, [Next]_vars
                PROVE  TypeInv'
    OBVIOUS
  <2>1. CASE Next
    BY <2>1, TypeStep DEF Next
  <2>2. CASE UNCHANGED vars
    BY <2>2 DEF TypeInv, TypeOK, HasPending, Pending, vars, readVars, segVars, bucket
  <2>. QED BY <2>1, <2>2
<1>2. TypeInv => TypeOK
  BY DEF TypeInv
<1>. QED BY TypeInit, <1>1, <1>2, PTL DEF Spec

\* Every stored name has its start before its end, for every order of the times
\* that were extracted or guessed (the nudges of flushToStorage).
THEOREM StoredNamesOrdered == Spec => []NamesOrdered
<1>. DEFINE Inv == TypeInv /\ NamesOrdered
<1>1. Init => Inv
  BY TypeInit DEF Init, NamesOrdered
<1>2. ASSUME Inv, NEW f \in Files, Step(f) \/ Killed(f)
      PROVE  NamesOrdered'
  <2>. DEFINE name == SegmentName(f)
  <2>1. name[1] < name[2]
    BY <1>2, NameOfSegment DEF TypeInv
  <2>2. DOMAIN corr' \subseteq DOMAIN corr \cup {name}
    <3>1. CASE Flush(f)
      BY <3>1 DEF Flush, StoreCorr, CutCorr, CopyCorr, Put, LoseCorr, CorrThrows, CorrMissing,
                  LeaveFlush, StoreDat, LoseDat, FlushDat, DatThrows, bucket
    <3>2. CASE ~Flush(f)
      BY <1>2, <3>2 DEF Step, Skip, ReadSame, ReadOther, Eof, ReadFails, WriteFails, OpenSegment,
                        TempFileFails, StreamFails, Killed, bucket
    <3>. QED BY <3>1, <3>2
  <2>3. DOMAIN dats' \subseteq DOMAIN dats \cup {name}
    <3>1. CASE Flush(f)
      BY <3>1 DEF Flush, StoreCorr, CutCorr, CopyCorr, Put, LoseCorr, CorrThrows, CorrMissing,
                  LeaveFlush, StoreDat, LoseDat, Drop, Restrict, DatThrows, bucket
    <3>2. CASE ~Flush(f)
      BY <1>2, <3>2 DEF Step, Skip, ReadSame, ReadOther, Eof, ReadFails, WriteFails, OpenSegment,
                        TempFileFails, StreamFails, Killed, bucket
    <3>. QED BY <3>1, <3>2
  <2>. QED BY <1>2, <2>1, <2>2, <2>3 DEF NamesOrdered
<1>3. Inv /\ [Next]_vars => Inv'
  <2>. SUFFICES ASSUME Inv, [Next]_vars
                PROVE  Inv'
    OBVIOUS
  <2>1. CASE Next
    <3>1. PICK f \in Files : Step(f) \/ Killed(f)
      BY <2>1 DEF Next
    <3>2. TypeInv'
      BY <3>1, TypeStep
    <3>3. NamesOrdered'
      BY <3>1, <1>2
    <3>. QED BY <3>2, <3>3
  <2>2. CASE UNCHANGED vars
    BY <2>2 DEF NamesOrdered, TypeInv, TypeOK, HasPending, Pending, vars, readVars, segVars, bucket
  <2>. QED BY <2>1, <2>2
<1>. QED BY <1>1, <1>3, PTL DEF Spec

-----------------------------------------------------------------------------
(* The segment invariant: what the model directory holds of each file *)

\* s lists lines of l that have the id k, in their order, with lines of no other
\* id between them.
IsSegment(s, l, k) ==
  /\ \A i \in DOMAIN s : s[i] \in DOMAIN l /\ l[s[i]].key = k
  /\ \A i, j \in DOMAIN s : i < j => s[i] < s[j]
  /\ \A i, j \in DOMAIN s : \A n \in s[i] .. s[j] : l[n].key \in {k, NoKey}

\* What the program counter says of the temporary file.
Control ==
  \A f \in Files :
    /\ pc[f] = "read" =>
         ending[f] = "no" /\ tmp[f] # "deleted" /\ (tmp[f] = "none" => cur[f] = NoKey)
    /\ pc[f] = "corr" => tmp[f] # "none"
    /\ pc[f] = "dat" => tmp[f] = "deleted"
    /\ pc[f] = "open" => tmp[f] # "open" /\ ending[f] = "no"
    /\ pc[f] = "done" => tmp[f] # "open" \/ ending[f] = "throw"

\* The temporary file is a segment that goes on to the last line read, unless
\* that line is one of another correlation.
Segments ==
  \A f \in Files : tmp[f] = "open" =>
    /\ IsSegment(seg[f], lines[f], cur[f])
    /\ pc[f] = "read" =>
         \A i \in DOMAIN seg[f] : \A n \in seg[f][i] .. Len(lines[f]) :
           lines[f][n].key \in {cur[f], NoKey}

\* So is every .corr file.
Stored == \A m \in DOMAIN corr : IsSegment(corr[m].lines, lines[corr[m].file], m[3])

\* The last line read belongs to no segment yet.
Unplaced(f) == pc[f] = "open" \/ (pc[f] \in {"corr", "dat"} /\ ending[f] = "no")

\* No line of the temporary file, nor one that waits for the next, is stored.
Fresh ==
  \A f \in Files :
    /\ tmp[f] = "open" => \A n \in Range(seg[f]) : ~StoredLine(f, n)
    /\ Unplaced(f) =>
         ~StoredLine(f, Len(lines[f])) /\ (tmp[f] = "open" => Len(lines[f]) \notin Range(seg[f]))

\* A line is stored, or the storage is known to have lost it.
Accounted(f, n) == StoredLine(f, n) \/ <<f, n>> \in cut \cup replaced

\* Every correlated line is accounted for, but for those of the temporary file, and
\* the last one read until it is in one.  An exception may drop that one.
Placed ==
  \A f \in Files : \A n \in CorrelatedLines(f) :
    \/ Accounted(f, n)
    \/ tmp[f] = "open" /\ n \in Range(seg[f])
    \/ n = Len(lines[f]) /\ (Unplaced(f) \/ ending[f] = "throw" \/ pc[f] = "killed")

SegmentInv == Control /\ Segments /\ Stored /\ LinesStoredOnce /\ Fresh /\ Placed

\* A segment stays one when lines are added to the file.
LEMMA SegmentStays ==
  ASSUME NEW l, NEW l2, NEW s, NEW k,
         \A n \in DOMAIN l : n \in DOMAIN l2 /\ l2[n] = l[n],
         l \in Seq(Line), s \in Seq(Nat), IsSegment(s, l, k)
  PROVE  IsSegment(s, l2, k)
<1>1. \A i \in DOMAIN s : s[i] \in DOMAIN l2 /\ l2[s[i]].key = k
  BY DEF IsSegment
<1>2. ASSUME NEW i \in DOMAIN s, NEW j \in DOMAIN s, NEW n \in s[i] .. s[j]
      PROVE  l2[n].key \in {k, NoKey}
  <2>1. s[i] \in 1 .. Len(l) /\ s[j] \in 1 .. Len(l)
    BY DEF IsSegment
  <2>2. n \in DOMAIN l
    BY <2>1
  <2>. QED BY <2>2 DEF IsSegment
<1>. QED BY <1>1, <1>2 DEF IsSegment

\* What a copy that is cut short leaves is a segment.
LEMMA SegmentPrefix ==
  ASSUME NEW l, NEW s \in Seq(Nat), NEW k, NEW m \in Nat, m < Len(s), IsSegment(s, l, k)
  PROVE  IsSegment(SubSeq(s, 1, m), l, k)
<1>1. DOMAIN SubSeq(s, 1, m) \subseteq DOMAIN s /\ \A i \in DOMAIN SubSeq(s, 1, m) : SubSeq(s, 1, m)[i] = s[i]
  OBVIOUS
<1>. QED BY <1>1 DEF IsSegment

\* The state of the other files does not change in a step of f, and the lines that
\* were read of any file stay.
LEMMA StepOfOneFile ==
  ASSUME TypeInv, NEW f \in Files, Step(f) \/ Killed(f)
  PROVE  /\ \A g \in Files \ {f} :
              /\ pc'[g] = pc[g] /\ ending'[g] = ending[g] /\ lines'[g] = lines[g]
              /\ cur'[g] = cur[g] /\ tmp'[g] = tmp[g] /\ seg'[g] = seg[g]
         /\ \A g \in Files : \A n \in DOMAIN lines[g] :
              n \in DOMAIN lines'[g] /\ lines'[g][n] = lines[g][n]
<1>. USE DEF TypeInv
<1>1. CASE Skip(f) \/ ReadSame(f) \/ ReadOther(f)
  <2>1. PICK line \in Line : Read(f, line)
    BY <1>1, LinesRead DEF Skip, ReadSame, ReadOther, TypeOK
  <2>2. /\ Len(lines'[f]) = Len(lines[f]) + 1
        /\ \A n \in 1 .. Len(lines[f]) : lines'[f][n] = lines[f][n]
        /\ \A g \in Files \ {f} : lines'[g] = lines[g]
        /\ lines[f] \in Seq(Line) /\ lines'[f] \in Seq(Line)
    BY <2>1, ReadAppends DEF TypeOK
  <2>3. \A n \in DOMAIN lines[f] : n \in DOMAIN lines'[f] /\ lines'[f][n] = lines[f][n]
    BY <2>2
  <2>4. \A g \in Files \ {f} :
          /\ pc'[g] = pc[g] /\ ending'[g] = ending[g]
          /\ cur'[g] = cur[g] /\ tmp'[g] = tmp[g] /\ seg'[g] = seg[g]
    BY <1>1 DEF Skip, ReadSame, ReadOther, segVars, TypeOK
  <2>. QED BY <2>2, <2>3, <2>4
<1>2. CASE Eof(f) \/ ReadFails(f) \/ WriteFails(f) \/ Killed(f)
  BY <1>2 DEF Eof, ReadFails, WriteFails, Killed, EnterFinally, FailFinally, segVars, TypeOK
<1>3. CASE Flush(f)
  BY <1>3 DEF Flush, StoreCorr, CutCorr, CopyCorr, LoseCorr, CorrThrows, CorrMissing, LeaveFlush,
              EnterFinally, FailFinally, StoreDat, LoseDat, FlushDat, DatThrows, segVars, TypeOK
<1>4. CASE OpenSegment(f)
  BY <1>4 DEF OpenSegment, TypeOK
<1>5. CASE TempFileFails(f)
  BY <1>5 DEF TempFileFails, EnterFinally, TypeOK
<1>6. CASE StreamFails(f)
  <2>1. \A g \in Files \ {f} :
          pc'[g] = pc[g] /\ ending'[g] = ending[g] /\ lines'[g] = lines[g] /\ cur'[g] = cur[g]
    BY <1>6 DEF StreamFails, EnterFinally, TypeOK
  <2>2. \A g \in Files \ {f} : tmp'[g] = tmp[g] /\ seg'[g] = seg[g]
    BY <1>6 DEF StreamFails, TypeOK
  <2>. QED BY <1>6, <2>1, <2>2 DEF StreamFails
<1>. QED BY <1>1, <1>2, <1>3, <1>4, <1>5, <1>6 DEF Step

\* Only two actions change the .corr files.
LEMMA CorrStep ==
  ASSUME NEW f \in Files, Step(f) \/ Killed(f)
  PROVE  UNCHANGED corr \/ StoreCorr(f) \/ CutCorr(f)
<1>1. CASE Flush(f)
  BY <1>1 DEF Flush, LoseCorr, CorrThrows, CorrMissing, LeaveFlush, StoreDat, LoseDat, FlushDat,
              DatThrows, bucket
<1>2. CASE ~Flush(f)
  BY <1>2 DEF Step, Skip, ReadSame, ReadOther, Eof, ReadFails, WriteFails, OpenSegment,
              TempFileFails, StreamFails, Killed, bucket
<1>. QED BY <1>1, <1>2

LEMMA ControlStep ==
  ASSUME TypeInv, Control, NEW f \in Files, Step(f) \/ Killed(f)
  PROVE  Control'
<1>. USE DEF TypeInv
<1>1. SUFFICES
        /\ pc'[f] = "read" =>
             ending'[f] = "no" /\ tmp'[f] # "deleted" /\ (tmp'[f] = "none" => cur'[f] = NoKey)
        /\ pc'[f] = "corr" => tmp'[f] # "none"
        /\ pc'[f] = "dat" => tmp'[f] = "deleted"
        /\ pc'[f] = "open" => tmp'[f] # "open" /\ ending'[f] = "no"
        /\ pc'[f] = "done" => tmp'[f] # "open" \/ ending'[f] = "throw"
  BY StepOfOneFile DEF Control
<1>2. CASE Skip(f) \/ ReadSame(f) \/ ReadOther(f)
  BY <1>2 DEF Skip, ReadSame, ReadOther, Read, HasSegment, segVars, Control, TypeOK
<1>3. CASE Eof(f) \/ ReadFails(f) \/ WriteFails(f) \/ Killed(f)
  BY <1>3 DEF Eof, ReadFails, WriteFails, Killed, EnterFinally, FailFinally, HasSegment, segVars,
              Control, TypeOK
<1>4. CASE StoreCorr(f) \/ CutCorr(f) \/ LoseCorr(f)
  BY <1>4 DEF StoreCorr, CutCorr, CopyCorr, LoseCorr, Control, TypeOK
<1>5. CASE CorrThrows(f) \/ CorrMissing(f) \/ DatThrows(f)
  BY <1>5 DEF CorrThrows, CorrMissing, DatThrows, LeaveFlush, EnterFinally, FailFinally, HasSegment,
              segVars, Control, TypeOK
<1>6. CASE StoreDat(f) \/ LoseDat(f)
  BY <1>6 DEF StoreDat, LoseDat, FlushDat, AfterFlush, Control, TypeOK
<1>7. CASE OpenSegment(f)
  BY <1>7 DEF OpenSegment, Control, TypeOK
<1>8. CASE TempFileFails(f)
  BY <1>8 DEF TempFileFails, EnterFinally, HasSegment, Control, TypeOK
<1>9. CASE StreamFails(f)
  BY <1>9 DEF StreamFails, EnterFinally, HasSegment, Control, TypeOK
<1>. QED BY <1>2, <1>3, <1>4, <1>5, <1>6, <1>7, <1>8, <1>9 DEF Step, Flush

LEMMA SegmentsStep ==
  ASSUME TypeInv, TypeInv', Control, Segments, NEW f \in Files, Step(f) \/ Killed(f)
  PROVE  Segments'
<1>. USE DEF TypeInv
<1>1. SUFFICES ASSUME tmp'[f] = "open"
               PROVE  /\ IsSegment(seg'[f], lines'[f], cur'[f])
                      /\ pc'[f] = "read" =>
                           \A i \in DOMAIN seg'[f] : \A n \in seg'[f][i] .. Len(lines'[f]) :
                             lines'[f][n].key \in {cur'[f], NoKey}
  BY StepOfOneFile DEF Segments
<1>2. lines[f] \in Seq(Line) /\ lines'[f] \in Seq(Line) /\ seg[f] \in Seq(Nat)
  BY DEF TypeOK
<1>3. \A n \in DOMAIN lines[f] : n \in DOMAIN lines'[f] /\ lines'[f][n] = lines[f][n]
  BY StepOfOneFile
<1>4. CASE Skip(f)
  <2>1. tmp[f] = "open" /\ pc[f] = "read" /\ UNCHANGED <<seg, cur>>
    BY <1>1, <1>4 DEF Skip, Read, segVars
  <2>2. IsSegment(seg'[f], lines'[f], cur'[f])
    BY <1>2, <1>3, <2>1, SegmentStays DEF Segments
  <2>3. Len(lines'[f]) = Len(lines[f]) + 1 /\ lines'[f][Len(lines'[f])].key = NoKey
    BY <1>4, ReadAppends, LinesRead DEF Skip
  <2>4. ASSUME NEW i \in DOMAIN seg'[f], NEW n \in seg'[f][i] .. Len(lines'[f])
        PROVE  lines'[f][n].key \in {cur'[f], NoKey}
    <3>1. CASE n = Len(lines'[f])
      BY <2>3, <3>1
    <3>2. CASE n # Len(lines'[f])
      <4>1. i \in DOMAIN seg[f] /\ seg'[f][i] = seg[f][i] /\ seg[f][i] \in 1 .. Len(lines[f])
        BY <1>2, <2>1, <2>4 DEF Segments, IsSegment
      <4>2. Len(lines[f]) \in Nat /\ DOMAIN lines[f] = 1 .. Len(lines[f])
        BY <1>2
      <4>3. n \in seg[f][i] .. Len(lines[f]) /\ n \in DOMAIN lines[f]
        BY <2>3, <2>4, <3>2, <4>1, <4>2
      <4>. QED BY <1>3, <2>1, <4>1, <4>3 DEF Segments
    <3>. QED BY <3>1, <3>2
  <2>. QED BY <2>2, <2>4
<1>5. CASE ReadSame(f)
  <2>1. PICK t \in Times, o \in Ops :
          cur[f] \in Keys /\ Read(f, [key |-> cur[f], time |-> t, op |-> o])
    BY <1>5 DEF ReadSame
  <2>2. /\ Len(lines'[f]) = Len(lines[f]) + 1
        /\ lines'[f][Len(lines'[f])].key = cur[f]
    BY <2>1, ReadAppends, LinesRead
  <2>3. tmp[f] = "open" /\ pc[f] = "read" /\ cur'[f] = cur[f]
        /\ seg'[f] = Append(seg[f], Len(lines'[f]))
    BY <1>1, <1>5, <2>1 DEF ReadSame, Read, TypeOK
  <2>4. /\ Len(seg'[f]) = Len(seg[f]) + 1
        /\ seg'[f][Len(seg'[f])] = Len(lines'[f])
        /\ \A i \in 1 .. Len(seg[f]) : seg'[f][i] = seg[f][i]
        /\ DOMAIN seg'[f] = 1 .. Len(seg'[f]) /\ DOMAIN seg[f] = 1 .. Len(seg[f])
        /\ Len(seg[f]) \in Nat /\ Len(lines[f]) \in Nat
    BY <1>2, <2>2, <2>3
  <2>5. \A i \in 1 .. Len(seg[f]) :
          seg[f][i] \in 1 .. Len(lines[f]) /\ lines[f][seg[f][i]].key = cur[f]
    BY <1>2, <2>3 DEF Segments, IsSegment
  <2>6. \A i \in DOMAIN seg'[f] :
          seg'[f][i] \in 1 .. Len(lines'[f]) /\ lines'[f][seg'[f][i]].key = cur'[f]
    <3>1. SUFFICES ASSUME NEW i \in DOMAIN seg'[f]
                   PROVE  seg'[f][i] \in 1 .. Len(lines'[f]) /\ lines'[f][seg'[f][i]].key = cur'[f]
      OBVIOUS
    <3>2. CASE i \in 1 .. Len(seg[f])
      <4>1. /\ seg'[f][i] = seg[f][i]
            /\ seg[f][i] \in 1 .. Len(lines[f])
            /\ lines[f][seg[f][i]].key = cur[f]
        BY <2>4, <2>5, <3>2
      <4>2. seg[f][i] \in DOMAIN lines[f]
        BY <1>2, <4>1
      <4>3. seg[f][i] \in 1 .. Len(lines'[f])
        BY <2>2, <2>4, <4>1
      <4>. QED BY <1>3, <2>3, <4>1, <4>2, <4>3
    <3>3. CASE i = Len(seg'[f])
      BY <2>2, <2>3, <2>4, <3>3
    <3>. QED BY <2>4, <3>2, <3>3
  <2>7. \A i, j \in DOMAIN seg'[f] : i < j => seg'[f][i] < seg'[f][j]
    <3>1. SUFFICES ASSUME NEW i \in DOMAIN seg'[f], NEW j \in DOMAIN seg'[f], i < j
                   PROVE  seg'[f][i] < seg'[f][j]
      OBVIOUS
    <3>2. i \in 1 .. Len(seg[f]) /\ seg'[f][i] = seg[f][i]
      BY <2>4, <3>1
    <3>3. CASE j \in 1 .. Len(seg[f])
      <4>1. i \in DOMAIN seg[f] /\ j \in DOMAIN seg[f] /\ seg'[f][j] = seg[f][j]
        BY <2>4, <3>2, <3>3
      <4>. QED BY <2>3, <3>1, <3>2, <4>1 DEF Segments, IsSegment
    <3>4. CASE j = Len(seg'[f])
      BY <2>2, <2>4, <2>5, <3>2, <3>4
    <3>. QED BY <2>4, <3>3, <3>4
  <2>8. ASSUME NEW i \in DOMAIN seg'[f], NEW n \in seg'[f][i] .. Len(lines'[f])
        PROVE  lines'[f][n].key \in {cur'[f], NoKey}
    <3>1. CASE n = Len(lines'[f])
      BY <2>2, <2>3, <3>1
    <3>2. CASE n # Len(lines'[f])
      <4>0. i # Len(seg'[f])
        BY <2>2, <2>4, <2>8, <3>2
      <4>1. i \in 1 .. Len(seg[f])
        BY <2>4, <4>0
      <4>2. seg'[f][i] = seg[f][i] /\ seg[f][i] \in 1 .. Len(lines[f])
        BY <2>4, <2>5, <4>1
      <4>3. n \in seg[f][i] .. Len(lines[f])
        BY <2>2, <2>4, <2>8, <3>2, <4>2
      <4>4. n \in DOMAIN lines[f]
        BY <1>2, <2>4, <4>2, <4>3
      <4>. QED BY <1>3, <2>3, <2>4, <4>1, <4>3, <4>4 DEF Segments
    <3>. QED BY <3>1, <3>2
  <2>9. \A i, j \in DOMAIN seg'[f] : \A n \in seg'[f][i] .. seg'[f][j] :
          lines'[f][n].key \in {cur'[f], NoKey}
    <3>1. SUFFICES ASSUME NEW i \in DOMAIN seg'[f], NEW j \in DOMAIN seg'[f],
                          NEW n \in seg'[f][i] .. seg'[f][j]
                   PROVE  lines'[f][n].key \in {cur'[f], NoKey}
      OBVIOUS
    <3>2. seg'[f][i] \in 1 .. Len(lines'[f]) /\ seg'[f][j] \in 1 .. Len(lines'[f])
      BY <2>6
    <3>3. Len(lines'[f]) \in Nat
      BY <1>2
    <3>4. n \in seg'[f][i] .. Len(lines'[f])
      BY <3>2, <3>3
    <3>. QED BY <2>8, <3>4
  <2>10. DOMAIN lines'[f] = 1 .. Len(lines'[f])
    BY <1>2
  <2>. QED BY <2>6, <2>7, <2>8, <2>9, <2>10 DEF IsSegment
<1>6. CASE ReadOther(f)
  <2>1. tmp[f] = "open" /\ UNCHANGED <<seg, cur>> /\ pc'[f] # "read"
    BY <1>1, <1>6 DEF ReadOther, segVars, TypeOK
  <2>. QED BY <1>2, <1>3, <2>1, SegmentStays DEF Segments
<1>7. CASE Eof(f) \/ ReadFails(f) \/ WriteFails(f) \/ Killed(f)
  <2>1. UNCHANGED <<lines, cur, tmp, seg>>
    BY <1>7 DEF Eof, ReadFails, WriteFails, Killed, segVars
  <2>2. pc'[f] # "read"
    BY <1>7 DEF Eof, ReadFails, WriteFails, Killed, EnterFinally, FailFinally, TypeOK
  <2>. QED BY <1>1, <2>1, <2>2 DEF Segments
<1>8. CASE StoreCorr(f) \/ CutCorr(f) \/ LoseCorr(f)
  BY <1>1, <1>8 DEF StoreCorr, CutCorr, CopyCorr, LoseCorr, TypeOK
<1>9. CASE CorrThrows(f) \/ CorrMissing(f) \/ DatThrows(f)
  <2>1. UNCHANGED <<lines, cur, tmp, seg>>
    BY <1>9 DEF CorrThrows, CorrMissing, DatThrows, LeaveFlush, segVars
  <2>2. pc'[f] # "read"
    BY <1>9 DEF CorrThrows, CorrMissing, DatThrows, LeaveFlush, EnterFinally, FailFinally, TypeOK
  <2>. QED BY <1>1, <2>1, <2>2 DEF Segments
<1>10. CASE StoreDat(f) \/ LoseDat(f)
  BY <1>1, <1>10 DEF StoreDat, LoseDat, FlushDat, Control
<1>11. CASE OpenSegment(f)
  <2>1. seg'[f] = <<Len(lines[f])>> /\ cur'[f] = Pending(f).key /\ lines' = lines
    BY <1>11 DEF OpenSegment, TypeOK
  <2>2. Len(lines[f]) \in DOMAIN lines[f] /\ DOMAIN lines[f] = 1 .. Len(lines[f]) /\ Len(lines[f]) \in Nat
    BY <1>2, <1>11 DEF OpenSegment, HasPending
  <2>3. DOMAIN seg'[f] = {1} /\ seg'[f][1] = Len(lines[f])
    BY <2>1
  <2>4. \A n \in Len(lines[f]) .. Len(lines[f]) : lines[f][n].key = cur'[f]
    BY <2>1, <2>2 DEF Pending
  <2>. QED BY <2>1, <2>2, <2>3, <2>4 DEF IsSegment
<1>12. CASE TempFileFails(f)
  BY <1>1, <1>12 DEF TempFileFails, Control
<1>13. CASE StreamFails(f)
  <2>1. seg'[f] = <<>>
    BY <1>1, <1>13 DEF StreamFails, HasSegment, Control, TypeOK
  <2>. QED BY <2>1 DEF IsSegment
<1>. QED BY <1>4, <1>5, <1>6, <1>7, <1>8, <1>9, <1>10, <1>11, <1>12, <1>13 DEF Step, Flush

\* What a copy does: it writes a part of the segment under its name.
LEMMA CopyStep ==
  ASSUME TypeInv, Segments, NEW f \in Files, StoreCorr(f) \/ CutCorr(f)
  PROVE  \E kept \in Seq(Nat) :
           /\ CopyCorr(f, kept)
           /\ IsSegment(kept, lines[f], cur[f])
           /\ Range(kept) \subseteq Range(seg[f])
           /\ kept = seg[f] \/ cut' = cut \cup ({f} \X Range(seg[f]))
           /\ DOMAIN corr' = DOMAIN corr \cup {SegmentName(f)}
           /\ \A m \in DOMAIN corr' :
                corr'[m] = IF m = SegmentName(f) THEN [file |-> f, lines |-> kept] ELSE corr[m]
<1>. USE DEF TypeInv
<1>1. seg[f] \in Seq(Nat) /\ tmp[f] = "open" /\ IsSegment(seg[f], lines[f], cur[f])
  BY DEF StoreCorr, CutCorr, CopyCorr, TypeOK, Segments
<1>2. ASSUME NEW kept, CopyCorr(f, kept)
      PROVE  /\ DOMAIN corr' = DOMAIN corr \cup {SegmentName(f)}
             /\ \A m \in DOMAIN corr' :
                  corr'[m] = IF m = SegmentName(f) THEN [file |-> f, lines |-> kept] ELSE corr[m]
  BY <1>2 DEF CopyCorr, Put
<1>3. CASE StoreCorr(f)
  <2>1. CopyCorr(f, seg[f])
    BY <1>3 DEF StoreCorr
  <2>. QED BY <1>1, <1>2, <2>1
<1>4. CASE CutCorr(f)
  <2>1. PICK m \in 0 .. MaxLines : m < Len(seg[f]) /\ CopyCorr(f, SubSeq(seg[f], 1, m))
    BY <1>4 DEF CutCorr
  <2>. DEFINE kept == SubSeq(seg[f], 1, m)
  <2>2. m \in Nat
    BY <2>1, ExtractorAssumption
  <2>3. kept \in Seq(Nat) /\ Range(kept) \subseteq Range(seg[f])
    BY <1>1, <2>1, <2>2 DEF Range
  <2>4. IsSegment(kept, lines[f], cur[f])
    BY <1>1, <2>1, <2>2, SegmentPrefix
  <2>5. cut' = cut \cup ({f} \X Range(seg[f]))
    BY <1>4 DEF CutCorr
  <2>6. CopyCorr(f, kept)
    BY <2>1
  <2>. HIDE DEF kept
  <2>. QED BY <1>2, <2>3, <2>4, <2>5, <2>6
<1>. QED BY <1>3, <1>4

LEMMA StoredStep ==
  ASSUME TypeInv, TypeInv', Segments, Stored, NEW f \in Files, Step(f) \/ Killed(f)
  PROVE  Stored'
<1>. USE DEF TypeInv
<1>1. ASSUME NEW m \in DOMAIN corr
      PROVE  IsSegment(corr[m].lines, lines'[corr[m].file], m[3])
  <2>1. corr[m].file \in Files /\ corr[m].lines \in Seq(Nat)
    BY <1>1 DEF TypeOK
  <2>2. \A n \in DOMAIN lines[corr[m].file] :
          n \in DOMAIN lines'[corr[m].file] /\ lines'[corr[m].file][n] = lines[corr[m].file][n]
    BY <2>1, StepOfOneFile
  <2>3. lines[corr[m].file] \in Seq(Line) /\ IsSegment(corr[m].lines, lines[corr[m].file], m[3])
    BY <2>1, <1>1 DEF Stored, TypeOK
  <2>. QED BY <2>1, <2>2, <2>3, SegmentStays
<1>2. CASE UNCHANGED corr
  BY <1>1, <1>2 DEF Stored
<1>3. CASE StoreCorr(f) \/ CutCorr(f)
  <2>1. PICK kept \in Seq(Nat) :
           /\ CopyCorr(f, kept)
           /\ IsSegment(kept, lines[f], cur[f])
           /\ DOMAIN corr' = DOMAIN corr \cup {SegmentName(f)}
           /\ \A m \in DOMAIN corr' :
                corr'[m] = IF m = SegmentName(f) THEN [file |-> f, lines |-> kept] ELSE corr[m]
    BY <1>3, CopyStep
  <2>2. lines' = lines /\ SegmentName(f)[3] = cur[f]
    BY <2>1 DEF CopyCorr, SegmentName
  <2>. QED BY <1>1, <2>1, <2>2 DEF Stored
<1>. QED BY <1>2, <1>3, CorrStep

\* A line is stored afterwards only if it was, or is one of the segment copied.
LEMMA NewlyStored ==
  ASSUME TypeInv, Segments, NEW f \in Files, Step(f) \/ Killed(f),
         NEW g \in Files, NEW n, StoredLine(g, n)'
  PROVE  StoredLine(g, n) \/ (g = f /\ tmp[f] = "open" /\ tmp'[f] # "open" /\ n \in Range(seg[f]))
<1>1. CASE UNCHANGED corr
  BY <1>1 DEF StoredLine
<1>2. CASE StoreCorr(f) \/ CutCorr(f)
  <2>1. PICK kept \in Seq(Nat) :
           /\ CopyCorr(f, kept)
           /\ Range(kept) \subseteq Range(seg[f])
           /\ DOMAIN corr' = DOMAIN corr \cup {SegmentName(f)}
           /\ \A m \in DOMAIN corr' :
                corr'[m] = IF m = SegmentName(f) THEN [file |-> f, lines |-> kept] ELSE corr[m]
    BY <1>2, CopyStep
  <2>2. tmp[f] = "open" /\ tmp'[f] # "open"
    BY <2>1 DEF CopyCorr, TypeInv, TypeOK
  <2>. QED BY <2>1, <2>2 DEF StoredLine
<1>. QED BY <1>1, <1>2, CorrStep

\* The numbers of stored lines, and of the lines of a segment, are those of lines
\* that were read.
LEMMA LinesInRange ==
  ASSUME TypeInv, Segments, Stored, NEW f \in Files, NEW n,
         StoredLine(f, n) \/ (tmp[f] = "open" /\ n \in Range(seg[f]))
  PROVE  n \in 1 .. Len(lines[f])
<1>1. lines[f] \in Seq(Line)
  BY DEF TypeInv, TypeOK
<1>2. CASE StoredLine(f, n)
  BY <1>1, <1>2 DEF StoredLine, Stored, IsSegment, Range
<1>3. CASE tmp[f] = "open" /\ n \in Range(seg[f])
  BY <1>1, <1>3 DEF Segments, IsSegment, Range
<1>. QED BY <1>2, <1>3

LEMMA FreshStep ==
  ASSUME TypeInv, TypeInv', Control, Segments, Stored, Fresh, NEW f \in Files, Step(f) \/ Killed(f)
  PROVE  Fresh'
<1>. USE DEF TypeInv
<1>1. ASSUME NEW g \in Files \ {f}
      PROVE  /\ tmp'[g] = "open" => \A n \in Range(seg'[g]) : ~StoredLine(g, n)'
             /\ Unplaced(g)' => /\ ~StoredLine(g, Len(lines[g]))'
                                /\ tmp'[g] = "open" => Len(lines'[g]) \notin Range(seg'[g])
  <2>1. /\ pc'[g] = pc[g] /\ ending'[g] = ending[g] /\ lines'[g] = lines[g]
        /\ tmp'[g] = tmp[g] /\ seg'[g] = seg[g]
    BY StepOfOneFile
  <2>2. \A n : StoredLine(g, n)' => StoredLine(g, n)
    BY NewlyStored
  <2>. QED BY <2>1, <2>2 DEF Fresh, Unplaced
<1>2. SUFFICES /\ tmp'[f] = "open" => \A n \in Range(seg'[f]) : ~StoredLine(f, n)'
               /\ Unplaced(f)' => /\ ~StoredLine(f, Len(lines[f]))'
                                  /\ tmp'[f] = "open" => Len(lines'[f]) \notin Range(seg'[f])
  BY <1>1 DEF Fresh
<1>3. lines[f] \in Seq(Line) /\ lines'[f] \in Seq(Line) /\ seg[f] \in Seq(Nat)
  BY DEF TypeOK
<1>4. \A n : StoredLine(f, n)' =>
        StoredLine(f, n) \/ (tmp[f] = "open" /\ tmp'[f] # "open" /\ n \in Range(seg[f]))
  BY NewlyStored
<1>5. CASE Skip(f) \/ ReadSame(f) \/ ReadOther(f)
  <2>1. PICK line \in Line : Read(f, line)
    BY <1>5, LinesRead DEF Skip, ReadSame, ReadOther, TypeOK
  <2>2. Len(lines'[f]) = Len(lines[f]) + 1 /\ Len(lines[f]) \in Nat
    BY <1>3, <2>1, ReadAppends
  <2>3. tmp' = tmp /\ UNCHANGED corr
    BY <1>5 DEF Skip, ReadSame, ReadOther, segVars, bucket
  <2>4. \A n : StoredLine(f, n)' => StoredLine(f, n)
    BY <2>3 DEF StoredLine
  <2>5. ~StoredLine(f, Len(lines[f]) + 1)
    BY <2>2, LinesInRange
  <2>6. \A n \in Range(seg'[f]) : n \in Range(seg[f]) \/ n = Len(lines'[f])
    <3>1. seg'[f] = seg[f] \/ seg'[f] = Append(seg[f], Len(lines'[f]))
      BY <1>5 DEF Skip, ReadSame, ReadOther, segVars, TypeOK
    <3>2. CASE seg'[f] = seg[f]
      BY <3>2
    <3>3. CASE seg'[f] = Append(seg[f], Len(lines'[f]))
      <4>1. \A i \in DOMAIN seg'[f] :
              (i \in DOMAIN seg[f] /\ seg'[f][i] = seg[f][i]) \/ seg'[f][i] = Len(lines'[f])
        BY <1>3, <2>2, <3>3
      <4>. QED BY <4>1 DEF Range
    <3>. QED BY <3>1, <3>2, <3>3
  <2>7. tmp'[f] = "open" => \A n \in Range(seg'[f]) : ~StoredLine(f, n)'
    BY <2>2, <2>3, <2>4, <2>5, <2>6 DEF Fresh
  <2>8. Unplaced(f)' => seg' = seg
    BY <1>5 DEF Skip, ReadSame, ReadOther, Read, Unplaced, segVars, TypeOK
  <2>9. tmp[f] = "open" => Len(lines'[f]) \notin Range(seg[f])
    BY <2>2, LinesInRange
  <2>. QED BY <2>2, <2>3, <2>4, <2>5, <2>7, <2>8, <2>9
<1>6. CASE Eof(f) \/ ReadFails(f) \/ WriteFails(f) \/ Killed(f)
  <2>1. UNCHANGED <<lines, tmp, seg, corr>> /\ ~Unplaced(f)'
    BY <1>6 DEF Eof, ReadFails, WriteFails, Killed, EnterFinally, FailFinally, segVars, bucket,
                Unplaced, TypeOK
  <2>. QED BY <1>4, <2>1 DEF Fresh
<1>7. CASE StoreCorr(f) \/ CutCorr(f) \/ LoseCorr(f)
  <2>1. tmp[f] = "open" /\ tmp'[f] = "deleted" /\ lines' = lines /\ (Unplaced(f)' => Unplaced(f))
    BY <1>7 DEF StoreCorr, CutCorr, CopyCorr, LoseCorr, Unplaced, TypeOK
  <2>. QED BY <1>4, <2>1 DEF Fresh
<1>8. CASE CorrThrows(f) \/ CorrMissing(f) \/ DatThrows(f)
  <2>1. UNCHANGED <<lines, tmp, seg, corr>> /\ ~Unplaced(f)'
    BY <1>8 DEF CorrThrows, CorrMissing, DatThrows, LeaveFlush, EnterFinally, FailFinally, segVars,
                bucket, Unplaced, TypeOK
  <2>. QED BY <1>4, <2>1 DEF Fresh
<1>9. CASE StoreDat(f) \/ LoseDat(f)
  <2>1. UNCHANGED <<lines, tmp, seg, corr>> /\ (Unplaced(f)' => Unplaced(f))
    BY <1>9 DEF StoreDat, LoseDat, FlushDat, AfterFlush, Unplaced, TypeOK
  <2>. QED BY <1>4, <2>1 DEF Fresh
<1>10. CASE OpenSegment(f)
  <2>1. UNCHANGED <<lines, corr>> /\ seg'[f] = <<Len(lines[f])>> /\ Unplaced(f) /\ ~Unplaced(f)'
    BY <1>10 DEF OpenSegment, Unplaced, bucket, TypeOK
  <2>2. Range(seg'[f]) = {Len(lines[f])}
    BY <2>1 DEF Range
  <2>3. \A n : StoredLine(f, n)' => StoredLine(f, n)
    BY <2>1 DEF StoredLine
  <2>. QED BY <2>1, <2>2, <2>3 DEF Fresh
<1>11. CASE TempFileFails(f)
  <2>1. UNCHANGED <<lines, tmp, seg, corr>> /\ ~Unplaced(f)'
    BY <1>11 DEF TempFileFails, EnterFinally, Unplaced, bucket, TypeOK
  <2>. QED BY <1>4, <2>1 DEF Fresh
<1>12. CASE StreamFails(f)
  <2>1. ~Unplaced(f)'
    BY <1>12 DEF StreamFails, EnterFinally, Unplaced, TypeOK
  <2>2. tmp'[f] = "open" => seg'[f] = <<>>
    BY <1>12 DEF StreamFails, HasSegment, Control, TypeOK
  <2>. QED BY <2>1, <2>2 DEF Range
<1>. QED BY <1>5, <1>6, <1>7, <1>8, <1>9, <1>10, <1>11, <1>12 DEF Step, Flush

LEMMA OnceStep ==
  ASSUME TypeInv, Segments, Fresh, LinesStoredOnce, NEW f \in Files, Step(f) \/ Killed(f)
  PROVE  LinesStoredOnce'
<1>1. CASE UNCHANGED corr
  BY <1>1 DEF LinesStoredOnce
<1>2. CASE StoreCorr(f) \/ CutCorr(f)
  <2>. DEFINE name == SegmentName(f)
  <2>1. PICK kept \in Seq(Nat) :
           /\ CopyCorr(f, kept)
           /\ Range(kept) \subseteq Range(seg[f])
           /\ DOMAIN corr' = DOMAIN corr \cup {name}
           /\ \A m \in DOMAIN corr' :
                corr'[m] = IF m = name THEN [file |-> f, lines |-> kept] ELSE corr[m]
    BY <1>2, CopyStep
  <2>. HIDE DEF name
  <2>2. \A n \in Range(seg[f]) : ~StoredLine(f, n)
    BY <2>1 DEF CopyCorr, Fresh
  <2>3. \A m \in DOMAIN corr : corr[m].file = f => Range(kept) \cap Range(corr[m].lines) = {}
    BY <2>1, <2>2 DEF StoredLine
  <2>4. SUFFICES ASSUME NEW m \in DOMAIN corr', NEW n \in DOMAIN corr',
                        m # n, corr'[m].file = corr'[n].file
                 PROVE  Range(corr'[m].lines) \cap Range(corr'[n].lines) = {}
    BY DEF LinesStoredOnce
  <2>5. CASE m = name
    <3>1. corr'[m] = [file |-> f, lines |-> kept] /\ n \in DOMAIN corr /\ corr'[n] = corr[n]
      BY <2>1, <2>4, <2>5
    <3>. QED BY <2>3, <2>4, <3>1
  <2>6. CASE n = name
    <3>1. corr'[n] = [file |-> f, lines |-> kept] /\ m \in DOMAIN corr /\ corr'[m] = corr[m]
      BY <2>1, <2>4, <2>6
    <3>. QED BY <2>3, <2>4, <3>1
  <2>7. CASE m # name /\ n # name
    <3>1. m \in DOMAIN corr /\ n \in DOMAIN corr /\ corr'[m] = corr[m] /\ corr'[n] = corr[n]
      BY <2>1, <2>4, <2>7
    <3>. QED BY <2>4, <3>1 DEF LinesStoredOnce
  <2>. QED BY <2>5, <2>6, <2>7
<1>. QED BY <1>1, <1>2, CorrStep

\* What was accounted for still is.
LEMMA AccountedStays ==
  ASSUME TypeInv, Segments, NEW f \in Files, Step(f) \/ Killed(f), NEW g \in Files, NEW n,
         Accounted(g, n)
  PROVE  Accounted(g, n)'
<1>1. cut \subseteq cut' /\ replaced \subseteq replaced'
  <2>1. CASE Flush(f)
    BY <2>1 DEF Flush, StoreCorr, CutCorr, CopyCorr, LoseCorr, CorrThrows, CorrMissing, LeaveFlush,
                StoreDat, LoseDat, FlushDat, DatThrows, bucket
  <2>2. CASE ~Flush(f)
    BY <2>2 DEF Step, Skip, ReadSame, ReadOther, Eof, ReadFails, WriteFails, OpenSegment,
                TempFileFails, StreamFails, Killed, bucket
  <2>. QED BY <2>1, <2>2
<1>2. CASE UNCHANGED corr
  BY <1>1, <1>2 DEF Accounted, StoredLine
<1>3. CASE StoreCorr(f) \/ CutCorr(f)
  <2>. DEFINE name == SegmentName(f)
  <2>1. PICK kept \in Seq(Nat) :
           /\ CopyCorr(f, kept)
           /\ DOMAIN corr' = DOMAIN corr \cup {name}
           /\ \A m \in DOMAIN corr' :
                corr'[m] = IF m = name THEN [file |-> f, lines |-> kept] ELSE corr[m]
    BY <1>3, CopyStep
  <2>2. replaced' = replaced \cup LinesAt(name)
    BY <2>1 DEF CopyCorr
  <2>. HIDE DEF name
  <2>3. ASSUME StoredLine(g, n)
        PROVE  Accounted(g, n)'
    <3>1. PICK m \in DOMAIN corr : corr[m].file = g /\ n \in Range(corr[m].lines)
      BY <2>3 DEF StoredLine
    <3>2. CASE m = name
      BY <2>2, <3>1, <3>2 DEF LinesAt, Accounted
    <3>3. CASE m # name
      BY <2>1, <3>1, <3>3 DEF StoredLine, Accounted
    <3>. QED BY <3>2, <3>3
  <2>. QED BY <1>1, <2>3 DEF Accounted
<1>. QED BY <1>2, <1>3, CorrStep

\* A copy accounts for every line of the segment, whether it is stored or lost.
LEMMA CopyAccounts ==
  ASSUME TypeInv, Segments, NEW f \in Files, StoreCorr(f) \/ CutCorr(f) \/ LoseCorr(f),
         NEW n \in Range(seg[f])
  PROVE  Accounted(f, n)'
<1>1. CASE StoreCorr(f) \/ CutCorr(f)
  <2>1. PICK kept \in Seq(Nat) :
           /\ kept = seg[f] \/ cut' = cut \cup ({f} \X Range(seg[f]))
           /\ DOMAIN corr' = DOMAIN corr \cup {SegmentName(f)}
           /\ \A m \in DOMAIN corr' :
                corr'[m] = IF m = SegmentName(f) THEN [file |-> f, lines |-> kept] ELSE corr[m]
    BY <1>1, CopyStep
  <2>. QED BY <2>1 DEF Accounted, StoredLine
<1>2. CASE LoseCorr(f)
  BY <1>2 DEF LoseCorr, Accounted
<1>. QED BY <1>1, <1>2

LEMMA PlacedStep ==
  ASSUME TypeInv, TypeInv', Control, Segments, Placed, NEW f \in Files, Step(f) \/ Killed(f)
  PROVE  Placed'
<1>. USE DEF TypeInv
<1>. DEFINE Late(g) == Unplaced(g) \/ ending[g] = "throw" \/ pc[g] = "killed"
            PlacedLine(g, n) == \/ Accounted(g, n)
                                \/ tmp[g] = "open" /\ n \in Range(seg[g])
                                \/ n = Len(lines[g]) /\ Late(g)
<1>1. \A g \in Files : lines[g] \in Seq(Line) /\ lines'[g] \in Seq(Line)
  BY DEF TypeOK
<1>2. SUFFICES ASSUME NEW g \in Files, NEW n \in CorrelatedLines(g)'
               PROVE  PlacedLine(g, n)'
  BY DEF Placed
<1>3. Accounted(g, n) => Accounted(g, n)'
  BY AccountedStays
<1>4. n \in CorrelatedLines(g) => PlacedLine(g, n)
  BY DEF Placed
<1>5. lines'[g] = lines[g] => n \in CorrelatedLines(g)
  BY DEF CorrelatedLines
<1>6. CASE g # f
  <2>1. /\ pc'[g] = pc[g] /\ ending'[g] = ending[g] /\ lines'[g] = lines[g]
        /\ tmp'[g] = tmp[g] /\ seg'[g] = seg[g]
    BY <1>6, StepOfOneFile
  <2>. QED BY <1>3, <1>4, <1>5, <2>1 DEF Unplaced
<1>7. CASE g = f
  <2>1. CASE Skip(f) \/ ReadSame(f) \/ ReadOther(f)
    <3>1. PICK line \in Line : Read(f, line)
      BY <2>1, LinesRead DEF Skip, ReadSame, ReadOther, TypeOK
    <3>2. /\ Len(lines'[f]) = Len(lines[f]) + 1
          /\ lines'[f][Len(lines'[f])] = line
          /\ \A i \in 1 .. Len(lines[f]) : lines'[f][i] = lines[f][i]
      BY <3>1, ReadAppends
    <3>3. tmp' = tmp /\ pc[f] = "read" /\ ending[f] = "no" /\ ~Late(f)
      BY <2>1 DEF Skip, ReadSame, ReadOther, Read, segVars, Control, Unplaced
    <3>4. CASE n = Len(lines'[f])
      <4>1. CASE Skip(f)
        <5>1. lines'[f] = Append(lines[f], [key |-> NoKey, time |-> 0, op |-> FALSE])
          BY <4>1 DEF Skip, Read, TypeOK
        <5>2. lines'[f][n].key = NoKey
          BY <1>1, <3>2, <3>4, <5>1
        <5>. QED BY <1>2, <1>7, <5>2 DEF CorrelatedLines
      <4>2. CASE ReadSame(f)
        <5>1. cur[f] \in Keys /\ seg'[f] = Append(seg[f], Len(lines'[f])) /\ seg[f] \in Seq(Nat)
          BY <4>2 DEF ReadSame, TypeOK
        <5>2. /\ Len(seg[f]) + 1 \in DOMAIN seg'[f]
              /\ seg'[f][Len(seg[f]) + 1] = Len(lines'[f])
          BY <5>1
        <5>3. Len(lines'[f]) \in Range(seg'[f])
          BY <5>2 DEF Range
        <5>4. tmp'[f] = "open"
          BY <3>3, <5>1, ExtractorAssumption DEF Control, TypeOK
        <5>. QED BY <1>7, <3>4, <5>3, <5>4
      <4>3. CASE ReadOther(f)
        <5>1. Unplaced(f)'
          BY <3>3, <4>3 DEF ReadOther, Unplaced, TypeOK
        <5>. QED BY <1>7, <3>4, <5>1
      <4>. QED BY <2>1, <4>1, <4>2, <4>3
    <3>5. CASE n # Len(lines'[f])
      <4>1. n \in CorrelatedLines(f)
        BY <1>1, <1>2, <1>7, <3>2, <3>5 DEF CorrelatedLines
      <4>2. \A i \in Range(seg[f]) : i \in Range(seg'[f])
        <5>1. seg'[f] = seg[f] \/ seg'[f] = Append(seg[f], Len(lines'[f]))
          BY <2>1 DEF Skip, ReadSame, ReadOther, segVars, TypeOK
        <5>2. seg[f] \in Seq(Nat) /\ Len(lines'[f]) \in Nat
          BY <1>1 DEF TypeOK
        <5>3. CASE seg'[f] = Append(seg[f], Len(lines'[f]))
          <6>1. \A i \in DOMAIN seg[f] : i \in DOMAIN seg'[f] /\ seg'[f][i] = seg[f][i]
            BY <5>2, <5>3
          <6>. QED BY <6>1 DEF Range
        <5>. QED BY <5>1, <5>3
      <4>. QED BY <1>3, <1>4, <1>7, <3>3, <4>1, <4>2
    <3>. QED BY <3>4, <3>5
  <2>2. CASE Eof(f)
    <3>1. UNCHANGED <<lines, tmp, seg>> /\ ~Late(f)
      BY <2>2 DEF Eof, segVars, Control, Unplaced
    <3>. QED BY <1>3, <1>4, <1>5, <1>7, <3>1
  <2>3. CASE ReadFails(f) \/ WriteFails(f) \/ Killed(f)
    <3>1. UNCHANGED <<lines, tmp, seg>> /\ Late(f)'
      BY <2>3 DEF ReadFails, WriteFails, Killed, EnterFinally, FailFinally, segVars, TypeOK
    <3>. QED BY <1>3, <1>4, <1>5, <1>7, <3>1
  <2>4. CASE StoreCorr(f) \/ CutCorr(f) \/ LoseCorr(f)
    <3>1. lines' = lines /\ (Late(f) => Late(f)')
      BY <2>4 DEF StoreCorr, CutCorr, CopyCorr, LoseCorr, Unplaced, TypeOK
    <3>2. \A i \in Range(seg[f]) : Accounted(f, i)'
      BY <2>4, CopyAccounts
    <3>. QED BY <1>3, <1>4, <1>5, <1>7, <3>1, <3>2
  <2>5. CASE CorrThrows(f) \/ CorrMissing(f) \/ DatThrows(f)
    <3>1. UNCHANGED <<lines, tmp, seg>> /\ Late(f)'
      BY <2>5 DEF CorrThrows, CorrMissing, DatThrows, LeaveFlush, EnterFinally, FailFinally, segVars,
                  TypeOK
    <3>. QED BY <1>3, <1>4, <1>5, <1>7, <3>1
  <2>6. CASE StoreDat(f) \/ LoseDat(f)
    <3>1. UNCHANGED <<lines, tmp, seg>> /\ (Late(f) => Late(f)')
      BY <2>6 DEF StoreDat, LoseDat, FlushDat, AfterFlush, Unplaced, TypeOK
    <3>. QED BY <1>3, <1>4, <1>5, <1>7, <3>1
  <2>7. CASE OpenSegment(f)
    <3>1. lines' = lines /\ tmp[f] # "open" /\ tmp'[f] = "open" /\ seg'[f] = <<Len(lines[f])>>
      BY <2>7 DEF OpenSegment, Control, TypeOK
    <3>2. Len(lines[f]) \in Range(seg'[f])
      BY <3>1 DEF Range
    <3>. QED BY <1>3, <1>4, <1>5, <1>7, <3>1, <3>2
  <2>8. CASE TempFileFails(f) \/ StreamFails(f)
    <3>1. lines' = lines /\ tmp[f] # "open" /\ Late(f)'
      BY <2>8 DEF TempFileFails, StreamFails, EnterFinally, Control, TypeOK
    <3>. QED BY <1>3, <1>4, <1>5, <1>7, <3>1
  <2>. QED BY <2>1, <2>2, <2>3, <2>4, <2>5, <2>6, <2>7, <2>8 DEF Step, Flush
<1>. QED BY <1>6, <1>7

\* The inductive invariant of a call: what its program counter says of the temporary
\* file, what the temporary file and the .corr files hold, and where each line is.
THEOREM SegmentInvariant == Spec => [](TypeInv /\ SegmentInv)
<1>1. Init => TypeInv /\ SegmentInv
  <2>. SUFFICES ASSUME Init
                PROVE  SegmentInv
    BY TypeInit
  <2>1. Control /\ Segments /\ Stored /\ LinesStoredOnce
    BY DEF Init, Control, Segments, Stored, LinesStoredOnce
  <2>2. Fresh
    BY DEF Init, Fresh, Unplaced
  <2>3. Placed
    BY DEF Init, Placed, CorrelatedLines
  <2>. QED BY <2>1, <2>2, <2>3 DEF SegmentInv
<1>2. TypeInv /\ SegmentInv /\ [Next]_vars => (TypeInv /\ SegmentInv)'
  <2>. SUFFICES ASSUME TypeInv, SegmentInv, [Next]_vars
                PROVE  (TypeInv /\ SegmentInv)'
    OBVIOUS
  <2>1. CASE Next
    <3>1. PICK f \in Files : Step(f) \/ Killed(f)
      BY <2>1 DEF Next
    <3>2. TypeInv'
      BY <3>1, TypeStep
    <3>3. Control' /\ Segments'
      BY <3>1, <3>2, ControlStep, SegmentsStep DEF SegmentInv
    <3>4. Stored' /\ LinesStoredOnce'
      BY <3>1, <3>2, StoredStep, OnceStep DEF SegmentInv
    <3>5. Fresh' /\ Placed'
      BY <3>1, <3>2, FreshStep, PlacedStep DEF SegmentInv
    <3>. QED BY <3>2, <3>3, <3>4, <3>5 DEF SegmentInv
  <2>2. CASE UNCHANGED vars
    <3>1. TypeInv'
      BY <2>2 DEF TypeInv, TypeOK, HasPending, Pending, vars, readVars, segVars, bucket
    <3>2. Control' /\ Segments' /\ Stored' /\ LinesStoredOnce'
      BY <2>2 DEF SegmentInv, Control, Segments, Stored, LinesStoredOnce, vars, readVars, segVars,
                  bucket
    <3>3. Fresh'
      BY <2>2 DEF SegmentInv, Fresh, Unplaced, StoredLine, vars, readVars, segVars, bucket
    <3>4. Placed'
      BY <2>2 DEF SegmentInv, Placed, Unplaced, Accounted, StoredLine, CorrelatedLines, vars, readVars,
                  segVars, bucket
    <3>. QED BY <3>1, <3>2, <3>3, <3>4 DEF SegmentInv
  <2>. QED BY <2>1, <2>2
<1>. QED BY <1>1, <1>2, PTL DEF Spec

\* Every .corr file is a segment of the source file it came from.
THEOREM CorrFilesAreSegments == Spec => []CorrFileIsASegment
<1>1. TypeInv /\ SegmentInv => CorrFileIsASegment
  BY DEF SegmentInv, Stored, IsSegment, CorrFileIsASegment
<1>. QED BY <1>1, SegmentInvariant, PTL

\* No line is in two .corr files.
THEOREM NoLineTwice == Spec => []LinesStoredOnce
<1>1. TypeInv /\ SegmentInv => LinesStoredOnce
  BY DEF SegmentInv
<1>. QED BY <1>1, SegmentInvariant, PTL

\* Whatever fails, and wherever, no line is lost but the one in hand and those the
\* storage lost.
THEOREM NoLineUnaccounted == Spec => []LinesAccountedFor
<1>1. TypeInv /\ SegmentInv => LinesAccountedFor
  BY DEF SegmentInv, Placed, Accounted, LinesAccountedFor
<1>. QED BY <1>1, SegmentInvariant, PTL

\* A call that meets no exception is complete.
THEOREM CompleteCalls == Spec => []CompleteWithoutFailure
<1>1. TypeInv /\ SegmentInv => CompleteWithoutFailure
  BY DEF SegmentInv, Control, Placed, Accounted, Unplaced, CompleteWithoutFailure
<1>. QED BY <1>1, SegmentInvariant, PTL

-----------------------------------------------------------------------------
(* The fields and the times of a segment *)

\* The lines of d that name an operation.
Operations(l, d) == Cardinality({i \in DOMAIN d : l[d[i]].op})

\* d lists lines of l that have the id k.
AreLinesOf(d, l, k) == \A i \in DOMAIN d : d[i] \in DOMAIN l /\ l[d[i]].key = k

\* What the call holds of the segment besides its file: the times of its first and its
\* last line; and the lines its fields come from, which have its id and were counted.
\* There are none before a segment is opened, and at least one while it is read.
HandOf(f) ==
  /\ pc[f] = "read" /\ tmp[f] = "open" => seg[f] # <<>> /\ dat[f] # <<>>
  /\ tmp[f] = "open" /\ seg[f] # <<>> =>
       /\ start[f] = lines[f][seg[f][1]].time
       /\ last[f] = lines[f][seg[f][Len(seg[f])]].time
  /\ pc[f] = "open" \/ tmp[f] = "none" => dat[f] = <<>>
  /\ AreLinesOf(dat[f], lines[f], cur[f])
  /\ dat[f] # <<>> => ops[f] = Operations(lines[f], dat[f])

InHand == \A f \in Files : HandOf(f)

\* Every .dat file holds what a call held.
DatStored ==
  \A m \in DOMAIN dats : LET d == dats[m] IN
    /\ AreLinesOf(d.lines, lines[d.file], m[3])
    /\ d.lines # <<>> => d.ops = Operations(lines[d.file], d.lines)

DatInv == InHand /\ DatStored /\ NameSpansLines /\ CorrHasDat

\* The fields in hand of the other files do not change in a step of f.
LEMMA FieldsOfOneFile ==
  ASSUME TypeInv, NEW f \in Files, Step(f) \/ Killed(f), NEW g \in Files \ {f}
  PROVE  start'[g] = start[g] /\ last'[g] = last[g] /\ dat'[g] = dat[g] /\ ops'[g] = ops[g]
<1>. USE DEF TypeInv
<1>1. CASE Skip(f) \/ ReadSame(f) \/ ReadOther(f)
  <2>1. CASE Skip(f) \/ ReadOther(f)
    BY <2>1 DEF Skip, ReadOther, segVars
  <2>2. CASE ReadSame(f)
    <3>1. PICK t \in Times, o \in Ops :
            last' = [last EXCEPT ![f] = t] /\ ops' = [ops EXCEPT ![f] = @ + Count(o)]
      BY <2>2 DEF ReadSame
    <3>2. dat' = [dat EXCEPT ![f] = Append(@, Len(lines'[f]))] /\ UNCHANGED start
      BY <2>2 DEF ReadSame
    <3>. QED BY <3>1, <3>2 DEF TypeOK
  <2>. QED BY <1>1, <2>1, <2>2
<1>2. CASE Eof(f) \/ ReadFails(f) \/ WriteFails(f) \/ Killed(f)
  BY <1>2 DEF Eof, ReadFails, WriteFails, Killed, segVars
<1>3. CASE Flush(f)
  BY <1>3 DEF Flush, StoreCorr, CutCorr, CopyCorr, LoseCorr, CorrThrows, CorrMissing, LeaveFlush,
              StoreDat, LoseDat, FlushDat, DatThrows, segVars, TypeOK
<1>4. CASE OpenSegment(f) \/ TempFileFails(f) \/ StreamFails(f)
  BY <1>4 DEF OpenSegment, TempFileFails, StreamFails, TypeOK
<1>. QED BY <1>1, <1>2, <1>3, <1>4 DEF Step

\* Lines that are added to the file change nothing of those that were taken of it.
LEMMA LinesStay ==
  ASSUME NEW l, NEW l2, NEW d, NEW k,
         \A n \in DOMAIN l : n \in DOMAIN l2 /\ l2[n] = l[n], AreLinesOf(d, l, k)
  PROVE  AreLinesOf(d, l2, k) /\ Operations(l2, d) = Operations(l, d)
<1>1. AreLinesOf(d, l2, k)
  BY DEF AreLinesOf
<1>2. {i \in DOMAIN d : l2[d[i]].op} = {i \in DOMAIN d : l[d[i]].op}
  BY DEF AreLinesOf
<1>. QED BY <1>1, <1>2 DEF Operations

\* The count of operations is a number, and one more line adds its own to it.
LEMMA OneMoreLine ==
  ASSUME NEW l, NEW d \in Seq(Nat), NEW k, AreLinesOf(d, l, k),
         NEW n \in Nat, n \in DOMAIN l, l[n].key = k, l[n].op \in BOOLEAN
  PROVE  /\ AreLinesOf(Append(d, n), l, k) /\ Append(d, n) # <<>>
         /\ Operations(l, Append(d, n)) = Operations(l, d) + Count(l[n].op)
<1>. DEFINE e == Append(d, n)
            was == {i \in DOMAIN d : l[d[i]].op}
            is == {i \in DOMAIN e : l[e[i]].op}
<1>1. /\ Len(d) \in Nat /\ DOMAIN d = 1 .. Len(d) /\ DOMAIN e = 1 .. Len(d) + 1 /\ e # <<>>
      /\ \A i \in 1 .. Len(d) : e[i] = d[i]
      /\ e[Len(d) + 1] = n
  OBVIOUS
<1>2. IsFiniteSet(was) /\ Cardinality(was) \in Nat
  <2>1. IsFiniteSet(1 .. Len(d))
    BY <1>1, FS_Interval
  <2>2. was \in SUBSET (1 .. Len(d))
    BY <1>1
  <2>. QED BY <2>1, <2>2, FS_Subset, FS_CardinalityType
<1>3. Len(d) + 1 \notin was
  BY <1>1
<1>4. AreLinesOf(e, l, k)
  BY <1>1 DEF AreLinesOf
<1>5. Operations(l, d) = Cardinality(was) /\ Operations(l, e) = Cardinality(is)
  BY DEF Operations
<1>6. CASE l[n].op
  <2>1. is = was \cup {Len(d) + 1}
    BY <1>1, <1>6
  <2>. HIDE DEF was, is
  <2>2. Cardinality(is) = Cardinality(was) + 1
    BY <1>2, <1>3, <2>1, FS_AddElement
  <2>. QED BY <1>1, <1>4, <1>5, <1>6, <2>2 DEF Count
<1>7. CASE ~l[n].op
  <2>1. is = was
    BY <1>1, <1>7
  <2>. HIDE DEF was, is
  <2>. QED BY <1>1, <1>2, <1>4, <1>5, <1>7, <2>1 DEF Count
<1>. QED BY <1>6, <1>7

LEMMA InHandStep ==
  ASSUME TypeInv, TypeInv', Control, Segments, InHand, NEW f \in Files, Step(f) \/ Killed(f)
  PROVE  InHand'
<1>. USE DEF TypeInv
<1>1. SUFFICES HandOf(f)'
  <2>1. ASSUME NEW g \in Files \ {f} PROVE HandOf(g)'
    BY StepOfOneFile, FieldsOfOneFile DEF InHand, HandOf
  <2>. QED BY <2>1 DEF InHand
<1>2. HandOf(f) /\ lines[f] \in Seq(Line) /\ lines'[f] \in Seq(Line) /\ seg[f] \in Seq(Nat) /\ dat[f] \in Seq(Nat)
  BY DEF InHand, TypeOK
<1>3. \A n \in DOMAIN lines[f] : n \in DOMAIN lines'[f] /\ lines'[f][n] = lines[f][n]
  BY StepOfOneFile
<1>4. AreLinesOf(dat[f], lines'[f], cur[f]) /\ Operations(lines'[f], dat[f]) = Operations(lines[f], dat[f])
  <2>1. AreLinesOf(dat[f], lines[f], cur[f])
    BY <1>2 DEF HandOf
  <2>. QED BY <1>3, <2>1, LinesStay
<1>5. ASSUME tmp[f] = "open", seg[f] # <<>>
      PROVE  /\ start[f] = lines'[f][seg[f][1]].time
             /\ last[f] = lines'[f][seg[f][Len(seg[f])]].time
             /\ Len(seg[f]) \in DOMAIN seg[f] /\ 1 \in DOMAIN seg[f]
  <2>1. Len(seg[f]) \in DOMAIN seg[f] /\ 1 \in DOMAIN seg[f]
    BY <1>2, <1>5
  <2>2. seg[f][1] \in DOMAIN lines[f] /\ seg[f][Len(seg[f])] \in DOMAIN lines[f]
    BY <1>5, <2>1 DEF Segments, IsSegment
  <2>. QED BY <1>2, <1>3, <1>5, <2>1, <2>2 DEF HandOf
<1>6. CASE Skip(f)
  <2>1. UNCHANGED <<pc, segVars>>
    BY <1>6 DEF Skip
  <2>. QED BY <1>2, <1>4, <1>5, <2>1 DEF HandOf, segVars
<1>7. CASE ReadSame(f)
  <2>. DEFINE n == Len(lines'[f])
  <2>1. PICK t \in Times, o \in Ops :
          /\ cur[f] \in Keys
          /\ Read(f, [key |-> cur[f], time |-> t, op |-> o])
          /\ last' = [last EXCEPT ![f] = t]
          /\ ops' = [ops EXCEPT ![f] = @ + Count(o)]
    BY <1>7 DEF ReadSame
  <2>2. lines'[f][n] = [key |-> cur[f], time |-> t, op |-> o] /\ n = Len(lines[f]) + 1
    BY <2>1, ReadAppends, LinesRead
  <2>3. n \in Nat /\ n \in DOMAIN lines'[f] /\ o \in BOOLEAN
    BY <1>2, <2>2, ExtractorAssumption
  <2>4. tmp[f] = "open" /\ pc[f] = "read"
    BY <2>1, ExtractorAssumption DEF Read, Control, TypeOK
  <2>5. seg[f] # <<>> /\ dat[f] # <<>>
    BY <1>2, <2>4 DEF HandOf
  <2>6. /\ pc'[f] = pc[f] /\ cur'[f] = cur[f] /\ tmp'[f] = tmp[f] /\ start'[f] = start[f]
        /\ seg'[f] = Append(seg[f], n) /\ dat'[f] = Append(dat[f], n)
        /\ last'[f] = t /\ ops'[f] = ops[f] + Count(o)
    BY <1>7, <2>1 DEF ReadSame, TypeOK
  <2>7. /\ seg'[f] # <<>> /\ seg'[f][1] = seg[f][1] /\ seg'[f][Len(seg'[f])] = n
    <3>1. \A s \in Seq(Nat), m \in Nat : s # <<>> =>
            Append(s, m) # <<>> /\ Append(s, m)[1] = s[1] /\ Append(s, m)[Len(Append(s, m))] = m
      OBVIOUS
    <3>2. seg'[f] = Append(seg[f], n) /\ seg[f] \in Seq(Nat) /\ n \in Nat /\ seg[f] # <<>>
      BY <1>2, <2>3, <2>5, <2>6
    <3>. HIDE DEF n
    <3>. QED BY <3>1, <3>2
  <2>8. /\ AreLinesOf(dat'[f], lines'[f], cur[f]) /\ dat'[f] # <<>>
        /\ Operations(lines'[f], dat'[f]) = Operations(lines'[f], dat[f]) + Count(o)
    <3>1. lines'[f][n].key = cur[f] /\ lines'[f][n].op = o
      BY <2>2
    <3>. HIDE DEF n
    <3>. QED BY <1>2, <1>4, <2>3, <2>6, <3>1, OneMoreLine
  <2>9. ops[f] = Operations(lines[f], dat[f])
    BY <1>2, <2>5 DEF HandOf
  <2>10. lines'[f][n].time = t
    BY <2>2
  <2>11. start'[f] = lines'[f][seg'[f][1]].time /\ last'[f] = lines'[f][seg'[f][Len(seg'[f])]].time
    BY <1>5, <2>4, <2>5, <2>6, <2>7, <2>10
  <2>12. AreLinesOf(dat'[f], lines'[f], cur'[f]) /\ ops'[f] = Operations(lines'[f], dat'[f])
    BY <2>6, <2>8, <2>9, <1>4
  <2>. QED BY <2>4, <2>6, <2>7, <2>8, <2>11, <2>12 DEF HandOf
<1>8. CASE ReadOther(f)
  <2>1. UNCHANGED segVars /\ pc'[f] = IF HasSegment(f) THEN "corr" ELSE "open"
    BY <1>8 DEF ReadOther, TypeOK
  <2>. QED BY <1>2, <1>4, <1>5, <2>1 DEF HandOf, HasSegment, segVars
<1>9. CASE Eof(f) \/ ReadFails(f) \/ WriteFails(f) \/ Killed(f)
  <2>1. UNCHANGED <<lines, segVars>> /\ pc'[f] \notin {"read", "open"}
    BY <1>9 DEF Eof, ReadFails, WriteFails, Killed, EnterFinally, FailFinally, TypeOK
  <2>. QED BY <1>2, <2>1 DEF HandOf, segVars
<1>10. CASE StoreCorr(f) \/ CutCorr(f) \/ LoseCorr(f)
  <2>1. tmp'[f] = "deleted" /\ pc'[f] = "dat" /\ UNCHANGED <<lines, cur, dat, ops>>
    BY <1>10 DEF StoreCorr, CutCorr, CopyCorr, LoseCorr, TypeOK
  <2>. QED BY <1>2, <2>1 DEF HandOf
<1>11. CASE CorrThrows(f) \/ CorrMissing(f) \/ DatThrows(f)
  <2>1. UNCHANGED <<lines, segVars>> /\ pc'[f] \notin {"read", "open"}
    BY <1>11 DEF CorrThrows, CorrMissing, DatThrows, LeaveFlush, EnterFinally, FailFinally, TypeOK
  <2>. QED BY <1>2, <2>1 DEF HandOf, segVars
<1>12. CASE StoreDat(f) \/ LoseDat(f)
  <2>1. dat'[f] = <<>> /\ tmp'[f] = "deleted"
    BY <1>12 DEF StoreDat, LoseDat, FlushDat, Control, TypeOK
  <2>. QED BY <2>1 DEF HandOf, AreLinesOf
<1>13. CASE OpenSegment(f)
  <2>. DEFINE n == Len(lines[f])
  <2>1. /\ pc[f] = "open" /\ lines' = lines
        /\ cur'[f] = lines[f][n].key /\ tmp'[f] = "open" /\ seg'[f] = <<n>>
        /\ start'[f] = lines[f][n].time /\ last'[f] = lines[f][n].time
        /\ dat'[f] = Append(dat[f], n) /\ ops'[f] = Count(lines[f][n].op) /\ pc'[f] = "read"
    BY <1>13 DEF OpenSegment, Pending, TypeOK
  <2>2. dat[f] = <<>> /\ lines[f] # <<>>
    BY <1>2, <2>1 DEF HandOf, HasPending
  <2>3. n \in Nat /\ n \in DOMAIN lines[f] /\ lines[f][n].op \in BOOLEAN
    <3>1. \A l \in Seq(Line) : l # <<>> => Len(l) \in Nat /\ Len(l) \in DOMAIN l /\ l[Len(l)] \in Line
      OBVIOUS
    <3>. QED BY <1>2, <2>2, <3>1 DEF Line
  <2>4. Operations(lines[f], dat[f]) = 0 /\ AreLinesOf(dat[f], lines[f], cur'[f])
    <3>1. {i \in DOMAIN <<>> : lines[f][<<>>[i]].op} = {}
      OBVIOUS
    <3>. QED BY <2>2, <3>1, FS_EmptySet DEF Operations, AreLinesOf
  <2>5. /\ AreLinesOf(dat'[f], lines[f], cur'[f]) /\ dat'[f] # <<>>
        /\ Operations(lines[f], dat'[f]) = 0 + Count(lines[f][n].op)
    BY <1>2, <2>1, <2>3, <2>4, OneMoreLine
  <2>6. 0 + Count(lines[f][n].op) = Count(lines[f][n].op)
    BY DEF Count
  <2>7. seg'[f] # <<>> /\ seg'[f][1] = n /\ Len(seg'[f]) = 1
    BY <2>1
  <2>. QED BY <2>1, <2>5, <2>6, <2>7 DEF HandOf
<1>14. CASE TempFileFails(f) \/ StreamFails(f)
  <2>1. dat'[f] = <<>> /\ pc'[f] \notin {"read", "open"}
    BY <1>2, <1>14 DEF TempFileFails, StreamFails, EnterFinally, HandOf, TypeOK
  <2>2. tmp'[f] = "open" => seg'[f] = <<>>
    BY <1>14 DEF TempFileFails, StreamFails, HasSegment, Control, TypeOK
  <2>. QED BY <2>1, <2>2 DEF HandOf, AreLinesOf
<1>. QED BY <1>6, <1>7, <1>8, <1>9, <1>10, <1>11, <1>12, <1>13, <1>14 DEF Step, Flush

\* Only two actions change the .dat files, and no line that was lost is found again.
LEMMA DatStep ==
  ASSUME NEW f \in Files, Step(f) \/ Killed(f)
  PROVE  /\ UNCHANGED dats \/ StoreDat(f) \/ LoseDat(f)
         /\ cut \subseteq cut' /\ cutDat \subseteq cutDat'
<1>1. CASE Flush(f)
  BY <1>1 DEF Flush, StoreCorr, CutCorr, CopyCorr, LoseCorr, CorrThrows, CorrMissing, LeaveFlush,
              StoreDat, LoseDat, FlushDat, DatThrows, bucket
<1>2. CASE ~Flush(f)
  BY <1>2 DEF Step, Skip, ReadSame, ReadOther, Eof, ReadFails, WriteFails, OpenSegment,
              TempFileFails, StreamFails, Killed, bucket
<1>. QED BY <1>1, <1>2

LEMMA DatStoredStep ==
  ASSUME TypeInv, InHand, DatStored, NEW f \in Files, Step(f) \/ Killed(f)
  PROVE  DatStored'
<1>. USE DEF TypeInv
<1>1. ASSUME NEW m \in DOMAIN dats
      PROVE  LET d == dats[m] IN
               /\ AreLinesOf(d.lines, lines'[d.file], m[3])
               /\ d.lines # <<>> => d.ops = Operations(lines'[d.file], d.lines)
  <2>. DEFINE d == dats[m]
  <2>1. d.file \in Files
    BY DEF TypeOK
  <2>2. /\ AreLinesOf(d.lines, lines[d.file], m[3])
        /\ d.lines # <<>> => d.ops = Operations(lines[d.file], d.lines)
    BY DEF DatStored
  <2>3. \A n \in DOMAIN lines[d.file] : n \in DOMAIN lines'[d.file] /\ lines'[d.file][n] = lines[d.file][n]
    BY <2>1, StepOfOneFile
  <2>. HIDE DEF d
  <2>4. AreLinesOf(d.lines, lines'[d.file], m[3]) /\ Operations(lines'[d.file], d.lines) = Operations(lines[d.file], d.lines)
    BY <2>2, <2>3, LinesStay
  <2>. QED BY <2>2, <2>4 DEF d
<1>2. CASE UNCHANGED dats
  BY <1>1, <1>2 DEF DatStored
<1>3. CASE StoreDat(f)
  <2>1. lines' = lines /\ SegmentName(f)[3] = cur[f]
    BY <1>3 DEF StoreDat, FlushDat, SegmentName
  <2>2. /\ DOMAIN dats' = DOMAIN dats \cup {SegmentName(f)}
        /\ \A m \in DOMAIN dats' : dats'[m] = IF m = SegmentName(f) THEN DatOf(f) ELSE dats[m]
    BY <1>3 DEF StoreDat, Put
  <2>3. /\ DatOf(f).file = f /\ DatOf(f).lines = dat[f] /\ DatOf(f).ops = ops[f]
        /\ AreLinesOf(dat[f], lines[f], cur[f])
        /\ dat[f] # <<>> => ops[f] = Operations(lines[f], dat[f])
    BY DEF DatOf, InHand, HandOf
  <2>4. ASSUME NEW m \in DOMAIN dats'
        PROVE  LET d == dats'[m] IN
                 /\ AreLinesOf(d.lines, lines'[d.file], m[3])
                 /\ d.lines # <<>> => d.ops = Operations(lines'[d.file], d.lines)
    <3>1. CASE m = SegmentName(f)
      BY <2>1, <2>2, <2>3, <3>1
    <3>2. CASE m # SegmentName(f)
      BY <1>1, <2>2, <3>2
    <3>. QED BY <3>1, <3>2
  <2>. QED BY <2>4 DEF DatStored
<1>4. CASE LoseDat(f)
  <2>1. DOMAIN dats' \subseteq DOMAIN dats /\ \A m \in DOMAIN dats' : dats'[m] = dats[m]
    BY <1>4 DEF LoseDat, Drop, Restrict
  <2>. QED BY <1>1, <2>1 DEF DatStored
<1>. QED BY <1>2, <1>3, <1>4, DatStep

\* What NameSpansLines says of one .corr file.
TimesGoUp(l, s) == \A i, j \in DOMAIN s : i < j => l[s[i]].time <= l[s[j]].time
Within(n, l, s) == \A i \in DOMAIN s : n[1] <= l[s[i]].time /\ l[s[i]].time <= n[2]
Spans(n, c) ==
  ({c.file} \X Range(c.lines)) \cap cut = {} /\ TimesGoUp(lines[c.file], c.lines)
    => Within(n, lines[c.file], c.lines)

LEMMA SpansAll == NameSpansLines <=> \A m \in DOMAIN corr : Spans(m, corr[m])
BY DEF NameSpansLines, Spans, TimesGoUp, Within

LEMMA SpansAllLater == NameSpansLines' <=> (\A m \in DOMAIN corr : Spans(m, corr[m]))'
BY SpansAll, PTL

\* The time of a line is a natural number.
LEMMA TimeOfLine == \A x \in Line : x.time \in Nat
<1>1. \A t \in Times \cup {0} : t \in Nat
  BY ExtractorAssumption
<1>2. \A x \in Line : x.time \in Times \cup {0}
  BY DEF Line
<1>. QED BY <1>1, <1>2

\* The name of a whole segment spans its lines, if their times go up.
LEMMA NameSpans ==
  ASSUME TypeInv, Segments, InHand, NEW f \in Files, tmp[f] = "open", TimesGoUp(lines[f], seg[f])
  PROVE  Within(SegmentName(f), lines[f], seg[f])
<1>. USE DEF TypeInv
<1>. DEFINE T(i) == lines[f][seg[f][i]].time
<1>1. SUFFICES ASSUME NEW i \in DOMAIN seg[f]
               PROVE  SegmentName(f)[1] <= T(i) /\ T(i) <= SegmentName(f)[2]
  BY DEF Within
<1>2. lines[f] \in Seq(Line) /\ seg[f] \in Seq(Nat) /\ start[f] \in Nat /\ last[f] \in Nat
  BY DEF TypeOK
<1>3. Len(seg[f]) \in Nat /\ DOMAIN seg[f] = 1 .. Len(seg[f]) /\ i \in 1 .. Len(seg[f])
  BY <1>2
<1>4. start[f] = T(1) /\ last[f] = T(Len(seg[f]))
  BY <1>2, <1>3 DEF InHand, HandOf
<1>5. \A j \in 1 .. Len(seg[f]) : T(j) \in Nat
  <2>1. \A j \in DOMAIN seg[f] : seg[f][j] \in DOMAIN lines[f]
    BY DEF Segments, IsSegment
  <2>2. \A n \in DOMAIN lines[f] : lines[f][n] \in Line
    BY <1>2
  <2>. QED BY <1>3, <2>1, <2>2, TimeOfLine
<1>6. T(1) <= T(i) /\ T(i) <= T(Len(seg[f]))
  BY <1>3, <1>5 DEF TimesGoUp
<1>7. last[f] <= EndTime(start[f], last[f]) \/ last[f] < start[f]
  BY <1>2 DEF EndTime
<1>8. 1 \in 1 .. Len(seg[f]) /\ Len(seg[f]) \in 1 .. Len(seg[f])
  BY <1>3
<1>9. EndTime(start[f], last[f]) \in Nat
  BY <1>2 DEF EndTime
<1>10. SegmentName(f)[1] = start[f] /\ SegmentName(f)[2] = EndTime(start[f], last[f])
  BY DEF SegmentName
<1>. HIDE DEF T
<1>. QED BY <1>2, <1>3, <1>4, <1>5, <1>6, <1>7, <1>8, <1>9, <1>10

LEMMA SpansStep ==
  ASSUME TypeInv, TypeInv', Segments, Stored, InHand, NameSpansLines, NEW f \in Files, Step(f) \/ Killed(f)
  PROVE  NameSpansLines'
<1>. USE DEF TypeInv
<1>1. SUFFICES ASSUME NEW m \in DOMAIN corr' PROVE Spans(m, corr[m])'
  BY SpansAllLater
<1>2. ASSUME m \in DOMAIN corr, corr'[m] = corr[m] PROVE Spans(m, corr[m])'
  <2>. DEFINE c == corr[m]
              l == lines[c.file]
              l2 == lines'[c.file]
  <2>1. c.file \in Files /\ Spans(m, c)
    BY <1>2, SpansAll DEF TypeOK
  <2>2. \A n \in DOMAIN l : n \in DOMAIN l2 /\ l2[n] = l[n]
    BY <2>1, StepOfOneFile
  <2>3. \A i \in DOMAIN c.lines : c.lines[i] \in DOMAIN l
    BY <1>2 DEF Stored, IsSegment
  <2>4. \A i \in DOMAIN c.lines : l2[c.lines[i]] = l[c.lines[i]]
    BY <2>2, <2>3
  <2>5. TimesGoUp(l2, c.lines) => TimesGoUp(l, c.lines)
    BY <2>4 DEF TimesGoUp
  <2>6. Within(m, l, c.lines) => Within(m, l2, c.lines)
    BY <2>4 DEF Within
  <2>7. cut \subseteq cut'
    BY DatStep
  <2>. QED BY <1>2, <2>1, <2>5, <2>6, <2>7 DEF Spans
<1>3. CASE UNCHANGED corr
  BY <1>2, <1>3
<1>4. CASE StoreCorr(f) \/ CutCorr(f)
  <2>1. PICK kept \in Seq(Nat) :
           /\ CopyCorr(f, kept)
           /\ Range(kept) \subseteq Range(seg[f])
           /\ kept = seg[f] \/ cut' = cut \cup ({f} \X Range(seg[f]))
           /\ DOMAIN corr' = DOMAIN corr \cup {SegmentName(f)}
           /\ \A n \in DOMAIN corr' :
                corr'[n] = IF n = SegmentName(f) THEN [file |-> f, lines |-> kept] ELSE corr[n]
    BY <1>4, CopyStep
  <2>2. tmp[f] = "open" /\ lines' = lines
    BY <2>1 DEF CopyCorr
  <2>3. CASE m = SegmentName(f)
    <3>1. corr'[m].file = f /\ corr'[m].lines = kept
      BY <2>1, <2>3
    <3>2. CASE kept = seg[f]
      BY <2>2, <2>3, <3>1, <3>2, NameSpans DEF Spans
    <3>3. CASE cut' = cut \cup ({f} \X Range(seg[f]))
      <4>1. CASE DOMAIN kept = {}
        BY <3>1, <4>1 DEF Spans, Within
      <4>2. CASE DOMAIN kept # {}
        <5>1. PICK i \in DOMAIN kept : TRUE
          BY <4>2
        <5>2. kept[i] \in Range(kept) /\ kept[i] \in Range(seg[f])
          BY <2>1 DEF Range
        <5>3. <<f, kept[i]>> \in ({f} \X Range(kept)) \cap cut'
          BY <3>3, <5>2
        <5>. QED BY <3>1, <5>3 DEF Spans
      <4>. QED BY <4>1, <4>2
    <3>. QED BY <2>1, <3>2, <3>3
  <2>4. CASE m # SegmentName(f)
    BY <1>2, <2>1, <2>4
  <2>. QED BY <2>3, <2>4
<1>. QED BY <1>3, <1>4, CorrStep

\* What CorrHasDat says of one .corr file.
HasDat(m, f) ==
  \/ m \in DOMAIN dats \cup cutDat
  \/ pc[f] = "dat" /\ SegmentName(f) = m
  \/ ending[f] = "throw"
  \/ pc[f] = "killed"

LEMMA HasDatStays ==
  ASSUME TypeInv, Control, NEW f \in Files, Step(f) \/ Killed(f), NEW g \in Files, NEW m, HasDat(m, g)
  PROVE  HasDat(m, g)'
<1>. USE DEF TypeInv
<1>1. m \in DOMAIN dats \cup cutDat => m \in DOMAIN dats' \cup cutDat'
  <2>1. CASE StoreDat(f)
    BY <2>1 DEF StoreDat, Put
  <2>2. CASE LoseDat(f)
    BY <2>2 DEF LoseDat, Drop, Restrict
  <2>. QED BY <2>1, <2>2, DatStep
<1>2. CASE g # f
  <2>1. pc'[g] = pc[g] /\ ending'[g] = ending[g] /\ SegmentName(g)' = SegmentName(g)
    BY <1>2, StepOfOneFile, FieldsOfOneFile DEF SegmentName
  <2>. QED BY <1>1, <2>1 DEF HasDat
<1>3. CASE g = f
  <2>1. CASE Skip(f) \/ ReadSame(f) \/ ReadOther(f) \/ Eof(f) \/ ReadFails(f) \/ WriteFails(f)
    <3>1. pc[f] = "read" /\ ending[f] = "no"
      BY <2>1 DEF Skip, ReadSame, ReadOther, Read, Eof, ReadFails, WriteFails, Control
    <3>. QED BY <1>1, <1>3, <3>1 DEF HasDat
  <2>2. CASE StoreCorr(f) \/ CutCorr(f) \/ LoseCorr(f)
    <3>1. pc[f] = "corr" /\ UNCHANGED ending
      BY <2>2 DEF StoreCorr, CutCorr, CopyCorr, LoseCorr
    <3>. QED BY <1>1, <1>3, <3>1 DEF HasDat
  <2>3. CASE CorrThrows(f) \/ CorrMissing(f) \/ DatThrows(f) \/ TempFileFails(f) \/ StreamFails(f)
    <3>1. ending'[f] = "throw"
      BY <2>3 DEF CorrThrows, CorrMissing, DatThrows, LeaveFlush, TempFileFails, StreamFails,
                  EnterFinally, FailFinally, TypeOK
    <3>. QED BY <1>3, <3>1 DEF HasDat
  <2>4. CASE StoreDat(f) \/ LoseDat(f)
    <3>1. pc[f] = "dat" /\ UNCHANGED ending
      BY <2>4 DEF StoreDat, LoseDat, FlushDat
    <3>2. SegmentName(f) \in DOMAIN dats' \cup cutDat'
      BY <2>4 DEF StoreDat, LoseDat, Put
    <3>. QED BY <1>1, <1>3, <3>1, <3>2 DEF HasDat
  <2>5. CASE OpenSegment(f)
    <3>1. pc[f] = "open" /\ UNCHANGED ending
      BY <2>5 DEF OpenSegment
    <3>. QED BY <1>1, <1>3, <3>1 DEF HasDat
  <2>6. CASE Killed(f)
    <3>1. pc'[f] = "killed"
      BY <2>6 DEF Killed, TypeOK
    <3>. QED BY <1>3, <3>1 DEF HasDat
  <2>. QED BY <2>1, <2>2, <2>3, <2>4, <2>5, <2>6 DEF Step, Flush
<1>. QED BY <1>2, <1>3

LEMMA HasDatStep ==
  ASSUME TypeInv, Control, Segments, CorrHasDat, NEW f \in Files, Step(f) \/ Killed(f)
  PROVE  CorrHasDat'
<1>. USE DEF TypeInv
<1>1. SUFFICES ASSUME NEW m \in DOMAIN corr' PROVE HasDat(m, corr[m].file)'
  BY DEF CorrHasDat, HasDat
<1>2. ASSUME m \in DOMAIN corr, corr'[m] = corr[m] PROVE HasDat(m, corr[m].file)'
  <2>1. corr[m].file \in Files /\ HasDat(m, corr[m].file)
    BY <1>2 DEF CorrHasDat, HasDat, TypeOK
  <2>2. PICK g \in Files : g = corr[m].file
    BY <2>1
  <2>3. HasDat(m, g)'
    BY <2>1, <2>2, HasDatStays
  <2>. QED BY <1>2, <2>2, <2>3 DEF HasDat
<1>3. CASE UNCHANGED corr
  BY <1>2, <1>3
<1>4. CASE StoreCorr(f) \/ CutCorr(f)
  <2>1. PICK kept \in Seq(Nat) :
           /\ CopyCorr(f, kept)
           /\ DOMAIN corr' = DOMAIN corr \cup {SegmentName(f)}
           /\ \A n \in DOMAIN corr' :
                corr'[n] = IF n = SegmentName(f) THEN [file |-> f, lines |-> kept] ELSE corr[n]
    BY <1>4, CopyStep
  <2>2. CASE m = SegmentName(f)
    <3>1. corr'[m].file = f
      BY <2>1, <2>2
    <3>2. pc'[f] = "dat" /\ SegmentName(f)' = SegmentName(f)
      BY <2>1 DEF CopyCorr, SegmentName, TypeOK
    <3>. QED BY <2>2, <3>1, <3>2 DEF HasDat
  <2>3. CASE m # SegmentName(f)
    BY <1>2, <2>1, <2>3
  <2>. QED BY <2>2, <2>3
<1>. QED BY <1>3, <1>4, CorrStep

\* The inductive invariant of what is stored of a segment besides its lines: the fields
\* and the times in hand are those of the temporary file.
THEOREM FieldInvariant == Spec => []DatInv
<1>1. Init => DatInv
  <2>. SUFFICES ASSUME Init
                PROVE  DatInv
    OBVIOUS
  <2>1. InHand
    BY DEF Init, InHand, HandOf, AreLinesOf
  <2>2. DatStored /\ NameSpansLines /\ CorrHasDat
    BY DEF Init, DatStored, NameSpansLines, CorrHasDat
  <2>. QED BY <2>1, <2>2 DEF DatInv
<1>2. TypeInv /\ SegmentInv /\ (TypeInv /\ SegmentInv)' /\ DatInv /\ [Next]_vars => DatInv'
  <2>. SUFFICES ASSUME TypeInv, SegmentInv, TypeInv', DatInv, [Next]_vars
                PROVE  DatInv'
    OBVIOUS
  <2>0. Control /\ Segments /\ Stored /\ InHand /\ DatStored /\ NameSpansLines /\ CorrHasDat
    BY DEF SegmentInv, DatInv
  <2>1. CASE Next
    <3>1. PICK f \in Files : Step(f) \/ Killed(f)
      BY <2>1 DEF Next
    <3>2. InHand' /\ DatStored'
      BY <2>0, <3>1, InHandStep, DatStoredStep
    <3>3. NameSpansLines' /\ CorrHasDat'
      BY <2>0, <3>1, SpansStep, HasDatStep
    <3>. QED BY <3>2, <3>3 DEF DatInv
  <2>2. CASE UNCHANGED vars
    <3>1. InHand' /\ DatStored'
      BY <2>0, <2>2 DEF InHand, HandOf, DatStored, vars, readVars, segVars, bucket
    <3>2. NameSpansLines' /\ CorrHasDat'
      BY <2>0, <2>2 DEF NameSpansLines, CorrHasDat, SegmentName, vars, readVars, segVars, bucket
    <3>. QED BY <3>1, <3>2 DEF DatInv
  <2>. QED BY <2>1, <2>2
<1>. QED BY <1>1, <1>2, SegmentInvariant, PTL DEF Spec

\* The times of a .corr file's name are those of its lines.
THEOREM NamesSpanLines == Spec => []NameSpansLines
<1>1. DatInv => NameSpansLines
  BY DEF DatInv
<1>. QED BY <1>1, FieldInvariant, PTL

\* The fields of a .dat file are those of the lines of its correlation.
THEOREM DatFilesDescribe == Spec => []DatDescribesSegment
<1>1. DatInv => DatDescribesSegment
  BY DEF DatInv, DatStored, AreLinesOf, Operations, DatDescribesSegment
<1>. QED BY <1>1, FieldInvariant, PTL

\* A .corr file without its .dat file is the storage's or a failed call's.
THEOREM DatFilesFollow == Spec => []CorrHasDat
<1>1. DatInv => CorrHasDat
  BY DEF DatInv
<1>. QED BY <1>1, FieldInvariant, PTL

=============================================================================
