-------------------------- MODULE AuditJsonlProofs --------------------------
(***************************************************************************)
(* Proofs about the audit log's files, for every size and number of files, *)
(* and for any number of records, faults, crashes and ticks.               *)
(***************************************************************************)
EXTENDS AuditJsonl, WellFoundedInduction, TLAPS

-----------------------------------------------------------------------------
(* The inductive invariant.  Its parts are operators of the files, so that *)
(* a step's lemma can speak of the files before it and after it.           *)

AuditLine == [kind : {"record", "foreign", "torn"}, seq : Nat, id : Nat, at : Nat,
              ended : BOOLEAN, safe : BOOLEAN]
AuditFile == [lines : Seq(AuditLine), mtime : Nat]

Indices == 0 .. (max_files - 1)

FilesOk(fs) == DOMAIN fs \subseteq Indices /\ \A i \in DOMAIN fs : fs[i] \in AuditFile

AckIds == {r.id : r \in acked}

\* The latest the clock has been.
ceiling == IF setback = 0 THEN clock ELSE clock + MARGIN

\* A line that was acknowledged is whole; a file was written no earlier than its
\* lines are dated, but for the margin.
LineOk(file, l, ids, latest) ==
    /\ l.at <= latest /\ l.at <= file.mtime + MARGIN
    /\ l.id \in ids => l.kind = "record" /\ l.ended

\* Nothing runs on into an acknowledged line.
SeamOk(lines, n, ids) == n > 1 /\ lines[n].id \in ids => lines[n - 1].ended

\* Of two lines the later was appended later, and is numbered higher if the
\* earlier was acknowledged.
PairOk(a, b, ids) ==
    /\ a.id < b.id
    /\ a.id \in ids /\ b.kind # "torn" => a.seq < b.seq

LinesOk(fs, ids, latest) ==
    \A i \in DOMAIN fs : \A n \in DOMAIN fs[i].lines :
        LineOk(fs[i], fs[i].lines[n], ids, latest) /\ SeamOk(fs[i].lines, n, ids)

PairsOk(fs, ids) ==
    \A i, j \in DOMAIN fs : \A n \in DOMAIN fs[i].lines, m \in DOMAIN fs[j].lines :
        Older(<<i, n>>, <<j, m>>) => PairOk(fs[i].lines[n], fs[j].lines[m], ids)

IdsBelow(fs, k) == \A i \in DOMAIN fs : \A n \in DOMAIN fs[i].lines : fs[i].lines[n].id < k

SeqsBelow(fs, ids, s) ==
    \A i \in DOMAIN fs : \A n \in DOMAIN fs[i].lines :
        fs[i].lines[n].id \in ids => fs[i].lines[n].seq < s

\* A record is on the disk.
OnDisk(fs, id) ==
    \E i \in DOMAIN fs : \E n \in DOMAIN fs[i].lines : fs[i].lines[n].id = id /\ fs[i].lines[n].safe

\* A record is older than all that is left.
Outlived(fs, id) == \A i \in DOMAIN fs : \A n \in DOMAIN fs[i].lines : id < fs[i].lines[n].id

Kept(fs, acks, gone) ==
    \A r \in acks : r.sync => OnDisk(fs, r.id) \/ (r.id \in gone /\ Outlived(fs, r.id))

\* The next line starts on a line of its own.
FreshLine(fs) ==
    0 \in DOMAIN fs /\ (fs[0].lines = <<>> \/ fs[0].lines[Len(fs[0].lines)].ended)

TypeInv ==
    /\ pc \in {"idle", "rotating", "writing"}
    /\ appended \in Nat /\ clock \in Nat /\ setback \in {0, 1}
    /\ record \in [id : Nat, at : Nat, sync : BOOLEAN]
    /\ next_seq = {} \/ \E s \in Nat : next_seq = {s}
    /\ \A r \in acked : r.id \in 1 .. appended
    /\ pc # "idle" => /\ record.id = appended /\ appended > 0 /\ record.at <= ceiling
                      /\ next_seq # {}
                      /\ \A r \in acked : r.id < appended

\* No line has this id yet: its append has not come to writing it.
Bound == IF pc = "idle" THEN appended + 1 ELSE appended

DiskInv ==
    /\ FilesOk(files) /\ LinesOk(files, AckIds, ceiling) /\ PairsOk(files, AckIds)
    /\ IdsBelow(files, Bound)
    /\ \A s \in next_seq : SeqsBelow(files, AckIds, s)
    /\ Kept(files, acked, removed)

WriterInv ==
    /\ pc = "writing" => writer # {}
    /\ pc = "rotating" => writer = {}
    /\ writer # {} => FreshLine(files)

\* Above a file that has still to be moved, there is none that was moved.
RotationInv ==
    pc = "rotating" => /\ todo \subseteq DOMAIN files
                       /\ \A i \in todo : i + 1 \in DOMAIN files => i + 1 \in todo

AuditInv == TypeInv /\ DiskInv /\ WriterInv /\ RotationInv

-----------------------------------------------------------------------------
(* Greatest and least numbers.                                             *)

\* A nonempty set of naturals has a least one.
LEMMA LeastExists ==
  ASSUME NEW S \in SUBSET Nat, S # {}
  PROVE  \E x \in S : \A y \in S : x <= y
<1>1. PICK n \in S : \A m \in S : <<m, n>> \notin OpToRel(<, Nat)
  BY NatLessThanWellFounded, WFMin
<1>2. \A m \in S : ~(m < n)
  BY <1>1 DEF OpToRel
<1>3. QED  BY <1>2

\* SetMin picks the least of a nonempty set of naturals.
LEMMA SetMinIs ==
  ASSUME NEW S \in SUBSET Nat, S # {}
  PROVE  SetMin(S) \in S /\ \A y \in S : SetMin(S) <= y
BY LeastExists DEF SetMin

\* SetMax picks the greatest of a nonempty set of naturals that has a bound.
LEMMA SetMaxIs ==
  ASSUME NEW S \in SUBSET Nat, S # {}, NEW b \in Nat, \A x \in S : x <= b
  PROVE  SetMax(S) \in S /\ \A y \in S : y <= SetMax(S)
<1> DEFINE T == {b - x : x \in S}
<1>1. T \in SUBSET Nat /\ T # {}
  <2>1. \A x \in S : b - x \in Nat
    OBVIOUS
  <2>2. QED  BY <2>1
<1>2. PICK t \in T : \A u \in T : t <= u
  <2> HIDE DEF T
  <2>1. QED  BY <1>1, LeastExists
<1>3. PICK x \in S : t = b - x
  OBVIOUS
<1>4. ASSUME NEW y \in S  PROVE y <= x
  <2>1. b - y \in T
    OBVIOUS
  <2>2. t <= b - y
    BY <1>2, <2>1
  <2>3. QED  BY <1>3, <2>2
<1>5. \E z \in S : \A y \in S : z >= y
  BY <1>4
<1>6. SetMax(S) \in S /\ \A y \in S : SetMax(S) >= y
  BY <1>5 DEF SetMax
<1>7. QED  BY <1>6

\* The one member of a set is its greatest.
LEMMA SetMaxOfOne ==
  ASSUME NEW n \in Nat
  PROVE  SetMax({n}) = n
BY DEF SetMax

\* The values of a finite sequence of naturals have a bound.
LEMMA SequenceBounded ==
  ASSUME NEW n \in Nat, NEW f, \A i \in 1 .. n : f[i] \in Nat
  PROVE  \E b \in Nat : \A i \in 1 .. n : f[i] <= b
<1> DEFINE Bounded(k) == \E b \in Nat : \A i \in 1 .. k : f[i] <= b
           S == {k \in 0 .. n : ~Bounded(k)}
<1>1. SUFFICES S = {}
  <2>1. n \in 0 .. n
    OBVIOUS
  <2>2. QED  BY <1>1, <2>1
<1>2. SUFFICES ASSUME S # {}  PROVE FALSE
  OBVIOUS
<1>3. PICK k \in S : \A j \in S : k <= j
  <2>1. S \in SUBSET Nat
    OBVIOUS
  <2> HIDE DEF S
  <2>2. QED  BY <1>2, <2>1, LeastExists
<1>4. k # 0
  OBVIOUS
<1>5. k - 1 \in 0 .. n /\ k - 1 \notin S
  <2>1. k \in 1 .. n /\ k - 1 \in 0 .. n /\ ~(k <= k - 1)
    BY <1>4
  <2>2. QED  BY <1>3, <2>1
<1>6. PICK b \in Nat : \A i \in 1 .. (k - 1) : f[i] <= b
  BY <1>5
<1>7. PICK c \in Nat : b <= c /\ f[k] <= c
  <2>1. f[k] \in Nat
    BY <1>4
  <2>2. QED  BY <2>1, <1>6
<1>8. \A i \in 1 .. k : f[i] <= c
  <2>1. ASSUME NEW i \in 1 .. k  PROVE f[i] <= c
    <3>1. CASE i = k
      BY <1>7, <3>1
    <3>2. CASE i # k
      <4>1. i \in 1 .. (k - 1) /\ f[i] \in Nat
        BY <3>2
      <4>2. QED  BY <1>6, <1>7, <4>1
    <3>3. QED  BY <3>1, <3>2
  <2>2. QED  BY <2>1
<1>9. QED  BY <1>8

-----------------------------------------------------------------------------
(* What the steps do to the files.                                         *)

\* A line that was kept, its end perhaps written since.
SameLine(a, b) ==
    a.id = b.id /\ a.seq = b.seq /\ a.at = b.at /\ a.kind = b.kind /\ (a.ended => b.ended)

\* Every line of gs is in fs, at the same place of the file that from gives.
Carried(fs, gs, from, latest) ==
    /\ \A j, k \in DOMAIN gs : j > k => from[j] > from[k]
    /\ \A j \in DOMAIN gs : \A m \in DOMAIN gs[j].lines :
          /\ from[j] \in DOMAIN fs /\ m \in DOMAIN fs[from[j]].lines
          /\ SameLine(fs[from[j]].lines[m], gs[j].lines[m])
          /\ gs[j].mtime = fs[from[j]].mtime \/ latest <= gs[j].mtime + MARGIN

\* Whatever is carried over keeps its order, its dates and its whole lines.
LEMMA CarriedOk ==
  ASSUME NEW fs, NEW gs, NEW from, NEW ids, NEW latest \in Nat,
         FilesOk(fs), FilesOk(gs), Carried(fs, gs, from, latest),
         LinesOk(fs, ids, latest), PairsOk(fs, ids)
  PROVE  /\ LinesOk(gs, ids, latest) /\ PairsOk(gs, ids)
         /\ \A k : IdsBelow(fs, k) => IdsBelow(gs, k)
         /\ \A s : SeqsBelow(fs, ids, s) => SeqsBelow(gs, ids, s)
         /\ \A id : Outlived(fs, id) => Outlived(gs, id)
<1>1. ASSUME NEW j \in DOMAIN gs, NEW m \in DOMAIN gs[j].lines
      PROVE  LineOk(gs[j], gs[j].lines[m], ids, latest) /\ SeamOk(gs[j].lines, m, ids)
  <2>1. /\ from[j] \in DOMAIN fs /\ m \in DOMAIN fs[from[j]].lines
        /\ SameLine(fs[from[j]].lines[m], gs[j].lines[m])
        /\ gs[j].mtime = fs[from[j]].mtime \/ latest <= gs[j].mtime + MARGIN
    BY DEF Carried
  <2>2. LineOk(fs[from[j]], fs[from[j]].lines[m], ids, latest) /\ SeamOk(fs[from[j]].lines, m, ids)
    BY <2>1 DEF LinesOk
  <2>3. /\ gs[j].mtime \in Nat /\ gs[j].lines \in Seq(AuditLine)
        /\ gs[j].lines[m].at \in Nat /\ fs[from[j]].mtime \in Nat
    <3>1. gs[j] \in AuditFile /\ fs[from[j]] \in AuditFile
      BY <2>1 DEF FilesOk
    <3>2. gs[j].lines[m] \in AuditLine
      BY <3>1 DEF AuditFile
    <3>3. QED  BY <3>1, <3>2 DEF AuditFile, AuditLine
  <2>4. LineOk(gs[j], gs[j].lines[m], ids, latest)
    BY <2>1, <2>2, <2>3, AuditAssumption DEF LineOk, SameLine
  <2>5. SeamOk(gs[j].lines, m, ids)
    <3>1. SUFFICES ASSUME m > 1, gs[j].lines[m].id \in ids  PROVE gs[j].lines[m - 1].ended
      BY DEF SeamOk
    <3>2. m - 1 \in DOMAIN gs[j].lines
      BY <2>3, <3>1
    <3>3. SameLine(fs[from[j]].lines[m - 1], gs[j].lines[m - 1])
      BY <3>2 DEF Carried
    <3>4. QED  BY <2>1, <2>2, <3>1, <3>3 DEF SeamOk, SameLine
  <2>6. QED  BY <2>4, <2>5
<1>2. ASSUME NEW i \in DOMAIN gs, NEW j \in DOMAIN gs,
             NEW n \in DOMAIN gs[i].lines, NEW m \in DOMAIN gs[j].lines,
             Older(<<i, n>>, <<j, m>>)
      PROVE  PairOk(gs[i].lines[n], gs[j].lines[m], ids)
  <2>1. /\ from[i] \in DOMAIN fs /\ n \in DOMAIN fs[from[i]].lines
        /\ SameLine(fs[from[i]].lines[n], gs[i].lines[n])
        /\ from[j] \in DOMAIN fs /\ m \in DOMAIN fs[from[j]].lines
        /\ SameLine(fs[from[j]].lines[m], gs[j].lines[m])
    BY DEF Carried
  <2>2. i > j \/ (i = j /\ n < m)
    BY <1>2 DEF Older
  <2>3. from[i] > from[j] \/ (from[i] = from[j] /\ n < m)
    BY <2>2 DEF Carried
  <2>4. Older(<<from[i], n>>, <<from[j], m>>)
    BY <2>3 DEF Older
  <2>5. PairOk(fs[from[i]].lines[n], fs[from[j]].lines[m], ids)
    BY <2>1, <2>4 DEF PairsOk
  <2>6. QED  BY <2>1, <2>5 DEF PairOk, SameLine
<1>3. ASSUME NEW k, IdsBelow(fs, k)  PROVE IdsBelow(gs, k)
  BY <1>3 DEF IdsBelow, Carried, SameLine
<1>4. ASSUME NEW s, SeqsBelow(fs, ids, s)  PROVE SeqsBelow(gs, ids, s)
  BY <1>4 DEF SeqsBelow, Carried, SameLine
<1>5. ASSUME NEW id, Outlived(fs, id)  PROVE Outlived(gs, id)
  BY <1>5 DEF Outlived, Carried, SameLine
<1>6. QED  BY <1>1, <1>2, <1>3, <1>4, <1>5 DEF LinesOk, PairsOk

\* Every line that is on the disk stays there.
SafeStays(fs, gs) == \A id : OnDisk(fs, id) => OnDisk(gs, id)

\* What is carried over with all that is on the disk loses no synced record.
LEMMA CarriedKept ==
  ASSUME NEW fs, NEW gs, NEW from, NEW latest, NEW acks, NEW gone,
         Carried(fs, gs, from, latest), SafeStays(fs, gs), Kept(fs, acks, gone)
  PROVE  Kept(gs, acks, gone)
<1>1. ASSUME NEW id, Outlived(fs, id)  PROVE Outlived(gs, id)
  BY <1>1 DEF Outlived, Carried, SameLine
<1>2. QED  BY <1>1 DEF Kept, SafeStays

\* gs is fs with the line l added to the active file.
Grown(fs, gs, l) ==
    /\ 0 \in DOMAIN fs /\ DOMAIN gs = DOMAIN fs
    /\ \A i \in DOMAIN fs \ {0} : gs[i] = fs[i]
    /\ Len(gs[0].lines) = Len(fs[0].lines) + 1
    /\ \A n \in DOMAIN fs[0].lines :
          /\ SameLine(fs[0].lines[n], gs[0].lines[n])
          /\ fs[0].lines[n].safe => gs[0].lines[n].safe
    /\ SameLine(l, gs[0].lines[Len(fs[0].lines) + 1])

\* Adding the newest line to a file whose last line is ended leaves the files in order.
LEMMA GrownOk ==
  ASSUME NEW fs, NEW gs, NEW l \in AuditLine, NEW ids, NEW ids2, NEW latest \in Nat,
         FilesOk(fs), FilesOk(gs), Grown(fs, gs, l), FreshLine(fs),
         LinesOk(fs, ids, latest), PairsOk(fs, ids), IdsBelow(fs, l.id),
         l.kind # "torn" => SeqsBelow(fs, ids, l.seq),
         l.at <= latest, latest <= gs[0].mtime + MARGIN,
         ids \subseteq ids2, ids2 \subseteq ids \cup {l.id},
         l.id \in ids2 => l.kind = "record" /\ l.ended
  PROVE  /\ LinesOk(gs, ids2, latest) /\ PairsOk(gs, ids2) /\ IdsBelow(gs, l.id + 1)
         /\ \A s : SeqsBelow(fs, ids, s) /\ (l.id \in ids2 => l.seq < s)
                    => SeqsBelow(gs, ids2, s)
         /\ SafeStays(fs, gs)
         /\ \A id : Outlived(fs, id) /\ id < l.id => Outlived(gs, id)
<1> DEFINE top == Len(fs[0].lines) + 1
<1>1. /\ 0 \in DOMAIN fs /\ DOMAIN gs = DOMAIN fs /\ DOMAIN fs \subseteq Nat
      /\ fs[0].lines \in Seq(AuditLine) /\ gs[0].lines \in Seq(AuditLine)
      /\ gs[0].mtime \in Nat /\ fs[0].mtime \in Nat
      /\ Len(fs[0].lines) \in Nat /\ top \in Nat
  BY AuditAssumption DEF Grown, FilesOk, AuditFile, Indices
<1>2. DOMAIN fs[0].lines = 1 .. (top - 1) /\ DOMAIN gs[0].lines = 1 .. top
  BY <1>1 DEF Grown
<1>3. \A i \in DOMAIN gs : \A n \in DOMAIN gs[i].lines :
         \/ i = 0 /\ n = top /\ SameLine(l, gs[i].lines[n])
         \/ /\ ~(i = 0 /\ n = top) /\ n \in DOMAIN fs[i].lines
            /\ SameLine(fs[i].lines[n], gs[i].lines[n])
  <2>1. ASSUME NEW i \in DOMAIN gs, NEW n \in DOMAIN gs[i].lines
        PROVE \/ i = 0 /\ n = top /\ SameLine(l, gs[i].lines[n])
              \/ /\ ~(i = 0 /\ n = top) /\ n \in DOMAIN fs[i].lines
                 /\ SameLine(fs[i].lines[n], gs[i].lines[n])
    <3>1. CASE i # 0
      BY <1>1, <3>1 DEF Grown, SameLine
    <3>2. CASE i = 0
      BY <1>1, <1>2, <3>2 DEF Grown
    <3>3. QED  BY <3>1, <3>2
  <2>2. QED  BY <2>1
<1>4. l.id \in Nat /\ l.seq \in Nat /\ l.at \in Nat
  BY DEF AuditLine
<1>5. \A i \in DOMAIN fs : \A n \in DOMAIN fs[i].lines :
         /\ fs[i].lines[n] \in AuditLine /\ fs[i].lines[n].id < l.id /\ fs[i].lines[n].id \in Nat
         /\ fs[i].lines[n].id \in ids2 => fs[i].lines[n].id \in ids
         /\ fs[i].lines[n].seq \in Nat
  <2>1. ASSUME NEW i \in DOMAIN fs, NEW n \in DOMAIN fs[i].lines
        PROVE  /\ fs[i].lines[n] \in AuditLine /\ fs[i].lines[n].id < l.id
    BY DEF FilesOk, AuditFile, IdsBelow
  <2>2. QED  BY <2>1 DEF AuditLine
<1>6. LinesOk(gs, ids2, latest)
  <2>1. ASSUME NEW i \in DOMAIN gs, NEW n \in DOMAIN gs[i].lines
        PROVE  LineOk(gs[i], gs[i].lines[n], ids2, latest) /\ SeamOk(gs[i].lines, n, ids2)
    <3>1. CASE i = 0 /\ n = top /\ SameLine(l, gs[i].lines[n])
      <4>1. LineOk(gs[i], gs[i].lines[n], ids2, latest)
        BY <1>1, <1>4, <3>1, AuditAssumption DEF LineOk, SameLine
      <4>2. SeamOk(gs[i].lines, n, ids2)
        <5>1. SUFFICES ASSUME n > 1  PROVE gs[0].lines[n - 1].ended
          BY <3>1 DEF SeamOk
        <5>2. n - 1 = Len(fs[0].lines) /\ n - 1 \in DOMAIN fs[0].lines
          BY <1>1, <1>2, <3>1, <5>1
        <5>3. fs[0].lines # <<>>
          BY <1>1, <5>1, <5>2
        <5>4. fs[0].lines[n - 1].ended
          BY <5>2, <5>3 DEF FreshLine
        <5>5. SameLine(fs[0].lines[n - 1], gs[0].lines[n - 1])
          BY <5>2 DEF Grown
        <5>6. QED  BY <5>4, <5>5 DEF SameLine
      <4>3. QED  BY <4>1, <4>2
    <3>2. CASE /\ ~(i = 0 /\ n = top) /\ n \in DOMAIN fs[i].lines
               /\ SameLine(fs[i].lines[n], gs[i].lines[n])
      <4>1. /\ LineOk(fs[i], fs[i].lines[n], ids, latest) /\ SeamOk(fs[i].lines, n, ids)
            /\ i \in DOMAIN fs
        BY <1>1, <3>2 DEF LinesOk
      <4>2. fs[i].mtime = gs[i].mtime \/ latest <= gs[i].mtime + MARGIN
        BY <1>1 DEF Grown
      <4>3. /\ gs[i].mtime \in Nat /\ fs[i].mtime \in Nat /\ gs[i].lines \in Seq(AuditLine)
            /\ gs[i].lines[n].at \in Nat
        <5>1. gs[i] \in AuditFile /\ fs[i] \in AuditFile
          BY <1>1 DEF FilesOk
        <5>2. gs[i].lines[n] \in AuditLine
          BY <5>1 DEF AuditFile
        <5>3. QED  BY <5>1, <5>2 DEF AuditFile, AuditLine
      <4>4. LineOk(gs[i], gs[i].lines[n], ids2, latest)
        BY <1>5, <3>2, <4>1, <4>2, <4>3, AuditAssumption DEF LineOk, SameLine
      <4>5. SeamOk(gs[i].lines, n, ids2)
        <5>1. SUFFICES ASSUME n > 1, gs[i].lines[n].id \in ids2  PROVE gs[i].lines[n - 1].ended
          BY DEF SeamOk
        <5>2. fs[i].lines[n].id \in ids
          BY <1>5, <3>2, <4>1, <5>1 DEF SameLine
        <5>3. n - 1 \in DOMAIN gs[i].lines /\ n \in Nat
          BY <4>3, <5>1
        <5>4. SameLine(fs[i].lines[n - 1], gs[i].lines[n - 1])
          <6>1. ~(i = 0 /\ n - 1 = top)
            BY <1>1, <1>2, <5>3
          <6>2. QED  BY <1>3, <5>3, <6>1
        <5>5. fs[i].lines[n - 1].ended
          BY <4>1, <5>1, <5>2 DEF SeamOk
        <5>6. QED  BY <5>4, <5>5 DEF SameLine
      <4>6. QED  BY <4>4, <4>5
    <3>3. QED  BY <1>3, <3>1, <3>2
  <2>2. QED  BY <2>1 DEF LinesOk
<1>7. PairsOk(gs, ids2)
  <2>1. ASSUME NEW i \in DOMAIN gs, NEW j \in DOMAIN gs,
               NEW n \in DOMAIN gs[i].lines, NEW m \in DOMAIN gs[j].lines,
               Older(<<i, n>>, <<j, m>>)
        PROVE  PairOk(gs[i].lines[n], gs[j].lines[m], ids2)
    <3>1. i > j \/ (i = j /\ n < m)
      BY <2>1 DEF Older
    <3>2. i \in Nat /\ j \in Nat /\ n \in Nat /\ m \in Nat
      <4>1. gs[i] \in AuditFile /\ gs[j] \in AuditFile
        BY DEF FilesOk
      <4>2. gs[i].lines \in Seq(AuditLine) /\ gs[j].lines \in Seq(AuditLine)
        BY <4>1 DEF AuditFile
      <4>3. QED  BY <1>1, <4>2
    <3>3. ~(i = 0 /\ n = top)
      BY <1>1, <1>2, <3>1, <3>2
    <3>4. /\ i \in DOMAIN fs /\ n \in DOMAIN fs[i].lines
          /\ SameLine(fs[i].lines[n], gs[i].lines[n])
      BY <1>1, <1>3, <3>3
    <3>5. CASE j = 0 /\ m = top /\ SameLine(l, gs[j].lines[m])
      <4>1. ASSUME fs[i].lines[n].id \in ids, l.kind # "torn"  PROVE fs[i].lines[n].seq < l.seq
        BY <3>4, <4>1 DEF SeqsBelow
      <4>2. QED  BY <1>5, <3>4, <3>5, <4>1 DEF PairOk, SameLine
    <3>6. CASE m \in DOMAIN fs[j].lines /\ SameLine(fs[j].lines[m], gs[j].lines[m])
      <4>1. PairOk(fs[i].lines[n], fs[j].lines[m], ids)
        BY <1>1, <2>1, <3>4, <3>6 DEF PairsOk
      <4>2. QED  BY <1>5, <3>4, <3>6, <4>1 DEF PairOk, SameLine
    <3>7. QED  BY <1>3, <3>5, <3>6
  <2>2. QED  BY <2>1 DEF PairsOk
<1>8. IdsBelow(gs, l.id + 1)
  <2>1. ASSUME NEW i \in DOMAIN gs, NEW n \in DOMAIN gs[i].lines
        PROVE  gs[i].lines[n].id < l.id + 1
    <3>1. CASE SameLine(l, gs[i].lines[n])
      BY <1>4, <3>1 DEF SameLine
    <3>2. CASE n \in DOMAIN fs[i].lines /\ SameLine(fs[i].lines[n], gs[i].lines[n])
      BY <1>1, <1>5, <1>4, <3>2 DEF SameLine
    <3>3. QED  BY <1>3, <3>1, <3>2
  <2>2. QED  BY <2>1 DEF IdsBelow
<1>9. ASSUME NEW s, SeqsBelow(fs, ids, s), l.id \in ids2 => l.seq < s
      PROVE  SeqsBelow(gs, ids2, s)
  <2>1. ASSUME NEW i \in DOMAIN gs, NEW n \in DOMAIN gs[i].lines, gs[i].lines[n].id \in ids2
        PROVE  gs[i].lines[n].seq < s
    <3>1. CASE SameLine(l, gs[i].lines[n])
      BY <1>9, <2>1, <3>1 DEF SameLine
    <3>2. CASE n \in DOMAIN fs[i].lines /\ SameLine(fs[i].lines[n], gs[i].lines[n])
      BY <1>1, <1>5, <1>9, <2>1, <3>2 DEF SameLine, SeqsBelow
    <3>3. QED  BY <1>3, <3>1, <3>2
  <2>2. QED  BY <2>1 DEF SeqsBelow
<1>10. ASSUME NEW id, OnDisk(fs, id)  PROVE OnDisk(gs, id)
  <2>1. PICK i \in DOMAIN fs :
          \E n \in DOMAIN fs[i].lines : fs[i].lines[n].id = id /\ fs[i].lines[n].safe
    BY <1>10 DEF OnDisk
  <2>2. PICK n \in DOMAIN fs[i].lines : fs[i].lines[n].id = id /\ fs[i].lines[n].safe
    BY <2>1
  <2>3. i \in DOMAIN gs /\ n \in DOMAIN gs[i].lines /\ gs[i].lines[n].id = id /\ gs[i].lines[n].safe
    <3>1. CASE i = 0
      <4>1. n \in DOMAIN fs[0].lines /\ fs[0].lines[n].id = id /\ fs[0].lines[n].safe
        BY <2>2, <3>1
      <4>2. SameLine(fs[0].lines[n], gs[0].lines[n]) /\ gs[0].lines[n].safe
        BY <4>1 DEF Grown
      <4>3. n \in DOMAIN gs[0].lines
        BY <1>1, <1>2, <4>1
      <4>4. QED  BY <1>1, <3>1, <4>1, <4>2, <4>3 DEF SameLine
    <3>2. CASE i # 0
      BY <1>1, <2>2, <3>2 DEF Grown
    <3>3. QED  BY <3>1, <3>2
  <2>4. QED  BY <2>3 DEF OnDisk
<1>11. ASSUME NEW id, Outlived(fs, id), id < l.id  PROVE Outlived(gs, id)
  <2>1. ASSUME NEW i \in DOMAIN gs, NEW n \in DOMAIN gs[i].lines  PROVE id < gs[i].lines[n].id
    BY <1>1, <1>3, <1>11 DEF SameLine, Outlived
  <2>2. QED  BY <2>1 DEF Outlived
<1>12. QED  BY <1>6, <1>7, <1>8, <1>9, <1>10, <1>11 DEF SafeStays

-----------------------------------------------------------------------------
(* Reading a file back.                                                    *)

\* Reading keeps the number, the id and the date of every line, and makes of some a
\* torn one.
LEMMA ReadBackIs ==
  ASSUME NEW i \in DOMAIN files, files[i] \in AuditFile, NEW n \in DOMAIN files[i].lines
  PROVE  /\ DOMAIN ReadBack(i) = DOMAIN files[i].lines
         /\ ReadBack(i)[n].id = files[i].lines[n].id
         /\ ReadBack(i)[n].seq = files[i].lines[n].seq
         /\ ReadBack(i)[n].at = files[i].lines[n].at
         /\ ReadBack(i)[n].kind # "torn" => ReadBack(i)[n] = files[i].lines[n]
<1>1. files[i].lines[n] \in AuditLine
  BY DEF AuditFile
<1>2. PICK l : l = files[i].lines[n]
  OBVIOUS
<1>3. /\ DOMAIN ReadBack(i) = DOMAIN files[i].lines
      /\ ReadBack(i)[n] = l \/ ReadBack(i)[n] = [l EXCEPT !.kind = "torn"]
  BY <1>2 DEF ReadBack, read_lines
<1>4. QED  BY <1>1, <1>2, <1>3 DEF AuditLine

\* An acknowledged line reads back as it was written.
LEMMA AckedReadsBack ==
  ASSUME FilesOk(files), LinesOk(files, AckIds, ceiling),
         NEW i \in DOMAIN files, NEW n \in DOMAIN files[i].lines,
         files[i].lines[n].id \in AckIds
  PROVE  n \in DOMAIN ReadBack(i) /\ ReadBack(i)[n] = files[i].lines[n] /\ Usable(ReadBack(i)[n])
<1>1. files[i].lines[n].kind = "record" /\ files[i].lines[n].ended
      /\ (n > 1 => files[i].lines[n - 1].ended)
  BY DEF LinesOk, LineOk, SeamOk
<1>2. QED  BY <1>1 DEF ReadBack, read_lines, Usable

\* The lines of a file that can be decoded are numbered.
LEMMA DecodedAre ==
  ASSUME FilesOk(files), NEW i \in DOMAIN files
  PROVE  \A l \in Decoded(i) : \E n \in DOMAIN files[i].lines :
            l = files[i].lines[n] /\ l \in AuditLine /\ l.kind # "torn"
<1>1. files[i] \in AuditFile
  BY DEF FilesOk
<1>2. ASSUME NEW l \in Decoded(i)
      PROVE  \E n \in DOMAIN files[i].lines :
                l = files[i].lines[n] /\ l \in AuditLine /\ l.kind # "torn"
  <2>1. l \in ToSet(ReadBack(i)) /\ l.kind # "torn"
    BY DEF Decoded, Decodes
  <2>2. PICK n \in DOMAIN ReadBack(i) : l = ReadBack(i)[n]
    BY <2>1 DEF ToSet
  <2>3. n \in DOMAIN files[i].lines
    BY <2>2 DEF ReadBack, read_lines
  <2>4. l = files[i].lines[n]
    BY <1>1, <2>1, <2>2, <2>3, ReadBackIs
  <2>5. l \in AuditLine
    BY <1>1, <2>3, <2>4 DEF AuditFile
  <2>6. QED  BY <2>1, <2>3, <2>4, <2>5
<1>3. QED  BY <1>2

\* In a file with a line that can be decoded, one such line has the greatest number.
LEMMA GreatestSeq ==
  ASSUME FilesOk(files), NEW i \in DOMAIN files, Decoded(i) # {}
  PROVE  LET top == SetMax({l.seq : l \in Decoded(i)})
         IN  top \in Nat /\ \A l \in Decoded(i) : l.seq <= top
<1> DEFINE S == {l.seq : l \in Decoded(i)}
<1>1. files[i].lines \in Seq(AuditLine)
  BY DEF FilesOk, AuditFile
<1>2. PICK b \in Nat : \A n \in 1 .. Len(files[i].lines) : files[i].lines[n].seq <= b
  <2> DEFINE f == [n \in 1 .. Len(files[i].lines) |-> files[i].lines[n].seq]
  <2>1. Len(files[i].lines) \in Nat /\ \A n \in 1 .. Len(files[i].lines) : f[n] \in Nat
    <3>1. \A n \in 1 .. Len(files[i].lines) : files[i].lines[n] \in AuditLine
      BY <1>1
    <3>2. QED  BY <1>1, <3>1 DEF AuditLine
  <2>2. PICK b \in Nat : \A n \in 1 .. Len(files[i].lines) : f[n] <= b
    <3> HIDE DEF f
    <3>1. QED  BY <2>1, SequenceBounded
  <2>3. QED  BY <2>2
<1>3. \A l \in Decoded(i) : l.seq \in Nat /\ l.seq <= b
  BY <1>1, <1>2, DecodedAre DEF AuditLine
<1>4. S \in SUBSET Nat /\ S # {} /\ \A x \in S : x <= b
  BY <1>3
<1>5. SetMax(S) \in S /\ \A y \in S : y <= SetMax(S)
  <2> HIDE DEF S
  <2>1. QED  BY <1>4, SetMaxIs
<1>6. QED  BY <1>4, <1>5

\* The number worked out at a restart is no lower than any acknowledged one that is left.
LEMMA HighestSeq ==
  ASSUME FilesOk(files), LinesOk(files, AckIds, ceiling), PairsOk(files, AckIds)
  PROVE  highest_seq \in Nat /\ SeqsBelow(files, AckIds, highest_seq + 1)
<1> DEFINE numbered == {i \in list_files : Decoded(i) # {}}
<1>1. \A i \in DOMAIN files : \A n \in DOMAIN files[i].lines :
        files[i].lines[n].id \in AckIds =>
          i \in numbered /\ files[i].lines[n] \in Decoded(i) /\ files[i].lines[n].seq \in Nat
  <2>1. ASSUME NEW i \in DOMAIN files, NEW n \in DOMAIN files[i].lines,
               files[i].lines[n].id \in AckIds
        PROVE  i \in numbered /\ files[i].lines[n] \in Decoded(i) /\ files[i].lines[n].seq \in Nat
    <3>1. /\ n \in DOMAIN ReadBack(i) /\ ReadBack(i)[n] = files[i].lines[n]
          /\ Usable(ReadBack(i)[n])
      BY <2>1, AckedReadsBack
    <3>2. files[i].lines[n] \in Decoded(i)
      BY <3>1 DEF Decoded, Decodes, Usable, ToSet
    <3>3. files[i].lines[n] \in AuditLine
      BY DEF FilesOk, AuditFile
    <3>4. QED  BY <3>2, <3>3 DEF list_files, AuditLine
  <2>2. QED  BY <2>1
<1>2. CASE numbered = {}
  <2>1. highest_seq = 0
    BY <1>2 DEF highest_seq
  <2>2. QED  BY <1>1, <1>2, <2>1 DEF SeqsBelow
<1>3. CASE numbered # {}
  <2> DEFINE m == SetMin(numbered)
             top == SetMax({l.seq : l \in Decoded(m)})
  <2>1. numbered \in SUBSET Nat
    BY AuditAssumption DEF list_files, FilesOk, Indices
  <2>2. m \in numbered /\ \A i \in numbered : m <= i
    <3> HIDE DEF numbered
    <3>1. QED  BY <1>3, <2>1, SetMinIs
  <2>3. highest_seq = top
    BY <1>3 DEF highest_seq
  <2>4. m \in DOMAIN files /\ Decoded(m) # {}
    BY <2>2 DEF list_files
  <2> HIDE DEF m, numbered
  <2>5. top \in Nat /\ \A l \in Decoded(m) : l.seq <= top
    BY <2>4, GreatestSeq
  <2> HIDE DEF top
  <2>6. ASSUME NEW i \in DOMAIN files, NEW n \in DOMAIN files[i].lines,
               files[i].lines[n].id \in AckIds
        PROVE  files[i].lines[n].seq < top + 1
    <3>1. /\ i \in numbered /\ files[i].lines[n] \in Decoded(i) /\ files[i].lines[n].seq \in Nat
          /\ m <= i /\ m \in Nat /\ i \in Nat
      BY <1>1, <2>1, <2>2, <2>6
    <3>2. CASE i = m
      <4>1. files[i].lines[n].seq <= top
        BY <2>5, <3>1, <3>2
      <4>2. QED  BY <2>5, <3>1, <4>1
    <3>3. CASE i > m
      <4>1. PICK l \in Decoded(m) : TRUE
        BY <2>4
      <4>2. PICK k \in DOMAIN files[m].lines :
              l = files[m].lines[k] /\ l \in AuditLine /\ l.kind # "torn"
        BY <2>4, <4>1, DecodedAre
      <4>3. Older(<<i, n>>, <<m, k>>)
        BY <3>3 DEF Older
      <4>4. files[i].lines[n].seq < l.seq
        BY <2>4, <2>6, <4>2, <4>3 DEF PairsOk, PairOk
      <4>5. l.seq \in Nat /\ l.seq <= top
        BY <2>5, <4>1, <4>2 DEF AuditLine
      <4>6. QED  BY <2>5, <3>1, <4>4, <4>5
    <3>4. QED  BY <3>1, <3>2, <3>3
  <2>7. QED  BY <2>3, <2>5, <2>6 DEF SeqsBelow
<1>4. QED  BY <1>2, <1>3

-----------------------------------------------------------------------------
(* Opening, moving and cutting files.                                      *)

\* The clock is never further back than the margin.
LEMMA CeilingIs ==
  ASSUME TypeInv
  PROVE  ceiling \in Nat /\ clock <= ceiling /\ ceiling <= clock + MARGIN
BY AuditAssumption DEF TypeInv, ceiling

\* A file put in the place of another is the only one that changes.
LEMMA PutIs ==
  ASSUME NEW fs, FilesOk(fs), NEW lines \in Seq(AuditLine), clock \in Nat
  PROVE  /\ DOMAIN Put(fs, 0, lines) = DOMAIN fs \cup {0}
         /\ Put(fs, 0, lines)[0] = [lines |-> lines, mtime |-> clock]
         /\ Put(fs, 0, lines)[0].lines = lines /\ Put(fs, 0, lines)[0].mtime = clock
         /\ \A i \in DOMAIN fs \ {0} : Put(fs, 0, lines)[i] = fs[i]
         /\ FilesOk(Put(fs, 0, lines))
<1> DEFINE gs == Put(fs, 0, lines)
<1>1. /\ DOMAIN gs = DOMAIN fs \cup {0}
      /\ gs[0] = [lines |-> lines, mtime |-> clock]
      /\ \A i \in DOMAIN fs \ {0} : gs[i] = fs[i]
  BY DEF Put
<1>2. [lines |-> lines, mtime |-> clock] \in AuditFile /\ 0 \in Indices
  BY AuditAssumption DEF AuditFile, Indices
<1> HIDE DEF gs
<1>3. ASSUME NEW i \in DOMAIN gs  PROVE gs[i] \in AuditFile
  <2>1. CASE i = 0
    BY <1>1, <1>2, <2>1
  <2>2. CASE i # 0
    BY <1>1, <2>2 DEF FilesOk
  <2>3. QED  BY <2>1, <2>2
<1>4. DOMAIN gs \subseteq Indices
  BY <1>1, <1>2 DEF FilesOk
<1>5. FilesOk(gs)
  BY <1>3, <1>4 DEF FilesOk
<1>6. gs[0].lines = lines /\ gs[0].mtime = clock
  BY <1>1
<1>7. QED  BY <1>1, <1>5, <1>6 DEF gs

\* What open_writer does: it carries all lines over, and the next one starts on a line
\* of its own.
LEMMA OpenWriterIs ==
  ASSUME NEW fs, FilesOk(fs), clock \in Nat, NEW latest, latest <= clock + MARGIN
  PROVE  LET gs == open_writer(fs).files
         IN  /\ FilesOk(gs) /\ FreshLine(gs) /\ SafeStays(fs, gs)
             /\ Carried(fs, gs, [j \in Indices |-> j], latest)
<1> DEFINE gs == open_writer(fs).files
           old == Active(fs)
           new == EndLine(old)
           from == [j \in Indices |-> j]
<1>1. old \in Seq(AuditLine)
  BY DEF Active, FilesOk, AuditFile
<1>2. /\ new \in Seq(AuditLine) /\ DOMAIN new = DOMAIN old /\ Len(new) = Len(old)
      /\ \A n \in DOMAIN new : SameLine(old[n], new[n]) /\ (old[n].safe => new[n].safe)
      /\ new = <<>> \/ new[Len(new)].ended
  <2>1. CASE old # <<>> /\ ~Last(old).ended
    <3> HIDE DEF old
    <3>1. PICK k : k = Len(old)
      OBVIOUS
    <3>2. k \in DOMAIN old /\ k \in Nat /\ DOMAIN old = 1 .. k /\ old[k] \in AuditLine
      BY <1>1, <2>1, <3>1
    <3>3. PICK l : l = [old[k] EXCEPT !.ended = TRUE]
      OBVIOUS
    <3>4. l \in AuditLine /\ SameLine(old[k], l) /\ l.safe = old[k].safe /\ l.ended
      BY <3>2, <3>3 DEF AuditLine, SameLine
    <3>5. new = [old EXCEPT ![k] = l]
      BY <2>1, <3>1, <3>3 DEF EndLine
    <3>6. /\ DOMAIN new = DOMAIN old /\ new[k] = l
          /\ \A n \in DOMAIN old \ {k} : new[n] = old[n]
      BY <3>2, <3>5
    <3>7. new \in Seq(AuditLine)
      BY <1>1, <3>2, <3>4, <3>5
    <3> HIDE DEF new
    <3>8. Len(new) = k
      BY <3>2, <3>6, <3>7
    <3>9. \A n \in DOMAIN new : SameLine(old[n], new[n]) /\ (old[n].safe => new[n].safe)
      BY <3>4, <3>6 DEF SameLine
    <3>10. QED  BY <3>1, <3>4, <3>6, <3>7, <3>8, <3>9
  <2>2. CASE ~(old # <<>> /\ ~Last(old).ended)
    <3>1. new = old
      BY <2>2 DEF EndLine
    <3> HIDE DEF new, old
    <3>2. QED  BY <1>1, <2>2, <3>1 DEF Last, SameLine
  <2>3. QED  BY <2>1, <2>2
<1>3. CASE 0 \in DOMAIN fs /\ new = old
  <2>1. gs = fs /\ fs[0].lines = new
    BY <1>3 DEF open_writer, Active
  <2> HIDE DEF gs, new, old
  <2>2. \A j \in DOMAIN fs : from[j] = j /\ j \in Int
    BY AuditAssumption DEF FilesOk, Indices
  <2> HIDE DEF from
  <2>3. Carried(fs, gs, from, latest)
    BY <2>1, <2>2 DEF Carried, SameLine
  <2>4. FreshLine(gs)
    BY <1>2, <1>3, <2>1 DEF FreshLine
  <2>5. QED  BY <2>1, <2>3, <2>4 DEF SafeStays, gs, from
<1>4. CASE ~(0 \in DOMAIN fs /\ new = old)
  <2>1. gs = Put(fs, 0, new)
    BY <1>4 DEF open_writer
  <2>2. 0 \in DOMAIN fs => old = fs[0].lines
    BY DEF Active
  <2>3. 0 \notin DOMAIN fs => old = <<>>
    BY DEF Active
  <2> HIDE DEF gs, new, old
  <2>4. /\ DOMAIN gs = DOMAIN fs \cup {0} /\ gs[0].lines = new /\ gs[0].mtime = clock
        /\ \A i \in DOMAIN fs \ {0} : gs[i] = fs[i]
        /\ FilesOk(gs)
    <3>1. new \in Seq(AuditLine)
      BY <1>2
    <3>2. /\ DOMAIN Put(fs, 0, new) = DOMAIN fs \cup {0}
          /\ Put(fs, 0, new)[0].lines = new /\ Put(fs, 0, new)[0].mtime = clock
          /\ \A i \in DOMAIN fs \ {0} : Put(fs, 0, new)[i] = fs[i]
          /\ FilesOk(Put(fs, 0, new))
      BY <3>1, PutIs
    <3>3. QED  BY <2>1, <3>2
  <2>5. \A j \in DOMAIN gs : from[j] = j /\ j \in Int
    BY <2>4, AuditAssumption DEF FilesOk, Indices
  <2> HIDE DEF from
  <2>6. Carried(fs, gs, from, latest)
    <3>1. ASSUME NEW j \in DOMAIN gs, NEW m \in DOMAIN gs[j].lines
          PROVE  /\ from[j] \in DOMAIN fs /\ m \in DOMAIN fs[from[j]].lines
                 /\ SameLine(fs[from[j]].lines[m], gs[j].lines[m])
                 /\ gs[j].mtime = fs[from[j]].mtime \/ latest <= gs[j].mtime + MARGIN
      <4>1. CASE j = 0
        <5>1. m \in DOMAIN old
          BY <1>2, <2>4, <3>1, <4>1
        <5>2. 0 \in DOMAIN fs
          BY <2>3, <5>1
        <5>3. QED  BY <1>2, <2>2, <2>4, <2>5, <4>1, <5>1, <5>2
      <4>2. CASE j # 0
        BY <2>4, <2>5, <3>1, <4>2 DEF SameLine
      <4>3. QED  BY <4>1, <4>2
    <3>2. QED  BY <2>5, <3>1 DEF Carried
  <2>7. FreshLine(gs)
    BY <1>2, <2>4 DEF FreshLine
  <2>8. ASSUME NEW id, OnDisk(fs, id)  PROVE OnDisk(gs, id)
    <3>1. PICK i \in DOMAIN fs :
            \E n \in DOMAIN fs[i].lines : fs[i].lines[n].id = id /\ fs[i].lines[n].safe
      BY <2>8 DEF OnDisk
    <3>2. PICK n \in DOMAIN fs[i].lines : fs[i].lines[n].id = id /\ fs[i].lines[n].safe
      BY <3>1
    <3>3. i \in DOMAIN gs /\ n \in DOMAIN gs[i].lines /\ gs[i].lines[n].id = id
          /\ gs[i].lines[n].safe
      BY <1>2, <2>2, <2>4, <3>2 DEF SameLine
    <3>4. QED  BY <3>3 DEF OnDisk
  <2>9. QED  BY <2>4, <2>6, <2>7, <2>8 DEF SafeStays, gs, from
<1>5. QED  BY <1>3, <1>4

-----------------------------------------------------------------------------
(* The steps.                                                              *)

InPlace == [j \in Indices |-> j]

\* Files that nothing happened to are carried over.
LEMMA SameCarried ==
  ASSUME NEW fs, FilesOk(fs), NEW latest
  PROVE  Carried(fs, fs, InPlace, latest) /\ SafeStays(fs, fs)
<1>1. \A j \in DOMAIN fs : InPlace[j] = j /\ j \in Int
  BY AuditAssumption DEF FilesOk, Indices, InPlace
<1>2. QED  BY <1>1 DEF Carried, SafeStays, SameLine

\* A step that carries the files over, and acknowledges nothing, keeps their invariant.
LEMMA DiskCarried ==
  ASSUME AuditInv, NEW from, FilesOk(files'), Carried(files, files', from, ceiling),
         SafeStays(files, files'), acked' = acked, removed' = removed, ceiling' = ceiling,
         IdsBelow(files, Bound'), \A s \in next_seq' : SeqsBelow(files, AckIds, s)
  PROVE  DiskInv'
<1>1. /\ FilesOk(files) /\ LinesOk(files, AckIds, ceiling) /\ PairsOk(files, AckIds)
      /\ Kept(files, acked, removed) /\ ceiling \in Nat
  BY CeilingIs DEF AuditInv, DiskInv
<1>2. AckIds' = AckIds
  BY DEF AckIds
<1>3. /\ LinesOk(files', AckIds, ceiling) /\ PairsOk(files', AckIds)
      /\ IdsBelow(files', Bound')
      /\ \A s \in next_seq' : SeqsBelow(files', AckIds, s)
  BY <1>1, CarriedOk
<1>4. Kept(files', acked, removed)
  BY <1>1, CarriedKept
<1>5. QED  BY <1>2, <1>3, <1>4 DEF DiskInv

\* A step that leaves the files, the clock and what is acknowledged alone keeps the
\* invariant of the files.
LEMMA DiskSame ==
  ASSUME AuditInv, UNCHANGED <<files, acked, removed, clock, setback>>,
         IdsBelow(files, Bound'), \A s \in next_seq' : SeqsBelow(files, AckIds, s)
  PROVE  DiskInv'
<1>1. FilesOk(files) /\ files' = files /\ ceiling' = ceiling
  BY DEF AuditInv, DiskInv, ceiling
<1>2. Carried(files, files', InPlace, ceiling) /\ SafeStays(files, files') /\ FilesOk(files')
  BY <1>1, SameCarried
<1>3. QED  BY <1>1, <1>2, DiskCarried

\* Bounds on ids may be raised.
LEMMA IdsBelowMore ==
  ASSUME FilesOk(files), NEW k \in Nat, NEW m \in Nat, k <= m, IdsBelow(files, k)
  PROVE  IdsBelow(files, m)
<1>1. ASSUME NEW i \in DOMAIN files, NEW n \in DOMAIN files[i].lines
      PROVE  files[i].lines[n].id < m
  <2>1. files[i] \in AuditFile
    BY DEF FilesOk
  <2>2. files[i].lines[n] \in AuditLine
    BY <2>1 DEF AuditFile
  <2>3. files[i].lines[n].id \in Nat /\ files[i].lines[n].id < k
    BY <2>2 DEF AuditLine, IdsBelow
  <2>4. QED  BY <2>3
<1>2. QED  BY <1>1 DEF IdsBelow

\* An append begins: the active file is opened if it is not, and a number worked out.
LEMMA AppendBeginStep ==
  ASSUME AuditInv, NEW sync \in BOOLEAN, AppendBegin(sync)
  PROVE  AuditInv'
<1>1. TypeInv /\ DiskInv /\ WriterInv
  BY DEF AuditInv
<1>2. FilesOk(files) /\ clock \in Nat /\ appended \in Nat /\ pc = "idle" /\ appended' = appended + 1
  BY <1>1 DEF TypeInv, DiskInv, AppendBegin
<1>3. ceiling \in Nat /\ clock <= ceiling /\ ceiling <= clock + MARGIN /\ ceiling' = ceiling
  BY <1>1, CeilingIs DEF AppendBegin, ceiling
<1>4. highest_seq \in Nat /\ SeqsBelow(files, AckIds, highest_seq + 1)
  BY <1>1, HighestSeq DEF DiskInv
<1>5. /\ next_seq' # {}
      /\ next_seq' = {} \/ \E s \in Nat : next_seq' = {s}
      /\ \A s \in next_seq' : SeqsBelow(files, AckIds, s)
  <2>1. CASE next_seq = {}
    <3>1. next_seq' = {highest_seq + 1} /\ highest_seq + 1 \in Nat
      BY <1>4, <2>1 DEF AppendBegin
    <3>2. QED  BY <1>4, <3>1
  <2>2. CASE next_seq # {}
    <3>1. next_seq' = next_seq
      BY <2>2 DEF AppendBegin
    <3>2. QED  BY <1>1, <2>2, <3>1 DEF TypeInv, DiskInv
  <2>3. QED  BY <2>1, <2>2
<1>6. /\ files' = IF writer = {} THEN open_writer(files).files ELSE files
      /\ \/ pc' = "rotating" /\ writer' = {} /\ todo' = DOMAIN files'
         \/ pc' = "writing" /\ writer' # {}
  BY DEF AppendBegin
<1>7. /\ FilesOk(files') /\ FreshLine(files') /\ SafeStays(files, files')
      /\ Carried(files, files', InPlace, ceiling)
  <2>1. CASE writer = {}
    BY <1>2, <1>3, <1>6, <2>1, OpenWriterIs DEF InPlace
  <2>2. CASE writer # {}
    BY <1>1, <1>2, <1>6, <2>2, SameCarried DEF WriterInv
  <2>3. QED  BY <2>1, <2>2
<1>8. record' = [id |-> appended + 1, at |-> clock, sync |-> sync]
      /\ UNCHANGED <<clock, setback, faults, acked, removed>>
  BY DEF AppendBegin
<1>9. TypeInv'
  <2>1. \A r \in acked' : r.id \in 1 .. appended' /\ r.id < appended'
    BY <1>1, <1>2, <1>8 DEF TypeInv
  <2>2. record' \in [id : Nat, at : Nat, sync : BOOLEAN] /\ record'.id = appended'
        /\ record'.at <= ceiling'
    BY <1>2, <1>3, <1>8
  <2>3. QED  BY <1>1, <1>2, <1>5, <1>6, <1>8, <2>1, <2>2 DEF TypeInv
<1>10. DiskInv'
  <2>1. IdsBelow(files, Bound')
    BY <1>1, <1>2, <1>6 DEF DiskInv, Bound
  <2>2. QED  BY <1>3, <1>5, <1>7, <1>8, <2>1, DiskCarried
<1>11. WriterInv'
  BY <1>6, <1>7 DEF WriterInv
<1>12. RotationInv'
  BY <1>6 DEF RotationInv
<1>13. QED  BY <1>9, <1>10, <1>11, <1>12 DEF AuditInv

\* An append that cannot open its file has used up an id at most.
LEMMA AppendCannotOpenStep ==
  ASSUME AuditInv, AppendCannotOpen
  PROVE  AuditInv'
<1>1. TypeInv /\ DiskInv /\ WriterInv
  BY DEF AuditInv
<1>2. /\ pc = "idle" /\ pc' = "idle" /\ appended' = appended + 1 /\ appended \in Nat
      /\ UNCHANGED <<files, writer, todo, record, clock, setback, acked, removed>>
  BY <1>1 DEF AppendCannotOpen, TypeInv
<1>3. highest_seq \in Nat /\ SeqsBelow(files, AckIds, highest_seq + 1)
  BY <1>1, HighestSeq DEF DiskInv
<1>4. /\ next_seq' = {} \/ \E s \in Nat : next_seq' = {s}
      /\ \A s \in next_seq' : SeqsBelow(files, AckIds, s)
  BY <1>1, <1>3 DEF AppendCannotOpen, TypeInv, DiskInv
<1>5. TypeInv'
  BY <1>1, <1>2, <1>4 DEF TypeInv
<1>6. DiskInv'
  <2>1. IdsBelow(files, Bound')
    BY <1>1, <1>2, IdsBelowMore DEF DiskInv, Bound
  <2>2. QED  BY <1>2, <1>4, <2>1, DiskSame
<1>7. WriterInv' /\ RotationInv'
  BY <1>1, <1>2 DEF WriterInv, RotationInv
<1>8. QED  BY <1>5, <1>6, <1>7 DEF AuditInv

\* A rotation that fails leaves the files where it had come.
LEMMA RotateFailsStep ==
  ASSUME AuditInv, RotateFails
  PROVE  AuditInv'
<1>1. TypeInv /\ DiskInv /\ WriterInv
  BY DEF AuditInv
<1>2. /\ pc = "rotating" /\ pc' = "idle" /\ record' = NoRecord
      /\ UNCHANGED <<files, next_seq, writer, clock, setback, appended, acked, removed>>
  BY DEF RotateFails, Idle
<1>3. TypeInv'
  BY <1>1, <1>2 DEF TypeInv, NoRecord
<1>4. DiskInv'
  <2>1. appended \in Nat /\ IdsBelow(files, appended)
    BY <1>1, <1>2 DEF TypeInv, DiskInv, Bound
  <2>2. IdsBelow(files, Bound')
    BY <1>1, <1>2, <2>1, IdsBelowMore DEF DiskInv, Bound
  <2>3. QED  BY <1>1, <1>2, <2>2, DiskSame DEF DiskInv
<1>5. WriterInv' /\ RotationInv'
  BY <1>1, <1>2 DEF WriterInv, RotationInv
<1>6. QED  BY <1>3, <1>4, <1>5 DEF AuditInv

\* After a rotation the active file is opened anew.
LEMMA RotatedStep ==
  ASSUME AuditInv, Rotated
  PROVE  AuditInv'
<1>1. TypeInv /\ DiskInv /\ WriterInv
  BY DEF AuditInv
<1>2. /\ pc = "rotating" /\ pc' = "writing" /\ files' = open_writer(files).files /\ writer' # {}
      /\ UNCHANGED <<next_seq, todo, record, clock, setback, appended, acked, removed>>
  BY DEF Rotated
<1>3. ceiling \in Nat /\ clock <= ceiling /\ ceiling <= clock + MARGIN /\ ceiling' = ceiling
  BY <1>1, <1>2, CeilingIs DEF ceiling
<1>4. /\ FilesOk(files') /\ FreshLine(files') /\ SafeStays(files, files')
      /\ Carried(files, files', InPlace, ceiling)
  BY <1>1, <1>2, <1>3, OpenWriterIs DEF InPlace, TypeInv, DiskInv
<1>5. TypeInv'
  BY <1>1, <1>2, <1>3 DEF TypeInv
<1>6. DiskInv'
  <2>1. IdsBelow(files, Bound')
    BY <1>1, <1>2 DEF DiskInv, Bound
  <2>2. QED  BY <1>1, <1>2, <1>3, <1>4, <2>1, DiskCarried DEF DiskInv
<1>7. WriterInv' /\ RotationInv'
  BY <1>2, <1>4 DEF WriterInv, RotationInv
<1>8. QED  BY <1>5, <1>6, <1>7 DEF AuditInv

\* While a line is written, the number, the id and the date it is given are above all
\* that is acknowledged and left.
LEMMA Writing ==
  ASSUME AuditInv, pc = "writing"
  PROVE  /\ Whole \in AuditLine /\ Whole.id = appended /\ Whole.seq = NextSeq /\ Whole.ended
         /\ Whole.kind = "record" /\ Whole.at <= ceiling /\ ~Whole.safe
         /\ next_seq = {NextSeq} /\ NextSeq \in Nat /\ appended \in Nat /\ appended \notin AckIds
         /\ IdsBelow(files, appended) /\ SeqsBelow(files, AckIds, NextSeq) /\ FreshLine(files)
         /\ record.id = appended /\ \A r \in acked : r.id < appended
         /\ files[0].lines \in Seq(AuditLine)
<1>1. TypeInv /\ DiskInv /\ FreshLine(files) /\ 0 \in DOMAIN files
  BY DEF AuditInv, WriterInv, FreshLine
<1>2. PICK s \in Nat : next_seq = {s}
  BY <1>1 DEF TypeInv
<1>3. NextSeq = s
  BY <1>2, SetMaxOfOne DEF NextSeq
<1>4. /\ record.id = appended /\ record.at <= ceiling /\ record.at \in Nat /\ appended \in Nat
      /\ \A r \in acked : r.id < appended
  BY <1>1 DEF TypeInv
<1>5. Whole = [kind |-> "record", seq |-> s, id |-> appended, at |-> record.at,
               ended |-> TRUE, safe |-> FALSE]
  BY <1>3, <1>4 DEF Whole, Line
<1>6. Whole \in AuditLine /\ Whole.id = appended /\ Whole.seq = NextSeq /\ Whole.ended
      /\ Whole.kind = "record" /\ Whole.at <= ceiling /\ ~Whole.safe
  BY <1>3, <1>4, <1>5 DEF AuditLine
<1>7. appended \notin AckIds
  BY <1>1, <1>4 DEF AckIds, TypeInv
<1>8. IdsBelow(files, appended) /\ SeqsBelow(files, AckIds, NextSeq)
  BY <1>1, <1>2, <1>3 DEF DiskInv, Bound
<1>9. files[0].lines \in Seq(AuditLine)
  BY <1>1 DEF DiskInv, FilesOk, AuditFile
<1>10. QED  BY <1>1, <1>2, <1>3, <1>4, <1>6, <1>7, <1>8, <1>9

\* Adding a line to the active file grows the files by it.
LEMMA AppendGrows ==
  ASSUME NEW fs, FilesOk(fs), 0 \in DOMAIN fs, clock \in Nat, NEW l \in AuditLine,
         NEW lines \in Seq(AuditLine), Len(lines) = Len(fs[0].lines) + 1,
         SameLine(l, lines[Len(lines)]),
         \A n \in DOMAIN fs[0].lines :
            SameLine(fs[0].lines[n], lines[n]) /\ (fs[0].lines[n].safe => lines[n].safe)
  PROVE  /\ Grown(fs, Put(fs, 0, lines), l) /\ FilesOk(Put(fs, 0, lines))
         /\ Put(fs, 0, lines)[0].mtime = clock /\ Put(fs, 0, lines)[0].lines = lines
         /\ 0 \in DOMAIN Put(fs, 0, lines)
<1> DEFINE gs == Put(fs, 0, lines)
<1>1. /\ DOMAIN gs = DOMAIN fs \cup {0} /\ gs[0].lines = lines /\ gs[0].mtime = clock
      /\ \A i \in DOMAIN fs \ {0} : gs[i] = fs[i]
      /\ FilesOk(gs)
  <2>1. /\ DOMAIN Put(fs, 0, lines) = DOMAIN fs \cup {0}
        /\ Put(fs, 0, lines)[0].lines = lines /\ Put(fs, 0, lines)[0].mtime = clock
        /\ \A i \in DOMAIN fs \ {0} : Put(fs, 0, lines)[i] = fs[i]
        /\ FilesOk(Put(fs, 0, lines))
    BY ONLY PutIs, FilesOk(fs), lines \in Seq(AuditLine), clock \in Nat
  <2>2. QED  BY <2>1
<1> HIDE DEF gs
<1>2. DOMAIN gs = DOMAIN fs
  BY <1>1
<1>3. Grown(fs, gs, l)
  BY <1>1, <1>2 DEF Grown
<1>4. QED  BY <1>1, <1>2, <1>3 DEF gs

\* A write that was cut off leaves the files in order, whatever it left in them.
LEMMA RestStep ==
  ASSUME AuditInv, pc = "writing", NEW rest \in Remains,
         files' = Put(files, 0, files[0].lines \o rest), pc' = "idle",
         UNCHANGED <<clock, setback, appended, acked, removed>>, next_seq' \subseteq next_seq
  PROVE  DiskInv'
<1>1. TypeInv /\ DiskInv
  BY DEF AuditInv
<1>2. /\ FilesOk(files) /\ LinesOk(files, AckIds, ceiling) /\ PairsOk(files, AckIds)
      /\ Kept(files, acked, removed) /\ clock \in Nat
  BY <1>1 DEF DiskInv, TypeInv
<1>3. ceiling \in Nat /\ ceiling <= clock + MARGIN /\ ceiling' = ceiling /\ AckIds' = AckIds
  BY <1>1, CeilingIs DEF ceiling, AckIds
<1>4. /\ Whole \in AuditLine /\ Whole.id = appended /\ Whole.seq = NextSeq
      /\ Whole.at <= ceiling /\ next_seq = {NextSeq} /\ appended \notin AckIds
      /\ IdsBelow(files, appended) /\ SeqsBelow(files, AckIds, NextSeq) /\ FreshLine(files)
      /\ record.id = appended /\ \A r \in acked : r.id < appended
      /\ files[0].lines \in Seq(AuditLine) /\ NextSeq \in Nat /\ appended \in Nat
  BY Writing
<1>5. 0 \in DOMAIN files
  BY <1>4 DEF FreshLine
<1>6. Bound' = appended + 1
  BY DEF Bound
<1>7. CASE rest = <<>>
  <2>1. files' = Put(files, 0, files[0].lines)
    BY <1>4, <1>7
  <2>2. /\ DOMAIN files' = DOMAIN files /\ files'[0].lines = files[0].lines
        /\ files'[0].mtime = clock /\ FilesOk(files')
        /\ \A i \in DOMAIN files \ {0} : files'[i] = files[i]
    BY <1>2, <1>4, <1>5, <2>1, PutIs
  <2>3. \A i \in DOMAIN files : files'[i].lines = files[i].lines
           /\ (files'[i].mtime = files[i].mtime \/ files'[i].mtime = clock)
    BY <2>2
  <2>4. \A j \in DOMAIN files : InPlace[j] = j /\ j \in Int
    BY <1>2, AuditAssumption DEF FilesOk, Indices, InPlace
  <2>5. Carried(files, files', InPlace, ceiling)
    BY <1>3, <2>2, <2>3, <2>4 DEF Carried, SameLine
  <2>6. SafeStays(files, files')
    BY <2>2, <2>3 DEF SafeStays, OnDisk
  <2>7. IdsBelow(files, Bound') /\ \A s \in next_seq' : SeqsBelow(files, AckIds, s)
    BY <1>2, <1>4, <1>6, IdsBelowMore
  <2>8. QED  BY <1>3, <2>2, <2>5, <2>6, <2>7, DiskCarried
<1>8. ASSUME NEW l \in AuditLine, rest = <<l>>, l.id = appended, l.seq = NextSeq, l.at <= ceiling
      PROVE  DiskInv'
  <2> DEFINE old == files[0].lines
             new == old \o <<l>>
  <2>1. /\ new \in Seq(AuditLine) /\ Len(new) = Len(old) + 1 /\ new[Len(new)] = l
        /\ \A n \in DOMAIN old : new[n] = old[n]
    BY <1>4
  <2>2. files' = Put(files, 0, new)
    BY <1>8
  <2> HIDE DEF new
  <2>3. /\ Grown(files, files', l) /\ FilesOk(files') /\ files'[0].mtime = clock
    BY <1>2, <1>5, <2>1, <2>2, AppendGrows DEF SameLine
  <2>4. /\ LinesOk(files', AckIds, ceiling) /\ PairsOk(files', AckIds)
        /\ IdsBelow(files', appended + 1)
        /\ \A s : SeqsBelow(files, AckIds, s) => SeqsBelow(files', AckIds, s)
        /\ SafeStays(files, files')
        /\ \A id : Outlived(files, id) /\ id < appended => Outlived(files', id)
    <3>1. SeqsBelow(files, AckIds, l.seq) /\ IdsBelow(files, l.id) /\ l.id \notin AckIds
          /\ ceiling <= files'[0].mtime + MARGIN
      BY <1>3, <1>4, <1>8, <2>3
    <3>2. AckIds \subseteq AckIds /\ AckIds \subseteq AckIds \cup {l.id}
      OBVIOUS
    <3>3. PICK gs : gs = files'
      OBVIOUS
    <3>4. /\ LinesOk(gs, AckIds, ceiling) /\ PairsOk(gs, AckIds) /\ IdsBelow(gs, l.id + 1)
          /\ \A s : SeqsBelow(files, AckIds, s) => SeqsBelow(gs, AckIds, s)
          /\ SafeStays(files, gs)
          /\ \A id : Outlived(files, id) /\ id < l.id => Outlived(gs, id)
      BY <1>2, <1>3, <1>4, <1>8, <2>3, <3>1, <3>2, <3>3, GrownOk
    <3>5. QED  BY <1>8, <3>3, <3>4
  <2>5. Kept(files', acked, removed)
    BY <1>2, <1>4, <2>4 DEF Kept, SafeStays
  <2>6. \A s \in next_seq' : SeqsBelow(files', AckIds, s)
    BY <1>4, <2>4
  <2>7. QED  BY <1>3, <1>6, <2>3, <2>4, <2>5, <2>6 DEF DiskInv
<1>9. CASE rest = <<Line("torn", NextSeq, record.id, record.at, FALSE)>>
  <2> DEFINE l == Line("torn", NextSeq, record.id, record.at, FALSE)
  <2>1. l \in AuditLine /\ l.id = appended /\ l.seq = NextSeq /\ l.at <= ceiling
    BY <1>1, <1>4 DEF Line, AuditLine, TypeInv
  <2> HIDE DEF l
  <2>2. QED  BY <1>8, <1>9, <2>1 DEF l
<1>10. CASE rest = <<[Whole EXCEPT !.ended = FALSE]>>
  <2>1. PICK l : l = [Whole EXCEPT !.ended = FALSE]
    OBVIOUS
  <2>2. l \in AuditLine /\ l.id = Whole.id /\ l.seq = Whole.seq /\ l.at = Whole.at
    BY <1>4, <2>1 DEF AuditLine
  <2>3. QED  BY <1>4, <1>8, <1>10, <2>1, <2>2
<1>11. CASE rest = <<Whole>>
  BY <1>4, <1>8, <1>11
<1>12. QED  BY <1>7, <1>9, <1>10, <1>11 DEF Remains

\* A write that failed closes the file.
LEMMA WriteFailsStep ==
  ASSUME AuditInv, WriteFails
  PROVE  AuditInv'
<1>1. TypeInv
  BY DEF AuditInv
<1>2. /\ pc = "writing" /\ pc' = "idle" /\ writer' = {}
      /\ UNCHANGED <<next_seq, clock, setback, appended, acked, removed>>
      /\ record' = NoRecord
      /\ \E rest \in Remains : files' = Put(files, 0, files[0].lines \o rest)
  BY DEF WriteFails, Idle
<1>3. TypeInv'
  BY <1>1, <1>2 DEF TypeInv, NoRecord
<1>4. DiskInv'
  BY <1>2, RestStep
<1>5. QED  BY <1>2, <1>3, <1>4 DEF AuditInv, WriterInv, RotationInv

\* What a program that was killed forgets is worked out again.
LEMMA KilledStep ==
  ASSUME AuditInv, Killed
  PROVE  AuditInv'
<1>1. TypeInv /\ DiskInv
  BY DEF AuditInv
<1>2. /\ pc' = "idle" /\ writer' = {} /\ next_seq' = {} /\ record' = NoRecord
      /\ UNCHANGED <<clock, setback, appended, acked, removed>>
  BY DEF Killed, Forgotten, Idle
<1>3. TypeInv'
  BY <1>1, <1>2 DEF TypeInv, NoRecord
<1>4. DiskInv'
  <2>1. CASE pc = "writing"
    <3>1. \E rest \in Remains : files' = Put(files, 0, files[0].lines \o rest)
      BY <2>1 DEF Killed
    <3>2. QED  BY <1>2, <2>1, <3>1, RestStep
  <2>2. CASE pc # "writing"
    <3>1. files' = files
      BY <2>2 DEF Killed
    <3>2. IdsBelow(files, Bound')
      BY <1>1, <1>2, IdsBelowMore DEF DiskInv, Bound, TypeInv
    <3>3. QED  BY <1>2, <3>1, <3>2, DiskSame
  <2>3. QED  BY <2>1, <2>2
<1>5. QED  BY <1>2, <1>3, <1>4 DEF AuditInv, WriterInv, RotationInv

\* Marking lines as synced changes nothing else about them.
LEMMA SafeIs ==
  ASSUME NEW lines \in Seq(AuditLine)
  PROVE  /\ Safe(lines) \in Seq(AuditLine) /\ Len(Safe(lines)) = Len(lines)
         /\ DOMAIN Safe(lines) = DOMAIN lines
         /\ \A n \in DOMAIN lines : SameLine(lines[n], Safe(lines)[n]) /\ Safe(lines)[n].safe
<1>1. DOMAIN lines = 1 .. Len(lines) /\ Len(lines) \in Nat
  OBVIOUS
<1>2. ASSUME NEW n \in DOMAIN lines
      PROVE  /\ [lines[n] EXCEPT !.safe = TRUE] \in AuditLine
             /\ SameLine(lines[n], [lines[n] EXCEPT !.safe = TRUE])
             /\ [lines[n] EXCEPT !.safe = TRUE].safe
  <2>1. PICK l \in AuditLine : l = lines[n]
    OBVIOUS
  <2>2. PICK m : m = [l EXCEPT !.safe = TRUE]
    OBVIOUS
  <2>3. m \in AuditLine /\ SameLine(l, m) /\ m.safe
    BY <2>2 DEF AuditLine, SameLine
  <2>4. QED  BY <2>1, <2>2, <2>3
<1>3. /\ DOMAIN Safe(lines) = 1 .. Len(lines)
      /\ \A n \in 1 .. Len(lines) : /\ Safe(lines)[n] \in AuditLine
                                    /\ SameLine(lines[n], Safe(lines)[n]) /\ Safe(lines)[n].safe
  BY <1>1, <1>2 DEF Safe
<1>4. Safe(lines) = [n \in 1 .. Len(lines) |-> Safe(lines)[n]]
  BY <1>1 DEF Safe
<1>5. PICK s : s = Safe(lines)
  OBVIOUS
<1>6. s \in Seq(AuditLine) /\ Len(s) = Len(lines)
  BY <1>1, <1>3, <1>4, <1>5
<1>7. QED  BY <1>1, <1>3, <1>5, <1>6

\* A write gives the record the next number, and acknowledges it.
LEMMA WriteStep ==
  ASSUME AuditInv, Write
  PROVE  AuditInv'
<1>1. TypeInv /\ DiskInv
  BY DEF AuditInv
<1>2. /\ pc = "writing" /\ pc' = "idle" /\ writer' # {} /\ next_seq' = {NextSeq + 1}
      /\ acked' = acked \cup {record} /\ record' = NoRecord
      /\ UNCHANGED <<clock, setback, appended, faults, removed>>
  BY DEF Write, Idle
<1>3. /\ FilesOk(files) /\ LinesOk(files, AckIds, ceiling) /\ PairsOk(files, AckIds)
      /\ Kept(files, acked, removed) /\ clock \in Nat
  BY <1>1 DEF DiskInv, TypeInv
<1>4. ceiling \in Nat /\ ceiling <= clock + MARGIN /\ ceiling' = ceiling
  BY <1>1, <1>2, CeilingIs DEF ceiling
<1>5. /\ Whole \in AuditLine /\ Whole.id = appended /\ Whole.seq = NextSeq /\ Whole.ended
      /\ Whole.kind = "record" /\ Whole.at <= ceiling
      /\ NextSeq \in Nat /\ appended \in Nat /\ appended \notin AckIds
      /\ IdsBelow(files, appended) /\ SeqsBelow(files, AckIds, NextSeq) /\ FreshLine(files)
      /\ record.id = appended /\ \A r \in acked : r.id < appended
      /\ files[0].lines \in Seq(AuditLine) /\ 0 \in DOMAIN files
  BY <1>2, Writing DEF FreshLine
<1>6. AckIds' = AckIds \cup {appended}
  BY <1>2, <1>5 DEF AckIds
<1> DEFINE old == files[0].lines
           new == Append(old, Whole)
           lines == IF record.sync THEN Safe(new) ELSE new
<1>7. /\ new \in Seq(AuditLine) /\ Len(new) = Len(old) + 1 /\ new[Len(new)] = Whole
      /\ \A n \in DOMAIN old : new[n] = old[n] /\ n \in DOMAIN new
      /\ Len(new) \in DOMAIN new
  BY <1>5
<1>8. files' = Put(files, 0, lines)
  BY DEF Write
<1> HIDE DEF new
<1>9. /\ lines \in Seq(AuditLine) /\ Len(lines) = Len(old) + 1
      /\ SameLine(Whole, lines[Len(lines)]) /\ Len(lines) \in DOMAIN lines
      /\ \A n \in DOMAIN old : SameLine(old[n], lines[n]) /\ (old[n].safe => lines[n].safe)
      /\ record.sync => lines[Len(lines)].safe
  <2>1. CASE record.sync
    <3>1. /\ Safe(new) \in Seq(AuditLine) /\ Len(Safe(new)) = Len(new)
          /\ DOMAIN Safe(new) = DOMAIN new
          /\ \A n \in DOMAIN new : SameLine(new[n], Safe(new)[n]) /\ Safe(new)[n].safe
      BY <1>7, SafeIs
    <3>2. lines = Safe(new)
      BY <2>1
    <3> HIDE DEF lines
    <3>3. QED  BY <1>7, <3>1, <3>2
  <2>2. CASE ~record.sync
    <3>1. lines = new
      BY <2>2
    <3> HIDE DEF lines
    <3>2. QED  BY <1>7, <2>2, <3>1 DEF SameLine
  <2>3. QED  BY <2>1, <2>2
<1> HIDE DEF lines
<1>10. PICK gs : gs = files'
  OBVIOUS
<1>11. /\ Grown(files, gs, Whole) /\ FilesOk(gs) /\ gs[0].mtime = clock /\ gs[0].lines = lines
       /\ 0 \in DOMAIN gs
  BY <1>3, <1>5, <1>8, <1>9, <1>10, AppendGrows
<1>12. /\ LinesOk(gs, AckIds', ceiling) /\ PairsOk(gs, AckIds') /\ IdsBelow(gs, Whole.id + 1)
       /\ \A s : SeqsBelow(files, AckIds, s) /\ (Whole.id \in AckIds' => Whole.seq < s)
                   => SeqsBelow(gs, AckIds', s)
       /\ SafeStays(files, gs)
       /\ \A id : Outlived(files, id) /\ id < Whole.id => Outlived(gs, id)
  <2>1. /\ AckIds \subseteq AckIds' /\ AckIds' \subseteq AckIds \cup {Whole.id}
        /\ ceiling <= gs[0].mtime + MARGIN /\ IdsBelow(files, Whole.id)
        /\ SeqsBelow(files, AckIds, Whole.seq)
    BY <1>4, <1>5, <1>6, <1>11
  <2> HIDE DEF old
  <2>2. QED  BY <1>3, <1>4, <1>5, <1>11, <2>1, GrownOk
<1>13. TypeInv'
  <2>1. next_seq' = {NextSeq + 1} /\ NextSeq + 1 \in Nat
    BY <1>2, <1>5
  <2>2. \A r \in acked' : r.id \in 1 .. appended'
    <3>1. appended > 0
      BY <1>1, <1>2 DEF TypeInv
    <3>2. QED  BY <1>1, <1>2, <1>5, <3>1 DEF TypeInv
  <2>3. QED  BY <1>1, <1>2, <2>1, <2>2 DEF TypeInv, NoRecord
<1>14. Kept(gs, acked', removed)
  <2>1. ASSUME NEW r \in acked, r.sync  PROVE OnDisk(gs, r.id) \/ (r.id \in removed /\ Outlived(gs, r.id))
    <3>1. OnDisk(files, r.id) \/ (r.id \in removed /\ Outlived(files, r.id))
      BY <1>3, <2>1 DEF Kept
    <3>2. QED  BY <1>5, <1>12, <3>1 DEF SafeStays
  <2>2. ASSUME record.sync  PROVE OnDisk(gs, record.id)
    <3>1. gs[0].lines[Len(lines)].safe /\ gs[0].lines[Len(lines)].id = record.id
      BY <1>5, <1>9, <1>11, <2>2 DEF SameLine
    <3>2. QED  BY <1>9, <1>11, <3>1 DEF OnDisk
  <2>3. QED  BY <1>2, <2>1, <2>2 DEF Kept
<1>15. DiskInv'
  <2>1. \A s \in next_seq' : SeqsBelow(gs, AckIds', s)
    <3>1. SeqsBelow(files, AckIds, NextSeq + 1)
      <4>1. ASSUME NEW i \in DOMAIN files, NEW n \in DOMAIN files[i].lines,
                   files[i].lines[n].id \in AckIds
            PROVE  files[i].lines[n].seq < NextSeq + 1
        <5>1. files[i].lines[n] \in AuditLine
          BY <1>3 DEF FilesOk, AuditFile
        <5>2. files[i].lines[n].seq \in Nat /\ files[i].lines[n].seq < NextSeq
          BY <1>5, <4>1, <5>1 DEF SeqsBelow, AuditLine
        <5>3. QED  BY <1>5, <5>2
      <4>2. QED  BY <4>1 DEF SeqsBelow
    <3>2. Whole.seq < NextSeq + 1
      BY <1>5
    <3>3. QED  BY <1>2, <1>12, <3>1, <3>2
  <2>2. Bound' = appended + 1
    BY <1>2 DEF Bound
  <2>3. QED  BY <1>2, <1>4, <1>5, <1>10, <1>11, <1>12, <1>14, <2>1, <2>2 DEF DiskInv
<1>16. WriterInv'
  <2>1. lines # <<>> /\ lines[Len(lines)].ended
    BY <1>5, <1>9 DEF SameLine
  <2>2. QED  BY <1>2, <1>10, <1>11, <2>1 DEF WriterInv, FreshLine
<1>17. RotationInv'
  BY <1>2 DEF RotationInv
<1>18. QED  BY <1>13, <1>15, <1>16, <1>17 DEF AuditInv

\* A rotation moves the oldest file left to a free place, or deletes the oldest of all.
LEMMA RotateStep ==
  ASSUME AuditInv, rotate
  PROVE  AuditInv'
<1>1. TypeInv /\ DiskInv /\ WriterInv /\ RotationInv
  BY DEF AuditInv
<1> DEFINE i == SetMax(todo)
<1>2. /\ pc = "rotating" /\ todo # {} /\ files' = Moved(i) /\ todo' = todo \ {i}
      /\ removed' = IF i + 1 > keep THEN removed \cup Ids(files[i].lines) ELSE removed
      /\ UNCHANGED <<next_seq, writer, pc, record, clock, setback, appended, faults, acked>>
  BY DEF rotate, Shift
<1>3. /\ FilesOk(files) /\ LinesOk(files, AckIds, ceiling) /\ PairsOk(files, AckIds)
      /\ Kept(files, acked, removed) /\ DOMAIN files \subseteq 0 .. keep
      /\ IdsBelow(files, Bound) /\ (\A s \in next_seq : SeqsBelow(files, AckIds, s))
      /\ keep \in Nat /\ Indices = 0 .. keep
  BY <1>1, AuditAssumption DEF DiskInv, FilesOk, Indices, keep
<1>4. todo \subseteq DOMAIN files /\ \A j \in todo : j + 1 \in DOMAIN files => j + 1 \in todo
  BY <1>1, <1>2 DEF RotationInv
<1>5. i \in todo /\ \A j \in todo : j <= i
  <2>1. todo \in SUBSET Nat /\ \A j \in todo : j <= keep
    BY <1>3, <1>4
  <2>2. QED  BY <1>2, <1>3, <2>1, SetMaxIs
<1> HIDE DEF i
<1>6. i \in 0 .. keep /\ i \in DOMAIN files /\ i + 1 \notin DOMAIN files
  BY <1>3, <1>4, <1>5
<1>7. ceiling \in Nat /\ ceiling' = ceiling /\ AckIds' = AckIds /\ Bound' = Bound
  BY <1>1, <1>2, CeilingIs DEF ceiling, AckIds, Bound
<1>8. TypeInv'
  BY <1>1, <1>2, <1>7 DEF TypeInv
<1>9. WriterInv'
  <2>1. writer = {}
    BY <1>1, <1>2 DEF WriterInv
  <2>2. QED  BY <1>2, <2>1 DEF WriterInv
<1>10. CASE i + 1 > keep
  <2>1. i = keep
    BY <1>3, <1>6, <1>10
  <2>2. /\ DOMAIN files' = DOMAIN files \ {i} /\ \A j \in DOMAIN files' : files'[j] = files[j]
    BY <1>2, <1>10 DEF Moved
  <2>3. FilesOk(files')
    BY <1>3, <2>2 DEF FilesOk
  <2>4. Carried(files, files', InPlace, ceiling)
    <3>1. \A j \in DOMAIN files' : InPlace[j] = j /\ j \in Int
      BY <1>3, <2>2 DEF InPlace
    <3>2. QED  BY <2>2, <3>1 DEF Carried, SameLine
  <2>5. /\ LinesOk(files', AckIds, ceiling) /\ PairsOk(files', AckIds)
        /\ IdsBelow(files', Bound) /\ \A s \in next_seq : SeqsBelow(files', AckIds, s)
        /\ \A id : Outlived(files, id) => Outlived(files', id)
    BY <1>3, <1>7, <2>3, <2>4, CarriedOk
  <2>6. Kept(files', acked, removed')
    <3>1. ASSUME NEW r \in acked, r.sync
          PROVE  OnDisk(files', r.id) \/ (r.id \in removed' /\ Outlived(files', r.id))
      <4>1. CASE r.id \in removed /\ Outlived(files, r.id)
        BY <1>2, <2>5, <4>1
      <4>2. CASE OnDisk(files, r.id)
        <5>1. PICK j \in DOMAIN files :
                \E n \in DOMAIN files[j].lines : files[j].lines[n].id = r.id /\ files[j].lines[n].safe
          BY <4>2 DEF OnDisk
        <5>2. PICK n \in DOMAIN files[j].lines : files[j].lines[n].id = r.id /\ files[j].lines[n].safe
          BY <5>1
        <5>3. CASE j # i
          <6>1. j \in DOMAIN files' /\ files'[j] = files[j]
            BY <2>2, <5>3
          <6>2. QED  BY <5>2, <6>1 DEF OnDisk
        <5>4. CASE j = i
          <6>1. r.id \in removed'
            BY <1>2, <1>10, <5>2, <5>4 DEF Ids, ToSet
          <6>2. ASSUME NEW k \in DOMAIN files', NEW m \in DOMAIN files'[k].lines
                PROVE  r.id < files'[k].lines[m].id
            <7>1. k \in DOMAIN files /\ files'[k] = files[k] /\ i > k
              BY <1>3, <1>6, <2>1, <2>2
            <7>2. Older(<<i, n>>, <<k, m>>)
              BY <7>1 DEF Older
            <7>3. QED  BY <1>3, <5>2, <5>4, <7>1, <7>2 DEF PairsOk, PairOk
          <6>3. QED  BY <6>1, <6>2 DEF Outlived
        <5>5. QED  BY <5>3, <5>4
      <4>3. QED  BY <1>3, <3>1, <4>1, <4>2 DEF Kept
    <3>2. QED  BY <3>1 DEF Kept
  <2>7. DiskInv'
    BY <1>2, <1>7, <2>3, <2>5, <2>6 DEF DiskInv
  <2>8. RotationInv'
    BY <1>2, <1>4, <1>5, <2>2 DEF RotationInv
  <2>9. QED  BY <1>8, <1>9, <2>7, <2>8 DEF AuditInv
<1>11. CASE ~(i + 1 > keep)
  <2> DEFINE from == [j \in Indices |-> IF j = i + 1 THEN i ELSE j]
  <2>1. /\ DOMAIN files' = (DOMAIN files \ {i}) \cup {i + 1} /\ files'[i + 1] = files[i]
        /\ \A j \in DOMAIN files \ {i} : files'[j] = files[j]
    BY <1>2, <1>6, <1>11 DEF Moved
  <2>2. i + 1 \in 0 .. keep /\ removed' = removed
    BY <1>2, <1>3, <1>6, <1>11
  <2>3. FilesOk(files')
    BY <1>3, <1>6, <2>1, <2>2 DEF FilesOk
  <2>4. \A j \in DOMAIN files' : j \in 0 .. keep /\ j # i /\ from[j] = (IF j = i + 1 THEN i ELSE j)
    BY <1>3, <1>6, <2>1, <2>2
  <2>5. \A j \in DOMAIN files' : from[j] \in DOMAIN files /\ files'[j] = files[from[j]]
    BY <1>6, <2>1, <2>4
  <2> HIDE DEF from
  <2>6. \A j, k \in DOMAIN files' : j > k => from[j] > from[k]
    <3>1. ASSUME NEW j \in DOMAIN files', NEW k \in DOMAIN files', j > k  PROVE from[j] > from[k]
      <4>1. j \in 0 .. keep /\ k \in 0 .. keep /\ j # i /\ k # i
        BY <2>4
      <4>2. from[j] = (IF j = i + 1 THEN i ELSE j) /\ from[k] = (IF k = i + 1 THEN i ELSE k)
        BY <2>4
      <4>3. j \in Int /\ k \in Int /\ i \in Int
        BY <1>3, <1>6, <4>1
      <4>4. CASE j = i + 1
        BY <3>1, <4>1, <4>2, <4>3, <4>4
      <4>5. CASE j # i + 1
        BY <3>1, <4>1, <4>2, <4>3, <4>5
      <4>6. QED  BY <4>4, <4>5
    <3>2. QED  BY <3>1
  <2>7. Carried(files, files', from, ceiling)
    BY <2>5, <2>6 DEF Carried, SameLine
  <2>8. SafeStays(files, files')
    <3>1. ASSUME NEW id, OnDisk(files, id)  PROVE OnDisk(files', id)
      <4>1. PICK j \in DOMAIN files :
              \E n \in DOMAIN files[j].lines : files[j].lines[n].id = id /\ files[j].lines[n].safe
        BY <3>1 DEF OnDisk
      <4>2. PICK k \in DOMAIN files' : files'[k] = files[j]
        BY <1>6, <2>1
      <4>3. QED  BY <4>1, <4>2 DEF OnDisk
    <3>2. QED  BY <3>1 DEF SafeStays
  <2>9. DiskInv'
    BY <1>2, <1>3, <1>7, <2>2, <2>3, <2>7, <2>8, DiskCarried
  <2>10. RotationInv'
    BY <1>3, <1>2, <1>4, <1>5, <1>6, <2>1 DEF RotationInv
  <2>11. QED  BY <1>8, <1>9, <2>9, <2>10 DEF AuditInv
<1>12. QED  BY <1>10, <1>11

\* A crash of the machine takes none of the lines that are on the disk.
LEMMA MachineCrashStep ==
  ASSUME AuditInv, MachineCrash
  PROVE  AuditInv'
<1>1. TypeInv /\ DiskInv
  BY DEF AuditInv
<1>2. /\ pc' = "idle" /\ writer' = {} /\ next_seq' = {} /\ record' = NoRecord
      /\ UNCHANGED <<clock, setback, appended, acked, removed>>
  BY DEF MachineCrash, Forgotten, Idle
<1>3. FilesOk(files) /\ ceiling' = ceiling
  BY <1>1, <1>2 DEF DiskInv, ceiling
<1>4. PICK lost \in [list_files -> 0 .. max_file_lines] :
        /\ \A i \in list_files : \E kept \in Survives(files[i].lines) :
              Len(kept) + lost[i] = Len(files[i].lines)
        /\ files' = [i \in list_files |->
              [files[i] EXCEPT !.lines = SubSeq(files[i].lines, 1, Len(files[i].lines) - lost[i])]]
  BY DEF MachineCrash
<1>5. ASSUME NEW i \in DOMAIN files
      PROVE  LET old == files[i].lines
                 new == files'[i].lines
             IN  /\ files'[i] \in AuditFile /\ files'[i].mtime = files[i].mtime
                 /\ \A n \in DOMAIN new : n \in DOMAIN old /\ new[n] = old[n]
                 /\ \A n \in DOMAIN old : old[n].safe => n \in DOMAIN new
  <2> DEFINE old == files[i].lines
             len == Len(old)
             m == len - lost[i]
             safe == {0} \cup {n \in DOMAIN old : old[n].safe}
  <2>1. files[i] \in AuditFile /\ old \in Seq(AuditLine) /\ len \in Nat /\ DOMAIN old = 1 .. len
    BY <1>3 DEF FilesOk, AuditFile
  <2>2. lost[i] \in Nat
    BY <1>4, AuditAssumption DEF list_files
  <2>3. SetMax(safe) \in safe /\ \A n \in safe : n <= SetMax(safe)
    <3>1. safe \in SUBSET Nat /\ safe # {} /\ \A n \in safe : n <= len
      BY <2>1
    <3> HIDE DEF safe
    <3>2. QED  BY <2>1, <3>1, SetMaxIs
  <2>4. m \in SetMax(safe) .. len
    <3>1. PICK kept \in Survives(old) : Len(kept) + lost[i] = len
      BY <1>4 DEF list_files
    <3>2. PICK n \in SetMax(safe) .. len : kept = SubSeq(old, 1, n)
      BY <3>1 DEF Survives
    <3>3. SetMax(safe) \in 0 .. len
      BY <2>1, <2>3
    <3> HIDE DEF safe
    <3>4. Len(kept) = n
      BY <2>1, <3>2, <3>3
    <3>5. QED  BY <2>1, <2>2, <3>1, <3>2, <3>3, <3>4
  <2>5. m \in 0 .. len /\ \A n \in DOMAIN old : old[n].safe => n <= m
    <3>1. SetMax(safe) \in 0 .. len
      BY <2>1, <2>3
    <3>2. \A n \in DOMAIN old : old[n].safe => n \in safe
      OBVIOUS
    <3> HIDE DEF safe, m
    <3>3. QED  BY <2>1, <2>3, <2>4, <3>1, <3>2
  <2>6. files'[i] = [files[i] EXCEPT !.lines = SubSeq(old, 1, m)]
    BY <1>4 DEF list_files
  <2> HIDE DEF m, len
  <2>7. /\ SubSeq(old, 1, m) \in Seq(AuditLine) /\ DOMAIN SubSeq(old, 1, m) = 1 .. m
        /\ \A n \in 1 .. m : SubSeq(old, 1, m)[n] = old[n] /\ n \in 1 .. len
    BY <2>1, <2>5 DEF len
  <2>8. PICK new : new = SubSeq(old, 1, m)
    OBVIOUS
  <2>9. files'[i] \in AuditFile /\ files'[i].mtime = files[i].mtime /\ files'[i].lines = new
    BY <2>1, <2>6, <2>7, <2>8 DEF AuditFile
  <2>10. QED  BY <2>1, <2>5, <2>7, <2>8, <2>9
<1>6. DOMAIN files' = DOMAIN files
  BY <1>4 DEF list_files
<1>7. FilesOk(files')
  BY <1>3, <1>5, <1>6 DEF FilesOk
<1>8. Carried(files, files', InPlace, ceiling)
  <2>1. \A j \in DOMAIN files' : InPlace[j] = j /\ j \in Int
    BY <1>7, AuditAssumption DEF FilesOk, Indices, InPlace
  <2>2. QED  BY <1>5, <1>6, <2>1 DEF Carried, SameLine
<1>9. SafeStays(files, files')
  <2>1. ASSUME NEW id, OnDisk(files, id)  PROVE OnDisk(files', id)
    <3>1. PICK i \in DOMAIN files :
            \E n \in DOMAIN files[i].lines : files[i].lines[n].id = id /\ files[i].lines[n].safe
      BY <2>1 DEF OnDisk
    <3>2. PICK n \in DOMAIN files[i].lines : files[i].lines[n].id = id /\ files[i].lines[n].safe
      BY <3>1
    <3>3. n \in DOMAIN files'[i].lines /\ files'[i].lines[n] = files[i].lines[n]
      BY <1>5, <3>2
    <3>4. QED  BY <1>6, <3>2, <3>3 DEF OnDisk
  <2>2. QED  BY <2>1 DEF SafeStays
<1>10. TypeInv'
  BY <1>1, <1>2 DEF TypeInv, NoRecord
<1>11. DiskInv'
  <2>1. IdsBelow(files, Bound')
    BY <1>1, <1>2, IdsBelowMore DEF DiskInv, Bound, TypeInv
  <2>2. QED  BY <1>2, <1>3, <1>7, <1>8, <1>9, <2>1, DiskCarried
<1>12. QED  BY <1>2, <1>10, <1>11 DEF AuditInv, WriterInv, RotationInv

\* The latest the clock has been never falls.
LEMMA LinesOkLater ==
  ASSUME FilesOk(files), NEW ids, NEW a \in Nat, NEW b \in Nat, a <= b, LinesOk(files, ids, a)
  PROVE  LinesOk(files, ids, b)
<1>1. ASSUME NEW i \in DOMAIN files, NEW n \in DOMAIN files[i].lines
      PROVE  LineOk(files[i], files[i].lines[n], ids, b) /\ SeamOk(files[i].lines, n, ids)
  <2>1. files[i].lines[n] \in AuditLine
    BY DEF FilesOk, AuditFile
  <2>2. files[i].lines[n].at \in Nat
    BY <2>1 DEF AuditLine
  <2>3. LineOk(files[i], files[i].lines[n], ids, a) /\ SeamOk(files[i].lines, n, ids)
    BY DEF LinesOk
  <2>4. QED  BY <2>2, <2>3 DEF LineOk
<1>2. QED  BY <1>1 DEF LinesOk

\* The clock goes on, or back by the margin.
LEMMA ClockStep ==
  ASSUME AuditInv, Tick \/ SetBack
  PROVE  AuditInv'
<1>1. TypeInv /\ DiskInv /\ WriterInv /\ RotationInv
  BY DEF AuditInv
<1>2. UNCHANGED <<files, next_seq, writer, pc, todo, record, appended, acked, removed>>
  BY DEF Tick, SetBack
<1>3. clock' \in Nat /\ setback' \in {0, 1} /\ ceiling' \in Nat /\ ceiling <= ceiling' /\ ceiling \in Nat
  BY <1>1, AuditAssumption DEF Tick, SetBack, TypeInv, ceiling
<1>4. TypeInv'
  <2>1. record.at \in Nat
    BY <1>1 DEF TypeInv
  <2>2. record.at <= ceiling => record.at <= ceiling'
    BY <1>3, <2>1
  <2>3. QED  BY <1>1, <1>2, <1>3, <2>2 DEF TypeInv
<1>5. DiskInv'
  <2>1. FilesOk(files) /\ LinesOk(files, AckIds, ceiling)
    BY <1>1 DEF DiskInv
  <2>2. LinesOk(files, AckIds, ceiling')
    BY <1>3, <2>1, LinesOkLater
  <2>3. AckIds' = AckIds /\ Bound' = Bound
    BY <1>2 DEF AckIds, Bound
  <2>4. QED  BY <1>1, <1>2, <2>2, <2>3 DEF DiskInv
<1>6. WriterInv' /\ RotationInv'
  BY <1>1, <1>2 DEF WriterInv, RotationInv
<1>7. QED  BY <1>4, <1>5, <1>6 DEF AuditInv

\* The files found at the start are none, or one that another version wrote.
LEMMA AuditStarts == AuditInit => AuditInv
<1> SUFFICES ASSUME AuditInit  PROVE AuditInv
  OBVIOUS
<1>1. /\ next_seq = {} /\ writer = {} /\ pc = "idle" /\ todo = {} /\ record = NoRecord
      /\ clock = 0 /\ setback = 0 /\ appended = 0 /\ acked = {} /\ removed = {}
  BY DEF AuditInit
<1>2. TypeInv /\ WriterInv /\ RotationInv
  BY <1>1 DEF TypeInv, WriterInv, RotationInv, NoRecord
<1>3. AckIds = {} /\ ceiling = 0 /\ Bound = 1
  BY <1>1 DEF AckIds, ceiling, Bound
<1> DEFINE l == Line("foreign", 1, 0, 0, TRUE)
<1>4. /\ l \in AuditLine /\ l.id = 0 /\ l.at = 0
  BY DEF Line, AuditLine
<1> HIDE DEF l
<1>5. /\ DOMAIN files \subseteq {0}
      /\ \A i \in DOMAIN files : files[i] = [lines |-> <<l>>, mtime |-> 0]
  <2>1. files = <<>> \/ files = [i \in {0} |-> [lines |-> <<l>>, mtime |-> 0]]
    BY DEF AuditInit, l
  <2>2. CASE files = <<>>
    BY <2>2
  <2>3. CASE files = [i \in {0} |-> [lines |-> <<l>>, mtime |-> 0]]
    BY <2>3
  <2>4. QED  BY <2>1, <2>2, <2>3
<1>6. <<l>> \in Seq(AuditLine) /\ DOMAIN <<l>> = {1} /\ <<l>>[1] = l
  BY <1>4
<1>7. ASSUME NEW i \in DOMAIN files
      PROVE  /\ i = 0 /\ files[i] \in AuditFile /\ files[i].mtime = 0
             /\ DOMAIN files[i].lines = {1} /\ files[i].lines[1] = l
  <2>1. PICK f : f = <<l>>
    OBVIOUS
  <2>2. files[i] = [lines |-> f, mtime |-> 0] /\ f \in Seq(AuditLine) /\ DOMAIN f = {1} /\ f[1] = l
    BY <1>5, <1>6, <2>1
  <2>3. QED  BY <1>5, <2>2 DEF AuditFile
<1>8. FilesOk(files)
  BY <1>5, <1>7, AuditAssumption DEF FilesOk, Indices
<1>9. LinesOk(files, AckIds, ceiling)
  BY <1>3, <1>4, <1>7, AuditAssumption DEF LinesOk, LineOk, SeamOk
<1>10. PairsOk(files, AckIds)
  BY <1>7 DEF PairsOk, Older
<1>11. IdsBelow(files, Bound)
  BY <1>3, <1>4, <1>7 DEF IdsBelow
<1>12. DiskInv
  BY <1>1, <1>8, <1>9, <1>10, <1>11 DEF DiskInv, Kept
<1>13. QED  BY <1>2, <1>12 DEF AuditInv

\* The files, their lines and the numbers stay as the invariant says, whatever fails.
THEOREM AuditInvariant == AuditSpec => []AuditInv
<1>1. AuditInit => AuditInv
  BY AuditStarts
<1>2. AuditInv /\ [AuditNext]_avars => AuditInv'
  <2> SUFFICES ASSUME AuditInv, [AuditNext]_avars  PROVE AuditInv'
    OBVIOUS
  <2>1. ASSUME NEW sync \in BOOLEAN, AppendBegin(sync)  PROVE AuditInv'
    BY <2>1, AppendBeginStep
  <2>2. CASE AppendCannotOpen
    BY <2>2, AppendCannotOpenStep
  <2>3. CASE rotate
    BY <2>3, RotateStep
  <2>4. CASE RotateFails
    BY <2>4, RotateFailsStep
  <2>5. CASE Rotated
    BY <2>5, RotatedStep
  <2>6. CASE Write
    BY <2>6, WriteStep
  <2>7. CASE WriteFails
    BY <2>7, WriteFailsStep
  <2>8. CASE Killed
    BY <2>8, KilledStep
  <2>9. CASE MachineCrash
    BY <2>9, MachineCrashStep
  <2>10. CASE Tick \/ SetBack
    BY <2>10, ClockStep
  <2>11. CASE UNCHANGED avars
    <3>1. UNCHANGED <<files, next_seq, writer, pc, todo, record, clock, setback, appended,
                      acked, removed>>
      BY <2>11 DEF avars
    <3>2. AckIds' = AckIds /\ ceiling' = ceiling /\ Bound' = Bound
      BY <3>1 DEF AckIds, ceiling, Bound
    <3>3. QED  BY <3>1, <3>2 DEF AuditInv, TypeInv, DiskInv, WriterInv, RotationInv
  <2>12. QED
    BY <2>1, <2>2, <2>3, <2>4, <2>5, <2>6, <2>7, <2>8, <2>9, <2>10, <2>11 DEF AuditNext
<1>3. QED  BY <1>1, <1>2, PTL DEF AuditSpec

-----------------------------------------------------------------------------
(* The properties.                                                         *)

\* A record whose synced append was answered Ok can be read until a rotation deletes it,
\* older then than all that is kept: no torn line, half-done rotation or crash takes it.
THEOREM SyncedRecordsAreKept == AuditSpec => []SyncedKept
<1>1. AuditInv => SyncedKept
  <2> SUFFICES ASSUME AuditInv  PROVE SyncedKept
    OBVIOUS
  <2>1. FilesOk(files) /\ LinesOk(files, AckIds, ceiling) /\ Kept(files, acked, removed)
        /\ TypeInv
    BY DEF AuditInv, DiskInv
  <2> DEFINE readable == UNION {{l.id : l \in {m \in ToSet(ReadBack(i)) : Usable(m)}} : i \in list_files}
  <2>2. ASSUME NEW id, NEW i \in DOMAIN files, NEW n \in DOMAIN ReadBack(i),
               Usable(ReadBack(i)[n]), ReadBack(i)[n].id = id
        PROVE  id \in readable
    BY <2>2 DEF ToSet, list_files
  <2>3. \A id \in readable : \E i \in DOMAIN files : \E n \in DOMAIN files[i].lines :
            files[i].lines[n].id = id
    <3>1. ASSUME NEW id \in readable
          PROVE  \E i \in DOMAIN files : \E n \in DOMAIN files[i].lines : files[i].lines[n].id = id
      <4>1. PICK i \in DOMAIN files : \E l \in ToSet(ReadBack(i)) : id = l.id
        BY <3>1 DEF list_files
      <4>2. PICK n \in DOMAIN ReadBack(i) : id = ReadBack(i)[n].id
        BY <4>1 DEF ToSet
      <4>3. n \in DOMAIN files[i].lines
        BY <4>2 DEF ReadBack, read_lines
      <4>4. files[i] \in AuditFile
        BY <2>1 DEF FilesOk
      <4>5. QED  BY <4>2, <4>3, <4>4, ReadBackIs
    <3>2. QED  BY <3>1
  <2> HIDE DEF readable
  <2>4. ASSUME NEW r \in acked, r.sync
        PROVE  r.id \in readable \/ (r.id \in removed /\ \A id \in readable : r.id < id)
    <3>1. CASE OnDisk(files, r.id)
      <4>1. PICK i \in DOMAIN files : \E n \in DOMAIN files[i].lines : files[i].lines[n].id = r.id
        BY <3>1 DEF OnDisk
      <4>2. PICK n \in DOMAIN files[i].lines : files[i].lines[n].id = r.id
        BY <4>1
      <4>3. files[i].lines[n].id \in AckIds
        BY <4>2 DEF AckIds
      <4>4. n \in DOMAIN ReadBack(i) /\ ReadBack(i)[n] = files[i].lines[n] /\ Usable(ReadBack(i)[n])
        BY <2>1, <4>3, AckedReadsBack
      <4>5. QED  BY <2>2, <4>2, <4>4
    <3>2. CASE r.id \in removed /\ Outlived(files, r.id)
      BY <2>3, <3>2 DEF Outlived
    <3>3. QED  BY <2>1, <2>4, <3>1, <3>2 DEF Kept
  <2>5. QED  BY <2>4 DEF SyncedKept, readable
<1>2. QED  BY <1>1, AuditInvariant, PTL

\* Among the records answered Ok that the files still hold the sequence number rises from
\* each to every later one, restarts and rotations included.
THEOREM AckedNumbersRise == AuditSpec => []AckedSeqRises
<1>1. AuditInv => AckedSeqRises
  <2> SUFFICES ASSUME AuditInv, NEW p \in AckedPlaces, NEW q \in AckedPlaces, Older(p, q)
               PROVE  files[p[1]].lines[p[2]].seq < files[q[1]].lines[q[2]].seq
    BY DEF AckedSeqRises
  <2>1. FilesOk(files) /\ LinesOk(files, AckIds, ceiling) /\ PairsOk(files, AckIds)
    BY DEF AuditInv, DiskInv
  <2>2. \A x \in AckedPlaces : \E i \in DOMAIN files : \E n \in DOMAIN files[i].lines :
           x = <<i, n>> /\ files[i].lines[n].id \in AckIds
    BY DEF AckedPlaces, AckIds, list_files
  <2>3. PICK i \in DOMAIN files :
          \E n \in DOMAIN files[i].lines : p = <<i, n>> /\ files[i].lines[n].id \in AckIds
    BY <2>2
  <2>4. PICK n \in DOMAIN files[i].lines : p = <<i, n>> /\ files[i].lines[n].id \in AckIds
    BY <2>3
  <2>5. PICK j \in DOMAIN files :
          \E m \in DOMAIN files[j].lines : q = <<j, m>> /\ files[j].lines[m].id \in AckIds
    BY <2>2
  <2>6. PICK m \in DOMAIN files[j].lines : q = <<j, m>> /\ files[j].lines[m].id \in AckIds
    BY <2>5
  <2>7. Older(<<i, n>>, <<j, m>>)
    BY <2>4, <2>6
  <2>8. PairOk(files[i].lines[n], files[j].lines[m], AckIds)
    BY <2>1, <2>7 DEF PairsOk
  <2>9. files[j].lines[m].kind = "record"
    BY <2>1, <2>6 DEF LinesOk, LineOk
  <2>10. files[i].lines[n].seq < files[j].lines[m].seq
    BY <2>4, <2>8, <2>9 DEF PairOk
  <2>11. QED  BY <2>4, <2>6, <2>10
<1>2. QED  BY <1>1, AuditInvariant, PTL

\* since leaves out no record of its range: a file it does not open for its age holds
\* none, even when the clock was set back by the margin.
THEOREM SinceIsComplete == AuditSpec => []SinceComplete
<1>1. AuditInv => SinceComplete
  <2> SUFFICES ASSUME AuditInv  PROVE SinceComplete
    OBVIOUS
  <2>1. FilesOk(files) /\ LinesOk(files, AckIds, ceiling)
    BY DEF AuditInv, DiskInv
  <2> DEFINE usable(i) == {l \in ToSet(ReadBack(i)) : Usable(l)}
             readable == UNION {usable(i) : i \in list_files}
  <2>2. ASSUME NEW i \in DOMAIN files, NEW l \in usable(i)
        PROVE  l.at \in Nat /\ files[i].mtime \in Nat /\ l.at <= files[i].mtime + MARGIN
    <3>1. PICK n \in DOMAIN ReadBack(i) : l = ReadBack(i)[n]
      BY <2>2 DEF ToSet
    <3>2. n \in DOMAIN files[i].lines /\ files[i] \in AuditFile
      BY <2>1, <3>1 DEF ReadBack, read_lines, FilesOk
    <3>3. l.at = files[i].lines[n].at /\ files[i].lines[n] \in AuditLine /\ files[i].mtime \in Nat
      BY <3>1, <3>2, ReadBackIs DEF AuditFile
    <3>4. LineOk(files[i], files[i].lines[n], AckIds, ceiling)
      BY <2>1, <3>2 DEF LinesOk
    <3>5. QED  BY <3>3, <3>4 DEF LineOk, AuditLine
  <2>3. ASSUME NEW from \in 0 .. MaxClock + MARGIN + 1
        PROVE  since_locked(from) = {l.id : l \in {r \in readable : r.at >= from}}
    <3>1. from \in Nat
      BY AuditAssumption
    <3>2. ASSUME NEW i \in DOMAIN files, NEW l \in usable(i), l.at >= from
          PROVE  ~last_written_before(i, from)
      BY <2>2, <3>1, <3>2, AuditAssumption DEF last_written_before
    <3>3. ASSUME NEW id \in since_locked(from)
          PROVE  \E l \in readable : l.at >= from /\ id = l.id
      <4>1. PICK i \in list_files : \E l \in usable(i) : l.at >= from /\ id = l.id
        BY <3>3 DEF since_locked
      <4>2. QED  BY <4>1
    <3>4. ASSUME NEW l \in readable, l.at >= from  PROVE l.id \in since_locked(from)
      <4>1. PICK i \in list_files : l \in usable(i)
        BY <3>4
      <4>2. ~last_written_before(i, from)
        BY <3>2, <3>4, <4>1 DEF list_files
      <4>3. QED  BY <3>4, <4>1, <4>2 DEF since_locked
    <3> HIDE DEF readable
    <3>5. QED  BY <3>3, <3>4
  <2>4. QED  BY <2>3 DEF SinceComplete
<1>2. QED  BY <1>1, AuditInvariant, PTL
=============================================================================
