--------------------------- MODULE EchoLoopProofs ---------------------------
(***************************************************************************)
(* Proofs about EchoLoop for any packets, delay, queue and preamble: the   *)
(* chunks of an EchoSource are the line of samples that DelayLine promises,*)
(* its counter is their size, and a menu that left the loopback sends one  *)
(* packet of echo at most.                                                 *)
(*                                                                         *)
(* FlattenSeq is a recursive function, so what it does to a longer         *)
(* sequence takes induction: here over a set of lengths.                   *)
(***************************************************************************)
EXTENDS EchoLoop, SequenceTheorems, WellFoundedInduction, TLAPS

-----------------------------------------------------------------------------
(* Naturals *)

(* A set of naturals has a least one.                                       *)
LEMMA LeastNatural ==
  ASSUME NEW S \in SUBSET Nat, S # {}
  PROVE  \E n \in S : \A m \in S : n <= m
<1> DEFINE Less == {ss \in Nat \X Nat : ss[1] < ss[2]}
<1>1. IsWellFoundedOn(Less, Nat)
  BY NatLessThanWellFounded DEF OpToRel
<1>2. PICK n \in S : \A m \in S : ~ (<<m, n>> \in Less)
  <2> HIDE DEF Less
  <2> QED BY <1>1, WFMin
<1>3. \A m \in S : ~ (m < n)
  BY <1>2
<1> QED
  BY <1>3

(* Induction over a set of naturals.                                        *)
LEMMA AllNaturals ==
  ASSUME NEW S \in SUBSET Nat, 0 \in S, \A n \in S : n + 1 \in S
  PROVE  S = Nat
<1> SUFFICES ASSUME Nat \ S # {} PROVE FALSE
  OBVIOUS
<1>1. PICK n \in Nat \ S : \A m \in Nat \ S : n <= m
  BY LeastNatural
<1>2. n - 1 \in Nat /\ n - 1 \in S
  BY <1>1
<1> QED
  BY <1>1, <1>2

-----------------------------------------------------------------------------
(* The samples of chunks in a row *)

(* What FlattenSeq (SequencesExt) chooses of the first n chunks.            *)
Flattens(f, cs, n) ==
  f = [i \in 1..n |-> IF i = 1 THEN cs[i] ELSE f[i - 1] \o cs[i]]

(* There is a function that FlattenSeq could choose, ...                    *)
LEMMA CanFlatten ==
  ASSUME NEW cs, NEW m \in Nat
  PROVE  \E f : Flattens(f, cs, m)
<1> DEFINE S == {n \in Nat : \E f : Flattens(f, cs, n)}
<1>1. 0 \in S
  <2> DEFINE e == [i \in 1..0 |-> <<>>]
  <2>1. e = [i \in 1..0 |-> IF i = 1 THEN cs[i] ELSE e[i - 1] \o cs[i]]
    OBVIOUS
  <2> QED
    BY <2>1 DEF Flattens
<1>2. ASSUME NEW n \in S PROVE n + 1 \in S
  <2>1. PICK f : Flattens(f, cs, n)
    BY <1>2
  <2> DEFINE g == [i \in 1..n + 1 |-> IF i <= n THEN f[i]
                                     ELSE IF i = 1 THEN cs[i] ELSE f[i - 1] \o cs[i]]
  <2>2. n \in Nat /\ DOMAIN g = 1..n + 1
    BY <1>2
  <2>3. ASSUME NEW i \in 1..n + 1
        PROVE  g[i] = IF i = 1 THEN cs[i] ELSE g[i - 1] \o cs[i]
    <3>1. CASE i <= n
      <4>1. f[i] = IF i = 1 THEN cs[i] ELSE f[i - 1] \o cs[i]
        <5>1. i \in 1..n
          BY <2>2, <3>1
        <5> QED
          BY <2>1, <5>1 DEF Flattens
      <4>2. g[i] = f[i] /\ (i # 1 => g[i - 1] = f[i - 1])
        BY <2>2, <3>1
      <4> QED
        BY <4>1, <4>2
    <3>2. CASE i = n + 1
      <4>1. i # 1 => i - 1 \in 1..n + 1 /\ g[i - 1] = f[i - 1]
        BY <2>2, <3>2
      <4> QED
        BY <2>2, <3>2, <4>1
    <3> QED
      BY <2>2, <3>1, <3>2
  <2>4. g = [i \in 1..n + 1 |-> IF i = 1 THEN cs[i] ELSE g[i - 1] \o cs[i]]
    BY <2>2, <2>3
  <2> HIDE DEF g
  <2>5. Flattens(g, cs, n + 1)
    BY <2>4 DEF Flattens
  <2> QED
    BY <2>2, <2>5
<1>3. S = Nat
  <2> HIDE DEF S
  <2>1. S \in SUBSET Nat
    BY DEF S
  <2> QED
    BY <1>1, <1>2, <2>1, AllNaturals
<1> QED
  BY <1>3

(* ... any two of which agree, so that ...                                  *)
LEMMA FlattensOneWay ==
  ASSUME NEW cs, NEW ds, NEW f, NEW g, NEW m \in Nat, NEW n \in Nat, m <= n,
         Flattens(f, cs, m), Flattens(g, ds, n), \A i \in 1..m : cs[i] = ds[i]
  PROVE  \A i \in 1..m : f[i] = g[i]
<1> DEFINE S == {k \in Nat : k <= m => \A i \in 1..k : f[i] = g[i]}
<1>1. 0 \in S
  OBVIOUS
<1>2. ASSUME NEW k \in S PROVE k + 1 \in S
  <2> SUFFICES ASSUME k + 1 <= m PROVE f[k + 1] = g[k + 1]
    BY <1>2
  <2>1. k + 1 \in 1..m /\ k + 1 \in 1..n /\ (k # 0 => f[k] = g[k])
    BY <1>2
  <2>2. f[k + 1] = IF k + 1 = 1 THEN cs[k + 1] ELSE f[(k + 1) - 1] \o cs[k + 1]
    BY <2>1 DEF Flattens
  <2>3. g[k + 1] = IF k + 1 = 1 THEN ds[k + 1] ELSE g[(k + 1) - 1] \o ds[k + 1]
    BY <2>1 DEF Flattens
  <2> QED
    BY <2>1, <2>2, <2>3
<1>3. S = Nat
  <2> HIDE DEF S
  <2>1. S \in SUBSET Nat
    BY DEF S
  <2> QED
    BY <1>1, <1>2, <2>1, AllNaturals
<1> QED
  BY <1>3

(* ... FlattenSeq is any of them at its end.                                *)
LEMMA FlattenIs ==
  ASSUME NEW cs, Len(cs) \in Nat
  PROVE  \E f : /\ Flattens(f, cs, Len(cs))
                /\ FlattenSeq(cs) = IF Len(cs) = 0 THEN cs ELSE f[Len(cs)]
<1> DEFINE f == CHOOSE f : Flattens(f, cs, Len(cs))
<1>1. Flattens(f, cs, Len(cs))
  BY CanFlatten
<1>2. FlattenSeq(cs) = IF Len(cs) = 0 THEN cs ELSE f[Len(cs)]
  BY DEF FlattenSeq, Flattens
<1> QED
  BY <1>1, <1>2

(* One chunk more: its samples come last.                                   *)
LEMMA FlattenAppend ==
  ASSUME NEW S, NEW cs \in Seq(Seq(S)), NEW x \in Seq(S)
  PROVE  FlattenSeq(Append(cs, x)) = FlattenSeq(cs) \o x
<1> DEFINE ds == Append(cs, x)
<1>1. PICK n \in Nat : n = Len(cs)
  BY LenProperties
<1>2. /\ Len(ds) = n + 1
      /\ \A i \in 1..n : cs[i] = ds[i]
      /\ ds[n + 1] = x
  BY <1>1, AppendProperties
<1>3. PICK f : /\ Flattens(f, cs, n)
               /\ FlattenSeq(cs) = IF n = 0 THEN cs ELSE f[n]
  BY <1>1, FlattenIs
<1> HIDE DEF ds
<1>4. PICK k \in Nat : k = n + 1
  OBVIOUS
<1>5. PICK g : Flattens(g, ds, k) /\ FlattenSeq(ds) = g[k]
  <2>1. Len(ds) = k /\ k # 0
    BY <1>2, <1>4
  <2> QED
    BY <2>1, FlattenIs
<1>6. \A i \in 1..n : f[i] = g[i]
  <2>1. n <= k
    BY <1>4
  <2>2. Flattens(f, cs, n) /\ Flattens(g, ds, k) /\ \A i \in 1..n : cs[i] = ds[i]
    BY <1>2, <1>3, <1>5
  <2> QED
    BY ONLY n \in Nat, k \in Nat, <2>1, <2>2, FlattensOneWay
<1>7. g[k] = IF k = 1 THEN ds[k] ELSE g[k - 1] \o ds[k]
  <2>1. k \in 1..k
    BY <1>4
  <2> QED
    BY <1>5, <2>1 DEF Flattens
<1>8. CASE n = 0
  <2>1. cs = <<>> /\ <<>> \o x = x
    BY <1>1, <1>8, EmptySeq, ConcatEmptySeq
  <2>2. g[k] = x
    BY <1>2, <1>4, <1>7, <1>8
  <2> QED
    BY <1>3, <1>5, <1>8, <2>1, <2>2 DEF ds
<1>9. CASE n # 0
  <2>1. g[k] = g[n] \o x /\ f[n] = g[n]
    BY <1>2, <1>4, <1>6, <1>7, <1>9
  <2> QED
    BY <1>3, <1>5, <1>9, <2>1 DEF ds
<1> QED
  BY <1>8, <1>9

(* The samples in a row are a sequence of samples.                          *)
LEMMA FlattenTyped ==
  ASSUME NEW S, NEW cs \in Seq(Seq(S))
  PROVE  FlattenSeq(cs) \in Seq(S)
<1> DEFINE N == {n \in Nat : \A ds \in Seq(Seq(S)) : Len(ds) = n => FlattenSeq(ds) \in Seq(S)}
<1>1. 0 \in N
  <2> SUFFICES ASSUME NEW ds \in Seq(Seq(S)), Len(ds) = 0 PROVE FlattenSeq(ds) \in Seq(S)
    OBVIOUS
  <2>1. ds = <<>>
    BY EmptySeq
  <2> QED
    BY <2>1 DEF FlattenSeq
<1>2. ASSUME NEW n \in N PROVE n + 1 \in N
  <2> SUFFICES ASSUME NEW ds \in Seq(Seq(S)), Len(ds) = n + 1 PROVE FlattenSeq(ds) \in Seq(S)
    BY <1>2
  <2>1. n \in Nat /\ ds # <<>>
    BY <1>2, EmptySeq
  <2>2. PICK es \in Seq(Seq(S)), x \in Seq(S) : ds = Append(es, x)
    BY <2>1, SequenceEmptyOrAppend
  <2>3. Len(es) = n
    BY <2>1, <2>2, AppendProperties, LenProperties
  <2>4. FlattenSeq(es) \in Seq(S)
    BY <1>2, <2>3
  <2> QED
    BY <2>2, <2>4, FlattenAppend, ConcatProperties
<1>3. N = Nat
  <2> HIDE DEF N
  <2>1. N \in SUBSET Nat
    BY DEF N
  <2> QED
    BY <1>1, <1>2, <2>1, AllNaturals
<1> QED
  BY <1>3, LenProperties

(* More chunks: their samples come last.                                    *)
LEMMA FlattenConcat ==
  ASSUME NEW S, NEW cs \in Seq(Seq(S)), NEW es \in Seq(Seq(S))
  PROVE  FlattenSeq(cs \o es) = FlattenSeq(cs) \o FlattenSeq(es)
<1> DEFINE N == {n \in Nat : \A ds \in Seq(Seq(S)) : Len(ds) = n =>
                   FlattenSeq(cs \o ds) = FlattenSeq(cs) \o FlattenSeq(ds)}
<1>1. 0 \in N
  <2> SUFFICES ASSUME NEW ds \in Seq(Seq(S)), Len(ds) = 0
               PROVE  FlattenSeq(cs \o ds) = FlattenSeq(cs) \o FlattenSeq(ds)
    OBVIOUS
  <2>1. ds = <<>> /\ FlattenSeq(ds) = <<>>
    BY EmptySeq DEF FlattenSeq
  <2> QED
    BY <2>1, FlattenTyped, ConcatEmptySeq
<1>2. ASSUME NEW n \in N PROVE n + 1 \in N
  <2> SUFFICES ASSUME NEW ds \in Seq(Seq(S)), Len(ds) = n + 1
               PROVE  FlattenSeq(cs \o ds) = FlattenSeq(cs) \o FlattenSeq(ds)
    BY <1>2
  <2>1. n \in Nat /\ ds # <<>>
    BY <1>2, EmptySeq
  <2>2. PICK hs \in Seq(Seq(S)), x \in Seq(S) : ds = Append(hs, x)
    BY <2>1, SequenceEmptyOrAppend
  <2>3. Len(hs) = n
    BY <2>1, <2>2, AppendProperties, LenProperties
  <2>4. FlattenSeq(cs \o hs) = FlattenSeq(cs) \o FlattenSeq(hs)
    BY <1>2, <2>3
  <2>5. cs \o ds = Append(cs \o hs, x)
    <3>1. ds = hs \o <<x>> /\ <<x>> \in Seq(Seq(S)) /\ cs \o hs \in Seq(Seq(S))
      BY <2>2, AppendIsConcat, ConcatProperties
    <3>2. cs \o ds = (cs \o hs) \o <<x>>
      BY <3>1, ConcatAssociative
    <3> QED
      BY <3>1, <3>2, AppendIsConcat
  <2>6. FlattenSeq(cs \o ds) = (FlattenSeq(cs) \o FlattenSeq(hs)) \o x
    <3>1. cs \o hs \in Seq(Seq(S))
      BY ConcatProperties
    <3>2. FlattenSeq(Append(cs \o hs, x)) = FlattenSeq(cs \o hs) \o x
      BY <3>1, FlattenAppend
    <3> QED
      BY <2>4, <2>5, <3>2
  <2>7. FlattenSeq(ds) = FlattenSeq(hs) \o x
    BY <2>2, FlattenAppend
  <2> QED
    <3>1. FlattenSeq(cs) \in Seq(S) /\ FlattenSeq(hs) \in Seq(S)
      BY FlattenTyped
    <3>2. (FlattenSeq(cs) \o FlattenSeq(hs)) \o x = FlattenSeq(cs) \o (FlattenSeq(hs) \o x)
      BY <3>1, ConcatAssociative
    <3> QED
      BY <2>6, <2>7, <3>2
<1>3. N = Nat
  <2> HIDE DEF N
  <2>1. N \in SUBSET Nat
    BY DEF N
  <2> QED
    BY <1>1, <1>2, <2>1, AllNaturals
<1> QED
  BY <1>3, LenProperties

-----------------------------------------------------------------------------
(* What LessFirst leaves *)

(* A sequence less its first k elements.                                    *)
Cut(q, k) == SubSeq(q, k + 1, Len(q))

(* Cutting a line inside one of its chunks cuts that chunk.                 *)
LEMMA DropFromJoined ==
  ASSUME NEW S, NEW a \in Seq(S), NEW x \in Seq(S), NEW b \in Seq(S),
         NEW k \in 0..Len(x)
  PROVE  /\ Cut(x, k) \in Seq(S)
         /\ Cut((a \o x) \o b, Len(a) + k) = Cut(x, k) \o b
<1> DEFINE ax  == a \o x
           all == ax \o b
<1>0. PICK la \in Nat, lx \in Nat, lb \in Nat, n \in Nat :
        la = Len(a) /\ lx = Len(x) /\ lb = Len(b) /\ n = la + lx + lb
  BY LenProperties
<1>1. PICK p \in Nat : p = la + k + 1
  BY <1>0
<1>2. /\ ax \in Seq(S) /\ Len(ax) = la + lx
      /\ \A i \in 1..la + lx : ax[i] = IF i <= la THEN a[i] ELSE x[i - la]
  BY <1>0, ConcatProperties
<1> HIDE DEF ax
<1>3. /\ all \in Seq(S) /\ Len(all) = n
      /\ \A i \in 1..n : all[i] = IF i <= la + lx THEN ax[i] ELSE b[i - (la + lx)]
  <2>1. /\ all \in Seq(S) /\ Len(all) = Len(ax) + Len(b)
        /\ \A i \in 1..Len(ax) + Len(b) : all[i] = IF i <= Len(ax) THEN ax[i] ELSE b[i - Len(ax)]
    BY <1>2, ConcatProperties
  <2>2. Len(ax) + Len(b) = n
    BY <1>0, <1>2
  <2> HIDE DEF all
  <2> QED
    BY <1>2, <2>1, <2>2
<1> HIDE DEF all
<1>4. PICK r : r = SubSeq(x, k + 1, Len(x))
  OBVIOUS
<1>5. /\ r \in Seq(S) /\ Len(r) = lx - k
      /\ \A i \in 1..lx - k : r[i] = x[k + i]
  <2>1. \A i \in k + 1..lx : x[i] \in S
    BY <1>0, ElementOfSeq
  <2>2. /\ SubSeq(x, k + 1, lx) \in Seq(S)
        /\ Len(SubSeq(x, k + 1, lx)) = (IF k + 1 <= lx THEN lx - (k + 1) + 1 ELSE 0)
        /\ \A i \in 1..lx - (k + 1) + 1 : SubSeq(x, k + 1, lx)[i] = x[(k + 1) + i - 1]
    BY <1>0, <2>1, SubSeqProperties
  <2>3. /\ r \in Seq(S) /\ Len(r) = (IF k + 1 <= lx THEN lx - (k + 1) + 1 ELSE 0)
        /\ \A i \in 1..lx - (k + 1) + 1 : r[i] = x[(k + 1) + i - 1]
    BY <1>0, <1>4, <2>2
  <2> QED
    BY ONLY <1>0, <2>3, k \in 0..Len(x)
<1>6. PICK d : d = SubSeq(all, p, n)
  OBVIOUS
<1>7. /\ d \in Seq(S) /\ Len(d) = n - p + 1
      /\ \A i \in 1..n - p + 1 : d[i] = all[p + i - 1]
  <2>1. \A i \in p..n : all[i] \in S
    BY <1>0, <1>1, <1>3, ElementOfSeq
  <2>2. /\ SubSeq(all, p, n) \in Seq(S)
        /\ Len(SubSeq(all, p, n)) = (IF p <= n THEN n - p + 1 ELSE 0)
        /\ \A i \in 1..n - p + 1 : SubSeq(all, p, n)[i] = all[p + i - 1]
    BY <2>1, SubSeqProperties
  <2>3. p <= n + 1
    BY <1>0, <1>1
  <2> QED
    BY <1>6, <2>2, <2>3
<1>8. PICK e : e = r \o b
  OBVIOUS
<1>9. /\ e \in Seq(S) /\ Len(e) = lx - k + lb
      /\ \A i \in 1..lx - k + lb : e[i] = IF i <= lx - k THEN r[i] ELSE b[i - (lx - k)]
  <2>1. /\ e \in Seq(S) /\ Len(e) = Len(r) + Len(b)
        /\ \A i \in 1..Len(r) + Len(b) : e[i] = IF i <= Len(r) THEN r[i] ELSE b[i - Len(r)]
    BY <1>5, <1>8, ConcatProperties
  <2>2. Len(r) = lx - k /\ Len(b) = lb
    BY <1>0, <1>5
  <2> QED
    BY <2>1, <2>2
<1>10. n - p + 1 = lx - k + lb
  BY <1>0, <1>1
<1>11. ASSUME NEW i \in 1..lx - k + lb PROVE d[i] = e[i]
  <2>0. PICK q \in Nat : q = p + i - 1
    BY <1>1
  <2>1. d[i] = all[q] /\ q \in 1..n
    <3>1. q \in 1..n
      BY <1>0, <1>1, <2>0
    <3>2. i \in 1..n - p + 1
      BY <1>10
    <3> QED
      BY <1>7, <2>0, <3>1, <3>2
  <2>2. CASE i <= lx - k
    <3>1. all[q] = ax[q]
      <4>1. q <= la + lx
        BY <1>0, <1>1, <2>0, <2>2
      <4> QED
        BY <1>3, <2>1, <4>1
    <3>2. q \in 1..la + lx /\ ~(q <= la) /\ q - la = k + i
      BY <1>0, <1>1, <2>0, <2>1, <2>2
    <3>3. ax[q] = x[k + i]
      BY <1>2, <3>2
    <3>4. i \in 1..lx - k
      BY <1>0, <2>2
    <3>5. e[i] = r[i] /\ r[i] = x[k + i]
      BY <1>5, <1>9, <2>2, <3>4
    <3> QED
      BY <2>1, <3>1, <3>3, <3>5
  <2>3. CASE ~(i <= lx - k)
    <3>1. ~(q <= la + lx) /\ q - (la + lx) = i - (lx - k)
      BY <1>0, <1>1, <2>0, <2>1, <2>3
    <3>2. all[q] = b[i - (lx - k)]
      BY <1>3, <2>1, <3>1
    <3>3. e[i] = b[i - (lx - k)]
      BY <1>9, <2>3
    <3> QED
      BY <2>1, <3>2, <3>3
  <2> QED
    BY <2>2, <2>3
<1>12. d = e
  BY <1>7, <1>9, <1>10, <1>11, SeqEqual
<1> QED
  BY <1>0, <1>1, <1>3, <1>4, <1>5, <1>6, <1>8, <1>12 DEF all, ax, Cut

(* LessFirst, which pops whole chunks and cuts the next (EchoSource.push    *)
(* and read), takes the first n samples off the line.                       *)
LEMMA LessFirstDrops ==
  ASSUME NEW S, NEW cs \in Seq(Seq(S)), NEW n \in 0..Size(cs)
  PROVE  /\ LessFirst(cs, n) \in Seq(Seq(S))
         /\ Line(LessFirst(cs, n)) = Cut(Line(cs), n)
<1> DEFINE upTo(j) == SubSeq(cs, 1, j)
           from(j) == SubSeq(cs, j + 1, Len(cs))
<1>1. PICK m \in Nat : m = Len(cs)
  BY LenProperties
<1>2. ASSUME NEW j \in 0..m
      PROVE  /\ upTo(j) \in Seq(Seq(S)) /\ from(j) \in Seq(Seq(S))
             /\ Line(upTo(j)) \in Seq(S) /\ Line(from(j)) \in Seq(S)
             /\ Size(upTo(j)) \in Nat
             /\ Line(cs) = Line(upTo(j)) \o Line(from(j))
  <2>1. \A i \in 1..m : cs[i] \in Seq(S)
    BY <1>1, ElementOfSeq
  <2>2. upTo(j) \in Seq(Seq(S))
    BY <1>1, <2>1, SubSeqProperties
  <2>3. from(j) \in Seq(Seq(S))
    BY <1>1, <2>1, SubSeqProperties
  <2>4. cs = upTo(j) \o from(j)
    <3>1. SubSeq(cs, 1, j) \o SubSeq(cs, j + 1, m) = SubSeq(cs, 1, m)
      <4>1. 1 \in 1..m + 1 /\ j \in 1 - 1..m /\ m \in j..m
        BY <1>1
      <4> QED
        BY <1>1, <4>1, ConcatAdjacentSubSeq
    <3> QED
      BY <1>1, <3>1, SubSeqFull
  <2> HIDE DEF upTo, from
  <2>5. Line(upTo(j)) \in Seq(S) /\ Line(from(j)) \in Seq(S)
    BY <2>2, <2>3, FlattenTyped DEF Line
  <2>6. Size(upTo(j)) \in Nat
    BY <2>5, LenProperties DEF Size
  <2>7. Line(cs) = Line(upTo(j)) \o Line(from(j))
    BY <2>2, <2>3, <2>4, FlattenConcat DEF Line
  <2> QED
    BY <2>2, <2>3, <2>5, <2>6, <2>7
<1>3. Line(cs) \in Seq(S) /\ Size(cs) \in Nat
  BY FlattenTyped, LenProperties DEF Line, Size
<1>4. Size(upTo(0)) = 0 /\ Size(upTo(m)) = Size(cs)
  <2>1. upTo(0) = <<>> /\ upTo(m) = cs
    BY <1>1, SubSeqEmpty, SubSeqFull
  <2>2. FlattenSeq(<<>>) = <<>>
    BY DEF FlattenSeq
  <2>3. Len(<<>>) = 0
    BY EmptySeq
  <2> HIDE DEF upTo
  <2> QED
    BY <2>1, <2>2, <2>3 DEF Size, Line
<1>5. ASSUME NEW j \in 0..m, j < m
      PROVE  /\ cs[j + 1] \in Seq(S) /\ from(j + 1) \in Seq(Seq(S))
             /\ Line(from(j + 1)) \in Seq(S)
             /\ Line(cs) = (Line(upTo(j)) \o cs[j + 1]) \o Line(from(j + 1))
             /\ Size(upTo(j + 1)) = Size(upTo(j)) + Len(cs[j + 1])
  <2>1. j + 1 \in 0..m /\ j + 1 \in 1..m /\ cs[j + 1] \in Seq(S)
    <3>1. j + 1 \in 0..m /\ j + 1 \in 1..m
      BY <1>5
    <3> QED
      BY <1>1, <3>1, ElementOfSeq
  <2>2. upTo(j + 1) = Append(upTo(j), cs[j + 1])
    <3>1. SubSeq(cs, 1, j + 1) = SubSeq(cs, 1, j + 1 - 1) \o <<cs[j + 1]>>
      BY <1>1, <2>1, SubSeqRecursiveSecond
    <3>2. upTo(j + 1) = upTo(j) \o <<cs[j + 1]>>
      BY <3>1
    <3> HIDE DEF upTo
    <3> QED
      BY <1>2, <2>1, <3>2, AppendIsConcat
  <2> HIDE DEF upTo, from
  <2>3. Line(upTo(j + 1)) = Line(upTo(j)) \o cs[j + 1]
    BY <1>2, <2>1, <2>2, FlattenAppend DEF Line
  <2>4. Size(upTo(j + 1)) = Size(upTo(j)) + Len(cs[j + 1])
    BY <1>2, <2>1, <2>3, ConcatProperties DEF Size
  <2> QED
    BY <1>2, <2>1, <2>3, <2>4
<1> HIDE DEF upTo, from
<1> DEFINE Fits(i) == Size(upTo(i)) <= n /\ (i < m => Size(upTo(i + 1)) > n)
<1>6. \E i \in 0..m : Fits(i)
  <2> DEFINE T == {i \in 0..m : i < m => Size(upTo(i + 1)) > n}
  <2>1. T \in SUBSET Nat /\ m \in T
    OBVIOUS
  <2>2. PICK i \in T : \A k \in T : i <= k
    <3> HIDE DEF T
    <3> QED
      BY <2>1, LeastNatural
  <2>3. CASE i = 0
    BY <1>3, <1>4, <2>2, <2>3
  <2>4. CASE i # 0
    <3>1. i - 1 \in 0..m /\ i - 1 \notin T /\ i - 1 + 1 = i
      BY <2>2, <2>4
    <3>2. Size(upTo(i)) <= n
      BY <1>2, <1>3, <2>2, <3>1
    <3> QED
      BY <2>2, <3>2
  <2> QED
    BY <2>3, <2>4
<1>7. PICK j \in 0..m :
        /\ Fits(j)
        /\ LessFirst(cs, n) =
             IF j = m THEN <<>>
             ELSE <<SubSeq(cs[j + 1], n - Size(upTo(j)) + 1, Len(cs[j + 1]))>> \o from(j + 1)
  <2> DEFINE j == CHOOSE i \in 0..m : Fits(i)
  <2>1. j \in 0..m /\ Fits(j)
    BY <1>6
  <2>2. LessFirst(cs, n) =
             IF j = m THEN <<>>
             ELSE <<SubSeq(cs[j + 1], n - Size(upTo(j)) + 1, Len(cs[j + 1]))>> \o from(j + 1)
    <3>1. j + 1 + 1 = j + 2
      BY <2>1
    <3> QED
      BY <1>1, <3>1 DEF LessFirst, upTo, from
  <2> HIDE DEF j
  <2> QED
    BY <2>1, <2>2
<1>8. CASE j = m
  <2>1. LessFirst(cs, n) = <<>> /\ n = Size(cs) /\ Line(<<>>) = <<>>
    BY <1>3, <1>4, <1>7, <1>8 DEF Line, FlattenSeq
  <2>2. Cut(Line(cs), n) = <<>>
    BY <1>3, <2>1, SubSeqEmpty DEF Cut, Size
  <2>3. <<>> \in Seq(Seq(S))
    BY EmptySeq
  <2> QED
    BY <2>1, <2>2, <2>3
<1>9. CASE j # m
  <2> DEFINE a == Line(upTo(j))
             x == cs[j + 1]
             b == Line(from(j + 1))
             k == n - Size(upTo(j))
             r == Cut(x, k)
  <2>1. /\ j < m /\ a \in Seq(S) /\ Len(a) \in Nat /\ Len(a) = Size(upTo(j))
        /\ x \in Seq(S) /\ b \in Seq(S) /\ from(j + 1) \in Seq(Seq(S))
        /\ Line(cs) = (a \o x) \o b
        /\ Size(upTo(j + 1)) = Len(a) + Len(x)
    <3>1. j < m
      BY <1>1, <1>9
    <3>2. a \in Seq(S) /\ Len(a) \in Nat /\ Len(a) = Size(upTo(j))
      BY <1>2 DEF Size
    <3> QED
      BY <1>5, <3>1, <3>2
  <2>2. k \in 0..Len(x) /\ n = Len(a) + k /\ Len(x) \in Nat
    <3>1. Size(upTo(j)) <= n /\ Size(upTo(j + 1)) > n
      BY <1>7, <2>1
    <3>2. Len(x) \in Nat /\ n \in Nat
      BY <1>3, <2>1, LenProperties
    <3> HIDE DEF a, x
    <3> QED
      BY <2>1, <3>1, <3>2
  <2>3. Size(cs) = Len(a) + Len(x) + Len(b) /\ Size(cs) \in Nat
    <3> HIDE DEF a, x, b
    <3>1. a \o x \in Seq(S) /\ Len(a \o x) = Len(a) + Len(x)
      BY <2>1, ConcatProperties
    <3>2. Len((a \o x) \o b) = Len(a \o x) + Len(b)
      BY <2>1, <3>1, ConcatProperties
    <3> QED
      BY <1>3, <2>1, <3>1, <3>2 DEF Size
  <2>4. LessFirst(cs, n) = <<r>> \o from(j + 1)
    BY <1>7, <1>9 DEF Cut
  <2> HIDE DEF a, x, b, k
  <2>5. r \in Seq(S) /\ Cut(Line(cs), n) = r \o b
    <3>1. Cut(x, k) \in Seq(S) /\ Cut((a \o x) \o b, Len(a) + k) = Cut(x, k) \o b
      <4>1. PICK la \in Seq(S), lx \in Seq(S), lb \in Seq(S) : la = a /\ lx = x /\ lb = b
        BY <2>1
      <4>2. PICK lk \in 0..Len(lx) : lk = k
        BY <2>2, <4>1
      <4>3. Cut(lx, lk) \in Seq(S) /\ Cut((la \o lx) \o lb, Len(la) + lk) = Cut(lx, lk) \o lb
        BY DropFromJoined
      <4> QED
        BY <4>1, <4>2, <4>3
    <3> QED
      BY <2>1, <2>2, <3>1
  <2> HIDE DEF r
  <2>6. <<r>> \in Seq(Seq(S)) /\ Line(<<r>>) = r
    <3>1. <<>> \in Seq(Seq(S)) /\ <<r>> = Append(<<>>, r) /\ <<r>> \in Seq(Seq(S))
      BY <2>5
    <3>2. FlattenSeq(<<r>>) = FlattenSeq(<<>>) \o r
      BY <2>5, <3>1, FlattenAppend
    <3>3. FlattenSeq(<<>>) = <<>>
      BY DEF FlattenSeq
    <3> QED
      BY <2>5, <3>1, <3>2, <3>3, ConcatEmptySeq DEF Line
  <2>7. Line(LessFirst(cs, n)) = r \o b /\ LessFirst(cs, n) \in Seq(Seq(S))
    BY <2>1, <2>4, <2>6, FlattenConcat, ConcatProperties DEF Line, b
  <2> QED
    BY <2>5, <2>7
<1> QED
  BY <1>8, <1>9

-----------------------------------------------------------------------------
(* The inductive invariant *)

Typed ==
  /\ heard \in Nat /\ heard <= MaxHeard
  /\ chunks \in Seq(Seq(Nat)) /\ queued \in Nat
  /\ toned \in Nat /\ toned <= Preamble

(* The receiver holds the samples it heard last, and pushed none of them.   *)
HoldsLast ==
  \E k \in Nat : /\ k <= heard /\ inHand = [i \in 1..k |-> heard - k + i]
                 /\ pushed \in Nat /\ pushed <= heard - k

(* An echo packet after the loopback was left was picked before.            *)
StrayWasPicked ==
  /\ strays \in {0, 1}
  /\ source # "echo" /\ strays = 1 => picked # "echo"

IInv == Typed /\ QueuedCounts /\ HoldsLast /\ StrayWasPicked

-----------------------------------------------------------------------------
(* EchoSource *)

(* What a line keeps of its length when it is cut.                          *)
LEMMA CutTyped ==
  ASSUME NEW S, NEW q \in Seq(S), NEW k \in 0..Len(q)
  PROVE  Cut(q, k) \in Seq(S) /\ Len(Cut(q, k)) = Len(q) - k
<1>1. PICK n \in Nat : n = Len(q)
  BY LenProperties
<1>2. \A i \in k + 1..n : q[i] \in S
  BY <1>1, ElementOfSeq
<1>3. /\ SubSeq(q, k + 1, n) \in Seq(S)
      /\ Len(SubSeq(q, k + 1, n)) = IF k + 1 <= n THEN n - (k + 1) + 1 ELSE 0
  BY <1>1, <1>2, SubSeqProperties
<1> QED
  BY <1>1, <1>3 DEF Cut

(* The size of a queue of chunks is a natural.                              *)
LEMMA SizeTyped ==
  ASSUME NEW cs \in Seq(Seq(Nat))
  PROVE  Line(cs) \in Seq(Nat) /\ Len(Line(cs)) = Size(cs) /\ Size(cs) \in Nat
BY FlattenTyped, LenProperties DEF Line, Size

(* EchoSource.push puts the samples behind the others and drops what is     *)
(* over the cap from the front.                                             *)
LEMMA PushIs ==
  ASSUME EchoAssumption, chunks \in Seq(Seq(Nat)), queued = Size(chunks),
         NEW pcm \in Seq(Nat), Push(pcm)
  PROVE  \E d \in Nat :
           /\ d = IF queued + Len(pcm) > MostQueued THEN queued + Len(pcm) - MostQueued ELSE 0
           /\ chunks' \in Seq(Seq(Nat)) /\ Line(chunks') = Cut(Line(chunks) \o pcm, d)
           /\ queued' = queued + Len(pcm) - d /\ queued' = Size(chunks')
           /\ queued' \in Nat /\ queued' <= MostQueued
<1>1. MostQueued \in Nat
  BY DEF EchoAssumption, MostQueued
<1>2. Line(chunks) \in Seq(Nat) /\ Len(Line(chunks)) = queued /\ queued \in Nat /\ Len(pcm) \in Nat
  BY SizeTyped, LenProperties
<1>3. PICK longer : longer = Append(chunks, pcm)
  OBVIOUS
<1>4. longer \in Seq(Seq(Nat)) /\ Line(longer) = Line(chunks) \o pcm
  BY <1>3, FlattenAppend, AppendProperties DEF Line
<1>5. PICK t \in Nat : t = queued + Len(pcm)
  BY <1>2
<1>6. Size(longer) = t
  BY <1>2, <1>4, <1>5, ConcatProperties DEF Size
<1>7. PICK d \in Nat : d = IF t > MostQueued THEN t - MostQueued ELSE 0
  <2>1. CASE t > MostQueued
    <3>1. t - MostQueued \in Nat
      BY <1>1, <2>1
    <3> QED
      BY <2>1, <3>1
  <2>2. CASE ~(t > MostQueued)
    BY <2>2
  <2> QED
    BY <2>1, <2>2
<1>8. chunks' = (IF d > 0 THEN LessFirst(longer, d) ELSE longer) /\ queued' = t - d
  BY <1>3, <1>5, <1>7 DEF Push
<1>9. d \in 0..t /\ t - d \in Nat /\ t - d <= MostQueued
  BY <1>1, <1>7
<1>10. chunks' \in Seq(Seq(Nat)) /\ Line(chunks') = Cut(Line(longer), d)
  <2>1. CASE d > 0
    BY <1>4, <1>6, <1>8, <1>9, <2>1, LessFirstDrops
  <2>2. CASE d = 0
    <3>1. Line(longer) \in Seq(Nat)
      BY <1>4, SizeTyped
    <3>2. Cut(Line(longer), 0) = Line(longer)
      BY <3>1, SubSeqFull DEF Cut
    <3>3. chunks' = longer
      BY <1>8, <2>2
    <3> QED
      BY <1>4, <2>2, <3>2, <3>3
  <2> QED
    BY <1>9, <2>1, <2>2
<1>11. Size(chunks') = t - d
  <2>1. Line(longer) \in Seq(Nat) /\ Len(Line(longer)) = t
    BY <1>4, <1>6, SizeTyped
  <2> QED
    BY <1>9, <1>10, <2>1, CutTyped DEF Size
<1>12. Line(chunks') = Cut(Line(chunks) \o pcm, d)
  BY <1>4, <1>10
<1>13. /\ d = IF queued + Len(pcm) > MostQueued THEN queued + Len(pcm) - MostQueued ELSE 0
       /\ queued' = queued + Len(pcm) - d
  BY ONLY <1>1, <1>2, <1>5, <1>7, <1>8
<1>14. queued' = Size(chunks') /\ queued' \in Nat /\ queued' <= MostQueued
  BY <1>8, <1>9, <1>11
<1>15. WITNESS d \in Nat
<1> QED
  BY ONLY <1>10, <1>12, <1>13, <1>14

(* EchoSource.read takes the oldest samples, and none without leaving the   *)
(* delay.                                                                   *)
LEMMA ReadIs ==
  ASSUME EchoAssumption, chunks \in Seq(Seq(Nat)), queued = Size(chunks), queued <= MostQueued,
         NEW n \in Nat, ReadEcho(n)
  PROVE  \E d \in 0..queued :
           /\ d = 0 \/ d + Delay <= queued
           /\ chunks' \in Seq(Seq(Nat)) /\ Line(chunks') = Cut(Line(chunks), d)
           /\ packet' = SubSeq(Line(chunks), 1, d)
           /\ queued' = Size(chunks') /\ queued' \in Nat /\ queued' <= MostQueued
<1>1. MostQueued \in Nat /\ Delay \in Nat
  BY DEF EchoAssumption, MostQueued
<1>2. Line(chunks) \in Seq(Nat) /\ Len(Line(chunks)) = queued /\ queued \in Nat
  BY SizeTyped
<1>3. PICK d \in 0..queued : d = Released(n) /\ (d = 0 \/ d + Delay <= queued)
  <2>1. Released(n) \in 0..queued /\ (Released(n) = 0 \/ Released(n) + Delay <= queued)
    BY <1>1, <1>2 DEF Released, Lesser
  <2> QED
    BY <2>1
<1>4. /\ chunks' = LessFirst(chunks, d) /\ queued' = queued - d
      /\ packet' = SubSeq(Line(chunks), 1, d)
  BY <1>3 DEF ReadEcho, CountLess
<1>5. chunks' \in Seq(Seq(Nat)) /\ Line(chunks') = Cut(Line(chunks), d)
  BY <1>2, <1>4, LessFirstDrops
<1>6. Size(chunks') = queued - d
  BY <1>2, <1>5, CutTyped DEF Size
<1>7. queued' \in Nat /\ queued' <= MostQueued
  BY <1>1, <1>2, <1>4
<1>8. WITNESS d \in 0..queued
<1> QED
  BY <1>3, <1>4, <1>5, <1>6, <1>7

-----------------------------------------------------------------------------
(* The steps *)

(* What the receiver has decoded is newer than what it pushed.              *)
LEMMA HandIs ==
  ASSUME heard \in Nat, HoldsLast, inHand # <<>>
  PROVE  \E k \in Nat \ {0} :
           /\ k <= heard /\ pushed \in Nat /\ pushed <= heard - k
           /\ inHand = [i \in 1..k |-> heard - k + i] /\ inHand \in Seq(Nat)
           /\ Len(inHand) = k /\ Last(inHand) = heard
<1>1. PICK k \in Nat : /\ k <= heard /\ inHand = [i \in 1..k |-> heard - k + i]
                       /\ pushed \in Nat /\ pushed <= heard - k
  BY DEF HoldsLast
<1>2. k # 0
  <2>1. SUFFICES ASSUME k = 0 PROVE FALSE
    OBVIOUS
  <2>2. inHand = [i \in 1..0 |-> heard - k + i]
    BY <1>1, <2>1
  <2>3. inHand = <<>>
    BY <2>2
  <2> QED
    BY <2>3
<1>3. PICK b \in Nat : b = heard - k
  BY <1>1
<1>4. inHand = [i \in 1..k |-> b + i] /\ \A i \in 1..k : b + i \in Nat
  BY <1>1, <1>3
<1>5. inHand \in Seq(Nat) /\ Len(inHand) = k
  BY <1>4
<1>6. Last(inHand) = heard
  <2>1. k \in 1..k /\ b + k = heard
    BY <1>1, <1>2, <1>3
  <2> QED
    BY <1>4, <1>5, <2>1 DEF Last
<1>7. WITNESS k \in Nat \ {0}
<1> QED
  BY <1>1, <1>2, <1>5, <1>6

LEMMA InvInit ==
  ASSUME EchoAssumption, Init
  PROVE  IInv
<1>1. Typed
  BY EmptySeq DEF Init, Typed, EchoAssumption
<1>2. QueuedCounts
  <2>1. FlattenSeq(<<>>) = <<>>
    BY DEF FlattenSeq
  <2> QED
    BY <2>1, EmptySeq DEF Init, QueuedCounts, Size, Line, MostQueued, EchoAssumption
<1>3. HoldsLast
  <2>1. 0 \in Nat /\ 0 <= heard /\ pushed \in Nat /\ pushed <= heard - 0
    BY DEF Init
  <2>2. inHand = [i \in 1..0 |-> heard - 0 + i]
    BY DEF Init
  <2> QED
    BY <2>1, <2>2 DEF HoldsLast
<1>4. StrayWasPicked
  BY DEF Init, StrayWasPicked
<1> QED
  BY <1>1, <1>2, <1>3, <1>4 DEF IInv

(* A packet is decoded; it is held if the echo is attached.                 *)
LEMMA ReceiveKeepsInv ==
  ASSUME EchoAssumption, IInv, NEW k \in Chunks, Receive(k)
  PROVE  IInv'
<1>1. k \in Nat /\ MaxHeard \in Nat
  BY DEF EchoAssumption
<1>2. Typed'
  BY <1>1 DEF IInv, Typed, Receive
<1>3. QueuedCounts'
  BY DEF IInv, QueuedCounts, Receive
<1>4. HoldsLast'
  <2>1. heard \in Nat /\ pushed \in Nat /\ pushed <= heard /\ pushed' = pushed /\ heard' = heard + k
    BY DEF IInv, Typed, HoldsLast, Receive
  <2>2. CASE attached
    <3>1. heard' - k = heard
      BY <1>1, <2>1
    <3>2. inHand' = [i \in 1..k |-> heard' - k + i]
      BY <2>2, <3>1 DEF Receive
    <3>3. k \in Nat /\ k <= heard' /\ pushed' \in Nat /\ pushed' <= heard' - k
      BY <1>1, <2>1, <3>1
    <3> QED
      BY <3>2, <3>3 DEF HoldsLast
  <2>3. CASE ~attached
    <3>1. inHand' = [i \in 1..0 |-> heard' - 0 + i]
      BY <2>3 DEF Receive
    <3>2. 0 \in Nat /\ 0 <= heard' /\ pushed' \in Nat /\ pushed' <= heard' - 0
      BY <1>1, <2>1
    <3> QED
      BY <3>1, <3>2 DEF HoldsLast
  <2> QED
    BY <2>2, <2>3
<1>5. StrayWasPicked'
  BY DEF IInv, StrayWasPicked, Receive
<1> QED
  BY <1>2, <1>3, <1>4, <1>5 DEF IInv

(* What was held is pushed.                                                 *)
LEMMA PushKeepsInv ==
  ASSUME EchoAssumption, IInv, PushHeard
  PROVE  IInv'
<1>1. heard \in Nat /\ chunks \in Seq(Seq(Nat)) /\ queued = Size(chunks) /\ inHand # <<>> /\ Push(inHand)
  BY DEF IInv, Typed, QueuedCounts, PushHeard
<1>2. inHand \in Seq(Nat) /\ Last(inHand) = heard
  BY <1>1, HandIs DEF IInv
<1>3. /\ chunks' \in Seq(Seq(Nat)) /\ queued' = Size(chunks')
      /\ queued' \in Nat /\ queued' <= MostQueued
  BY <1>1, <1>2, PushIs
<1>4. Typed'
  BY <1>3 DEF IInv, Typed, PushHeard
<1>5. QueuedCounts'
  BY <1>3 DEF QueuedCounts, Size, Line, MostQueued
<1>6. HoldsLast'
  <2>1. inHand' = [i \in 1..0 |-> heard' - 0 + i]
    BY DEF PushHeard
  <2>2. 0 \in Nat /\ 0 <= heard' /\ pushed' \in Nat /\ pushed' <= heard' - 0
    BY <1>1, <1>2 DEF PushHeard
  <2> QED
    BY <2>1, <2>2 DEF HoldsLast
<1>7. StrayWasPicked'
  BY DEF IInv, StrayWasPicked, PushHeard
<1> QED
  BY <1>4, <1>5, <1>6, <1>7 DEF IInv

(* What a packet does to the queue: n samples at most are read, or none.    *)
LEMMA SendIs ==
  ASSUME EchoAssumption, Typed, Send
  PROVE  /\ (\E n \in Nat : ReadEcho(n)) \/ (packet' = <<>> /\ UNCHANGED <<chunks, queued>>)
         /\ toned' \in Nat /\ toned' <= Preamble
<1>1. Packet \in Nat /\ Preamble \in Nat /\ toned \in Nat /\ toned <= Preamble
  BY DEF EchoAssumption, Typed
<1>2. CASE /\ picked \in {"silence", "tone"}
           /\ packet' = <<>>
           /\ UNCHANGED <<chunks, queued, toned>>
  BY <1>1, <1>2
<1>3. CASE ReadEcho(Packet) /\ UNCHANGED toned
  BY <1>1, <1>3
<1>4. CASE LET tone == Lesser(Packet, Preamble - toned) IN
           /\ toned' = toned + tone
           /\ IF tone < Packet THEN ReadEcho(Packet - tone)
              ELSE packet' = <<>> /\ UNCHANGED <<chunks, queued>>
  <2>1. PICK tone \in Nat : tone = Lesser(Packet, Preamble - toned) /\ tone <= Packet /\ tone <= Preamble - toned
    BY <1>1 DEF Lesser
  <2>2. toned' = toned + tone
    BY <1>4, <2>1
  <2>3. IF tone < Packet THEN ReadEcho(Packet - tone)
        ELSE packet' = <<>> /\ UNCHANGED <<chunks, queued>>
    BY <1>4, <2>1
  <2>4. Packet - tone \in Nat
    BY <1>1, <2>1
  <2> QED
    BY <1>1, <2>1, <2>2, <2>3, <2>4
<1> QED
  BY <1>2, <1>3, <1>4 DEF Send

(* A packet is sent.                                                        *)
LEMMA SendKeepsInv ==
  ASSUME EchoAssumption, IInv, Send
  PROVE  IInv'
<1>1. chunks \in Seq(Seq(Nat)) /\ queued = Size(chunks) /\ queued <= MostQueued /\ queued \in Nat
  BY DEF IInv, Typed, QueuedCounts
<1>2. /\ chunks' \in Seq(Seq(Nat)) /\ queued' = Size(chunks')
      /\ queued' \in Nat /\ queued' <= MostQueued
  <2>1. CASE packet' = <<>> /\ UNCHANGED <<chunks, queued>>
    BY <1>1, <2>1
  <2>2. ASSUME NEW n \in Nat, ReadEcho(n)
        PROVE  <1>2!:
    BY <1>1, <2>2, ReadIs
  <2> QED
    BY <2>1, <2>2, SendIs DEF IInv
<1>3. Typed'
  BY <1>2, SendIs DEF IInv, Typed, Send
<1>4. QueuedCounts'
  BY <1>2 DEF QueuedCounts, Size, Line, MostQueued
<1>5. HoldsLast'
  BY DEF IInv, HoldsLast, Send
<1>6. StrayWasPicked'
  BY DEF IInv, StrayWasPicked, Send, NextPick
<1> QED
  BY <1>3, <1>4, <1>5, <1>6 DEF IInv

(* All other steps leave the queue and what is held alone.                  *)
LEMMA OtherKeepsInv ==
  ASSUME IInv,
         \/ Pick \/ Arm \/ SetLoopback \/ SetTone \/ StopPlayback \/ StopCall
         \/ UNCHANGED vars
  PROVE  IInv' /\ UNCHANGED <<chunks, pushed, packet>>
<1>1. UNCHANGED <<heard, inHand, chunks, queued, pushed, toned, packet>>
  BY DEF Pick, Arm, SetLoopback, SetTone, StopPlayback, StopCall, Choose, vars
<1>2. Typed' /\ QueuedCounts' /\ HoldsLast'
  <2>1. Typed'
    BY <1>1 DEF IInv, Typed
  <2>2. QueuedCounts'
    BY <1>1 DEF IInv, QueuedCounts
  <2>3. HoldsLast'
    BY <1>1 DEF IInv, HoldsLast
  <2> QED
    BY <2>1, <2>2, <2>3
<1>3. StrayWasPicked'
  BY DEF IInv, StrayWasPicked, Pick, Arm, SetLoopback, SetTone, StopPlayback, StopCall, Choose, vars
<1> QED
  BY <1>1, <1>2, <1>3 DEF IInv

LEMMA InvStep ==
  ASSUME EchoAssumption, IInv, [Next]_vars
  PROVE  IInv'
<1>1. CASE \E k \in Chunks : Receive(k)
  BY <1>1, ReceiveKeepsInv
<1>2. CASE PushHeard
  BY <1>2, PushKeepsInv
<1>3. CASE Send
  BY <1>3, SendKeepsInv
<1>4. CASE \/ Pick \/ Arm \/ SetLoopback \/ SetTone \/ StopPlayback \/ StopCall
           \/ UNCHANGED vars
  BY <1>4, OtherKeepsInv
<1> QED
  BY <1>1, <1>2, <1>3, <1>4 DEF Next, Sender

-----------------------------------------------------------------------------
(* The delay line *)

Promised == INSTANCE DelayLine WITH
  Samples <- 1..MaxHeard, line <- Line(chunks), newest <- pushed, out <- packet

(* What was held enters.                                                    *)
LEMMA PushEnters ==
  ASSUME EchoAssumption, IInv, PushHeard
  PROVE  \E first, last \in 1..MaxHeard : Promised!Enter(first, last)
<1>1. heard \in Nat /\ chunks \in Seq(Seq(Nat)) /\ queued = Size(chunks) /\ inHand # <<>> /\ Push(inHand)
  BY DEF IInv, Typed, QueuedCounts, PushHeard
<1>2. PICK k \in Nat \ {0} :
        /\ k <= heard /\ pushed \in Nat /\ pushed <= heard - k
        /\ inHand = [i \in 1..k |-> heard - k + i] /\ inHand \in Seq(Nat)
        /\ Len(inHand) = k /\ Last(inHand) = heard
  BY <1>1, HandIs DEF IInv
<1>3. PICK d \in Nat :
        /\ d = IF queued + Len(inHand) > MostQueued THEN queued + Len(inHand) - MostQueued ELSE 0
        /\ Line(chunks') = Cut(Line(chunks) \o inHand, d)
  BY <1>1, <1>2, PushIs
<1>4. PICK first \in 1..MaxHeard : first = heard - k + 1
  <2>1. heard - k + 1 \in 1..MaxHeard
    BY <1>1, <1>2 DEF IInv, Typed, EchoAssumption
  <2> QED
    BY <2>1
<1>5. PICK last \in 1..MaxHeard : last = heard
  BY <1>1, <1>2 DEF IInv, Typed
<1>6. inHand = [i \in 1..(last - first + 1) |-> first + i - 1]
  <2>1. last - first + 1 = k /\ \A i \in 1..k : heard - k + i = first + i - 1
    BY <1>1, <1>2, <1>4, <1>5
  <2> QED
    BY <1>2, <2>1
<1>7. PICK longer : longer = Line(chunks) \o inHand
  OBVIOUS
<1>8. longer \in Seq(Nat) /\ Len(longer) = queued + k /\ queued \in Nat
  <2>1. Line(chunks) \in Seq(Nat) /\ Len(Line(chunks)) = queued /\ queued \in Nat
    BY <1>1, SizeTyped
  <2>2. longer \in Seq(Nat) /\ Len(longer) = Len(Line(chunks)) + Len(inHand)
    BY <1>2, <1>7, <2>1, ConcatProperties
  <2> QED
    BY <1>2, <2>1, <2>2
<1>9. Line(chunks') = Promised!Newest(longer, Promised!Lesser(Len(longer), Delay + Queue))
  <2>1. Delay + Queue \in Nat /\ MostQueued = Delay + Queue
    BY DEF EchoAssumption, MostQueued
  <2>2. PICK n \in Nat : n = Promised!Lesser(Len(longer), Delay + Queue)
    BY <1>2, <1>8, <2>1 DEF Promised!Lesser
  <2>3. Len(longer) - n + 1 = d + 1
    BY <1>2, <1>3, <1>8, <2>1, <2>2 DEF Promised!Lesser
  <2> QED
    BY <1>3, <1>7, <2>2, <2>3 DEF Promised!Newest, Cut
<1>10. pushed < first /\ first <= last /\ pushed' = last /\ packet' = packet
  BY <1>1, <1>2, <1>4, <1>5 DEF PushHeard
<1>11. Promised!Enter(first, last)
  BY <1>6, <1>7, <1>9, <1>10 DEF Promised!Enter
<1> QED
  BY <1>11

(* What a packet takes leaves.                                              *)
LEMMA SendLeaves ==
  ASSUME EchoAssumption, IInv, Send
  PROVE  \E n \in 0..Len(Line(chunks)) : Promised!Leave(n)
<1>1. /\ chunks \in Seq(Seq(Nat)) /\ queued = Size(chunks) /\ queued <= MostQueued
      /\ Line(chunks) \in Seq(Nat) /\ Len(Line(chunks)) = queued /\ queued \in Nat
  BY SizeTyped DEF IInv, Typed, QueuedCounts
<1>2. PICK d \in 0..queued :
        /\ d = 0 \/ d + Delay <= queued
        /\ Line(chunks') = Cut(Line(chunks), d)
        /\ packet' = SubSeq(Line(chunks), 1, d)
  <2>1. CASE packet' = <<>> /\ UNCHANGED <<chunks, queued>>
    <3>1. Cut(Line(chunks), 0) = Line(chunks)
      BY <1>1, SubSeqFull DEF Cut
    <3>2. SubSeq(Line(chunks), 1, 0) = <<>>
      BY SubSeqEmpty
    <3> QED
      BY <1>1, <2>1, <3>1, <3>2
  <2>2. ASSUME NEW n \in Nat, ReadEcho(n)
        PROVE  \E d \in 0..queued :
                 /\ d = 0 \/ d + Delay <= queued
                 /\ Line(chunks') = Cut(Line(chunks), d)
                 /\ packet' = SubSeq(Line(chunks), 1, d)
    BY <1>1, <2>2, ReadIs
  <2> QED
    BY <2>1, <2>2, SendIs DEF IInv
<1>3. Line(chunks') = Promised!Newest(Line(chunks), Len(Line(chunks)) - d)
  <2>1. Len(Line(chunks)) - (Len(Line(chunks)) - d) + 1 = d + 1
    BY <1>1
  <2> QED
    BY <1>2, <2>1 DEF Promised!Newest, Cut
<1>4. pushed' = pushed
  BY DEF Send
<1>5. d = 0 \/ d + Delay <= Len(Line(chunks))
  BY <1>1, <1>2
<1>6. Promised!Leave(d)
  BY <1>2, <1>3, <1>4, <1>5 DEF Promised!Leave
<1>7. d \in 0..Len(Line(chunks))
  BY <1>1
<1> QED
  BY <1>6, <1>7

(* A step of the echo is a step of the line or none of it.                  *)
LEMMA StepOfLine ==
  ASSUME EchoAssumption, IInv, [Next]_vars
  PROVE  [Promised!LineNext]_(Promised!lineVars)
<1>1. CASE \E k \in Chunks : Receive(k)
  BY <1>1 DEF Receive, Promised!lineVars
<1>2. CASE PushHeard
  BY <1>2, PushEnters DEF Promised!LineNext
<1>3. CASE Send
  BY <1>3, SendLeaves DEF Promised!LineNext
<1>4. CASE \/ Pick \/ Arm \/ SetLoopback \/ SetTone \/ StopPlayback \/ StopCall
           \/ UNCHANGED vars
  BY <1>4, OtherKeepsInv DEF Promised!lineVars
<1> QED
  BY <1>1, <1>2, <1>3, <1>4 DEF Next, Sender

-----------------------------------------------------------------------------
(* Theorems *)

(* Whatever the packets, the delay and the cap, the counter of the queue of *)
(* an EchoSource agrees with its chunks after every push and read and stays *)
(* under the cap, and a menu that left the loopback sends one packet of     *)
(* echo at most, the one whose source the sender had taken.                 *)
THEOREM EchoStaysTrue ==
  ASSUME EchoAssumption
  PROVE  Spec => [](QueuedCounts /\ OneStrayPacket)
<1>1. Init => IInv
  BY InvInit
<1>2. IInv /\ [Next]_vars => IInv'
  BY InvStep
<1>3. IInv => QueuedCounts /\ OneStrayPacket
  BY DEF IInv, StrayWasPicked, OneStrayPacket
<1> QED
  BY <1>1, <1>2, <1>3, PTL DEF Spec

(* The chunks of an EchoSource, pushed by the receiver's thread and read by *)
(* the sender's, are a delay line: what was heard leaves in order, each     *)
(* sample at most once and never before Delay newer ones, and a full queue  *)
(* loses its oldest samples.                                                *)
THEOREM EchoIsDelayLine ==
  ASSUME EchoAssumption
  PROVE  Spec => Promised!LineSpec
<1>1. Init => IInv /\ Promised!LineInit
  <2>1. FlattenSeq(<<>>) = <<>>
    BY DEF FlattenSeq
  <2> QED
    BY <2>1, InvInit DEF Init, Promised!LineInit, Line
<1>2. IInv /\ [Next]_vars => IInv' /\ [Promised!LineNext]_(Promised!lineVars)
  BY InvStep, StepOfLine
<1> QED
  BY <1>1, <1>2, PTL DEF Spec, Promised!LineSpec
=============================================================================
