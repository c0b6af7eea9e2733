-------------------------- MODULE FileTransferProofs --------------------------
(***************************************************************************)
(* Proofs about FileTransfer for any files, chunk and buffer sizes: each   *)
(* side always holds a prefix of what the side before it sent, with at     *)
(* most a block of NULs behind it, and every step of the transfer is a     *)
(* step of Copy or leaves it unchanged.                                    *)
(***************************************************************************)
EXTENDS FileTransfer, FiniteSetTheorems, SequenceTheorems, WellFoundedInduction, TLAPS

-------------------------------------------------------------------------------
(* Sequences: prefixes and parts. *)

\* A prefix agrees with the sequence as far as it goes.
LEMMA PrefixIs ==
  ASSUME NEW S, NEW s \in Seq(S), NEW t \in Seq(S)
  PROVE  IsPrefix(s, t) <=> Len(s) <= Len(t) /\ \A i \in 1..Len(s) : s[i] = t[i]
<1>1. Len(s) \in Nat /\ Len(t) \in Nat /\ s \in [1..Len(s) -> S] /\ t \in [1..Len(t) -> S]
  BY LenProperties
<1>2. SubSeq(s, 1, Len(s)) = s
  BY SubSeqFull
<1>3. ASSUME Len(s) <= Len(t)
      PROVE  /\ SubSeq(t, 1, Len(s)) \in Seq(S) /\ Len(SubSeq(t, 1, Len(s))) = Len(s)
             /\ \A i \in 1..Len(s) : SubSeq(t, 1, Len(s))[i] = t[i]
  BY <1>1, <1>3
<1>4. ASSUME Len(s) <= Len(t), \A i \in 1..Len(s) : s[i] = t[i]
      PROVE  s = SubSeq(t, 1, Len(s))
  BY <1>1, <1>3, <1>4, SeqEqual
<1> QED
  BY <1>1, <1>2, <1>3, <1>4 DEF IsPrefix

\* A set of numbers that is not empty has a least one, which Min returns.
LEMMA MinIs ==
  ASSUME NEW S \in SUBSET Nat, S # {}
  PROVE  Min(S) \in S /\ \A x \in S : Min(S) <= x
<1>1. PICK x \in S : \A y \in S : ~(<<y, x>> \in OpToRel(<, Nat))
  BY NatLessThanWellFounded, WFMin
<1>2. \A y \in S : ~(y < x)
  BY <1>1, Zenon DEF OpToRel
<1>3. x \in S /\ \A y \in S : x <= y
  BY <1>2
<1> QED
  BY <1>3 DEF Min

\* An interval has as many elements as it is long.
LEMMA IntervalSize ==
  ASSUME NEW a \in Nat, NEW j \in Nat
  PROVE  IsFiniteSet(a + 1..a + j) /\ Cardinality(a + 1..a + j) = j
<1>1. \A u, v \in Int : /\ IsFiniteSet(u..v)
                        /\ Cardinality(u..v) = IF u > v THEN 0 ELSE v - u + 1
  BY FS_Interval
<1>2. a + 1 \in Int /\ a + j \in Int /\ (IF a + 1 > a + j THEN 0 ELSE a + j - (a + 1) + 1) = j
  OBVIOUS
<1> QED
  BY <1>1, <1>2

-------------------------------------------------------------------------------
(* Chunks. *)

\* A chunk ends at the end of the file, or after a full buffer, or at the first end of
\* a line.
LEMMA ChunkIs ==
  ASSUME NEW k, NEW B, NEW f \in Seq(B), NEW p \in Nat, p < Len(f)
  PROVE  \E e \in p + 1..Len(f) :
           /\ Chunk(k, f, p) = SubSeq(f, p + 1, e)
           /\ Chunk(k, f, p) \in Seq(B) /\ Len(Chunk(k, f, p)) = e - p
           /\ \A i \in 1..e - p : Chunk(k, f, p)[i] = f[p + i]
           /\ e <= p + ChunkSize
           /\ \A i \in p + 1..e - 1 : ~EndsLine(k, f, i)
           /\ e = Len(f) \/ e = p + ChunkSize \/ EndsLine(k, f, e)
<1> DEFINE full == Min({p + ChunkSize, Len(f)})
           lines == {i \in p + 1..full : k = "text" /\ f[i] = "nl"}
           e == Min(lines \cup {full})
<1>1. Len(f) \in Nat /\ \A i \in 1..Len(f) : f[i] \in B
  BY LenProperties
<1>2. full \in {p + ChunkSize, Len(f)} /\ full <= p + ChunkSize /\ full <= Len(f)
  <2>1. {p + ChunkSize, Len(f)} \in SUBSET Nat /\ {p + ChunkSize, Len(f)} # {}
    BY FileTransferAssumption, <1>1
  <2>2. full \in {p + ChunkSize, Len(f)} /\ \A x \in {p + ChunkSize, Len(f)} : full <= x
    BY <2>1, MinIs
  <2> QED
    BY <2>2
<1> HIDE DEF full
<1>3. full \in p + 1..Len(f)
  BY FileTransferAssumption, <1>1, <1>2
<1>4. e \in lines \cup {full} /\ \A x \in lines \cup {full} : e <= x
  <2>1. lines \cup {full} \in SUBSET Nat /\ lines \cup {full} # {}
    BY <1>3
  <2> HIDE DEF lines
  <2> QED
    BY <2>1, MinIs
<1>5. Chunk(k, f, p) = SubSeq(f, p + 1, e)
  BY DEF Chunk, full
<1> HIDE DEF e
<1>6. e \in p + 1..full
  BY <1>3, <1>4
<1>7. \A i \in p + 1..e - 1 : ~EndsLine(k, f, i)
  BY <1>3, <1>4, <1>6 DEF EndsLine
<1>8. e = Len(f) \/ e = p + ChunkSize \/ EndsLine(k, f, e)
  BY <1>2, <1>4 DEF EndsLine
<1>9. /\ SubSeq(f, p + 1, e) \in Seq(B) /\ Len(SubSeq(f, p + 1, e)) = e - p
      /\ \A i \in 1..e - p : SubSeq(f, p + 1, e)[i] = f[p + i]
  BY <1>1, <1>3, <1>6, SubSeqProperties
<1> QED
  BY FileTransferAssumption, <1>2, <1>3, <1>5, <1>6, <1>7, <1>8, <1>9

\* What is cut off is a text's first NUL and what follows it.
LEMMA CutIs ==
  ASSUME NEW k, NEW B, NEW chunk \in Seq(B)
  PROVE  \E m \in 0..Len(chunk) :
           /\ Cut(k, chunk) = SubSeq(chunk, 1, m)
           /\ Cut(k, chunk) \in Seq(B) /\ Len(Cut(k, chunk)) = m
           /\ \A i \in 1..m : Cut(k, chunk)[i] = chunk[i]
           /\ \A i \in 1..m : k = "text" => chunk[i] # "nul"
           /\ m = Len(chunk) => Cut(k, chunk) = chunk
           /\ m # Len(chunk) => \E i \in 1..Len(chunk) : k = "text" /\ chunk[i] = "nul"
<1> DEFINE nuls == {i \in 1..Len(chunk) : k = "text" /\ chunk[i] = "nul"}
<1>1. Len(chunk) \in Nat /\ \A i \in 1..Len(chunk) : chunk[i] \in B
  BY LenProperties
<1>2. SubSeq(chunk, 1, Len(chunk)) = chunk
  BY SubSeqFull
<1>3. CASE nuls = {}
  <2>1. Cut(k, chunk) = chunk /\ \A i \in 1..Len(chunk) : k = "text" => chunk[i] # "nul"
    BY <1>3 DEF Cut
  <2>2. Len(chunk) \in 0..Len(chunk)
    BY <1>1
  <2> QED
    BY <1>2, <2>1, <2>2
<1>4. CASE nuls # {}
  <2> DEFINE m == Min(nuls) - 1
  <2>1. Min(nuls) \in nuls /\ \A x \in nuls : Min(nuls) <= x
    <3>1. nuls \in SUBSET Nat
      BY <1>1
    <3> HIDE DEF nuls
    <3> QED
      BY <1>4, <3>1, MinIs
  <2>2. m \in 0..Len(chunk) /\ m # Len(chunk) /\ m + 1 \in nuls /\ \A i \in 1..m : i \notin nuls
    <3>1. Min(nuls) \in 1..Len(chunk)
      BY <2>1
    <3>2. \A i \in 1..m : i \notin nuls
      <4> SUFFICES ASSUME NEW i \in 1..m, i \in nuls PROVE FALSE
        OBVIOUS
      <4>1. Min(nuls) <= i
        BY <2>1
      <4> QED
        BY <1>1, <3>1, <4>1
    <3>3. m + 1 = Min(nuls)
      BY <1>1, <3>1
    <3> QED
      BY <1>1, <2>1, <3>1, <3>2, <3>3
  <2>3. Cut(k, chunk) = SubSeq(chunk, 1, m)
    BY <1>4 DEF Cut
  <2> HIDE DEF m
  <2>4. /\ SubSeq(chunk, 1, m) \in Seq(B) /\ Len(SubSeq(chunk, 1, m)) = m
        /\ \A i \in 1..m : SubSeq(chunk, 1, m)[i] = chunk[i]
    BY <1>1, <2>2, SubSeqProperties
  <2>5. \A i \in 1..m : k = "text" => chunk[i] # "nul"
    BY <1>1, <2>2
  <2> QED
    BY <2>2, <2>3, <2>4, <2>5
<1> QED
  BY <1>3, <1>4

\* Full chunks of one line do not overlap.
LEMMA FullChunks ==
  ASSUME NEW m \in Nat, NEW n \in Nat, NEW K \in Nat, m * K < n * K
  PROVE  m * K + K <= n * K
<1>1. m < n
  <2> SUFFICES ASSUME n <= m PROVE n * K <= m * K
    OBVIOUS
  <2>1. PICK d \in Nat : m = n + d
    BY m - n \in Nat, m = n + (m - n)
  <2>2. m * K = n * K + d * K /\ d * K \in Nat
    BY <2>1
  <2> QED
    BY <2>2
<1>2. PICK d \in Nat : n = m + 1 + d
  BY <1>1, n - m - 1 \in Nat, n = m + 1 + (n - m - 1)
<1>3. n * K = m * K + K + d * K /\ d * K \in Nat
  BY <1>2
<1> QED
  BY <1>3

\* Where a chunk ends, the next one begins, and none in between.
LEMMA StartsApart ==
  ASSUME NEW k, NEW B, NEW f \in Seq(B), NEW p \in Starts(k, f)
  PROVE  /\ p \in Nat /\ p < Len(f)
         /\ p + Len(Chunk(k, f, p)) \in Starts(k, f) \cup {Len(f)}
         /\ \A q \in Starts(k, f) : p < q => p + Len(Chunk(k, f, p)) <= q
<1>1. Len(f) \in Nat
  BY LenProperties
<1>2. p \in 0..Len(f) /\ p < Len(f)
  BY DEF Starts
<1>3. PICK l \in 0..p, n \in 0..p :
        /\ l = 0 \/ EndsLine(k, f, l)
        /\ \A i \in l + 1..p : ~EndsLine(k, f, i)
        /\ p = l + n * ChunkSize
  BY DEF Starts
<1>4. PICK e \in p + 1..Len(f) :
        /\ Len(Chunk(k, f, p)) = e - p /\ e <= p + ChunkSize
        /\ \A i \in p + 1..e - 1 : ~EndsLine(k, f, i)
        /\ e = Len(f) \/ e = p + ChunkSize \/ EndsLine(k, f, e)
  <2>1. p \in Nat
    BY <1>1, <1>2
  <2> QED
    BY <1>2, <2>1, ChunkIs
<1>5. e \in Starts(k, f) \cup {Len(f)}
  <2>1. CASE e = Len(f)
    BY <2>1
  <2>2. CASE e < Len(f) /\ EndsLine(k, f, e)
    <3>1. e = e + 0 * ChunkSize /\ e \in 0..e /\ 0 \in 0..e /\ \A i \in e + 1..e : FALSE
      BY FileTransferAssumption, <1>1, <1>2, <1>4
    <3> QED
      BY <1>1, <1>2, <1>4, <2>2, <3>1 DEF Starts
  <2>3. CASE e < Len(f) /\ e = p + ChunkSize /\ ~EndsLine(k, f, e)
    <3>1. e = l + (n + 1) * ChunkSize /\ l \in 0..e /\ n + 1 \in 0..e
      BY FileTransferAssumption, <1>2, <1>3, <1>4, <2>3
    <3>2. \A i \in l + 1..e : ~EndsLine(k, f, i)
      BY <1>2, <1>3, <1>4, <2>3
    <3> QED
      <4>1. e \in 0..Len(f) /\ e < Len(f)
        BY <1>1, <1>2, <1>4, <2>3
      <4>2. l = 0 \/ EndsLine(k, f, l)
        BY <1>3
      <4> QED
        BY <3>1, <3>2, <4>1, <4>2 DEF Starts
  <2> QED
    BY <1>1, <1>2, <1>4, <2>1, <2>2, <2>3
<1>6. ASSUME NEW q \in Starts(k, f), p < q, q < e PROVE FALSE
  <2>1. PICK l2 \in 0..q, n2 \in 0..q :
          /\ l2 = 0 \/ EndsLine(k, f, l2)
          /\ \A i \in l2 + 1..q : ~EndsLine(k, f, i)
          /\ q = l2 + n2 * ChunkSize
    BY DEF Starts
  <2>2. q \in Nat
    BY <1>1 DEF Starts
  <2>3. \A i \in l + 1..q : ~EndsLine(k, f, i)
    BY <1>2, <1>3, <1>4, <1>6, <2>2
  <2>4. l = l2
    BY <1>2, <1>3, <1>6, <2>1, <2>2, <2>3
  <2>5. n * ChunkSize < n2 * ChunkSize /\ n2 * ChunkSize < n * ChunkSize + ChunkSize
    BY FileTransferAssumption, <1>2, <1>3, <1>4, <1>6, <2>1, <2>2, <2>4
  <2> QED
    BY FileTransferAssumption, <1>2, <1>3, <2>1, <2>2, <2>5, FullChunks
<1> QED
  BY <1>1, <1>2, <1>4, <1>5, <1>6 DEF Starts
\* The first chunk begins at 0.
LEMMA StartsAtZero ==
  ASSUME NEW k, NEW B, NEW f \in Seq(B)
  PROVE  0 \in Starts(k, f) \cup {Len(f)}
<1>1. Len(f) \in Nat /\ 0 = 0 + 0 * ChunkSize /\ 0 \in 0..0 /\ \A i \in 0 + 1..0 : FALSE
  BY FileTransferAssumption, LenProperties
<1> QED
  BY <1>1 DEF Starts

\* Both, for a chunk the sender takes.
LEMMA ChunkAt ==
  ASSUME NEW k, NEW B, NEW f \in Seq(B), NEW p \in Starts(k, f)
  PROVE  /\ p \in Nat /\ Len(f) \in Nat /\ Len(Chunk(k, f, p)) \in 1..Len(f) - p
         /\ Chunk(k, f, p) \in Seq(B)
         /\ \A i \in 1..Len(Chunk(k, f, p)) : Chunk(k, f, p)[i] = f[p + i]
         /\ Cut(k, Chunk(k, f, p)) \in Seq(B)
         /\ Len(Cut(k, Chunk(k, f, p))) \in 0..Len(Chunk(k, f, p))
         /\ \A i \in 1..Len(Cut(k, Chunk(k, f, p))) :
              /\ Cut(k, Chunk(k, f, p))[i] = f[p + i]
              /\ k = "text" => Cut(k, Chunk(k, f, p))[i] # "nul"
<1> DEFINE chunk == Chunk(k, f, p)
           cut == Cut(k, chunk)
<1>1. p \in Nat /\ p < Len(f) /\ Len(f) \in Nat
  BY StartsApart, LenProperties
<1>2. PICK e \in p + 1..Len(f) :
        /\ chunk = SubSeq(f, p + 1, e)
        /\ chunk \in Seq(B) /\ Len(chunk) = e - p
        /\ \A i \in 1..e - p : chunk[i] = f[p + i]
        /\ e <= p + ChunkSize
        /\ \A i \in p + 1..e - 1 : ~EndsLine(k, f, i)
        /\ e = Len(f) \/ e = p + ChunkSize \/ EndsLine(k, f, e)
  BY <1>1, ChunkIs
<1> HIDE DEF chunk
<1>3. PICK m \in 0..Len(chunk) :
        /\ cut = SubSeq(chunk, 1, m)
        /\ cut \in Seq(B) /\ Len(cut) = m
        /\ \A i \in 1..m : cut[i] = chunk[i]
        /\ \A i \in 1..m : k = "text" => chunk[i] # "nul"
        /\ m = Len(chunk) => cut = chunk
        /\ m # Len(chunk) => \E i \in 1..Len(chunk) : k = "text" /\ chunk[i] = "nul"
  <2>1. chunk \in Seq(B)
    BY <1>2
  <2> QED
    BY <2>1, CutIs
<1> HIDE DEF cut
<1>4. /\ p \in Nat /\ Len(f) \in Nat /\ Len(chunk) \in 1..Len(f) - p
      /\ chunk \in Seq(B) /\ \A i \in 1..Len(chunk) : chunk[i] = f[p + i]
  <2>1. Len(chunk) = e - p /\ e - p \in 1..Len(f) - p
    BY <1>1, <1>2
  <2> QED
    BY <1>1, <1>2, <2>1
<1>5. /\ cut \in Seq(B) /\ Len(cut) \in 0..Len(chunk)
      /\ \A i \in 1..Len(cut) : cut[i] = f[p + i] /\ (k = "text" => cut[i] # "nul")
  BY <1>3, <1>4
<1> QED
  BY <1>4, <1>5 DEF chunk, cut

\* What is kept are bytes of the file.
LEMMA KeptFinite ==
  ASSUME NEW k, NEW B, NEW f \in Seq(B)
  PROVE  /\ Kept(k, f) \subseteq 1..Len(f) /\ IsFiniteSet(Kept(k, f))
         /\ Cardinality(Kept(k, f)) \in Nat
         /\ \A n \in Nat : /\ IsFiniteSet(Kept(k, f) \cap 1..n)
                          /\ Cardinality(Kept(k, f) \cap 1..n) \in 0..Cardinality(Kept(k, f))
<1>1. Len(f) \in Nat
  BY LenProperties
<1>2. ASSUME NEW p \in Starts(k, f)
      PROVE  p + 1..p + Len(Cut(k, Chunk(k, f, p))) \subseteq 1..Len(f)
  <2>1. p \in Nat /\ Len(Chunk(k, f, p)) \in 1..Len(f) - p
        /\ Len(Cut(k, Chunk(k, f, p))) \in 0..Len(Chunk(k, f, p))
    BY ChunkAt
  <2> QED
    BY <1>1, <2>1
<1>3. Kept(k, f) \subseteq 1..Len(f)
  BY <1>2 DEF Kept
<1>4. IsFiniteSet(Kept(k, f)) /\ Cardinality(Kept(k, f)) \in Nat
  <2>1. IsFiniteSet(1..Len(f))
    BY <1>1, FS_Interval
  <2> QED
    BY <1>3, <2>1, FS_Subset, FS_CardinalityType
<1>5. ASSUME NEW n \in Nat
      PROVE  /\ IsFiniteSet(Kept(k, f) \cap 1..n)
             /\ Cardinality(Kept(k, f) \cap 1..n) \in 0..Cardinality(Kept(k, f))
  <2>1. IsFiniteSet(Kept(k, f) \cap 1..n)
        /\ Cardinality(Kept(k, f) \cap 1..n) <= Cardinality(Kept(k, f))
    BY <1>4, FS_Subset
  <2> QED
    BY <1>4, <2>1, FS_CardinalityType
<1> QED
  BY <1>3, <1>4, <1>5

\* The sender keeps the beginning of each chunk.
LEMMA KeptNext ==
  ASSUME NEW k, NEW B, NEW f \in Seq(B), NEW p \in Starts(k, f),
         NEW j \in 0..Len(Cut(k, Chunk(k, f, p)))
  PROVE  Kept(k, f) \cap 1..p + j = (Kept(k, f) \cap 1..p) \cup (p + 1..p + j)
<1> DEFINE End(u) == u + Len(Chunk(k, f, u))
           Keeps(u) == u + 1..u + Len(Cut(k, Chunk(k, f, u)))
<1>1. \A u \in Starts(k, f) :
        /\ u \in Nat /\ Len(Cut(k, Chunk(k, f, u))) \in Nat
        /\ Len(Chunk(k, f, u)) \in Nat /\ Len(Cut(k, Chunk(k, f, u))) <= Len(Chunk(k, f, u))
  BY ChunkAt
<1>2. \A u \in Starts(k, f) : \A v \in Starts(k, f) : u < v => End(u) <= v
  BY StartsApart
<1>3. ASSUME NEW x \in Kept(k, f), x \in 1..p + j PROVE x \in 1..p \/ x \in p + 1..p + j
  BY <1>1, <1>3
<1>4. ASSUME NEW x \in p + 1..p + j PROVE x \in Kept(k, f)
  <2>1. x \in Keeps(p)
    BY <1>1, <1>4
  <2> QED
    BY <2>1 DEF Kept
<1>5. 1..p \subseteq 1..p + j /\ p + 1..p + j \subseteq 1..p + j
  BY <1>1
<1> QED
  BY <1>3, <1>4, <1>5

\* Nothing else of the chunk is kept.
LEMMA KeptToEnd ==
  ASSUME NEW k, NEW B, NEW f \in Seq(B), NEW p \in Starts(k, f)
  PROVE  Kept(k, f) \cap 1..p + Len(Chunk(k, f, p))
           = Kept(k, f) \cap 1..p + Len(Cut(k, Chunk(k, f, p)))
<1> DEFINE c(u) == Len(Chunk(k, f, u))
           m(u) == Len(Cut(k, Chunk(k, f, u)))
<1>1. \A u \in Starts(k, f) : u \in Nat /\ m(u) \in Nat /\ c(u) \in Nat /\ m(u) <= c(u)
  BY ChunkAt
<1>2. \A u \in Starts(k, f) : \A v \in Starts(k, f) : u < v => u + c(u) <= v
  BY StartsApart
<1>3. ASSUME NEW x \in Kept(k, f), x \in 1..p + c(p) PROVE x \in 1..p + m(p)
  <2>1. PICK u \in Starts(k, f) : x \in u + 1..u + m(u)
    BY DEF Kept
  <2> HIDE DEF c, m
  <2>2. x \in Nat /\ u < x /\ x <= u + m(u) /\ x <= p + c(p)
    BY <1>1, <1>3, <2>1
  <2>3. ~(p < u)
    BY <1>1, <1>2, <2>2
  <2>4. u < p => u + c(u) <= p
    BY <1>2
  <2> QED
    BY <1>1, <1>3, <2>2, <2>3, <2>4
<1>4. 1..p + m(p) \subseteq 1..p + c(p)
  <2> HIDE DEF c, m
  <2> QED
    BY <1>1
<1> QED
  BY <1>3, <1>4

\* Nth(S, n) is the element of S that has n - 1 before it.
LEMMA NthIs ==
  ASSUME NEW S \in SUBSET (Nat \ {0}), IsFiniteSet(S), NEW x \in S
  PROVE  Nth(S, Cardinality(S \cap 1..x)) = x
<1>1. ASSUME NEW y \in S, NEW z \in S, y <= z, Cardinality(S \cap 1..y) = Cardinality(S \cap 1..z)
      PROVE  y = z
  <2>1. S \cap 1..y \subseteq S \cap 1..z /\ IsFiniteSet(S \cap 1..z)
    BY <1>1, FS_Subset
  <2>2. S \cap 1..y = S \cap 1..z
    BY <1>1, <2>1, FS_Subset
  <2>3. z \in 1..y
    BY <2>2
  <2> QED
    BY <1>1, <2>3
<1>2. \A y \in S : Cardinality(S \cap 1..y) = Cardinality(S \cap 1..x) => y = x
  BY <1>1
<1> QED
  BY <1>2 DEF Nth

\* Carried is a sequence, of bytes or not.
LEMMA CarriedIs ==
  ASSUME NEW k, NEW B, NEW f \in Seq(B)
  PROVE  /\ \E S : Carried(k, f) \in Seq(S)
         /\ Len(Carried(k, f)) = Cardinality(Kept(k, f))
         /\ \A n \in 1..Cardinality(Kept(k, f)) : Carried(k, f)[n] = f[Nth(Kept(k, f), n)]
<1> DEFINE n == Cardinality(Kept(k, f))
           S == {f[Nth(Kept(k, f), i)] : i \in 1..n}
<1>1. n \in Nat
  BY KeptFinite
<1>2. Carried(k, f) = [i \in 1..n |-> f[Nth(Kept(k, f), i)]]
  BY DEF Carried
<1> HIDE DEF n
<1>3. Carried(k, f) \in [1..n -> S]
  BY <1>2
<1>4. Carried(k, f) \in Seq(S) /\ Len(Carried(k, f)) = n
  <2> DEFINE q == Carried(k, f)
  <2>1. q \in [1..n -> S]
    BY <1>3
  <2> HIDE DEF q, S
  <2> QED
    BY <1>1, <2>1 DEF q
<1> QED
  BY <1>2, <1>4 DEF n

\* What is sent of a chunk carries on from what was kept of the file before it.
LEMMA CarriedNext ==
  ASSUME NEW k, NEW B, NEW f \in Seq(B), NEW p \in Starts(k, f), NEW S,
         Carried(k, f) \in Seq(S)
  PROVE  LET a == Cardinality(Kept(k, f) \cap 1..p)
             b == Cardinality(Kept(k, f) \cap 1..p + Len(Chunk(k, f, p)))
         IN  /\ a \in Nat /\ b \in a..Len(Carried(k, f))
             /\ Cut(k, Chunk(k, f, p)) = SubSeq(Carried(k, f), a + 1, b)
<1> DEFINE K == Kept(k, f)
           q == Carried(k, f)
           chunk == Chunk(k, f, p)
           cut == Cut(k, chunk)
           a == Cardinality(K \cap 1..p)
           b == Cardinality(K \cap 1..p + Len(chunk))
           m == Len(cut)
<1>1. p \in Nat /\ Len(f) \in Nat
  BY ChunkAt
<1>2. Len(chunk) \in Nat
  BY ChunkAt
<1>3. m \in 0..Len(chunk) /\ cut \in Seq(B) /\ \A i \in 1..m : cut[i] = f[p + i]
  BY ChunkAt
<1>4. /\ IsFiniteSet(K) /\ K \subseteq 1..Len(f) /\ Cardinality(K) \in Nat
      /\ IsFiniteSet(K \cap 1..p) /\ a \in Nat /\ b \in 0..Cardinality(K)
  <2>1. p + Len(chunk) \in Nat
    BY <1>1, <1>2
  <2> HIDE DEF chunk
  <2>2. IsFiniteSet(K) /\ K \subseteq 1..Len(f) /\ Cardinality(K) \in Nat
    BY KeptFinite
  <2>3. \A n \in Nat : IsFiniteSet(K \cap 1..n) /\ Cardinality(K \cap 1..n) \in 0..Cardinality(K)
    BY KeptFinite
  <2> HIDE DEF K
  <2>4. IsFiniteSet(K \cap 1..p) /\ a \in Nat
    BY <1>1, <2>2, <2>3
  <2>5. b \in 0..Cardinality(K)
    BY <2>1, <2>3
  <2> QED
    BY <2>2, <2>4, <2>5
<1>5. \A j \in 0..m : Cardinality(K \cap 1..p + j) = a + j
  <2> SUFFICES ASSUME NEW j \in 0..m PROVE Cardinality(K \cap 1..p + j) = a + j
    OBVIOUS
  <2>1. K \cap 1..p + j = (K \cap 1..p) \cup (p + 1..p + j)
    BY KeptNext
  <2>2. IsFiniteSet(p + 1..p + j) /\ Cardinality(p + 1..p + j) = j
    <3>1. j \in Nat
      BY <1>3
    <3> QED
      BY <1>1, <3>1, IntervalSize
  <2>3. (K \cap 1..p) \cap (p + 1..p + j) = {}
    BY <1>1
  <2>4. Cardinality((K \cap 1..p) \cap (p + 1..p + j)) = 0
    BY <2>3, FS_EmptySet
  <2> DEFINE X == K \cap 1..p
             Y == p + 1..p + j
  <2>5. IsFiniteSet(X) /\ IsFiniteSet(Y) /\ Cardinality(X \cap Y) = 0
    BY <1>4, <2>2, <2>4
  <2>6. Cardinality(X \cup Y) = Cardinality(X) + Cardinality(Y) - Cardinality(X \cap Y)
    BY <2>5, FS_Union
  <2>7. Cardinality(X) = a /\ Cardinality(Y) = j /\ a \in Nat /\ j \in Nat
    BY <1>4, <2>2
  <2>8. Cardinality(X \cup Y) = a + j
    <3> HIDE DEF X, Y, a
    <3> QED
      BY <2>5, <2>6, <2>7
  <2> QED
    BY <2>1, <2>8
<1>6. b = a + m
  <2>1. K \cap 1..p + Len(chunk) = K \cap 1..p + m
    BY KeptToEnd
  <2>2. m \in 0..m
    BY <1>3
  <2> HIDE DEF m, K
  <2> QED
    BY <1>5, <2>1, <2>2
<1>7. Len(q) = Cardinality(K) /\ \A n \in 1..Cardinality(K) : q[n] = f[Nth(K, n)]
  BY CarriedIs
<1>8. \A j \in 1..m : q[a + j] = f[p + j]
  <2> SUFFICES ASSUME NEW j \in 1..m PROVE q[a + j] = f[p + j]
    OBVIOUS
  <2>1. p + j \in K
    <3>1. p + j \in p + 1..p + j /\ j \in 0..m
      BY <1>1, <1>3
    <3> QED
      BY <3>1, KeptNext
  <2>2. Cardinality(K \cap 1..p + j) = a + j
    <3>1. j \in 0..m
      BY <1>3
    <3> HIDE DEF K, a, m
    <3> QED
      BY <1>5, <3>1
  <2>3. Nth(K, a + j) = p + j
    BY <1>1, <1>4, <2>1, <2>2, NthIs
  <2>4. a + j \in 1..Cardinality(K)
    BY <1>3, <1>4, <1>6
  <2> QED
    BY <1>7, <2>3, <2>4
<1> HIDE DEF K, q, chunk, a, b
<1>9. cut = SubSeq(q, a + 1, b)
  <2>1. q \in Seq(S) /\ \A i \in 1..Len(q) : q[i] \in S
    BY LenProperties DEF q
  <2>2. /\ SubSeq(q, a + 1, b) \in Seq(S) /\ Len(SubSeq(q, a + 1, b)) = m
        /\ \A i \in 1..m : SubSeq(q, a + 1, b)[i] = q[a + i]
    BY <1>3, <1>4, <1>6, <1>7, <2>1, SubSeqProperties
  <2>3. cut \in Seq(B \cup S) /\ SubSeq(q, a + 1, b) \in Seq(B \cup S)
    BY <1>3, <2>2
  <2> HIDE DEF cut
  <2> QED
    BY <1>3, <1>8, <2>2, <2>3, SeqEqual
<1> QED
  <2>1. a \in Nat /\ b \in a..Len(q)
    <3> HIDE DEF cut
    <3> QED
      BY <1>3, <1>4, <1>6, <1>7
  <2> QED
    BY <1>9, <2>1 DEF K, q, chunk, cut, a, b

-------------------------------------------------------------------------------
(* Messages that spell out a sequence. *)

\* No messages go nowhere.
LEMMA StreamEmpty ==
  ASSUME NEW q, NEW ends, NEW a, NEW b
  PROVE  /\ Stream(q, ends, a, <<>>, b) => a = b
         /\ a \in ends /\ a = b /\ a \in Nat => Stream(q, ends, a, <<>>, b)
<1>1. Len(<<>>) = 0
  OBVIOUS
<1>2. ASSUME a \in ends, a = b, a \in Nat PROVE Stream(q, ends, a, <<>>, b)
  <2> DEFINE at == [i \in 0..0 |-> a]
  <2>1. /\ at \in [0..0 -> ends] /\ at[0] = a /\ at[0] = b
        /\ \A i, j \in 0..0 : i <= j => at[i] <= at[j]
        /\ \A i \in 1..0 : FALSE
    BY <1>2
  <2> HIDE DEF at
  <2> QED
    BY <1>1, <2>1 DEF Stream
<1> QED
  BY <1>1, <1>2 DEF Stream

\* Another message carries on where the last one ended.
LEMMA StreamAppend ==
  ASSUME NEW q, NEW ends \in SUBSET Nat, NEW a, NEW b \in ends, NEW c \in ends, b <= c,
         NEW M, NEW msgs \in Seq(M), NEW msg \in M,
         Stream(q, ends, a, msgs, b), msg = SubSeq(q, b + 1, c)
  PROVE  Stream(q, ends, a, Append(msgs, msg), c)
<1>1. Len(msgs) \in Nat
  BY LenProperties
<1>2. /\ Len(Append(msgs, msg)) = Len(msgs) + 1
      /\ \A i \in 1..Len(msgs) : Append(msgs, msg)[i] = msgs[i]
      /\ Append(msgs, msg)[Len(msgs) + 1] = msg
  BY AppendProperties
<1>3. PICK at \in [0..Len(msgs) -> ends] :
        /\ at[0] = a /\ at[Len(msgs)] = b
        /\ \A i, j \in 0..Len(msgs) : i <= j => at[i] <= at[j]
        /\ \A i \in 1..Len(msgs) : msgs[i] = SubSeq(q, at[i - 1] + 1, at[i])
  BY DEF Stream
<1> DEFINE n == Len(msgs)
           on == [i \in 0..n + 1 |-> IF i <= n THEN at[i] ELSE c]
<1>4. on \in [0..n + 1 -> ends] /\ on[0] = a /\ on[n + 1] = c
  BY <1>1, <1>3
<1>5. \A i \in 0..n : on[i] = at[i]
  BY <1>1
<1> HIDE DEF on
<1>6. \A i, j \in 0..n + 1 : i <= j => on[i] <= on[j]
  <2> SUFFICES ASSUME NEW i \in 0..n + 1, NEW j \in 0..n + 1, i <= j PROVE on[i] <= on[j]
    OBVIOUS
  <2>1. CASE j <= n
    BY <1>1, <1>3, <1>5, <2>1
  <2>2. CASE j = n + 1 /\ i <= n
    <3>1. i \in 0..n /\ n \in 0..n
      BY <1>1, <2>2
    <3>2. at[i] <= b /\ at[i] \in Nat
      BY <1>3, <2>2, <3>1
    <3>3. b \in Nat /\ c \in Nat /\ on[i] = at[i] /\ on[j] = c
      BY <1>4, <1>5, <2>2, <3>1
    <3> QED
      BY <3>2, <3>3
  <2>3. CASE j = n + 1 /\ i = n + 1
    BY <1>4, <2>3
  <2> QED
    BY <1>1, <2>1, <2>2, <2>3
<1>7. \A i \in 1..n + 1 : Append(msgs, msg)[i] = SubSeq(q, on[i - 1] + 1, on[i])
  <2> SUFFICES ASSUME NEW i \in 1..n + 1
               PROVE  Append(msgs, msg)[i] = SubSeq(q, on[i - 1] + 1, on[i])
    OBVIOUS
  <2>1. CASE i <= n
    <3>1. i \in 1..n /\ i \in 0..n /\ i - 1 \in 0..n
      BY <1>1, <2>1
    <3> QED
      BY <1>2, <1>3, <1>5, <3>1
  <2>2. CASE i = n + 1
    <3>1. i - 1 = n /\ n \in 0..n
      BY <1>1, <2>2
    <3> QED
      BY <1>2, <1>3, <1>4, <1>5, <2>2, <3>1
  <2> QED
    <3>1. n \in Nat
      BY <1>1
    <3> HIDE DEF n
    <3>2. i <= n \/ i = n + 1
      BY <3>1
    <3> QED
      BY <2>1, <2>2, <3>2
<1>8. Len(Append(msgs, msg)) = n + 1
  BY <1>2
<1> HIDE DEF n
<1> QED
  BY <1>4, <1>6, <1>7, <1>8, Zenon DEF Stream

\* The first message is the next part; the others carry on behind it.
LEMMA StreamHead ==
  ASSUME NEW q, NEW ends \in SUBSET Nat, NEW a, NEW b,
         NEW M, NEW msgs \in Seq(M), msgs # <<>>, Stream(q, ends, a, msgs, b)
  PROVE  \E c \in ends : /\ a \in ends /\ b \in ends /\ a <= c /\ c <= b
                         /\ Head(msgs) = SubSeq(q, a + 1, c)
                         /\ Stream(q, ends, c, Tail(msgs), b)
<1>1. Len(msgs) \in Nat \ {0} /\ Head(msgs) = msgs[1]
  BY EmptySeq
<1>2. /\ Len(Tail(msgs)) = Len(msgs) - 1
      /\ \A i \in 1..Len(msgs) - 1 : Tail(msgs)[i] = msgs[i + 1]
  BY <1>1, HeadTailProperties
<1>3. PICK at \in [0..Len(msgs) -> ends] :
        /\ at[0] = a /\ at[Len(msgs)] = b
        /\ \A i, j \in 0..Len(msgs) : i <= j => at[i] <= at[j]
        /\ \A i \in 1..Len(msgs) : msgs[i] = SubSeq(q, at[i - 1] + 1, at[i])
  BY DEF Stream
<1> DEFINE n == Len(msgs) - 1
           on == [i \in 0..n |-> at[i + 1]]
<1>4. /\ on \in [0..n -> ends] /\ on[0] = at[1] /\ on[n] = b
      /\ \A i \in 0..n : on[i] = at[i + 1]
  BY <1>1, <1>3
<1> HIDE DEF on
<1>5. \A i, j \in 0..n : i <= j => on[i] <= on[j]
  BY <1>1, <1>3, <1>4
<1>6. \A i \in 1..n : Tail(msgs)[i] = SubSeq(q, on[i - 1] + 1, on[i])
  <2> SUFFICES ASSUME NEW i \in 1..n PROVE Tail(msgs)[i] = SubSeq(q, on[i - 1] + 1, on[i])
    OBVIOUS
  <2>1. i + 1 \in 1..Len(msgs) /\ (i + 1) - 1 = i /\ i \in 0..n /\ i - 1 \in 0..n /\ (i - 1) + 1 = i
    BY <1>1
  <2>2. on[i - 1] = at[i] /\ on[i] = at[i + 1]
    BY <1>4, <2>1
  <2> QED
    BY <1>2, <1>3, <2>1, <2>2
<1>7. Stream(q, ends, at[1], Tail(msgs), b)
  BY <1>2, <1>4, <1>5, <1>6 DEF Stream
<1>8. /\ at[1] \in ends /\ a \in ends /\ b \in ends /\ a <= at[1] /\ at[1] <= b
      /\ Head(msgs) = SubSeq(q, a + 1, at[1])
  <2>1. 0 \in 0..Len(msgs) /\ 1 \in 0..Len(msgs) /\ Len(msgs) \in 0..Len(msgs)
        /\ 1 \in 1..Len(msgs) /\ 1 - 1 = 0 /\ 0 <= 1 /\ 1 <= Len(msgs)
    BY <1>1
  <2> QED
    BY <1>1, <1>3, <2>1
<1> QED
  BY <1>7, <1>8

\* The first few messages go as far as they go.
LEMMA StreamCut ==
  ASSUME NEW q, NEW ends \in SUBSET Nat, NEW a, NEW b,
         NEW M, NEW msgs \in Seq(M), NEW n \in 0..Len(msgs), Stream(q, ends, a, msgs, b)
  PROVE  \E c \in ends : Stream(q, ends, a, SubSeq(msgs, 1, n), c)
<1>1. Len(msgs) \in Nat
  BY LenProperties
<1>2. /\ Len(SubSeq(msgs, 1, n)) = n
      /\ \A i \in 1..n : SubSeq(msgs, 1, n)[i] = msgs[i]
  BY <1>1
<1>3. PICK at \in [0..Len(msgs) -> ends] :
        /\ at[0] = a /\ at[Len(msgs)] = b
        /\ \A i, j \in 0..Len(msgs) : i <= j => at[i] <= at[j]
        /\ \A i \in 1..Len(msgs) : msgs[i] = SubSeq(q, at[i - 1] + 1, at[i])
  BY DEF Stream
<1> DEFINE on == [i \in 0..n |-> at[i]]
<1>4. on \in [0..n -> ends] /\ \A i \in 0..n : on[i] = at[i]
  BY <1>1, <1>3
<1> HIDE DEF on
<1>5. /\ on[0] = a /\ on[n] \in ends
      /\ \A i, j \in 0..n : i <= j => on[i] <= on[j]
      /\ \A i \in 1..n : SubSeq(msgs, 1, n)[i] = SubSeq(q, on[i - 1] + 1, on[i])
  BY <1>1, <1>2, <1>3, <1>4
<1>6. Stream(q, ends, a, SubSeq(msgs, 1, n), on[n])
  BY <1>2, <1>4, <1>5 DEF Stream
<1> QED
  BY <1>5, <1>6

-------------------------------------------------------------------------------
(* A sequence on its way. *)

\* Ends are numbers up to the final byte.
LEMMA EndsAre ==
  ASSUME NEW S, NEW q \in Seq(S), NEW calm
  PROVE  /\ Len(q) \in Nat /\ Ends(q, calm) \in SUBSET Nat
         /\ \A e \in Ends(q, calm) : e <= Len(q) + 1
         /\ Len(q) + 1 \in Ends(q, calm) /\ 0 \in Ends(q, calm)
         /\ \A e \in 1..Len(q) : e \in Ends(q, calm) <=> (calm => q[e] # Final)
BY LenProperties DEF Ends

\* q and its final byte.
LEMMA WithFinal ==
  ASSUME NEW S, NEW q \in Seq(S), Final \in S
  PROVE  /\ Append(q, Final) \in Seq(S) /\ Len(Append(q, Final)) = Len(q) + 1
         /\ \A i \in 1..Len(q) : Append(q, Final)[i] = q[i]
         /\ Append(q, Final)[Len(q) + 1] = Final
         /\ \A i \in 1..Len(q) + 1 : Append(q, Final)[i] \in S
BY AppendProperties, LenProperties

\* Nothing got and nothing sent.
LEMMA FlowFresh ==
  ASSUME NEW S, NEW q \in Seq(S), NEW calm, NEW stops, 0 \in stops
  PROVE  Flow(<<>>, <<>>, q, calm, stops)
<1>1. 0 \in Ends(q, calm)
  BY EndsAre
<1>2. Len(<<>>) = 0 /\ <<>> \in Seq(S) /\ Len(q) \in Nat
  BY LenProperties
<1>3. IsPrefix(<<>>, q)
  <2>1. Len(<<>>) <= Len(q) /\ \A i \in 1..Len(<<>>) : <<>>[i] = q[i]
    BY <1>2
  <2> QED
    BY <1>2, <2>1, PrefixIs
<1>4. Stream(Append(q, Final), Ends(q, calm), 0, <<>>, 0)
  BY <1>1, StreamEmpty
<1> QED
  BY <1>1, <1>2, <1>3, <1>4 DEF Flow

\* A message of the part of q from n to m.
LEMMA FlowSend ==
  ASSUME NEW S, NEW q \in Seq(S), NEW calm, NEW got, NEW M, NEW msgs \in Seq(M), NEW msg \in M,
         NEW n, NEW m \in Ends(q, calm), n <= m, NEW stops, m \in stops,
         Flow(got, msgs, q, calm, {n}), msg = SubSeq(Append(q, Final), n + 1, m)
  PROVE  Flow(got, Append(msgs, msg), q, calm, stops)
<1>1. Ends(q, calm) \in SUBSET Nat
  BY EndsAre
<1>2. n \in Ends(q, calm) /\ Stream(Append(q, Final), Ends(q, calm), Len(got), msgs, n)
  BY DEF Flow
<1>3. Stream(Append(q, Final), Ends(q, calm), Len(got), Append(msgs, msg), m)
  BY <1>1, <1>2, StreamAppend
<1> QED
  BY <1>3 DEF Flow

\* Messages lost from the end.
LEMMA FlowCut ==
  ASSUME NEW S, NEW q \in Seq(S), NEW calm, NEW got, NEW M, NEW msgs \in Seq(M),
         NEW n \in 0..Len(msgs), NEW stops, Flow(got, msgs, q, calm, stops)
  PROVE  Flow(got, SubSeq(msgs, 1, n), q, calm, 0..Len(q) + 1)
<1>1. Ends(q, calm) \in SUBSET Nat /\ Len(q) \in Nat /\ \A e \in Ends(q, calm) : e <= Len(q) + 1
  BY EndsAre
<1>2. PICK b : Stream(Append(q, Final), Ends(q, calm), Len(got), msgs, b)
  BY DEF Flow
<1>3. PICK c \in Ends(q, calm) :
        Stream(Append(q, Final), Ends(q, calm), Len(got), SubSeq(msgs, 1, n), c)
  BY <1>1, <1>2, StreamCut
<1>4. c \in 0..Len(q) + 1
  BY <1>1
<1> QED
  BY <1>3, <1>4 DEF Flow

\* All of q is got, and no message is left.
AllGot(got, msgs, q) == got = q /\ msgs = <<>>

\* A message received: the next part of q, or the last as far as the receiver knows; if
\* all is calm, it is the last, and ends in the final byte.
LEMMA FlowRecv ==
  ASSUME NEW S, Final \in S, NEW q \in Seq(S), NEW calm, NEW got \in Seq(S),
         NEW M, \A msg \in M : msg \in Seq(S) /\ msg # <<>>,
         NEW msgs \in Seq(M), msgs # <<>>, NEW stops,
         Flow(got, msgs, q, calm, stops)
  PROVE  /\ Head(msgs) \in Seq(S) /\ Head(msgs) # <<>>
         /\ Last(Head(msgs)) # Final =>
              Flow(got \o Head(msgs), Tail(msgs), q, calm, stops)
         /\ Last(Head(msgs)) = Final =>
              /\ IsPrefix(got \o Front(Head(msgs)), q)
              /\ (\A e \in 1..Len(q) : e \in Ends(q, calm) => q[e] # Final) =>
                   AllGot(got \o Front(Head(msgs)), Tail(msgs), q) /\ Len(q) + 1 \in stops
<1> DEFINE E == Ends(q, calm)
           F == Append(q, Final)
           a == Len(got)
           msg == Head(msgs)
           onlyLast == \A i \in 1..Len(q) : i \in E => q[i] # Final
<1>1. /\ Len(q) \in Nat /\ E \in SUBSET Nat /\ \A e \in E : e <= Len(q) + 1
      /\ \A e \in 1..Len(q) : e \in E <=> (calm => q[e] # Final)
  BY EndsAre
<1>2. /\ F \in Seq(S) /\ Len(F) = Len(q) + 1 /\ F[Len(q) + 1] = Final
      /\ \A i \in 1..Len(q) : F[i] = q[i]
      /\ \A i \in 1..Len(q) + 1 : F[i] \in S
  BY WithFinal
<1> HIDE DEF E, F
<1>3. PICK b \in stops \cap E : Stream(F, E, a, msgs, b)
  BY DEF Flow, E, F
<1>4. PICK c \in E : /\ a \in E /\ a <= c /\ c <= b
                     /\ msg = SubSeq(F, a + 1, c) /\ Stream(F, E, c, Tail(msgs), b)
  BY <1>1, <1>3, StreamHead
<1>5. /\ msg \in Seq(S) /\ msg # <<>>
      /\ Tail(msgs) \in Seq(M)
  BY HeadTailProperties
<1>6. a \in Nat /\ b \in Nat /\ c \in Nat /\ a < c /\ c <= Len(q) + 1 /\ b <= Len(q) + 1
  <2>1. a \in Nat /\ b \in Nat /\ c \in Nat /\ c <= Len(q) + 1 /\ b <= Len(q) + 1
    BY <1>1, <1>3, <1>4
  <2>2. a # c
    BY <1>4, <1>5, <2>1, SubSeqEmpty
  <2> QED
    BY <1>4, <2>1, <2>2
<1>9. IsPrefix(got, q)
  BY DEF Flow
<1>10. Len(got) = a /\ a <= Len(q) /\ \A i \in 1..a : got[i] = q[i]
  BY <1>9, PrefixIs
<1> HIDE DEF msg, a
<1>7. Len(msg) = c - a /\ \A i \in 1..c - a : msg[i] = F[a + i]
  <2>1. \A i \in a + 1..c : F[i] \in S
    BY <1>1, <1>2, <1>6
  <2>2. a + 1 \in Int /\ c \in Int /\ a + 1 <= c /\ c - (a + 1) + 1 = c - a
    BY <1>6
  <2>3. /\ Len(SubSeq(F, a + 1, c)) = c - (a + 1) + 1
        /\ \A i \in 1..c - (a + 1) + 1 : SubSeq(F, a + 1, c)[i] = F[(a + 1) + i - 1]
    BY <2>1, <2>2, SubSeqProperties
  <2> QED
    BY <1>4, <1>6, <2>2, <2>3
<1>8. Last(msg) = F[c]
  <2>1. c - a \in 1..c - a /\ a + (c - a) = c
    BY <1>6
  <2> QED
    BY <1>7, <2>1 DEF Last
<1>11. ASSUME Last(msg) # Final
       PROVE  Flow(got \o msg, Tail(msgs), q, calm, stops)
  <2>1. c <= Len(q)
    BY <1>1, <1>2, <1>6, <1>8, <1>11
  <2>2. /\ got \o msg \in Seq(S) /\ Len(got \o msg) = c
        /\ \A i \in 1..c : (got \o msg)[i] = IF i <= a THEN got[i] ELSE msg[i - a]
    <3>1. Len(got) + Len(msg) = c
      BY <1>6, <1>7, <1>10
    <3> QED
      BY <1>5, <1>10, <3>1, ConcatProperties
  <2>3. \A i \in 1..c : (got \o msg)[i] = q[i]
    <3> SUFFICES ASSUME NEW i \in 1..c PROVE (got \o msg)[i] = q[i]
      OBVIOUS
    <3>1. CASE i <= a
      BY <1>6, <1>10, <2>2, <3>1
    <3>2. CASE a < i
      <4>1. i - a \in 1..c - a /\ a + (i - a) = i /\ i \in 1..Len(q) /\ ~(i <= a)
        BY <1>1, <1>6, <2>1, <3>2
      <4> QED
        BY <1>2, <1>7, <2>2, <4>1
    <3>3. i <= a \/ a < i
      BY <1>6
    <3> QED
      BY <3>1, <3>2, <3>3
  <2>4. IsPrefix(got \o msg, q)
    BY <2>1, <2>2, <2>3, PrefixIs
  <2> QED
    BY <1>3, <1>4, <2>2, <2>4 DEF Flow, E, F
<1>12. ASSUME Last(msg) = Final
       PROVE  /\ IsPrefix(got \o Front(msg), q)
              /\ onlyLast => got \o Front(msg) = q /\ Tail(msgs) = <<>> /\ Len(q) + 1 \in stops
  <2>1. /\ Front(msg) \in Seq(S) /\ Len(Front(msg)) = c - a - 1
        /\ \A i \in 1..c - a - 1 : Front(msg)[i] = msg[i]
    BY <1>5, <1>6, <1>7 DEF Front
  <2>2. /\ got \o Front(msg) \in Seq(S) /\ Len(got \o Front(msg)) = c - 1
        /\ \A i \in 1..c - 1 : (got \o Front(msg))[i] = IF i <= a THEN got[i] ELSE Front(msg)[i - a]
    <3>1. Len(got) + Len(Front(msg)) = c - 1
      BY <1>6, <1>10, <2>1
    <3> DEFINE front == Front(msg)
    <3>2. front \in Seq(S)
      BY <2>1
    <3> HIDE DEF front
    <3>3. /\ got \o front \in Seq(S) /\ Len(got \o front) = Len(got) + Len(front)
          /\ \A i \in 1..Len(got) + Len(front) :
               (got \o front)[i] = IF i <= Len(got) THEN got[i] ELSE front[i - Len(got)]
      BY <3>2, ConcatProperties
    <3> QED
      BY <1>10, <3>1, <3>3 DEF front
  <2>3. \A i \in 1..c - 1 : (got \o Front(msg))[i] = q[i]
    <3> SUFFICES ASSUME NEW i \in 1..c - 1 PROVE (got \o Front(msg))[i] = q[i]
      OBVIOUS
    <3>1. CASE i <= a
      BY <1>6, <1>10, <2>2, <3>1
    <3>2. CASE a < i
      <4>1. /\ i - a \in 1..c - a - 1 /\ i - a \in 1..c - a
            /\ a + (i - a) = i /\ i \in 1..Len(q) /\ ~(i <= a)
        BY <1>1, <1>6, <3>2
      <4> QED
        BY <1>2, <1>7, <2>1, <2>2, <4>1
    <3>3. i <= a \/ a < i
      BY <1>6
    <3> QED
      BY <3>1, <3>2, <3>3
  <2>4. IsPrefix(got \o Front(msg), q)
    <3>1. Len(got \o Front(msg)) <= Len(q)
      BY <1>1, <1>6, <2>2
    <3> QED
      BY <2>2, <2>3, <3>1, PrefixIs
  <2>5. ASSUME onlyLast PROVE c = Len(q) + 1 /\ b = c
    <3>1. ASSUME c <= Len(q) PROVE FALSE
      <4>1. c \in 1..Len(q)
        BY <1>1, <1>6, <3>1
      <4>2. F[c] = q[c] /\ q[c] # Final
        BY <1>1, <1>2, <2>5, <4>1
      <4> QED
        BY <1>8, <1>12, <4>2
    <3>2. c = Len(q) + 1
      BY <1>1, <1>6, <3>1
    <3> QED
      BY <1>4, <1>6, <3>2
  <2>6. onlyLast => got \o Front(msg) = q
    <3> SUFFICES ASSUME onlyLast PROVE got \o Front(msg) = q
      OBVIOUS
    <3>1. c - 1 = Len(q)
      BY <1>1, <2>5
    <3> QED
      BY <2>2, <2>3, <3>1, SeqEqual
  <2>7. ASSUME onlyLast, Tail(msgs) # <<>> PROVE FALSE
    <3> DEFINE rest == Tail(msgs)
    <3>4. rest \in Seq(M) /\ rest # <<>> /\ Stream(F, E, c, rest, b)
      BY <1>4, <1>5, <2>7
    <3> HIDE DEF rest
    <3>1. PICK d \in E : /\ c \in E /\ b \in E /\ c <= d /\ d <= b
                         /\ Head(rest) = SubSeq(F, c + 1, d)
                         /\ Stream(F, E, d, Tail(rest), b)
      BY <1>1, <3>4, StreamHead
    <3>2. d = c
      BY <1>1, <1>6, <2>5, <2>7, <3>1
    <3>3. Head(rest) = <<>>
      <4>1. c + 1 \in Int /\ c \in Int /\ c < c + 1
        BY <1>6
      <4> QED
        BY <3>1, <3>2, <4>1, SubSeqEmpty
    <3> QED
      BY <3>3, <3>4, HeadTailProperties
  <2> QED
    BY <1>3, <2>4, <2>5, <2>6, <2>7
<1> QED
  BY <1>5, <1>11, <1>12 DEF msg, E, AllGot

\* How far a sender may have come.
LEMMA StopsAre ==
  ASSUME NEW S, NEW q \in Seq(S), NEW s, NEW at, NEW n, NEW calm
  PROVE  /\ at = "send" /\ n \in 0..Len(q) + 1 => Stops(s, at, q, n, calm) = {n}
         /\ at = "send" => Stops(s, at, q, n, calm) \subseteq {n}
         /\ at # "send" => Len(q) + 1 \in Stops(s, at, q, n, calm)
         /\ at # "send" /\ (~calm \/ ~HasSent(s, at)) => Stops(s, at, q, n, calm) = 0..Len(q) + 1
         /\ calm /\ HasSent(s, at) => Stops(s, at, q, n, calm) \subseteq {Len(q) + 1}
         /\ Stops(s, at, q, n, calm) \subseteq 0..Len(q) + 1
         /\ HasSent(s, at) => at # "send"
<1>1. Len(q) \in Nat
  BY LenProperties
<1> QED
  BY <1>1 DEF Stops, HasSent

\* A flow that may stop in more places.
LEMMA FlowWiden ==
  ASSUME NEW got, NEW msgs, NEW q, NEW calm, NEW stops, NEW more,
         Flow(got, msgs, q, calm, stops), stops \subseteq more
  PROVE  Flow(got, msgs, q, calm, more)
BY DEF Flow

\* The two sides.
LEMMA SidesAre ==
  /\ Sides = {"client", "worker"} /\ "client" \in Sides /\ "worker" \in Sides
  /\ Peer("client") = "worker" /\ Peer("worker") = "client"
<1>1. ASSUME NEW s \in Sides, NEW t \in Sides, s # t PROVE Peer(s) = t
  <2>1. \A u \in Sides : u # s <=> u = t
    BY <1>1 DEF Sides
  <2> QED
    BY <2>1 DEF Peer
<1> QED
  BY <1>1 DEF Sides

\* All that is kept or under way are sequences over one set.
LEMMA OverOneSet ==
  ASSUME TypeOK
  PROVE  \E S : /\ Final \in S
                /\ file \in Seq(S) /\ Carried(kind, file) \in Seq(S)
                /\ Seq(Said) \subseteq Seq(S) /\ \A s \in Sides : out[s] \in Seq(S)
                /\ wire \in [Sides -> Seq(Seq(S) \ {<<>>})]
<1>1. file \in Seq(Bytes)
  BY FileTransferAssumption DEF TypeOK
<1>2. PICK T : Carried(kind, file) \in Seq(T)
  BY <1>1, CarriedIs
<1> DEFINE S == Bytes \cup {Final, "nul"} \cup T
<1>3. Said \subseteq S /\ Bytes \subseteq S /\ T \subseteq S
  BY DEF Said
<1>4. /\ \A s \in Sides : out[s] \in Seq(Said)
      /\ wire \in [Sides -> Seq(Seq(Said) \ {<<>>})]
  BY DEF TypeOK
<1> HIDE DEF S
<1>5. Seq(Said) \subseteq Seq(S) /\ Seq(Bytes) \subseteq Seq(S) /\ Seq(T) \subseteq Seq(S)
  BY <1>3, SeqMonotonic
<1>6. Seq(Seq(Said) \ {<<>>}) \subseteq Seq(Seq(S) \ {<<>>})
  <2>1. Seq(Said) \ {<<>>} \subseteq Seq(S) \ {<<>>}
    BY <1>5
  <2> QED
    BY <2>1, SeqMonotonic
<1>7. Final \in S
  BY DEF S
<1> QED
  BY <1>1, <1>2, <1>4, <1>5, <1>6, <1>7

\* A part of q does not reach the final byte.
LEMMA PartBeforeFinal ==
  ASSUME NEW S, NEW q \in Seq(S), NEW a \in Nat, NEW b \in a..Len(q)
  PROVE  SubSeq(Append(q, Final), a + 1, b) = SubSeq(q, a + 1, b)
<1> DEFINE T == S \cup {Final}
           F == Append(q, Final)
<1>1. q \in Seq(T) /\ Final \in T
  BY SeqMonotonic
<1> HIDE DEF T
<1>2. /\ Len(q) \in Nat /\ \A i \in 1..Len(q) : F[i] = q[i] /\ q[i] \in T
  BY <1>1, WithFinal, LenProperties
<1> HIDE DEF F
<1>3. /\ a + 1 \in Int /\ b \in Int
      /\ \A i \in a + 1..b : i \in 1..Len(q)
      /\ \A i \in 1..b - (a + 1) + 1 : (a + 1) + i - 1 \in 1..Len(q)
  BY <1>2
<1>4. \A i \in a + 1..b : F[i] \in T /\ q[i] \in T
  BY <1>2, <1>3
<1>5. /\ SubSeq(F, a + 1, b) \in Seq(T) /\ SubSeq(q, a + 1, b) \in Seq(T)
      /\ Len(SubSeq(F, a + 1, b)) = IF a + 1 <= b THEN b - (a + 1) + 1 ELSE 0
      /\ Len(SubSeq(q, a + 1, b)) = IF a + 1 <= b THEN b - (a + 1) + 1 ELSE 0
      /\ \A i \in 1..b - (a + 1) + 1 : /\ SubSeq(F, a + 1, b)[i] = F[(a + 1) + i - 1]
                                       /\ SubSeq(q, a + 1, b)[i] = q[(a + 1) + i - 1]
  BY <1>3, <1>4, SubSeqProperties
<1>6. \A i \in 1..Len(SubSeq(F, a + 1, b)) : SubSeq(F, a + 1, b)[i] = SubSeq(q, a + 1, b)[i]
  BY <1>2, <1>3, <1>5
<1> QED
  BY <1>5, <1>6, SeqEqual DEF F

\* The final byte is the part of q behind its end.
LEMMA PartIsFinal ==
  ASSUME NEW S, NEW q \in Seq(S)
  PROVE  /\ Len(q) \in Nat
         /\ <<Final>> = SubSeq(Append(q, Final), Len(q) + 1, Len(q) + 1)
<1> DEFINE T == S \cup {Final}
           F == Append(q, Final)
           n == Len(q) + 1
<1>1. q \in Seq(T) /\ Final \in T
  BY SeqMonotonic
<1> HIDE DEF T
<1>2. Len(q) \in Nat /\ n \in Nat /\ F[n] = Final
  BY <1>1, WithFinal, LenProperties
<1> HIDE DEF F, n
<1>3. n \in Int /\ n <= n /\ n - n + 1 = 1 /\ 1 \in 1..n - n + 1 /\ n + 1 - 1 = n
      /\ \A i \in n..n : F[i] \in T
  BY <1>1, <1>2
<1>4. /\ SubSeq(F, n, n) \in Seq(T) /\ Len(SubSeq(F, n, n)) = 1
      /\ SubSeq(F, n, n)[1] = Final
  BY <1>2, <1>3, SubSeqProperties
<1>5. SubSeq(F, n, n) = <<Final>>
  <2> DEFINE part == SubSeq(F, n, n)
  <2>1. part \in Seq(T) /\ Len(part) = 1 /\ part[1] = Final
    BY <1>4
  <2> HIDE DEF part
  <2>2. <<Final>> \in Seq(T) /\ Len(<<Final>>) = 1 /\ <<Final>>[1] = Final
    BY <1>1
  <2>3. \A i \in 1..Len(part) : part[i] = <<Final>>[i]
    BY <2>1, <2>2
  <2>4. part = <<Final>>
    BY <2>1, <2>2, <2>3, SeqEqual
  <2> QED
    BY <2>4 DEF part
<1> QED
  BY <1>2, <1>5 DEF F, n

\* The chunk at p is the part of the file up to some e behind p.
LEMMA ChunkIsPart ==
  ASSUME NEW k, NEW B, NEW f \in Seq(B), NEW p \in Nat, p < Len(f)
  PROVE  LET chunk == Chunk(k, f, p)
             cut   == Cut(k, chunk)
             e     == p + Len(chunk)
         IN  /\ e \in p + 1..Len(f) /\ Len(f) \in Nat
             /\ chunk \in Seq(B) /\ chunk # <<>>
             /\ chunk = SubSeq(Append(f, Final), p + 1, e) /\ Last(chunk) = f[e]
             /\ cut \in Seq(B) /\ \A i \in 1..Len(cut) : k = "text" => cut[i] # "nul"
             /\ (\A i \in 1..Len(f) : k = "text" => f[i] # "nul") => cut = chunk
<1> DEFINE chunk == Chunk(k, f, p)
           cut == Cut(k, chunk)
<1>1. Len(f) \in Nat
  BY LenProperties
<1>2. PICK e \in p + 1..Len(f) :
        /\ chunk = SubSeq(f, p + 1, e)
        /\ chunk \in Seq(B) /\ Len(chunk) = e - p
        /\ \A i \in 1..e - p : chunk[i] = f[p + i]
        /\ e <= p + ChunkSize
        /\ \A i \in p + 1..e - 1 : ~EndsLine(k, f, i)
        /\ e = Len(f) \/ e = p + ChunkSize \/ EndsLine(k, f, e)
  BY ChunkIs
<1> HIDE DEF chunk
<1>3. PICK m \in 0..Len(chunk) :
        /\ cut \in Seq(B) /\ Len(cut) = m
        /\ \A i \in 1..m : cut[i] = chunk[i]
        /\ \A i \in 1..m : k = "text" => chunk[i] # "nul"
        /\ m = Len(chunk) => cut = chunk
        /\ m # Len(chunk) => \E i \in 1..Len(chunk) : k = "text" /\ chunk[i] = "nul"
  <2>1. chunk \in Seq(B)
    BY <1>2
  <2> QED
    BY <2>1, CutIs
<1> HIDE DEF cut
<1>4. e = p + Len(chunk) /\ e - p \in 1..e - p /\ p + (e - p) = e /\ chunk # <<>>
  BY <1>1, <1>2
<1>5. chunk = SubSeq(Append(f, Final), p + 1, e)
  <2>1. e \in p..Len(f)
    BY <1>1
  <2> QED
    BY <1>2, <2>1, PartBeforeFinal
<1>6. Last(chunk) = f[e]
  BY <1>2, <1>4 DEF Last
<1>7. ASSUME \A i \in 1..Len(f) : k = "text" => f[i] # "nul" PROVE cut = chunk
  <2>1. ASSUME NEW i \in 1..Len(chunk), k = "text", chunk[i] = "nul" PROVE FALSE
    <3>1. i \in 1..e - p /\ p + i \in 1..Len(f)
      BY <1>1, <1>2
    <3> QED
      BY <1>2, <1>7, <2>1, <3>1
  <2> QED
    BY <1>3, <2>1
<1>8. \A i \in 1..Len(cut) : k = "text" => cut[i] # "nul"
  BY <1>3
<1> QED
  BY <1>1, <1>2, <1>3, <1>4, <1>5, <1>6, <1>7, <1>8 DEF chunk, cut

-------------------------------------------------------------------------------
(* Types. *)

\* Messages of Said, by the bytes in them.
LEMMA SaidIs ==
  /\ Final \in Said /\ <<Final>> \in Seq(Said) \ {<<>>}
  /\ \A q \in Seq(Bytes \cup {Final, "nul"}) :
       (\A i \in 1..Len(q) : kind = "text" => q[i] # "nul") => q \in Seq(Said)
  /\ \A q \in Seq(Said) : \A i \in 1..Len(q) : kind = "text" => q[i] # "nul"
<1>1. Final \in Said
  BY DEF Said, Final
<1>2. <<Final>> \in Seq(Said) \ {<<>>}
  BY <1>1
<1>3. ASSUME NEW q \in Seq(Bytes \cup {Final, "nul"}),
             \A i \in 1..Len(q) : kind = "text" => q[i] # "nul"
      PROVE  q \in Seq(Said)
  <2>1. Len(q) \in Nat /\ q \in [1..Len(q) -> Bytes \cup {Final, "nul"}]
    BY LenProperties
  <2>2. \A i \in 1..Len(q) : q[i] \in Said
    BY <1>3, <2>1 DEF Said
  <2>3. q \in [1..Len(q) -> Said]
    BY <2>1, <2>2
  <2> HIDE DEF Said
  <2> QED
    BY <2>1, <2>3
<1>4. \A q \in Seq(Said) : \A i \in 1..Len(q) : q[i] \in Said
  BY ElementOfSeq
<1>5. \A q \in Seq(Said) : \A i \in 1..Len(q) : kind = "text" => q[i] # "nul"
  BY <1>4 DEF Said
<1> QED
  BY <1>1, <1>2, <1>3, <1>5

\* The worker sends what it has received, and before a recv has failed the client's
\* file is what it has received.
LEMMA ContentOf ==
  ASSUME TypeOK, JunkOK
  PROVE  /\ Content("client") = file /\ Content("worker") = out["worker"]
         /\ junk["client"] = <<>> => Written("client") = out["client"]
<1>1. out["client"] \in Seq(Said) /\ out["worker"] \in Seq(Said)
  BY SidesAre DEF TypeOK
<1>2. \A q \in Seq(Said) : q \o <<>> = q
  BY ConcatEmptySeq
<1>3. junk["worker"] = <<>>
  BY DEF JunkOK
<1> QED
  BY <1>1, <1>2, <1>3 DEF Content, Written

\* What a side sends of its content is Said.
LEMMA ContentIs ==
  ASSUME TypeOK, JunkOK, NEW s \in Sides, pos[s] < Len(Content(s))
  PROVE  /\ pos[s] \in Nat
         /\ Content(s) \in Seq(Bytes \cup {Final, "nul"})
         /\ Chunk(kind, Content(s), pos[s]) \in Seq(Bytes \cup {Final, "nul"})
         /\ Cut(kind, Chunk(kind, Content(s), pos[s])) \in Seq(Said)
         /\ Len(Chunk(kind, Content(s), pos[s])) \in Nat
<1> DEFINE T == Bytes \cup {Final, "nul"}
           f == Content(s)
           cut == Cut(kind, Chunk(kind, f, pos[s]))
<1>1. f \in Seq(T) /\ pos[s] \in Nat
  <2>1. file \in Seq(Bytes) /\ out["worker"] \in Seq(Said) /\ pos[s] \in Nat
    BY FileTransferAssumption, SidesAre DEF TypeOK
  <2>2. Said \subseteq T /\ Bytes \subseteq T
    BY DEF Said
  <2>3. file \in Seq(T) /\ out["worker"] \in Seq(T)
    BY <2>1, <2>2, SeqMonotonic
  <2> QED
    BY <2>1, <2>3, ContentOf, SidesAre
<1> HIDE DEF T, f
<1>2. /\ Chunk(kind, f, pos[s]) \in Seq(T) /\ cut \in Seq(T)
      /\ \A i \in 1..Len(cut) : kind = "text" => cut[i] # "nul"
  BY <1>1, ChunkIsPart DEF f
<1>3. cut \in Seq(Said)
  BY <1>2, SaidIs DEF T
<1>4. Len(Chunk(kind, f, pos[s])) \in Nat
  BY <1>2, LenProperties
<1> QED
  BY <1>1, <1>2, <1>3, <1>4 DEF f, T

\* A send.
LEMMA TransmitType ==
  ASSUME TypeOK, NEW s \in Sides, NEW msg \in Seq(Said), Transmit(s, msg)
  PROVE  wire' \in [Sides -> Seq(Seq(Said) \ {<<>>})] /\ reset' \in SUBSET Sides
<1> DEFINE M == Seq(Said) \ {<<>>}
<1>1. wire \in [Sides -> Seq(M)] /\ reset \in SUBSET Sides
  BY DEF TypeOK
<1>2. msg # <<>> => msg \in M
  OBVIOUS
<1> HIDE DEF M
<1>3. CASE /\ Open(Peer(s)) /\ msg # <<>>
           /\ wire' = [wire EXCEPT ![Peer(s)] = Append(@, msg)]
           /\ UNCHANGED reset
  <2>1. Peer(s) \in Sides
    BY SidesAre
  <2>2. wire[Peer(s)] \in Seq(M)
    BY <1>1, <2>1
  <2>3. Append(wire[Peer(s)], msg) \in Seq(M)
    BY <1>2, <1>3, <2>2, AppendProperties
  <2> QED
    BY <1>1, <1>3, <2>3 DEF M
<1>4. CASE UNCHANGED wire /\ reset' \in {reset, reset \ {s}, reset \cup {s}}
  BY <1>1, <1>4 DEF M
<1> QED
  BY <1>3, <1>4 DEF Transmit

\* A side leaves.
LEMMA LeaveType ==
  ASSUME TypeOK, NEW s \in Sides, NEW how \in {"done", "dead"}, Leave(s, how)
  PROVE  /\ pc' \in [Sides -> Points] /\ reset' \in SUBSET Sides
         /\ wire' \in [Sides -> Seq(Seq(Said) \ {<<>>})]
<1> DEFINE M == Seq(Said) \ {<<>>}
<1>1. wire \in [Sides -> Seq(M)] /\ reset \in SUBSET Sides /\ pc \in [Sides -> Points]
  BY DEF TypeOK
<1> HIDE DEF M
<1>2. Peer(s) \in Sides
  BY SidesAre
<1>3. pc' \in [Sides -> Points]
  BY <1>1 DEF Leave, Points
<1>4. CASE wire[s] = <<>>
  BY <1>1, <1>3, <1>4 DEF Leave, M
<1>5. CASE wire[s] # <<>>
  <2>1. reset' = reset \cup {Peer(s)}
    BY <1>5 DEF Leave
  <2>2. PICK n \in 0..Len(wire[Peer(s)]) :
          wire' = [x \in Sides |-> IF x = Peer(s) THEN SubSeq(wire[Peer(s)], 1, n) ELSE <<>>]
    BY <1>5 DEF Leave
  <2>3. wire[Peer(s)] \in Seq(M)
    BY <1>1, <1>2
  <2>4. SubSeq(wire[Peer(s)], 1, n) \in Seq(M) /\ <<>> \in Seq(M)
    BY <2>3
  <2> QED
    BY <1>1, <1>2, <1>3, <2>1, <2>2, <2>4 DEF M
<1> QED
  BY <1>4, <1>5

-------------------------------------------------------------------------------
(* What sending and leaving do to the flow between two sides. *)

\* A message of q from n to m, sent or, if it is empty, refused.
LEMMA TransmitFlow ==
  ASSUME NEW S, Final \in S, NEW s \in Sides, NEW msg \in Seq(S), Transmit(s, msg),
         wire \in [Sides -> Seq(Seq(S) \ {<<>>})],
         NEW q \in Seq(S), NEW calm, NEW n \in Nat, NEW m \in Ends(q, calm), n <= m,
         msg = SubSeq(Append(q, Final), n + 1, m), NEW got, NEW stops, m \in stops,
         Flow(got, wire[Peer(s)], q, calm, {n}), Open(Peer(s))
  PROVE  Flow(got, wire'[Peer(s)], q, calm, stops)
<1>1. Peer(s) \in Sides
  BY SidesAre
<1>2. CASE /\ msg # <<>>
           /\ wire' = [wire EXCEPT ![Peer(s)] = Append(@, msg)]
  <2> DEFINE M == Seq(S) \ {<<>>}
  <2>1. wire'[Peer(s)] = Append(wire[Peer(s)], msg) /\ wire[Peer(s)] \in Seq(M) /\ msg \in M
    BY <1>1, <1>2
  <2> HIDE DEF M
  <2> QED
    BY <2>1, FlowSend
<1>3. CASE msg = <<>> /\ UNCHANGED wire
  <2>1. m = n
    <3> SUFFICES ASSUME n < m PROVE FALSE
      <4>1. m \in Nat
        BY EndsAre
      <4> QED
        BY <4>1
    <3> DEFINE F == Append(q, Final)
    <3>1. m \in Nat /\ m <= Len(q) + 1 /\ Len(q) \in Nat /\ \A i \in 1..Len(q) + 1 : F[i] \in S
      BY EndsAre, WithFinal
    <3> HIDE DEF F
    <3>2. n + 1 \in Int /\ m \in Int /\ n + 1 <= m /\ \A i \in n + 1..m : F[i] \in S
      BY <3>1
    <3>3. Len(SubSeq(F, n + 1, m)) = m - (n + 1) + 1
      BY <3>2, SubSeqProperties
    <3>4. Len(<<>>) = m - (n + 1) + 1
      BY <1>3, <3>3 DEF F
    <3> QED
      BY <3>1, <3>4
  <2>2. {n} \subseteq stops
    BY <2>1
  <2> QED
    BY <1>3, <2>2, FlowWiden
<1> QED
  BY <1>2, <1>3 DEF Transmit

\* So a sender who has read n bytes of q has read m of them.
LEMMA SendFlow ==
  ASSUME NEW S, Final \in S, NEW s \in Sides, NEW msg \in Seq(S), Transmit(s, msg),
         wire \in [Sides -> Seq(Seq(S) \ {<<>>})], pc[s] = "send",
         NEW q \in Seq(S), NEW calm, NEW n \in Nat, NEW m \in Ends(q, calm), n <= m,
         msg = SubSeq(Append(q, Final), n + 1, m), NEW got, NEW at,
         at = "send" \/ m = Len(q) + 1,
         Receiving(Peer(s), pc[Peer(s)]) =>
           Flow(got, wire[Peer(s)], q, calm, Stops(s, pc[s], q, n, calm))
  PROVE  Receiving(Peer(s), pc[Peer(s)]) =>
           Flow(got, wire'[Peer(s)], q, calm, Stops(s, at, q, m, calm))
<1> SUFFICES ASSUME Receiving(Peer(s), pc[Peer(s)])
             PROVE  Flow(got, wire'[Peer(s)], q, calm, Stops(s, at, q, m, calm))
  OBVIOUS
<1>1. Stops(s, pc[s], q, n, calm) \subseteq {n}
  BY StopsAre
<1>2. Flow(got, wire[Peer(s)], q, calm, {n})
  BY <1>1, FlowWiden
<1>3. Open(Peer(s))
  BY DEF Receiving, Open
<1>4. m \in Stops(s, at, q, m, calm)
  <2>1. m \in 0..Len(q) + 1
    BY EndsAre
  <2>2. CASE at = "send"
    <3>1. Stops(s, at, q, m, calm) = {m}
      BY <2>1, <2>2, StopsAre
    <3> QED
      BY <3>1
  <2>3. CASE at # "send"
    <3>1. Len(q) + 1 \in Stops(s, at, q, m, calm)
      BY <2>3, StopsAre
    <3> QED
      BY <2>3, <3>1
  <2> QED
    BY <2>2, <2>3
<1> QED
  BY <1>2, <1>3, <1>4, TransmitFlow

\* The side that sends hears nothing of it.
LEMMA TransmitElse ==
  ASSUME NEW s \in Sides, NEW msg, NEW M, wire \in [Sides -> M], Transmit(s, msg)
  PROVE  wire'[s] = wire[s] /\ (Open(Peer(s)) => reset' = reset)
<1>1. Peer(s) \in Sides /\ Peer(s) # s
  BY SidesAre
<1> QED
  BY <1>1 DEF Transmit

\* What is under way to the other side may be lost, what is under way to oneself is.
LEMMA LeaveFlow ==
  ASSUME NEW S, NEW s \in Sides, NEW how, Leave(s, how),
         wire \in [Sides -> Seq(Seq(S) \ {<<>>})],
         NEW q \in Seq(S), NEW calm, NEW got, NEW stops, Flow(got, wire[Peer(s)], q, calm, stops)
  PROVE  Flow(got, wire'[Peer(s)], q, calm, 0..Len(q) + 1)
<1>1. Peer(s) \in Sides /\ wire[Peer(s)] \in Seq(Seq(S) \ {<<>>})
  BY SidesAre
<1>2. PICK n \in 0..Len(wire[Peer(s)]) : wire'[Peer(s)] = SubSeq(wire[Peer(s)], 1, n)
  <2>1. CASE wire[s] = <<>>
    <3>1. /\ wire'[Peer(s)] = SubSeq(wire[Peer(s)], 1, Len(wire[Peer(s)]))
          /\ Len(wire[Peer(s)]) \in 0..Len(wire[Peer(s)])
      BY <1>1, <2>1, SubSeqFull, LenProperties DEF Leave
    <3> QED
      BY <3>1
  <2>2. CASE wire[s] # <<>>
    BY <1>1, <2>2 DEF Leave
  <2> QED
    BY <2>1, <2>2
<1> QED
  BY <1>1, <1>2, FlowCut

\* Nothing is under way to a side that has left.
LEMMA LeaveElse ==
  ASSUME NEW s \in Sides, NEW how, Leave(s, how)
  PROVE  wire'[s] = <<>> /\ (wire[s] = <<>> => wire' = wire /\ reset' = reset)
<1>1. Peer(s) \in Sides /\ Peer(s) # s
  BY SidesAre
<1> QED
  BY <1>1 DEF Leave

-------------------------------------------------------------------------------
(* The invariant. *)

\* It is not calm again once it was not.
LEMMA CalmBefore ==
  ASSUME kind' = kind, file' = file, killed \subseteq killed', Calm'
  PROVE  Calm
BY DEF Calm, Unfit

\* While all is calm a sender's peer is there.
LEMMA CalmPeer ==
  ASSUME TypeOK, CalmOK, Calm, NEW s \in Sides, pc[s] = "send"
  PROVE  Open(Peer(s)) /\ reset = {}
<1>1. CASE s = "client"
  BY <1>1, SidesAre DEF CalmOK, Open
<1>2. CASE s = "worker"
  BY <1>2, SidesAre DEF CalmOK, Open
<1> QED
  BY <1>1, <1>2, SidesAre

\* While no recv fails the added bytes stay as they are.
LEMMA JunkStays ==
  ASSUME JunkOK, UNCHANGED <<kind, junk>>,
         pc'["worker"] = "recv" => "worker" \notin reset',
         "client" \in reset' \/ junk["client"] # <<>> => ~Open("worker")',
         junk["client"] # <<>> =>
           /\ out'["client"] = out["client"] /\ wire'["client"] = <<>>
           /\ pc'["client"] # "send" /\ "client" \notin reset'
  PROVE  JunkOK'
BY DEF JunkOK, Written

\* So they do when a side sends,
LEMMA TransmitJunk ==
  ASSUME JunkOK, NEW s \in Sides, pc[s] = "send", NEW msg, Transmit(s, msg),
         UNCHANGED <<kind, out, junk>>,
         s = "worker" => pc'["worker"] # "recv",
         \A t \in Sides \ {s} : pc'[t] = pc[t]
  PROVE  JunkOK'
<1>1. CASE s = "client"
  <2>1. pc'["worker"] = pc["worker"] /\ Peer(s) = "worker" /\ junk["client"] = <<>>
    BY <1>1, SidesAre DEF JunkOK
  <2>2. /\ "worker" \in reset' <=> "worker" \in reset
        /\ "client" \in reset' => "client" \in reset \/ ~Open("worker")
    BY <1>1, <2>1 DEF Transmit
  <2>3. Open("worker")' <=> Open("worker")
    BY <2>1 DEF Open
  <2> QED
    BY <2>1, <2>2, <2>3, JunkStays DEF JunkOK
<1>2. CASE s = "worker"
  <2>1. Open("worker") /\ "client" \notin reset /\ junk["client"] = <<>>
    BY <1>2 DEF JunkOK, Open
  <2>2. "client" \notin reset'
    BY <1>2, <2>1 DEF Transmit
  <2> QED
    BY <1>2, <2>1, <2>2, JunkStays
<1> QED
  BY <1>1, <1>2, SidesAre

\* and when a side leaves.
LEMMA LeaveJunk ==
  ASSUME TypeOK, PosOK, JunkOK, NEW s \in Sides, NEW how \in {"done", "dead"}, Leave(s, how),
         Open(s)
  PROVE  JunkOK'
<1>1. /\ UNCHANGED <<kind, out, junk>> /\ pc'[s] = how /\ wire'[s] = <<>>
      /\ \A t \in Sides \ {s} : pc'[t] = pc[t]
      /\ reset' = IF wire[s] = <<>> THEN reset ELSE reset \cup {Peer(s)}
  BY LeaveElse DEF Leave, TypeOK
<1>2. CASE s = "client"
  <2>1. /\ pc'["worker"] = pc["worker"] /\ pc'["client"] = how /\ wire'["client"] = <<>>
        /\ reset' = IF wire["client"] = <<>> THEN reset ELSE reset \cup {"worker"}
    BY <1>1, <1>2, SidesAre
  <2>2. "client" \in reset' <=> "client" \in reset
    BY <2>1
  <2>3. pc["worker"] = "recv" => reset' = reset
    BY <2>1 DEF PosOK
  <2>4. Open("worker")' <=> Open("worker")
    BY <2>1 DEF Open
  <2> QED
    BY <1>1, <2>1, <2>2, <2>3, <2>4, JunkStays DEF JunkOK
<1>3. CASE s = "worker"
  <2>1. junk["client"] = <<>>
    BY <1>3 DEF JunkOK
  <2>2. pc'["worker"] = how /\ ~Open("worker")'
    BY <1>1, <1>3 DEF Open
  <2> QED
    BY <1>1, <2>1, <2>2, JunkStays
<1> QED
  BY <1>2, <1>3, SidesAre

\* The start.
LEMMA InitInv ==
  ASSUME Init
  PROVE  TransferInv
<1>1. TypeOK
  BY SidesAre DEF Init, TypeOK, Points
<1>12. JunkOK
  BY SidesAre DEF Init, JunkOK
<1>2. PICK S : file \in Seq(S) /\ Carried(kind, file) \in Seq(S)
  BY <1>1, OverOneSet
<1>3. 0 \in Starts(kind, file) \cup {Len(file)} /\ Len(file) \in Nat
  BY <1>2, StartsAtZero, LenProperties
<1>4. /\ out["client"] = <<>> /\ out["worker"] = <<>> /\ wire["client"] = <<>>
      /\ wire["worker"] = <<>> /\ pc["client"] = "send" /\ pc["worker"] = "recv"
      /\ pos["client"] = 0 /\ pos["worker"] = 0
  BY SidesAre DEF Init
<1>5. PosOK
  BY <1>3, <1>4 DEF PosOK
<1>6. Cardinality(Kept(kind, file) \cap 1..0) = 0
  <2>1. Kept(kind, file) \cap 1..0 = {}
    OBVIOUS
  <2> QED
    BY <2>1, FS_EmptySet
<1>7. ASSUME NEW q \in Seq(S), NEW calm PROVE FlowTo("worker", q, 0, calm)
  <2>1. 0 \in Stops("client", "send", q, 0, calm)
    BY <1>7, LenProperties DEF Stops, HasSent
  <2>2. Flow(<<>>, <<>>, q, calm, Stops("client", "send", q, 0, calm))
    BY <2>1, FlowFresh
  <2>3. IsPrefix(<<>>, q)
    BY <2>2 DEF Flow
  <2> QED
    BY <1>4, <2>2, <2>3, SidesAre DEF FlowTo
<1>8. ASSUME NEW calm PROVE FlowTo("client", <<>>, 0, calm)
  <2>1. 0 \in Stops("worker", "recv", <<>>, 0, calm) /\ <<>> \in Seq(S)
    BY DEF Stops, HasSent
  <2>2. Flow(<<>>, <<>>, <<>>, calm, Stops("worker", "recv", <<>>, 0, calm))
    BY <2>1, FlowFresh
  <2>3. IsPrefix(<<>>, <<>>)
    BY <2>2 DEF Flow
  <2> QED
    BY <1>4, <2>2, <2>3, SidesAre DEF FlowTo
<1>9. FlowOK
  BY <1>2, <1>4, <1>6, <1>7, <1>8 DEF FlowOK
<1>10. reset = {} /\ junk["client"] = <<>> /\ \A s \in Sides : pc[s] # "dead"
  BY SidesAre DEF Init
<1>11. CalmOK
  BY <1>2, <1>3, <1>4, <1>7, <1>8, <1>10 DEF CalmOK
<1> QED
  BY <1>1, <1>5, <1>9, <1>11, <1>12 DEF TransferInv

\* A chunk.
LEMMA SendChunkInv ==
  ASSUME TransferInv, NEW s \in Sides, SendChunk(s)
  PROVE  TransferInv'
<1> DEFINE f == Content(s)
           chunk == Chunk(kind, f, pos[s])
           msg == Cut(kind, chunk)
           e == pos[s] + Len(chunk)
<1>1. TypeOK /\ PosOK /\ JunkOK /\ FlowOK /\ CalmOK
  BY DEF TransferInv
<1>2. PICK S : /\ Final \in S /\ file \in Seq(S) /\ Carried(kind, file) \in Seq(S)
               /\ Seq(Said) \subseteq Seq(S) /\ \A t \in Sides : out[t] \in Seq(S)
               /\ wire \in [Sides -> Seq(Seq(S) \ {<<>>})]
  BY <1>1, OverOneSet
<1>3. /\ pc[s] = "send" /\ pos[s] < Len(f) /\ Transmit(s, msg)
      /\ pos' = [pos EXCEPT ![s] = e]
      /\ UNCHANGED <<kind, file, pc, out, junk, killed>>
  BY DEF SendChunk
<1>4. /\ pos[s] \in Nat /\ f \in Seq(Bytes \cup {Final, "nul"}) /\ Len(chunk) \in Nat
      /\ msg \in Seq(Said) /\ msg \in Seq(S)
  BY <1>1, <1>2, <1>3, ContentIs
<1>5. TypeOK'
  <2>1. wire' \in [Sides -> Seq(Seq(Said) \ {<<>>})] /\ reset' \in SUBSET Sides
    BY <1>1, <1>3, <1>4, TransmitType
  <2>2. pos \in [Sides -> Nat] /\ e \in Nat
    BY <1>1, <1>4 DEF TypeOK
  <2>3. pos' \in [Sides -> Nat]
    BY <1>3, <2>2
  <2> QED
    BY <1>1, <1>3, <2>1, <2>3 DEF TypeOK, Said
<1>6. /\ e \in pos[s] + 1..Len(f) /\ Len(f) \in Nat
      /\ chunk = SubSeq(Append(f, Final), pos[s] + 1, e) /\ Last(chunk) = f[e]
      /\ (\A i \in 1..Len(f) : kind = "text" => f[i] # "nul") => msg = chunk
  <2> HIDE DEF f
  <2>1. pos[s] \in Nat /\ pos[s] < Len(f) /\ f \in Seq(Bytes \cup {Final, "nul"})
    BY <1>3, <1>4
  <2> QED
    BY <2>1, ChunkIsPart
<1>7. Calm' => Calm /\ Open(Peer(s)) /\ reset' = {}
  <2>1. ASSUME Calm' PROVE Calm
    BY <1>3, <2>1, CalmBefore
  <2>2. ASSUME Calm PROVE Open(Peer(s)) /\ reset = {}
    BY <1>1, <1>3, <2>2, CalmPeer
  <2>3. Open(Peer(s)) => reset' = reset
    BY <1>2, <1>3, TransmitElse
  <2> QED
    BY <2>1, <2>2, <2>3
<1>8. wire'[s] = wire[s]
  BY <1>2, <1>3, TransmitElse
<1>11. JunkOK'
  <2>1. s = "worker" => pc'["worker"] # "recv"
    BY <1>3
  <2> HIDE DEF msg
  <2> QED
    BY <1>1, <1>3, <2>1, TransmitJunk
<1>9. CASE s = "client"
  <2>1. Peer(s) = "worker" /\ f = file /\ file \in Seq(Bytes)
    BY <1>1, <1>9, SidesAre, ContentOf, FileTransferAssumption DEF TypeOK
  <2> HIDE DEF f
  <2>2. pos["client"] \in Starts(kind, file)
    <3>1. pos["client"] \in Starts(kind, file) \cup {Len(file)} /\ pos["client"] < Len(file)
      BY <1>1, <1>3, <1>9, <2>1 DEF PosOK
    <3> QED
      BY <1>6, <2>1, <3>1
  <2>3. e \in Starts(kind, file) \cup {Len(file)}
    BY <1>9, <2>1, <2>2, StartsApart
  <2>4. pos'["client"] = e /\ pos'["worker"] = pos["worker"]
    BY <1>1, <1>3, <1>9, SidesAre DEF TypeOK
  <2>5. PosOK'
    BY <1>1, <1>3, <1>8, <1>9, <2>3, <2>4 DEF PosOK
  <2> DEFINE q == Carried(kind, file)
             n == Cardinality(Kept(kind, file) \cap 1..pos["client"])
             m == Cardinality(Kept(kind, file) \cap 1..e)
  <2>6. n \in Nat /\ m \in n..Len(q) /\ msg = SubSeq(q, n + 1, m)
    BY <1>2, <1>9, <2>1, <2>2, CarriedNext
  <2> HIDE DEF q, n, m, msg, chunk, e
  <2>7. FlowTo("worker", Carried(kind, file), Cardinality(Kept(kind, file) \cap 1..pos["client"]), FALSE)'
    <3>1. q \in Seq(S) /\ IsPrefix(out["worker"], q)
          /\ (Receiving("worker", pc["worker"]) =>
                Flow(out["worker"], wire["worker"], q, FALSE, Stops("client", pc["client"], q, n, FALSE)))
      BY <1>1, <1>2, SidesAre DEF FlowOK, FlowTo, q, n
    <3>2. m \in Ends(q, FALSE) /\ n <= m /\ m \in 0..Len(q) + 1
      BY <2>6, <3>1, LenProperties DEF Ends
    <3>3. msg = SubSeq(Append(q, Final), n + 1, m)
      BY <2>6, <3>1, PartBeforeFinal
    <3>4. Receiving("worker", pc["worker"]) =>
            Flow(out["worker"], wire'["worker"], q, FALSE, Stops("client", "send", q, m, FALSE))
      BY <1>2, <1>3, <1>4, <1>9, <2>1, <2>6, <3>1, <3>2, <3>3, SendFlow
    <3> QED
      BY <1>3, <1>9, <2>4, <3>1, <3>4, SidesAre DEF FlowTo, q, m
  <2>8. FlowTo("client", out["worker"], pos["worker"], FALSE)'
    BY <1>1, <1>3, <1>8, <1>9, <2>4, SidesAre DEF FlowOK, FlowTo
  <2>9. FlowOK'
    BY <2>7, <2>8 DEF FlowOK
  <2>10. CalmOK'
    <3> SUFFICES ASSUME Calm' PROVE CalmOK'
      BY DEF CalmOK
    <3>1. Calm /\ Open("worker") /\ reset' = {}
      BY <1>7, <2>1
    <3>2. /\ junk["client"] = <<>> /\ \A t \in Sides : pc[t] # "dead"
          /\ FlowTo("worker", file, pos["client"], TRUE)
          /\ FlowTo("client", out["worker"], pos["worker"], TRUE)
          /\ pos["worker"] \in Starts(kind, file) \cup {Len(file)}
          /\ pc["worker"] = "recv"
      BY <1>1, <1>3, <1>9, <3>1 DEF CalmOK
    <3>3. Last(chunk) # Final /\ msg = chunk
      BY <1>9, <2>1, <2>2, <3>1 DEF Calm, Unfit, msg, chunk
    <3>4. e \in Ends(file, TRUE) /\ pos["client"] <= e
      BY <1>4, <1>6, <1>9, <2>1, <3>3 DEF Ends
    <3>5. msg = SubSeq(Append(file, Final), pos["client"] + 1, e)
      BY <1>6, <1>9, <2>1, <3>3
    <3>6. /\ IsPrefix(out["worker"], file)
          /\ Receiving("worker", pc["worker"]) =>
               Flow(out["worker"], wire["worker"], file, TRUE, Stops("client", pc["client"], file, pos["client"], TRUE))
      BY <3>2, SidesAre DEF FlowTo
    <3>7. Receiving("worker", pc["worker"]) =>
            Flow(out["worker"], wire'["worker"], file, TRUE, Stops("client", "send", file, e, TRUE))
      BY <1>2, <1>3, <1>4, <1>9, <2>1, <3>4, <3>5, <3>6, SendFlow
    <3>8. FlowTo("worker", file, pos["client"], TRUE)'
      BY <1>3, <1>9, <2>4, <3>6, <3>7, SidesAre DEF FlowTo
    <3>9. FlowTo("client", out["worker"], pos["worker"], TRUE)'
      BY <1>3, <1>8, <1>9, <2>4, <3>2, SidesAre DEF FlowTo
    <3> QED
      BY <1>3, <1>9, <2>4, <3>1, <3>2, <3>8, <3>9 DEF CalmOK
  <2> QED
    BY <1>5, <1>11, <2>5, <2>9, <2>10 DEF TransferInv
<1>10. CASE s = "worker"
  <2>1. Peer(s) = "client" /\ f = out["worker"]
    BY <1>1, <1>10, SidesAre, ContentOf
  <2> HIDE DEF f
  <2>2. pos'["worker"] = e /\ pos'["client"] = pos["client"] /\ e \in Nat
    BY <1>1, <1>3, <1>4, <1>10, SidesAre DEF TypeOK
  <2>3. PosOK'
    BY <1>1, <1>3, <1>6, <1>10, <2>1, <2>2 DEF PosOK
  <2>4. msg = chunk
    <3>1. out["worker"] \in Seq(Said)
      BY <1>1, SidesAre DEF TypeOK
    <3> QED
      BY <1>6, <2>1, <3>1, SaidIs
  <2> HIDE DEF msg, chunk, e
  <2>5. FlowTo("worker", Carried(kind, file), Cardinality(Kept(kind, file) \cap 1..pos["client"]), FALSE)'
    BY <1>1, <1>3, <1>8, <1>10, <2>2, SidesAre DEF FlowOK, FlowTo
  <2> DEFINE q == out["worker"]
  <2>6. q \in Seq(S) /\ pos["worker"] <= e
        /\ msg = SubSeq(Append(q, Final), pos["worker"] + 1, e)
    <3>1. q \in Seq(S)
      BY <1>2, SidesAre
    <3>2. pos["worker"] <= e
      BY <1>4, <1>6, <1>10
    <3> QED
      BY <1>6, <1>10, <2>1, <2>4, <3>1, <3>2
  <2>7. ASSUME NEW calm, FlowTo("client", q, pos["worker"], calm), e \in Ends(q, calm)
        PROVE  FlowTo("client", out["worker"], pos["worker"], calm)'
    <3>1. /\ IsPrefix(out["client"], q)
          /\ Receiving("client", pc["client"]) =>
               Flow(out["client"], wire["client"], q, calm, Stops("worker", pc["worker"], q, pos["worker"], calm))
      BY <2>7, SidesAre DEF FlowTo
    <3>2. Receiving("client", pc["client"]) =>
            Flow(out["client"], wire'["client"], q, calm, Stops("worker", "send", q, e, calm))
      BY <1>2, <1>3, <1>4, <1>10, <2>1, <2>6, <2>7, <3>1, SendFlow
    <3> QED
      BY <1>3, <1>10, <2>2, <3>1, <3>2, SidesAre DEF FlowTo
  <2>8. FlowOK'
    <3>1. e \in Ends(q, FALSE)
      BY <1>4, <1>6, <1>10, <2>1 DEF Ends
    <3>2. FlowTo("client", q, pos["worker"], FALSE)
      BY <1>1 DEF FlowOK
    <3>3. FlowTo("client", out["worker"], pos["worker"], FALSE)'
      BY <2>7, <3>1, <3>2
    <3> QED
      BY <2>5, <3>3 DEF FlowOK
  <2>9. CalmOK'
    <3> SUFFICES ASSUME Calm' PROVE CalmOK'
      BY DEF CalmOK
    <3>1. Calm /\ Open("client") /\ reset' = {}
      BY <1>7, <2>1
    <3>2. /\ junk["client"] = <<>> /\ \A t \in Sides : pc[t] # "dead"
          /\ FlowTo("worker", file, pos["client"], TRUE)
          /\ FlowTo("client", out["worker"], pos["worker"], TRUE)
          /\ pos["worker"] \in Starts(kind, file) \cup {Len(file)}
          /\ out["worker"] = file /\ wire["worker"] = <<>> /\ pc["client"] # "send"
          /\ pc["client"] \notin {"close", "done"}
      BY <1>1, <1>3, <1>10, <3>1 DEF CalmOK
    <3>3. pos["worker"] \in Starts(kind, file) /\ f = file /\ file \in Seq(Bytes)
      BY <1>1, <1>3, <1>6, <1>10, <2>1, <3>2, FileTransferAssumption DEF TypeOK
    <3>4. Last(chunk) # Final
      BY <1>10, <3>1, <3>3 DEF Calm, Unfit, chunk
    <3>5. e \in Ends(q, TRUE)
      BY <1>4, <1>6, <1>10, <2>1, <3>4 DEF Ends
    <3>6. FlowTo("client", out["worker"], pos["worker"], TRUE)'
      BY <2>7, <3>2, <3>5
    <3>7. FlowTo("worker", file, pos["client"], TRUE)'
      BY <1>3, <1>8, <1>10, <2>2, <3>2, SidesAre DEF FlowTo
    <3>8. e \in Starts(kind, file) \cup {Len(file)}
      BY <1>10, <3>3, StartsApart DEF e, chunk
    <3> QED
      BY <1>3, <1>8, <1>10, <2>2, <3>1, <3>2, <3>6, <3>7, <3>8 DEF CalmOK
  <2> QED
    BY <1>5, <1>11, <2>3, <2>8, <2>9 DEF TransferInv
<1> QED
  BY <1>9, <1>10, SidesAre

\* The end of the file.
LEMMA SendFinalInv ==
  ASSUME TransferInv, NEW s \in Sides, SendFinal(s)
  PROVE  TransferInv'
<1> DEFINE after == IF s = "client" THEN "recv" ELSE "close"
<1>1. TypeOK /\ PosOK /\ JunkOK /\ FlowOK /\ CalmOK
  BY DEF TransferInv
<1>2. PICK S : /\ Final \in S /\ file \in Seq(S) /\ Carried(kind, file) \in Seq(S)
               /\ Seq(Said) \subseteq Seq(S) /\ \A t \in Sides : out[t] \in Seq(S)
               /\ wire \in [Sides -> Seq(Seq(S) \ {<<>>})]
  BY <1>1, OverOneSet
<1>3. /\ pc[s] = "send" /\ pos[s] = Len(Content(s)) /\ Transmit(s, <<Final>>)
      /\ pc' = [pc EXCEPT ![s] = after]
      /\ UNCHANGED <<kind, file, pos, out, junk, killed>>
  BY DEF SendFinal
<1>4. <<Final>> \in Seq(Said) /\ <<Final>> \in Seq(S)
  BY <1>2, SaidIs
<1>5. TypeOK'
  <2>1. wire' \in [Sides -> Seq(Seq(Said) \ {<<>>})] /\ reset' \in SUBSET Sides
    BY <1>1, <1>3, <1>4, TransmitType
  <2>2. pc' \in [Sides -> Points]
    BY <1>1, <1>3 DEF TypeOK, Points
  <2> QED
    BY <1>1, <1>3, <2>1, <2>2 DEF TypeOK, Said
<1>6. Calm' => Calm /\ Open(Peer(s)) /\ reset' = {}
  <2>1. ASSUME Calm' PROVE Calm
    BY <1>3, <2>1, CalmBefore
  <2>2. ASSUME Calm PROVE Open(Peer(s)) /\ reset = {}
    BY <1>1, <1>3, <2>2, CalmPeer
  <2>3. Open(Peer(s)) => reset' = reset
    BY <1>2, <1>3, TransmitElse
  <2> QED
    BY <2>1, <2>2, <2>3
<1>7. wire'[s] = wire[s] /\ pc'[s] = after /\ \A t \in Sides \ {s} : pc'[t] = pc[t]
  <2>1. wire'[s] = wire[s]
    BY <1>2, <1>3, TransmitElse
  <2> QED
    BY <1>1, <1>3, <2>1 DEF TypeOK
<1>11. JunkOK'
  <2>1. s = "worker" => pc'["worker"] # "recv"
    BY <1>7
  <2> HIDE DEF after
  <2> QED
    BY <1>1, <1>3, <1>7, <2>1, TransmitJunk
<1>8. ASSUME NEW q \in Seq(S), NEW calm, NEW got,
             Receiving(Peer(s), pc[Peer(s)]) =>
               Flow(got, wire[Peer(s)], q, calm, Stops(s, pc[s], q, Len(q), calm)),
             NEW n
      PROVE  Receiving(Peer(s), pc[Peer(s)]) =>
               Flow(got, wire'[Peer(s)], q, calm, Stops(s, after, q, n, calm))
  <2>1. /\ Len(q) \in Nat /\ Len(q) + 1 \in Ends(q, calm) /\ Len(q) <= Len(q) + 1
        /\ <<Final>> = SubSeq(Append(q, Final), Len(q) + 1, Len(q) + 1)
    BY PartIsFinal, EndsAre
  <2>2. Stops(s, after, q, Len(q) + 1, calm) = Stops(s, after, q, n, calm)
    BY DEF Stops
  <2> HIDE DEF after
  <2> QED
    BY <1>2, <1>3, <1>4, <1>8, <2>1, <2>2, SendFlow
<1>9. CASE s = "client"
  <2>1. /\ Peer(s) = "worker" /\ Len(file) \in Nat /\ pos["client"] = Len(file)
        /\ pc'["client"] = "recv" /\ pc'["worker"] = pc["worker"] /\ pc["client"] = "send"
    BY <1>1, <1>2, <1>3, <1>7, <1>9, SidesAre, LenProperties, ContentOf
  <2>2. PosOK'
    BY <1>1, <1>3, <1>7, <1>9, <2>1 DEF PosOK
  <2> DEFINE q == Carried(kind, file)
             n == Cardinality(Kept(kind, file) \cap 1..pos["client"])
  <2>3. q \in Seq(S) /\ n = Len(q)
    <3>1. Kept(kind, file) \subseteq 1..Len(file) /\ Len(q) = Cardinality(Kept(kind, file))
      BY <1>2, KeptFinite, CarriedIs
    <3>2. Kept(kind, file) \cap 1..pos["client"] = Kept(kind, file)
      BY <2>1, <3>1
    <3> QED
      BY <1>2, <3>1, <3>2
  <2> HIDE DEF q, n
  <2>4. FlowTo("worker", Carried(kind, file), Cardinality(Kept(kind, file) \cap 1..pos["client"]), FALSE)'
    <3>1. /\ IsPrefix(out["worker"], q)
          /\ Receiving("worker", pc["worker"]) =>
               Flow(out["worker"], wire["worker"], q, FALSE, Stops("client", pc["client"], q, Len(q), FALSE))
      BY <1>1, <2>3, SidesAre DEF FlowOK, FlowTo, q, n
    <3>2. Receiving("worker", pc["worker"]) =>
            Flow(out["worker"], wire'["worker"], q, FALSE, Stops("client", "recv", q, n, FALSE))
      BY <1>8, <1>9, <2>1, <2>3, <3>1
    <3> QED
      BY <1>3, <2>1, <3>1, <3>2, SidesAre DEF FlowTo, q, n
  <2>5. FlowTo("client", out["worker"], pos["worker"], FALSE)'
    BY <1>1, <1>3, <1>7, <1>9, <2>1, SidesAre DEF FlowOK, FlowTo, Receiving
  <2>6. FlowOK'
    BY <2>4, <2>5 DEF FlowOK
  <2>7. CalmOK'
    <3> SUFFICES ASSUME Calm' PROVE CalmOK'
      BY DEF CalmOK
    <3>1. Calm /\ Open("worker") /\ reset' = {}
      BY <1>6, <2>1
    <3>2. /\ junk["client"] = <<>> /\ \A t \in Sides : pc[t] # "dead"
          /\ FlowTo("worker", file, pos["client"], TRUE)
          /\ FlowTo("client", out["worker"], pos["worker"], TRUE)
          /\ pos["worker"] \in Starts(kind, file) \cup {Len(file)}
          /\ pc["worker"] = "recv"
      BY <1>1, <2>1, <3>1 DEF CalmOK
    <3>3. /\ IsPrefix(out["worker"], file)
          /\ Receiving("worker", pc["worker"]) =>
               Flow(out["worker"], wire["worker"], file, TRUE, Stops("client", pc["client"], file, Len(file), TRUE))
      BY <2>1, <3>2, SidesAre DEF FlowTo
    <3>4. Receiving("worker", pc["worker"]) =>
            Flow(out["worker"], wire'["worker"], file, TRUE, Stops("client", "recv", file, pos["client"], TRUE))
      BY <1>2, <1>8, <1>9, <2>1, <3>3
    <3>5. FlowTo("worker", file, pos["client"], TRUE)'
      BY <1>3, <2>1, <3>3, <3>4, SidesAre DEF FlowTo
    <3>6. FlowTo("client", out["worker"], pos["worker"], TRUE)'
      BY <1>3, <1>7, <1>9, <2>1, <3>2, SidesAre DEF FlowTo, Receiving
    <3>7. \A t \in Sides : pc'[t] # "dead"
      BY <2>1, <3>2, SidesAre
    <3> QED
      BY <1>3, <2>1, <3>1, <3>2, <3>5, <3>6, <3>7 DEF CalmOK
  <2> QED
    BY <1>5, <1>11, <2>2, <2>6, <2>7 DEF TransferInv
<1>10. CASE s = "worker"
  <2>1. /\ Peer(s) = "client" /\ pos["worker"] = Len(out["worker"])
        /\ pc'["worker"] = "close" /\ pc'["client"] = pc["client"] /\ pc["worker"] = "send"
    BY <1>1, <1>3, <1>7, <1>10, SidesAre, ContentOf
  <2>2. PosOK'
    BY <1>1, <1>3, <2>1 DEF PosOK
  <2>3. FlowTo("worker", Carried(kind, file), Cardinality(Kept(kind, file) \cap 1..pos["client"]), FALSE)'
    BY <1>1, <1>3, <2>1, SidesAre DEF FlowOK, FlowTo, Receiving
  <2> DEFINE q == out["worker"]
  <2>4. q \in Seq(S)
    BY <1>2, SidesAre
  <2>5. ASSUME NEW calm, FlowTo("client", q, pos["worker"], calm)
        PROVE  FlowTo("client", out["worker"], pos["worker"], calm)'
    <3>1. /\ IsPrefix(out["client"], q)
          /\ Receiving("client", pc["client"]) =>
               Flow(out["client"], wire["client"], q, calm, Stops("worker", pc["worker"], q, Len(q), calm))
      BY <2>1, <2>5, SidesAre DEF FlowTo
    <3>2. Receiving("client", pc["client"]) =>
            Flow(out["client"], wire'["client"], q, calm, Stops("worker", "close", q, pos["worker"], calm))
      BY <1>8, <1>10, <2>1, <2>4, <3>1
    <3> QED
      BY <1>3, <2>1, <3>1, <3>2, SidesAre DEF FlowTo
  <2>6. FlowOK'
    <3>1. FlowTo("client", q, pos["worker"], FALSE)
      BY <1>1 DEF FlowOK
    <3>2. FlowTo("client", out["worker"], pos["worker"], FALSE)'
      BY <2>5, <3>1
    <3> QED
      BY <2>3, <3>2 DEF FlowOK
  <2>7. CalmOK'
    <3> SUFFICES ASSUME Calm' PROVE CalmOK'
      BY DEF CalmOK
    <3>1. Calm /\ Open("client") /\ reset' = {}
      BY <1>6, <2>1
    <3>2. /\ junk["client"] = <<>> /\ \A t \in Sides : pc[t] # "dead"
          /\ FlowTo("worker", file, pos["client"], TRUE)
          /\ FlowTo("client", out["worker"], pos["worker"], TRUE)
          /\ pos["worker"] \in Starts(kind, file) \cup {Len(file)}
          /\ out["worker"] = file /\ wire["worker"] = <<>> /\ pc["client"] # "send"
          /\ pc["client"] \notin {"close", "done"}
      BY <1>1, <2>1, <3>1 DEF CalmOK
    <3>3. FlowTo("client", out["worker"], pos["worker"], TRUE)'
      BY <2>5, <3>2
    <3>4. FlowTo("worker", file, pos["client"], TRUE)'
      BY <1>3, <2>1, <3>2, SidesAre DEF FlowTo, Receiving
    <3>5. \A t \in Sides : pc'[t] # "dead"
      BY <2>1, <3>2, SidesAre
    <3> QED
      BY <1>3, <1>7, <1>10, <2>1, <3>1, <3>2, <3>3, <3>4, <3>5 DEF CalmOK
  <2> QED
    BY <1>5, <1>11, <2>2, <2>6, <2>7 DEF TransferInv
<1> QED
  BY <1>9, <1>10, SidesAre

\* A side leaves: whatever the reason, the rest of the invariant bar calm.
LEMMA LeaveInv ==
  ASSUME TransferInv, NEW s \in Sides, NEW how \in {"done", "dead"}, Leave(s, how),
         Open(s), killed' \in SUBSET Sides
  PROVE  TypeOK' /\ PosOK' /\ JunkOK' /\ FlowOK'
<1>1. TypeOK /\ PosOK /\ JunkOK /\ FlowOK /\ CalmOK
  BY DEF TransferInv
<1>2. PICK S : /\ Final \in S /\ file \in Seq(S) /\ Carried(kind, file) \in Seq(S)
               /\ Seq(Said) \subseteq Seq(S) /\ \A t \in Sides : out[t] \in Seq(S)
               /\ wire \in [Sides -> Seq(Seq(S) \ {<<>>})]
  BY <1>1, OverOneSet
<1>3. UNCHANGED <<kind, file, pos, out, junk>> /\ pc' = [pc EXCEPT ![s] = how]
  BY DEF Leave
<1>4. TypeOK'
  <2>1. /\ wire' \in [Sides -> Seq(Seq(Said) \ {<<>>})] /\ reset' \in SUBSET Sides
        /\ pc' \in [Sides -> Points]
    BY <1>1, LeaveType
  <2> QED
    BY <1>1, <1>3, <2>1 DEF TypeOK, Said
<1>5. /\ pc'[s] = how /\ pc'[Peer(s)] = pc[Peer(s)] /\ wire'[s] = <<>>
      /\ wire[s] = <<>> => wire' = wire
  <2>1. Peer(s) \in Sides /\ Peer(s) # s /\ wire'[s] = <<>> /\ (wire[s] = <<>> => wire' = wire)
    BY SidesAre, LeaveElse
  <2> QED
    BY <1>1, <1>3, <2>1 DEF TypeOK
<1>6. PosOK'
  <2>1. ASSUME pc'["worker"] = "recv"
        PROVE  s = "client" /\ pc["worker"] = "recv" /\ wire'["client"] = <<>>
    BY <1>5, <2>1, SidesAre
  <2> QED
    BY <1>1, <1>3, <2>1 DEF PosOK
<1>7. ASSUME NEW q \in Seq(S), NEW n, NEW m, FlowTo(Peer(s), q, n, FALSE)
      PROVE  /\ IsPrefix(out[Peer(s)], q)
             /\ Receiving(Peer(s), pc[Peer(s)]) =>
                  Flow(out[Peer(s)], wire'[Peer(s)], q, FALSE, Stops(s, how, q, m, FALSE))
  <2>1. /\ IsPrefix(out[Peer(s)], q)
        /\ Receiving(Peer(s), pc[Peer(s)]) =>
             Flow(out[Peer(s)], wire[Peer(s)], q, FALSE, Stops(s, pc[s], q, n, FALSE))
    BY <1>7, SidesAre DEF FlowTo
  <2>2. Stops(s, how, q, m, FALSE) = 0..Len(q) + 1
    BY StopsAre
  <2>3. ASSUME Receiving(Peer(s), pc[Peer(s)])
        PROVE  Flow(out[Peer(s)], wire'[Peer(s)], q, FALSE, 0..Len(q) + 1)
    BY <1>2, <2>1, <2>3, LeaveFlow
  <2> QED
    BY <2>1, <2>2, <2>3
<1>8. ~Receiving(s, how)
  BY DEF Receiving
<1> DEFINE c == Carried(kind, file)
           w == out["worker"]
           n == Cardinality(Kept(kind, file) \cap 1..pos["client"])
<1>9. FlowTo("worker", c, n, FALSE) /\ FlowTo("client", w, pos["worker"], FALSE)
      /\ c \in Seq(S) /\ w \in Seq(S)
  BY <1>1, <1>2, SidesAre DEF FlowOK
<1>10. c' = c /\ n' = n /\ w' = w
  BY <1>3
<1> HIDE DEF c, n, w
<1>11. FlowTo("worker", c, n, FALSE)'
  <2>1. CASE s = "client"
    BY <1>3, <1>5, <1>7, <1>9, <1>10, <2>1, SidesAre DEF FlowTo
  <2>2. CASE s = "worker"
    BY <1>3, <1>5, <1>8, <1>9, <1>10, <2>2, SidesAre DEF FlowTo
  <2> QED
    BY <2>1, <2>2, SidesAre
<1>12. FlowTo("client", w, pos["worker"], FALSE)'
  <2>1. CASE s = "worker"
    BY <1>3, <1>5, <1>7, <1>9, <1>10, <2>1, SidesAre DEF FlowTo
  <2>2. CASE s = "client"
    BY <1>3, <1>5, <1>8, <1>9, <1>10, <2>2, SidesAre DEF FlowTo
  <2> QED
    BY <2>1, <2>2, SidesAre
<1> QED
  BY <1>1, <1>4, <1>6, <1>11, <1>12, LeaveJunk DEF FlowOK, c, w, n

\* A side closes the connection when it is done; in calm, with nothing left unread.
LEMMA CloseInv ==
  ASSUME TransferInv, NEW s \in Sides, Close(s)
  PROVE  TransferInv'
<1>1. TypeOK /\ PosOK /\ JunkOK /\ FlowOK /\ CalmOK
  BY DEF TransferInv
<1>2. /\ pc[s] = "close" /\ Leave(s, "done") /\ killed' = killed
      /\ UNCHANGED <<kind, file, pos, out, junk>> /\ pc' = [pc EXCEPT ![s] = "done"]
      /\ Open(s)
  BY DEF Close, Leave, Open
<1>3. TypeOK' /\ PosOK' /\ JunkOK' /\ FlowOK'
  <2>1. killed' \in SUBSET Sides
    BY <1>1, <1>2 DEF TypeOK
  <2> QED
    BY <1>2, <2>1, LeaveInv
<1>4. CalmOK'
  <2> SUFFICES ASSUME Calm' PROVE CalmOK'
    BY DEF CalmOK
  <2>1. Calm
    BY <1>2, CalmBefore
  <2>2. /\ reset = {} /\ junk["client"] = <<>> /\ \A t \in Sides : pc[t] # "dead"
        /\ FlowTo("worker", file, pos["client"], TRUE)
        /\ FlowTo("client", out["worker"], pos["worker"], TRUE)
        /\ pos["worker"] \in Starts(kind, file) \cup {Len(file)}
        /\ IF pc["worker"] = "recv"
           THEN pc["client"] \in {"send", "recv"}
           ELSE out["worker"] = file /\ wire["worker"] = <<>> /\ pc["client"] # "send"
        /\ pc["client"] \in {"close", "done"} =>
             out["client"] = file /\ wire["client"] = <<>> /\ pc["worker"] \in {"close", "done"}
    BY <1>1, <2>1 DEF CalmOK
  <2>3. wire[s] = <<>>
    BY <1>2, <2>2, SidesAre
  <2>4. wire' = wire /\ reset' = reset
    BY <1>2, <2>3, LeaveElse
  <2>5. pc'[s] = "done" /\ \A t \in Sides \ {s} : pc'[t] = pc[t]
    BY <1>1, <1>2 DEF TypeOK
  <2>6. FlowTo("worker", file, pos["client"], TRUE)'
    <3>1. ~Receiving("worker", pc'["worker"])
      BY <1>2, <2>2, <2>5, SidesAre DEF Receiving
    <3> QED
      BY <1>2, <2>2, <3>1 DEF FlowTo
  <2>7. FlowTo("client", out["worker"], pos["worker"], TRUE)'
    <3>1. CASE s = "client"
      <4>1. ~Receiving("client", pc'["client"])
        BY <2>5, <3>1, SidesAre DEF Receiving
      <4> QED
        BY <1>2, <2>2, <4>1 DEF FlowTo
    <3>2. CASE s = "worker"
      <4>1. pc["worker"] = "close" /\ pc'["worker"] = "done" /\ pc'["client"] = pc["client"]
        BY <1>2, <2>5, <3>2, SidesAre
      <4>2. \A q, n : Stops("worker", "close", q, n, TRUE) = Stops("worker", "done", q, n, TRUE)
        BY DEF Stops, HasSent
      <4>3. /\ IsPrefix(out["client"], out["worker"])
            /\ Receiving("client", pc["client"]) =>
                 Flow(out["client"], wire["client"], out["worker"], TRUE,
                      Stops("worker", "done", out["worker"], pos["worker"], TRUE))
        BY <2>2, <4>1, <4>2, SidesAre DEF FlowTo
      <4> QED
        BY <1>2, <2>4, <4>1, <4>3, SidesAre DEF FlowTo
    <3> QED
      BY <3>1, <3>2, SidesAre
  <2>8. \A t \in Sides : pc'[t] # "dead"
    BY <2>2, <2>5
  <2> QED
    BY <1>2, <2>2, <2>4, <2>5, <2>6, <2>7, <2>8, SidesAre DEF CalmOK
<1> QED
  BY <1>3, <1>4 DEF TransferInv

\* In calm no pipe breaks.
LEMMA BreakPipeInv ==
  ASSUME TransferInv, NEW s \in Sides, BreakPipe(s)
  PROVE  TransferInv' /\ ~Calm
<1>1. TypeOK /\ PosOK /\ JunkOK /\ FlowOK /\ CalmOK
  BY DEF TransferInv
<1>2. Leave(s, "dead") /\ Open(s) /\ killed' = killed /\ UNCHANGED <<kind, file>>
  BY DEF BreakPipe, Leave, Open
<1>3. TypeOK' /\ PosOK' /\ JunkOK' /\ FlowOK'
  <2>1. killed' \in SUBSET Sides
    BY <1>1, <1>2 DEF TypeOK
  <2> QED
    BY <1>2, <2>1, LeaveInv
<1>4. ~Calm
  BY <1>1, CalmPeer DEF BreakPipe
<1>5. CalmOK'
  BY <1>2, <1>4, CalmBefore DEF CalmOK
<1> QED
  BY <1>3, <1>4, <1>5 DEF TransferInv

\* A recv fails at the client only, after the worker has left, and in calm none does.
LEMMA RecvErrorInv ==
  ASSUME TransferInv, NEW s \in Sides, RecvError(s)
  PROVE  TransferInv' /\ ~Calm /\ s = "client" /\ junk["client"] = <<>>
<1>1. TypeOK /\ PosOK /\ JunkOK /\ FlowOK /\ CalmOK
  BY DEF TransferInv
<1>2. /\ s = "client" /\ pc["client"] = "recv" /\ wire["client"] = <<>> /\ "client" \in reset
      /\ junk["client"] = <<>> /\ ~Open("worker") /\ killed' = killed
  BY <1>1, SidesAre DEF RecvError, JunkOK
<1>3. ~Calm
  BY <1>1, <1>2 DEF CalmOK
<1>4. CASE Leave(s, "dead")
  <2>1. Open(s) /\ killed' \in SUBSET Sides /\ UNCHANGED <<kind, file>>
    BY <1>1, <1>2, <1>4 DEF TypeOK, Open, Leave
  <2>2. TypeOK' /\ PosOK' /\ JunkOK' /\ FlowOK'
    BY <1>4, <2>1, LeaveInv
  <2>3. CalmOK'
    BY <1>2, <1>3, <2>1, CalmBefore DEF CalmOK
  <2> QED
    BY <1>2, <1>3, <2>2, <2>3 DEF TransferInv
<1>5. CASE ~Leave(s, "dead")
  <2>1. /\ UNCHANGED pc \/ pc' = [pc EXCEPT !["client"] = "close"]
        /\ reset' = reset \ {"client"}
        /\ UNCHANGED <<kind, file, pos, out, wire, killed>>
    BY <1>2, <1>5 DEF RecvError, Received
  <2>2. pc'["client"] \in {"recv", "close"} /\ pc'["worker"] = pc["worker"]
    BY <1>1, <1>2, <2>1, SidesAre DEF TypeOK
  <2>3. \/ UNCHANGED junk
        \/ /\ kind = "image"
           /\ \E n \in Padding("client") :
                junk' = [junk EXCEPT !["client"] = @ \o [i \in 1..n |-> "nul"]]
    BY <1>2, <1>5 DEF RecvError
  <2>4. /\ junk' \in [Sides -> Seq({"nul"})] /\ junk'["worker"] = junk["worker"]
        /\ junk'["client"] # <<>> =>
             /\ kind = "image" /\ Len(junk'["client"]) <= Block
             /\ Len(out["client"] \o junk'["client"]) % Block = 0
    <3>1. CASE UNCHANGED junk
      BY <1>1, <1>2, <3>1 DEF TypeOK
    <3>2. CASE kind = "image" /\ ~UNCHANGED junk
      <4>1. PICK n \in Padding("client") :
              junk' = [junk EXCEPT !["client"] = @ \o [i \in 1..n |-> "nul"]]
        BY <2>3, <3>2
      <4>2. Written("client") = out["client"] /\ out["client"] \in Seq(Said)
        BY <1>1, <1>2, ContentOf, SidesAre DEF TypeOK
      <4>3. n \in Nat /\ (Len(out["client"]) + n) % Block = 0 /\ n <= Block
        <5>1. n \in 0..Block
          BY <4>1, Zenon DEF Padding
        <5>2. (Len(out["client"]) + n) % Block = 0
          BY <4>1, <4>2, Zenon DEF Padding
        <5>3. n \in Nat /\ n <= Block
          BY <5>1, FileTransferAssumption
        <5> QED
          BY <5>2, <5>3, Zenon
      <4> DEFINE nuls == [i \in 1..n |-> "nul"]
      <4>4. nuls \in Seq({"nul"}) /\ Len(nuls) = n
        BY <4>3
      <4> HIDE DEF nuls
      <4>5. <<>> \o nuls = nuls
        BY <4>4, ConcatEmptySeq
      <4>6. junk' = [junk EXCEPT !["client"] = nuls]
        BY <1>2, <4>1, <4>5 DEF nuls
      <4>7. junk' \in [Sides -> Seq({"nul"})] /\ junk'["client"] = nuls
            /\ junk'["worker"] = junk["worker"]
        BY <1>1, <4>4, <4>6, SidesAre DEF TypeOK
      <4>8. Len(out["client"] \o nuls) = Len(out["client"]) + n
        BY <4>2, <4>4
      <4> QED
        BY <3>2, <4>3, <4>4, <4>7, <4>8
    <3> QED
      BY <2>3, <3>1, <3>2
  <2>5. TypeOK'
    <3>1. pc' \in [Sides -> Points]
      BY <1>1, <2>1 DEF TypeOK, Points
    <3> QED
      BY <1>1, <2>1, <2>4, <3>1 DEF TypeOK, Said
  <2>6. PosOK'
    BY <1>1, <2>1, <2>2 DEF PosOK
  <2>7. JunkOK'
    <3>1. ~Open("worker")'
      BY <1>2, <2>2 DEF Open
    <3> QED
      BY <1>1, <1>2, <2>1, <2>2, <2>4, <3>1 DEF JunkOK, Written
  <2>8. FlowOK'
    <3>1. ~Receiving("worker", pc'["worker"])
      BY <1>2, <2>2 DEF Receiving, Open
    <3>2. \/ ~Receiving("client", pc'["client"])
          \/ pc'["client"] = pc["client"]
      BY <1>2, <2>2 DEF Receiving
    <3>3. /\ FlowTo("worker", Carried(kind, file), Cardinality(Kept(kind, file) \cap 1..pos["client"]), FALSE)'
          /\ FlowTo("client", out["worker"], pos["worker"], FALSE)'
      BY <1>1, <2>1, <2>2, <3>1, <3>2, SidesAre DEF FlowOK, FlowTo
    <3> QED
      BY <3>3 DEF FlowOK
  <2>9. CalmOK'
    BY <1>3, <2>1, CalmBefore DEF CalmOK
  <2> QED
    BY <1>2, <1>3, <2>5, <2>6, <2>7, <2>8, <2>9 DEF TransferInv
<1> QED
  BY <1>4, <1>5

\* Who is killed ends the calm.
LEMMA KillInv ==
  ASSUME TransferInv, NEW s \in Sides, Kill(s)
  PROVE  TransferInv'
<1>1. TypeOK
  BY DEF TransferInv
<1>2. Leave(s, "dead") /\ Open(s) /\ killed' = killed \cup {s}
  BY DEF Kill
<1>3. TypeOK' /\ PosOK' /\ JunkOK' /\ FlowOK'
  <2>1. killed' \in SUBSET Sides
    BY <1>1, <1>2 DEF TypeOK
  <2> QED
    BY <1>2, <2>1, LeaveInv
<1>4. CalmOK'
  BY <1>2 DEF CalmOK, Calm
<1> QED
  BY <1>3, <1>4 DEF TransferInv

\* The end of the connection, taken for the end of the file; not in calm.
LEMMA RecvNothingInv ==
  ASSUME TransferInv, NEW s \in Sides, RecvNothing(s)
  PROVE  TransferInv' /\ ~Calm
<1> DEFINE after == IF s = "client" THEN "close" ELSE "send"
<1>1. TypeOK /\ PosOK /\ JunkOK /\ FlowOK /\ CalmOK
  BY DEF TransferInv
<1>2. PICK S : /\ Final \in S /\ file \in Seq(S) /\ Carried(kind, file) \in Seq(S)
               /\ Seq(Said) \subseteq Seq(S) /\ \A t \in Sides : out[t] \in Seq(S)
               /\ wire \in [Sides -> Seq(Seq(S) \ {<<>>})]
  BY <1>1, OverOneSet
<1>3. /\ pc[s] = "recv" /\ wire[s] = <<>> /\ ~Open(Peer(s)) /\ s \notin reset
      /\ pc' = [pc EXCEPT ![s] = after]
      /\ UNCHANGED <<kind, file, pos, out, junk, wire, reset, killed>>
  BY DEF RecvNothing, Received
<1>4. pc'[s] = after /\ \A t \in Sides \ {s} : pc'[t] = pc[t]
  BY <1>1, <1>3 DEF TypeOK
<1>5. TypeOK'
  <2>1. pc' \in [Sides -> Points]
    BY <1>1, <1>3 DEF TypeOK, Points
  <2> QED
    BY <1>1, <1>3, <2>1 DEF TypeOK, Said
<1>6. PosOK'
  BY <1>1, <1>3, <1>4, SidesAre DEF PosOK
<1>7. FlowTo("worker", Carried(kind, file), Cardinality(Kept(kind, file) \cap 1..pos["client"]), FALSE)'
  <2>1. ~Receiving("worker", pc'["worker"])
    BY <1>3, <1>4, SidesAre DEF Receiving, Open
  <2>2. IsPrefix(out["worker"], Carried(kind, file))
    BY <1>1 DEF FlowOK, FlowTo
  <2> QED
    BY <1>3, <2>1, <2>2 DEF FlowTo
<1>8. FlowTo("client", out["worker"], pos["worker"], FALSE)'
  <2>1. IsPrefix(out["client"], out["worker"])
    BY <1>1 DEF FlowOK, FlowTo
  <2>2. CASE s = "client"
    <3>1. ~Receiving("client", pc'["client"])
      BY <1>4, <2>2, SidesAre DEF Receiving
    <3> QED
      BY <1>3, <2>1, <3>1 DEF FlowTo
  <2>3. CASE s = "worker"
    <3>1. /\ pos["worker"] = 0 /\ wire["client"] = <<>> /\ out["client"] = <<>>
          /\ pc'["worker"] = "send" /\ out["worker"] \in Seq(S)
      BY <1>1, <1>2, <1>3, <1>4, <2>3, SidesAre DEF PosOK
    <3>2. 0 \in Stops("worker", "send", out["worker"], 0, FALSE)
      BY <3>1, LenProperties DEF Stops
    <3>3. Flow(<<>>, <<>>, out["worker"], FALSE, Stops("worker", "send", out["worker"], 0, FALSE))
      BY <3>1, <3>2, FlowFresh
    <3> QED
      BY <1>3, <2>1, <3>1, <3>3, SidesAre DEF FlowTo
  <2> QED
    BY <2>2, <2>3, SidesAre
<1>9. ~Calm
  <2> SUFFICES ASSUME Calm PROVE FALSE
    OBVIOUS
  <2>1. CASE s = "worker"
    BY <1>1, <1>3, <2>1, SidesAre DEF CalmOK, Open
  <2>2. CASE s = "client"
    <3> DEFINE q == out["worker"]
    <3>1. pc["client"] = "recv" /\ pc["worker"] = "done" /\ wire["client"] = <<>>
          /\ FlowTo("client", q, pos["worker"], TRUE) /\ q \in Seq(S) /\ out["client"] \in Seq(S)
      BY <1>1, <1>2, <1>3, <2>2, SidesAre DEF CalmOK, Open
    <3>2. /\ IsPrefix(out["client"], q)
          /\ Flow(out["client"], <<>>, q, TRUE, Stops("worker", "done", q, pos["worker"], TRUE))
      BY <3>1, SidesAre DEF FlowTo, Receiving
    <3>3. Stops("worker", "done", q, pos["worker"], TRUE) \subseteq {Len(q) + 1}
      BY <3>1, StopsAre DEF HasSent
    <3>4. PICK b \in {Len(q) + 1} :
            Stream(Append(q, Final), Ends(q, TRUE), Len(out["client"]), <<>>, b)
      BY <3>2, <3>3 DEF Flow
    <3>5. Len(out["client"]) = Len(q) + 1
      BY <3>4, StreamEmpty
    <3> QED
      BY <3>1, <3>2, <3>5, PrefixIs, LenProperties
  <2> QED
    BY <2>1, <2>2, SidesAre
<1>10. CalmOK'
  BY <1>3, <1>9, CalmBefore DEF CalmOK
<1>11. JunkOK'
  <2>1. CASE s = "client"
    <3>1. pc'["client"] = "close" /\ pc'["worker"] = pc["worker"]
      BY <1>4, <2>1, SidesAre
    <3>2. Open("worker")' <=> Open("worker")
      BY <3>1 DEF Open
    <3> QED
      BY <1>1, <1>3, <3>1, <3>2, JunkStays DEF JunkOK
  <2>2. CASE s = "worker"
    <3>1. Open("worker") /\ pc'["worker"] = "send"
      BY <1>3, <1>4, <2>2, SidesAre DEF Open
    <3>2. junk["client"] = <<>> /\ "client" \notin reset
      BY <1>1, <3>1 DEF JunkOK
    <3> QED
      BY <1>1, <1>3, <3>1, <3>2, JunkStays
  <2> QED
    BY <2>1, <2>2, SidesAre
<1> QED
  BY <1>5, <1>6, <1>7, <1>8, <1>9, <1>10, <1>11 DEF TransferInv, FlowOK

\* A message; in calm its final byte is the file's.
LEMMA RecvInv ==
  ASSUME TransferInv, NEW s \in Sides, Recv(s)
  PROVE  TransferInv'
<1> DEFINE msg == Head(wire[s])
           final == Last(msg) = Final
           after == IF s = "client" THEN "close" ELSE "send"
           got == out[s] \o (IF final THEN Front(msg) ELSE msg)
<1>1. TypeOK /\ PosOK /\ JunkOK /\ FlowOK /\ CalmOK
  BY DEF TransferInv
<1>2. PICK S : /\ Final \in S /\ file \in Seq(S) /\ Carried(kind, file) \in Seq(S)
               /\ Seq(Said) \subseteq Seq(S) /\ \A t \in Sides : out[t] \in Seq(S)
               /\ wire \in [Sides -> Seq(Seq(S) \ {<<>>})]
  BY <1>1, OverOneSet
<1>3. /\ pc[s] = "recv" /\ wire[s] # <<>>
      /\ out' = [out EXCEPT ![s] = got]
      /\ pc' = [pc EXCEPT ![s] = IF final THEN after ELSE "recv"]
      /\ wire' = [wire EXCEPT ![s] = Tail(@)]
      /\ UNCHANGED <<kind, file, pos, junk, reset, killed>>
  BY <1>1 DEF Recv, Received, TypeOK
<1>4. got \in Seq(Said) /\ Tail(wire[s]) \in Seq(Seq(Said) \ {<<>>})
  <2>1. wire[s] \in Seq(Seq(Said) \ {<<>>}) /\ out[s] \in Seq(Said)
    BY <1>1 DEF TypeOK
  <2>2. msg \in Seq(Said) /\ msg # <<>> /\ Tail(wire[s]) \in Seq(Seq(Said) \ {<<>>})
    BY <1>3, <2>1, HeadTailProperties
  <2> HIDE DEF msg
  <2>3. Front(msg) \in Seq(Said)
    BY <2>2 DEF Front
  <2> QED
    BY <2>1, <2>2, <2>3, ConcatProperties
<1> HIDE DEF got, final, after
<1>5. TypeOK'
  <2>1. out' \in [Sides -> Seq(Said)] /\ wire' \in [Sides -> Seq(Seq(Said) \ {<<>>})]
    BY <1>1, <1>3, <1>4 DEF TypeOK
  <2>2. pc' \in [Sides -> Points]
    BY <1>1, <1>3 DEF TypeOK, Points, after
  <2> QED
    BY <1>1, <1>3, <2>1, <2>2 DEF TypeOK, Said
<1>6. /\ out'[s] = got /\ wire'[s] = Tail(wire[s])
      /\ pc'[s] = IF final THEN after ELSE "recv"
      /\ \A t \in Sides \ {s} : out'[t] = out[t] /\ wire'[t] = wire[t] /\ pc'[t] = pc[t]
  BY <1>1, <1>3 DEF TypeOK
<1>7. ASSUME NEW q \in Seq(S), NEW n, NEW calm, FlowTo(s, q, n, calm)
      PROVE  /\ IsPrefix(got, q)
             /\ ~final => Flow(got, Tail(wire[s]), q, calm, Stops(Peer(s), pc[Peer(s)], q, n, calm))
             /\ final /\ calm = TRUE => /\ got = q /\ Tail(wire[s]) = <<>>
                                        /\ Len(q) + 1 \in Stops(Peer(s), pc[Peer(s)], q, n, calm)
  <2>1. Flow(out[s], wire[s], q, calm, Stops(Peer(s), pc[Peer(s)], q, n, calm))
    BY <1>3, <1>7 DEF FlowTo, Receiving
  <2>2. out[s] \in Seq(S) /\ wire[s] \in Seq(Seq(S) \ {<<>>})
    BY <1>2
  <2> DEFINE had == out[s]
             msgs == wire[s]
             stops == Stops(Peer(s), pc[Peer(s)], q, n, calm)
             M == Seq(S) \ {<<>>}
  <2>3. /\ Final \in S /\ had \in Seq(S) /\ msgs \in Seq(M) /\ msgs # <<>>
        /\ \A x \in M : x \in Seq(S) /\ x # <<>>
        /\ Flow(had, msgs, q, calm, stops)
    BY <1>2, <1>3, <2>1, <2>2
  <2> HIDE DEF had, msgs, stops, M
  <2>4. Last(Head(msgs)) # Final => Flow(had \o Head(msgs), Tail(msgs), q, calm, stops)
    BY <2>3, FlowRecv, Zenon
  <2>5. Last(Head(msgs)) = Final => IsPrefix(had \o Front(Head(msgs)), q)
    BY <2>3, FlowRecv, Zenon
  <2>6. Last(Head(msgs)) = Final /\ (\A e \in 1..Len(q) : e \in Ends(q, calm) => q[e] # Final) =>
          AllGot(had \o Front(Head(msgs)), Tail(msgs), q) /\ Len(q) + 1 \in stops
    BY <2>3, FlowRecv, Zenon
  <2>7. calm = TRUE => \A e \in 1..Len(q) : e \in Ends(q, calm) => q[e] # Final
    BY EndsAre
  <2> QED
    BY <2>4, <2>5, <2>6, <2>7 DEF AllGot, got, final, Flow, had, msgs, stops
<1>8. Calm' => Calm
  BY <1>3, CalmBefore
<1>12. JunkOK'
  <2>1. CASE s = "client"
    <3>1. junk["client"] = <<>> /\ pc'["worker"] = pc["worker"]
      BY <1>1, <1>3, <1>6, <2>1, SidesAre DEF JunkOK
    <3>2. Open("worker")' <=> Open("worker")
      BY <3>1 DEF Open
    <3> QED
      BY <1>1, <1>3, <3>1, <3>2, JunkStays DEF JunkOK
  <2>2. CASE s = "worker"
    <3>1. Open("worker") /\ "worker" \notin reset
      BY <1>1, <1>3, <2>2 DEF JunkOK, Open
    <3>2. junk["client"] = <<>> /\ "client" \notin reset
      BY <1>1, <3>1 DEF JunkOK
    <3> QED
      BY <1>1, <1>3, <3>1, <3>2, JunkStays
  <2> QED
    BY <2>1, <2>2, SidesAre
<1> DEFINE c == Carried(kind, file)
           n == Cardinality(Kept(kind, file) \cap 1..pos["client"])
<1>9. FlowTo("worker", c, n, FALSE) /\ c \in Seq(S) /\ c' = c /\ n' = n
  BY <1>1, <1>2, <1>3 DEF FlowOK
<1> HIDE DEF c, n
<1>10. CASE s = "worker"
  <2>1. /\ pos["worker"] = 0 /\ wire["client"] = <<>> /\ out["client"] = <<>>
        /\ got \in Seq(S) /\ Peer(s) = "client"
        /\ out'["worker"] = got /\ out'["client"] = <<>>
        /\ wire'["worker"] = Tail(wire["worker"]) /\ wire'["client"] = <<>>
        /\ pc'["worker"] = IF final THEN "send" ELSE "recv"
        /\ pc'["client"] = pc["client"]
    BY <1>1, <1>2, <1>3, <1>4, <1>6, <1>10, SidesAre DEF PosOK, after
  <2>2. PosOK'
    <3>1. Len(got) \in Nat
      BY <2>1, LenProperties
    <3> QED
      BY <1>1, <1>3, <2>1, <3>1 DEF PosOK
  <2>3. FlowTo("worker", c, n, FALSE)'
    BY <1>7, <1>9, <1>10, <2>1, SidesAre DEF FlowTo, Receiving
  <2>4. ASSUME NEW calm PROVE FlowTo("client", out["worker"], pos["worker"], calm)'
    <3> DEFINE at == IF final THEN "send" ELSE "recv"
    <3>1. 0 \in Stops("worker", at, got, 0, calm)
      BY <2>1, LenProperties DEF Stops, HasSent
    <3>2. Flow(<<>>, <<>>, got, calm, Stops("worker", at, got, 0, calm))
      BY <2>1, <3>1, FlowFresh
    <3>3. IsPrefix(<<>>, got)
      BY <3>2 DEF Flow
    <3> QED
      BY <1>3, <2>1, <3>2, <3>3, SidesAre DEF FlowTo
  <2>5. FlowOK'
    BY <2>3, <2>4 DEF FlowOK, c, n
  <2>6. CalmOK'
    <3> SUFFICES ASSUME Calm' PROVE CalmOK'
      BY DEF CalmOK
    <3>1. /\ Calm /\ reset = {} /\ junk["client"] = <<>> /\ \A t \in Sides : pc[t] # "dead"
          /\ FlowTo("worker", file, pos["client"], TRUE)
          /\ pos["worker"] \in Starts(kind, file) \cup {Len(file)}
          /\ pc["client"] \in {"send", "recv"}
      BY <1>1, <1>3, <1>8, <1>10 DEF CalmOK
    <3>2. /\ IsPrefix(got, file)
          /\ ~final => Flow(got, Tail(wire["worker"]), file, TRUE, Stops("client", pc["client"], file, pos["client"], TRUE))
          /\ final => /\ got = file /\ Tail(wire["worker"]) = <<>>
                      /\ Len(file) + 1 \in Stops("client", pc["client"], file, pos["client"], TRUE)
      BY <1>2, <1>7, <1>10, <2>1, <3>1
    <3>3. FlowTo("worker", file, pos["client"], TRUE)'
      <4>1. Receiving("worker", pc'["worker"]) => ~final
        BY <2>1 DEF Receiving
      <4> QED
        BY <1>3, <2>1, <3>2, <4>1, SidesAre DEF FlowTo
    <3>4. FlowTo("client", out["worker"], pos["worker"], TRUE)'
      BY <2>4
    <3>5. final => pc["client"] # "send"
      <4> SUFFICES ASSUME final, pc["client"] = "send" PROVE FALSE
        OBVIOUS
      <4>1. Stops("client", "send", file, pos["client"], TRUE) \subseteq {pos["client"]}
        BY <1>2, StopsAre
      <4>2. pos["client"] = Len(file) + 1
        BY <3>2, <4>1
      <4>3. pos["client"] <= Len(file) /\ Len(file) \in Nat
        BY <1>1, <1>2, LenProperties DEF PosOK, Starts
      <4> QED
        BY <4>2, <4>3
    <3>6. \A t \in Sides : pc'[t] # "dead"
      BY <2>1, <3>1, SidesAre
    <3> QED
      BY <1>3, <2>1, <3>1, <3>2, <3>3, <3>4, <3>5, <3>6 DEF CalmOK
  <2> QED
    BY <1>5, <1>12, <2>2, <2>5, <2>6 DEF TransferInv
<1>11. CASE s = "client"
  <2>1. /\ pc["worker"] # "recv" /\ Peer(s) = "worker" /\ out["worker"] \in Seq(S)
        /\ out'["client"] = got /\ out'["worker"] = out["worker"]
        /\ wire'["client"] = Tail(wire["client"]) /\ wire'["worker"] = wire["worker"]
        /\ pc'["client"] = IF final THEN "close" ELSE "recv"
        /\ pc'["worker"] = pc["worker"] /\ pc["client"] = "recv"
    BY <1>1, <1>2, <1>3, <1>6, <1>11, SidesAre DEF PosOK, after
  <2>2. PosOK'
    BY <1>1, <1>3, <2>1 DEF PosOK
  <2>3. ASSUME NEW q, NEW k, NEW calm, FlowTo("worker", q, k, calm)
        PROVE  /\ IsPrefix(out'["worker"], q)
               /\ ~Receiving("worker", pc'["worker"])
    BY <2>1, <2>3 DEF FlowTo, Receiving
  <2>4. FlowTo("worker", c, n, FALSE)'
    BY <1>9, <2>3 DEF FlowTo
  <2>5. FlowTo("client", out["worker"], pos["worker"], FALSE)'
    <3>1. FlowTo("client", out["worker"], pos["worker"], FALSE)
      BY <1>1 DEF FlowOK
    <3>2. /\ IsPrefix(got, out["worker"])
          /\ ~final => Flow(got, Tail(wire["client"]), out["worker"], FALSE,
                            Stops("worker", pc["worker"], out["worker"], pos["worker"], FALSE))
      BY <1>7, <1>11, <2>1, <3>1
    <3>3. Receiving("client", pc'["client"]) => ~final
      BY <2>1 DEF Receiving
    <3> QED
      BY <1>3, <2>1, <3>2, <3>3, SidesAre DEF FlowTo
  <2>6. FlowOK'
    BY <2>4, <2>5 DEF FlowOK, c, n
  <2>7. CalmOK'
    <3> SUFFICES ASSUME Calm' PROVE CalmOK'
      BY DEF CalmOK
    <3>1. /\ Calm /\ reset = {} /\ junk["client"] = <<>> /\ \A t \in Sides : pc[t] # "dead"
          /\ FlowTo("worker", file, pos["client"], TRUE)
          /\ FlowTo("client", out["worker"], pos["worker"], TRUE)
          /\ pos["worker"] \in Starts(kind, file) \cup {Len(file)}
          /\ out["worker"] = file /\ wire["worker"] = <<>>
      BY <1>1, <1>8, <2>1 DEF CalmOK
    <3>2. /\ IsPrefix(got, out["worker"])
          /\ ~final => Flow(got, Tail(wire["client"]), out["worker"], TRUE,
                            Stops("worker", pc["worker"], out["worker"], pos["worker"], TRUE))
          /\ final => /\ got = out["worker"] /\ Tail(wire["client"]) = <<>>
                      /\ Len(out["worker"]) + 1 \in
                           Stops("worker", pc["worker"], out["worker"], pos["worker"], TRUE)
      BY <1>7, <1>11, <2>1, <3>1
    <3>3. FlowTo("client", out["worker"], pos["worker"], TRUE)'
      <4>1. Receiving("client", pc'["client"]) => ~final
        BY <2>1 DEF Receiving
      <4> QED
        BY <1>3, <2>1, <3>2, <4>1, SidesAre DEF FlowTo
    <3>4. FlowTo("worker", file, pos["client"], TRUE)'
      BY <1>3, <2>3, <3>1 DEF FlowTo
    <3>5. final => pc["worker"] \in {"close", "done"}
      <4> SUFFICES ASSUME final, pc["worker"] \notin {"close", "done"} PROVE FALSE
        OBVIOUS
      <4>1. pc["worker"] = "send"
        BY <1>1, <2>1, <3>1, SidesAre DEF TypeOK, Points
      <4>2. Stops("worker", "send", out["worker"], pos["worker"], TRUE) \subseteq {pos["worker"]}
        BY DEF Stops
      <4>3. pos["worker"] = Len(out["worker"]) + 1
        BY <3>2, <4>1, <4>2
      <4>4. pos["worker"] <= Len(out["worker"]) /\ Len(out["worker"]) \in Nat
        BY <1>1, <2>1, LenProperties DEF PosOK
      <4> QED
        BY <4>3, <4>4
    <3>6. \A t \in Sides : pc'[t] # "dead"
      BY <2>1, <3>1, SidesAre
    <3>7. pc["worker"] # "recv" /\ pc'["client"] \in {"recv", "close"}
          /\ (pc'["client"] = "close" => final)
      BY <2>1
    <3>8. UNCHANGED <<kind, file, pos, junk, reset>> /\ pc'["worker"] = pc["worker"]
          /\ out'["worker"] = file /\ wire'["worker"] = <<>>
          /\ (final => out'["client"] = file /\ wire'["client"] = <<>>)
      BY <1>3, <2>1, <3>1, <3>2
    <3> QED
      BY <3>1, <3>3, <3>4, <3>5, <3>6, <3>7, <3>8 DEF CalmOK
  <2> QED
    BY <1>5, <1>12, <2>2, <2>6, <2>7 DEF TransferInv
<1> QED
  BY <1>10, <1>11, SidesAre

\* Every step.
LEMMA NextInv ==
  ASSUME TransferInv, [Next]_vars
  PROVE  TransferInv'
<1>1. CASE Next
  <2>1. PICK s \in Sides : Step(s) \/ Kill(s)
    BY <1>1 DEF Next
  <2>2. CASE SendChunk(s)
    BY <2>2, SendChunkInv
  <2>3. CASE SendFinal(s)
    BY <2>3, SendFinalInv
  <2>4. CASE BreakPipe(s)
    BY <2>4, BreakPipeInv
  <2>5. CASE Recv(s)
    BY <2>5, RecvInv
  <2>6. CASE RecvNothing(s)
    BY <2>6, RecvNothingInv
  <2>7. CASE RecvError(s)
    BY <2>7, RecvErrorInv
  <2>8. CASE Close(s)
    BY <2>8, CloseInv
  <2>9. CASE Kill(s)
    BY <2>9, KillInv
  <2> QED
    BY <2>1, <2>2, <2>3, <2>4, <2>5, <2>6, <2>7, <2>8, <2>9 DEF Step
<1>2. CASE UNCHANGED vars
  <2> USE <1>2 DEF vars
  <2>1. TypeOK'
    BY DEF TransferInv, TypeOK, Said
  <2>2. PosOK'
    BY DEF TransferInv, PosOK
  <2>6. JunkOK'
    BY DEF TransferInv, JunkOK, Written, Open
  <2>3. FlowOK'
    BY DEF TransferInv, FlowOK, FlowTo
  <2>4. Calm' => Calm
    BY CalmBefore
  <2>5. CalmOK'
    BY <2>4 DEF TransferInv, CalmOK, FlowTo
  <2> QED
    BY <2>1, <2>2, <2>3, <2>5, <2>6 DEF TransferInv
<1> QED
  BY <1>1, <1>2

\* The inductive invariant: for any files, chunk size and window, whoever is killed, a
\* receiver has a prefix of what its sender sends and the wire holds what follows, up
\* to where the sender is; and a fit file that nobody disturbs passes whole.
THEOREM TransferInvariant == Spec => []TransferInv
<1>1. Init => TransferInv
  BY InitInv
<1>2. TransferInv /\ [Next]_vars => TransferInv'
  BY NextInv
<1> QED
  BY <1>1, <1>2, PTL DEF Spec

\* Nothing is doubled or reordered by the senders and the receivers of socket_utils.c,
\* for either kind of file, every content, every kill and every failure of recv, and
\* what is invented is at most a block of NULs behind an image whose connection failed.
THEOREM PrefixesAlways == Spec => []NothingInvented
<1>1. TransferInv => NothingInvented
  <2> SUFFICES ASSUME TransferInv PROVE NothingInvented
    OBVIOUS
  <2>1. TypeOK /\ JunkOK /\ FlowOK /\ CalmOK
    BY DEF TransferInv
  <2>2. IsPrefix(out["worker"], Carried(kind, file)) /\ IsPrefix(out["client"], Content("worker"))
    BY <2>1, ContentOf DEF FlowOK, FlowTo
  <2>3. ASSUME junk["client"] # <<>>
        PROVE  /\ kind = "image" /\ (Unfit \/ killed # {})
               /\ Len(Written("client")) % Block = 0 /\ Len(junk["client"]) <= Block
    BY <2>1, <2>3 DEF JunkOK, CalmOK, Calm
  <2>4. \A i \in 1..Len(junk["client"]) : junk["client"][i] = "nul"
    <3>1. junk["client"] \in Seq({"nul"})
      BY <2>1, SidesAre DEF TypeOK
    <3> QED
      BY <3>1, ElementOfSeq
  <2>5. junk["worker"] = <<>>
    BY <2>1 DEF JunkOK
  <2> QED
    BY <2>2, <2>3, <2>4, <2>5, SidesAre DEF NothingInvented
<1> QED
  BY <1>1, TransferInvariant, PTL

-------------------------------------------------------------------------------
(* The transfer as a copy. *)

\* A prefix of a prefix is a prefix.
LEMMA PrefixTransitive ==
  ASSUME NEW S, NEW s \in Seq(S), NEW t \in Seq(S), NEW u \in Seq(S),
         IsPrefix(s, t), IsPrefix(t, u)
  PROVE  IsPrefix(s, u)
<1>1. /\ Len(s) <= Len(t) /\ \A i \in 1..Len(s) : s[i] = t[i]
      /\ Len(t) <= Len(u) /\ \A i \in 1..Len(t) : t[i] = u[i]
  BY PrefixIs
<1>2. Len(s) \in Nat /\ Len(t) \in Nat /\ Len(u) \in Nat
  BY LenProperties
<1>3. Len(s) <= Len(u) /\ \A i \in 1..Len(s) : s[i] = u[i]
  BY <1>1, <1>2
<1> QED
  BY <1>3, PrefixIs

\* What is added at the end keeps the rest.
LEMMA PrefixOfConcat ==
  ASSUME NEW S, NEW s \in Seq(S), NEW t \in Seq(S)
  PROVE  IsPrefix(s, s \o t)
<1>1. /\ Len(s) \in Nat /\ Len(t) \in Nat
      /\ s \o t \in Seq(S) /\ Len(s \o t) = Len(s) + Len(t)
      /\ \A i \in 1..Len(s) + Len(t) : (s \o t)[i] = IF i <= Len(s) THEN s[i] ELSE t[i - Len(s)]
  BY ConcatProperties, LenProperties
<1>2. Len(s) <= Len(s \o t) /\ \A i \in 1..Len(s) : s[i] = (s \o t)[i]
  BY <1>1
<1> QED
  BY <1>1, <1>2, PrefixIs

\* A message the client receives is delivered, and is the file's if all is calm.
LEMMA RecvDelivers ==
  ASSUME TransferInv, TransferInv', Recv("client")
  PROVE  C!Deliver
<1>1. TypeOK /\ TypeOK' /\ JunkOK /\ JunkOK' /\ FlowOK' /\ CalmOK'
  BY DEF TransferInv
<1>2. PICK S : file \in Seq(S) /\ \A t \in Sides : out[t] \in Seq(S)
  BY <1>1, OverOneSet
<1>3. /\ UNCHANGED <<kind, file, killed>> /\ Open("client") /\ Open("client")'
  BY <1>1, SidesAre DEF Recv, Received, Open, TypeOK
<1>4. IsPrefix(out["client"], out'["client"])
  <2>1. wire["client"] \in Seq(Seq(Said) \ {<<>>}) /\ wire["client"] # <<>> /\ out["client"] \in Seq(Said)
    BY <1>1, SidesAre DEF TypeOK, Recv
  <2>2. Head(wire["client"]) \in Seq(Said)
    BY <2>1, HeadTailProperties
  <2>3. Front(Head(wire["client"])) \in Seq(Said)
    BY <2>2 DEF Front
  <2>4. \/ out'["client"] = out["client"] \o Front(Head(wire["client"]))
        \/ out'["client"] = out["client"] \o Head(wire["client"])
    BY <1>1, SidesAre DEF Recv, TypeOK
  <2> QED
    BY <2>1, <2>2, <2>3, <2>4, PrefixOfConcat
<1>5. Calm => IsPrefix(out'["client"], file)
  <2> SUFFICES ASSUME Calm PROVE IsPrefix(out'["client"], file)
    OBVIOUS
  <2>1. Calm'
    BY <1>3 DEF Calm, Unfit
  <2>2. IsPrefix(out'["client"], out'["worker"]) /\ IsPrefix(out'["worker"], file)
    BY <1>1, <1>3, <2>1 DEF FlowOK, CalmOK, FlowTo
  <2>3. out'["client"] \in Seq(Said') /\ out'["worker"] \in Seq(Said') /\ file \in Seq(S)
    BY <1>1, <1>2, SidesAre DEF TypeOK
  <2>4. PICK T : out'["client"] \in Seq(T) /\ out'["worker"] \in Seq(T) /\ file \in Seq(T)
    <3>1. Said' \subseteq Said' \cup S /\ S \subseteq Said' \cup S
      OBVIOUS
    <3>2. \A q \in Seq(Said') : q \in Seq(Said' \cup S)
      BY <3>1, SeqMonotonic
    <3>3. \A q \in Seq(S) : q \in Seq(Said' \cup S)
      BY <3>1, SeqMonotonic
    <3> QED
      BY <2>3, <3>2, <3>3
  <2> QED
    BY <2>2, <2>4, PrefixTransitive
<1>6. UNCHANGED <<file, Unfit \/ killed # {}, ~Open("client")>>
  <2>1. UNCHANGED (Unfit \/ killed # {})
    BY <1>3 DEF Unfit
  <2>2. UNCHANGED ~Open("client")
    BY <1>3
  <2> QED
    BY <1>3, <2>1, <2>2
<1>7. (Unfit \/ killed # {}) \/ IsPrefix(out'["client"], file)
  BY <1>5 DEF Calm
<1>8. \A s, t : C!IsPrefix(s, t) <=> IsPrefix(s, t)
  BY DEF IsPrefix, C!IsPrefix
<1>9. Written("client") = out["client"] /\ Written("client")' = out'["client"]
  <2>1. junk["client"] = <<>> /\ junk' = junk
    BY <1>1 DEF Recv, JunkOK
  <2>2. out["client"] \in Seq(Said) /\ out'["client"] \in Seq(Said')
    BY <1>1, SidesAre DEF TypeOK
  <2>3. out["client"] \o <<>> = out["client"] /\ out'["client"] \o <<>> = out'["client"]
    BY <2>2, ConcatEmptySeq
  <2> QED
    BY <2>1, <2>3 DEF Written
<1> QED
  BY <1>3, <1>4, <1>6, <1>7, <1>8, <1>9 DEF C!Deliver

\* What a failing recv adds is delivered too; it is not calm.
LEMMA ErrorDelivers ==
  ASSUME TransferInv, TransferInv', RecvError("client"), Open("client")'
  PROVE  C!Deliver \/ UNCHANGED C!vars
<1>1. TypeOK /\ TypeOK' /\ ~Calm /\ junk["client"] = <<>>
  BY RecvErrorInv, SidesAre DEF TransferInv
<1>2. /\ UNCHANGED <<kind, file, out, killed>> /\ Open("client")
  BY DEF RecvError, Leave, Open
<1>3. UNCHANGED <<file, Unfit \/ killed # {}, ~Open("client")>>
  BY <1>2 DEF Unfit
<1>4. IsPrefix(Written("client"), Written("client")')
  <2> DEFINE T == Said \cup {"nul"}
  <2>1. out["client"] \in Seq(Said) /\ junk'["client"] \in Seq({"nul"})
    BY <1>1, SidesAre DEF TypeOK
  <2>2. out["client"] \in Seq(T) /\ junk'["client"] \in Seq(T)
    <3>1. Said \subseteq T /\ {"nul"} \subseteq T
      OBVIOUS
    <3> HIDE DEF T
    <3> QED
      BY <2>1, <3>1, SeqMonotonic
  <2>3. Written("client") = out["client"] /\ Written("client")' = out["client"] \o junk'["client"]
    <3>1. out["client"] \o <<>> = out["client"]
      BY <2>1, ConcatEmptySeq
    <3> QED
      BY <1>1, <1>2, <3>1 DEF Written
  <2> HIDE DEF T
  <2> QED
    BY <2>2, <2>3, PrefixOfConcat
<1>5. \A s, t : C!IsPrefix(s, t) <=> IsPrefix(s, t)
  BY DEF IsPrefix, C!IsPrefix
<1>6. Unfit \/ killed # {}
  BY <1>1 DEF Calm
<1> QED
  BY <1>2, <1>3, <1>4, <1>5, <1>6 DEF C!Deliver

\* Every step of the transfer is a step of the copy or leaves it unchanged.
LEMMA StepCopies ==
  ASSUME TransferInv, [Next]_vars
  PROVE  [C!Next]_C!vars
<1>1. TypeOK /\ JunkOK /\ CalmOK
  BY DEF TransferInv
<1>2. ASSUME UNCHANGED <<kind, file, out, junk, killed>>, Open("client")' <=> Open("client")
      PROVE  UNCHANGED C!vars
  BY <1>2 DEF C!vars, Unfit, Written
<1>3. ASSUME UNCHANGED <<kind, file, out, junk, killed>>, Open("client"), ~Open("client")',
             Calm => out["client"] = file
      PROVE  C!Finish
  <2>1. UNCHANGED Written("client")
    BY <1>3 DEF Written
  <2>2. Calm => Written("client") = file
    BY <1>1, <1>3, ContentOf DEF CalmOK
  <2> QED
    BY <1>3, <2>1, <2>2 DEF C!Finish, Calm, Unfit
<1>4. CASE Next
  <2>1. PICK s \in Sides : Step(s) \/ Kill(s)
    BY <1>4 DEF Next
  <2>2. CASE SendChunk(s)
    BY <1>2, <2>2 DEF SendChunk, Open
  <2>3. CASE SendFinal(s) \/ RecvNothing(s)
    <3>1. pc' = [pc EXCEPT ![s] = pc'[s]] /\ pc'[s] \in {"recv", "close", "send"}
          /\ pc[s] \in {"send", "recv"} /\ UNCHANGED <<kind, file, out, junk, killed>>
      BY <1>1, <2>3 DEF SendFinal, RecvNothing, Received, TypeOK
    <3>2. Open("client")' <=> Open("client")
      BY <1>1, <3>1, SidesAre DEF Open, TypeOK
    <3> QED
      BY <1>2, <3>1, <3>2
  <2>4. CASE (BreakPipe(s) \/ Close(s)) /\ s = "client"
    <3>1. Open("client") /\ ~Open("client")' /\ UNCHANGED <<kind, file, out, junk, killed>>
      BY <1>1, <2>4, SidesAre DEF BreakPipe, Close, Leave, Open, TypeOK
    <3>2. Calm => out["client"] = file
      <4>1. BreakPipe(s) => ~Calm
        BY BreakPipeInv
      <4>2. Close(s) /\ Calm => out["client"] = file
        BY <1>1, <2>4 DEF Close, CalmOK
      <4> QED
        BY <2>4, <4>1, <4>2
    <3> QED
      BY <1>3, <3>1, <3>2 DEF C!Next
  <2>5. CASE (BreakPipe(s) \/ Close(s)) /\ s = "worker"
    <3>1. UNCHANGED <<kind, file, out, junk, killed>> /\ pc'["client"] = pc["client"]
      BY <1>1, <2>5, SidesAre DEF BreakPipe, Close, Leave, TypeOK
    <3> QED
      BY <1>2, <3>1 DEF Open
  <2>9. CASE RecvError(s)
    <3>1. s = "client" /\ ~Calm /\ TransferInv'
      BY <2>9, RecvErrorInv
    <3>2. CASE Open("client")'
      BY <2>9, <3>1, <3>2, ErrorDelivers DEF C!Next
    <3>3. CASE ~Open("client")'
      <4>1. pc["client"] = "recv" /\ Leave("client", "dead") /\ killed' = killed
        BY <1>1, <2>9, <3>1, <3>3, SidesAre DEF RecvError, Received, Open, TypeOK
      <4>2. Open("client") /\ UNCHANGED <<kind, file, out, junk, killed>>
        BY <4>1 DEF Leave, Open
      <4> QED
        BY <1>3, <3>1, <3>3, <4>2 DEF C!Next
    <3> QED
      BY <3>2, <3>3
  <2>6. CASE Recv(s) /\ s = "client"
    BY <2>6, NextInv, RecvDelivers DEF C!Next
  <2>7. CASE Recv(s) /\ s = "worker"
    <3>1. /\ UNCHANGED <<kind, file, junk, killed>> /\ out'["client"] = out["client"]
          /\ pc'["client"] = pc["client"]
      BY <1>1, <2>7, SidesAre DEF Recv, Received, TypeOK
    <3> QED
      BY <3>1 DEF C!vars, Unfit, Open, Written
  <2>8. CASE Kill(s)
    <3>1. UNCHANGED <<file, out, junk>> /\ killed' # {} /\ (~Open("client") => ~Open("client")')
      BY <1>1, <2>8, SidesAre DEF Kill, Leave, Open, TypeOK
    <3> QED
      BY <3>1 DEF C!Next, C!Disturb, Written
  <2> QED
    BY <2>1, <2>2, <2>3, <2>4, <2>5, <2>6, <2>7, <2>8, <2>9, SidesAre DEF Step
<1>5. CASE UNCHANGED vars
  BY <1>2, <1>5 DEF vars, Open
<1> QED
  BY <1>4, <1>5

\* The round trip is a copy at every step: what the client has written is a prefix of
\* its own file, and the whole of it when it closes, unless the file is unfit or a
\* process was killed.
THEOREM TransferIsCopy == Spec => CopySafety
<1>1. Init => C!Init
  BY SidesAre DEF Init, C!Init, Open, Written
<1>2. TransferInv /\ [Next]_vars => [C!Next]_C!vars
  BY StepCopies
<1> QED
  BY <1>1, <1>2, TransferInvariant, PTL DEF Spec, CopySafety
===============================================================================
