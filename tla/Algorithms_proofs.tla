-------------------------- MODULE Algorithms_proofs --------------------------
(***************************************************************************)
(* Proofs about the two algorithms that are modelled as loops: the packing *)
(* of a turn's pieces into chunks, and the selection of best-of-N.         *)
(***************************************************************************)
EXTENDS Chunker, BestOfN, FiniteSetTheorems, WellFoundedInduction, TLAPS

\* A bounded set of numbers has a largest.
LEMMA MaxExists ==
    ASSUME NEW S \in SUBSET Nat, S # {}, NEW b \in Nat, \A x \in S : x <= b
    PROVE  Max(S) \in S /\ \A x \in S : x <= Max(S)
<1> DEFINE Above(x) == {y \in S : y > x}
           Tails == {Above(x) : x \in S}
<1>n. \A y \in S : y \in Nat /\ y \in 0..b
  OBVIOUS
<1>1. Tails \subseteq FiniteSubsetsOf(Nat) /\ Tails # {}
  <2>1. ASSUME NEW x \in S PROVE Above(x) \in FiniteSubsetsOf(Nat)
    <3>1. Above(x) \subseteq 0..b /\ Above(x) \subseteq Nat
      BY <1>n
    <3>2. IsFiniteSet(0..b)
      BY FS_Interval
    <3>3. IsFiniteSet(Above(x))
      BY <3>1, <3>2, FS_Subset
    <3>4. QED  BY <3>1, <3>3 DEF FiniteSubsetsOf
  <2>2. QED  BY <2>1
<1>2. PICK T \in Tails : \A U \in Tails : ~ (<<U, T>> \in StrictSubsetOrdering(Nat))
  <2> HIDE DEF Tails
  <2> QED  BY <1>1, WFMin, FS_StrictSubsetOrderingWellFounded
<1>3. PICK x \in S : T = Above(x)
  OBVIOUS
<1>4. \A y \in S : y <= x
  <2>1. ASSUME NEW y \in S, y > x PROVE FALSE
    <3>1. /\ Above(y) \subseteq Nat /\ Above(x) \subseteq Nat
          /\ Above(y) \subseteq Above(x)
      <4>1. \A z \in S : z > y => z > x
        BY <1>n, <2>1
      <4>2. QED  BY <1>n, <4>1
    <3>2. y \in Above(x) /\ y \notin Above(y)
      BY <2>1
    <3>3. <<Above(y), T>> \in StrictSubsetOrdering(Nat)
      BY <1>3, <3>1, <3>2 DEF StrictSubsetOrdering
    <3>4. QED  BY <1>2, <3>3
  <2>2. QED  BY <2>1
<1>5. \E z \in S : \A y \in S : z >= y
  BY <1>4
<1>6. QED  BY <1>5 DEF Max

LEMMA MaxOfTwo ==
    ASSUME NEW x \in Int, NEW y \in Int
    PROVE  Max({x, y}) = IF x >= y THEN x ELSE y
<1>1. \E z \in {x, y} : \A w \in {x, y} : z >= w
  OBVIOUS
<1>2. /\ Max({x, y}) \in {x, y}
      /\ \A w \in {x, y} : Max({x, y}) >= w
  BY <1>1 DEF Max
<1>3. QED  BY <1>2

-----------------------------------------------------------------------------
(* The chunker.  `current` starts within the last chunk, or right behind   *)
(* it, and holds less than twice the target and the overlap.               *)

ChunkTypeOK ==
    /\ ends \in Seq(Nat) /\ chunks \in Seq(Nat \X Nat)
    /\ start \in Nat \ {0} /\ packed \in BOOLEAN

\* The ends of the pieces: none is longer than the target.
EndsOK == /\ \A i, j \in 0..Taken : i <= j => TokensTo(i) <= TokensTo(j)
          /\ \A i \in 1..Taken : TokensTo(i) <= TokensTo(i - 1) + Target

\* What two neighbours have in common.
Overlapping(c, from) ==
    /\ from >= c[1] /\ from <= c[2] + 1
    /\ TokenLen(from, c[2]) >= Overlap \/ from = c[1]

Limit == Max({2 * Target + Overlap, Threshold + 1})

ChunkOK(c) == 1 <= c[1] /\ c[1] <= c[2] /\ c[2] <= Taken /\ TokenLen(c[1], c[2]) < Limit

Last(cs) == cs[Len(cs)]

\* A list of chunks that covers the text up to the end of its last.
ChunksFit(cs) ==
    /\ \A i \in 1..Len(cs) : ChunkOK(cs[i])
    /\ \A i \in 1..Len(cs) - 1 : cs[i][2] < cs[i + 1][2] /\ Overlapping(cs[i], cs[i + 1][1])
    /\ cs # <<>> => UNION {c[1]..c[2] : c \in Range(cs)} = 1..Last(cs)[2]

\* Where `current` stands while the text is being packed.
CurrentOK ==
    ~packed =>
      /\ TokenLen(start, Taken) < 2 * Target + Overlap
      /\ IF chunks = <<>> THEN start = 1
         ELSE Last(chunks)[2] < Taken /\ Overlapping(Last(chunks), start)

ChunkInv ==
    /\ ChunkTypeOK /\ EndsOK /\ ChunksFit(chunks) /\ CurrentOK
    /\ packed => chunks # <<>> /\ Last(chunks)[2] = Taken

LEMMA ChunkStart == ChunkInit => ChunkInv
<1> SUFFICES ASSUME ChunkInit PROVE ChunkInv
  OBVIOUS
<1>1. ends = <<>> /\ Taken = 0 /\ chunks = <<>> /\ start = 1 /\ packed = FALSE
  BY DEF ChunkInit, Taken
<1>2. EndsOK
  BY <1>1 DEF EndsOK, TokensTo
<1>3. CurrentOK
  <2>1. TokenLen(1, 0) = 0
    BY DEF TokenLen, TokensTo
  <2>2. QED  BY <1>1, <2>1, ChunkerAssumption DEF CurrentOK
<1>4. ChunksFit(chunks)
  <2>1. chunks = <<>> /\ Len(chunks) = 0
    BY <1>1
  <2>2. 1..0 = {} /\ 1..0 - 1 = {}
    OBVIOUS
  <2>3. QED  BY <2>1, <2>2 DEF ChunksFit
<1>5. ChunkTypeOK
  <2>1. start \in Nat \ {0}
    BY <1>1
  <2>2. packed \in BOOLEAN
    BY <1>1, Zenon
  <2>3. \A S : <<>> \in Seq(S)
    OBVIOUS
  <2>4. QED  BY <1>1, <2>1, <2>2, <2>3 DEF ChunkTypeOK
<1>6. QED  BY <1>1, <1>2, <1>3, <1>4, <1>5 DEF ChunkInv

\* The token counts of a text, and that they only grow.
LEMMA TokensAreCounts ==
    ASSUME ChunkInv
    PROVE  /\ Taken \in Nat
           /\ \A i \in 0..Taken : TokensTo(i) \in Nat
           /\ \A i \in 1..Taken + 1, j \in 0..Taken : i <= j + 1 => TokenLen(i, j) \in Nat
<1>1. Taken \in Nat /\ \A i \in 0..Taken : TokensTo(i) \in Nat
  BY DEF ChunkInv, ChunkTypeOK, Taken, TokensTo
<1>2. ASSUME NEW i \in 1..Taken + 1, NEW j \in 0..Taken, i <= j + 1
      PROVE  TokenLen(i, j) \in Nat
  <2>1. i - 1 \in 0..Taken /\ i - 1 <= j
    BY <1>1, <1>2
  <2>2. TokensTo(i - 1) <= TokensTo(j) /\ TokensTo(i - 1) \in Nat /\ TokensTo(j) \in Nat
    BY <1>1, <2>1 DEF ChunkInv, EndsOK
  <2>3. QED  BY <2>2 DEF TokenLen
<1>3. QED  BY <1>1, <1>2

\* The tail of `current` that seeds the next chunk: it has the overlap, or is
\* all of `current`, and without its first piece it is short of the overlap.
LEMMA TailOfCurrent ==
    ASSUME ChunkInv, start <= Taken
    PROVE  /\ OverlapStart \in Nat \ {0} /\ start <= OverlapStart /\ OverlapStart <= Taken + 1
           /\ TokenLen(OverlapStart, Taken) >= Overlap \/ OverlapStart = start
           /\ IF Overlap = 0 THEN OverlapStart = Taken + 1
                             ELSE TokenLen(OverlapStart, Taken) < Target + Overlap
<1> USE ChunkerAssumption
<1>1. start \in Nat \ {0} /\ Taken \in Nat
  BY TokensAreCounts DEF ChunkInv, ChunkTypeOK
<1>2. CASE Overlap = 0
  <2>1. OverlapStart = Taken + 1
    BY <1>2 DEF OverlapStart
  <2>2. TokenLen(OverlapStart, Taken) \in Nat
    BY <1>1, <2>1, TokensAreCounts
  <2>3. QED  BY <1>1, <1>2, <2>1, <2>2
<1>3. CASE Overlap # 0
  <2> DEFINE Long == {k \in start..Taken : TokenLen(k, Taken) >= Overlap}
             S == {start} \cup Long
  <2>1. S \in SUBSET Nat /\ S # {} /\ \A x \in S : x <= Taken
    BY <1>1
  <2>2. OverlapStart = Max(S)
    BY <1>3 DEF OverlapStart
  <2>3. OverlapStart \in S /\ \A x \in S : x <= OverlapStart
    <3> HIDE DEF S
    <3> QED  BY <1>1, <2>1, <2>2, MaxExists
  <2> DEFINE k == OverlapStart
  <2>4. k \in start..Taken /\ k \in Nat \ {0}
    BY <1>1, <2>3
  <2>5. TokenLen(k + 1, Taken) < Overlap \/ k = Taken
    <3>1. ASSUME k # Taken, TokenLen(k + 1, Taken) >= Overlap PROVE FALSE
      <4>1. k + 1 \in Long
        BY <1>1, <2>4, <3>1
      <4>2. QED  BY <2>3, <2>4, <4>1
    <3>2. k + 1 \in 1..Taken + 1
      BY <1>1, <2>4
    <3>3. TokenLen(k + 1, Taken) \in Nat
      BY <1>1, <2>4, <3>2, TokensAreCounts
    <3>4. QED  BY <3>1, <3>3
  <2>6. TokenLen(k, Taken) < Target + Overlap
    <3>1. k \in 0..Taken /\ k - 1 \in 0..Taken /\ k \in 1..Taken
      BY <1>1, <2>4
    <3>2. /\ TokensTo(k) <= TokensTo(k - 1) + Target
          /\ TokensTo(k) \in Nat /\ TokensTo(k - 1) \in Nat /\ TokensTo(Taken) \in Nat
      BY <1>1, <3>1, TokensAreCounts DEF ChunkInv, EndsOK
    <3>3. TokenLen(k + 1, Taken) = TokensTo(Taken) - TokensTo(k)
      BY <2>4 DEF TokenLen
    <3>4. TokenLen(k, Taken) = TokensTo(Taken) - TokensTo(k - 1)
      BY DEF TokenLen
    <3>5. QED  BY <1>3, <2>5, <3>2, <3>3, <3>4
  <2>7. QED  BY <1>1, <1>3, <2>3, <2>4, <2>6
<1>4. QED  BY <1>2, <1>3

LEMMA LimitIs ==
    /\ Limit \in Int /\ Limit >= 2 * Target + Overlap /\ Limit >= Threshold + 1
<1>1. 2 * Target + Overlap \in Int /\ Threshold + 1 \in Int
  BY ChunkerAssumption
<1>2. QED  BY <1>1, MaxOfTwo DEF Limit

\* `current` becomes a chunk.
LEMMA CurrentIsAdded ==
    ASSUME ChunkInv, ~packed, start <= Taken,
           NEW cs, cs = Append(chunks, <<start, Taken>>)
    PROVE  /\ cs \in Seq(Nat \X Nat) /\ cs # <<>> /\ Last(cs) = <<start, Taken>>
           /\ ChunksFit(cs)
<1> DEFINE new == <<start, Taken>>
<1>1. /\ start \in Nat \ {0} /\ Taken \in Nat /\ chunks \in Seq(Nat \X Nat)
      /\ ChunksFit(chunks) /\ CurrentOK
  BY TokensAreCounts DEF ChunkInv, ChunkTypeOK
<1>2. new \in Nat \X Nat /\ new[1] = start /\ new[2] = Taken
  BY <1>1
<1>3. /\ cs \in Seq(Nat \X Nat) /\ Len(cs) = Len(chunks) + 1 /\ cs # <<>>
      /\ \A i \in 1..Len(chunks) : cs[i] = chunks[i]
      /\ cs[Len(cs)] = new /\ Len(chunks) \in Nat
  <2> HIDE DEF new
  <2> QED  BY <1>1, <1>2
<1>4. ChunkOK(new)
  BY <1>1, <1>2, LimitIs, TokensAreCounts, ChunkerAssumption DEF ChunkOK, CurrentOK
<1>5. ASSUME NEW i \in 1..Len(cs) PROVE ChunkOK(cs[i])
  BY <1>1, <1>3, <1>4, <1>5 DEF ChunksFit
<1>6. ASSUME NEW i \in 1..Len(cs) - 1
      PROVE  cs[i][2] < cs[i + 1][2] /\ Overlapping(cs[i], cs[i + 1][1])
  <2>1. CASE i = Len(chunks)
    <3>1. chunks # <<>> /\ cs[i] = Last(chunks) /\ cs[i + 1] = new
      BY <1>1, <1>3, <2>1 DEF Last
    <3>2. QED  BY <1>1, <1>2, <3>1 DEF CurrentOK
  <2>2. CASE i # Len(chunks)
    <3>1. i \in 1..Len(chunks) - 1 /\ cs[i] = chunks[i] /\ cs[i + 1] = chunks[i + 1]
      BY <1>3, <2>2
    <3>2. QED  BY <1>1, <3>1 DEF ChunksFit
  <2>3. QED  BY <2>1, <2>2
<1>7. UNION {c[1]..c[2] : c \in Range(cs)} = 1..Taken
  <2>1. Range(cs) = Range(chunks) \cup {new}
    <3>1. DOMAIN cs = DOMAIN chunks \cup {Len(cs)} /\ DOMAIN chunks = 1..Len(chunks)
      BY <1>1, <1>3
    <3>2. QED  BY <1>3, <3>1 DEF Range
  <2>2. UNION {c[1]..c[2] : c \in Range(cs)}
          = (UNION {c[1]..c[2] : c \in Range(chunks)}) \cup (start..Taken)
    BY <1>2, <2>1
  <2>3. CASE chunks = <<>>
    <3>1. Range(chunks) = {}
      BY <2>3 DEF Range
    <3>2. start = 1
      BY <1>1, <2>3 DEF CurrentOK
    <3>3. QED  BY <2>2, <3>1, <3>2
  <2>4. CASE chunks # <<>>
    <3>1. UNION {c[1]..c[2] : c \in Range(chunks)} = 1..Last(chunks)[2]
      BY <1>1, <2>4 DEF ChunksFit
    <3>2. Last(chunks)[2] < Taken /\ start <= Last(chunks)[2] + 1 /\ Last(chunks)[2] \in Nat
      <4>1. Last(chunks) \in Nat \X Nat
        BY <1>1, <2>4 DEF Last
      <4>2. QED  BY <1>1, <2>4, <4>1 DEF CurrentOK, Overlapping
    <3>3. (1..Last(chunks)[2]) \cup (start..Taken) = 1..Taken
      BY <1>1, <3>2
    <3>4. QED  BY <2>2, <3>1, <3>3
  <2>5. QED  BY <2>3, <2>4
<1>8. QED  BY <1>2, <1>3, <1>5, <1>6, <1>7 DEF ChunksFit, Last

\* A piece is taken: what was counted before stays as it was.
LEMMA PieceIsTaken ==
    ASSUME ChunkInv, NEW n \in 0..Target, ends' = Append(ends, TokensTo(Taken) + n)
    PROVE  /\ ends' \in Seq(Nat) /\ Taken' = Taken + 1 /\ Taken \in Nat
           /\ \A i \in 0..Taken : TokensTo(i)' = TokensTo(i)
           /\ \A i \in {Taken + 1} : TokensTo(i)' = TokensTo(Taken) + n
           /\ EndsOK'
<1> USE ChunkerAssumption
<1>1. /\ ends \in Seq(Nat) /\ Taken \in Nat /\ Taken = Len(ends) /\ n \in Nat /\ n <= Target
      /\ \A i \in 0..Taken : TokensTo(i) \in Nat
  BY TokensAreCounts DEF ChunkInv, ChunkTypeOK, Taken
<1>2. TokensTo(Taken) + n \in Nat
  BY <1>1
<1>3. /\ ends' \in Seq(Nat) /\ Len(ends') = Taken + 1 /\ ends'[Taken + 1] = TokensTo(Taken) + n
      /\ \A i \in 1..Taken : ends'[i] = ends[i]
  BY <1>1, <1>2
<1>4. Taken' = Taken + 1
  BY <1>3 DEF Taken
<1>5. \A i \in 0..Taken : TokensTo(i)' = TokensTo(i)
  BY <1>1, <1>3 DEF TokensTo
<1>6. \A i \in {Taken + 1} : TokensTo(i)' = TokensTo(Taken) + n
  BY <1>1, <1>3 DEF TokensTo
<1>7. EndsOK'
  <2>1. ASSUME NEW i \in 0..Taken + 1, NEW j \in 0..Taken + 1, i <= j
        PROVE  TokensTo(i)' <= TokensTo(j)'
    <3>1. \A k \in 0..Taken : TokensTo(k) <= TokensTo(Taken)
      BY <1>1 DEF ChunkInv, EndsOK
    <3>2. CASE i \in 0..Taken /\ j \in 0..Taken
      BY <1>5, <2>1, <3>2 DEF ChunkInv, EndsOK
    <3>3. CASE i \in 0..Taken /\ j = Taken + 1
      BY <1>1, <1>5, <1>6, <3>1, <3>3
    <3>4. CASE i = Taken + 1
      BY <1>1, <1>2, <1>6, <2>1, <3>4
    <3>5. QED  BY <1>1, <2>1, <3>2, <3>3, <3>4
  <2>2. ASSUME NEW i \in 1..Taken + 1
        PROVE  TokensTo(i)' <= TokensTo(i - 1)' + Target
    <3>1. i - 1 \in 0..Taken
      BY <1>1
    <3>2. CASE i \in 1..Taken
      <4>1. TokensTo(i)' = TokensTo(i) /\ TokensTo(i - 1)' = TokensTo(i - 1)
        BY <1>5, <3>1, <3>2
      <4>2. TokensTo(i) <= TokensTo(i - 1) + Target
        BY <3>2 DEF ChunkInv, EndsOK
      <4>3. QED  BY <4>1, <4>2
    <3>3. CASE i = Taken + 1
      BY <1>1, <1>5, <1>6, <3>3
    <3>4. QED  BY <1>1, <3>2, <3>3
  <2>3. QED  BY <1>4, <2>1, <2>2 DEF EndsOK
<1>8. QED  BY <1>1, <1>3, <1>4, <1>5, <1>6, <1>7

\* So a list of chunks that fitted fits still.
LEMMA ChunksStillFit ==
    ASSUME ChunkInv, NEW n \in 0..Target, ends' = Append(ends, TokensTo(Taken) + n),
           chunks' \in Seq(Nat \X Nat), ChunksFit(chunks')
    PROVE  ChunksFit(chunks)'
<1>1. /\ Taken' = Taken + 1 /\ Taken \in Nat
      /\ \A i \in 0..Taken : TokensTo(i)' = TokensTo(i)
  BY PieceIsTaken
<1>2. \A i \in 1..Len(chunks') : chunks'[i] \in Nat \X Nat /\ ChunkOK(chunks'[i])
  BY DEF ChunksFit
<1>3. ASSUME NEW c \in Nat \X Nat, ChunkOK(c) PROVE ChunkOK(c)'
  <2>1. c[2] \in 0..Taken /\ c[1] - 1 \in 0..Taken
    BY <1>1, <1>3 DEF ChunkOK
  <2>2. TokenLen(c[1], c[2])' = TokenLen(c[1], c[2])
    BY <1>1, <2>1 DEF TokenLen
  <2>3. QED  BY <1>1, <1>3, <2>2 DEF ChunkOK, Limit
<1>4. ASSUME NEW c \in Nat \X Nat, ChunkOK(c), NEW f \in Nat \ {0}, Overlapping(c, f)
      PROVE  Overlapping(c, f)'
  <2>1. c[2] \in 0..Taken /\ f - 1 \in 0..Taken
    BY <1>1, <1>4 DEF ChunkOK, Overlapping
  <2>2. TokenLen(f, c[2])' = TokenLen(f, c[2])
    BY <1>1, <2>1 DEF TokenLen
  <2>3. QED  BY <1>4, <2>2 DEF Overlapping
<1>5. \A i \in 1..Len(chunks') : ChunkOK(chunks[i])'
  BY <1>2, <1>3
<1>6. ASSUME NEW i \in 1..Len(chunks') - 1
      PROVE  chunks'[i][2] < chunks'[i + 1][2] /\ Overlapping(chunks[i], chunks[i + 1][1])'
  <2>1. /\ i \in 1..Len(chunks') /\ i + 1 \in 1..Len(chunks')
    OBVIOUS
  <2>2. \A c \in Nat \X Nat : ChunkOK(c) => c[1] \in Nat \ {0}
    BY DEF ChunkOK
  <2>3. /\ chunks'[i] \in Nat \X Nat /\ ChunkOK(chunks'[i]) /\ chunks'[i + 1][1] \in Nat \ {0}
    BY <1>2, <2>1, <2>2
  <2>4. chunks'[i][2] < chunks'[i + 1][2] /\ Overlapping(chunks'[i], chunks'[i + 1][1])
    BY DEF ChunksFit
  <2>5. QED  BY <1>4, <2>3, <2>4
<1>7. QED  BY <1>5, <1>6 DEF ChunksFit, Last

LEMMA StartIsBounded ==
    ASSUME ChunkInv, ~packed
    PROVE  /\ Taken \in Nat /\ start \in Nat \ {0} /\ start <= Taken + 1
           /\ Taken # 0 => start <= Taken
           /\ chunks \in Seq(Nat \X Nat) /\ TokenLen(start, Taken) \in Nat
           /\ TokenLen(Taken + 1, Taken) = 0
<1>1. chunks # <<>> => Last(chunks) \in Nat \X Nat
  BY DEF ChunkInv, ChunkTypeOK, Last
<1>2. Taken \in Nat /\ start \in Nat \ {0} /\ start <= Taken + 1 /\ (Taken # 0 => start <= Taken)
  BY <1>1, TokensAreCounts DEF ChunkInv, ChunkTypeOK, CurrentOK, Overlapping
<1>3. chunks \in Seq(Nat \X Nat) /\ TokenLen(start, Taken) \in Nat
  BY <1>2, TokensAreCounts DEF ChunkInv, ChunkTypeOK
<1>4. TokenLen(Taken + 1, Taken) = 0
  BY <1>2, TokensAreCounts DEF TokenLen
<1>5. QED  BY <1>2, <1>3, <1>4

\* The piece is added to `current`, wherever that starts.
LEMMA CurrentGrows ==
    ASSUME ChunkInv, NEW n \in 0..Target, ends' = Append(ends, TokensTo(Taken) + n),
           start' \in 1..Taken + 1
    PROVE  TokenLen(start, Taken)' = TokenLen(start', Taken) + n
<1>1. /\ Taken' = Taken + 1 /\ Taken \in Nat /\ n \in Nat
      /\ \A i \in 0..Taken : TokensTo(i)' = TokensTo(i)
      /\ \A i \in {Taken + 1} : TokensTo(i)' = TokensTo(Taken) + n
  BY PieceIsTaken, ChunkerAssumption
<1>2. start' - 1 \in 0..Taken
  <2>1. \A t \in Nat : \A x \in 1..t + 1 : x - 1 \in 0..t
    OBVIOUS
  <2>2. QED  BY <1>1, <2>1
<1>3. /\ TokensTo(Taken)' = TokensTo(Taken) + n
      /\ TokensTo(start - 1)' = TokensTo(start' - 1)
  BY <1>1, <1>2 DEF TokensTo
<1>4. /\ TokensTo(Taken) \in Nat /\ TokensTo(start' - 1) \in Nat
  BY <1>1, <1>2, TokensAreCounts
<1>5. QED  BY <1>1, <1>3, <1>4 DEF TokenLen

LEMMA ChunkInvHolds == ChunkSpec => []ChunkInv
<1> USE ChunkerAssumption
<1>1. ASSUME ChunkInv, NEW n \in 0..Target, PackPiece(n) PROVE ChunkInv'
  <2>1. /\ ~packed /\ packed' = packed /\ ends' = Append(ends, TokensTo(Taken) + n)
        /\ n \in Nat /\ n <= Target /\ packed \in BOOLEAN
    BY <1>1 DEF PackPiece, ChunkInv, ChunkTypeOK
  <2>2. /\ Taken' = Taken + 1 /\ ends' \in Seq(Nat) /\ EndsOK'
        /\ \A i \in 0..Taken : TokensTo(i)' = TokensTo(i)
        /\ \A i \in {Taken + 1} : TokensTo(i)' = TokensTo(Taken) + n
    BY <1>1, <2>1, PieceIsTaken
  <2>3. /\ Taken \in Nat /\ start \in Nat \ {0} /\ start <= Taken + 1
        /\ chunks \in Seq(Nat \X Nat)
    BY <1>1, <2>1, StartIsBounded
  <2>4. ASSUME start' \in 1..Taken + 1 PROVE TokenLen(start, Taken)' = TokenLen(start', Taken) + n
    BY <1>1, <2>1, <2>4, CurrentGrows
  <2>5. CASE start <= Taken /\ TokenLen(start, Taken) + n > Target
    <3>1. chunks' = Append(chunks, <<start, Taken>>) /\ start' = OverlapStart
      BY <1>1, <2>5 DEF PackPiece, Flush
    <3>2. /\ chunks' \in Seq(Nat \X Nat) /\ chunks' # <<>> /\ Last(chunks') = <<start, Taken>>
          /\ ChunksFit(chunks')
      BY <1>1, <2>1, <2>5, <3>1, CurrentIsAdded
    <3>3. /\ start' \in Nat \ {0} /\ start <= start' /\ start' <= Taken + 1
          /\ TokenLen(start', Taken) >= Overlap \/ start' = start
          /\ IF Overlap = 0 THEN start' = Taken + 1
                            ELSE TokenLen(start', Taken) < Target + Overlap
      BY <1>1, <2>5, <3>1, TailOfCurrent
    <3>4. ChunksFit(chunks)'
      BY <1>1, <2>1, <3>2, ChunksStillFit
    <3>5. TokenLen(start, Taken)' < 2 * Target + Overlap
      <4>1. TokenLen(start', Taken) \in Nat /\ TokenLen(start', Taken) < Target + Overlap
        <5>1. TokenLen(start', Taken) \in Nat
          BY <1>1, <2>3, <3>3, TokensAreCounts
        <5>2. TokenLen(Taken + 1, Taken) = 0
          BY <1>1, <2>3, TokensAreCounts DEF TokenLen
        <5>3. QED  BY <3>3, <5>1, <5>2
      <4>2. QED  BY <2>1, <2>3, <2>4, <3>3, <4>1
    <3>6. CurrentOK'
      <4>1. Last(chunks)' = <<start, Taken>>
        BY <3>2 DEF Last
      <4>2. Overlapping(Last(chunks), start)'
        <5>1. TokenLen(start, Last(chunks)[2])' = TokenLen(start', Taken)
          BY <2>2, <2>3, <3>3, <4>1 DEF TokenLen
        <5>2. QED  BY <2>3, <3>3, <4>1, <5>1 DEF Overlapping
      <4>3. QED  BY <2>2, <2>3, <3>2, <3>5, <4>1, <4>2 DEF CurrentOK
    <3>7. QED  BY <2>1, <2>2, <3>2, <3>3, <3>4, <3>6 DEF ChunkInv, ChunkTypeOK
  <2>6. CASE ~(start <= Taken /\ TokenLen(start, Taken) + n > Target)
    <3>1. UNCHANGED <<chunks, start>>
      BY <1>1, <2>6 DEF PackPiece
    <3>2. ChunksFit(chunks')
      BY <1>1, <3>1 DEF ChunkInv
    <3>3. ChunksFit(chunks)'
      BY <1>1, <2>1, <2>3, <3>1, <3>2, ChunksStillFit
    <3>4. TokenLen(start, Taken)' < 2 * Target + Overlap
      <4>1. TokenLen(start', Taken) + n \in Nat /\ TokenLen(start', Taken) + n <= Target
        <5>1. CASE start = Taken + 1
          <6>1. TokenLen(Taken + 1, Taken) = 0
            BY <1>1, <2>3, TokensAreCounts DEF TokenLen
          <6>2. QED  BY <2>1, <3>1, <5>1, <6>1
        <5>2. CASE start <= Taken
          <6>1. TokenLen(start, Taken) \in Nat
            BY <1>1, <2>3, <5>2, TokensAreCounts
          <6>2. QED  BY <2>1, <2>6, <3>1, <5>2, <6>1
        <5>3. QED  BY <2>3, <5>1, <5>2
      <4>2. TokenLen(start, Taken)' = TokenLen(start', Taken) + n
        BY <2>3, <2>4, <3>1
      <4>3. QED  BY <4>1, <4>2
    <3>5. CurrentOK'
      <4>1. CASE chunks = <<>>
        BY <1>1, <2>1, <2>2, <3>1, <3>4, <4>1 DEF CurrentOK, ChunkInv
      <4>2. CASE chunks # <<>>
        <5>1. Last(chunks) \in Nat \X Nat /\ Last(chunks)' = Last(chunks)
          BY <2>3, <3>1, <4>2 DEF Last
        <5>2. Last(chunks)[2] < Taken /\ Overlapping(Last(chunks), start)
          BY <1>1, <2>1, <4>2 DEF CurrentOK, ChunkInv
        <5>3. TokenLen(start, Last(chunks)[2])' = TokenLen(start, Last(chunks)[2])
          BY <2>2, <2>3, <3>1, <5>1, <5>2 DEF TokenLen
        <5>4. Overlapping(Last(chunks), start)'
          BY <3>1, <5>1, <5>2, <5>3 DEF Overlapping
        <5>5. QED  BY <2>2, <2>3, <3>1, <3>4, <4>2, <5>1, <5>2, <5>4 DEF CurrentOK
      <4>3. QED  BY <4>1, <4>2
    <3>6. QED  BY <1>1, <2>1, <2>2, <2>3, <3>1, <3>3, <3>5 DEF ChunkInv, ChunkTypeOK
  <2>7. QED  BY <2>5, <2>6
<1>2. ASSUME ChunkInv, ChunkTurn PROVE ChunkInv'
  <2>1. /\ ~packed /\ packed' /\ packed' \in BOOLEAN /\ UNCHANGED <<ends, start>> /\ ends # <<>>
        /\ chunks' = IF TokenLen(1, Taken) <= Threshold THEN <<<<1, Taken>>>>
                                                       ELSE Append(chunks, <<start, Taken>>)
    BY <1>2 DEF ChunkTurn
  <2>2. Taken \in Nat /\ Taken >= 1 /\ ends \in Seq(Nat) /\ start \in Nat \ {0} /\ start <= Taken
    <3>1. Taken \in Nat /\ Taken # 0 /\ ends \in Seq(Nat)
      BY <1>2, <2>1, TokensAreCounts DEF ChunkInv, ChunkTypeOK, Taken
    <3>2. QED  BY <1>2, <2>1, <3>1, StartIsBounded
  <2>3. chunks' \in Seq(Nat \X Nat) /\ chunks' # <<>> /\ Last(chunks')[2] = Taken /\ ChunksFit(chunks')
    <3>1. CASE TokenLen(1, Taken) <= Threshold
      <4> DEFINE c == <<1, Taken>>
      <4>1. chunks' = <<c>> /\ c \in Nat \X Nat /\ c[1] = 1 /\ c[2] = Taken
        BY <2>1, <2>2, <3>1
      <4>2. ChunkOK(c)
        <5>1. TokenLen(1, Taken) \in Nat
          BY <1>2, <2>2, TokensAreCounts
        <5>2. QED  BY <2>2, <3>1, <4>1, <5>1, LimitIs DEF ChunkOK
      <4> HIDE DEF c
      <4>3. chunks' \in Seq(Nat \X Nat) /\ Len(chunks') = 1 /\ chunks'[1] = c /\ Range(chunks') = {c}
        BY <4>1 DEF Range
      <4>4. UNION {d[1]..d[2] : d \in Range(chunks')} = 1..Taken
        BY <4>1, <4>3
      <4>5. Last(chunks') = c
        BY <4>3 DEF Last
      <4>6. \A i \in 1..Len(chunks') : ChunkOK(chunks'[i])
        BY <4>2, <4>3
      <4>7. 1..Len(chunks') - 1 = {}
        BY <4>3
      <4>8. QED  BY <4>1, <4>3, <4>4, <4>5, <4>6, <4>7 DEF ChunksFit
    <3>2. CASE ~(TokenLen(1, Taken) <= Threshold)
      <4>1. chunks' = Append(chunks, <<start, Taken>>)
        BY <2>1, <3>2
      <4>2. /\ chunks' \in Seq(Nat \X Nat) /\ chunks' # <<>> /\ ChunksFit(chunks')
            /\ Last(chunks') = <<start, Taken>>
        BY <1>2, <2>1, <2>2, <4>1, CurrentIsAdded
      <4>3. QED  BY <4>2
    <3>3. QED  BY <3>1, <3>2
  <2>4. EndsOK' /\ Taken' = Taken
    BY <1>2, <2>1 DEF ChunkInv, EndsOK, Taken, TokensTo
  <2>5. ChunksFit(chunks)'
    BY <2>1, <2>3 DEF ChunksFit, ChunkOK, Overlapping, TokenLen, TokensTo, Taken, Limit, Last
  <2>6. QED  BY <2>1, <2>2, <2>3, <2>4, <2>5 DEF ChunkInv, ChunkTypeOK, CurrentOK, Last
<1>3. ASSUME ChunkInv, UNCHANGED chunkVars PROVE ChunkInv'
  BY <1>3 DEF chunkVars, ChunkInv, ChunkTypeOK, EndsOK, ChunksFit, CurrentOK, ChunkOK, Overlapping,
              TokenLen, TokensTo, Taken, Limit, Last
<1>4. ChunkInv /\ [ChunkNext]_chunkVars => ChunkInv'
  BY <1>1, <1>2, <1>3 DEF ChunkNext
<1>5. QED  BY <1>4, ChunkStart, PTL DEF ChunkSpec

\* For any threshold, target and overlap: the chunks of a turn leave nothing of
\* it out, and neighbours share the overlap or all that the first of them has.
THEOREM TurnIsCovered == ChunkSpec => []ChunksCoverTurn
<1>1. ChunkInv => ChunksCoverTurn
  BY DEF ChunkInv, ChunksFit, ChunksCoverTurn, Overlapping
<1>2. QED  BY <1>1, ChunkInvHolds, PTL

\* For any threshold, target and overlap: no chunk reaches twice the target and
\* the overlap, and one of a text under the threshold stays under it.
THEOREM ChunksAreShort == ChunkSpec => []ChunkLength
<1>1. ChunkInv => ChunkLength
  <2> SUFFICES ASSUME ChunkInv, NEW c \in Range(chunks) PROVE ChunkTokens(c) < Limit
    BY DEF ChunkLength, Limit
  <2>1. PICK i \in 1..Len(chunks) : c = chunks[i]
    BY DEF ChunkInv, ChunkTypeOK, Range
  <2>2. QED  BY <2>1 DEF ChunkInv, ChunksFit, ChunkOK, ChunkTokens
<1>2. QED  BY <1>1, ChunkInvHolds, PTL

\* A chunk of a text over the threshold is not without tokens, and what exceeds
\* the target ends with the piece behind the chunk before it.
TightInv ==
    /\ \A i \in 1..Len(chunks) :
         \/ packed /\ TokenLen(1, Taken) <= Threshold
         \/ /\ ChunkTokens(chunks[i]) > 0
            /\ ChunkTokens(chunks[i]) <= Target \/ PieceOver(chunks, i)
    /\ ~packed => /\ chunks # <<>> => TokenLen(start, Taken) > 0
                  /\ \/ TokenLen(start, Taken) <= Target
                     \/ chunks # <<>> /\ Taken = Last(chunks)[2] + 1
                  /\ Overlap = 0 => TokenLen(start, Taken) <= Target

\* What the chunks emitted so far hold of tokens is not changed by a new piece.
LEMMA TokensOfChunksStay ==
    ASSUME ChunkInv, NEW n \in 0..Target, ends' = Append(ends, TokensTo(Taken) + n),
           NEW c \in Nat \X Nat, ChunkOK(c)
    PROVE  ChunkTokens(c)' = ChunkTokens(c)
<1>1. Taken \in Nat /\ \A i \in 0..Taken : TokensTo(i)' = TokensTo(i)
  BY PieceIsTaken
<1>2. c[2] \in 0..Taken /\ c[1] - 1 \in 0..Taken
  BY <1>1 DEF ChunkOK
<1>3. QED  BY <1>1, <1>2 DEF ChunkTokens, TokenLen

\* `current`, if it holds any tokens and is within the bounds, can be emitted.
LEMMA TightWithCurrent ==
    ASSUME ChunkInv, TightInv, ~packed, start <= Taken, TokenLen(start, Taken) > 0,
           NEW cs, cs = Append(chunks, <<start, Taken>>), NEW i \in 1..Len(cs)
    PROVE  /\ cs[i] \in Nat \X Nat /\ ChunkOK(cs[i]) /\ ChunkTokens(cs[i]) > 0
           /\ ChunkTokens(cs[i]) <= Target \/ PieceOver(cs, i)
<1>1. /\ cs \in Seq(Nat \X Nat) /\ ChunksFit(cs)
  BY CurrentIsAdded
<1>2. /\ Taken \in Nat /\ start \in Nat \ {0} /\ chunks \in Seq(Nat \X Nat)
      /\ TokenLen(start, Taken) \in Nat
  BY StartIsBounded
<1>3. cs[i] \in Nat \X Nat /\ ChunkOK(cs[i])
  <2>1. \A S : \A q \in Seq(S) : \A j \in 1..Len(q) : q[j] \in S
    OBVIOUS
  <2>2. QED  BY <1>1, <2>1 DEF ChunksFit
<1>5. CASE i \in 1..Len(chunks)
  <2>1. cs[i] = chunks[i]
    <3>1. <<start, Taken>> \in Nat \X Nat
      BY <1>2
    <3>2. QED  BY <1>2, <1>5, <3>1
  <2>2. PieceOver(chunks, i) => PieceOver(cs, i)
    <3>1. ASSUME i > 1 PROVE cs[i - 1] = chunks[i - 1]
      <4>1. <<start, Taken>> \in Nat \X Nat /\ i - 1 \in 1..Len(chunks)
        BY <1>2, <1>5, <3>1
      <4>2. QED  BY <1>2, <4>1
    <3>2. QED  BY <2>1, <3>1 DEF PieceOver
  <2>3. QED  BY <1>3, <1>5, <2>1, <2>2 DEF TightInv
<1>6. CASE i = Len(chunks) + 1
  <2>1. cs[i] = <<start, Taken>>
    <3>1. <<start, Taken>> \in Nat \X Nat
      BY <1>2
    <3>2. QED  BY <1>2, <1>6, <3>1
  <2>2. ChunkTokens(cs[i]) = TokenLen(start, Taken)
    BY <2>1 DEF ChunkTokens
  <2>3. TokenLen(start, Taken) <= Target \/ (chunks # <<>> /\ Taken = Last(chunks)[2] + 1)
    BY DEF TightInv
  <2>4. chunks # <<>> => /\ i > 1 /\ cs[i - 1] = Last(chunks)
    <3>1. <<start, Taken>> \in Nat \X Nat
      BY <1>2
    <3>2. QED  BY <1>2, <1>6, <3>1 DEF Last
  <2>5. cs[i][2] = Taken
    BY <2>1
  <2>6. QED  BY <1>2, <1>3, <2>2, <2>3, <2>4, <2>5 DEF PieceOver
<1>7. i \in 1..Len(chunks) \/ i = Len(chunks) + 1
  <2>1. Len(cs) = Len(chunks) + 1 /\ Len(chunks) \in Nat
    BY <1>2
  <2>2. QED  BY <2>1
<1>8. QED  BY <1>5, <1>6, <1>7

LEMMA TightInvHolds == ChunkSpec => []TightInv
<1> USE ChunkerAssumption
<1>1. ChunkInit => TightInv
  <2> SUFFICES ASSUME ChunkInit PROVE TightInv
    OBVIOUS
  <2>1. Taken = 0 /\ chunks = <<>> /\ Len(chunks) = 0 /\ start = 1
    BY DEF ChunkInit, Taken
  <2>2. TokenLen(1, 0) = 0
    BY DEF TokenLen, TokensTo
  <2>3. QED  BY <2>1, <2>2 DEF TightInv
<1>2. ASSUME ChunkInv, ChunkInv', TightInv, NEW n \in 0..Target, PackPiece(n) PROVE TightInv'
  <2>1. /\ ~packed /\ ~packed' /\ ends' = Append(ends, TokensTo(Taken) + n)
        /\ n \in Nat /\ n <= Target
    BY <1>2 DEF PackPiece
  <2>2. /\ Taken \in Nat /\ start \in Nat \ {0} /\ start <= Taken + 1
        /\ chunks \in Seq(Nat \X Nat) /\ TokenLen(start, Taken) \in Nat
        /\ TokenLen(Taken + 1, Taken) = 0
    BY <1>2, <2>1, StartIsBounded
  <2>3. CASE start <= Taken /\ TokenLen(start, Taken) + n > Target
    <3>1. chunks' = Append(chunks, <<start, Taken>>) /\ start' = OverlapStart
      BY <1>2, <2>3 DEF PackPiece, Flush
    <3>2. /\ start' \in 1..Taken + 1
          /\ TokenLen(start', Taken) >= Overlap \/ start' = start
          /\ Overlap = 0 => start' = Taken + 1
          /\ TokenLen(start', Taken) \in Nat
      <4>1. /\ start' \in Nat \ {0} /\ start' <= Taken + 1
            /\ TokenLen(start', Taken) >= Overlap \/ start' = start
            /\ Overlap = 0 => start' = Taken + 1
        BY <1>2, <2>3, <3>1, TailOfCurrent
      <4>2. start' \in 1..Taken + 1
        BY <2>2, <4>1
      <4>3. TokenLen(start', Taken) \in Nat
        BY <1>2, <2>2, <4>1, <4>2, TokensAreCounts
      <4>4. QED  BY <4>1, <4>2, <4>3
    <3>3. TokenLen(start, Taken) > 0
      BY <2>1, <2>2, <2>3
    <3>4. TokenLen(start, Taken)' = TokenLen(start', Taken) + n
      BY <1>2, <2>1, <3>2, CurrentGrows
    <3>5. TokenLen(start, Taken)' > 0 /\ (Overlap = 0 => TokenLen(start, Taken)' <= Target)
      <4>1. CASE Overlap = 0
        <5>1. TokenLen(start, Taken) <= Target
          BY <1>2, <2>1, <4>1 DEF TightInv
        <5>2. n > 0
          BY <2>1, <2>2, <2>3, <5>1
        <5>3. QED  BY <2>1, <2>2, <3>2, <3>4, <4>1, <5>2
      <4>2. CASE Overlap # 0
        BY <2>1, <3>2, <3>3, <3>4, <4>2
      <4>3. QED  BY <4>1, <4>2
    <3>8. chunks' # <<>> /\ Taken' = Last(chunks')[2] + 1
      <4>1. <<start, Taken>> \in Nat \X Nat /\ Taken' = Taken + 1
        BY <1>2, <2>1, <2>2 DEF Taken, ChunkInv, ChunkTypeOK
      <4>2. Len(chunks') = Len(chunks) + 1 /\ chunks'[Len(chunks')] = <<start, Taken>>
        BY <2>2, <3>1, <4>1
      <4>3. QED  BY <2>2, <3>1, <4>1, <4>2 DEF Last
    <3>6. ASSUME NEW i \in 1..Len(chunks')
          PROVE  /\ ChunkTokens(chunks[i])' > 0
                 /\ ChunkTokens(chunks[i])' <= Target \/ PieceOver(chunks', i)
      <4>1. /\ chunks'[i] \in Nat \X Nat /\ ChunkOK(chunks'[i]) /\ ChunkTokens(chunks'[i]) > 0
            /\ ChunkTokens(chunks'[i]) <= Target \/ PieceOver(chunks', i)
        BY <1>2, <2>1, <2>3, <3>1, <3>3, TightWithCurrent
      <4>2. \A c \in Nat \X Nat : ChunkOK(c) => ChunkTokens(c)' = ChunkTokens(c)
        BY <1>2, <2>1, TokensOfChunksStay
      <4>3. ChunkTokens(chunks[i])' = ChunkTokens(chunks'[i])
        BY <4>1, <4>2
      <4>4. QED  BY <4>1, <4>3
    <3>9. \A i : PieceOver(chunks', i) <=> PieceOver(chunks, i)'
      BY DEF PieceOver
    <3>7. QED  BY <3>5, <3>6, <3>8, <3>9 DEF TightInv
  <2>4. CASE ~(start <= Taken /\ TokenLen(start, Taken) + n > Target)
    <3>1. UNCHANGED <<chunks, start>>
      BY <1>2, <2>4 DEF PackPiece
    <3>2. TokenLen(start, Taken)' = TokenLen(start, Taken) + n
      <4>1. start' \in 1..Taken + 1
        BY <2>2, <3>1
      <4>2. QED  BY <1>2, <2>1, <3>1, <4>1, CurrentGrows
    <3>3. TokenLen(start, Taken)' <= Target
      BY <2>1, <2>2, <2>4, <3>2
    <3>4. chunks # <<>> => TokenLen(start, Taken)' > 0
      BY <1>2, <2>1, <2>2, <3>2 DEF TightInv
    <3>5. ASSUME NEW i \in 1..Len(chunks)
          PROVE  /\ ChunkTokens(chunks[i])' > 0
                 /\ ChunkTokens(chunks[i])' <= Target \/ PieceOver(chunks, i)
      <4>1. chunks[i] \in Nat \X Nat /\ ChunkOK(chunks[i])
        BY <1>2, <2>2 DEF ChunkInv, ChunksFit
      <4>2. \A c \in Nat \X Nat : ChunkOK(c) => ChunkTokens(c)' = ChunkTokens(c)
        BY <1>2, <2>1, TokensOfChunksStay
      <4>3. ChunkTokens(chunks[i])' = ChunkTokens(chunks[i])
        BY <3>1, <4>1, <4>2
      <4>4. QED  BY <1>2, <2>1, <4>3 DEF TightInv
    <3>6. \A i : PieceOver(chunks, i) <=> PieceOver(chunks, i)'
      BY <3>1 DEF PieceOver
    <3>7. Overlap = 0 => TokenLen(start, Taken)' <= Target
      BY <3>3
    <3>8. QED  BY <3>1, <3>3, <3>4, <3>5, <3>6, <3>7 DEF TightInv
  <2>5. QED  BY <2>3, <2>4
<1>3. ASSUME ChunkInv, TightInv, ChunkTurn PROVE TightInv'
  <2>1. /\ ~packed /\ packed' /\ UNCHANGED <<ends, start>> /\ ends # <<>>
        /\ chunks' = IF TokenLen(1, Taken) <= Threshold THEN <<<<1, Taken>>>>
                                                       ELSE Append(chunks, <<start, Taken>>)
    BY <1>3 DEF ChunkTurn
  <2>2. Taken \in Nat /\ Taken # 0 /\ start <= Taken /\ TokenLen(1, Taken) \in Nat
    <3>1. Taken \in Nat /\ Taken # 0
      BY <1>3, <2>1, TokensAreCounts DEF ChunkInv, ChunkTypeOK, Taken
    <3>2. QED  BY <1>3, <2>1, <3>1, StartIsBounded, TokensAreCounts
  <2>3. /\ \A c : ChunkTokens(c)' = ChunkTokens(c)
        /\ TokenLen(1, Taken)' = TokenLen(1, Taken)
    BY <2>1 DEF ChunkTokens, TokenLen, TokensTo, Taken
  <2>4. CASE TokenLen(1, Taken) <= Threshold
    BY <2>1, <2>3, <2>4 DEF TightInv
  <2>5. CASE ~(TokenLen(1, Taken) <= Threshold)
    <3>1. chunks' = Append(chunks, <<start, Taken>>)
      BY <2>1, <2>5
    <3>2. TokenLen(start, Taken) > 0
      <4>1. CASE chunks = <<>>
        <5>1. start = 1
          BY <1>3, <2>1, <4>1 DEF ChunkInv, CurrentOK
        <5>2. QED  BY <2>2, <2>5, <5>1
      <4>2. CASE chunks # <<>>
        BY <1>3, <2>1, <4>2 DEF TightInv
      <4>3. QED  BY <4>1, <4>2
    <3>3. \A i \in 1..Len(chunks') :
             /\ ChunkTokens(chunks'[i]) > 0
             /\ ChunkTokens(chunks'[i]) <= Target \/ PieceOver(chunks', i)
      BY <1>3, <2>1, <2>2, <3>1, <3>2, TightWithCurrent
    <3>4. \A i : PieceOver(chunks', i) <=> PieceOver(chunks, i)'
      BY DEF PieceOver
    <3>5. QED  BY <2>1, <2>3, <3>3, <3>4 DEF TightInv
  <2>6. QED  BY <2>4, <2>5
<1>4. ASSUME TightInv, UNCHANGED chunkVars PROVE TightInv'
  BY <1>4 DEF chunkVars, TightInv, ChunkTokens, TokenLen, TokensTo, Taken, Last, PieceOver
<1>5. ChunkInv /\ ChunkInv' /\ TightInv /\ [ChunkNext]_chunkVars => TightInv'
  BY <1>2, <1>3, <1>4 DEF ChunkNext
<1>6. QED  BY <1>1, <1>5, ChunkInvHolds, PTL DEF ChunkSpec

\* For any threshold, target and overlap: of a text over the threshold no chunk
\* is blank, so that _pack's last line, which drops the blank ones, drops none.
NoBlankChunk ==
    packed /\ TokenLen(1, Taken) > Threshold => \A c \in Range(chunks) : ChunkTokens(c) > 0

THEOREM ChunksAreNotBlank == ChunkSpec => []NoBlankChunk
<1>1. ChunkInv /\ TightInv => NoBlankChunk
  <2> SUFFICES ASSUME ChunkInv, TightInv, TokenLen(1, Taken) > Threshold, NEW c \in Range(chunks)
               PROVE  ChunkTokens(c) > 0
    BY DEF NoBlankChunk
  <2>1. PICK i \in 1..Len(chunks) : c = chunks[i]
    BY DEF ChunkInv, ChunkTypeOK, Range
  <2>2. Taken \in Nat /\ TokenLen(1, Taken) \in Nat
    BY TokensAreCounts
  <2>3. QED  BY <2>1, <2>2, ChunkerAssumption DEF TightInv
<1>2. QED  BY <1>1, ChunkInvHolds, TightInvHolds, PTL

\* For any threshold, target and overlap, a chunk that exceeds the target is the
\* overlap and one piece, never more.
THEOREM ExcessIsSmall == ChunkSpec => []ExcessIsOnePiece
<1>1. ChunkInv /\ TightInv => ExcessIsOnePiece
  <2> SUFFICES ASSUME ChunkInv, TightInv, TokenLen(1, Taken) > Threshold,
                      NEW i \in 1..Len(chunks)
               PROVE  ChunkTokens(chunks[i]) <= Target \/ PieceOver(chunks, i)
    BY DEF ExcessIsOnePiece
  <2>1. Taken \in Nat /\ TokenLen(1, Taken) \in Nat
    BY TokensAreCounts
  <2>2. QED  BY <2>1, ChunkerAssumption DEF TightInv
<1>2. QED  BY <1>1, ChunkInvHolds, TightInvHolds, PTL

-----------------------------------------------------------------------------
(* The selection of best-of-N.                                             *)

Scores == {Error} \cup 0..Full

Counts == [oracle_pass : Nat, highest_score : Nat, no_valid_candidate : Nat, sum : Nat]

BenchTypeOK ==
    /\ candidates \in Seq(Scores) /\ Len(candidates) <= N
    /\ scan \in [pass : {1, 2}, at : 1..N + 1, idx : 0..N, value : Scores]
    /\ perProblem \in Seq([cs : Seq(Scores), pick : [idx : 0..N, value : 0..Full]])
    /\ aggregate \in Counts
    /\ once \in Nat

\* What the selector knows of the candidates it has looked at.
ScanInv ==
    /\ Len(candidates) < N => scan = ScanStart
    /\ scan.pass = 1 => \A k \in 1..scan.at - 1 : candidates[k] < Full
    /\ scan.pass = 2 =>
         /\ \A k \in 1..N : candidates[k] < Full
         /\ \A k \in 1..scan.at - 1 : candidates[k] <= scan.value
         /\ scan.idx = 0 => scan.value = Error
         /\ scan.idx > 0 => /\ scan.idx < scan.at
                            /\ scan.value = candidates[scan.idx] /\ scan.value # Error
                            /\ \A k \in 1..scan.idx - 1 : candidates[k] < scan.value

BenchInv == BenchTypeOK /\ ScanInv /\ SelectionIsBest

LEMMA BenchStart == BenchInit => BenchInv
<1> SUFFICES ASSUME BenchInit PROVE BenchInv
  OBVIOUS
<1> USE BestOfNAssumption
<1>1. scan \in [pass : {1, 2}, at : 1..N + 1, idx : 0..N, value : Scores]
  BY DEF BenchInit, ScanStart, Scores
<1>2. \A S : <<>> \in Seq(S)
  OBVIOUS
<1>3. BenchTypeOK
  BY <1>1, <1>2 DEF BenchInit, BenchTypeOK, Counts
<1>4. ScanInv
  BY DEF BenchInit, ScanInv, ScanStart
<1>5. Solved = {}
  BY DEF BenchInit, Solved
<1>6. SelectionIsBest
  BY <1>5, FS_EmptySet DEF BenchInit, SelectionIsBest
<1>7. QED  BY <1>3, <1>4, <1>6 DEF BenchInv

\* The problems solved are counted, whichever the pick.
LEMMA SolvedGrows ==
    ASSUME BenchTypeOK, NEW p, p.cs \in Seq(Scores), perProblem' = Append(perProblem, p)
    PROVE  Cardinality(Solved') = IF \E k \in DOMAIN p.cs : p.cs[k] = Full
                                  THEN Cardinality(Solved) + 1 ELSE Cardinality(Solved)
<1> DEFINE P == [cs : Seq(Scores), pick : [idx : 0..N, value : 0..Full]]
           n == Len(perProblem)
<1>1. perProblem \in Seq(P)
  BY DEF BenchTypeOK
<1> HIDE DEF P
<1>2. /\ DOMAIN perProblem = 1..n /\ n \in Nat /\ DOMAIN perProblem' = 1..n + 1
      /\ perProblem'[n + 1] = p /\ \A i \in 1..n : perProblem'[i] = perProblem[i]
  BY <1>1
<1>3. Solved' = IF \E k \in DOMAIN p.cs : p.cs[k] = Full THEN Solved \cup {n + 1} ELSE Solved
  <2> HIDE DEF n
  <2>1. \A i \in 1..n + 1 : i \in 1..n \/ i = n + 1
    BY <1>2
  <2>2. n + 1 \in 1..n + 1 /\ 1..n \subseteq 1..n + 1
    BY <1>2
  <2>3. QED  BY <1>2, <2>1, <2>2 DEF Solved
<1>4. IsFiniteSet(Solved) /\ n + 1 \notin Solved /\ Cardinality(Solved) \in Nat
  <2>1. Solved \in SUBSET (1..n) /\ n + 1 \notin Solved
    BY <1>2 DEF Solved
  <2>2. IsFiniteSet(1..n)
    BY <1>2, FS_Interval
  <2>3. QED  BY <2>1, <2>2, FS_Subset, FS_CardinalityType
<1>5. QED  BY <1>3, <1>4, FS_AddElement

\* A pick that is the first of the best keeps the seed's results right.
LEMMA PickIsRight ==
    ASSUME BenchInv, Len(candidates) = N, NEW reason, NEW idx \in 0..N, NEW value \in 0..Full,
           Pick(reason, idx, value), FirstOfTheBest(candidates, [idx |-> idx, value |-> value]),
           reason \in {"oracle_pass", "highest_score", "no_valid_candidate"},
           reason = "oracle_pass" <=> \E k \in 1..N : candidates[k] = Full
    PROVE  BenchInv'
<1> USE BestOfNAssumption
<1> DEFINE pick == [idx |-> idx, value |-> value]
           p == [cs |-> candidates, pick |-> pick]
           P == [cs : Seq(Scores), pick : [idx : 0..N, value : 0..Full]]
<1>1. /\ candidates \in Seq(Scores) /\ perProblem \in Seq(P) /\ once \in Nat
      /\ aggregate \in Counts
      /\ DOMAIN candidates = 1..N
  BY DEF BenchInv, BenchTypeOK
<1>a. aggregate' = [aggregate EXCEPT ![reason] = @ + 1, !.sum = @ + value]
  BY DEF Pick
<1>2. /\ perProblem' = Append(perProblem, p) /\ once' = once + Max({0, candidates[1]})
      /\ candidates' = <<>> /\ scan' = ScanStart
  BY DEF Pick
<1>3. p \in P /\ p.cs = candidates /\ p.pick = pick
  BY <1>1
<1>b. pick.idx = idx /\ pick.value = value
  OBVIOUS
<1> HIDE DEF p, P
<1>c. aggregate \in Counts /\ value \in Nat
  BY <1>1
<1>4. /\ aggregate' \in Counts
      /\ aggregate'.sum = aggregate.sum + value
      /\ aggregate'.oracle_pass = IF reason = "oracle_pass" THEN aggregate.oracle_pass + 1
                                                           ELSE aggregate.oracle_pass
  <2>1. CASE reason = "oracle_pass"
    <3>1. aggregate' = [aggregate EXCEPT !.oracle_pass = @ + 1, !.sum = @ + value]
      BY <1>a, <2>1
    <3>2. aggregate' \in Counts
      <4>1. aggregate' = [oracle_pass |-> aggregate.oracle_pass + 1,
                             highest_score |-> aggregate.highest_score,
                             no_valid_candidate |-> aggregate.no_valid_candidate,
                             sum |-> aggregate.sum + value]
        BY <1>c, <3>1 DEF Counts
      <4>2. QED  BY <1>c, <4>1 DEF Counts
    <3>3. aggregate'.sum = aggregate.sum + value
      BY <1>c, <3>1 DEF Counts
    <3>4. aggregate'.oracle_pass = aggregate.oracle_pass + 1
      BY <1>c, <3>1 DEF Counts
    <3>5. QED  BY <2>1, <3>2, <3>3, <3>4
  <2>2. CASE reason = "highest_score"
    <3>1. aggregate' = [aggregate EXCEPT !.highest_score = @ + 1, !.sum = @ + value]
      BY <1>a, <2>2
    <3>2. aggregate' \in Counts
      <4>1. aggregate' = [oracle_pass |-> aggregate.oracle_pass,
                             highest_score |-> aggregate.highest_score + 1,
                             no_valid_candidate |-> aggregate.no_valid_candidate,
                             sum |-> aggregate.sum + value]
        BY <1>c, <3>1 DEF Counts
      <4>2. QED  BY <1>c, <4>1 DEF Counts
    <3>3. aggregate'.sum = aggregate.sum + value
      BY <1>c, <3>1 DEF Counts
    <3>4. aggregate'.oracle_pass = aggregate.oracle_pass
      BY <1>c, <3>1 DEF Counts
    <3>5. QED  BY <2>2, <3>2, <3>3, <3>4
  <2>3. CASE reason = "no_valid_candidate"
    <3>1. aggregate' = [aggregate EXCEPT !.no_valid_candidate = @ + 1, !.sum = @ + value]
      BY <1>a, <2>3
    <3>2. aggregate' \in Counts
      <4>1. aggregate' = [oracle_pass |-> aggregate.oracle_pass,
                             highest_score |-> aggregate.highest_score,
                             no_valid_candidate |-> aggregate.no_valid_candidate + 1,
                             sum |-> aggregate.sum + value]
        BY <1>c, <3>1 DEF Counts
      <4>2. QED  BY <1>c, <4>1 DEF Counts
    <3>3. aggregate'.sum = aggregate.sum + value
      BY <1>c, <3>1 DEF Counts
    <3>4. aggregate'.oracle_pass = aggregate.oracle_pass
      BY <1>c, <3>1 DEF Counts
    <3>5. QED  BY <2>3, <3>2, <3>3, <3>4
  <2>4. QED  BY <2>1, <2>2, <2>3
<1>5. Max({0, candidates[1]}) \in Nat /\ Max({0, candidates[1]}) <= value
  <2>1. 1 \in 1..N /\ candidates[1] \in Scores
    BY <1>1
  <2>2. candidates[1] \in Int /\ candidates[1] <= value
    <3> HIDE DEF pick
    <3>1. pick.idx = idx /\ pick.value = value
      BY <1>b
    <3>2. candidates[1] \in Int /\ Error \in Int /\ Error < 0
      BY <2>1 DEF Scores, Error
    <3>3. CASE idx = 0
      <4>1. candidates[1] = Error
        BY <1>1, <2>1, <3>1, <3>3 DEF FirstOfTheBest
      <4>2. QED  BY <3>2, <4>1
    <3>4. CASE idx > 0
      BY <1>1, <2>1, <3>1, <3>2, <3>4 DEF FirstOfTheBest
    <3>5. QED  BY <3>3, <3>4
  <2>3. QED  BY <2>2, MaxOfTwo
<1>6. /\ perProblem' \in Seq(P) /\ once' \in Nat
      /\ DOMAIN perProblem' = DOMAIN perProblem \cup {Len(perProblem) + 1}
      /\ perProblem'[Len(perProblem) + 1] = p
      /\ \A i \in DOMAIN perProblem : perProblem'[i] = perProblem[i]
  <2>1. once' \in Nat
    BY <1>1, <1>2, <1>5
  <2>2. Len(perProblem) \in Nat /\ DOMAIN perProblem = 1..Len(perProblem)
    BY <1>1
  <2>3. /\ perProblem' \in Seq(P) /\ Len(perProblem') = Len(perProblem) + 1
        /\ perProblem'[Len(perProblem) + 1] = p
        /\ \A i \in DOMAIN perProblem : perProblem'[i] = perProblem[i]
    BY <1>1, <1>2, <1>3
  <2>4. DOMAIN perProblem' = DOMAIN perProblem \cup {Len(perProblem) + 1}
    BY <2>2, <2>3
  <2>5. QED  BY <2>1, <2>3, <2>4
<1>7. BenchTypeOK'
  <2>1. ScanStart \in [pass : {1, 2}, at : 1..N + 1, idx : 0..N, value : Scores]
    BY DEF ScanStart, Scores
  <2>2. \A S : <<>> \in Seq(S)
    OBVIOUS
  <2>3. candidates' \in Seq(Scores) /\ Len(candidates') <= N
    BY <1>2, <2>2
  <2>4. QED  BY <1>2, <1>4, <1>6, <2>1, <2>3 DEF BenchTypeOK, P
<1>8. ScanInv'
  <2>1. scan' = [pass |-> 1, at |-> 1, idx |-> 0, value |-> Error] /\ Len(candidates') < N
    BY <1>2 DEF ScanStart
  <2>2. scan'.pass = 1 /\ scan'.at = 1
    BY <2>1
  <2>3. scan' = ScanStart
    BY <1>2
  <2>4. QED  BY <2>2, <2>3 DEF ScanInv, ScanStart
<1>9. SelectionIsBest'
  <2>1. \A i \in DOMAIN perProblem' : FirstOfTheBest(perProblem'[i].cs, perProblem'[i].pick)
    BY <1>3, <1>6 DEF BenchInv, SelectionIsBest
  <2>2. aggregate'.sum >= once'
    BY <1>1, <1>2, <1>4, <1>5 DEF BenchInv, SelectionIsBest, Counts
  <2>3. aggregate'.oracle_pass = Cardinality(Solved')
    <3>1. Cardinality(Solved') = IF \E k \in 1..N : candidates[k] = Full
                                 THEN Cardinality(Solved) + 1 ELSE Cardinality(Solved)
      BY <1>1, <1>2, <1>3, SolvedGrows DEF BenchInv
    <3>2. QED  BY <1>4, <3>1 DEF BenchInv, SelectionIsBest
  <2>4. QED  BY <2>1, <2>2, <2>3 DEF SelectionIsBest, FirstOfTheBest
<1>10. QED  BY <1>7, <1>8, <1>9 DEF BenchInv

\* The results are kept while the selector looks.
LEMMA ResultsStay ==
    ASSUME BenchInv, UNCHANGED <<perProblem, aggregate, once>>
    PROVE  SelectionIsBest'
  BY DEF BenchInv, SelectionIsBest, FirstOfTheBest, Solved

LEMMA CandidatesAreScores ==
    ASSUME BenchTypeOK
    PROVE  /\ N \in Nat \ {0} /\ Full \in Nat \ {0} /\ Error = -1
           /\ Len(candidates) \in Nat /\ DOMAIN candidates = 1..Len(candidates)
           /\ \A k \in DOMAIN candidates :
                candidates[k] \in Int /\ candidates[k] >= -1 /\ candidates[k] <= Full
           /\ scan.pass \in {1, 2} /\ scan.at \in 1..N + 1 /\ scan.idx \in 0..N
           /\ scan.value \in Scores /\ scan.value \in Int /\ scan.value >= -1 /\ scan.value <= Full
           /\ scan = [pass |-> scan.pass, at |-> scan.at, idx |-> scan.idx, value |-> scan.value]
<1> USE BestOfNAssumption
<1>1. \A x \in Scores : x \in Int /\ x >= -1 /\ x <= Full
  BY DEF Scores, Error
<1>2. candidates \in Seq(Scores)
  BY DEF BenchTypeOK
<1>3. /\ Len(candidates) \in Nat /\ DOMAIN candidates = 1..Len(candidates)
      /\ \A k \in DOMAIN candidates : candidates[k] \in Scores
  BY <1>2
<1>4. /\ scan.pass \in {1, 2} /\ scan.at \in 1..N + 1 /\ scan.idx \in 0..N
      /\ scan.value \in Scores
      /\ scan = [pass |-> scan.pass, at |-> scan.at, idx |-> scan.idx, value |-> scan.value]
  BY DEF BenchTypeOK
<1>5. QED  BY <1>1, <1>3, <1>4 DEF Error

LEMMA BenchStep == BenchInv /\ [BenchNext]_benchVars => BenchInv'
<1> SUFFICES ASSUME BenchInv, [BenchNext]_benchVars PROVE BenchInv'
  OBVIOUS
<1>0. BenchTypeOK /\ ScanInv
  BY DEF BenchInv
<1>t. /\ N \in Nat \ {0} /\ Full \in Nat \ {0} /\ Error = -1
      /\ Len(candidates) \in Nat /\ DOMAIN candidates = 1..Len(candidates)
      /\ \A k \in DOMAIN candidates :
           candidates[k] \in Int /\ candidates[k] >= -1 /\ candidates[k] <= Full
      /\ scan.pass \in {1, 2} /\ scan.at \in 1..N + 1 /\ scan.idx \in 0..N
      /\ scan.value \in Scores /\ scan.value \in Int /\ scan.value >= -1 /\ scan.value <= Full
      /\ scan = [pass |-> scan.pass, at |-> scan.at, idx |-> scan.idx, value |-> scan.value]
  BY <1>0, CandidatesAreScores
<1>1. ASSUME NEW outcome \in Scores, Sample(outcome) PROVE BenchInv'
  <2>1. /\ Len(candidates) < N /\ candidates' = Append(candidates, outcome)
        /\ UNCHANGED <<scan, perProblem, aggregate, once>>
    BY <1>1 DEF Sample
  <2>2. candidates' \in Seq(Scores) /\ Len(candidates') <= N
    BY <1>0, <1>1, <1>t, <2>1 DEF BenchTypeOK
  <2>3. BenchTypeOK'
    BY <1>0, <2>1, <2>2 DEF BenchTypeOK
  <2>4. scan = [pass |-> 1, at |-> 1, idx |-> 0, value |-> Error]
    BY <1>0, <2>1 DEF ScanInv, ScanStart
  <2>5. scan'.pass = 1 /\ scan'.at = 1 /\ scan' = ScanStart
    BY <2>1, <2>4 DEF ScanStart
  <2>6. ScanInv'
    BY <2>5 DEF ScanInv, ScanStart
  <2>7. QED  BY <2>1, <2>3, <2>6, ResultsStay DEF BenchInv
<1>2. CASE FirstPass
  <2>1. Len(candidates) = N /\ scan.pass = 1 /\ scan.at \in 1..N
    BY <1>2, <1>t DEF FirstPass, Selecting
  <2>2. \A k \in 1..scan.at - 1 : candidates[k] < Full
    BY <1>0, <2>1 DEF ScanInv
  <2> DEFINE k == scan.at
  <2>3. CASE candidates[k] >= Full
    <3>1. candidates[k] = Full /\ k \in 0..N /\ candidates[k] \in 0..Full
      BY <1>t, <2>1, <2>3
    <3>2. Pick("oracle_pass", k, candidates[k])
      BY <1>2, <2>3 DEF FirstPass
    <3>3. FirstOfTheBest(candidates, [idx |-> k, value |-> candidates[k]])
      BY <1>t, <2>1, <2>2, <3>1 DEF FirstOfTheBest
    <3>4. QED  BY <2>1, <3>1, <3>2, <3>3, PickIsRight
  <2>4. CASE ~(candidates[k] >= Full)
    <3>1. /\ scan' = [scan EXCEPT !.at = @ + 1]
          /\ UNCHANGED <<candidates, perProblem, aggregate, once>>
      BY <1>2, <2>4 DEF FirstPass
    <3>2. /\ scan' = [pass |-> scan.pass, at |-> scan.at + 1, idx |-> scan.idx, value |-> scan.value]
          /\ scan.at + 1 \in 1..N + 1
      BY <1>t, <2>1, <3>1
    <3>3. BenchTypeOK'
      BY <1>0, <1>t, <3>1, <3>2 DEF BenchTypeOK
    <3>4. scan'.pass = 1 /\ scan'.at = scan.at + 1
      BY <2>1, <3>2
    <3>5. ScanInv'
      BY <1>t, <2>1, <2>2, <2>4, <3>1, <3>4 DEF ScanInv
    <3>6. QED  BY <3>1, <3>3, <3>5, ResultsStay DEF BenchInv
  <2>5. QED  BY <2>3, <2>4
<1>3. CASE SecondPassStarts
  <2>1. /\ Len(candidates) = N /\ scan.pass = 1 /\ scan.at = N + 1
        /\ scan' = [ScanStart EXCEPT !.pass = 2]
        /\ UNCHANGED <<candidates, perProblem, aggregate, once>>
    BY <1>3, <1>t DEF SecondPassStarts, Selecting
  <2>2. scan' = [pass |-> 2, at |-> 1, idx |-> 0, value |-> Error]
    BY <2>1 DEF ScanStart
  <2>3. BenchTypeOK'
    <3>1. Error \in Scores /\ 1 \in 1..N + 1 /\ 0 \in 0..N
      BY <1>t DEF Scores
    <3>2. scan' \in [pass : {1, 2}, at : 1..N + 1, idx : 0..N, value : Scores]
      BY <2>2, <3>1
    <3>3. QED  BY <1>0, <2>1, <3>2 DEF BenchTypeOK
  <2>4. \A k \in 1..N : candidates[k] < Full
    BY <1>0, <1>t, <2>1 DEF ScanInv
  <2>5. scan'.pass = 2 /\ scan'.at = 1 /\ scan'.idx = 0 /\ scan'.value = Error
    BY <2>2
  <2>6. ScanInv'
    BY <1>t, <2>1, <2>4, <2>5 DEF ScanInv
  <2>7. QED  BY <2>1, <2>3, <2>6, ResultsStay DEF BenchInv
<1>4. CASE SecondPass
  <2>1. /\ Len(candidates) = N /\ scan.pass = 2 /\ scan.at \in 1..N
        /\ UNCHANGED <<candidates, perProblem, aggregate, once>>
    BY <1>4, <1>t DEF SecondPass, Selecting
  <2> DEFINE k == scan.at
  <2>2. /\ \A j \in 1..N : candidates[j] < Full
        /\ \A j \in 1..k - 1 : candidates[j] <= scan.value
        /\ scan.idx = 0 => scan.value = Error
        /\ scan.idx > 0 => /\ scan.idx < k
                           /\ scan.value = candidates[scan.idx] /\ scan.value # Error
                           /\ \A j \in 1..scan.idx - 1 : candidates[j] < scan.value
    BY <1>0, <2>1 DEF ScanInv
  <2>3. CASE Better(k)
    <3>1. /\ scan' = [pass |-> 2, at |-> k + 1, idx |-> k, value |-> candidates[k]]
          /\ candidates[k] # Error /\ candidates[k] > scan.value
      BY <1>4, <1>t, <2>1, <2>3 DEF SecondPass, Better
    <3>2. candidates[k] \in Scores /\ k + 1 \in 1..N + 1 /\ k \in 0..N
      BY <1>t, <2>1 DEF Scores
    <3>3. BenchTypeOK'
      BY <1>0, <2>1, <3>1, <3>2 DEF BenchTypeOK
    <3>4. scan'.pass = 2 /\ scan'.at = k + 1 /\ scan'.idx = k /\ scan'.value = candidates[k]
      BY <3>1
    <3>5. \A j \in 1..k - 1 : candidates[j] < candidates[k]
      BY <1>t, <2>1, <2>2, <3>1
    <3>6. ScanInv'
      <4>1. \A j \in 1..k : candidates[j] <= candidates[k]
        BY <1>t, <2>1, <3>5
      <4>2. k > 0 /\ k < k + 1 /\ k + 1 - 1 = k
        BY <2>1
      <4>3. Len(candidates') = N /\ UNCHANGED candidates
        BY <2>1
      <4>4. QED  BY <2>2, <3>1, <3>4, <3>5, <4>1, <4>2, <4>3, <1>t DEF ScanInv
    <3>7. QED  BY <2>1, <3>3, <3>6, ResultsStay DEF BenchInv
  <2>4. CASE ~Better(k)
    <3>1. /\ scan' = [pass |-> 2, at |-> k + 1, idx |-> scan.idx, value |-> scan.value]
          /\ candidates[k] = Error \/ ~(candidates[k] > scan.value)
      BY <1>4, <1>t, <2>1, <2>4 DEF SecondPass, Better
    <3>2. k + 1 \in 1..N + 1
      BY <1>t, <2>1
    <3>3. BenchTypeOK'
      BY <1>0, <1>t, <2>1, <3>1, <3>2 DEF BenchTypeOK
    <3>4. /\ scan'.pass = 2 /\ scan'.at = k + 1 /\ scan'.idx = scan.idx /\ scan'.value = scan.value
      BY <3>1
    <3>5. \A j \in 1..k : candidates[j] <= scan.value
      BY <1>t, <2>1, <2>2, <3>1
    <3>6. ScanInv'
      BY <1>t, <2>1, <2>2, <3>4, <3>5 DEF ScanInv
    <3>7. QED  BY <2>1, <3>3, <3>6, ResultsStay DEF BenchInv
  <2>5. QED  BY <2>3, <2>4
<1>5. CASE SecondPassEnds
  <2>1. Len(candidates) = N /\ scan.pass = 2 /\ scan.at = N + 1
    BY <1>5, <1>t DEF SecondPassEnds, Selecting
  <2>2. /\ \A j \in 1..N : candidates[j] < Full /\ candidates[j] <= scan.value
        /\ scan.idx = 0 => scan.value = Error
        /\ scan.idx > 0 => /\ scan.value = candidates[scan.idx] /\ scan.value # Error
                           /\ \A j \in 1..scan.idx - 1 : candidates[j] < scan.value
    BY <1>0, <1>t, <2>1 DEF ScanInv
  <2>3. ~ \E j \in 1..N : candidates[j] = Full
    BY <1>t, <2>1, <2>2
  <2>4. CASE scan.idx > 0
    <3>1. scan.value \in 0..Full /\ Max({0, scan.value}) = scan.value
      BY <1>t, <2>2, <2>4, MaxOfTwo
    <3>2. Pick("highest_score", scan.idx, scan.value)
      BY <1>5, <2>4, <3>1 DEF SecondPassEnds
    <3>3. FirstOfTheBest(candidates, [idx |-> scan.idx, value |-> scan.value])
      BY <1>t, <2>1, <2>2, <2>4 DEF FirstOfTheBest
    <3>4. QED  BY <1>t, <2>1, <2>3, <3>1, <3>2, <3>3, PickIsRight
  <2>5. CASE scan.idx = 0
    <3>1. Pick("no_valid_candidate", 0, 0) /\ 0 \in 0..N /\ 0 \in 0..Full
      BY <1>5, <1>t, <2>5 DEF SecondPassEnds
    <3>2. \A j \in 1..N : candidates[j] = Error
      BY <1>t, <2>1, <2>2, <2>5
    <3>3. FirstOfTheBest(candidates, [idx |-> 0, value |-> 0])
      BY <1>t, <2>1, <3>2 DEF FirstOfTheBest
    <3>4. QED  BY <2>1, <2>3, <3>1, <3>3, PickIsRight
  <2>6. QED  BY <1>t, <2>4, <2>5
<1>6. CASE UNCHANGED benchVars
  <2>1. BenchTypeOK' /\ ScanInv'
    BY <1>0, <1>6 DEF benchVars, BenchTypeOK, ScanInv, ScanStart
  <2>2. QED  BY <1>6, <2>1, ResultsStay DEF benchVars, BenchInv
<1>7. QED
  BY <1>1, <1>2, <1>3, <1>4, <1>5, <1>6 DEF BenchNext, Scores

\* For any number of candidates and any scores: the two passes of the selector
\* pick the first of the best, and what they count is what they picked.
THEOREM FirstOfTheBestCounts == BenchSpec => []SelectionIsBest
<1>1. BenchInv => SelectionIsBest
  BY DEF BenchInv
<1>2. QED  BY <1>1, BenchStart, BenchStep, PTL DEF BenchSpec
=============================================================================
