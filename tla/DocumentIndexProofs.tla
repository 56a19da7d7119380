------------------------- MODULE DocumentIndexProofs -------------------------
(***************************************************************************)
(* Proofs about Chunking and DocumentIndex: what split_text cuts from a    *)
(* document of any length, for any chunk size and overlap, and what any    *)
(* number of overlapping ingests leave in the index.                       *)
(***************************************************************************)
EXTENDS DocumentIndex, FiniteSetTheorems, SequenceTheorems, TLAPS

\* The larger of two numbers, and of a set whose largest is known.
LEMMA MaxOf ==
    ASSUME NEW S \in SUBSET Int, NEW m \in S, \A x \in S : x <= m
    PROVE  Max(S) = m
<1>1. m \in S /\ \A y \in S : m >= y
  OBVIOUS
<1>2. Max(S) \in S /\ \A y \in S : Max(S) >= y
  BY <1>1, Zenon DEF Max
<1>3. m \in Int /\ Max(S) \in Int /\ m >= Max(S) /\ Max(S) >= m
  BY <1>1, <1>2
<1> QED
  BY <1>3

LEMMA MaxOfTwo ==
    ASSUME NEW a \in Int, NEW b \in Int
    PROVE  Max({a, b}) = IF a < b THEN b ELSE a
<1>1. CASE a < b
  BY <1>1, MaxOf
<1>2. CASE ~(a < b)
  BY <1>2, MaxOf
<1> QED
  BY <1>1, <1>2

\* A set of positions that holds whatever comes after one of its members is
\* the last ones of all positions.
LEMMA TailOfPositions ==
    ASSUME NEW L \in Nat, NEW K \in SUBSET (1..L),
           \A i \in K, j \in 1..L : i < j => j \in K
    PROVE  /\ Cardinality(K) \in 0..L
           /\ \A k \in 1..L : k \in K <=> k > L - Cardinality(K)
<1>1. IsFiniteSet(1..L) /\ Cardinality(1..L) = L
  BY FS_Interval
<1>2. IsFiniteSet(K) /\ Cardinality(K) <= L /\ Cardinality(K) \in Nat
  BY <1>1, FS_Subset, FS_CardinalityType
<1>3. ASSUME NEW k \in K PROVE k > L - Cardinality(K)
  <2>1. k..L \in SUBSET K
    BY <1>3
  <2>2. Cardinality(k..L) = L - k + 1
    BY FS_Interval
  <2>3. Cardinality(k..L) <= Cardinality(K)
    BY <1>2, <2>1, FS_Subset
  <2> QED
    BY <1>2, <2>2, <2>3
<1>4. ASSUME NEW k \in 1..L, k \notin K PROVE k <= L - Cardinality(K)
  <2>1. K \in SUBSET ((k + 1)..L)
    BY <1>4
  <2>2. IsFiniteSet((k + 1)..L) /\ Cardinality((k + 1)..L) = L - k
    <3>1. k + 1 \in Int /\ L \in Int /\ (k + 1 > L => L - k = 0) /\ L - (k + 1) + 1 = L - k
      OBVIOUS
    <3> QED
      BY <3>1, FS_Interval
  <2>3. Cardinality(K) <= Cardinality((k + 1)..L)
    BY <2>1, <2>2, FS_Subset
  <2> QED
    BY <1>2, <2>2, <2>3
<1> QED
  BY <1>2, <1>3, <1>4

-----------------------------------------------------------------------------
(* The pieces of a chunk.                                                  *)

Nonempty(piece) == piece.from < piece.to

\* Every piece ends before the next begins.
Ordered(pieces) ==
    \A i, j \in 1..Len(pieces) : i < j => End(pieces[i]) < pieces[j].at

Solid(pieces) == \A i \in 1..Len(pieces) : Nonempty(pieces[i])

LEMMA PieceFacts ==
    ASSUME NEW piece \in Piece
    PROVE  /\ piece.from \in Nat /\ piece.to \in Nat /\ piece.at \in Nat
           /\ End(piece) \in Int
           /\ Nonempty(piece) => piece.at < End(piece)
  BY BoundAssumption DEF Piece, End, Nonempty

\* A piece cut inside, or moved, keeps its paragraph and its end there, and
\* ends start characters earlier in the chunk.
LEMMA CutFacts ==
    ASSUME NEW piece \in Piece, NEW start \in Nat, Nonempty(piece), start < End(piece)
    PROVE  /\ CutAt(piece, start) \in Piece
           /\ Nonempty(CutAt(piece, start))
           /\ CutAt(piece, start).par = piece.par
           /\ CutAt(piece, start).to = piece.to
           /\ End(CutAt(piece, start)) = End(piece) - start
           /\ piece.at >= start => CutAt(piece, start).at = piece.at - start
<1> USE BoundAssumption DEF Piece, End, Nonempty
<1>1. CASE piece.at < start
  <2>1. piece.from + (start - piece.at) \in 0..MaxParagraph
        /\ piece.from + (start - piece.at) < piece.to
    BY <1>1
  <2>2. CutAt(piece, start)
          = [par |-> piece.par, from |-> piece.from + (start - piece.at),
             to |-> piece.to, at |-> 0]
    BY <1>1 DEF CutAt
  <2>3. CutAt(piece, start) \in Piece
    BY <2>1, <2>2
  <2>4. /\ CutAt(piece, start).par = piece.par
        /\ CutAt(piece, start).to = piece.to
        /\ CutAt(piece, start).from = piece.from + (start - piece.at)
        /\ CutAt(piece, start).at = 0
    BY <2>2
  <2> QED
    BY <1>1, <2>1, <2>3, <2>4
<1>2. CASE ~(piece.at < start)
  <2>1. piece.at - start \in Nat
    BY <1>2
  <2>2. CutAt(piece, start) = [piece EXCEPT !.at = piece.at - start]
    BY <1>2 DEF CutAt
  <2> QED
    BY <1>2, <2>1, <2>2
<1> QED
  BY <1>1, <1>2

\* Of two pieces the later one ends later.
LEMMA EndsGrow ==
    ASSUME NEW pieces \in Seq(Piece), Ordered(pieces), Solid(pieces),
           NEW i \in 1..Len(pieces), NEW j \in 1..Len(pieces), i < j
    PROVE  End(pieces[i]) < End(pieces[j]) /\ End(pieces[i]) < pieces[j].at
<1>1. pieces[i] \in Piece /\ pieces[j] \in Piece
  BY ElementOfSeq
<1>2. /\ End(pieces[i]) \in Int /\ End(pieces[j]) \in Int /\ pieces[j].at \in Nat
      /\ pieces[j].at < End(pieces[j])
  BY <1>1, PieceFacts DEF Solid
<1>3. End(pieces[i]) < pieces[j].at
  BY DEF Ordered
<1> QED
  BY <1>2, <1>3

LEMMA LengthFacts ==
    ASSUME NEW pieces \in Seq(Piece), Solid(pieces)
    PROVE  /\ Length(pieces) \in Nat
           /\ pieces # <<>> => /\ Len(pieces) \in Nat \ {0}
                               /\ Length(pieces) = End(pieces[Len(pieces)])
<1>1. CASE pieces = <<>>
  BY <1>1 DEF Length
<1>2. CASE pieces # <<>>
  <2>1. Len(pieces) \in Nat \ {0}
    BY <1>2, EmptySeq
  <2>2. Length(pieces) = End(pieces[Len(pieces)])
    BY <1>2 DEF Length, Last
  <2>3. pieces[Len(pieces)] \in Piece /\ Nonempty(pieces[Len(pieces)])
    BY <2>1, ElementOfSeq DEF Solid
  <2>4. End(pieces[Len(pieces)]) \in Nat
    BY <2>3, PieceFacts
  <2> QED
    BY <1>2, <2>1, <2>2, <2>4
<1> QED
  BY <1>1, <1>2

\* The tail that is carried over is a chunk of at most n characters, each of
\* them from a piece of the chunk before.
LEMMA CarriedFacts ==
    ASSUME NEW pieces \in Seq(Piece), Ordered(pieces), Solid(pieces), NEW n \in Nat
    PROVE  /\ Carried(pieces, n) \in Seq(Piece)
           /\ Ordered(Carried(pieces, n))
           /\ Solid(Carried(pieces, n))
           /\ Length(Carried(pieces, n)) <= n
           /\ \A k \in 1..Len(Carried(pieces, n)) : \E i \in 1..Len(pieces) :
                 /\ Carried(pieces, n)[k].par = pieces[i].par
                 /\ Carried(pieces, n)[k].to = pieces[i].to
           /\ n = 0 => Carried(pieces, n) = <<>>
<1> DEFINE L == Len(pieces)
           cut == Length(pieces) - n
           K == {k \in DOMAIN pieces : End(pieces[k]) > cut}
           kept == Cardinality(K)
           dropped == L - kept
           start == Max({cut, pieces[dropped + 1].at})
           tail == Carried(pieces, n)
<1>1. L \in Nat /\ DOMAIN pieces = 1..L /\ Length(pieces) \in Nat /\ cut \in Int
  BY LengthFacts, LenProperties
<1>2. tail = [k \in 1..kept |-> CutAt(pieces[dropped + k], start)]
  BY DEF Carried
<1>3. \A i \in 1..L : pieces[i] \in Piece /\ Nonempty(pieces[i])
  BY ElementOfSeq DEF Solid
<1>4. /\ kept \in 0..L
      /\ \A k \in 1..L : k \in K <=> k > L - kept
  <2>1. K \in SUBSET (1..L)
    BY <1>1
  <2>2. ASSUME NEW i \in K, NEW j \in 1..L, i < j PROVE j \in K
    <3>1. i \in 1..L /\ End(pieces[i]) > cut
      BY <1>1
    <3>2. End(pieces[i]) < End(pieces[j])
      BY <2>2, <3>1, EndsGrow
    <3>3. End(pieces[i]) \in Int /\ End(pieces[j]) \in Int
      BY <1>3, <3>1, PieceFacts
    <3> QED
      BY <1>1, <3>1, <3>2, <3>3
  <2> HIDE DEF K, L
  <2> QED
    BY <1>1, <2>1, <2>2, TailOfPositions
<1>5. /\ dropped \in 0..L /\ dropped + kept = L
      /\ \A k \in 1..L : k > dropped => End(pieces[k]) > cut
      /\ \A k \in 1..L : ~(k > dropped) => ~(End(pieces[k]) > cut)
  BY <1>1, <1>4
<1> HIDE DEF kept, dropped, K, tail
<1>6. CASE kept = 0
  <2>1. tail = [k \in 1..0 |-> CutAt(pieces[dropped + k], start)]
    BY <1>2, <1>6
  <2>2. tail = <<>>
    BY <2>1
  <2> QED
    BY <2>2 DEF tail, Ordered, Solid, Length
<1>7. CASE kept # 0
  <2>1. kept \in 1..L /\ dropped + 1 \in 1..L /\ n # 0
    <3>1. kept \in 1..L /\ dropped + 1 \in 1..L
      BY <1>1, <1>4, <1>5, <1>7
    <3>2. pieces # <<>>
      BY <1>1, <3>1, EmptySeq
    <3>3. Length(pieces) = End(pieces[L])
      BY <3>2, LengthFacts
    <3>4. End(pieces[L]) > cut /\ End(pieces[L]) \in Int
      BY <1>1, <1>3, <1>4, <1>5, <3>1, PieceFacts
    <3> QED
      BY <1>1, <3>1, <3>3, <3>4
  <2>2. /\ start \in Nat /\ start >= cut
        /\ pieces[dropped + 1].at <= start
        /\ start < End(pieces[dropped + 1])
    <3>1. pieces[dropped + 1].at \in Nat
          /\ pieces[dropped + 1].at < End(pieces[dropped + 1])
          /\ End(pieces[dropped + 1]) \in Int
      BY <1>3, <2>1, PieceFacts
    <3>2. End(pieces[dropped + 1]) > cut
      BY <1>5, <2>1
    <3>3. start = IF cut < pieces[dropped + 1].at THEN pieces[dropped + 1].at ELSE cut
      BY <1>1, <3>1, MaxOfTwo
    <3> QED
      BY <1>1, <3>1, <3>2, <3>3
  <2> HIDE DEF start
  <2>3. ASSUME NEW k \in 1..kept
        PROVE  /\ dropped + k \in 1..L
               /\ pieces[dropped + k] \in Piece
               /\ Nonempty(pieces[dropped + k])
               /\ start < End(pieces[dropped + k])
               /\ k > 1 => pieces[dropped + k].at >= start
    <3>1. dropped + k \in 1..L
      BY <1>1, <1>4, <1>5
    <3>2. /\ pieces[dropped + k] \in Piece
          /\ Nonempty(pieces[dropped + k])
      BY <1>3, <3>1
    <3>3. CASE k = 1
      BY <3>1, <3>2, <3>3, <2>2
    <3>4. CASE k > 1
      <4>1. /\ End(pieces[dropped + 1]) < End(pieces[dropped + k])
            /\ End(pieces[dropped + 1]) < pieces[dropped + k].at
        BY <1>1, <1>5, <2>1, <3>1, <3>4, EndsGrow
      <4>2. /\ End(pieces[dropped + 1]) \in Int /\ End(pieces[dropped + k]) \in Int
            /\ pieces[dropped + k].at \in Nat
        BY <1>3, <2>1, <3>2, PieceFacts
      <4> QED
        BY <2>2, <3>1, <3>2, <4>1, <4>2
    <3> QED
      BY <1>4, <3>3, <3>4
  <2>4. ASSUME NEW k \in 1..kept
        PROVE  /\ tail[k] \in Piece /\ Nonempty(tail[k])
               /\ tail[k].par = pieces[dropped + k].par
               /\ tail[k].to = pieces[dropped + k].to
               /\ End(tail[k]) = End(pieces[dropped + k]) - start
               /\ k > 1 => tail[k].at = pieces[dropped + k].at - start
    <3>1. tail[k] = CutAt(pieces[dropped + k], start)
      BY <1>2, <2>3
    <3> QED
      BY <2>2, <2>3, <3>1, CutFacts
  <2>5. tail \in Seq(Piece) /\ Len(tail) = kept /\ tail # <<>>
    <3>1. kept \in Nat \ {0}
      BY <1>1, <2>1
    <3>2. tail \in [1..kept -> Piece]
      BY <1>2, <2>4
    <3>3. tail \in Seq(Piece) /\ Len(tail) = kept
      BY <3>1, <3>2
    <3> QED
      BY <3>1, <3>3
  <2>6. Solid(tail)
    BY <2>4, <2>5 DEF Solid
  <2>7. Ordered(tail)
    <3> SUFFICES ASSUME NEW i \in 1..kept, NEW j \in 1..kept, i < j
                 PROVE  End(tail[i]) < tail[j].at
      BY <2>5 DEF Ordered
    <3>1. /\ End(tail[i]) = End(pieces[dropped + i]) - start
          /\ tail[j].at = pieces[dropped + j].at - start
      BY <2>1, <2>4
    <3>2. dropped + i \in 1..L /\ dropped + j \in 1..L /\ dropped + i < dropped + j
      BY <1>1, <1>5, <2>3
    <3>3. End(pieces[dropped + i]) < pieces[dropped + j].at
      BY <3>2, EndsGrow
    <3>4. End(pieces[dropped + i]) \in Int /\ pieces[dropped + j].at \in Nat
      BY <1>3, <3>2, PieceFacts
    <3> QED
      BY <2>2, <3>1, <3>3, <3>4
  <2>8. Length(tail) <= n
    <3>1. Length(tail) = End(tail[kept])
      BY <2>5, <2>6, LengthFacts
    <3>2. kept \in 1..kept
      BY <2>1
    <3>3. End(tail[kept]) = End(pieces[dropped + kept]) - start
      BY <2>4, <3>2
    <3>4. pieces # <<>>
      BY <1>1, <2>1, EmptySeq
    <3>5. End(pieces[dropped + kept]) = Length(pieces)
      BY <1>5, <3>4, LengthFacts
    <3> QED
      BY <1>1, <2>2, <3>1, <3>3, <3>5
  <2> QED
    BY <2>1, <2>3, <2>4, <2>5, <2>6, <2>7, <2>8 DEF tail
<1> QED
  BY <1>6, <1>7

\* A paragraph joined to a chunk comes after a blank line, whole.
LEMMA JoinedFacts ==
    ASSUME NEW pieces \in Seq(Piece), Ordered(pieces), Solid(pieces),
           NEW par \in 1..MaxParagraphs, NEW length \in 1..MaxParagraph
    PROVE  /\ Joined(pieces, par, length) \in Seq(Piece)
           /\ Joined(pieces, par, length) # <<>>
           /\ Ordered(Joined(pieces, par, length))
           /\ Solid(Joined(pieces, par, length))
           /\ Length(Joined(pieces, par, length))
                = IF pieces = <<>> THEN length ELSE Length(pieces) + 2 + length
           /\ Len(Joined(pieces, par, length)) = Len(pieces) + 1
           /\ \A i \in 1..Len(pieces) : Joined(pieces, par, length)[i] = pieces[i]
           /\ LET last == Joined(pieces, par, length)[Len(pieces) + 1]
              IN  last.par = par /\ last.from = 0 /\ last.to = length
<1> DEFINE at == IF pieces = <<>> THEN 0 ELSE Length(pieces) + 2
           piece == [par |-> par, from |-> 0, to |-> length, at |-> at]
           joined == Joined(pieces, par, length)
<1> USE BoundAssumption
<1>1. /\ Len(pieces) \in Nat
      /\ at \in Nat
      /\ \A i \in 1..Len(pieces) : End(pieces[i]) < at /\ pieces[i] \in Piece
  <2>1. Len(pieces) \in Nat /\ Length(pieces) \in Nat
    BY LengthFacts, LenProperties
  <2>2. ASSUME NEW i \in 1..Len(pieces) PROVE End(pieces[i]) < at /\ pieces[i] \in Piece
    <3>1. pieces[i] \in Piece /\ pieces[Len(pieces)] \in Piece
      BY <2>1, ElementOfSeq
    <3>2. End(pieces[i]) \in Int /\ End(pieces[Len(pieces)]) \in Int
      BY <3>1, PieceFacts
    <3>3. pieces # <<>>
      BY <2>1, EmptySeq
    <3>4. Length(pieces) = End(pieces[Len(pieces)])
      BY <3>3, LengthFacts
    <3>5. i = Len(pieces) \/ End(pieces[i]) < End(pieces[Len(pieces)])
      BY <2>1, EndsGrow
    <3> QED
      BY <3>1, <3>2, <3>3, <3>4, <3>5
  <2> QED
    BY <2>1, <2>2
<1> HIDE DEF at
<1>2. /\ piece \in Piece /\ Nonempty(piece) /\ End(piece) = at + length
      /\ piece.par = par /\ piece.from = 0 /\ piece.to = length /\ piece.at = at
  BY <1>1 DEF Piece, Nonempty, End
<1>3. joined = Append(pieces, piece)
  BY DEF Joined, at
<1> HIDE DEF piece, joined
<1>4. /\ joined \in Seq(Piece) /\ joined # <<>> /\ Len(joined) = Len(pieces) + 1
      /\ \A i \in 1..Len(pieces) : joined[i] = pieces[i]
      /\ joined[Len(pieces) + 1] = piece
  BY <1>2, <1>3, AppendProperties
<1>5. ASSUME NEW i \in 1..Len(joined)
      PROVE  i \in 1..Len(pieces) \/ i = Len(pieces) + 1
  BY <1>1, <1>4
<1>6. Solid(joined)
  BY <1>2, <1>4, <1>5 DEF Solid
<1>7. Ordered(joined)
  <2> SUFFICES ASSUME NEW i \in 1..Len(joined), NEW j \in 1..Len(joined), i < j
               PROVE  End(joined[i]) < joined[j].at
    BY DEF Ordered
  <2>1. i \in 1..Len(pieces)
    BY <1>1, <1>4
  <2>2. CASE j \in 1..Len(pieces)
    BY <1>4, <2>1, <2>2 DEF Ordered
  <2>3. CASE j = Len(pieces) + 1
    BY <1>1, <1>2, <1>4, <2>1, <2>3
  <2> QED
    BY <1>5, <2>2, <2>3
<1>8. Length(joined) = IF pieces = <<>> THEN length ELSE Length(pieces) + 2 + length
  <2>1. Length(joined) = at + length
    BY <1>2, <1>4, <1>6, LengthFacts
  <2>2. Length(pieces) \in Nat
    BY LengthFacts
  <2> QED
    BY <2>1, <2>2 DEF at
<1> QED
  BY <1>2, <1>4, <1>6, <1>7, <1>8 DEF joined

\* Division finds the multiple of d at or before n.
LEMMA Quotient ==
    ASSUME NEW n \in Nat, NEW d \in Nat \ {0}
    PROVE  /\ n \div d \in Nat
           /\ (n \div d) * d <= n
           /\ n < (n \div d) * d + d
<1>1. n \div d \in Int /\ n % d \in 0..(d - 1) /\ n = d * (n \div d) + (n % d)
  OBVIOUS
<1>2. d * (n \div d) = (n \div d) * d
  BY <1>1
<1>3. n \div d \in Nat
  OBVIOUS
<1> QED
  BY <1>1, <1>2, <1>3

LEMMA MultiplesGrow ==
    ASSUME NEW m \in Nat, NEW n \in Nat, NEW d \in Nat \ {0}, m * d < n * d
    PROVE  m < n
<1> SUFFICES ASSUME n <= m PROVE FALSE
  OBVIOUS
<1>1. PICK k \in Nat : m = n + k
  <2>1. m - n \in Nat /\ m = n + (m - n)
    OBVIOUS
  <2> QED
    BY <2>1
<1>2. m * d = n * d + k * d /\ k * d \in Nat /\ n * d \in Nat
  BY <1>1
<1> QED
  BY <1>2

LEMMA MultiplesMonotone ==
    ASSUME NEW m \in Nat, NEW n \in Nat, NEW d \in Nat \ {0}, m <= n
    PROVE  m * d <= n * d /\ m * d \in Nat /\ n * d \in Nat
<1>1. m * d \in Nat /\ n * d \in Nat
  OBVIOUS
<1>2. ~(n * d < m * d)
  BY MultiplesGrow
<1> QED
  BY <1>1, <1>2

Slice(par, length, k) == HardSplit(par, length)[k][1]

\* Hard slicing cuts a long paragraph into chunks of one slice each, none
\* longer than a chunk may be.
LEMMA HardSplitFacts ==
    ASSUME NEW par \in 1..MaxParagraphs, NEW length \in 1..MaxParagraph
    PROVE  /\ HardSplit(par, length) \in Seq(Seq(Piece) \ {<<>>})
           /\ Len(HardSplit(par, length)) = (length - 1) \div (Size - Overlap) + 1
           /\ \A k \in 1..Len(HardSplit(par, length)) :
                 /\ HardSplit(par, length)[k] = <<Slice(par, length, k)>>
                 /\ Slice(par, length, k) \in Piece
                 /\ Nonempty(Slice(par, length, k))
                 /\ Slice(par, length, k).par = par
                 /\ Slice(par, length, k).from = (k - 1) * (Size - Overlap)
                 /\ Slice(par, length, k).to
                      = IF (k - 1) * (Size - Overlap) + Size < length
                          THEN (k - 1) * (Size - Overlap) + Size
                          ELSE length
                 /\ End(Slice(par, length, k)) <= Size
<1> DEFINE step == Size - Overlap
           n == (length - 1) \div step + 1
           split == HardSplit(par, length)
           piece(k) == [par  |-> par,
                        from |-> (k - 1) * step,
                        to   |-> IF (k - 1) * step + Size < length
                                   THEN (k - 1) * step + Size
                                   ELSE length,
                        at   |-> 0]
<1> USE BoundAssumption
<1>1. step \in Nat \ {0} /\ length - 1 \in Nat /\ Size \in Nat \ {0} /\ length \in Nat
  BY SizeAssumption
<1>2. split = [k \in 1..n |-> <<piece(k)>>]
  BY DEF HardSplit
<1>3. n \in Nat \ {0} /\ (n - 1) * step <= length - 1 /\ n - 1 = (length - 1) \div step
  <2> HIDE DEF step
  <2>1. /\ (length - 1) \div step \in Nat
        /\ ((length - 1) \div step) * step <= length - 1
    BY <1>1, Quotient
  <2> QED
    BY <2>1
<1> HIDE DEF step, n, split
<1>4. ASSUME NEW k \in 1..n
      PROVE  (k - 1) * step \in Nat /\ (k - 1) * step < length
  <2>1. k - 1 \in Nat /\ n - 1 \in Nat /\ k - 1 <= n - 1
    BY <1>3
  <2>2. (k - 1) * step <= (n - 1) * step /\ (k - 1) * step \in Nat
        /\ (n - 1) * step \in Nat
    BY <1>1, <2>1, MultiplesMonotone
  <2> QED
    BY <1>1, <1>3, <2>2
<1>5. ASSUME NEW k \in 1..n
      PROVE  /\ piece(k) \in Piece
             /\ Nonempty(piece(k))
             /\ End(piece(k)) <= Size
             /\ split[k] = <<piece(k)>>
             /\ Slice(par, length, k) = piece(k)
  <2> DEFINE from == (k - 1) * step
             to == IF from + Size < length THEN from + Size ELSE length
  <2>1. from \in Nat /\ from < length
    BY <1>4
  <2> HIDE DEF from
  <2>2. to \in 1..MaxParagraph /\ from < to /\ to - from <= Size /\ from \in 0..MaxParagraph
    BY <1>1, <2>1
  <2> HIDE DEF to
  <2>3. piece(k) = [par |-> par, from |-> from, to |-> to, at |-> 0]
    BY DEF from, to
  <2> HIDE DEF piece
  <2>4. piece(k) \in Piece /\ Nonempty(piece(k)) /\ End(piece(k)) <= Size
    BY <2>2, <2>3 DEF Piece, Nonempty, End
  <2>5. split[k] = <<piece(k)>>
    BY <1>2
  <2>6. Slice(par, length, k) = piece(k)
    BY <2>5 DEF Slice, split
  <2> QED
    BY <2>4, <2>5, <2>6
<1>6. split \in Seq(Seq(Piece) \ {<<>>}) /\ Len(split) = n
  <2>1. ASSUME NEW k \in 1..n PROVE <<piece(k)>> \in Seq(Piece) \ {<<>>}
    <3> HIDE DEF piece
    <3>1. piece(k) \in Piece
      BY <1>5
    <3> QED
      BY <3>1
  <2>2. split \in [1..n -> Seq(Piece) \ {<<>>}]
    BY <1>2, <2>1
  <2> QED
    BY <1>3, <2>2
<1>7. ASSUME NEW k \in 1..n
      PROVE  /\ split[k] = <<Slice(par, length, k)>>
             /\ Slice(par, length, k) \in Piece
             /\ Nonempty(Slice(par, length, k))
             /\ Slice(par, length, k).par = par
             /\ Slice(par, length, k).from = (k - 1) * step
             /\ Slice(par, length, k).to
                  = IF (k - 1) * step + Size < length
                      THEN (k - 1) * step + Size
                      ELSE length
             /\ End(Slice(par, length, k)) <= Size
  <2>1. piece(k).par = par /\ piece(k).from = (k - 1) * step
        /\ piece(k).to = IF (k - 1) * step + Size < length
                           THEN (k - 1) * step + Size
                           ELSE length
    OBVIOUS
  <2> HIDE DEF piece
  <2> QED
    BY <1>5, <2>1
<1> QED
  BY <1>6, <1>7 DEF split, n, step

\* Slices overlap so far that a passage of one character more than the overlap
\* is whole in one of them.
LEMMA HardSplitCovers ==
    ASSUME NEW par \in 1..MaxParagraphs, NEW length \in 1..MaxParagraph,
           NEW from \in 0..(length - (Overlap + 1))
    PROVE  \E k \in 1..Len(HardSplit(par, length)) :
               /\ Slice(par, length, k).from <= from
               /\ from + (Overlap + 1) <= Slice(par, length, k).to
<1> DEFINE step == Size - Overlap
           q == from \div step
<1> USE BoundAssumption, SizeAssumption
<1>1. /\ step \in Nat \ {0} /\ Size = step + Overlap /\ Overlap \in Nat
      /\ from \in Nat /\ length \in Nat /\ from <= length - 1 /\ length - 1 \in Nat
  OBVIOUS
<1> HIDE DEF step
<1>2. q \in Nat /\ q * step <= from /\ from < q * step + step
  BY <1>1, Quotient
<1>3. /\ (length - 1) \div step \in Nat
      /\ length - 1 < ((length - 1) \div step) * step + step
  BY <1>1, Quotient
<1> HIDE DEF q
<1>4. q < (length - 1) \div step + 1
  <2> DEFINE r == (length - 1) \div step
  <2> HIDE DEF r
  <2>1. r \in Nat /\ length - 1 < r * step + step
    BY <1>3 DEF r
  <2>2. (r + 1) * step = r * step + step /\ r * step \in Nat /\ q * step \in Nat
    BY <1>1, <1>2, <2>1
  <2>3. q * step < (r + 1) * step
    BY <1>1, <1>2, <2>1, <2>2
  <2>4. q < r + 1
    BY <1>1, <1>2, <2>1, <2>3, MultiplesGrow
  <2> QED
    BY <2>4 DEF r
<1>5. q + 1 \in 1..Len(HardSplit(par, length))
  <2>1. Len(HardSplit(par, length)) = (length - 1) \div step + 1
    BY HardSplitFacts DEF step
  <2> QED
    BY <1>2, <1>3, <1>4, <2>1
<1>6. /\ Slice(par, length, q + 1).from = q * step
      /\ Slice(par, length, q + 1).to
           = IF q * step + Size < length THEN q * step + Size ELSE length
  <2>1. \A k \in 1..Len(HardSplit(par, length)) :
            /\ Slice(par, length, k).from = (k - 1) * step
            /\ Slice(par, length, k).to
                 = IF (k - 1) * step + Size < length THEN (k - 1) * step + Size ELSE length
    BY HardSplitFacts DEF step
  <2>2. (q + 1) - 1 = q
    BY <1>2
  <2>3. /\ Slice(par, length, q + 1).from = ((q + 1) - 1) * step
        /\ Slice(par, length, q + 1).to
             = IF ((q + 1) - 1) * step + Size < length
                 THEN ((q + 1) - 1) * step + Size ELSE length
    BY <1>5, <2>1, Zenon
  <2> QED
    BY <2>2, <2>3
<1>7. q * step \in Nat
  BY <1>1, <1>2
<1>8. from + (Overlap + 1) <= Slice(par, length, q + 1).to
  BY <1>1, <1>2, <1>6, <1>7
<1> QED
  BY <1>2, <1>5, <1>6, <1>8

-----------------------------------------------------------------------------
(* split_text.                                                             *)

LEMMA RangeOfAppend ==
    ASSUME NEW S, NEW seq \in Seq(S), NEW e \in S
    PROVE  Range(Append(seq, e)) = Range(seq) \cup {e}
<1>1. <<e>> \in Seq(S) /\ Range(<<e>>) = {e}
  <2>1. <<e>> \in Seq(S)
    OBVIOUS
  <2>2. DOMAIN <<e>> = {1} /\ <<e>>[1] = e
    OBVIOUS
  <2> QED
    BY <2>1, <2>2 DEF Range
<1>2. Append(seq, e) = seq \o <<e>>
  BY AppendIsConcat
<1>3. Range(seq \o <<e>>) = Range(seq) \cup Range(<<e>>)
  BY <1>1, RangeConcatenation, Zenon
<1> QED
  BY <1>1, <1>2, <1>3

Bound == IF Overlap = 0 THEN Size ELSE Size + 2 + Overlap

\* The pieces of a chunk lie in the document.
Fits(pieces) ==
    \A piece \in Range(pieces) :
        /\ piece.par <= Len(document)
        /\ piece.from < piece.to /\ piece.to <= document[piece.par]

\* The chunks, if the buffer counts as one of them.
Texts == Range(chunks) \cup {buffer}

Covered ==
    \A par \in 1..Len(document) :
        LET length == document[par]
            fact == IF length <= Size THEN length ELSE Overlap + 1
        IN  \A from \in 0..(length - fact) :
                \E text \in Texts : Within(text, par, from, from + fact)

ChunkInv ==
    /\ TypeOK
    /\ Ordered(buffer)
    /\ \A text \in Texts : Length(text) <= Bound
    /\ Covered

LEMMA TypeOKFacts ==
    TypeOK <=> /\ document \in Seq(1..MaxParagraph)
               /\ Len(document) <= MaxParagraphs
               /\ buffer \in Seq(Piece)
               /\ chunks \in Seq(Seq(Piece) \ {<<>>})
               /\ \A text \in Texts : Fits(text)
  BY DEF TypeOK, Fits, Texts

LEMMA FitsSolid ==
    ASSUME NEW pieces \in Seq(Piece), Fits(pieces)
    PROVE  Solid(pieces)
  BY LenProperties DEF Fits, Solid, Nonempty, Range

\* What the code returns if the document ends here.
LEMMA FlushedFacts ==
    ASSUME TypeOK
    PROVE  /\ Flushed \in Seq(Seq(Piece) \ {<<>>})
           /\ Range(Flushed) = Texts \ {<<>>}
           /\ Len(Flushed) \in Nat
           /\ Len(Flushed) = 0 <=> Flushed = <<>>
<1>1. buffer \in Seq(Piece) /\ chunks \in Seq(Seq(Piece) \ {<<>>})
  BY DEF TypeOK
<1>2. Range(chunks) \subseteq Seq(Piece) \ {<<>>}
  BY <1>1, RangeOfSeq
<1>3. CASE buffer = <<>>
  BY <1>1, <1>2, <1>3, LenProperties, EmptySeq DEF Flushed, Texts
<1>4. CASE buffer # <<>>
  <2>1. Flushed = Append(chunks, buffer) /\ buffer \in Seq(Piece) \ {<<>>}
    BY <1>1, <1>4 DEF Flushed
  <2>2. Range(Flushed) = Range(chunks) \cup {buffer}
    BY <1>1, <2>1, RangeOfAppend
  <2>3. Flushed \in Seq(Seq(Piece) \ {<<>>})
    BY <1>1, <2>1, AppendProperties
  <2> QED
    BY <1>2, <1>4, <2>2, <2>3, LenProperties, EmptySeq DEF Texts
<1> QED
  BY <1>3, <1>4

\* What was in the chunks and the buffer is in them after a step that keeps
\* their texts or extends the buffer.
LEMMA CoveredKept ==
    ASSUME TypeOK, Covered, NEW length \in 1..MaxParagraph,
           document' = Append(document, length),
           \A text \in Texts : \E new \in Texts' : Range(text) \subseteq Range(new),
           LET fact == IF length <= Size THEN length ELSE Overlap + 1
           IN  \A from \in 0..(length - fact) :
                   \E text \in Texts' : Within(text, Len(document) + 1, from, from + fact)
    PROVE  Covered'
<1>1. document \in Seq(1..MaxParagraph)
  BY DEF TypeOK
<1>2. /\ Len(document') = Len(document) + 1 /\ Len(document) \in Nat
      /\ \A i \in 1..Len(document) : document'[i] = document[i]
      /\ document'[Len(document) + 1] = length
  BY <1>1, AppendProperties, LenProperties
<1>3. ASSUME NEW par \in 1..Len(document'),
             NEW fact, fact = (IF document'[par] <= Size THEN document'[par] ELSE Overlap + 1),
             NEW from \in 0..(document'[par] - fact)
      PROVE  \E text \in Texts' : Within(text, par, from, from + fact)
  <2>1. CASE par = Len(document) + 1
    BY <1>2, <1>3, <2>1
  <2>2. CASE par # Len(document) + 1
    <3>1. par \in 1..Len(document) /\ document'[par] = document[par]
      BY <1>2, <2>2
    <3>2. PICK text \in Texts : Within(text, par, from, from + fact)
      BY <1>3, <3>1 DEF Covered
    <3>3. PICK new \in Texts' : Range(text) \subseteq Range(new)
      OBVIOUS
    <3>4. Within(new, par, from, from + fact)
      BY <3>2, <3>3 DEF Within
    <3> QED
      BY <3>4
  <2> QED
    BY <2>1, <2>2
<1> QED
  BY <1>3 DEF Covered, Texts, Within, Range

\* A piece of the document stays one when the document grows.
LEMMA FitsGrows ==
    ASSUME TypeOK, NEW length \in 1..MaxParagraph, document' = Append(document, length),
           NEW pieces \in Seq(Piece), Fits(pieces)
    PROVE  Fits(pieces)'
<1>1. document \in Seq(1..MaxParagraph)
  BY DEF TypeOK
<1>2. /\ Len(document') = Len(document) + 1 /\ Len(document) \in Nat
      /\ \A i \in 1..Len(document) : document'[i] = document[i]
  BY <1>1, AppendProperties, LenProperties
<1>3. Range(pieces) \subseteq Piece
  BY RangeOfSeq
<1>4. ASSUME NEW piece \in Range(pieces)
      PROVE  /\ piece.par <= Len(document')
             /\ piece.from < piece.to /\ piece.to <= document'[piece.par]
  <2>1. piece.par \in Nat /\ piece.par >= 1
    BY <1>3, BoundAssumption DEF Piece
  <2>2. piece.par \in 1..Len(document)
    BY <1>2, <2>1 DEF Fits
  <2> QED
    BY <1>2, <2>2 DEF Fits
<1> QED
  BY <1>4 DEF Fits, Range

\* A chunk that holds the whole of a new paragraph makes it retrievable.
LEMMA WholeCovered ==
    ASSUME NEW length \in 1..MaxParagraph, length <= Size, NEW par,
           NEW texts, NEW text \in texts, NEW piece \in Range(text),
           piece.par = par, piece.from = 0, piece.to = length
    PROVE  LET fact == IF length <= Size THEN length ELSE Overlap + 1
           IN  \A from \in 0..(length - fact) :
                   \E t \in texts : Within(t, par, from, from + fact)
<1> USE BoundAssumption, SizeAssumption
<1>1. Within(text, par, 0, 0 + length)
  BY DEF Within
<1>2. \A from \in 0..(length - length) : from = 0
  OBVIOUS
<1> QED
  BY <1>1, <1>2

\* A paragraph that is longer than a chunk.
LEMMA LongParagraph ==
    ASSUME ChunkInv, NEW length \in 1..MaxParagraph, length > Size,
           Len(document) < MaxParagraphs, document' = Append(document, length),
           chunks' = Flushed \o HardSplit(Len(document) + 1, length), buffer' = <<>>
    PROVE  ChunkInv'
<1> DEFINE par == Len(document) + 1
           split == HardSplit(par, length)
<1> USE BoundAssumption, SizeAssumption
<1>0. TypeOK /\ Covered /\ (\A text \in Texts : Length(text) <= Bound)
  BY DEF ChunkInv
<1>1. /\ document \in Seq(1..MaxParagraph) /\ Len(document) \in Nat
      /\ par \in 1..MaxParagraphs
      /\ document' \in Seq(1..MaxParagraph) /\ Len(document') = par
      /\ document'[par] = length
  BY <1>0, AppendProperties, LenProperties DEF TypeOK
<1> HIDE DEF par
<1>2. /\ split \in Seq(Seq(Piece) \ {<<>>})
      /\ \A k \in 1..Len(split) :
            /\ split[k] = <<Slice(par, length, k)>>
            /\ Slice(par, length, k) \in Piece
            /\ Nonempty(Slice(par, length, k))
            /\ Slice(par, length, k).par = par
            /\ Slice(par, length, k).to <= length
            /\ End(Slice(par, length, k)) <= Size
  <2>1. /\ split \in Seq(Seq(Piece) \ {<<>>})
        /\ \A k \in 1..Len(split) :
              /\ split[k] = <<Slice(par, length, k)>>
              /\ Slice(par, length, k) \in Piece
              /\ Nonempty(Slice(par, length, k))
              /\ Slice(par, length, k).par = par
              /\ Slice(par, length, k).from = (k - 1) * (Size - Overlap)
              /\ Slice(par, length, k).to
                   = IF (k - 1) * (Size - Overlap) + Size < length
                       THEN (k - 1) * (Size - Overlap) + Size
                       ELSE length
              /\ End(Slice(par, length, k)) <= Size
    BY <1>1, HardSplitFacts
  <2> HIDE DEF split
  <2>2. ASSUME NEW k \in 1..Len(split) PROVE Slice(par, length, k).to <= length
    <3> DEFINE m == (k - 1) * (Size - Overlap) + Size
    <3>1. Slice(par, length, k).to = IF m < length THEN m ELSE length
      BY <2>1
    <3>2. Slice(par, length, k).to \in Int
      BY <2>1 DEF Piece
    <3> HIDE DEF m
    <3> QED
      BY <3>1, <3>2
  <2> QED
    BY <2>1, <2>2
<1> HIDE DEF split
<1>3. /\ Flushed \in Seq(Seq(Piece) \ {<<>>})
      /\ Range(Flushed) = Texts \ {<<>>}
  BY <1>0, FlushedFacts
<1>4. /\ chunks' \in Seq(Seq(Piece) \ {<<>>})
      /\ Range(chunks') = (Texts \ {<<>>}) \cup Range(split)
  <2>1. chunks' = Flushed \o split
    BY DEF split, par
  <2> DEFINE S == Seq(Piece) \ {<<>>}
  <2>2. Flushed \in Seq(S) /\ split \in Seq(S)
    BY <1>2, <1>3
  <2> HIDE DEF S
  <2>3. Flushed \o split \in Seq(S)
    BY <2>2, ConcatProperties
  <2>4. Range(Flushed \o split) = Range(Flushed) \cup Range(split)
    BY <2>2, RangeConcatenation, Zenon
  <2> QED
    BY <1>3, <2>1, <2>3, <2>4 DEF S
<1>5. Texts' = Texts \cup Range(split) \cup {<<>>}
  BY <1>4 DEF Texts
<1>6. Range(<<>>) = {} /\ Length(<<>>) = 0
  BY DEF Range, Length
<1>7. ASSUME NEW text \in Range(split)
      PROVE  \E k \in 1..Len(split) : text = <<Slice(par, length, k)>> /\ text = split[k]
  BY <1>2, LenProperties DEF Range
<1>8. ASSUME NEW piece
      PROVE  /\ Range(<<piece>>) = {piece}
             /\ <<piece>> # <<>> /\ Len(<<piece>>) = 1 /\ <<piece>>[1] = piece
             /\ Length(<<piece>>) = End(piece)
  <2>1. <<piece>> # <<>> /\ Len(<<piece>>) = 1 /\ <<piece>>[1] = piece /\ DOMAIN <<piece>> = {1}
    OBVIOUS
  <2> QED
    BY <2>1 DEF Range, Length, Last
<1>9. ASSUME NEW text \in Texts' PROVE Fits(text)'
  <2>1. CASE text \in Texts
    <3>1. Fits(text) /\ text \in Seq(Piece)
      <4>1. Texts \subseteq Seq(Piece)
        BY <1>0, RangeOfSeq DEF TypeOK, Texts
      <4> QED
        BY <1>0, <2>1, <4>1, TypeOKFacts
    <3> QED
      BY <1>0, <3>1, FitsGrows
  <2>2. CASE text = <<>>
    BY <1>6, <2>2 DEF Fits
  <2>3. CASE text \in Range(split)
    <3>1. PICK k \in 1..Len(split) : text = <<Slice(par, length, k)>>
      BY <1>7, <2>3
    <3>2. Range(text) = {Slice(par, length, k)}
      BY <1>8, <3>1
    <3>3. /\ Slice(par, length, k).par = par
          /\ Nonempty(Slice(par, length, k))
          /\ Slice(par, length, k).to <= length
      BY <1>2
    <3>4. Len(document') = par /\ document'[par] = length /\ par \in Nat
      BY <1>1
    <3>5. \A piece \in Range(text) :
              /\ piece.par <= Len(document')
              /\ piece.from < piece.to /\ piece.to <= document'[piece.par]
      BY <3>2, <3>3, <3>4 DEF Nonempty
    <3> QED
      BY <3>5 DEF Fits, Range
  <2> QED
    BY <1>5, <2>1, <2>2, <2>3
<1>10. TypeOK'
  <2>1. Len(document') <= MaxParagraphs /\ buffer' \in Seq(Piece)
    BY <1>1
  <2> QED
    BY <1>1, <1>4, <1>9, <2>1, TypeOKFacts DEF TypeOK, Fits, Texts
<1>11. Ordered(buffer')
  BY DEF Ordered
<1>12. ASSUME NEW text \in Texts' PROVE Length(text) <= Bound
  <2>1. CASE text \in Range(split)
    <3>1. PICK k \in 1..Len(split) : text = <<Slice(par, length, k)>>
      BY <1>7, <2>1
    <3>2. Length(text) = End(Slice(par, length, k)) /\ End(Slice(par, length, k)) <= Size
      BY <1>2, <1>8, <3>1
    <3>3. End(Slice(par, length, k)) \in Int
      BY <1>2, PieceFacts
    <3> QED
      BY <3>2, <3>3 DEF Bound
  <2> QED
    BY <1>0, <1>5, <1>6, <2>1 DEF Bound
<1>13. Covered'
  <2>1. \A text \in Texts : \E new \in Texts' : Range(text) \subseteq Range(new)
    BY <1>5
  <2>2. ASSUME NEW from \in 0..(length - (Overlap + 1))
        PROVE  \E text \in Texts' : Within(text, par, from, from + (Overlap + 1))
    <3>1. PICK k \in 1..Len(split) :
               /\ Slice(par, length, k).from <= from
               /\ from + (Overlap + 1) <= Slice(par, length, k).to
      BY <1>1, HardSplitCovers DEF split
    <3>2. split[k] \in Texts'
      BY <1>2, <1>5, LenProperties DEF Range
    <3>3. Range(split[k]) = {Slice(par, length, k)}
      BY <1>2, <1>8
    <3>4. Within(split[k], par, from, from + (Overlap + 1))
      BY <1>2, <3>1, <3>3 DEF Within
    <3> QED
      BY <3>2, <3>4
  <2>3. ~(length <= Size)
    OBVIOUS
  <2>4. LET fact == IF length <= Size THEN length ELSE Overlap + 1
        IN  \A from \in 0..(length - fact) :
                \E text \in Texts' : Within(text, Len(document) + 1, from, from + fact)
    BY <2>2, <2>3 DEF par
  <2> QED
    BY <1>0, <2>1, <2>4, CoveredKept
<1> QED
  BY <1>10, <1>11, <1>12, <1>13 DEF ChunkInv, Bound, Ordered

\* A paragraph that ends up in the buffer, behind what is left of it.
LEMMA ShortParagraph ==
    ASSUME ChunkInv, NEW length \in 1..MaxParagraph, length <= Size,
           Len(document) < MaxParagraphs, document' = Append(document, length),
           NEW left \in Seq(Piece), Ordered(left), Fits(left),
           buffer' = Joined(left, Len(document) + 1, length),
           Length(buffer') <= Bound,
           chunks' \in Seq(Seq(Piece) \ {<<>>}),
           Range(chunks') \subseteq Texts,
           \A text \in Texts : text \in Range(chunks') \/ Range(text) \subseteq Range(buffer')
    PROVE  ChunkInv'
<1> DEFINE par == Len(document) + 1
<1> USE BoundAssumption, SizeAssumption
<1>0. TypeOK /\ Covered /\ (\A text \in Texts : Length(text) <= Bound)
  BY DEF ChunkInv
<1>1. /\ document \in Seq(1..MaxParagraph) /\ Len(document) \in Nat
      /\ par \in 1..MaxParagraphs
      /\ document' \in Seq(1..MaxParagraph) /\ Len(document') = par
      /\ document'[par] = length
  BY <1>0, AppendProperties, LenProperties DEF TypeOK
<1>2. Solid(left) /\ Len(left) \in Nat
  BY FitsSolid, LenProperties
<1> HIDE DEF par
<1>3. /\ buffer' \in Seq(Piece)
      /\ Ordered(buffer')
      /\ Len(buffer') = Len(left) + 1
      /\ \A i \in 1..Len(left) : buffer'[i] = left[i]
      /\ LET last == buffer'[Len(left) + 1]
         IN  last.par = par /\ last.from = 0 /\ last.to = length
  <2>1. buffer' = Joined(left, par, length)
    BY DEF par
  <2>2. par \in 1..MaxParagraphs
    BY <1>1
  <2>3. /\ Joined(left, par, length) \in Seq(Piece)
        /\ Ordered(Joined(left, par, length))
        /\ Len(Joined(left, par, length)) = Len(left) + 1
        /\ \A i \in 1..Len(left) : Joined(left, par, length)[i] = left[i]
        /\ LET last == Joined(left, par, length)[Len(left) + 1]
           IN  last.par = par /\ last.from = 0 /\ last.to = length
    BY <1>2, <2>2, JoinedFacts
  <2> QED
    BY <2>1, <2>3
<1>4. Texts' = Range(chunks') \cup {buffer'}
  BY DEF Texts
<1>5. Fits(left)'
  BY <1>0, FitsGrows
<1>6. Fits(buffer)'
  <2>1. \A piece \in Range(left) :
            /\ piece.par <= Len(document')
            /\ piece.from < piece.to /\ piece.to <= document'[piece.par]
    BY <1>5 DEF Fits, Range
  <2>2. ASSUME NEW piece \in Range(buffer')
        PROVE  /\ piece.par <= Len(document')
               /\ piece.from < piece.to /\ piece.to <= document'[piece.par]
    <3>1. PICK i \in 1..(Len(left) + 1) : piece = buffer'[i]
      BY <1>3, LenProperties DEF Range
    <3>2. CASE i \in 1..Len(left)
      <4>1. piece = left[i]
        BY <1>3, <3>1, <3>2
      <4>2. DOMAIN left = 1..Len(left)
        BY LenProperties
      <4>3. piece \in Range(left)
        BY <3>2, <4>1, <4>2 DEF Range
      <4> QED
        BY <2>1, <4>3
    <3>3. CASE i = Len(left) + 1
      <4>1. piece.par = par /\ piece.from = 0 /\ piece.to = length
        BY <1>3, <3>1, <3>3
      <4> QED
        BY <1>1, <4>1
    <3>4. i \in 1..Len(left) \/ i = Len(left) + 1
      BY <1>2
    <3> QED
      BY <3>2, <3>3, <3>4
  <2> QED
    BY <2>2 DEF Fits, Range
<1>7. ASSUME NEW text \in Texts' PROVE Fits(text)'
  <2>1. CASE text = buffer'
    BY <1>6, <2>1 DEF Fits, Range
  <2>2. CASE text \in Range(chunks')
    <3>1. text \in Texts
      BY <2>2
    <3>2. Texts \subseteq Seq(Piece)
      BY <1>0, RangeOfSeq DEF TypeOK, Texts
    <3>3. Fits(text)
      BY <1>0, <3>1, TypeOKFacts
    <3> QED
      BY <1>0, <3>1, <3>2, <3>3, FitsGrows
  <2> QED
    BY <1>4, <2>1, <2>2
<1>8. TypeOK'
  <2>1. Len(document') <= MaxParagraphs
    BY <1>1
  <2> QED
    BY <1>1, <1>3, <1>7, <2>1, TypeOKFacts DEF TypeOK, Fits, Texts
<1>9. ASSUME NEW text \in Texts' PROVE Length(text) <= Bound
  BY <1>0, <1>4
<1>10. Covered'
  <2>1. \A text \in Texts : \E new \in Texts' : Range(text) \subseteq Range(new)
    BY <1>4
  <2>2. buffer' \in Texts'
    BY <1>4
  <2>3. buffer'[Len(left) + 1] \in Range(buffer')
    BY <1>2, <1>3, LenProperties DEF Range
  <2>4. LET fact == IF length <= Size THEN length ELSE Overlap + 1
        IN  \A from \in 0..(length - fact) :
                \E text \in Texts' : Within(text, par, from, from + fact)
    BY <1>3, <2>2, <2>3, WholeCovered
  <2>5. LET fact == IF length <= Size THEN length ELSE Overlap + 1
        IN  \A from \in 0..(length - fact) :
                \E text \in Texts' : Within(text, Len(document) + 1, from, from + fact)
    BY <2>4 DEF par
  <2> QED
    BY <1>0, <2>1, <2>5, CoveredKept
<1> QED
  BY <1>3, <1>8, <1>9, <1>10 DEF ChunkInv, Bound, Ordered

LEMMA ParagraphStep ==
    ASSUME ChunkInv, NEW length \in 1..MaxParagraph, Paragraph(length)
    PROVE  ChunkInv'
<1> DEFINE par == Len(document) + 1
           candidate == Joined(buffer, par, length)
<1> USE BoundAssumption, SizeAssumption
<1>1. Len(document) < MaxParagraphs /\ document' = Append(document, length)
  BY DEF Paragraph
<1>2. /\ TypeOK /\ Ordered(buffer) /\ (\A text \in Texts : Length(text) <= Bound)
      /\ buffer \in Seq(Piece) /\ chunks \in Seq(Seq(Piece) \ {<<>>})
      /\ document \in Seq(1..MaxParagraph)
  BY DEF ChunkInv, TypeOK
<1>3. par \in 1..MaxParagraphs
  BY <1>1, <1>2, LenProperties
<1>4. /\ Fits(buffer) /\ Solid(buffer) /\ Length(buffer) \in Nat
      /\ Ordered(buffer) /\ buffer \in Seq(Piece)
  BY <1>2, TypeOKFacts, FitsSolid, LengthFacts DEF Texts
<1> HIDE DEF par
<1>0. /\ candidate \in Seq(Piece) /\ Len(candidate) = Len(buffer) + 1
      /\ Length(candidate) = IF buffer = <<>> THEN length ELSE Length(buffer) + 2 + length
      /\ \A i \in 1..Len(buffer) : candidate[i] = buffer[i]
  BY <1>3, <1>4, JoinedFacts
<1> HIDE DEF candidate
<1>5. Size <= Bound
  BY DEF Bound
<1>6. CASE /\ length > Size
           /\ chunks' = Flushed \o HardSplit(par, length)
           /\ buffer' = <<>>
  BY <1>1, <1>6, LongParagraph DEF par
<1>7. CASE /\ length <= Size
           /\ Length(candidate) <= Size
           /\ buffer' = candidate
           /\ UNCHANGED chunks
  <2>1. Length(buffer') <= Bound
    BY <1>4, <1>5, <1>7, <1>0 DEF Bound
  <2>2. Range(buffer) \subseteq Range(buffer')
    <3>1. /\ DOMAIN buffer = 1..Len(buffer) /\ DOMAIN candidate = 1..Len(candidate)
          /\ Len(buffer) \in Nat
      BY <1>4, <1>0, LenProperties
    <3>2. \A i \in DOMAIN buffer : i \in DOMAIN candidate /\ candidate[i] = buffer[i]
      BY <1>0, <3>1
    <3> QED
      BY <1>7, <3>2 DEF Range
  <2>3. Range(chunks') \subseteq Texts
        /\ \A text \in Texts : text \in Range(chunks') \/ Range(text) \subseteq Range(buffer')
    BY <1>7, <2>2 DEF Texts
  <2> QED
    BY <1>1, <1>2, <1>4, <1>7, <2>1, <2>3, ShortParagraph DEF par, candidate
<1>8. CASE /\ length <= Size
           /\ Length(candidate) > Size
           /\ chunks' = Append(chunks, buffer)
           /\ buffer' = Joined(Carried(buffer, Overlap), par, length)
  <2> DEFINE left == Carried(buffer, Overlap)
  <2>1. buffer # <<>>
    BY <1>8, <1>0
  <2>2. /\ left \in Seq(Piece) /\ Ordered(left) /\ Solid(left) /\ Length(left) <= Overlap
        /\ \A k \in 1..Len(left) : \E i \in 1..Len(buffer) :
              left[k].par = buffer[i].par /\ left[k].to = buffer[i].to
        /\ Overlap = 0 => left = <<>>
    BY <1>2, <1>4, CarriedFacts
  <2> HIDE DEF left
  <2>3. Fits(left)
    <3> SUFFICES ASSUME NEW piece \in Range(left)
                 PROVE  /\ piece.par <= Len(document)
                        /\ piece.from < piece.to /\ piece.to <= document[piece.par]
      BY DEF Fits
    <3>1. PICK k \in 1..Len(left) : piece = left[k]
      BY <2>2, LenProperties DEF Range
    <3>2. PICK i \in 1..Len(buffer) : piece.par = buffer[i].par /\ piece.to = buffer[i].to
      BY <2>2, <3>1
    <3>3. buffer[i] \in Range(buffer)
      BY <1>2, LenProperties DEF Range
    <3> QED
      BY <1>4, <2>2, <3>1, <3>2, <3>3 DEF Fits, Solid, Nonempty
  <2>4. Length(buffer') <= Bound
    <3>1. Length(buffer') = IF left = <<>> THEN length ELSE Length(left) + 2 + length
      BY <1>3, <1>8, <2>2, JoinedFacts DEF left
    <3>2. Length(left) \in Nat
      BY <2>2, LengthFacts
    <3> QED
      BY <1>8, <2>2, <3>1, <3>2 DEF Bound
  <2>5. /\ chunks' \in Seq(Seq(Piece) \ {<<>>})
        /\ Range(chunks') = Texts
    <3> DEFINE S == Seq(Piece) \ {<<>>}
    <3>1. chunks \in Seq(S) /\ buffer \in S
      BY <1>2, <2>1
    <3> HIDE DEF S
    <3>2. chunks' \in Seq(S) /\ Range(chunks') = Range(chunks) \cup {buffer}
      BY <1>8, <3>1, AppendProperties, RangeOfAppend
    <3> QED
      BY <3>2 DEF S, Texts
  <2> QED
    BY <1>1, <1>8, <2>2, <2>3, <2>4, <2>5, ShortParagraph DEF left, par
<1> QED
  BY <1>6, <1>7, <1>8 DEF Paragraph, par, candidate


LEMMA ChunkInit == Init => ChunkInv
<1> SUFFICES ASSUME Init PROVE ChunkInv
  OBVIOUS
<1> USE BoundAssumption, SizeAssumption DEF Init
<1>1. Range(<<>>) = {} /\ Length(<<>>) = 0 /\ Len(<<>>) = 0
  BY DEF Range, Length
<1>2. Texts = {<<>>}
  BY <1>1 DEF Texts
<1>3. TypeOK
  <2>1. \A text \in Texts : Fits(text)
    BY <1>1, <1>2 DEF Fits
  <2>2. /\ <<>> \in Seq(1..MaxParagraph) /\ <<>> \in Seq(Piece)
        /\ <<>> \in Seq(Seq(Piece) \ {<<>>})
    OBVIOUS
  <2> QED
    BY <1>1, <2>1, <2>2, TypeOKFacts
<1>4. Ordered(buffer)
  BY DEF Ordered
<1>5. \A text \in Texts : Length(text) <= Bound
  BY <1>1, <1>2 DEF Bound
<1>6. Covered
  BY <1>1 DEF Covered
<1> QED
  BY <1>3, <1>4, <1>5, <1>6 DEF ChunkInv

\* The two properties of the chunks that are returned.
LEMMA ChunkInvImplies == ChunkInv => FactsRetrievable /\ ChunksBounded
<1> SUFFICES ASSUME ChunkInv PROVE FactsRetrievable /\ ChunksBounded
  OBVIOUS
<1>1. Range(Flushed) = Texts \ {<<>>}
  BY FlushedFacts DEF ChunkInv
<1>2. ~ \E par, from, to : Within(<<>>, par, from, to)
  BY DEF Within, Range
<1>3. FactsRetrievable
  BY <1>1, <1>2 DEF ChunkInv, Covered, FactsRetrievable
<1>4. ChunksBounded
  BY <1>1 DEF ChunkInv, ChunksBounded, Bound
<1> QED
  BY <1>3, <1>4

-----------------------------------------------------------------------------
(* The index.                                                              *)

LEMMA StoredFacts ==
    ASSUME NEW stored \in Seq(1..MaxVersions), NEW e \in Entry
    PROVE  /\ Stored(stored, e) \in Seq(1..MaxVersions)
           /\ Len(Stored(stored, e))
                = IF e.chunks > Len(stored) THEN e.chunks ELSE Len(stored)
           /\ \A k \in 1..Len(Stored(stored, e)) :
                 Stored(stored, e)[k] = IF k <= e.chunks THEN e.version ELSE stored[k]
<1> DEFINE n == IF e.chunks > Len(stored) THEN e.chunks ELSE Len(stored)
<1>1. e.chunks \in Nat /\ e.version \in 1..MaxVersions /\ Len(stored) \in Nat
  BY LenProperties DEF Entry
<1>2. n \in Nat
  BY <1>1
<1>3. ASSUME NEW k \in 1..n
      PROVE  (IF k <= e.chunks THEN e.version ELSE stored[k]) \in 1..MaxVersions
  <2>1. CASE k <= e.chunks
    BY <1>1, <2>1
  <2>2. CASE ~(k <= e.chunks)
    <3>1. k \in 1..Len(stored)
      BY <1>1, <2>2
    <3>2. stored[k] \in 1..MaxVersions
      BY <3>1, ElementOfSeq
    <3> QED
      BY <2>2, <3>2
  <2> QED
    BY <2>1, <2>2
<1>4. Stored(stored, e) = [k \in 1..n |-> IF k <= e.chunks THEN e.version ELSE stored[k]]
  BY DEF Stored
<1> HIDE DEF n
<1>5. Stored(stored, e) \in [1..n -> 1..MaxVersions]
  BY <1>3, <1>4
<1>6. Stored(stored, e) \in Seq(1..MaxVersions) /\ Len(Stored(stored, e)) = n
  <2> DEFINE S == 1..MaxVersions
             f == Stored(stored, e)
  <2>1. f \in [1..n -> S]
    BY <1>5
  <2> HIDE DEF S, f
  <2>2. f \in Seq(S) /\ Len(f) = n
    BY <1>2, <2>1
  <2> QED
    BY <2>2 DEF S, f
<1> QED
  BY <1>4, <1>6 DEF n

\* A version that waits for its embeddings was given out, to one request, and
\* is not stored.
VersionsInv ==
    /\ \A e, f \in embedding : e.version = f.version => e = f
    /\ \A e \in embedding : e.version <= requests
    /\ \A d \in Docs : \A k \in 1..Len(index[d]) :
          /\ index[d][k] <= requests
          /\ \A e \in embedding : index[d][k] # e.version

Lengths(d) == {0} \cup {upserts[i].chunks : i \in UpsertsOf(d)}

LongestInv ==
    \A d \in Docs : /\ Len(index[d]) \in Lengths(d)
                    /\ \A n \in Lengths(d) : n <= Len(index[d])

LEMMA LengthsAreNumbers ==
    ASSUME upserts \in Seq(Entry), NEW d, NEW m \in Lengths(d)
    PROVE  m \in Nat
<1>1. CASE m = 0
  BY <1>1
<1>2. CASE m # 0
  <2>1. PICK i \in UpsertsOf(d) : m = upserts[i].chunks
    BY <1>2 DEF Lengths
  <2>2. i \in 1..Len(upserts)
    BY LenProperties DEF UpsertsOf
  <2>3. upserts[i] \in Entry
    BY <2>2, ElementOfSeq
  <2> QED
    BY <2>1, <2>3 DEF Entry
<1> QED
  BY <1>1, <1>2

IsLast(d, i) == i \in UpsertsOf(d) /\ \A j \in UpsertsOf(d) : j <= i

LastInv ==
    \A d \in Docs :
        /\ UpsertsOf(d) # {} => \E i \in UpsertsOf(d) : IsLast(d, i)
        /\ \A i \in UpsertsOf(d) : IsLast(d, i) =>
              \A k \in 1..Len(index[d]) :
                  index[d][k] = upserts[i].version <=> k <= upserts[i].chunks

IndexInv ==
    /\ ChunkInv
    /\ IndexTypeOK
    /\ document # <<>> => requests < MaxVersions
    /\ VersionsInv
    /\ LongestInv
    /\ LastInv

LEMMA IndexInvInit == IndexInit => IndexInv
<1> SUFFICES ASSUME IndexInit PROVE IndexInv
  OBVIOUS
<1>1. ChunkInv /\ TypeOK /\ document = <<>>
  BY ChunkInit DEF IndexInit, ChunkInv, Init
<1>2. \A d \in Docs : index[d] = <<>> /\ UpsertsOf(d) = {} /\ Lengths(d) = {0}
  BY DEF IndexInit, UpsertsOf, Lengths
<1>3. IndexTypeOK
  BY <1>1, VersionsAssumption DEF IndexInit, IndexTypeOK
<1>4. VersionsInv
  BY <1>2 DEF VersionsInv, IndexInit
<1>5. LongestInv /\ LastInv
  BY <1>2 DEF LongestInv, LastInv
<1> QED
  BY <1>1, <1>3, <1>4, <1>5 DEF IndexInv


LEMMA ReadStep == IndexInv /\ ReadParagraph => IndexInv'
<1> SUFFICES ASSUME IndexInv, ReadParagraph PROVE IndexInv'
  OBVIOUS
<1>1. /\ requests < MaxVersions /\ UNCHANGED indexVars
      /\ \E length \in 1..MaxParagraph : Paragraph(length)
  BY DEF ReadParagraph, Next
<1>2. ChunkInv'
  BY <1>1, ParagraphStep DEF IndexInv
<1>3. IndexTypeOK'
  BY <1>1, <1>2 DEF IndexInv, IndexTypeOK, indexVars, ChunkInv
<1>4. /\ index' = index /\ embedding' = embedding
      /\ upserts' = upserts /\ requests' = requests
  BY <1>1 DEF indexVars
<1>5. VersionsInv' /\ LongestInv' /\ LastInv'
  BY <1>4 DEF IndexInv, VersionsInv, LongestInv, LastInv, Lengths, IsLast, UpsertsOf
<1> QED
  BY <1>1, <1>2, <1>3, <1>4, <1>5 DEF IndexInv

LEMMA ChunkedStep == \A d \in Docs : IndexInv /\ Chunked(d) => IndexInv'
<1> SUFFICES ASSUME NEW d \in Docs, IndexInv, Chunked(d) PROVE IndexInv'
  OBVIOUS
<1> DEFINE e == [doc |-> d, version |-> requests + 1, chunks |-> Len(Flushed)]
<1>1. /\ Flushed # <<>> /\ requests' = requests + 1
      /\ embedding' = embedding \cup {e}
      /\ index' = index /\ upserts' = upserts
      /\ document' = <<>> /\ buffer' = <<>> /\ chunks' = <<>>
  BY DEF Chunked
<1>2. ChunkInv /\ TypeOK /\ Covered /\ requests \in 0..MaxVersions /\ MaxVersions \in Nat
  BY VersionsAssumption DEF IndexInv, IndexTypeOK, ChunkInv
<1>3. document # <<>>
  <2> SUFFICES ASSUME document = <<>> PROVE FALSE
    OBVIOUS
  <2>1. Len(document) = 0
    OBVIOUS
  <2>2. PICK text \in Texts : text # <<>>
    <3>1. Flushed \in Seq(Seq(Piece) \ {<<>>}) /\ Len(Flushed) \in Nat \ {0}
      BY <1>1, <1>2, FlushedFacts
    <3>2. Flushed[1] \in Range(Flushed)
      BY <3>1, LenProperties DEF Range
    <3> QED
      BY <1>2, <3>2, FlushedFacts
  <2>3. text \in Seq(Piece) /\ Fits(text)
    <3>1. Texts \subseteq Seq(Piece)
      BY <1>2, RangeOfSeq DEF TypeOK, Texts
    <3> QED
      BY <1>2, <3>1, TypeOKFacts
  <2>4. text[1] \in Range(text) /\ text[1] \in Piece
    <3>1. Len(text) \in Nat \ {0} /\ DOMAIN text = 1..Len(text)
      BY <2>2, <2>3, EmptySeq, LenProperties
    <3> QED
      BY <2>3, <3>1, ElementOfSeq DEF Range
  <2> QED
    BY <2>1, <2>3, <2>4, BoundAssumption DEF Fits, Piece
<1>4. requests + 1 \in 1..MaxVersions
  BY <1>2, <1>3 DEF IndexInv
<1>5. Len(Flushed) \in Nat \ {0}
  BY <1>1, <1>2, FlushedFacts
<1>6. e \in Entry
  BY <1>4, <1>5 DEF Entry
<1>7. e.version = requests + 1
  OBVIOUS
<1> HIDE DEF e
<1>8. ChunkInv'
  <2>1. Init'
    BY <1>1 DEF Init
  <2>2. (Init => ChunkInv)'
    BY ChunkInit, PTL
  <2> QED
    BY <2>1, <2>2
<1>9. IndexTypeOK'
  <2>1. TypeOK'
    BY <1>8 DEF ChunkInv
  <2> QED
    BY <1>1, <1>2, <1>4, <1>6, <2>1 DEF IndexInv, IndexTypeOK
<1>10. VersionsInv'
  <2>1. ASSUME NEW f \in embedding' PROVE f.version <= requests' /\ f.version \in Int
    BY <1>1, <1>2, <1>6, <1>7 DEF IndexInv, VersionsInv, IndexTypeOK, Entry
  <2>2. ASSUME NEW f \in embedding', NEW g \in embedding', f.version = g.version
        PROVE  f = g
    <3>1. \A h \in embedding : h.version # requests + 1
      BY <1>2 DEF IndexInv, VersionsInv, IndexTypeOK, Entry
    <3> QED
      BY <1>1, <1>7, <2>2, <3>1 DEF IndexInv, VersionsInv
  <2>3. ASSUME NEW c \in Docs, NEW k \in 1..Len(index'[c])
        PROVE  index'[c][k] <= requests' /\ \A f \in embedding' : index'[c][k] # f.version
    <3>1. index[c][k] <= requests /\ \A f \in embedding : index[c][k] # f.version
      BY <1>1, <2>3 DEF IndexInv, VersionsInv
    <3>2. index[c][k] \in Int
      <4>1. index[c] \in Seq(1..MaxVersions)
        BY DEF IndexInv, IndexTypeOK
      <4>2. index[c][k] \in 1..MaxVersions
        BY <1>1, <4>1, ElementOfSeq
      <4> QED
        BY <4>2
    <3> QED
      BY <1>1, <1>2, <1>7, <3>1, <3>2
  <2> QED
    BY <2>1, <2>2, <2>3 DEF VersionsInv
<1>11. LongestInv' /\ LastInv'
  BY <1>1 DEF IndexInv, LongestInv, LastInv, Lengths, IsLast, UpsertsOf
<1> QED
  BY <1>1, <1>8, <1>9, <1>10, <1>11 DEF IndexInv

LEMMA AddStep == \A e \in embedding : IndexInv /\ Add(e) => IndexInv'
<1> SUFFICES ASSUME NEW e \in embedding, IndexInv, Add(e) PROVE IndexInv'
  OBVIOUS
<1>1. /\ embedding' = embedding \ {e}
      /\ index' = [index EXCEPT ![e.doc] = Stored(index[e.doc], e)]
      /\ upserts' = Append(upserts, e)
      /\ UNCHANGED vars /\ requests' = requests
  BY DEF Add
<1>2. /\ TypeOK /\ index \in [Docs -> Seq(1..MaxVersions)]
      /\ embedding \subseteq Entry /\ upserts \in Seq(Entry)
      /\ requests \in 0..MaxVersions /\ MaxVersions \in Nat
  BY VersionsAssumption DEF IndexInv, IndexTypeOK
<1>3. /\ e \in Entry /\ e.doc \in Docs /\ e.version \in 1..MaxVersions
      /\ e.chunks \in Nat \ {0}
  BY <1>2 DEF Entry
<1>0. PICK n \in Nat : n = Len(upserts)
  BY <1>2, LenProperties
<1>4. /\ DOMAIN upserts = 1..n
      /\ upserts' \in Seq(Entry) /\ Len(upserts') = n + 1
      /\ DOMAIN upserts' = 1..(n + 1)
      /\ \A i \in 1..n : upserts'[i] = upserts[i]
      /\ upserts'[n + 1] = e
  BY <1>1, <1>2, <1>3, <1>0, AppendProperties, LenProperties
<1>5. /\ index'[e.doc] = Stored(index[e.doc], e)
      /\ \A d \in Docs : d # e.doc => index'[d] = index[d]
      /\ \A d \in Docs : index[d] \in Seq(1..MaxVersions) /\ Len(index[d]) \in Nat
  BY <1>1, <1>2, <1>3, LenProperties
<1>6. /\ index'[e.doc] \in Seq(1..MaxVersions)
      /\ Len(index'[e.doc])
           = IF e.chunks > Len(index[e.doc]) THEN e.chunks ELSE Len(index[e.doc])
      /\ \A k \in 1..Len(index'[e.doc]) :
            index'[e.doc][k] = IF k <= e.chunks THEN e.version ELSE index[e.doc][k]
  BY <1>3, <1>5, StoredFacts
<1>7. ASSUME NEW d \in Docs
      PROVE  /\ UpsertsOf(d)' = UpsertsOf(d) \cup (IF d = e.doc THEN {n + 1} ELSE {})
             /\ UpsertsOf(d) \subseteq 1..n
  BY <1>4 DEF UpsertsOf
<1>8. ASSUME NEW d \in Docs
      PROVE  Lengths(d)' = Lengths(d) \cup (IF d = e.doc THEN {e.chunks} ELSE {})
  BY <1>4, <1>7 DEF Lengths
<1>9. ChunkInv'
  BY <1>1 DEF IndexInv, ChunkInv, TypeOK, Ordered, Covered, Texts, vars
<1>10. IndexTypeOK'
  <2>1. index' \in [Docs -> Seq(1..MaxVersions)]
    BY <1>1, <1>2, <1>3, <1>5, <1>6
  <2> QED
    BY <1>1, <1>2, <1>4, <1>9, <2>1 DEF IndexTypeOK, ChunkInv
<1>11. \A k \in 1..Len(index[e.doc]) : index[e.doc][k] # e.version
  BY <1>3 DEF IndexInv, VersionsInv
<1>12. VersionsInv'
  <2>1. ASSUME NEW d \in Docs, NEW k \in 1..Len(index'[d])
        PROVE  index'[d][k] <= requests' /\ \A f \in embedding' : index'[d][k] # f.version
    <3>1. CASE d # e.doc
      BY <1>1, <1>5, <2>1, <3>1 DEF IndexInv, VersionsInv
    <3>2. CASE d = e.doc /\ k <= e.chunks
      <4>1. index'[d][k] = e.version
        BY <1>6, <2>1, <3>2
      <4> QED
        BY <1>1, <4>1 DEF IndexInv, VersionsInv
    <3>3. CASE d = e.doc /\ ~(k <= e.chunks)
      <4>1. k \in 1..Len(index[d])
        BY <1>3, <1>5, <1>6, <2>1, <3>3
      <4>2. index'[d][k] = index[d][k]
        BY <1>6, <2>1, <3>3
      <4> QED
        BY <1>1, <4>1, <4>2 DEF IndexInv, VersionsInv
    <3> QED
      BY <3>1, <3>2, <3>3
  <2> QED
    BY <1>1, <2>1 DEF IndexInv, VersionsInv
<1>13. LongestInv'
  <2>1. ASSUME NEW d \in Docs
        PROVE  /\ Len(index'[d]) \in Lengths(d)'
               /\ \A m \in Lengths(d)' : m <= Len(index'[d])
    <3>1. /\ Len(index[d]) \in Lengths(d)
          /\ \A m \in Lengths(d) : m <= Len(index[d])
      BY DEF IndexInv, LongestInv
    <3>2. CASE d # e.doc
      BY <1>5, <1>8, <3>1, <3>2
    <3>3. CASE d = e.doc
      <4>1. \A m \in Lengths(d) : m \in Nat
        BY <1>2, LengthsAreNumbers
      <4> QED
        BY <1>3, <1>5, <1>6, <1>8, <3>1, <3>3, <4>1
    <3> QED
      BY <3>2, <3>3
  <2> QED
    BY <2>1 DEF LongestInv, Lengths, UpsertsOf
<1>14. LastInv'
  <2>1. ASSUME NEW d \in Docs, d # e.doc
        PROVE  /\ UpsertsOf(d)' # {} => \E i \in UpsertsOf(d)' : IsLast(d, i)'
               /\ \A i \in UpsertsOf(d)' : IsLast(d, i)' =>
                    \A k \in 1..Len(index'[d]) :
                      index'[d][k] = upserts'[i].version <=> k <= upserts'[i].chunks
    <3>1. UpsertsOf(d)' = UpsertsOf(d) /\ index'[d] = index[d]
      BY <1>5, <1>7, <2>1
    <3>2. \A i \in UpsertsOf(d) : upserts'[i] = upserts[i]
      BY <1>4, <1>7
    <3>3. \A i \in UpsertsOf(d) : IsLast(d, i)' <=> IsLast(d, i)
      BY <3>1 DEF IsLast
    <3> QED
      BY <3>1, <3>2, <3>3 DEF IndexInv, LastInv
  <2>2. ASSUME NEW d \in Docs, d = e.doc
        PROVE  /\ UpsertsOf(d)' # {} => \E i \in UpsertsOf(d)' : IsLast(d, i)'
               /\ \A i \in UpsertsOf(d)' : IsLast(d, i)' =>
                    \A k \in 1..Len(index'[d]) :
                      index'[d][k] = upserts'[i].version <=> k <= upserts'[i].chunks
    <3>1. UpsertsOf(d)' = UpsertsOf(d) \cup {n + 1} /\ UpsertsOf(d) \subseteq 1..n
      BY <1>7, <2>2
    <3>2. IsLast(d, n + 1)'
      BY <1>4, <3>1 DEF IsLast
    <3>3. ASSUME NEW i \in UpsertsOf(d)', IsLast(d, i)' PROVE i = n + 1
      BY <1>4, <3>1, <3>3 DEF IsLast
    <3>4. ASSUME NEW k \in 1..Len(index'[d])
          PROVE  index'[d][k] = e.version <=> k <= e.chunks
      <4>1. CASE k <= e.chunks
        BY <1>6, <2>2, <4>1
      <4>2. CASE ~(k <= e.chunks)
        <5>1. index'[d][k] = index[d][k] /\ k \in 1..Len(index[d])
          BY <1>3, <1>5, <1>6, <2>2, <4>2
        <5> QED
          BY <1>11, <2>2, <4>2, <5>1
      <4> QED
        BY <4>1, <4>2
    <3> QED
      BY <1>4, <3>1, <3>2, <3>3, <3>4
  <2> QED
    BY <2>1, <2>2 DEF LastInv, IsLast, UpsertsOf
<1> QED
  BY <1>1, <1>9, <1>10, <1>12, <1>13, <1>14 DEF IndexInv, vars

LEMMA FailStep == \A e \in embedding : IndexInv /\ EmbedFails(e) => IndexInv'
<1> SUFFICES ASSUME NEW e \in embedding, IndexInv, EmbedFails(e) PROVE IndexInv'
  OBVIOUS
<1>1. /\ embedding' \subseteq embedding
      /\ UNCHANGED vars /\ index' = index /\ upserts' = upserts /\ requests' = requests
  BY DEF EmbedFails
<1>2. ChunkInv'
  BY <1>1 DEF IndexInv, ChunkInv, TypeOK, Ordered, Covered, Texts, vars
<1>3. IndexTypeOK'
  BY <1>1, <1>2 DEF IndexInv, IndexTypeOK, ChunkInv
<1>4. VersionsInv' /\ LongestInv' /\ LastInv'
  BY <1>1 DEF IndexInv, VersionsInv, LongestInv, LastInv, Lengths, IsLast, UpsertsOf
<1> QED
  BY <1>1, <1>2, <1>3, <1>4 DEF IndexInv, vars

LEMMA IndexInvNext == IndexInv /\ [IndexNext]_allVars => IndexInv'
<1> SUFFICES ASSUME IndexInv, [IndexNext]_allVars PROVE IndexInv'
  OBVIOUS
<1>1. CASE ReadParagraph
  BY <1>1, ReadStep
<1>2. ASSUME NEW d \in Docs, Chunked(d) PROVE IndexInv'
  BY <1>2, ChunkedStep
<1>3. ASSUME NEW e \in embedding, Add(e) PROVE IndexInv'
  BY <1>3, AddStep
<1>4. ASSUME NEW e \in embedding, EmbedFails(e) PROVE IndexInv'
  BY <1>4, FailStep
<1>5. CASE UNCHANGED allVars
  <2>1. UNCHANGED vars /\ UNCHANGED indexVars
    BY <1>5 DEF allVars
  <2>2. ChunkInv'
    BY <2>1 DEF IndexInv, ChunkInv, TypeOK, Ordered, Covered, Texts, vars
  <2>3. IndexTypeOK'
    BY <2>1, <2>2 DEF IndexInv, IndexTypeOK, indexVars, ChunkInv
  <2>4. VersionsInv' /\ LongestInv' /\ LastInv'
    BY <2>1 DEF IndexInv, VersionsInv, LongestInv, LastInv, Lengths, IsLast, UpsertsOf,
                indexVars
  <2> QED
    BY <2>1, <2>2, <2>3, <2>4 DEF IndexInv, vars, indexVars
<1> QED
  BY <1>1, <1>2, <1>3, <1>4, <1>5 DEF IndexNext

LEMMA IndexInvariant == IndexSpec => []IndexInv
  BY IndexInvInit, IndexInvNext, PTL DEF IndexSpec

-----------------------------------------------------------------------------
(* The theorems.                                                           *)

\* Every piece of every chunk is a nonempty part of the paragraph it was cut
\* from (chunking.py), and every position of a document that is stored holds
\* a version that was ingested (pipeline.py).
THEOREM IndexTyped == IndexSpec => []IndexTypeOK
<1>1. IndexInv => IndexTypeOK
  BY DEF IndexInv
<1> QED
  BY <1>1, IndexInvariant, PTL

\* chunking.py:73: a paragraph that fits a chunk is whole in one, and so is
\* every passage of a longer one with up to one character more than the
\* overlap; for documents of any length and any chunk size and overlap.
THEOREM NoFactLost == IndexSpec => []FactsRetrievable
<1>1. IndexInv => FactsRetrievable
  BY ChunkInvImplies DEF IndexInv
<1> QED
  BY <1>1, IndexInvariant, PTL

\* chunking.py:3: what split_text returns exceeds the size budget by no more
\* than the carried overlap and its blank line.
THEOREM BudgetKept == IndexSpec => []ChunksBounded
<1>1. IndexInv => ChunksBounded
  BY ChunkInvImplies DEF IndexInv
<1> QED
  BY <1>1, IndexInvariant, PTL

\* pipeline.py:251: ingests of one document that overlap, overtake each other
\* or fail leave as many chunks of it as its longest stored version had.
THEOREM IngestConverges == IndexSpec => []NeverDuplicated
<1>1. IndexInv => NeverDuplicated
  <2> SUFFICES ASSUME IndexInv, NEW d \in Docs
               PROVE  Len(index[d]) = Max(Lengths(d))
    BY DEF NeverDuplicated, Lengths
  <2>1. /\ Len(index[d]) \in Lengths(d)
        /\ \A n \in Lengths(d) : n <= Len(index[d])
    BY DEF IndexInv, LongestInv
  <2>2. Lengths(d) \in SUBSET Int
    <3>1. upserts \in Seq(Entry)
      BY DEF IndexInv, IndexTypeOK
    <3> QED
      BY <3>1, LengthsAreNumbers
  <2> HIDE DEF Lengths
  <2> QED
    BY <2>1, <2>2, MaxOf
<1> QED
  BY <1>1, IndexInvariant, PTL

\* vectorstore.py:79: whatever is stored of a document behind the version that
\* was upserted last lies behind that version's end, and nothing before it.
THEOREM StaleTailOnly == IndexSpec => []StaleOnlyBehindTheLast
<1>1. IndexInv => StaleOnlyBehindTheLast
  <2> SUFFICES ASSUME IndexInv, NEW d \in Docs, UpsertsOf(d) # {},
                      NEW last, last = upserts[Max(UpsertsOf(d))]
               PROVE  \A k \in 1..Len(index[d]) :
                          (index[d][k] = last.version) = (k <= last.chunks)
    BY DEF StaleOnlyBehindTheLast
  <2>1. PICK i \in UpsertsOf(d) : IsLast(d, i)
    BY DEF IndexInv, LastInv
  <2>2. UpsertsOf(d) \in SUBSET Int
    <3>1. upserts \in Seq(Entry)
      BY DEF IndexInv, IndexTypeOK
    <3> QED
      BY <3>1, LenProperties DEF UpsertsOf
  <2>3. Max(UpsertsOf(d)) = i
    BY <2>1, <2>2, MaxOf DEF IsLast
  <2>4. \A k \in 1..Len(index[d]) : index[d][k] = last.version <=> k <= last.chunks
    BY <2>1, <2>3 DEF IndexInv, LastInv
  <2> QED
    BY <2>4
<1> QED
  BY <1>1, IndexInvariant, PTL
=============================================================================
