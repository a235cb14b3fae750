------------------------------ MODULE Chunker ------------------------------
(***************************************************************************)
(* nodes/embedder_4070/chunker.py: how a turn becomes the chunks that are  *)
(* embedded.  A text over the threshold is split at its separators into    *)
(* pieces of at most Target tokens (_recursive), and the pieces are packed *)
(* into chunks that overlap (_pack).                                       *)
(*                                                                         *)
(* The text is kept as the tokens up to the end of each of its pieces, and *)
(* a chunk is the interval of pieces it joins; its length is taken to be   *)
(* the sum of theirs.  A piece of white space has no tokens, but no chunk  *)
(* of a text over the threshold is without any (Algorithms_proofs), so the *)
(* filter for those that are blank is left out.                            *)
(***************************************************************************)
EXTENDS Integers, Sequences, FiniteSetsExt, Functions

CONSTANTS Threshold, Target, Overlap,
          MaxPieces     \* bound on the pieces of a text

ASSUME ChunkerAssumption ==
    /\ Threshold \in Nat /\ Target \in Nat \ {0} /\ Overlap \in Nat
    /\ MaxPieces \in Nat

VARIABLES ends,     \* the tokens up to the end of each piece taken so far
          chunks,   \* the chunks emitted
          start,    \* the first piece of `current`
          packed    \* whether the text is at its end

chunkVars == <<ends, chunks, start, packed>>

ChunkInit == ends = <<>> /\ chunks = <<>> /\ start = 1 /\ packed = FALSE

Taken == Len(ends)

TokensTo(i) == IF i = 0 THEN 0 ELSE ends[i]

\* _token_len of the pieces from i to j.
TokenLen(i, j) == TokensTo(j) - TokensTo(i - 1)

\* Mutant: the next chunk starts behind the overlap.
OverlapStartLate ==
    IF Overlap = 0 THEN Taken + 1
    ELSE Max({start} \cup {k \in start..Taken : TokenLen(k, Taken) >= Overlap}) + 1

\* flush: the chunk is emitted; the next starts with the pieces from its end
\* that make up the overlap, or with all of it when they do not suffice.
OverlapStart ==
    IF Overlap = 0 THEN Taken + 1
    ELSE Max({start} \cup {k \in start..Taken : TokenLen(k, Taken) >= Overlap})

\* Mutant: what was emitted stays in `current`.
FlushKeeps == chunks' = Append(chunks, <<start, Taken>>) /\ UNCHANGED start

Flush == chunks' = Append(chunks, <<start, Taken>>) /\ start' = OverlapStart

\* Mutant: the piece is not counted before it is appended.
PackUncounted(n) ==
    /\ ~packed /\ Taken < MaxPieces
    /\ IF start <= Taken /\ TokenLen(start, Taken) > Target
       THEN Flush ELSE UNCHANGED <<chunks, start>>
    /\ ends' = Append(ends, TokensTo(Taken) + n)
    /\ UNCHANGED packed

\* One round of the packing loop, with a piece of n tokens.
PackPiece(n) ==
    /\ ~packed /\ Taken < MaxPieces
    /\ IF start <= Taken /\ TokenLen(start, Taken) + n > Target
       THEN Flush ELSE UNCHANGED <<chunks, start>>
    /\ ends' = Append(ends, TokensTo(Taken) + n)
    /\ UNCHANGED packed

\* The end of the text; one under the threshold is a chunk as it is.
ChunkTurn ==
    /\ ~packed /\ ends # <<>>
    /\ packed' = TRUE
    /\ chunks' = IF TokenLen(1, Taken) <= Threshold THEN <<<<1, Taken>>>>
                                                   ELSE Append(chunks, <<start, Taken>>)
    /\ UNCHANGED <<ends, start>>

ChunkNext == (\E n \in 0..Target : PackPiece(n)) \/ ChunkTurn

ChunkSpec == ChunkInit /\ [][ChunkNext]_chunkVars

-----------------------------------------------------------------------------
ChunkTokens(c) == TokenLen(c[1], c[2])

\* Nothing of the turn is left out of its chunks, each ends behind the one
\* before, and neighbours share the overlap, or all that the first of them has.
ChunksCoverTurn ==
    packed =>
      /\ UNION {c[1]..c[2] : c \in Range(chunks)} = 1..Taken
      /\ \A i \in 1..Len(chunks) - 1 :
           /\ chunks[i][2] < chunks[i + 1][2]
           /\ \/ TokenLen(chunks[i + 1][1], chunks[i][2]) >= Overlap
              \/ chunks[i + 1][1] = chunks[i][1]

\* The overlap is as long as a whole piece when the last piece is: a chunk can
\* be of twice the target and the overlap, but never more.
ChunkLength ==
    \A c \in Range(chunks) : ChunkTokens(c) < Max({2 * Target + Overlap, Threshold + 1})

\* A chunk over the target is the overlap and one piece: a second one is never
\* added to it, nor a piece that does not fit to what is within the target.
PieceOver(cs, i) == i > 1 /\ cs[i][2] = cs[i - 1][2] + 1

ExcessIsOnePiece ==
    packed /\ TokenLen(1, Taken) > Threshold =>
      \A i \in 1..Len(chunks) : ChunkTokens(chunks[i]) <= Target \/ PieceOver(chunks, i)
=============================================================================
