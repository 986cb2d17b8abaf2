----------------------------- MODULE LfnBuffer -----------------------------
(***************************************************************************)
(* LfnBuffer (filename.rs): a long file name, collected from its pieces on *)
(* disk, which come last piece first, into a buffer of bytes that is       *)
(* filled from the back.  Pieces are UTF-16, the buffer is UTF-8: a        *)
(* character beyond the first 65536 is two units, a high and a low         *)
(* surrogate, and a piece may end between them.                            *)
(***************************************************************************)
EXTENDS Integers, Sequences, FiniteSetsExt, SequencesExt

CONSTANTS
  PieceLen,      \* 13, units to a piece
  BufferLen,     \* bytes of the buffer
  Unit,          \* UTF-16 units, "high" and "low" among them
  Width          \* how many bytes of UTF-8 a unit is that is no surrogate

ASSUME BufferAssumption ==
  /\ PieceLen \in Nat \ {0} /\ BufferLen \in Nat
  /\ {"high", "low"} \subseteq Unit /\ Width \in [Unit -> 1 .. 3]

Pair == "pair"           \* the character that a high and a low surrogate are
Replacement == "U+FFFD"
Nothing == "none"

Bytes(ch) == CASE ch = Pair -> 4 [] ch = Replacement -> 3 [] OTHER -> Width[ch]
Surrogate == {"high", "low"}

-----------------------------------------------------------------------------
(* char::decode_utf16: characters, and surrogates that are errors *)

PairsAt(units, i) == i \in 1 .. Len(units) - 1 /\ units[i] = "high" /\ units[i + 1] = "low"
DecodeUtf16(units) ==
  LET upTo[n \in 0 .. Len(units)] ==
        IF n = 0 THEN <<>>
        ELSE IF PairsAt(units, n - 1) THEN Append(Front(upTo[n - 1]), Pair)
        ELSE Append(upTo[n - 1], units[n])
  IN  upTo[Len(units)]

\* A surrogate that is the first of a piece may belong to the end of the piece
\* before, which is pushed next; others are replaced.
Chars(decoded) ==
  LET kept == IF decoded # <<>> /\ Head(decoded) \in Surrogate THEN Tail(decoded) ELSE decoded
  IN  [i \in DOMAIN kept |-> IF kept[i] \in Surrogate THEN Replacement ELSE kept[i]]

Saved(decoded) ==
  IF decoded # <<>> /\ Head(decoded) \in Surrogate THEN Head(decoded) ELSE Nothing

-----------------------------------------------------------------------------
(* The buffer *)

\* clear.  The Vec that push decodes into has room for a piece: panicked says
\* that it was full.
Clear == [text |-> <<>>, free |-> BufferLen, overflow |-> FALSE, saved |-> Nothing, panicked |-> FALSE]

\* How many bytes the characters from the i-th on take.
BytesFrom(chars, i) ==
  LET total[j \in 0 .. Len(chars)] ==
        IF j = 0 THEN 0 ELSE total[j - 1] + Bytes(chars[Len(chars) + 1 - j])
  IN  total[Len(chars) + 1 - i]

\* What decode_utf16 is given: the piece, and what the last one left.
Units(b, piece) == IF b.saved = Nothing THEN piece ELSE Append(piece, b.saved)

\* push puts the characters before those that are there, from the last to the
\* first, and returns at the first that has no room.  It is called again for the
\* next piece: what it then puts in is not shown.
Push(b, piece) ==
  LET decoded == DecodeUtf16(Units(b, piece))
      chars   == Chars(decoded)
      first   == Min({i \in 1 .. Len(chars) + 1 : BytesFrom(chars, i) <= b.free})
  IN  [text     |-> SubSeq(chars, first, Len(chars)) \o b.text,
       free     |-> b.free - BytesFrom(chars, first),
       overflow |-> b.overflow \/ first > 1,
       saved    |-> Saved(decoded),
       panicked |-> b.panicked \/ Len(chars) > PieceLen]

AsStr(b) == IF b.overflow THEN <<>> ELSE b.text

-----------------------------------------------------------------------------
(* Pieces of a name *)

Pieces(long) == (Len(long) + PieceLen - 1) \div PieceLen
Chunk(long, j) == SubSeq(long, (j - 1) * PieceLen + 1, Min({j * PieceLen, Len(long)}))

Collected(long) ==
  LET n == Pieces(long)
      after[k \in 0 .. n] == IF k = 0 THEN Clear ELSE Push(after[k - 1], Chunk(long, n + 1 - k))
  IN  after[n]

\* The text of a name, and whether the buffer is large enough for it.
Text(long) == DecodeUtf16(long)
IsText(long) == ToSet(Text(long)) \cap Surrogate = {}
Shown(long) == IF BytesFrom(Text(long), 1) <= BufferLen THEN Text(long) ELSE <<>>

\* The pieces of a name give its text, wherever it is divided, and nothing if
\* the buffer is too small; and the decoder's Vec is large enough.  For every
\* name of two pieces or less, and those that have one unit in a third.
PushesDecode ==
  \A long \in {l \in BoundedSeq(Unit, 2 * PieceLen + 1) : IsText(l)} :
    AsStr(Collected(long)) = Shown(long) /\ ~ Collected(long).panicked
=============================================================================
