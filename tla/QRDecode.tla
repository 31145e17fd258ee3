------------------------------ MODULE QRDecode ------------------------------
(***************************************************************************)
(* Reading an offer from a QR symbol (decodeGrid): the walk over the       *)
(* modules that collects the data bits, the blocks put back in order, and  *)
(* the parser of numeric, alphanumeric and byte segments.  One behaviour   *)
(* reads one symbol; what the encoder (skip2/go-qrcode) wrote is given by  *)
(* reference definitions taken from the layout, not from this decoder.     *)
(*                                                                         *)
(* decodeGrid tries every polarity, level and mask; the attempts share     *)
(* nothing, and the one modelled is that of the symbol, except that a cut  *)
(* payload is what a higher level reads from a symbol of one block.  The   *)
(* pixels, the finder patterns and the masks are left out.  A character is *)
(* its ASCII code; protocol.Parse is a choice of which prefixes it takes.  *)
(***************************************************************************)
EXTENDS QRTables

CONSTANTS
  SegmentTexts,  \* the segments a text is put together from, [mode, chars]
  MaxSegments,   \* bound: segments in one text
  ParsedVersion, \* bound: versions whose payloads are parsed; the parser only
                 \* tells those below 10 from the others
  MaxSlack       \* bound: codewords by which the payload is longer or shorter

(* The characters a segment may have in a mode, and the number its count   *)
(* field can hold: the encoder writes no others and chooses a version in   *)
(* which the text has room.                                                *)
Alphabet == << 48, 49, 50, 51, 52, 53, 54, 55, 56, 57 >>
            \o [i \in 1..26 |-> 64 + i] \o << 32, 36, 37, 42, 43, 45, 46, 47, 58 >>
Characters(mode) ==
  CASE mode = 1 -> 48..57 [] mode = 2 -> {Alphabet[i] : i \in 1..45} [] mode = 4 -> 0..255
MostCharacters(v, mode) ==
  IF v < 10 THEN CASE mode = 1 -> 1023 [] mode = 2 -> 511 [] mode = 4 -> 255
            ELSE CASE mode = 1 -> 4095 [] mode = 2 -> 2047 [] mode = 4 -> 65535

ASSUME SegmentAssumption ==
  /\ MaxSegments \in Nat \ {0} /\ MaxSlack \in Nat /\ ParsedVersion \subseteq Version
  /\ \A s \in SegmentTexts :
       /\ s.mode \in {1, 2, 4} /\ s.chars \in Seq(Characters(s.mode))
       /\ \A v \in ParsedVersion : Len(s.chars) \in 1..MostCharacters(v, s.mode)

VARIABLES
  stage,   \* walk, blocks, mode, count, data, done
  ver,
  walk,    \* the position in the grid: x, y, dirUp; k counts the rows of two
           \* modules it has read, taken the bits it appended
  data,    \* what deinterleave returned, or the bits of the payload
  payload, \* what the encoder put in: segs, slack, parses
  parser,  \* pos, mode, n, out, best
  result

vars == <<stage, ver, walk, data, payload, parser, result>>

Error == "error"
NoText == <<>>

Init ==
  /\ stage = "walk"
  /\ ver \in Version
  /\ walk = [x |-> Side(ver) - 2, y |-> Side(ver) - 1, dirUp |-> TRUE, k |-> 0, taken |-> 0]
  /\ data = <<>> /\ payload = <<>> /\ result = NoText
  /\ parser = [pos |-> 0, mode |-> 0, n |-> 0, out |-> NoText, best |-> NoText]

-----------------------------------------------------------------------------
(* unmaskBitsPolarity: two rounds of its loop, the right module (xOffset   *)
(* 1) and the left one (xOffset 0) of a row, then the move to the next.    *)
(* Mutants: the timing column is not passed over; a row above the grid. *)
KeepColumn(x) == x

TurnLate(w, n) ==
  IF w.dirUp /\ w.y >= 0 THEN [w EXCEPT !.y = @ - 1]
  ELSE [w EXCEPT !.dirUp = ~@, !.x = @ - 2]

SkipTiming(x) == IF x = 5 THEN 4 ELSE x

Turn(w, n) ==
  IF w.dirUp
  THEN IF w.y > 0 THEN [w EXCEPT !.y = @ - 1]
                  ELSE [w EXCEPT !.dirUp = FALSE, !.x = SkipTiming(@ - 2)]
  ELSE IF w.y < n - 1 THEN [w EXCEPT !.y = @ + 1]
                      ELSE [w EXCEPT !.dirUp = TRUE, !.x = SkipTiming(@ - 2)]

Walk ==
  /\ stage = "walk"
  /\ LET free == {<<walk.x + 1, walk.y>>, <<walk.x, walk.y>>} \ Reserved[ver]
     IN  walk' = Turn([walk EXCEPT !.k = @ + 1, !.taken = @ + Cardinality(free)], Side(ver))
  /\ stage' = IF walk'.x >= 0 THEN "walk" ELSE "blocks"
  /\ UNCHANGED <<ver, data, payload, parser, result>>

-----------------------------------------------------------------------------
(* What the encoder wrote: the data codewords, numbered in reading order,  *)
(* placed column by column of the table whose rows are the blocks; short   *)
(* blocks come first.  0 stands for an error-correction codeword.          *)
Written(blocks) ==
  LET B == Len(blocks)
      short == blocks[1].data
      shorts == Cardinality({b \in DOMAIN blocks : blocks[b].data = short})
      Offset(b) == short * b + (IF b > shorts THEN b - shorts ELSE 0)
  IN  [q \in 1..TotalCodewords(blocks) |->
         CASE q <= short * B -> Offset((q - 1) % B) + ((q - 1) \div B) + 1
           [] q > short * B /\ q <= DataCodewords(blocks) ->
                Offset(shorts + q - short * B - 1) + short + 1
           [] OTHER -> 0]

(* packBytes keeps whole codewords, and deinterleave refuses too few.  *)
PutInOrder(level) ==
  LET blocks == Blocks(ver, level) IN
  /\ stage = "blocks" /\ data = <<>>
  /\ walk.taken \div 8 >= TotalCodewords(blocks)
  /\ data' = Deinterleave(Written(blocks), blocks)
  /\ UNCHANGED <<stage, ver, walk, payload, parser, result>>

-----------------------------------------------------------------------------
(* The payload: segments, a terminator of up to four zero bits, zero bits  *)
(* to the next codeword, and pad codewords.                                *)
Bits(v, width) ==
  LET right[k \in 0..width] == IF k = 0 THEN v ELSE right[k - 1] \div 2
  IN  [i \in 1..width |-> right[width - i] % 2]

Value(bits) == Horner(2, bits)

Code(c) == CHOOSE i \in 0..44 : Alphabet[i + 1] = c

CountBits(mode) ==
  CASE mode = 1 -> IF ver >= 10 THEN 12 ELSE 10
    [] mode = 2 -> IF ver >= 10 THEN 11 ELSE 9
    [] mode = 4 -> IF ver >= 10 THEN 16 ELSE 8

(* How many characters the parser takes at a time, and from how many bits. *)
ChunkSize(mode, n) == Min({n, CASE mode = 1 -> 3 [] mode = 2 -> 2 [] mode = 4 -> 1})
ChunkBits(mode, chunk) ==
  CASE mode = 1 -> 1 + 3 * chunk [] mode = 2 -> 1 + 5 * chunk [] mode = 4 -> 8

(* The encoder's side, by the standard: the count field has its size by    *)
(* the version, digits go in groups of three, other characters in pairs.   *)
StandardCountBits(v, mode) ==
  IF v < 10 THEN CASE mode = 1 -> 10 [] mode = 2 -> 9 [] mode = 4 -> 8
              ELSE CASE mode = 1 -> 12 [] mode = 2 -> 11 [] mode = 4 -> 16

GroupSize(mode) == CASE mode = 1 -> 3 [] mode = 2 -> 2 [] mode = 4 -> 1

(* The groups of the characters of s are those from one mark to the next.  *)
Mark(s, k) == Min({k * GroupSize(s.mode), Len(s.chars)})
Groups(s) ==
  [k \in 1..((Len(s.chars) + GroupSize(s.mode) - 1) \div GroupSize(s.mode)) |->
     SubSeq(s.chars, Mark(s, k - 1) + 1, Mark(s, k))]

EncodeGroup(mode, g) ==
  CASE mode = 1 -> Bits(Horner(10, [i \in DOMAIN g |-> g[i] - 48]), <<4, 7, 10>>[Len(g)])
    [] mode = 2 -> Bits(Horner(45, [i \in DOMAIN g |-> Code(g[i])]), <<6, 11>>[Len(g)])
    [] mode = 4 -> Bits(g[1], 8)

EncodeSegment(v, s) ==
  Bits(s.mode, 4) \o Bits(Len(s.chars), StandardCountBits(v, s.mode))
    \o FlattenSeq([k \in DOMAIN Groups(s) |-> EncodeGroup(s.mode, Groups(s)[k])])

Text(segs) == FlattenSeq([i \in DOMAIN segs |-> segs[i].chars])

PadCodewords == <<1, 1, 1, 0, 1, 1, 0, 0, 0, 0, 0, 1, 0, 0, 0, 1>>

Encoded(v, segs, slack) ==
  LET text == FlattenSeq([i \in DOMAIN segs |-> EncodeSegment(v, segs[i])])
      closed == text \o <<0, 0, 0, 0>>
      zeros == [i \in 1..((-Len(closed)) % 8) |-> 0]
      pads == [i \in 1..(8 * Max({slack, 1})) |-> PadCodewords[((i - 1) % 16) + 1]]
  IN  SubSeq(closed \o zeros \o pads, 1, 8 * ((Len(text) + 7) \div 8 + slack))

(* The choice of the payload, and of the prefixes of it that are offers. *)
Open ==
  /\ stage = "blocks" /\ data # <<>> /\ ver \in ParsedVersion
  /\ stage' = "mode"
  /\ \E m \in 1..MaxSegments, slack \in (-MaxSlack)..MaxSlack :
       \E segs \in [1..m -> SegmentTexts], parses \in SUBSET (1..m) :
         /\ m \in parses
         /\ payload' = [segs |-> segs, slack |-> slack, parses |-> parses]
         /\ data' = Encoded(ver, segs, slack)
  /\ UNCHANGED <<ver, walk, parser, result>>

-----------------------------------------------------------------------------
(* parseBytePayload *)
Left == Len(data) - parser.pos
Take(width) == Value(SubSeq(data, parser.pos + 1, parser.pos + width))

(* protocol.Parse of a text that ends with segment i *)
Parses(text) ==
  \E i \in payload.parses : text = Text(SubSeq(payload.segs, 1, i))

BestOf(p) == IF p.best # NoText THEN p.best ELSE IF p.out = NoText THEN Error ELSE p.out

Stop(answer) == stage' = "done" /\ result' = answer /\ UNCHANGED parser

ReadMode ==
  /\ stage = "mode"
  /\ LET mode == Take(4) IN
     IF Left < 4 \/ mode \notin {1, 2, 4}
     THEN Stop(BestOf(parser))
     ELSE /\ stage' = "count"
          /\ parser' = [parser EXCEPT !.pos = @ + 4, !.mode = mode]
          /\ UNCHANGED result
  /\ UNCHANGED <<ver, walk, data, payload>>

ReadCount ==
  /\ stage = "count"
  /\ LET width == CountBits(parser.mode)
         n == Take(width)
     IN  IF Left < width \/ n > Len(data) \/ (parser.mode = 4 /\ Left - width < 8 * n)
         THEN Stop(Error)
         ELSE /\ stage' = "data"
              /\ parser' = [parser EXCEPT !.pos = @ + width, !.n = n]
              /\ UNCHANGED result
  /\ UNCHANGED <<ver, walk, data, payload>>

(* Mutant: digits without their leading zeros. *)
CharsUnpadded(mode, chunk, v) ==
  CASE mode = 1 -> IF v = 0 THEN <<48>>
                   ELSE [i \in 1..Cardinality({k \in 0..2 : v >= 10^k}) |->
                           48 + ((v \div 10^(Cardinality({k \in 0..2 : v >= 10^k}) - i)) % 10)]
    [] mode = 2 -> [i \in 1..chunk |-> Alphabet[((v \div 45^(chunk - i)) % 45) + 1]]
    [] mode = 4 -> <<v>>

(* The characters of a chunk: digits with their leading zeros (and one     *)
(* more for a value that no encoder writes), a pair of the alphabet, a     *)
(* byte.                                                                   *)
Chars(mode, chunk, v) ==
  CASE mode = 1 -> LET n == IF v < <<10, 100, 1000>>[chunk] THEN chunk ELSE chunk + 1
                   IN  [i \in 1..n |-> 48 + ((v \div <<1, 10, 100, 1000>>[n - i + 1]) % 10)]
    [] mode = 2 -> [i \in 1..chunk |-> Alphabet[((v \div <<1, 45>>[chunk - i + 1]) % 45) + 1]]
    [] mode = 4 -> <<v>>

ReadChunk ==
  /\ stage = "data" /\ parser.n > 0
  /\ LET chunk == ChunkSize(parser.mode, parser.n)
         width == ChunkBits(parser.mode, chunk)
     IN  IF Left < width \/ (parser.mode = 2 /\ Take(width) >= <<45, 2025>>[chunk])
         THEN Stop(Error)
         ELSE /\ parser' = [parser EXCEPT !.pos = @ + width, !.n = @ - chunk,
                                          !.out = @ \o Chars(parser.mode, chunk, Take(width))]
              /\ UNCHANGED <<stage, result>>
  /\ UNCHANGED <<ver, walk, data, payload>>

EndSegment ==
  /\ stage = "data" /\ parser.n = 0
  /\ stage' = "mode"
  /\ parser' = [parser EXCEPT !.best = IF Parses(parser.out) THEN parser.out ELSE @]
  /\ UNCHANGED <<ver, walk, data, payload, result>>

(* The reading is over; a version not in ParsedVersion ends with its data. *)
Done ==
  /\ stage = "done" \/ (stage = "blocks" /\ data # <<>> /\ ver \notin ParsedVersion)
  /\ UNCHANGED vars

Next ==
  \/ Walk
  \/ \E level \in Level : PutInOrder(level)
  \/ Open
  \/ ReadMode \/ ReadCount \/ ReadChunk \/ EndSegment
  \/ Done

Spec == Init /\ [][Next]_vars

-----------------------------------------------------------------------------
TypeOK ==
  /\ stage \in {"walk", "blocks", "mode", "count", "data", "done"}
  /\ ver \in Version
  /\ walk.x \in -2..(Side(ver) - 2) /\ walk.y \in 0..(Side(ver) - 1)
  /\ walk.dirUp \in BOOLEAN
  /\ stage \in {"mode", "count", "data", "done"} =>
       parser.pos \in 0..Len(data) /\ parser.mode \in {0, 1, 2, 4}

(* The order of the standard: pairs of columns from the right, up and down *)
(* in turn, the timing column passed over; row k of the walk is the row    *)
(* it names.  A walk that turned or skipped a column one row early or late *)
(* would shift every later bit.                                            *)
ReadsInWritingOrder ==
  stage = "walk" =>
    LET n == Side(ver)
        pair == walk.k \div n
        right == n - 1 - 2 * pair
    IN  /\ walk.x + 1 = (IF right > 6 THEN right ELSE right - 1)
        /\ walk.y = (IF pair % 2 = 0 THEN n - 1 - (walk.k % n) ELSE walk.k % n)

(* The free modules of every version hold exactly the codewords of its     *)
(* block table, for each level, with less than a codeword left over: the   *)
(* map of reserved modules and the table agree, and a symbol is never      *)
(* refused for want of codewords.                                          *)
SymbolHoldsItsBlocks ==
  stage = "blocks" =>
    /\ 2 * walk.k = Side(ver) * (Side(ver) - 1)
    /\ \A level \in Level : walk.taken \div 8 = TotalCodewords(Blocks(ver, level))

(* Whatever version and level the encoder chose, the data comes out of the *)
(* blocks in the order it went in.                                         *)
BlocksInOrder == stage = "blocks" => \A i \in DOMAIN data : data[i] = i

(* Whatever segments the encoder split an offer into, the whole offer is   *)
(* read, leading zeros and the part after a prefix that is itself an offer *)
(* included; a reading that got too few codewords is refused or short, and *)
(* never has a character that was not written.                             *)
OfferComesBack ==
  stage = "done" =>
    LET text == Text(payload.segs) IN
    IF payload.slack >= 0 THEN result = text ELSE result = Error \/ IsPrefix(result, text)
=============================================================================
