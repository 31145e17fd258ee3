------------------------------ MODULE QRTables ------------------------------
(***************************************************************************)
(* The fixed layout of a QR symbol as qr/blocks.go and qr/decode.go know   *)
(* it, for the versions 1 to 20 and the levels L, M, Q, H (0 to 3): which  *)
(* modules carry no data, and how codewords are split into blocks.         *)
(***************************************************************************)
EXTENDS Integers, Sequences, FiniteSets, SequencesExt

Version == 1..20
Level == 0..3

(* n, the modules on one side *)
Side(ver) == 21 + 4 * (ver - 1)

(* eccBlocks: for a version and a level, the groups <<blocks, codewords of *)
(* each, data codewords of each>>.                                         *)
EccBlocks == <<
  <<<<<<1, 26, 19>>>>, <<<<1, 26, 16>>>>, <<<<1, 26, 13>>>>, <<<<1, 26, 9>>>>>>,
  <<<<<<1, 44, 34>>>>, <<<<1, 44, 28>>>>, <<<<1, 44, 22>>>>, <<<<1, 44, 16>>>>>>,
  <<<<<<1, 70, 55>>>>, <<<<1, 70, 44>>>>, <<<<2, 35, 17>>>>, <<<<2, 35, 13>>>>>>,
  <<<<<<1, 100, 80>>>>, <<<<2, 50, 32>>>>, <<<<2, 50, 24>>>>, <<<<4, 25, 9>>>>>>,
  <<<<<<1, 134, 108>>>>, <<<<2, 67, 43>>>>, <<<<2, 33, 15>>, <<2, 34, 16>>>>, <<<<2, 33, 11>>, <<2, 34, 12>>>>>>,
  <<<<<<2, 86, 68>>>>, <<<<4, 43, 27>>>>, <<<<4, 43, 19>>>>, <<<<4, 43, 15>>>>>>,
  <<<<<<2, 98, 78>>>>, <<<<4, 49, 31>>>>, <<<<2, 32, 14>>, <<4, 33, 15>>>>, <<<<4, 39, 13>>, <<1, 40, 14>>>>>>,
  <<<<<<2, 121, 97>>>>, <<<<2, 60, 38>>, <<2, 61, 39>>>>, <<<<4, 40, 18>>, <<2, 41, 19>>>>, <<<<4, 40, 14>>, <<2, 41, 15>>>>>>,
  <<<<<<2, 146, 116>>>>, <<<<3, 58, 36>>, <<2, 59, 37>>>>, <<<<4, 36, 16>>, <<4, 37, 17>>>>, <<<<4, 36, 12>>, <<4, 37, 13>>>>>>,
  <<<<<<2, 86, 68>>, <<2, 87, 69>>>>, <<<<4, 69, 43>>, <<1, 70, 44>>>>, <<<<6, 43, 19>>, <<2, 44, 20>>>>, <<<<6, 43, 15>>, <<2, 44, 16>>>>>>,
  <<<<<<4, 101, 81>>>>, <<<<1, 80, 50>>, <<4, 81, 51>>>>, <<<<4, 50, 22>>, <<4, 51, 23>>>>, <<<<3, 36, 12>>, <<8, 37, 13>>>>>>,
  <<<<<<2, 116, 92>>, <<2, 117, 93>>>>, <<<<6, 58, 36>>, <<2, 59, 37>>>>, <<<<4, 46, 20>>, <<6, 47, 21>>>>, <<<<7, 42, 14>>, <<4, 43, 15>>>>>>,
  <<<<<<4, 133, 107>>>>, <<<<8, 59, 37>>, <<1, 60, 38>>>>, <<<<8, 44, 20>>, <<4, 45, 21>>>>, <<<<12, 33, 11>>, <<4, 34, 12>>>>>>,
  <<<<<<3, 145, 115>>, <<1, 146, 116>>>>, <<<<4, 64, 40>>, <<5, 65, 41>>>>, <<<<11, 36, 16>>, <<5, 37, 17>>>>, <<<<11, 36, 12>>, <<5, 37, 13>>>>>>,
  <<<<<<5, 109, 87>>, <<1, 110, 88>>>>, <<<<5, 65, 41>>, <<5, 66, 42>>>>, <<<<5, 54, 24>>, <<7, 55, 25>>>>, <<<<11, 36, 12>>, <<7, 37, 13>>>>>>,
  <<<<<<5, 122, 98>>, <<1, 123, 99>>>>, <<<<7, 73, 45>>, <<3, 74, 46>>>>, <<<<15, 43, 19>>, <<2, 44, 20>>>>, <<<<3, 45, 15>>, <<13, 46, 16>>>>>>,
  <<<<<<1, 135, 107>>, <<5, 136, 108>>>>, <<<<10, 74, 46>>, <<1, 75, 47>>>>, <<<<1, 50, 22>>, <<15, 51, 23>>>>, <<<<2, 42, 14>>, <<17, 43, 15>>>>>>,
  <<<<<<5, 150, 120>>, <<1, 151, 121>>>>, <<<<9, 69, 43>>, <<4, 70, 44>>>>, <<<<17, 50, 22>>, <<1, 51, 23>>>>, <<<<2, 42, 14>>, <<19, 43, 15>>>>>>,
  <<<<<<3, 141, 113>>, <<4, 142, 114>>>>, <<<<3, 70, 44>>, <<11, 71, 45>>>>, <<<<17, 47, 21>>, <<4, 48, 22>>>>, <<<<9, 39, 13>>, <<16, 40, 14>>>>>>,
  <<<<<<3, 135, 107>>, <<5, 136, 108>>>>, <<<<3, 67, 41>>, <<13, 68, 42>>>>, <<<<15, 54, 24>>, <<5, 55, 25>>>>, <<<<15, 43, 15>>, <<10, 44, 16>>>>>>>>

(* The blocks one after the other.  There are at most two groups. *)
Blocks(ver, level) ==
  LET groups == EccBlocks[ver][level + 1]
      count == groups[1][1] + (IF Len(groups) = 2 THEN groups[2][1] ELSE 0)
  IN  [b \in 1..count |-> LET g == groups[IF b <= groups[1][1] THEN 1 ELSE 2]
                          IN  [total |-> g[2], data |-> g[3]]]

(* The number with these digits in a base; in base 1 it is their sum.      *)
Horner(base, digits) ==
  LET value[n \in 0..Len(digits)] == IF n = 0 THEN 0 ELSE base * value[n - 1] + digits[n]
  IN  value[Len(digits)]

SumOf(s) == Horner(1, s)
TotalCodewords(blocks) == SumOf([b \in DOMAIN blocks |-> blocks[b].total])
DataCodewords(blocks) == SumOf([b \in DOMAIN blocks |-> blocks[b].data])

AlignCenters(ver) ==
  << {}, {6, 18}, {6, 22}, {6, 26}, {6, 30}, {6, 34},
     {6, 22, 38}, {6, 24, 42}, {6, 26, 46}, {6, 28, 50},
     {6, 30, 54}, {6, 32, 58}, {6, 34, 62},
     {6, 26, 46, 66}, {6, 26, 48, 70}, {6, 26, 50, 74},
     {6, 30, 54, 78}, {6, 30, 56, 82}, {6, 30, 58, 86}, {6, 34, 62, 90} >>[ver]

-----------------------------------------------------------------------------
(* reservedMap: the modules <<x, y>> that carry no data.  A centre of an   *)
(* alignment pattern is skipped when a finder pattern covers it.           *)
Finders(n) ==
  UNION {(0..7) \X (0..7), ((n - 8)..(n - 1)) \X (0..7), (0..7) \X ((n - 8)..(n - 1))}

(* Mutant: the timing row is there first, and hides the patterns on it. *)
AlignmentAfterTiming(n, ver) ==
  UNION {((c[1] - 2)..(c[1] + 2)) \X ((c[2] - 2)..(c[2] + 2)) :
           c \in {c \in AlignCenters(ver) \X AlignCenters(ver) : 6 \notin {c[1], c[2]}} \ Finders(n)}

Alignment(n, ver) ==
  UNION {((c[1] - 2)..(c[1] + 2)) \X ((c[2] - 2)..(c[2] + 2)) :
           c \in (AlignCenters(ver) \X AlignCenters(ver)) \ Finders(n)}

Timing(n) == ((8..(n - 8)) \X {6}) \cup ({6} \X (8..(n - 8)))

Format(n) == (((0..8) \cup ((n - 8)..(n - 1))) \X {8}) \cup ({8} \X ((0..8) \cup ((n - 8)..(n - 1))))

VersionInfo(n, ver) ==
  IF ver >= 7 THEN ((0..5) \X ((n - 11)..(n - 9))) \cup (((n - 11)..(n - 9)) \X (0..5)) ELSE {}

(* A constant, so that TLC computes it once for each version. *)
Reserved ==
  [ver \in Version |-> LET n == Side(ver)
                       IN  UNION {Finders(n), Alignment(n, ver), Timing(n), Format(n),
                                  VersionInfo(n, ver)}]

-----------------------------------------------------------------------------
(* deinterleave: the codewords cw come row by row of the blocks, a block   *)
(* that has no row i is passed over, and the data rows come before the     *)
(* error-correction rows.  Position is where row i of block b stands; the  *)
(* result has the data of the blocks one after another.                    *)
\* Mutant: blocks that have ended are read on.
PositionOfEqualBlocks(blocks, b, i) == (i - 1) * Len(blocks) + b

Position(blocks, b, i) ==
  SumOf([c \in DOMAIN blocks |-> Min({blocks[c].data, IF c <= b THEN i ELSE i - 1})])

Deinterleave(cw, blocks) ==
  FlattenSeq([b \in DOMAIN blocks |->
                [i \in 1..blocks[b].data |-> cw[Position(blocks, b, i)]]])
=============================================================================
