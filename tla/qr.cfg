CONSTANTS
  SegmentTexts <- Texts
  MaxSegments = 3
  ParsedVersion = {9, 10}
  MaxSlack = 1
SPECIFICATION Spec
INVARIANTS TypeOK ReadsInWritingOrder SymbolHoldsItsBlocks BlocksInOrder OfferComesBack
