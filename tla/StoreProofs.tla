----------------------------- MODULE StoreProofs -----------------------------
(***************************************************************************)
(* What the store's calls return and preserve, for rows of any number.     *)
(* Facts about sequences come first; every scan of the rows is a smallest  *)
(* index, so the one about Min is used wherever a row is looked up.        *)
(***************************************************************************)
EXTENDS Store, FiniteSetTheorems, SequenceTheorems, TLAPS

-----------------------------------------------------------------------------
(* Sequences and smallest indices. *)

(* The positions of a sequence and what is at them. *)
LEMMA RowsOfSeq ==
  ASSUME NEW S, NEW q \in Seq(S)
  PROVE  /\ DOMAIN q = 1..Len(q)
         /\ DOMAIN q \subseteq Nat
         /\ Len(q) \in Nat
         /\ \A i \in DOMAIN q : q[i] \in S
BY LenProperties, ElementOfSeq

(* Appending a row keeps the others where they are. *)
LEMMA AppendRow ==
  ASSUME NEW S, NEW q \in Seq(S), NEW e \in S
  PROVE  /\ Append(q, e) \in Seq(S)
         /\ DOMAIN Append(q, e) = DOMAIN q \cup {Len(q) + 1}
         /\ Len(q) + 1 \notin DOMAIN q
         /\ \A i \in DOMAIN q : Append(q, e)[i] = q[i]
         /\ Append(q, e)[Len(q) + 1] = e
<1>1. /\ Append(q, e) \in Seq(S)
      /\ Len(Append(q, e)) = Len(q) + 1
      /\ \A i \in 1..Len(q) : Append(q, e)[i] = q[i]
      /\ Append(q, e)[Len(q) + 1] = e
  BY AppendProperties
<1>2. DOMAIN q = 1..Len(q) /\ Len(q) \in Nat
  BY RowsOfSeq
<1>3. DOMAIN Append(q, e) = 1..(Len(q) + 1)
  BY <1>1, RowsOfSeq
<1>4. 1..(Len(q) + 1) = 1..Len(q) \cup {Len(q) + 1}
  BY <1>2
<1> QED
  BY <1>1, <1>2, <1>3, <1>4

(* Writing a row of the table keeps its size and the other rows. *)
LEMMA ExceptRow ==
  ASSUME NEW S, NEW q \in Seq(S), NEW n, NEW e, n \in DOMAIN q => e \in S
  PROVE  /\ [q EXCEPT ![n] = e] \in Seq(S)
         /\ DOMAIN [q EXCEPT ![n] = e] = DOMAIN q
         /\ \A i \in DOMAIN q : [q EXCEPT ![n] = e][i] = IF i = n THEN e ELSE q[i]
<1>1. DOMAIN q = 1..Len(q) /\ Len(q) \in Nat /\ q \in [1..Len(q) -> S]
  BY LenProperties
<1>2. [q EXCEPT ![n] = e] \in [1..Len(q) -> S]
  BY <1>1
<1>3. [q EXCEPT ![n] = e] \in Seq(S)
  BY <1>1, <1>2, SeqDef
<1> QED
  BY <1>1, <1>3

(* A set of indices that is not empty has a smallest one. *)
LEMMA MinProperty ==
  ASSUME NEW S, S \subseteq Nat, S # {}
  PROVE  Min(S) \in S /\ \A y \in S : Min(S) <= y
<1>1. \E x \in S : \A y \in S : ~ (<<y, x>> \in OpToRel(<, Nat))
  BY NatLessThanWellFounded, WFMin
<1>2. \A x \in S, y \in S : ~ (<<y, x>> \in OpToRel(<, Nat)) => x <= y
  BY DEF OpToRel
<1>3. \E x \in S : \A y \in S : x <= y
  BY <1>1, <1>2
<1> QED
  BY <1>3 DEF Min

-----------------------------------------------------------------------------
(* Hosts. *)

(* A known token has a first row, and that row has the token. *)
LEMMA HostByTokenRow ==
  ASSUME NEW rows \in Seq(HostRow), NEW t, KnownToken(rows, t)
  PROVE  /\ Min(TokenRows(rows, t)) \in DOMAIN rows
         /\ HostByToken(rows, t) \in HostRow
         /\ HostByToken(rows, t).token = t
<1>1. TokenRows(rows, t) \subseteq DOMAIN rows /\ TokenRows(rows, t) # {}
  BY DEF TokenRows, KnownToken
<1>2. Min(TokenRows(rows, t)) \in TokenRows(rows, t)
  BY <1>1, MinProperty, RowsOfSeq
<1> QED
  BY <1>1, <1>2, RowsOfSeq DEF TokenRows, HostByToken

(* mergeHost makes a row of two rows; a token or a label either of them    *)
(* has is not lost.                                                        *)
LEMMA MergeHostRow ==
  ASSUME NEW prev \in HostRow, NEW next \in HostRow
  PROVE  /\ MergeHost(prev, next) \in HostRow
         /\ MergeHost(prev, next).token = IF next.token = None THEN prev.token ELSE next.token
         /\ MergeHost(prev, next).label = IF next.label = None THEN prev.label ELSE next.label
<1>1. /\ prev.token \in Token \cup {None} /\ next.token \in Token \cup {None}
      /\ prev.pub \in Pub \cup {None} /\ next.pub \in Pub \cup {None}
      /\ prev.label \in Label \cup {None} /\ next.label \in Label \cup {None}
  BY DEF HostRow
<1> QED
  BY <1>1 DEF MergeHost, HostRow

(* PutHost appends the record, or merges it into one row: the first of     *)
(* those with its token, else the first of those with its key.             *)
LEMMA PutHostRows ==
  ASSUME NEW rows \in Seq(HostRow), NEW h \in HostRow
  PROVE  \/ /\ MatchingRows(rows, h) = {}
            /\ PutHost(rows, h) = Append(rows, h)
         \/ \E n \in DOMAIN rows :
              /\ n \in MatchingRows(rows, h)
              /\ PutHost(rows, h) = [rows EXCEPT ![n] = MergeHost(rows[n], h)]
<1>1. MatchingRows(rows, h) \subseteq DOMAIN rows
  BY DEF MatchingRows, TokenRows, PubRows
<1>2. CASE MatchingRows(rows, h) = {}
  BY <1>2 DEF PutHost
<1>3. CASE MatchingRows(rows, h) # {}
  <2>1. Min(MatchingRows(rows, h)) \in MatchingRows(rows, h)
    BY <1>1, <1>3, MinProperty, RowsOfSeq
  <2> QED
    BY <1>1, <1>3, <2>1 DEF PutHost
<1> QED
  BY <1>2, <1>3

(* PutHost keeps the table a table of host rows. *)
LEMMA PutHostType ==
  ASSUME NEW rows \in Seq(HostRow), NEW h \in HostRow
  PROVE  /\ PutHost(rows, h) \in Seq(HostRow)
         /\ DOMAIN rows \subseteq DOMAIN PutHost(rows, h)
<1>1. CASE PutHost(rows, h) = Append(rows, h)
  BY <1>1, AppendRow
<1>2. ASSUME NEW n \in DOMAIN rows,
             PutHost(rows, h) = [rows EXCEPT ![n] = MergeHost(rows[n], h)]
      PROVE  /\ PutHost(rows, h) \in Seq(HostRow)
             /\ DOMAIN rows \subseteq DOMAIN PutHost(rows, h)
  <2>1. MergeHost(rows[n], h) \in HostRow
    BY MergeHostRow, RowsOfSeq
  <2> QED
    BY <1>2, <2>1, ExceptRow
<1> QED
  BY <1>1, <1>2, PutHostRows

(* No write clears a label (mergeHost). *)
LEMMA PutHostKeepsLabels ==
  ASSUME NEW rows \in Seq(HostRow), NEW h \in HostRow,
         NEW i \in DOMAIN rows, rows[i].label # None
  PROVE  PutHost(rows, h)[i].label # None
<1>1. CASE PutHost(rows, h) = Append(rows, h)
  BY <1>1, AppendRow
<1>2. ASSUME NEW n \in DOMAIN rows,
             PutHost(rows, h) = [rows EXCEPT ![n] = MergeHost(rows[n], h)]
      PROVE  PutHost(rows, h)[i].label # None
  <2>1. /\ MergeHost(rows[n], h) \in HostRow
        /\ MergeHost(rows[n], h).label = IF h.label = None THEN rows[n].label ELSE h.label
    BY MergeHostRow, RowsOfSeq
  <2> QED
    BY <1>2, <2>1, ExceptRow
<1> QED
  BY <1>1, <1>2, PutHostRows

(* A token of the table, and only a token of the table or of the record,   *)
(* is in the table after a write whose token is empty or known.            *)
LEMMA PutHostTokens ==
  ASSUME NEW rows \in Seq(HostRow), NEW h \in HostRow,
         h.token = None \/ KnownToken(rows, h.token)
  PROVE  /\ \A i \in DOMAIN rows : PutHost(rows, h)[i].token = rows[i].token
         /\ \A i \in DOMAIN PutHost(rows, h) \ DOMAIN rows : PutHost(rows, h)[i].token = None
<1> DEFINE new == PutHost(rows, h)
<1>1. CASE MatchingRows(rows, h) = {} /\ new = Append(rows, h)
  <2>1. h.token = None
    BY <1>1 DEF MatchingRows, KnownToken
  <2> QED
    BY <1>1, <2>1, AppendRow
<1>2. ASSUME NEW n \in DOMAIN rows, n \in MatchingRows(rows, h),
             new = [rows EXCEPT ![n] = MergeHost(rows[n], h)]
      PROVE  \A i \in DOMAIN rows : DOMAIN new = DOMAIN rows /\ new[i].token = rows[i].token
  <2>1. /\ MergeHost(rows[n], h) \in HostRow
        /\ MergeHost(rows[n], h).token = IF h.token = None THEN rows[n].token ELSE h.token
    BY MergeHostRow, RowsOfSeq
  <2>2. h.token # None => rows[n].token = h.token
    BY <1>2 DEF MatchingRows, KnownToken, TokenRows
  <2>3. MergeHost(rows[n], h).token = rows[n].token
    BY <2>1, <2>2
  <2> QED
    BY <1>2, <2>1, <2>3, ExceptRow
<1> QED
  BY <1>1, <1>2, PutHostRows

-----------------------------------------------------------------------------
(* Pairings. *)

(* Taking a code marks its row and nothing else. *)
LEMMA ConsumePairingRows ==
  ASSUME NEW rows \in Seq(PairingRow), NEW c \in DOMAIN rows
  PROVE  /\ ConsumePairing(rows, c) \in Seq(PairingRow)
         /\ DOMAIN ConsumePairing(rows, c) = DOMAIN rows
         /\ ConsumePairing(rows, c)[c].consumed
         /\ \A i \in DOMAIN rows :
              /\ ConsumePairing(rows, c)[i].host = rows[i].host
              /\ i # c => ConsumePairing(rows, c)[i] = rows[i]
<1> DEFINE row == [rows[c] EXCEPT !.consumed = TRUE]
<1>1. rows[c] \in PairingRow
  BY RowsOfSeq
<1>2. row \in PairingRow /\ row.consumed /\ row.host = rows[c].host
  BY <1>1 DEF PairingRow
<1>3. ConsumePairing(rows, c) = [rows EXCEPT ![c] = row]
  BY DEF ConsumePairing
<1> HIDE DEF row
<1> QED
  BY <1>2, <1>3, ExceptRow

-----------------------------------------------------------------------------
(* Bindings. *)

(* The bindings in force are finitely many and their number is a natural.  *)
LEMMA ActiveFinite ==
  ASSUME NEW rows \in Seq(BindingRow), NEW p
  PROVE  /\ IsFiniteSet(ActiveBindings(rows, p))
         /\ CountBindings(rows, p) \in Nat
<1>1. DOMAIN rows = 1..Len(rows) /\ Len(rows) \in Nat
  BY RowsOfSeq
<1>2. IsFiniteSet(DOMAIN rows)
  BY <1>1, FS_Interval
<1>3. ActiveBindings(rows, p) \in SUBSET DOMAIN rows
  BY DEF ActiveBindings
<1> QED
  BY <1>2, <1>3, FS_Subset, FS_CardinalityType DEF CountBindings

(* A new binding counts once, for its own host. *)
LEMMA CountAfterAppend ==
  ASSUME NEW rows \in Seq(BindingRow), NEW row \in BindingRow, ~row.revoked, NEW p
  PROVE  CountBindings(Append(rows, row), p)
           = IF row.host = p THEN CountBindings(rows, p) + 1 ELSE CountBindings(rows, p)
<1> DEFINE new == Append(rows, row)
           n == Len(rows) + 1
<1>1. /\ DOMAIN new = DOMAIN rows \cup {n} /\ n \notin DOMAIN rows
      /\ \A i \in DOMAIN rows : new[i] = rows[i]
      /\ new[n] = row
  BY AppendRow
<1> HIDE DEF new, n
<1>2. ActiveBindings(new, p)
        = IF row.host = p THEN ActiveBindings(rows, p) \cup {n} ELSE ActiveBindings(rows, p)
  BY <1>1 DEF ActiveBindings
<1>3. n \notin ActiveBindings(rows, p)
  BY <1>1 DEF ActiveBindings
<1>4. CountBindings(new, p)
        = IF row.host = p THEN CountBindings(rows, p) + 1 ELSE CountBindings(rows, p)
  BY <1>2, <1>3, ActiveFinite, FS_AddElement DEF CountBindings
<1> QED
  BY <1>4 DEF new

(* The store's own count keeps every host within the limit, whatever the   *)
(* caller had counted before (Memory.PutBinding).                          *)
LEMMA PutBindingWithinLimit ==
  ASSUME NEW rows \in Seq(BindingRow), NEW row \in BindingRow, ~row.revoked, NEW p,
         CountBindings(rows, p) <= MaxBindings
  PROVE  CountBindings(PutBinding(rows, row), p) <= MaxBindings
<1>1. CASE CountBindings(rows, row.host) >= MaxBindings
  BY <1>1 DEF PutBinding
<1>2. CASE ~(CountBindings(rows, row.host) >= MaxBindings)
  <2>1. PutBinding(rows, row) = Append(rows, row)
    BY <1>2 DEF PutBinding
  <2>2. CountBindings(rows, p) \in Nat /\ MaxBindings \in Nat
    BY ActiveFinite, MaxBindingsAssumption
  <2> QED
    BY <1>2, <2>1, <2>2, CountAfterAppend
<1> QED
  BY <1>1, <1>2

(* Putting a binding refuses it or appends it. *)
LEMMA PutBindingRows ==
  ASSUME NEW rows \in Seq(BindingRow), NEW row \in BindingRow
  PROVE  /\ PutBinding(rows, row) \in Seq(BindingRow)
         /\ PutBinding(rows, row) = rows \/ PutBinding(rows, row) = Append(rows, row)
BY AppendRow DEF PutBinding

(* Revoking writes one flag. *)
LEMMA RevokeBindingRows ==
  ASSUME NEW rows \in Seq(BindingRow), NEW b
  PROVE  /\ RevokeBinding(rows, b) \in Seq(BindingRow)
         /\ DOMAIN RevokeBinding(rows, b) = DOMAIN rows
         /\ \A i \in DOMAIN rows :
              /\ RevokeBinding(rows, b)[i].host = rows[i].host
              /\ RevokeBinding(rows, b)[i].session = rows[i].session
              /\ RevokeBinding(rows, b)[i].revoked <=> (rows[i].revoked \/ i = b)
<1> DEFINE row == [rows[b] EXCEPT !.revoked = TRUE]
<1>1. b \in DOMAIN rows => rows[b] \in BindingRow
  BY RowsOfSeq
<1>2. b \in DOMAIN rows =>
        /\ row \in BindingRow /\ row.revoked
        /\ row.host = rows[b].host /\ row.session = rows[b].session
  BY <1>1 DEF BindingRow
<1>3. RevokeBinding(rows, b) = [rows EXCEPT ![b] = row]
  BY DEF RevokeBinding
<1> HIDE DEF row
<1> QED
  BY <1>1, <1>2, <1>3, ExceptRow

(* Revoking takes the binding out of the count of its host, once.          *)
LEMMA CountAfterRevoke ==
  ASSUME NEW rows \in Seq(BindingRow), NEW b, NEW p
  PROVE  CountBindings(RevokeBinding(rows, b), p)
           = IF b \in ActiveBindings(rows, p) THEN CountBindings(rows, p) - 1
             ELSE CountBindings(rows, p)
<1>1. ActiveBindings(RevokeBinding(rows, b), p) = ActiveBindings(rows, p) \ {b}
  BY RevokeBindingRows DEF ActiveBindings
<1> QED
  BY <1>1, ActiveFinite, FS_RemoveElement DEF CountBindings

=============================================================================
