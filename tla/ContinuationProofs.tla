-------------------------- MODULE ContinuationProofs --------------------------
(***************************************************************************)
(* What pages that continue by an offset, a number, a key or an iterator   *)
(* show, for any number of entries, any size of a page and any number of   *)
(* changes between two of them; and with the streams of PagesProofs.tla,   *)
(* that all that pages does so completely.                                 *)
(***************************************************************************)
EXTENDS PagesProofs

-----------------------------------------------------------------------------
(* Listings *)

ListingRecord ==
    [kind : Lists!Kind, items : SUBSET Lists!Item, steady : SUBSET Lists!Item,
     bookmark : 0 .. MaxItem + PageRows, shown : Seq(Lists!Item), ended : BOOLEAN, changes : Nat]

(* How many entries the pages before a bookmark have.                      *)
OffsetOf(kind, mark) ==
    IF kind \in {"array", "numbered"} /\ mark > 0 THEN (mark - 1) * PageRows ELSE mark

Offset == OffsetOf(listing.kind, listing.bookmark)

(* The entries before the place that an anchor names.                      *)
BehindOf(kind, mark) == {i \in Lists!Item : IF kind = "scroll" THEN i < mark ELSE i <= mark}

Behind == BehindOf(listing.kind, listing.bookmark)

(* What was cut from one list so far is its beginning.                     *)
CutShown ==
    IF listing.ended THEN listing.shown = Sorted(listing.items)
    ELSE /\ Offset <= Cardinality(listing.items)
         /\ listing.shown = SubSeq(Sorted(listing.items), 1, Offset)

(* What was there all the time and lies behind the anchor was shown.       *)
AnchorShown ==
    /\ Ascends(listing.shown)
    /\ IF listing.ended THEN listing.steady \subseteq Elements(listing.shown)
       ELSE /\ Elements(listing.shown) \subseteq Behind
            /\ listing.steady \intersect Behind \subseteq Elements(listing.shown)
    /\ listing.changes = 0 => Elements(listing.shown) \subseteq listing.items

Listed ==
    /\ listing \in ListingRecord
    /\ listing.steady \subseteq listing.items
    /\ listing.changes = 0 => listing.steady = listing.items
    /\ listing.kind = "local" => listing.bookmark = 0
    /\ listing.kind \in Lists!Anchored => AnchorShown
    /\ listing.kind \notin Lists!Anchored /\ listing.changes = 0 => CutShown

LEMMA ListNumbers ==
    /\ PageRows \in Nat \ {0} /\ MaxItem \in Nat \ {0} /\ Lists!Item = 1 .. MaxItem
    /\ Lists!Item \in SUBSET Nat /\ IsFiniteSet(Lists!Item) /\ Cardinality(Lists!Item) = MaxItem
  <1>1. PageRows \in Nat \ {0} /\ MaxItem \in Nat \ {0}
    BY PagesAssumption
  <1>2. Lists!Item = 1 .. MaxItem
    BY DEF Lists!Item
  <1>3. IsFiniteSet(1 .. MaxItem) /\ Cardinality(1 .. MaxItem) = MaxItem
    <2>1. 1 \in Int /\ MaxItem \in Int
      BY <1>1
    <2>2. IsFiniteSet(1 .. MaxItem) /\ Cardinality(1 .. MaxItem) = IF 1 > MaxItem THEN 0 ELSE MaxItem - 1 + 1
      BY <2>1, FS_Interval
    <2> QED
      BY <1>1, <2>2
  <1> QED
    BY <1>1, <1>2, <1>3

LEMMA ItemSets ==
    ASSUME NEW T \in SUBSET Lists!Item
    PROVE  /\ T \in SUBSET Nat /\ IsFiniteSet(T) /\ Cardinality(T) \in 0 .. MaxItem
           /\ Lists!Cardinality(T) = Cardinality(T)
           /\ Sorted(T) \in Seq(T) /\ Sorted(T) \in Seq(Lists!Item) /\ Ascends(Sorted(T))
           /\ Len(Sorted(T)) = Cardinality(T) /\ Elements(Sorted(T)) = T
  <1>1. T \in SUBSET Nat /\ IsFiniteSet(T) /\ Cardinality(T) <= MaxItem
    BY ListNumbers, FS_Subset
  <1>2. Cardinality(T) \in Nat
    BY <1>1, FS_CardinalityType
  <1>3. \A U : Lists!Cardinality(U) = Cardinality(U)
    BY DEF Lists!Cardinality, Cardinality
  <1>5. /\ Sorted(T) \in Seq(T) /\ Len(Sorted(T)) = Cardinality(T)
        /\ Ascends(Sorted(T)) /\ Elements(Sorted(T)) = T
    BY <1>1, SortedInOrder
  <1>6. Sorted(T) \in Seq(Lists!Item)
    BY <1>5, SeqMonotonic
  <1>7. Cardinality(T) \in 0 .. MaxItem
    BY <1>1, <1>2, ListNumbers
  <1> QED
    BY <1>1, <1>3, <1>5, <1>6, <1>7, Zenon

(* No other fact is beside an operator that has an order for its argument. *)
LEMMA ItemsInOrder ==
    ASSUME NEW T \in SUBSET Lists!Item
    PROVE  Lists!InOrder(T, <) = Sorted(T)
  <1>0. \A U : Lists!Cardinality(U) = Cardinality(U)
    BY DEF Lists!Cardinality, Cardinality
  <1> DEFINE first(k) == CHOOSE x \in T : Lists!Cardinality({y \in T : y < x}) = k - 1
             second(k) == CHOOSE x \in T : Cardinality({y \in T : y < x}) = k - 1
  <1>1. \A k : first(k) = second(k)
    BY <1>0, Zenon
  <1>2. Sorted(T) = [k \in 1 .. Cardinality(T) |-> second(k)]
    BY DEF Sorted
  <1>3. Lists!InOrder(T, <) = [k \in 1 .. Lists!Cardinality(T) |-> first(k)]
    BY Zenon DEF Lists!InOrder
  <1>4. [k \in 1 .. Lists!Cardinality(T) |-> first(k)] = [k \in 1 .. Cardinality(T) |-> second(k)]
    <2> HIDE DEF first, second
    <2> QED
      BY <1>0, <1>1
  <1> QED
    BY <1>2, <1>3, <1>4, Zenon

LEMMA ListFields ==
    ASSUME Listed
    PROVE  /\ listing.kind \in Lists!Kind /\ listing.items \in SUBSET Lists!Item
           /\ listing.steady \in SUBSET Lists!Item /\ listing.bookmark \in 0 .. MaxItem + PageRows
           /\ listing.shown \in Seq(Lists!Item) /\ listing.ended \in BOOLEAN
           /\ listing.changes \in Nat /\ listing.bookmark \in Nat
  BY ListNumbers DEF Listed, ListingRecord

LEMMA ListNames ==
    ASSUME Listed
    PROVE  /\ Lists!All = Sorted(listing.items) /\ Lists!Total = Cardinality(listing.items)
           /\ Cardinality(listing.items) \in 0 .. MaxItem
           /\ Sorted(listing.items) \in Seq(Lists!Item)
           /\ Len(Sorted(listing.items)) = Cardinality(listing.items)
           /\ \A kind : Lists!Is(kind) <=> listing.kind = kind /\ ~listing.ended
  <1>1. listing.items \in SUBSET Lists!Item
    BY ListFields
  <1> QED
    BY <1>1, ItemSets, ItemsInOrder, Zenon DEF Lists!All, Lists!Total, Lists!Is

(* What a page changes.                                                    *)
LEMMA ListShows ==
    ASSUME Listed, NEW rows \in Seq(Lists!Item), NEW next \in BOOLEAN, NEW mark,
           next => mark \in 0 .. MaxItem + PageRows, Lists!Shown(rows, next, mark)
    PROVE  /\ listing' \in ListingRecord
           /\ listing'.kind = listing.kind /\ listing'.items = listing.items
           /\ listing'.steady = listing.steady /\ listing'.changes = listing.changes
           /\ listing'.shown = listing.shown \o rows /\ listing'.ended = ~next
           /\ listing'.bookmark = IF next THEN mark ELSE 0
  <1> DEFINE shown == listing.shown \o rows
             bookmark == IF next THEN mark ELSE 0
             ended == ~next
  <1>1. listing' = [listing EXCEPT !.shown = shown, !.ended = ended, !.bookmark = bookmark]
    BY DEF Lists!Shown
  <1>2. listing \in ListingRecord
    BY DEF Listed
  <1>3. shown \in Seq(Lists!Item)
    BY ListFields, ConcatProperties
  <1>4. bookmark \in 0 .. MaxItem + PageRows
    BY ListNumbers
  <1>5. ended \in BOOLEAN /\ (ended <=> ~next)
    OBVIOUS
  <1> HIDE DEF shown, bookmark, ended
  <1>6. listing' \in ListingRecord
    BY <1>1, <1>2, <1>3, <1>4, <1>5 DEF ListingRecord
  <1>7. /\ listing'.kind = listing.kind /\ listing'.items = listing.items
        /\ listing'.steady = listing.steady /\ listing'.changes = listing.changes
        /\ listing'.shown = shown /\ listing'.ended = ended /\ listing'.bookmark = bookmark
    BY <1>1, <1>2 DEF ListingRecord
  <1> QED
    BY <1>6, <1>7 DEF shown, bookmark, ended

(* The rows that are cut from an offset on.                                *)
LEMMA SliceRows ==
    ASSUME Listed, NEW from \in Nat
    PROVE  LET rows == Lists!Slice(from)
               total == Cardinality(listing.items)
               to == IF from + PageRows <= total THEN from + PageRows ELSE total
           IN /\ rows \in Seq(Lists!Item)
              /\ Len(rows) = IF from <= total THEN to - from ELSE 0
              /\ from <= total =>
                    SubSeq(Sorted(listing.items), 1, from) \o rows = SubSeq(Sorted(listing.items), 1, to)
  <1> DEFINE s == Sorted(listing.items)
             total == Cardinality(listing.items)
             to == IF from + PageRows <= total THEN from + PageRows ELSE total
             rows == Lists!Slice(from)
  <1>1. PageRows \in Nat \ {0} /\ total \in Nat /\ s \in Seq(Lists!Item) /\ Len(s) = total
    BY ListNames, ListNumbers
  <1>2. rows = SubSeq(s, from + 1, to)
    <2>1. Lists!Min({from + PageRows, total}) = to
      BY <1>1, LeastOfTwo DEF Lists!Min, Least
    <2> QED
      BY <2>1, ListNames DEF Lists!Slice
  <1> HIDE DEF s, total, rows
  <1>3. to \in Nat /\ to <= total
    BY <1>1
  <1>4. \A i \in from + 1 .. to : s[i] \in Lists!Item
    BY <1>1, <1>3, ElementOfSeq
  <1>5. from + 1 \in Int /\ to \in Int
    BY <1>3
  <1> HIDE DEF to
  <1>6. /\ rows \in Seq(Lists!Item)
        /\ Len(rows) = IF from + 1 <= to THEN to - (from + 1) + 1 ELSE 0
    BY <1>2, <1>4, <1>5, SubSeqProperties
  <1>7. Len(rows) = IF from <= total THEN to - from ELSE 0
    BY <1>1, <1>3, <1>6 DEF to
  <1>8. ASSUME from <= total PROVE SubSeq(s, 1, from) \o rows = SubSeq(s, 1, to)
    <2>1. from \in 0 .. Len(s) /\ to \in from .. Len(s)
      BY <1>1, <1>8 DEF to
    <2> QED
      BY <1>1, <1>2, <2>1, CutFollows
  <1> QED
    BY <1>6, <1>7, <1>8 DEF s, total, rows, to

(* A page that is cut from a list where the last one ended.                *)
LEMMA CutShows ==
    ASSUME Listed, ~listing.ended, listing.kind \notin Lists!Anchored, listing.kind # "local",
           NEW from \in Nat, NEW next \in BOOLEAN, NEW mark,
           Lists!Shown(Lists!Slice(from), next, mark),
           next => mark \in 0 .. MaxItem + PageRows,
           next => OffsetOf(listing.kind, mark) = from + PageRows,
           listing.changes = 0 =>
              from = Offset /\ (next <=> from + PageRows < Cardinality(listing.items))
    PROVE  Listed'
  <1> DEFINE rows == Lists!Slice(from)
             s == Sorted(listing.items)
             total == Cardinality(listing.items)
             to == IF from + PageRows <= total THEN from + PageRows ELSE total
  <1>1. /\ rows \in Seq(Lists!Item)
        /\ from <= total => SubSeq(s, 1, from) \o rows = SubSeq(s, 1, to)
    BY SliceRows
  <1>2. /\ PageRows \in Nat \ {0} /\ total \in Nat /\ s \in Seq(Lists!Item) /\ Len(s) = total
    BY ListNames, ListNumbers
  <1>3. /\ listing' \in ListingRecord
        /\ listing'.kind = listing.kind /\ listing'.items = listing.items
        /\ listing'.steady = listing.steady /\ listing'.changes = listing.changes
        /\ listing'.shown = listing.shown \o rows /\ listing'.ended = ~next
        /\ listing'.bookmark = IF next THEN mark ELSE 0
    BY <1>1, ListShows
  <1> HIDE DEF rows
  <1>4. ASSUME listing.changes = 0 PROVE CutShown'
    <2>1. CutShown /\ from = Offset /\ (next <=> from + PageRows < total)
      BY <1>4 DEF Listed
    <2>2. from <= total /\ listing.shown = SubSeq(s, 1, from)
      BY <2>1 DEF CutShown
    <2>3. listing'.shown = SubSeq(s, 1, to)
      BY <1>1, <1>3, <2>2
    <2>4. CASE next
      <3>1. to = from + PageRows /\ to <= total
        BY <1>2, <2>1, <2>4
      <3>2. Offset' = to
        BY <1>3, <2>4, <3>1 DEF Offset
      <3> QED
        BY <1>3, <2>3, <2>4, <3>1, <3>2 DEF CutShown
    <2>5. CASE ~next
      <3>1. to = total
        BY <1>2, <2>1, <2>5
      <3>2. listing'.shown = s
        BY <1>2, <2>3, <3>1, SubSeqFull
      <3> QED
        BY <1>3, <2>5, <3>2 DEF CutShown
    <2> QED
      BY <2>4, <2>5
  <1> QED
    BY <1>3, <1>4 DEF Listed

(* A page that goes on behind an anchor.                                   *)
LEMMA AnchorShows ==
    ASSUME Listed, ~listing.ended, listing.kind \in Lists!Anchored,
           NEW rest, rest = listing.items \ Behind, NEW n \in 0 .. Cardinality(rest),
           NEW rows, rows = SubSeq(Sorted(rest), 1, n), NEW mark,
           NEW next \in BOOLEAN, next <=> n < Cardinality(rest), Lists!Shown(rows, next, mark),
           next =>
              /\ mark \in 0 .. MaxItem + PageRows
              /\ Behind \subseteq BehindOf(listing.kind, mark)
              /\ Elements(rows) \subseteq BehindOf(listing.kind, mark)
              /\ rest \intersect BehindOf(listing.kind, mark) \subseteq Elements(rows)
    PROVE  Listed'
  <1>1. /\ listing.shown \in Seq(Lists!Item) /\ listing.items \in SUBSET Lists!Item
        /\ listing.bookmark \in Nat /\ Lists!Item \in SUBSET Nat
        /\ listing.steady \in SUBSET Lists!Item
    BY ListFields, ListNumbers
  <1>2. rest \in SUBSET Lists!Item /\ rest \in SUBSET Nat /\ IsFiniteSet(rest)
    <2>1. rest \in SUBSET Lists!Item
      BY <1>1
    <2> QED
      BY <2>1, ItemSets
  <1>3. Proceeds(rows, rest, n)
    BY <1>2, PageProceeds
  <1>4. AnchorShown /\ (listing.changes = 0 => listing.steady = listing.items)
    BY DEF Listed
  <1>5. /\ Ascends(listing.shown) /\ Elements(listing.shown) \subseteq Behind
        /\ listing.steady \intersect Behind \subseteq Elements(listing.shown)
        /\ listing.changes = 0 => Elements(listing.shown) \subseteq listing.items
    BY <1>4 DEF AnchorShown
  <1>6. \A i \in 1 .. Len(listing.shown), x \in rest : listing.shown[i] < x
    <2> SUFFICES ASSUME NEW i \in 1 .. Len(listing.shown), NEW x \in rest
                 PROVE  listing.shown[i] < x
      OBVIOUS
    <2>1. listing.shown[i] \in Elements(listing.shown)
      BY <1>1, LenProperties DEF Elements
    <2>2. listing.shown[i] \in Behind /\ x \notin Behind /\ x \in Lists!Item
      BY <1>2, <1>5, <2>1
    <2> DEFINE y == listing.shown[i]
    <2>3. y \in Nat /\ x \in Nat
      BY <1>1, <1>2, <2>2 DEF Behind, BehindOf
    <2>4. listing.kind = "scroll" => y < listing.bookmark /\ ~(x < listing.bookmark)
      BY <2>2 DEF Behind, BehindOf
    <2>5. listing.kind # "scroll" => y <= listing.bookmark /\ ~(x <= listing.bookmark)
      BY <2>2 DEF Behind, BehindOf
    <2> HIDE DEF y
    <2>6. y < x
      BY <1>1, <2>3, <2>4, <2>5
    <2> QED
      BY <2>6 DEF y
  <1> DEFINE shown == listing.shown \o rows
  <1>7. /\ rows \in Seq(Lists!Item) /\ shown \in Seq(Lists!Item) /\ Ascends(shown)
        /\ Elements(shown) = Elements(listing.shown) \union Elements(rows)
        /\ Elements(rows) \subseteq rest
    <2> HIDE DEF shown
    <2>1. Lists!Item \in SUBSET Nat /\ rest \in SUBSET Lists!Item
      BY <1>1, <1>2
    <2>2. listing.shown \in Seq(Lists!Item) /\ Ascends(listing.shown)
      BY <1>1, <1>5
    <2> DEFINE before == listing.shown
    <2>3. /\ rows \in Seq(Lists!Item) /\ before \o rows \in Seq(Lists!Item) /\ Ascends(before \o rows)
          /\ Elements(before \o rows) = Elements(before) \union Elements(rows)
          /\ Elements(rows) \subseteq rest
      <3> HIDE DEF before
      <3>1. before \in Seq(Lists!Item) /\ Ascends(before)
            /\ Precedes(before, rest)
        BY <1>6, <2>2 DEF before, Precedes
      <3>2. Joined(Lists!Item, before, rest, rows)
        BY <1>3, <2>1, <3>1, PageJoins, Zenon
      <3> QED
        BY <3>2 DEF Joined
    <2> QED
      BY <2>3 DEF shown
  <1>8. next \in BOOLEAN /\ (next => mark \in 0 .. MaxItem + PageRows) /\ Lists!Shown(rows, next, mark)
    OBVIOUS
  <1>9. ~next => n = Cardinality(rest)
    <2>1. Cardinality(rest) \in Nat
      BY <1>2, FS_CardinalityType
    <2> QED
      BY <2>1
  <1>10. ~next => Elements(rows) = rest
    BY <1>3, <1>9 DEF Proceeds
  <1>11. next => /\ Behind \subseteq BehindOf(listing.kind, mark)
                 /\ Elements(rows) \subseteq BehindOf(listing.kind, mark)
                 /\ rest \intersect BehindOf(listing.kind, mark) \subseteq Elements(rows)
    OBVIOUS
  <1>12. /\ listing' \in ListingRecord
         /\ listing'.kind = listing.kind /\ listing'.items = listing.items
         /\ listing'.steady = listing.steady /\ listing'.changes = listing.changes
         /\ listing'.shown = shown /\ listing'.ended = ~next
         /\ listing'.bookmark = IF next THEN mark ELSE 0
    BY <1>7, <1>8, ListShows
  <1> HIDE DEF shown
  <1>13. ASSUME ~next PROVE listing.steady \subseteq Elements(shown)
    <2> SUFFICES ASSUME NEW x \in listing.steady PROVE x \in Elements(shown)
      OBVIOUS
    <2>1. x \in Behind => x \in Elements(shown)
      BY <1>5, <1>7
    <2>2. ASSUME x \notin Behind PROVE x \in Elements(shown)
      <3>1. x \in listing.items
        BY DEF Listed
      <3> QED
        BY <1>7, <1>10, <1>13, <2>2, <3>1
    <2> QED
      BY <2>1, <2>2
  <1>14. ASSUME next
         PROVE  /\ Elements(shown) \subseteq BehindOf(listing.kind, mark)
                /\ listing.steady \intersect BehindOf(listing.kind, mark) \subseteq Elements(shown)
    <2>1. Elements(shown) \subseteq BehindOf(listing.kind, mark)
      BY <1>5, <1>7, <1>11, <1>14
    <2> SUFFICES ASSUME NEW x \in listing.steady, x \in BehindOf(listing.kind, mark)
                 PROVE  x \in Elements(shown)
      BY <2>1
    <2>2. x \in Behind => x \in Elements(shown)
      BY <1>5, <1>7
    <2>3. ASSUME x \notin Behind PROVE x \in Elements(shown)
      <3>1. x \in listing.items
        BY DEF Listed
      <3> QED
        BY <1>7, <1>11, <1>14, <2>3, <3>1
    <2> QED
      BY <2>2, <2>3
  <1>15. listing.changes = 0 => Elements(shown) \subseteq listing.items
    BY <1>5, <1>7
  <1>16. AnchorShown'
    <2>1. next => Behind' = BehindOf(listing.kind, mark)
      BY <1>12 DEF Behind
    <2> QED
      BY <1>7, <1>12, <1>13, <1>14, <1>15, <2>1 DEF AnchorShown
  <1>17. listing.kind # "local"
    BY DEF Lists!Anchored
  <1> QED
    BY <1>4, <1>12, <1>16, <1>17 DEF Listed

LEMMA Multiples ==
    ASSUME NEW n \in Nat, NEW p \in Nat \ {0}
    PROVE  n * p \in Nat /\ n * p >= n /\ (n + 1) * p = n * p + p /\ 0 * p = 0
  OBVIOUS

LEMMA MultiplesClimb ==
    ASSUME NEW n \in Nat, NEW m \in Nat, n <= m, NEW p \in Nat \ {0}
    PROVE  n * p <= m * p
  <1>1. PICK d \in Nat : m = n + d
    <2>1. m - n \in Nat /\ m = n + (m - n)
      OBVIOUS
    <2> QED
      BY <2>1
  <1>2. m * p = n * p + d * p
    BY <1>1
  <1>3. d * p \in Nat /\ n * p \in Nat
    BY Multiples
  <1> QED
    BY <1>2, <1>3

(* The number of pages is rounded up.                                      *)
LEMMA PagesRoundUp ==
    ASSUME NEW t \in Nat, NEW p \in Nat \ {0}
    PROVE  LET c == (t + p - 1) \div p IN
           c \in Nat /\ c <= t /\ \A n \in Nat : n < c <=> n * p < t
  <1> DEFINE a == t + p - 1
             c == a \div p
  <1>1. a \in Nat
    OBVIOUS
  <1> HIDE DEF a
  <1>2. c \in Nat /\ c * p <= a /\ a < c * p + p
    BY <1>1
  <1> HIDE DEF c
  <1>3. ASSUME NEW n \in Nat PROVE n < c <=> n * p < t
    <2>1. ASSUME n < c PROVE n * p < t
      <3>1. n + 1 \in Nat /\ n + 1 <= c
        BY <1>2, <2>1
      <3>2. (n + 1) * p <= c * p /\ (n + 1) * p = n * p + p
        BY <1>2, <3>1, Multiples, MultiplesClimb
      <3>3. n * p \in Nat /\ c * p \in Nat
        BY <1>2, Multiples
      <3> DEFINE x == n * p
                 y == c * p
      <3>4. x + p <= y /\ y <= a /\ x \in Nat /\ y \in Nat
        BY <1>2, <3>2, <3>3
      <3> HIDE DEF x, y
      <3>5. x < t
        BY <1>1, <3>4 DEF a
      <3> QED
        BY <3>5 DEF x
    <2>2. ASSUME ~(n < c) PROVE ~(n * p < t)
      <3>1. c * p <= n * p
        BY <1>2, <2>2, MultiplesClimb
      <3> DEFINE x == n * p
                 y == c * p
      <3>2. y <= x /\ a < y + p /\ x \in Nat /\ y \in Nat
        BY <1>2, <3>1, Multiples
      <3> HIDE DEF x, y
      <3>3. ~(x < t)
        BY <1>1, <3>2 DEF a
      <3> QED
        BY <3>3 DEF x
    <2> QED
      BY <2>1, <2>2
  <1>4. c <= t
    <2> SUFFICES ASSUME t < c PROVE FALSE
      BY <1>2
    <2>1. t * p < t
      BY <1>3
    <2>2. t * p >= t /\ t * p \in Nat
      BY Multiples
    <2> QED
      BY <2>1, <2>2
  <1> QED
    BY <1>2, <1>3, <1>4 DEF c, a

(* RabbitMQ: page numbers.                                                 *)
LEMMA NumbersOfPages ==
    ASSUME Listed, listing.kind \in {"array", "numbered"}
    PROVE  LET number == Lists!Number
               from == (number - 1) * PageRows
           IN /\ number \in Nat /\ number > 0 /\ from \in Nat /\ from >= number - 1
              /\ from = Offset /\ OffsetOf(listing.kind, number + 1) = from + PageRows
              /\ number * PageRows = from + PageRows
  <1> DEFINE number == Lists!Number
             n == number - 1
  <1>1. listing.bookmark \in Nat /\ PageRows \in Nat \ {0}
    BY ListFields, ListNumbers
  <1>2. n \in Nat /\ number = n + 1
        /\ n = IF listing.bookmark > 0 THEN listing.bookmark - 1 ELSE 0
    BY <1>1 DEF Lists!Number
  <1> HIDE DEF n
  <1>3. n * PageRows \in Nat /\ n * PageRows >= n /\ (n + 1) * PageRows = n * PageRows + PageRows
        /\ 0 * PageRows = 0
    BY <1>1, <1>2, Multiples
  <1>4. n * PageRows = Offset
    BY <1>1, <1>2, <1>3 DEF Offset, OffsetOf
  <1>5. OffsetOf(listing.kind, number + 1) = number * PageRows
    <2> DEFINE mark == number + 1
    <2>1. mark > 0 /\ mark - 1 = number
      BY <1>2
    <2> HIDE DEF mark, number
    <2>2. OffsetOf(listing.kind, mark) = (mark - 1) * PageRows
      BY <2>1, Zenon DEF OffsetOf
    <2>3. OffsetOf(listing.kind, mark) = number * PageRows
      BY <2>1, <2>2, Zenon
    <2> QED
      BY <2>3 DEF mark
  <1>6. number - 1 = n
    BY <1>2
  <1> QED
    BY <1>2, <1>3, <1>4, <1>5, <1>6

LEMMA ListsByArray ==
    ASSUME Listed, Lists!ArrayPage
    PROVE  Listed'
  <1> DEFINE number == Lists!Number
             from == (number - 1) * PageRows
             total == Cardinality(listing.items)
             next == total - from > PageRows
  <1>1. listing.kind = "array" /\ ~listing.ended /\ Lists!Total = total
    BY ListNames DEF Lists!ArrayPage
  <1>2. Lists!Shown(Lists!Slice(from), next, number + 1)
    BY <1>1 DEF Lists!ArrayPage
  <1>3. /\ number \in Nat /\ number > 0 /\ from \in Nat /\ from >= number - 1 /\ from = Offset
        /\ OffsetOf(listing.kind, number + 1) = from + PageRows
    BY <1>1, NumbersOfPages
  <1>4. PageRows \in Nat \ {0} /\ MaxItem \in Nat \ {0} /\ total \in 0 .. MaxItem
    BY ListNames, ListNumbers
  <1> HIDE DEF number, from, total
  <1>5. next => number + 1 \in 0 .. MaxItem + PageRows
    BY <1>3, <1>4
  <1>6. next <=> from + PageRows < total
    BY <1>3, <1>4
  <1>7. next \in BOOLEAN
    OBVIOUS
  <1> HIDE DEF next
  <1>8. listing.kind \notin Lists!Anchored /\ listing.kind # "local"
    BY <1>1 DEF Lists!Anchored
  <1> QED
    BY <1>1, <1>2, <1>3, <1>5, <1>6, <1>7, <1>8, CutShows, Zenon DEF total

LEMMA ListsByNumber ==
    ASSUME Listed, Lists!NumberedPage
    PROVE  Listed'
  <1> DEFINE number == Lists!Number
             from == (number - 1) * PageRows
             total == Cardinality(listing.items)
             count == (total + PageRows - 1) \div PageRows
             next == number < count
  <1>1. listing.kind = "numbered" /\ ~listing.ended /\ Lists!Total = total
    BY ListNames DEF Lists!NumberedPage
  <1>2. Lists!Shown(Lists!Slice(from), next, number + 1)
    BY <1>1 DEF Lists!NumberedPage, Lists!PageCount
  <1>3. /\ number \in Nat /\ number > 0 /\ from \in Nat /\ from >= number - 1 /\ from = Offset
        /\ OffsetOf(listing.kind, number + 1) = from + PageRows
        /\ number * PageRows = from + PageRows
    BY <1>1, NumbersOfPages
  <1>4. PageRows \in Nat \ {0} /\ MaxItem \in Nat \ {0} /\ total \in 0 .. MaxItem /\ total \in Nat
    BY ListNames, ListNumbers
  <1>5. count \in Nat /\ count <= total /\ (next <=> number * PageRows < total)
    BY <1>3, <1>4, PagesRoundUp
  <1>6. next => number < count
    OBVIOUS
  <1>7. next \in BOOLEAN
    OBVIOUS
  <1> HIDE DEF number, from, total, count, next
  <1>8. next => number + 1 \in 0 .. MaxItem + PageRows
    BY <1>3, <1>4, <1>5, <1>6
  <1>9. next <=> from + PageRows < total
    BY <1>3, <1>5
  <1>10. listing.kind \notin Lists!Anchored /\ listing.kind # "local"
    BY <1>1 DEF Lists!Anchored
  <1> QED
    BY <1>1, <1>2, <1>3, <1>7, <1>8, <1>9, <1>10, CutShows, Zenon DEF total

(* Those that continue by an offset.                                       *)
LEMMA ListsByOffset ==
    ASSUME Listed, ~listing.ended, listing.kind \notin Lists!Anchored,
           listing.kind \notin {"array", "numbered", "local"},
           NEW next \in BOOLEAN, NEW mark \in Nat,
           Lists!Shown(Lists!Slice(listing.bookmark), next, mark),
           next => mark = listing.bookmark + PageRows,
           listing.bookmark <= Cardinality(listing.items) =>
              (next <=> listing.bookmark + PageRows < Cardinality(listing.items)),
           next => mark < Cardinality(listing.items)
    PROVE  Listed'
  <1> DEFINE from == listing.bookmark
             total == Cardinality(listing.items)
  <1>1. /\ PageRows \in Nat \ {0} /\ total \in 0 .. MaxItem /\ total \in Nat /\ MaxItem \in Nat
        /\ from \in Nat
    BY ListFields, ListNames, ListNumbers
  <1>2. next => mark \in 0 .. MaxItem + PageRows
    BY <1>1
  <1>3. next => OffsetOf(listing.kind, mark) = from + PageRows
    BY DEF OffsetOf
  <1>4. from = Offset
    BY DEF Offset, OffsetOf
  <1>5. ASSUME listing.changes = 0 PROVE next <=> from + PageRows < total
    <2>0. listing.kind \notin Lists!Anchored
      OBVIOUS
    <2>1. CutShown
      BY <1>5, <2>0, Zenon DEF Listed
    <2>2. from <= total
      BY <1>4, <2>1 DEF CutShown
    <2> QED
      BY <2>2
  <1>6. Lists!Shown(Lists!Slice(from), next, mark) /\ listing.kind # "local"
    OBVIOUS
  <1> HIDE DEF from, total
  <1> QED
    BY <1>1, <1>2, <1>3, <1>4, <1>5, <1>6, CutShows, Zenon DEF total

(* One row more than the page is asked for, to know whether there is one.  *)
LEMMA OneRowMore ==
    ASSUME NEW total \in Nat, NEW from \in Nat, NEW p \in Nat \ {0}
    PROVE  Lists!Min({p + 1, Lists!Max({total - from, 0})}) > p <=> from + p < total
  <1> DEFINE rest == Lists!Max({total - from, 0})
             taken == Lists!Min({p + 1, rest})
  <1>1. rest = IF total - from >= 0 THEN total - from ELSE 0
    BY LeastOfTwo DEF Lists!Max, Most
  <1> HIDE DEF rest
  <1>2. rest \in Int
    BY <1>1
  <1>3. taken = IF p + 1 <= rest THEN p + 1 ELSE rest
    BY <1>2, LeastOfTwo DEF Lists!Min, Least
  <1> HIDE DEF taken
  <1>4. taken > p <=> from + p < total
    BY <1>1, <1>3
  <1> QED
    BY <1>4 DEF taken, rest

LEMMA ListsByTaken ==
    ASSUME Listed, Lists!TopologyPage \/ Lists!CatalogPage \/ Lists!CollectionsPage
    PROVE  Listed'
  <1> DEFINE from == listing.bookmark
             total == Cardinality(listing.items)
             mark == from + PageRows
             taken == Lists!Min({PageRows + 1, Lists!Max({total - from, 0})})
  <1>1. listing.kind \in {"topology", "catalog", "collections"} /\ ~listing.ended /\ Lists!Total = total
    BY ListNames DEF Lists!TopologyPage, Lists!CatalogPage, Lists!CollectionsPage
  <1>2. total \in Nat /\ from \in Nat /\ PageRows \in Nat \ {0}
    BY ListFields, ListNames, ListNumbers
  <1>3. taken > PageRows <=> mark < total
    BY <1>2, OneRowMore
  <1>4. \/ Lists!Shown(Lists!Slice(from), taken > PageRows, mark)
        \/ Lists!Shown(Lists!Slice(from), mark < total, mark)
    BY <1>1, Zenon DEF Lists!TopologyPage, Lists!CatalogPage, Lists!CollectionsPage
  <1>5. PICK next \in BOOLEAN : (next <=> mark < total) /\ Lists!Shown(Lists!Slice(from), next, mark)
    <2> HIDE DEF taken, mark, from, total
    <2>1. (taken > PageRows) \in BOOLEAN /\ (mark < total) \in BOOLEAN
      OBVIOUS
    <2> QED
      BY <1>3, <1>4, <2>1, Zenon
  <1>6. mark \in Nat
    BY <1>2
  <1>7. listing.kind \notin Lists!Anchored /\ listing.kind \notin {"array", "numbered", "local"}
    BY <1>1 DEF Lists!Anchored
  <1>8. mark = from + PageRows
    OBVIOUS
  <1> HIDE DEF mark
  <1>9. /\ next => mark = listing.bookmark + PageRows
        /\ next <=> listing.bookmark + PageRows < Cardinality(listing.items)
        /\ next => mark < Cardinality(listing.items)
        /\ Lists!Shown(Lists!Slice(listing.bookmark), next, mark)
    BY <1>5, <1>8
  <1> HIDE DEF from, total
  <1> QED
    BY <1>1, <1>6, <1>7, <1>9, ListsByOffset, Zenon

(* The next bookmark is behind the rows of this page.                      *)
LEMMA ListsByRows ==
    ASSUME Listed, ~listing.ended,
           listing.kind \in Lists!KafkaKind \union {"consumers"},
           LET mark == listing.bookmark + Len(Lists!Slice(listing.bookmark)) IN
           Lists!Shown(Lists!Slice(listing.bookmark), mark < Lists!Total, mark)
    PROVE  Listed'
  <1> DEFINE from == listing.bookmark
             total == Cardinality(listing.items)
             size == Len(Lists!Slice(from))
             mark == from + size
             next == mark < total
  <1>1. total \in Nat /\ from \in Nat /\ PageRows \in Nat \ {0} /\ Lists!Total = total
    BY ListFields, ListNames, ListNumbers
  <1>2. Lists!Shown(Lists!Slice(from), next, mark)
    BY <1>1, Zenon
  <1>3. size = IF from <= total THEN (IF from + PageRows <= total THEN from + PageRows ELSE total) - from ELSE 0
    BY <1>1, SliceRows, Zenon
  <1>4. listing.kind \notin Lists!Anchored /\ listing.kind \notin {"array", "numbered", "local"}
    BY DEF Lists!Anchored, Lists!KafkaKind
  <1> HIDE DEF size
  <1>5. mark \in Nat /\ (next => mark = from + PageRows)
        /\ (from <= total => (next <=> from + PageRows < total)) /\ (next => mark < total)
    BY <1>1, <1>3
  <1>6. next \in BOOLEAN
    OBVIOUS
  <1> HIDE DEF mark, next
  <1> QED
    BY <1>2, <1>4, <1>5, <1>6, ListsByOffset, Zenon

LEMMA ListsByLocal ==
    ASSUME Listed, Lists!LocalPage
    PROVE  Listed'
  <1> DEFINE rows == Lists!All
             next == FALSE
  <1>1. listing.kind = "local" /\ ~listing.ended
    BY DEF Lists!LocalPage, Lists!Is
  <1>2. rows = Sorted(listing.items) /\ rows \in Seq(Lists!Item)
    BY ListNames
  <1>3. next \in BOOLEAN /\ ~next /\ Lists!Shown(rows, next, 0)
    BY DEF Lists!LocalPage
  <1> HIDE DEF rows, next
  <1>4. /\ listing' \in ListingRecord
        /\ listing'.kind = listing.kind /\ listing'.items = listing.items
        /\ listing'.steady = listing.steady /\ listing'.changes = listing.changes
        /\ listing'.shown = listing.shown \o rows /\ listing'.ended = ~next
        /\ listing'.bookmark = IF next THEN 0 ELSE 0
    BY <1>2, <1>3, ListShows
  <1>5. listing.kind \notin Lists!Anchored
    BY <1>1 DEF Lists!Anchored
  <1>6. ASSUME listing.changes = 0 PROVE CutShown'
    <2>1. CutShown /\ listing.bookmark = 0
      BY <1>1, <1>5, <1>6 DEF Listed
    <2>2. Offset = 0
      BY <1>1, <2>1 DEF Offset, OffsetOf
    <2>3. listing.shown = SubSeq(Sorted(listing.items), 1, 0)
      BY <1>1, <2>1, <2>2 DEF CutShown
    <2>4. SubSeq(Sorted(listing.items), 1, 0) = <<>>
      BY <1>2, SubSeqEmpty
    <2>5. listing'.shown = rows
      BY <1>2, <1>4, <2>3, <2>4
    <2> QED
      BY <1>2, <1>3, <1>4, <2>5 DEF CutShown
  <1> QED
    BY <1>3, <1>4, <1>5, <1>6 DEF Listed

(* The place is that of the last row, or the old one without a row.        *)
LEMMA AnchorAtLast ==
    ASSUME Listed, ~listing.ended, listing.kind \in {"driver", "names"},
           NEW rest, rest = listing.items \ Behind, NEW n \in 0 .. Cardinality(rest),
           NEW rows, rows = SubSeq(Sorted(rest), 1, n), NEW mark,
           NEW next \in BOOLEAN, next <=> n < Cardinality(rest), Lists!Shown(rows, next, mark),
           next => IF n = 0 THEN mark = listing.bookmark ELSE mark = rows[n]
    PROVE  Listed'
  <1>1. listing.kind \in Lists!Anchored /\ listing.kind # "scroll"
    BY DEF Lists!Anchored
  <1>2. /\ listing.items \in SUBSET Lists!Item /\ listing.bookmark \in 0 .. MaxItem + PageRows
        /\ listing.bookmark \in Nat
    BY ListFields
  <1>3. rest \in SUBSET Lists!Item /\ rest \in SUBSET Nat /\ IsFiniteSet(rest)
    <2>1. rest \in SUBSET Lists!Item
      BY <1>2
    <2> QED
      BY <2>1, ItemSets
  <1>4. Proceeds(rows, rest, n)
    BY <1>3, PageProceeds
  <1>5. rows \in Seq(rest) /\ Len(rows) = n /\ DOMAIN rows = 1 .. n /\ n \in Nat
    <2>1. rows \in Seq(rest) /\ Len(rows) = n
      BY <1>4 DEF Proceeds
    <2>2. Cardinality(rest) \in Nat
      BY <1>3, FS_CardinalityType
    <2> QED
      BY <2>1, <2>2, LenProperties
  <1>6. ASSUME next, n = 0
        PROVE  /\ mark \in 0 .. MaxItem + PageRows
               /\ Behind \subseteq BehindOf(listing.kind, mark)
               /\ Elements(rows) \subseteq BehindOf(listing.kind, mark)
               /\ rest \intersect BehindOf(listing.kind, mark) \subseteq Elements(rows)
    <2>1. mark = listing.bookmark /\ BehindOf(listing.kind, mark) = Behind
      BY <1>6 DEF Behind
    <2>2. Elements(rows) = {}
      BY <1>5, <1>6 DEF Elements
    <2> QED
      BY <1>2, <2>1, <2>2
  <1>7. ASSUME next, n # 0
        PROVE  /\ mark \in 0 .. MaxItem + PageRows
               /\ Behind \subseteq BehindOf(listing.kind, mark)
               /\ Elements(rows) \subseteq BehindOf(listing.kind, mark)
               /\ rest \intersect BehindOf(listing.kind, mark) \subseteq Elements(rows)
    <2>1. mark = rows[n] /\ n > 0
      BY <1>5, <1>7
    <2>2. /\ mark \in rest /\ \A k \in 1 .. n : rows[k] <= mark
          /\ {x \in rest : x <= mark} \subseteq Elements(rows)
      BY <1>4, <2>1 DEF Proceeds
    <2>3. \A k \in 1 .. n : rows[k] \in Lists!Item
      BY <1>3, <1>5, ElementOfSeq
    <2>4. BehindOf(listing.kind, mark) = {x \in Lists!Item : x <= mark}
          /\ Behind = {x \in Lists!Item : x <= listing.bookmark}
      BY <1>1 DEF Behind, BehindOf
    <2>5. mark \in Lists!Item /\ ~(mark <= listing.bookmark)
      BY <1>3, <2>2, <2>4
    <2>6. mark \in Nat /\ mark \in 0 .. MaxItem + PageRows /\ \A x \in Lists!Item : x \in Nat
      BY <2>5, ListNumbers
    <2>7. \A x \in Behind : x \in BehindOf(listing.kind, mark)
      BY <1>2, <2>4, <2>5, <2>6
    <2>8. Elements(rows) \subseteq BehindOf(listing.kind, mark)
      BY <1>5, <2>2, <2>3, <2>4 DEF Elements
    <2>9. rest \intersect BehindOf(listing.kind, mark) \subseteq Elements(rows)
      BY <2>2, <2>4
    <2> QED
      BY <2>6, <2>7, <2>8, <2>9
  <1> QED
    BY <1>1, <1>6, <1>7, AnchorShows

LEMMA ListsByDriver ==
    ASSUME Listed, Lists!DriverPage
    PROVE  Listed'
  <1> DEFINE rest == listing.items \ Behind
             s == Sorted(rest)
  <1>1. listing.kind = "driver" /\ ~listing.ended
    BY Zenon DEF Lists!DriverPage, Lists!Is
  <1>2. listing.items \in SUBSET Lists!Item /\ listing.bookmark \in Nat /\ \A x \in Lists!Item : x \in Nat
    BY ListFields, ListNumbers
  <1>3. Lists!After = rest
    BY <1>1, <1>2 DEF Lists!After, Behind, BehindOf
  <1> HIDE DEF rest
  <1>4. rest \in SUBSET Lists!Item
    BY <1>2 DEF rest
  <1>5. Lists!InOrder(Lists!After, <) = s /\ Lists!Cardinality(Lists!After) = Cardinality(rest)
    BY <1>3, <1>4, ItemsInOrder, ItemSets, Zenon
  <1>6. PICK count \in 0 .. Lists!Min({PageRows, Cardinality(rest)}) :
           Lists!Shown(SubSeq(s, 1, count), count < Cardinality(rest),
                       IF count = 0 THEN listing.bookmark ELSE SubSeq(s, 1, count)[Len(SubSeq(s, 1, count))])
    BY <1>5, Zenon DEF Lists!DriverPage
  <1>7. Cardinality(rest) \in Nat /\ s \in Seq(rest) /\ Len(s) = Cardinality(rest)
        /\ PageRows \in Nat \ {0}
    BY <1>4, ItemSets, ListNumbers
  <1>8. count \in 0 .. Cardinality(rest)
    <2>1. Lists!Min({PageRows, Cardinality(rest)})
            = IF PageRows <= Cardinality(rest) THEN PageRows ELSE Cardinality(rest)
      BY <1>7, LeastOfTwo DEF Lists!Min, Least
    <2>2. count \in 0 .. (IF PageRows <= Cardinality(rest) THEN PageRows ELSE Cardinality(rest))
      BY <1>6, <2>1, Zenon
    <2> QED
      BY <1>7, <2>2
  <1> DEFINE rows == SubSeq(s, 1, count)
             next == count < Cardinality(rest)
             mark == IF count = 0 THEN listing.bookmark ELSE rows[Len(rows)]
  <1>9. Len(rows) = count
    BY <1>7, <1>8, FirstOf
  <1>10. IF count = 0 THEN mark = listing.bookmark ELSE mark = rows[count]
    BY <1>9
  <1>11. next \in BOOLEAN /\ (next <=> count < Cardinality(rest)) /\ Lists!Shown(rows, next, mark)
    BY <1>6
  <1>12. rows = SubSeq(Sorted(rest), 1, count) /\ rest = listing.items \ Behind
    BY DEF rest
  <1> HIDE DEF rows, next, mark
  <1> QED
    BY <1>1, <1>8, <1>10, <1>11, <1>12, AnchorAtLast

(* A full page, or what there is.                                          *)
LEMMA FullPage ==
    ASSUME NEW rest, rest \in SUBSET Lists!Item
    PROVE  LET n == Lists!Min({PageRows, Len(Sorted(rest))}) IN
           /\ n \in 0 .. Cardinality(rest) /\ (Len(Sorted(rest)) > PageRows <=> n < Cardinality(rest))
           /\ n < Cardinality(rest) => n = PageRows /\ n > 0
  <1> DEFINE size == Cardinality(rest)
  <1>1. size \in Nat /\ Len(Sorted(rest)) = size /\ PageRows \in Nat \ {0}
    BY ItemSets, ListNumbers
  <1>2. Lists!Min({PageRows, size}) = IF PageRows <= size THEN PageRows ELSE size
    BY <1>1, LeastOfTwo DEF Lists!Min, Least
  <1> HIDE DEF size
  <1> DEFINE n == Lists!Min({PageRows, size})
  <1>3. n \in 0 .. size /\ (size > PageRows <=> n < size) /\ (n < size => n = PageRows /\ n > 0)
    BY <1>1, <1>2
  <1> HIDE DEF n
  <1> QED
    BY <1>1, <1>3, Zenon DEF n, size

LEMMA ListsByNames ==
    ASSUME Listed, Lists!NamesPage
    PROVE  Listed'
  <1> DEFINE rest == listing.items \ Behind
             s == Sorted(rest)
             n == Lists!Min({PageRows, Len(s)})
             rows == SubSeq(s, 1, n)
             next == Len(s) > PageRows
             mark == IF rows = <<>> THEN 0 ELSE rows[Len(rows)]
  <1>1. listing.kind = "names" /\ ~listing.ended
    BY Zenon DEF Lists!NamesPage, Lists!Is
  <1>2. listing.items \in SUBSET Lists!Item /\ listing.bookmark \in Nat /\ \A x \in Lists!Item : x \in Nat
    BY ListFields, ListNumbers
  <1>3. Lists!NamesFrom = rest
    BY <1>1, <1>2 DEF Lists!NamesFrom, Behind, BehindOf
  <1> HIDE DEF rest
  <1>4. rest \in SUBSET Lists!Item
    BY <1>2 DEF rest
  <1>5. Lists!InOrder(Lists!NamesFrom, <) = s
    BY <1>3, <1>4, ItemsInOrder, Zenon
  <1>6. Lists!Shown(rows, next, mark)
    BY <1>5, Zenon DEF Lists!NamesPage
  <1>7. n \in 0 .. Cardinality(rest) /\ (next <=> n < Cardinality(rest)) /\ (next => n > 0)
    BY <1>4, FullPage, Zenon
  <1>8. s \in Seq(rest) /\ Len(s) = Cardinality(rest)
    BY <1>4, ItemSets
  <1>9. Len(rows) = n
    BY <1>7, <1>8, FirstOf
  <1>10. next => n # 0 /\ mark = rows[n]
    <2> HIDE DEF n, s
    <2>1. next => n # 0 /\ rows # <<>>
      <3>1. next => n # 0
        BY <1>7
      <3>2. Len(<<>>) = 0
        OBVIOUS
      <3> QED
        BY <1>9, <3>1, <3>2, Zenon
    <2> QED
      BY <1>9, <2>1
  <1>11. next \in BOOLEAN /\ rows = SubSeq(Sorted(rest), 1, n) /\ rest = listing.items \ Behind
    BY DEF rest
  <1> HIDE DEF rows, next, mark, n
  <1> QED
    BY <1>1, <1>6, <1>7, <1>10, <1>11, AnchorAtLast

LEMMA ListsByScroll ==
    ASSUME Listed, Lists!ScrollPage
    PROVE  Listed'
  <1> DEFINE rest == listing.items \ Behind
             s == Sorted(rest)
             n == Lists!Min({PageRows, Len(s)})
             rows == SubSeq(s, 1, n)
             next == Len(s) > PageRows
             mark == IF next THEN s[PageRows + 1] ELSE 0
  <1>1. listing.kind = "scroll" /\ ~listing.ended
    BY Zenon DEF Lists!ScrollPage, Lists!Is
  <1>2. listing.items \in SUBSET Lists!Item /\ listing.bookmark \in Nat /\ \A x \in Lists!Item : x \in Nat
    BY ListFields, ListNumbers
  <1>3. Lists!From = rest
    BY <1>1, <1>2 DEF Lists!From, Behind, BehindOf
  <1> HIDE DEF rest
  <1>4. rest \in SUBSET Lists!Item
    BY <1>2 DEF rest
  <1>5. Lists!InOrder(Lists!From, <) = s
    BY <1>3, <1>4, ItemsInOrder, Zenon
  <1>6. Lists!Shown(rows, next, mark)
    BY <1>5, Zenon DEF Lists!ScrollPage
  <1>7. n \in 0 .. Cardinality(rest) /\ (next <=> n < Cardinality(rest))
        /\ (n < Cardinality(rest) => n = PageRows)
    BY <1>4, FullPage, Zenon
  <1>8. rest \in SUBSET Nat /\ IsFiniteSet(rest)
    BY <1>4, ItemSets
  <1>9. Proceeds(rows, rest, n)
    BY <1>7, <1>8, PageProceeds
  <1>10. rows \in Seq(rest) /\ Len(rows) = n /\ DOMAIN rows = 1 .. n
    <2>1. rows \in Seq(rest) /\ Len(rows) = n
      BY <1>9 DEF Proceeds
    <2> QED
      BY <2>1, LenProperties
  <1>11. next => mark = s[n + 1]
    <2> HIDE DEF n, s
    <2> QED
      BY <1>7
  <1>12. next \in BOOLEAN /\ rows = SubSeq(Sorted(rest), 1, n) /\ rest = listing.items \ Behind
    BY DEF rest
  <1> HIDE DEF rows, next, n
  <1>13. ASSUME next
         PROVE  /\ mark \in 0 .. MaxItem + PageRows
                /\ Behind \subseteq BehindOf(listing.kind, mark)
                /\ Elements(rows) \subseteq BehindOf(listing.kind, mark)
                /\ rest \intersect BehindOf(listing.kind, mark) \subseteq Elements(rows)
    <2>1. mark = s[n + 1]
      BY <1>11, <1>13
    <2> HIDE DEF mark
    <2>2. /\ mark \in rest /\ \A k \in 1 .. n : rows[k] < mark
          /\ {x \in rest : x < mark} \subseteq Elements(rows)
      BY <1>7, <1>9, <1>13, <2>1 DEF Proceeds
    <2>3. \A k \in 1 .. n : rows[k] \in Lists!Item
      BY <1>4, <1>10, ElementOfSeq
    <2>4. BehindOf(listing.kind, mark) = {x \in Lists!Item : x < mark}
          /\ Behind = {x \in Lists!Item : x < listing.bookmark}
      BY <1>1 DEF Behind, BehindOf
    <2>5. mark \in Lists!Item /\ ~(mark < listing.bookmark)
      BY <1>4, <1>12, <2>2, <2>4
    <2>6. mark \in Nat /\ mark \in 0 .. MaxItem + PageRows
      BY <2>5, ListNumbers
    <2>7. \A x \in Behind : x \in BehindOf(listing.kind, mark)
      <3> SUFFICES ASSUME NEW x \in Behind PROVE x \in BehindOf(listing.kind, mark)
        OBVIOUS
      <3>1. x \in Lists!Item /\ x \in Nat /\ x < listing.bookmark
        BY <1>2, <2>4
      <3>2. x < mark
        BY <1>2, <2>5, <2>6, <3>1
      <3> QED
        BY <2>4, <3>1, <3>2
    <2>8. Elements(rows) \subseteq BehindOf(listing.kind, mark)
      BY <1>10, <2>2, <2>3, <2>4 DEF Elements
    <2>9. rest \intersect BehindOf(listing.kind, mark) \subseteq Elements(rows)
      BY <2>2, <2>4
    <2> QED
      BY <2>6, <2>7, <2>8, <2>9
  <1>14. listing.kind \in Lists!Anchored
    BY <1>1 DEF Lists!Anchored
  <1> HIDE DEF mark
  <1> QED
    BY <1>1, <1>6, <1>7, <1>12, <1>13, <1>14, AnchorShows

(* An entry that comes or goes is no longer one that was there all the     *)
(* time, and what is cut by an offset is held to nothing any more.         *)
LEMMA ListsByChange ==
    ASSUME Listed, Lists!Change
    PROVE  Listed'
  <1>1. PICK i \in Lists!Item :
           listing' = [listing EXCEPT !.changes = @ + 1, !.steady = @ \ {i},
                                      !.items = IF i \in @ THEN @ \ {i} ELSE @ \union {i}]
    BY Zenon DEF Lists!Change
  <1>2. listing \in ListingRecord
    BY DEF Listed
  <1> DEFINE changes == listing.changes + 1
             steady == listing.steady \ {i}
             items == IF i \in listing.items THEN listing.items \ {i} ELSE listing.items \union {i}
  <1>3. /\ listing'.changes = changes /\ listing'.steady = steady /\ listing'.items = items
        /\ listing'.kind = listing.kind /\ listing'.bookmark = listing.bookmark
        /\ listing'.shown = listing.shown /\ listing'.ended = listing.ended
    BY <1>1, <1>2 DEF ListingRecord
  <1>4. changes \in Nat /\ changes # 0 /\ steady \in SUBSET Lists!Item /\ items \in SUBSET Lists!Item
        /\ steady \subseteq items /\ steady \subseteq listing.steady
    BY <1>1, ListFields DEF Listed
  <1>5. listing' = [listing EXCEPT !.changes = changes, !.steady = steady, !.items = items]
    BY <1>1
  <1> HIDE DEF changes, steady, items
  <1>6. listing' \in ListingRecord
    BY <1>2, <1>4, <1>5 DEF ListingRecord
  <1>7. listing.kind \in Lists!Anchored => AnchorShown'
    <2> SUFFICES ASSUME listing.kind \in Lists!Anchored PROVE AnchorShown'
      OBVIOUS
    <2>1. AnchorShown
      BY DEF Listed
    <2>2. Behind' = Behind
      BY <1>3 DEF Behind
    <2> QED
      BY <1>3, <1>4, <2>1, <2>2 DEF AnchorShown
  <1>8. listing.kind = "local" => listing.bookmark = 0
    BY DEF Listed
  <1> QED
    BY <1>3, <1>4, <1>6, <1>7, <1>8 DEF Listed

LEMMA ListsUnchanged ==
    ASSUME Listed, listing' = listing
    PROVE  Listed'
  BY DEF Listed, AnchorShown, CutShown, Behind, Offset

LEMMA ListingStep ==
    ASSUME Listed, [Lists!Next]_listing
    PROVE  Listed'
  <1>1. CASE Lists!ArrayPage
    BY <1>1, ListsByArray
  <1>2. CASE Lists!NumberedPage
    BY <1>2, ListsByNumber
  <1>3. CASE Lists!CollectionsPage \/ Lists!TopologyPage \/ Lists!CatalogPage
    BY <1>3, ListsByTaken
  <1>4. CASE Lists!ScrollPage
    BY <1>4, ListsByScroll
  <1>5. CASE Lists!DriverPage
    BY <1>5, ListsByDriver
  <1>6. CASE Lists!KafkaMetadataPage \/ Lists!KafkaGroupPage \/ Lists!KafkaConfigPage
             \/ Lists!KafkaOffsetPage
    <2>1. listing.kind \in {"metadata", "groups", "configs", "offsets"} /\ ~listing.ended
      BY <1>6, Zenon DEF Lists!KafkaMetadataPage, Lists!KafkaGroupPage, Lists!KafkaConfigPage,
                  Lists!KafkaOffsetPage, Lists!Is
    <2>2. Lists!SortedPage(Lists!Slice(listing.bookmark))
      BY <1>6, Zenon DEF Lists!KafkaMetadataPage, Lists!KafkaGroupPage, Lists!KafkaConfigPage,
                  Lists!KafkaOffsetPage
    <2>3. LET mark == listing.bookmark + Len(Lists!Slice(listing.bookmark)) IN
          Lists!Shown(Lists!Slice(listing.bookmark), mark < Lists!Total, mark)
      BY <2>2, Zenon DEF Lists!SortedPage
    <2>4. listing.kind \in Lists!KafkaKind \union {"consumers"}
      BY <2>1 DEF Lists!KafkaKind
    <2> QED
      BY <2>1, <2>3, <2>4, ListsByRows, Zenon
  <1>7. CASE Lists!ConsumersPage
    <2>1. listing.kind = "consumers" /\ ~listing.ended
      BY <1>7, Zenon DEF Lists!ConsumersPage, Lists!Is
    <2>2. LET mark == listing.bookmark + Len(Lists!Slice(listing.bookmark)) IN
          Lists!Shown(Lists!Slice(listing.bookmark), mark < Lists!Total, mark)
      BY <1>7, Zenon DEF Lists!ConsumersPage
    <2>3. listing.kind \in Lists!KafkaKind \union {"consumers"}
      BY <2>1
    <2> QED
      BY <2>1, <2>2, <2>3, ListsByRows, Zenon
  <1>8. CASE Lists!LocalPage
    BY <1>8, ListsByLocal
  <1>9. CASE Lists!NamesPage
    BY <1>9, ListsByNames
  <1>10. CASE Lists!Change
    BY <1>10, ListsByChange
  <1>11. CASE \/ Lists!NumberedGone \/ Lists!CatalogRefused \/ Lists!KafkaRefused \/ Lists!Done
              \/ UNCHANGED listing
    <2>1. listing' = listing
      BY <1>11, Zenon DEF Lists!NumberedGone, Lists!CatalogRefused, Lists!KafkaRefused, Lists!Done
    <2> QED
      BY <2>1, ListsUnchanged
  <1> QED
    BY <1>1, <1>2, <1>3, <1>4, <1>5, <1>6, <1>7, <1>8, <1>9, <1>10, <1>11, Zenon DEF Lists!Next

LEMMA ListingStart ==
    ASSUME Lists!Init
    PROVE  Listed
  <1>1. PICK kind \in Lists!Kind, items \in SUBSET Lists!Item :
           listing = [kind |-> kind, items |-> items, steady |-> items, bookmark |-> 0,
                      shown |-> <<>>, ended |-> FALSE, changes |-> 0]
    BY Zenon DEF Lists!Init
  <1>2. /\ listing.kind = kind /\ listing.items = items /\ listing.steady = items
        /\ listing.bookmark = 0 /\ listing.shown = <<>> /\ ~listing.ended /\ listing.changes = 0
    BY <1>1
  <1>3. listing \in ListingRecord
    BY <1>1, ListNumbers DEF ListingRecord
  <1>4. listing.items \in SUBSET Lists!Item /\ \A x \in Lists!Item : x \in Nat /\ x > 0
    BY <1>2, ListNumbers
  <1>5. CutShown
    <2>1. Offset = 0
      BY <1>2 DEF Offset, OffsetOf
    <2>2. Cardinality(listing.items) \in Nat
      BY <1>4, ItemSets
    <2>3. SubSeq(Sorted(listing.items), 1, 0) = <<>>
      BY SubSeqEmpty
    <2> QED
      BY <1>2, <2>1, <2>2, <2>3 DEF CutShown
  <1>6. AnchorShown
    <2>1. Ascends(<<>>) /\ Elements(<<>>) = {}
      BY DEF Ascends, Elements
    <2>2. Behind = {}
      BY <1>2, <1>4 DEF Behind, BehindOf
    <2> QED
      BY <1>2, <2>1, <2>2 DEF AnchorShown
  <1> QED
    BY <1>2, <1>3, <1>4, <1>5, <1>6 DEF Listed

LEMMA ListingComplete ==
    ASSUME Listed
    PROVE  Lists!TypeOK /\ Lists!PagesComplete
  <1>1. Lists!TypeOK
    BY ListFields DEF Lists!TypeOK
  <1>2. /\ listing.shown \in Seq(Lists!Item) /\ DOMAIN listing.shown = 1 .. Len(listing.shown)
        /\ Lists!Item \in SUBSET Nat /\ listing.items \in SUBSET Lists!Item
    BY ListFields, ListNumbers, LenProperties
  <1>3. Lists!Range(listing.shown) = Elements(listing.shown)
    BY DEF Lists!Range, Elements
  <1>4. ASSUME listing.ended, listing.changes = 0 PROVE listing.shown = Sorted(listing.items)
    <2>1. CASE listing.kind \in Lists!Anchored
      <3>1. AnchorShown /\ listing.steady = listing.items
        BY <1>4, <2>1 DEF Listed
      <3>2. Ascends(listing.shown) /\ Elements(listing.shown) = listing.items
        BY <1>4, <3>1 DEF AnchorShown
      <3>3. listing.items \in SUBSET Nat /\ IsFiniteSet(listing.items)
        BY <1>2, ItemSets
      <3>4. listing.shown \in Seq(listing.items)
        <4>1. \A k \in 1 .. Len(listing.shown) : listing.shown[k] \in listing.items
          BY <1>2, <3>2 DEF Elements
        <4> QED
          BY <1>2, <4>1, SeqDef
      <3> QED
        BY <3>2, <3>3, <3>4, SortedUnique
    <2>2. CASE listing.kind \notin Lists!Anchored
      BY <1>4, <2>2 DEF Listed, CutShown
    <2> QED
      BY <2>1, <2>2
  <1>5. ASSUME listing.kind \in Lists!Anchored
        PROVE  /\ Lists!IsInjective(listing.shown)
               /\ listing.ended => listing.steady \subseteq Elements(listing.shown)
    <2>1. AnchorShown
      BY <1>5 DEF Listed
    <2>2. \A i, j \in 1 .. Len(listing.shown) : i < j => listing.shown[i] < listing.shown[j]
      BY <2>1 DEF AnchorShown, Ascends
    <2>3. \A i \in 1 .. Len(listing.shown) : listing.shown[i] \in Nat
      BY <1>2, ElementOfSeq
    <2>4. Len(listing.shown) \in Nat
      BY <1>2, LenProperties
    <2>5. ASSUME NEW i \in 1 .. Len(listing.shown), NEW j \in 1 .. Len(listing.shown),
                 listing.shown[i] = listing.shown[j]
          PROVE  i = j
      <3>1. ~(i < j) /\ ~(j < i)
        BY <2>2, <2>3, <2>5
      <3> QED
        BY <2>4, <3>1
    <2> QED
      BY <1>2, <2>1, <2>5 DEF Lists!IsInjective, AnchorShown
  <1>6. Lists!All = Sorted(listing.items)
    BY ListNames
  <1> QED
    BY <1>1, <1>3, <1>4, <1>5, <1>6, Zenon DEF Lists!PagesComplete
-----------------------------------------------------------------------------
(* PostgreSQL *)

RelCursor == [version : Nat, index : {0, 1, 2}, value : 0 .. MaxRow, offset : 0 .. MaxRow]
RelRecord ==
    [version : Nat \ {0}, indexes : SUBSET PostgresRelation!Index,
     flaws : [PostgresRelation!Index -> SUBSET PostgresRelation!Flaw],
     rows : SUBSET PostgresRelation!RowId, large : SUBSET PostgresRelation!RowId,
     steady : SUBSET PostgresRelation!RowId, cursor : RelCursor,
     shown : Seq(PostgresRelation!RowId), by : {0, 1, 2}, ended : BOOLEAN, changes : Nat]

(* The key of a row by an index that gives each its own, and its place in  *)
(* the heap where there is none.                                           *)
Keyed(index, i) == IF index = 2 THEN MaxRow + 1 - i ELSE i

(* Without a key: what was read is the beginning of what there is.         *)
HeapShown ==
    IF rel.ended THEN rel.shown = Sorted(rel.rows)
    ELSE /\ rel.cursor.offset <= Cardinality(rel.rows)
         /\ rel.shown = SubSeq(Sorted(rel.rows), 1, rel.cursor.offset)

(* By a key: what was there all the time, up to the last key, was shown.   *)
KeysShown ==
    /\ rel.flaws[rel.by] = {}
    /\ \A i, k \in 1 .. Len(rel.shown) :
          i < k => Keyed(rel.by, rel.shown[i]) < Keyed(rel.by, rel.shown[k])
    /\ rel.changes = 0 => Elements(rel.shown) \subseteq rel.rows
    /\ IF rel.ended THEN rel.steady \subseteq Elements(rel.shown)
       ELSE /\ rel.cursor.offset <= rel.cursor.value
            /\ \A i \in Elements(rel.shown) : Keyed(rel.by, i) <= rel.cursor.value
            /\ {i \in rel.steady : Keyed(rel.by, i) <= rel.cursor.value} \subseteq Elements(rel.shown)

Related ==
    /\ rel \in RelRecord
    /\ rel.steady \subseteq rel.rows
    /\ rel.changes = 0 => rel.steady = rel.rows
    /\ ~rel.ended => IF rel.cursor = PostgresRelation!NoCursor THEN rel.shown = <<>> /\ rel.by = 0
                     ELSE rel.cursor.index = rel.by
    /\ rel.by = 0 /\ rel.changes = 0 => HeapShown
    /\ rel.by # 0 => KeysShown

LEMMA RelNumbers ==
    /\ PageRows \in Nat \ {0} /\ MaxRow \in Nat /\ PostgresRelation!RowId = 1 .. MaxRow
    /\ PostgresRelation!RowId \in SUBSET Nat /\ PostgresRelation!Index = {1, 2}
  <1>1. PageRows \in Nat \ {0} /\ MaxRow \in Nat
    BY PagesAssumption
  <1> QED
    BY <1>1 DEF PostgresRelation!RowId, PostgresRelation!Index

LEMMA RowSets ==
    ASSUME NEW T, T \in SUBSET PostgresRelation!RowId
    PROVE  /\ T \in SUBSET Nat /\ IsFiniteSet(T) /\ Cardinality(T) \in 0 .. MaxRow
           /\ Cardinality(T) \in Nat
  <1>1. 1 \in Int /\ MaxRow \in Int /\ MaxRow \in Nat
    BY RelNumbers
  <1>2. IsFiniteSet(1 .. MaxRow) /\ Cardinality(1 .. MaxRow) = IF 1 > MaxRow THEN 0 ELSE MaxRow - 1 + 1
    BY <1>1, FS_Interval
  <1>3. Cardinality(1 .. MaxRow) = MaxRow
    BY <1>1, <1>2
  <1>4. T \subseteq 1 .. MaxRow
    BY RelNumbers
  <1>5. IsFiniteSet(T) /\ Cardinality(T) <= Cardinality(1 .. MaxRow)
    BY <1>2, <1>4, FS_Subset
  <1>6. Cardinality(T) \in Nat
    BY <1>5, FS_CardinalityType
  <1> QED
    BY <1>1, <1>3, <1>4, <1>5, <1>6

LEMMA RelFields ==
    ASSUME Related
    PROVE  /\ rel.version \in Nat \ {0} /\ rel.indexes \in SUBSET {1, 2}
           /\ rel.flaws \in [{1, 2} -> SUBSET PostgresRelation!Flaw]
           /\ rel.rows \in SUBSET PostgresRelation!RowId
           /\ rel.steady \in SUBSET PostgresRelation!RowId
           /\ rel.shown \in Seq(PostgresRelation!RowId) /\ rel.by \in {0, 1, 2}
           /\ rel.ended \in BOOLEAN /\ rel.changes \in Nat
           /\ rel.cursor \in RelCursor /\ rel.cursor.index \in {0, 1, 2}
           /\ rel.cursor.value \in 0 .. MaxRow /\ rel.cursor.offset \in 0 .. MaxRow
           /\ rel.cursor.value \in Nat /\ rel.cursor.offset \in Nat
  <1>1. rel \in RelRecord
    BY DEF Related
  <1>2. rel.cursor \in RelCursor
    BY <1>1 DEF RelRecord
  <1>3. rel.cursor.value \in 0 .. MaxRow /\ rel.cursor.offset \in 0 .. MaxRow /\ rel.cursor.index \in {0, 1, 2}
    BY <1>2 DEF RelCursor
  <1> QED
    BY <1>1, <1>2, <1>3, RelNumbers DEF RelRecord

LEMMA KeysInRange ==
    ASSUME NEW index, NEW i \in PostgresRelation!RowId
    PROVE  Keyed(index, i) \in 1 .. MaxRow /\ Keyed(index, i) \in Nat /\ Keyed(index, i) > 0
  BY RelNumbers DEF Keyed

(* The index that is chosen gives every row a key of its own.              *)
LEMMA ChosenIndex ==
    ASSUME Related
    PROVE  /\ PostgresRelation!Chosen \in {0, 1, 2}
           /\ PostgresRelation!Chosen # 0 =>
                 /\ rel.flaws[PostgresRelation!Chosen] = {}
                 /\ \A i : PostgresRelation!Key(PostgresRelation!Chosen, i)
                              = Keyed(PostgresRelation!Chosen, i)
  <1> DEFINE U == PostgresRelation!Usable
             c == PostgresRelation!Chosen
  <1>1. U \in SUBSET Nat /\ U \in SUBSET {1, 2} /\ \A x \in U : rel.flaws[x] = {}
    BY RelFields DEF PostgresRelation!Usable
  <1>2. c = IF U = {} THEN 0 ELSE PostgresRelation!Min(U)
    BY DEF PostgresRelation!Chosen, PostgresRelation!NoIndex
  <1> HIDE DEF U, c
  <1>3. U # {} => PostgresRelation!Min(U) \in U
    <2> SUFFICES ASSUME U # {} PROVE PostgresRelation!Min(U) \in U
      OBVIOUS
    <2>1. \E x \in U : \A y \in U : x <= y
      BY <1>1, LeastOf
    <2> QED
      BY <2>1 DEF PostgresRelation!Min
  <1>4. c \in {0, 1, 2} /\ (c # 0 => rel.flaws[c] = {} /\ c \in {1, 2})
    BY <1>1, <1>2, <1>3
  <1>5. ASSUME c # 0, NEW i PROVE PostgresRelation!Key(c, i) = Keyed(c, i)
    <2>1. rel.flaws[c] = {} /\ c \in {1, 2}
      BY <1>4, <1>5
    <2>2. PostgresRelation!KeyOf(c, {}, i) = IF c = 1 THEN i ELSE MaxRow + 1 - i
      BY DEF PostgresRelation!KeyOf
    <2> QED
      BY <2>1, <2>2 DEF PostgresRelation!Key, Keyed
  <1> QED
    BY <1>4, <1>5 DEF c

LEMMA RowsCompared ==
    ASSUME Related, NEW i \in PostgresRelation!RowId, NEW k \in PostgresRelation!RowId
    PROVE  PostgresRelation!Before(i, k)
              <=> Keyed(PostgresRelation!Chosen, i) < Keyed(PostgresRelation!Chosen, k)
  <1> DEFINE c == PostgresRelation!Chosen
             a == Keyed(c, i)
             b == Keyed(c, k)
  <1>1. i \in Nat /\ k \in Nat /\ i \in 1 .. MaxRow /\ k \in 1 .. MaxRow /\ MaxRow \in Nat
    BY RelNumbers
  <1>2. c \in {0, 1, 2}
    BY ChosenIndex
  <1>3. c # 0 => PostgresRelation!Key(c, i) = a /\ PostgresRelation!Key(c, k) = b
    BY ChosenIndex
  <1>4. a \in Nat /\ a > 0 /\ b \in Nat /\ b > 0
    BY KeysInRange
  <1>5. a = b => i = k
    BY <1>1 DEF Keyed
  <1>6. c = 0 => a = i /\ b = k
    BY DEF Keyed
  <1> HIDE DEF c, a, b
  <1>7. CASE c = 0
    BY <1>6, <1>7 DEF PostgresRelation!Before, PostgresRelation!NoIndex, c, a, b
  <1>8. CASE c # 0
    <2>1. PostgresRelation!Before(i, k) <=> \/ a # 0 /\ a < b
                                            \/ a # 0 /\ b = 0
                                            \/ a = b /\ i < k
      BY <1>3, <1>8, Zenon DEF PostgresRelation!Before, PostgresRelation!NoIndex, PostgresRelation!Null, c
    <2>2. a = b => ~(i < k)
      BY <1>1, <1>5
    <2>3. PostgresRelation!Before(i, k) <=> a < b
      BY <1>4, <2>1, <2>2
    <2> QED
      BY <2>3 DEF a, b, c
  <1> QED
    BY <1>7, <1>8

RowsBefore(index) ==
    {e \in PostgresRelation!RowId \X PostgresRelation!RowId : Keyed(index, e[1]) < Keyed(index, e[2])}

LEMMA RowsOrdered ==
    ASSUME NEW index, NEW S, S \in SUBSET PostgresRelation!RowId
    PROVE  Orders(RowsBefore(index), S)
  <1>1. \A x, y \in S : <<x, y>> \in RowsBefore(index) <=> Keyed(index, x) < Keyed(index, y)
    BY DEF RowsBefore
  <1>2. \A x \in S : Keyed(index, x) \in Nat
    BY KeysInRange
  <1>3. \A x, y \in S : x # y => Keyed(index, x) # Keyed(index, y)
    BY RelNumbers DEF Keyed
  <1>4. \A x \in S : <<x, x>> \notin RowsBefore(index)
    BY <1>1, <1>2
  <1>5. ASSUME NEW x \in S, NEW y \in S, NEW z \in S,
               <<x, y>> \in RowsBefore(index), <<y, z>> \in RowsBefore(index)
        PROVE  <<x, z>> \in RowsBefore(index)
    <2>1. Keyed(index, x) < Keyed(index, y) /\ Keyed(index, y) < Keyed(index, z)
      BY <1>1, <1>5
    <2>2. Keyed(index, x) < Keyed(index, z)
      BY <1>2, <2>1
    <2> QED
      BY <1>1, <2>2
  <1>6. ASSUME NEW x \in S, NEW y \in S, x # y
        PROVE  <<x, y>> \in RowsBefore(index) \/ <<y, x>> \in RowsBefore(index)
    <2>1. Keyed(index, x) < Keyed(index, y) \/ Keyed(index, y) < Keyed(index, x)
      BY <1>2, <1>3, <1>6
    <2> QED
      BY <1>1, <2>1
  <1> QED
    BY <1>4, <1>5, <1>6, Zenon DEF Orders

(* What the query reads, in its order.                                     *)
LEMMA OrderedRows ==
    ASSUME Related
    PROVE  LET s == PostgresRelation!Ordered
               selected == PostgresRelation!Selected
               index == PostgresRelation!Chosen
           IN /\ s \in Seq(selected) /\ s \in Seq(PostgresRelation!RowId) /\ Len(s) \in 0 .. MaxRow
              /\ Len(s) = Cardinality(selected) /\ Elements(s) = selected
              /\ \A i, k \in 1 .. Len(s) : i < k => Keyed(index, s[i]) < Keyed(index, s[k])
  <1> DEFINE index == PostgresRelation!Chosen
             S == PostgresRelation!Selected
             R == RowsBefore(index)
             s == PostgresRelation!Ordered
             first(k) == CHOOSE x \in S :
                            PostgresRelation!Cardinality({y \in S : PostgresRelation!Before(y, x)}) = k - 1
             second(k) == CHOOSE x \in S : Rank(S, R, x) = k - 1
  <1>1. S \subseteq rel.rows /\ rel.rows \subseteq PostgresRelation!RowId
    BY RelFields DEF PostgresRelation!Selected
  <1>2. S \in SUBSET PostgresRelation!RowId
    BY <1>1
  <1>3. \A U : PostgresRelation!Cardinality(U) = Cardinality(U)
    BY DEF PostgresRelation!Cardinality, Cardinality
  <1>4. s = [k \in 1 .. PostgresRelation!Cardinality(S) |-> first(k)]
    BY Zenon DEF PostgresRelation!Ordered, PostgresRelation!InOrder
  <1>5. \A x, y \in S : <<y, x>> \in R <=> PostgresRelation!Before(y, x)
    <2> SUFFICES ASSUME NEW x \in S, NEW y \in S
                 PROVE  <<y, x>> \in R <=> PostgresRelation!Before(y, x)
      OBVIOUS
    <2>1. x \in PostgresRelation!RowId /\ y \in PostgresRelation!RowId
      BY <1>2
    <2>2. <<y, x>> \in R <=> Keyed(index, y) < Keyed(index, x)
      BY <2>1 DEF RowsBefore
    <2>3. PostgresRelation!Before(y, x) <=> Keyed(index, y) < Keyed(index, x)
      BY <2>1, RowsCompared
    <2> QED
      BY <2>2, <2>3
  <1> HIDE DEF S, R, index
  <1>6. \A x \in S : Rank(S, R, x) = PostgresRelation!Cardinality({y \in S : PostgresRelation!Before(y, x)})
    <2> SUFFICES ASSUME NEW x \in S
                 PROVE  Preceding(S, R, x) = {y \in S : PostgresRelation!Before(y, x)}
      BY <1>3 DEF Rank
    <2> QED
      BY <1>5 DEF Preceding
  <1>7. \A k : first(k) = second(k)
    <2> SUFFICES ASSUME NEW k PROVE first(k) = second(k)
      OBVIOUS
    <2>1. \A x \in S : (PostgresRelation!Cardinality({y \in S : PostgresRelation!Before(y, x)}) = k - 1)
                          <=> (Rank(S, R, x) = k - 1)
      BY <1>6
    <2> QED
      BY <2>1
  <1>8. Ranked(S, R) = [k \in 1 .. Cardinality(S) |-> second(k)]
    BY DEF Ranked
  <1>9. s = Ranked(S, R)
    <2> HIDE DEF first, second
    <2> QED
      BY <1>3, <1>4, <1>7, <1>8
  <1>10. Orders(R, S) /\ IsFiniteSet(S) /\ Cardinality(S) \in 0 .. MaxRow
    BY <1>2, RowsOrdered, RowSets, Zenon DEF R
  <1> HIDE DEF s
  <1>11. /\ s \in Seq(S) /\ Len(s) = Cardinality(S) /\ Elements(s) = S
         /\ \A i, k \in 1 .. Cardinality(S) : i < k => <<s[i], s[k]>> \in R
    BY <1>9, <1>10, RankedInOrder, Zenon
  <1>12. \A i \in 1 .. Len(s) : s[i] \in S
    BY <1>11, ElementOfSeq
  <1>13. s \in Seq(PostgresRelation!RowId)
    BY <1>2, <1>11, SeqMonotonic
  <1>14. ASSUME NEW i \in 1 .. Len(s), NEW k \in 1 .. Len(s), i < k
         PROVE  Keyed(index, s[i]) < Keyed(index, s[k])
    <2>1. <<s[i], s[k]>> \in R
      BY <1>11, <1>14
    <2> QED
      BY <2>1 DEF R, RowsBefore
  <1> QED
    BY <1>10, <1>11, <1>13, <1>14 DEF s, S, index

(* A page, and one row more to know whether there is a next.               *)
LEMMA PageCut ==
    ASSUME NEW S, NEW s \in Seq(S), NEW from \in Nat, NEW p \in Nat \ {0},
           NEW fetched, fetched = SubSeq(s, from + 1, IF from + p + 1 <= Len(s) THEN from + p + 1 ELSE Len(s)),
           NEW page, page = SubSeq(fetched, 1, IF p <= Len(fetched) THEN p ELSE Len(fetched))
    PROVE  /\ Len(fetched) \in Nat /\ (Len(fetched) > p <=> from + p < Len(s))
           /\ from > Len(s) => page = <<>>
           /\ from <= Len(s) =>
                 page = SubSeq(s, from + 1, IF from + p <= Len(s) THEN from + p ELSE Len(s))
  <1> DEFINE n == Len(s)
             last == IF from + p + 1 <= n THEN from + p + 1 ELSE n
             to == IF from + p <= n THEN from + p ELSE n
             size == IF p <= Len(fetched) THEN p ELSE Len(fetched)
  <1>1. n \in Nat
    BY LenProperties
  <1>2. /\ from + 1 \in Int /\ last \in Int /\ to \in Int
        /\ \A i \in from + 1 .. last : s[i] \in S
        /\ \A i \in from + 1 .. to : s[i] \in S
    BY <1>1, ElementOfSeq
  <1>3. /\ fetched \in Seq(S)
        /\ Len(fetched) = IF from + 1 <= last THEN last - (from + 1) + 1 ELSE 0
        /\ \A i \in 1 .. last - (from + 1) + 1 : fetched[i] = s[from + 1 + i - 1]
    BY <1>2, SubSeqProperties
  <1>4. /\ SubSeq(s, from + 1, to) \in Seq(S)
        /\ Len(SubSeq(s, from + 1, to)) = IF from + 1 <= to THEN to - (from + 1) + 1 ELSE 0
        /\ \A i \in 1 .. to - (from + 1) + 1 : SubSeq(s, from + 1, to)[i] = s[from + 1 + i - 1]
    BY <1>2, SubSeqProperties, SMTT(30)
  <1> HIDE DEF n
  <1>5. Len(fetched) \in Nat /\ (Len(fetched) > p <=> from + p < n)
        /\ size \in 0 .. Len(fetched) /\ (from > n => size = 0)
        /\ (from <= n => size = to - from /\ Len(fetched) = last - from /\ to <= last)
    BY <1>1, <1>3
  <1>6. page \in Seq(S) /\ Len(page) = size /\ \A k \in 1 .. size : page[k] = fetched[k]
    BY <1>3, <1>5, FirstOf
  <1>7. from > n => page = <<>>
    BY <1>5, <1>6, EmptySeq
  <1>8. ASSUME from <= n PROVE page = SubSeq(s, from + 1, to)
    <2> DEFINE cut == SubSeq(s, from + 1, to)
    <2>1. size = to - from /\ size \in Nat
      BY <1>1, <1>2, <1>5, <1>8
    <2>2. Len(cut) = size
      <3>1. from <= to
        BY <1>1, <1>8
      <3> QED
        BY <1>2, <1>4, <2>1, <3>1, SMTT(30)
    <2>3. \A k \in 1 .. size : fetched[k] = s[from + 1 + k - 1] /\ cut[k] = s[from + 1 + k - 1]
      <3> SUFFICES ASSUME NEW k \in 1 .. size
                   PROVE  fetched[k] = s[from + 1 + k - 1] /\ cut[k] = s[from + 1 + k - 1]
        OBVIOUS
      <3>1. k \in 1 .. last - (from + 1) + 1 /\ k \in 1 .. to - (from + 1) + 1
        BY <1>1, <1>2, <1>5, <1>8, <2>1
      <3> QED
        BY <1>3, <1>4, <3>1
    <2> HIDE DEF cut
    <2>4. \A k \in 1 .. size : page[k] = cut[k]
      BY <1>6, <2>3
    <2>5. cut \in Seq(S)
      BY <1>4 DEF cut
    <2>6. page = cut
      BY <1>6, <2>2, <2>4, <2>5, SeqEqual
    <2> QED
      BY <2>6 DEF cut
  <1> QED
    BY <1>5, <1>7, <1>8 DEF n

KeysAscend(index, s) ==
    \A i, k \in 1 .. Len(s) : i < k => Keyed(index, s[i]) < Keyed(index, s[k])

(* Keys that ascend rise by one at least from each to the next.            *)
LEMMA KeysRise ==
    ASSUME NEW index, NEW s \in Seq(PostgresRelation!RowId), KeysAscend(index, s), NEW v \in Nat,
           \A i \in 1 .. Len(s) : v < Keyed(index, s[i])
    PROVE  \A n \in 1 .. Len(s) : v + n <= Keyed(index, s[n])
  <1> DEFINE D == {n \in 1 .. Len(s) : ~(v + n <= Keyed(index, s[n]))}
  <1>1. Len(s) \in Nat /\ \A i \in 1 .. Len(s) : Keyed(index, s[i]) \in Nat
    BY LenProperties, ElementOfSeq, KeysInRange
  <1>2. ASSUME D # {} PROVE FALSE
    <2>1. D \in SUBSET Nat
      BY <1>1
    <2>2. PICK m \in D : \A n \in D : m <= n
      BY <1>2, <2>1, LeastOf
    <2>3. m \in 1 .. Len(s) /\ m \in Nat /\ m > 0 /\ ~(v + m <= Keyed(index, s[m]))
      BY <1>1
    <2>4. m # 1
      <3> SUFFICES ASSUME m = 1 PROVE FALSE
        OBVIOUS
      <3>1. v < Keyed(index, s[1]) /\ Keyed(index, s[1]) \in Nat /\ ~(v + 1 <= Keyed(index, s[1]))
        BY <1>1, <2>3
      <3> QED
        BY <3>1
    <2>5. m - 1 \in 1 .. Len(s) /\ m - 1 < m
      BY <1>1, <2>3, <2>4
    <2>6. m - 1 \notin D
      BY <2>2, <2>3
    <2>7. v + (m - 1) <= Keyed(index, s[m - 1])
      BY <2>5, <2>6
    <2>8. Keyed(index, s[m - 1]) < Keyed(index, s[m])
      BY <2>3, <2>5 DEF KeysAscend
    <2> DEFINE a == Keyed(index, s[m - 1])
               b == Keyed(index, s[m])
    <2>9. a \in Nat /\ b \in Nat /\ v + (m - 1) <= a /\ a < b /\ ~(v + m <= b)
      BY <1>1, <2>3, <2>5, <2>7, <2>8
    <2> HIDE DEF a, b, D
    <2> QED
      BY <2>3, <2>9
  <1> QED
    BY <1>2

(* The cursor of a read that goes on.                                      *)
LEMMA CursorIs ==
    ASSUME Related, ~rel.ended, PostgresRelation!SameShape
    PROVE  LET index == PostgresRelation!Chosen
               v == rel.cursor.value
           IN /\ rel.cursor = PostgresRelation!NoCursor =>
                    rel.shown = <<>> /\ rel.by = 0 /\ v = 0 /\ rel.cursor.offset = 0
              /\ rel.cursor # PostgresRelation!NoCursor => rel.by = index
              /\ index = 0 => PostgresRelation!Selected = rel.rows
                              /\ PostgresRelation!Skipped = rel.cursor.offset /\ rel.by = 0
              /\ index # 0 => /\ PostgresRelation!Selected = {i \in rel.rows : v < Keyed(index, i)}
                              /\ PostgresRelation!Skipped = 0
                              /\ KeysAscend(index, rel.shown) /\ rel.cursor.offset <= v
                              /\ rel.flaws[index] = {}
                              /\ rel.changes = 0 => Elements(rel.shown) \subseteq rel.rows
                              /\ \A i \in Elements(rel.shown) : Keyed(index, i) <= v
                              /\ {i \in rel.steady : Keyed(index, i) <= v} \subseteq Elements(rel.shown)
  <1> DEFINE index == PostgresRelation!Chosen
             v == rel.cursor.value
             c == rel.cursor
  <1>1. v \in Nat /\ c.offset \in Nat /\ rel.rows \subseteq PostgresRelation!RowId
        /\ rel.steady \subseteq PostgresRelation!RowId
    BY RelFields
  <1>2. c = PostgresRelation!NoCursor => rel.shown = <<>> /\ rel.by = 0 /\ v = 0 /\ c.offset = 0
    BY DEF Related, PostgresRelation!NoCursor, PostgresRelation!Null
  <1>3. c # PostgresRelation!NoCursor => rel.by = index
    BY DEF Related, PostgresRelation!SameShape
  <1>4. \A i \in PostgresRelation!RowId : Keyed(index, i) \in Nat /\ Keyed(index, i) > 0
    BY KeysInRange
  <1>5. index # 0 => rel.flaws[index] = {}
                     /\ \A i : PostgresRelation!Key(index, i) = Keyed(index, i)
    BY ChosenIndex
  <1>6. index = 0 => PostgresRelation!Selected = rel.rows /\ PostgresRelation!Skipped = c.offset
    BY DEF PostgresRelation!Selected, PostgresRelation!Skipped, PostgresRelation!NoIndex
  <1>7. ASSUME index # 0
        PROVE  /\ PostgresRelation!Selected = {i \in rel.rows : v < Keyed(index, i)}
               /\ PostgresRelation!Skipped = 0
    <2>1. PostgresRelation!Skipped = 0
      BY <1>7 DEF PostgresRelation!Skipped, PostgresRelation!NoIndex
    <2>2. CASE c = PostgresRelation!NoCursor
      <3>1. PostgresRelation!Selected = rel.rows
        BY <2>2 DEF PostgresRelation!Selected
      <3>2. \A i \in rel.rows : v < Keyed(index, i)
        BY <1>1, <1>2, <1>4, <2>2
      <3> QED
        BY <2>1, <3>1, <3>2
    <2>3. CASE c # PostgresRelation!NoCursor
      <3>1. PostgresRelation!Selected = {i \in rel.rows : PostgresRelation!Key(index, i) > v}
        BY <1>7, <2>3 DEF PostgresRelation!Selected, PostgresRelation!NoIndex
      <3>2. \A i \in rel.rows : PostgresRelation!Key(index, i) > v <=> v < Keyed(index, i)
        BY <1>1, <1>4, <1>5, <1>7
      <3> QED
        BY <2>1, <3>1, <3>2
    <2> QED
      BY <2>2, <2>3
  <1>8. ASSUME index # 0
        PROVE  /\ KeysAscend(index, rel.shown) /\ c.offset <= v
               /\ rel.changes = 0 => Elements(rel.shown) \subseteq rel.rows
               /\ \A i \in Elements(rel.shown) : Keyed(index, i) <= v
               /\ {i \in rel.steady : Keyed(index, i) <= v} \subseteq Elements(rel.shown)
    <2>1. CASE c = PostgresRelation!NoCursor
      <3>1. rel.shown = <<>> /\ v = 0 /\ c.offset = 0
        BY <1>2, <2>1
      <3>2. Elements(rel.shown) = {} /\ KeysAscend(index, rel.shown)
        BY <3>1 DEF Elements, KeysAscend
      <3>3. \A i \in rel.steady : ~(Keyed(index, i) <= v)
        BY <1>1, <1>4, <3>1
      <3> QED
        BY <3>1, <3>2, <3>3
    <2>2. CASE c # PostgresRelation!NoCursor
      <3>1. rel.by = index
        BY <1>3, <2>2
      <3>2. KeysShown
        BY <1>8, <3>1 DEF Related
      <3> QED
        BY <3>1, <3>2 DEF KeysShown, KeysAscend
    <2> QED
      BY <2>1, <2>2
  <1>9. index = 0 => rel.by = 0
    BY <1>2, <1>3
  <1> QED
    BY <1>2, <1>3, <1>5, <1>6, <1>7, <1>8, <1>9

(* The rows of a page.                                                     *)
LEMMA PageRead ==
    ASSUME Related
    PROVE  LET s == PostgresRelation!Ordered
               from == PostgresRelation!Skipped
               to == IF from + PageRows <= Len(s) THEN from + PageRows ELSE Len(s)
               page == PostgresRelation!PageOf
           IN /\ Len(PostgresRelation!Fetched) > PageRows <=> from + PageRows < Len(s)
              /\ from > Len(s) => page = <<>>
              /\ from <= Len(s) => page = SubSeq(s, from + 1, to)
              /\ from \in Nat /\ page \in Seq(PostgresRelation!RowId)
  <1> DEFINE s == PostgresRelation!Ordered
             from == PostgresRelation!Skipped
             to == IF from + PageRows <= Len(s) THEN from + PageRows ELSE Len(s)
             fetched == PostgresRelation!Fetched
             page == PostgresRelation!PageOf
  <1>1. from \in Nat
    BY RelFields DEF PostgresRelation!Skipped
  <1>2. s \in Seq(PostgresRelation!RowId) /\ Len(s) \in Nat /\ PageRows \in Nat \ {0}
    BY OrderedRows, LenProperties, RelNumbers, Zenon
  <1>3. fetched = SubSeq(s, from + 1,
                         IF from + PageRows + 1 <= Len(s) THEN from + PageRows + 1 ELSE Len(s))
    <2>1. PostgresRelation!Min({from + PageRows + 1, Len(s)})
             = IF from + PageRows + 1 <= Len(s) THEN from + PageRows + 1 ELSE Len(s)
      <3> HIDE DEF from, s
      <3>1. from + PageRows + 1 \in Int /\ Len(s) \in Int
        BY <1>1, <1>2
      <3> QED
        BY <3>1, LeastOfTwo DEF PostgresRelation!Min, Least
    <2> QED
      BY <2>1, Zenon DEF PostgresRelation!Fetched
  <1>4. Len(fetched) \in Nat
    <2> DEFINE other == SubSeq(fetched, 1, IF PageRows <= Len(fetched) THEN PageRows ELSE Len(fetched))
    <2> HIDE DEF from, s, fetched, other
    <2>1. other = SubSeq(fetched, 1, IF PageRows <= Len(fetched) THEN PageRows ELSE Len(fetched))
      BY DEF other
    <2> QED
      BY <1>1, <1>2, <1>3, <2>1, PageCut
  <1>5. page = SubSeq(fetched, 1, IF PageRows <= Len(fetched) THEN PageRows ELSE Len(fetched))
    <2>1. PostgresRelation!Min({PageRows, Len(fetched)})
             = IF PageRows <= Len(fetched) THEN PageRows ELSE Len(fetched)
      <3> HIDE DEF fetched
      <3> QED
        BY <1>2, <1>4, LeastOfTwo DEF PostgresRelation!Min, Least
    <2> QED
      BY <2>1, Zenon DEF PostgresRelation!PageOf
  <1> HIDE DEF s, from, fetched, page
  <1>6. /\ Len(fetched) > PageRows <=> from + PageRows < Len(s)
        /\ from > Len(s) => page = <<>>
        /\ from <= Len(s) => page = SubSeq(s, from + 1, to)
    BY <1>1, <1>2, <1>3, <1>5, PageCut
  <1>7. page \in Seq(PostgresRelation!RowId)
    <2>1. CASE from > Len(s)
      BY <1>6, <2>1
    <2>2. CASE ~(from > Len(s))
      <3>1. from + 1 \in Int /\ to \in Int
            /\ \A i \in from + 1 .. to : s[i] \in PostgresRelation!RowId
        BY <1>1, <1>2, ElementOfSeq
      <3>2. from <= Len(s)
        BY <1>1, <1>2, <2>2
      <3> HIDE DEF to
      <3> QED
        BY <1>6, <3>1, <3>2, SubSeqProperties
    <2> QED
      BY <2>1, <2>2
  <1> QED
    BY <1>1, <1>6, <1>7 DEF s, from, fetched, page

(* A page by an offset.                                                    *)
LEMMA HeapPage ==
    ASSUME Related, ~rel.ended, PostgresRelation!SameShape, PostgresRelation!Chosen = 0
    PROVE  LET s == Sorted(rel.rows)
               from == rel.cursor.offset
               to == IF from + PageRows <= Len(s) THEN from + PageRows ELSE Len(s)
           IN /\ Len(PostgresRelation!Fetched) > PageRows => from + PageRows \in 0 .. MaxRow
              /\ s \in Seq(PostgresRelation!RowId) /\ Len(s) = Cardinality(rel.rows) /\ Len(s) \in Nat
              /\ rel.changes = 0 =>
                    /\ rel.shown \o PostgresRelation!PageOf = SubSeq(s, 1, to)
                    /\ Len(PostgresRelation!Fetched) > PageRows <=> from + PageRows < Len(s)
  <1> DEFINE s == PostgresRelation!Ordered
             from == rel.cursor.offset
             to == IF from + PageRows <= Len(s) THEN from + PageRows ELSE Len(s)
             page == PostgresRelation!PageOf
             next == Len(PostgresRelation!Fetched) > PageRows
  <1>1. /\ PostgresRelation!Selected = rel.rows /\ PostgresRelation!Skipped = from /\ rel.by = 0
    BY CursorIs
  <1>2. /\ s \in Seq(rel.rows) /\ s \in Seq(PostgresRelation!RowId) /\ Len(s) \in 0 .. MaxRow
        /\ Len(s) = Cardinality(rel.rows) /\ Elements(s) = rel.rows
        /\ \A i, k \in 1 .. Len(s) : i < k => Keyed(0, s[i]) < Keyed(0, s[k])
    BY <1>1, OrderedRows
  <1>3. /\ next <=> from + PageRows < Len(s)
        /\ from <= Len(s) => page = SubSeq(s, from + 1, to)
    BY <1>1, PageRead, Zenon
  <1>4. rel.rows \in SUBSET Nat /\ IsFiniteSet(rel.rows) /\ PageRows \in Nat \ {0} /\ MaxRow \in Nat
        /\ from \in Nat
    BY RelFields, RowSets, RelNumbers
  <1> HIDE DEF s, page, next
  <1>5. Ascends(s)
    BY <1>2 DEF Keyed, Ascends
  <1>6. s = Sorted(rel.rows)
    BY <1>2, <1>4, <1>5, SortedUnique
  <1>7. next => from + PageRows \in 0 .. MaxRow
    BY <1>2, <1>3, <1>4, SMTT(30)
  <1>8. ASSUME rel.changes = 0 PROVE rel.shown \o page = SubSeq(s, 1, to)
    <2>1. HeapShown
      BY <1>1, <1>8 DEF Related
    <2>2. from <= Len(s) /\ rel.shown = SubSeq(s, 1, from)
      BY <1>2, <1>6, <2>1 DEF HeapShown
    <2>3. page = SubSeq(s, from + 1, to)
      BY <1>3, <2>2
    <2>4. from \in 0 .. Len(s) /\ to \in from .. Len(s)
      BY <1>2, <1>4, <2>2
    <2>5. s \in Seq(PostgresRelation!RowId)
      BY <1>2
    <2> HIDE DEF to
    <2>6. SubSeq(s, 1, from) \o SubSeq(s, from + 1, to) = SubSeq(s, 1, to)
      BY <2>4, <2>5, CutFollows
    <2> QED
      BY <2>2, <2>3, <2>6, Zenon
  <1>9. Len(s) \in Nat
    BY <1>2
  <1> QED
    BY <1>2, <1>3, <1>6, <1>7, <1>8, <1>9 DEF s, page, next

(* A page by a key.                                                        *)
LEMMA KeyPage ==
    ASSUME Related, ~rel.ended, PostgresRelation!SameShape,
           NEW index, index = PostgresRelation!Chosen, index # 0,
           NEW page, page = PostgresRelation!PageOf,
           NEW next, next <=> Len(PostgresRelation!Fetched) > PageRows
    PROVE  LET shown == rel.shown \o page
               w == Keyed(index, page[Len(page)])
           IN /\ page \in Seq(PostgresRelation!RowId)
              /\ KeysAscend(index, shown)
              /\ rel.changes = 0 => Elements(shown) \subseteq rel.rows
              /\ next => /\ Len(page) > 0 /\ w \in 1 .. MaxRow /\ rel.cursor.offset + PageRows <= w
                         /\ \A i \in Elements(shown) : Keyed(index, i) <= w
                         /\ {i \in rel.steady : Keyed(index, i) <= w} \subseteq Elements(shown)
              /\ ~next => rel.steady \subseteq Elements(shown)
  <1> DEFINE s == PostgresRelation!Ordered
             v == rel.cursor.value
             S == {i \in rel.rows : v < Keyed(index, i)}
             to == IF PageRows <= Len(s) THEN PageRows ELSE Len(s)
             shown == rel.shown \o page
             w == Keyed(index, page[Len(page)])
  <1>1. /\ PostgresRelation!Selected = S /\ PostgresRelation!Skipped = 0
        /\ KeysAscend(index, rel.shown) /\ rel.cursor.offset <= v
        /\ rel.changes = 0 => Elements(rel.shown) \subseteq rel.rows
        /\ \A i \in Elements(rel.shown) : Keyed(index, i) <= v
        /\ {i \in rel.steady : Keyed(index, i) <= v} \subseteq Elements(rel.shown)
    BY CursorIs
  <1>2. /\ s \in Seq(S) /\ s \in Seq(PostgresRelation!RowId) /\ Elements(s) = S
        /\ \A i, k \in 1 .. Len(s) : i < k => Keyed(index, s[i]) < Keyed(index, s[k])
    BY <1>1, OrderedRows
  <1>3. /\ Len(s) \in Nat /\ DOMAIN s = 1 .. Len(s) /\ \A i \in 1 .. Len(s) : s[i] \in S
        /\ PageRows \in Nat \ {0} /\ MaxRow \in Nat
    BY <1>2, LenProperties, ElementOfSeq, RelNumbers
  <1>4. (next <=> PageRows < Len(s)) /\ page = SubSeq(s, 1, to)
    <2>1. /\ Len(PostgresRelation!Fetched) > PageRows <=> 0 + PageRows < Len(s)
          /\ 0 <= Len(s) =>
                page = SubSeq(s, 0 + 1, IF 0 + PageRows <= Len(s) THEN 0 + PageRows ELSE Len(s))
      BY <1>1, PageRead
    <2> HIDE DEF s
    <2>2. 0 + PageRows = PageRows /\ 0 + 1 = 1 /\ 0 <= Len(s)
      BY <1>3
    <2> QED
      BY <2>1, <2>2
  <1> HIDE DEF s
  <1>5. to \in 0 .. Len(s) /\ (next => to = PageRows) /\ (~next => to = Len(s)) /\ to \in Nat
    <2> DEFINE n == Len(s)
    <2>1. n \in Nat /\ PageRows \in Nat /\ (next <=> PageRows < n)
          /\ to = IF PageRows <= n THEN PageRows ELSE n
      BY <1>3, <1>4
    <2> HIDE DEF n, to
    <2>2. to \in 0 .. n /\ (next => to = PageRows) /\ (~next => to = n) /\ to \in Nat
      BY <2>1
    <2> QED
      BY <2>2 DEF n
  <1>6. page \in Seq(S) /\ Len(page) = to /\ \A k \in 1 .. to : page[k] = s[k]
    BY <1>2, <1>4, <1>5, FirstOf
  <1>7. rel.rows \in SUBSET PostgresRelation!RowId /\ rel.shown \in Seq(PostgresRelation!RowId)
        /\ rel.steady \subseteq rel.rows /\ v \in Nat /\ rel.cursor.offset \in Nat
    BY RelFields DEF Related
  <1>8. page \in Seq(PostgresRelation!RowId) /\ DOMAIN page = 1 .. to
        /\ DOMAIN rel.shown = 1 .. Len(rel.shown) /\ Len(rel.shown) \in Nat
    <2>1. S \subseteq PostgresRelation!RowId
      BY <1>7
    <2>2. page \in Seq(PostgresRelation!RowId)
      BY <1>6, <2>1, SeqMonotonic
    <2> QED
      BY <1>6, <1>7, <2>2, LenProperties
  <1>9. /\ shown \in Seq(PostgresRelation!RowId)
        /\ Elements(shown) = Elements(rel.shown) \union Elements(page)
    BY <1>7, <1>8, JoinElements
  <1>10. /\ Len(shown) = Len(rel.shown) + Len(page)
         /\ \A i \in 1 .. Len(rel.shown) : shown[i] = rel.shown[i]
         /\ \A i \in 1 .. Len(page) : shown[Len(rel.shown) + i] = page[i]
    BY <1>7, <1>8, ConcatProperties
  <1> HIDE DEF to, shown
  <1>11. \A k \in 1 .. to : k \in 1 .. Len(s) /\ page[k] \in S /\ page[k] = s[k]
    <2> SUFFICES ASSUME NEW k \in 1 .. to
                 PROVE  k \in 1 .. Len(s) /\ page[k] \in S /\ page[k] = s[k]
      OBVIOUS
    <2>1. k \in 1 .. Len(s)
      <3> DEFINE n == Len(s)
      <3>1. n \in Nat /\ to \in 0 .. n
        BY <1>3, <1>5
      <3> HIDE DEF n
      <3>2. k \in 1 .. n
        BY <3>1
      <3> QED
        BY <3>2 DEF n
    <2>2. page[k] = s[k]
      BY <1>6
    <2> HIDE DEF S
    <2>3. s[k] \in S
      BY <1>3, <2>1
    <2> QED
      BY <2>1, <2>2, <2>3
  <1>12. \A i \in S : i \in rel.rows /\ v < Keyed(index, i) /\ Keyed(index, i) \in Nat
    BY <1>7, KeysInRange
  <1>13. \A i, k \in 1 .. to : i < k => Keyed(index, page[i]) < Keyed(index, page[k])
    BY <1>2, <1>11
  <1>14. \A i \in 1 .. Len(rel.shown) : Keyed(index, rel.shown[i]) <= v /\ Keyed(index, rel.shown[i]) \in Nat
    <2> SUFFICES ASSUME NEW i \in 1 .. Len(rel.shown)
                 PROVE  Keyed(index, rel.shown[i]) <= v /\ Keyed(index, rel.shown[i]) \in Nat
      OBVIOUS
    <2>1. rel.shown[i] \in Elements(rel.shown)
      BY <1>8 DEF Elements
    <2>2. rel.shown[i] \in PostgresRelation!RowId
      BY <1>7, ElementOfSeq
    <2> QED
      BY <1>1, <2>1, <2>2, KeysInRange
  <1>15. KeysAscend(index, shown)
    <2> SUFFICES ASSUME NEW i \in 1 .. Len(shown), NEW k \in 1 .. Len(shown), i < k
                 PROVE  Keyed(index, shown[i]) < Keyed(index, shown[k])
      BY DEF KeysAscend
    <2> DEFINE l == Len(rel.shown)
    <2>1. l \in Nat /\ Len(shown) = l + to
      BY <1>6, <1>8, <1>10
    <2>2. CASE k \in 1 .. l
      <3>1. i \in 1 .. l
        BY <2>1, <2>2
      <3> QED
        BY <1>1, <1>10, <2>2, <3>1 DEF KeysAscend
    <2>3. CASE k \notin 1 .. l
      <3> DEFINE m == k - l
      <3>1. m \in 1 .. to /\ k = l + m
        BY <1>5, <2>1, <2>3
      <3> HIDE DEF m
      <3>2. shown[k] = page[m]
        BY <1>6, <1>10, <3>1
      <3>3. CASE i \in 1 .. l
        <4>1. Keyed(index, shown[i]) <= v /\ Keyed(index, shown[i]) \in Nat
          BY <1>10, <1>14, <3>3
        <4>2. v < Keyed(index, page[m]) /\ Keyed(index, page[m]) \in Nat
          BY <1>11, <1>12, <3>1
        <4> QED
          BY <1>7, <3>2, <4>1, <4>2
      <3>4. CASE i \notin 1 .. l
        <4> DEFINE j == i - l
        <4>1. j \in 1 .. to /\ i = l + j /\ j < m
          BY <1>5, <2>1, <3>1, <3>4
        <4> HIDE DEF j
        <4>2. shown[i] = page[j]
          BY <1>6, <1>10, <4>1
        <4> QED
          BY <1>13, <3>1, <3>2, <4>1, <4>2
      <3> QED
        BY <3>3, <3>4
    <2> QED
      BY <2>2, <2>3
  <1>16. Elements(page) \subseteq rel.rows
    BY <1>8, <1>11, <1>12 DEF Elements
  <1>17. rel.changes = 0 => Elements(shown) \subseteq rel.rows
    BY <1>1, <1>9, <1>16
  <1>18. \A x \in S : \E k \in 1 .. Len(s) : s[k] = x
    BY <1>2, <1>3 DEF Elements
  <1>19. ASSUME next
         PROVE  /\ Len(page) > 0 /\ w \in 1 .. MaxRow /\ rel.cursor.offset + PageRows <= w
                /\ \A i \in Elements(shown) : Keyed(index, i) <= w
                /\ {i \in rel.steady : Keyed(index, i) <= w} \subseteq Elements(shown)
    <2>1. to = PageRows /\ to \in 1 .. to /\ Len(page) = to /\ page[to] = s[to] /\ s[to] \in S
          /\ to \in 1 .. Len(s)
      BY <1>3, <1>5, <1>6, <1>11, <1>19
    <2>2. w = Keyed(index, s[to]) /\ w \in 1 .. MaxRow /\ v < w /\ w \in Nat
      BY <1>7, <1>12, <2>1, KeysInRange
    <2> HIDE DEF w
    <2>3. v + to <= w
      <3>1. KeysAscend(index, s) /\ \A i \in 1 .. Len(s) : v < Keyed(index, s[i])
        BY <1>2, <1>3, <1>12 DEF KeysAscend
      <3> QED
        BY <1>2, <1>7, <2>1, <2>2, <3>1, KeysRise
    <2>4. rel.cursor.offset + PageRows <= w
      BY <1>1, <1>3, <1>7, <2>1, <2>2, <2>3
    <2>5. \A k \in 1 .. to : Keyed(index, page[k]) <= w
      <3> SUFFICES ASSUME NEW k \in 1 .. to PROVE Keyed(index, page[k]) <= w
        OBVIOUS
      <3>1. k = to \/ k < to
        BY <1>5
      <3>2. Keyed(index, page[k]) \in Nat /\ (k < to => Keyed(index, page[k]) < w)
        BY <1>11, <1>12, <1>13, <2>1, <2>2
      <3> QED
        BY <2>1, <2>2, <3>1, <3>2
    <2>6. ASSUME NEW i \in Elements(shown) PROVE Keyed(index, i) <= w
      <3>1. CASE i \in Elements(rel.shown)
        <4>1. PICK k \in 1 .. Len(rel.shown) : i = rel.shown[k]
          BY <1>8, <3>1 DEF Elements
        <4> QED
          BY <1>7, <1>14, <2>2, <4>1
      <3>2. CASE i \in Elements(page)
        BY <1>8, <2>5, <3>2 DEF Elements
      <3> QED
        BY <1>9, <2>6, <3>1, <3>2
    <2>7. ASSUME NEW i \in rel.steady, Keyed(index, i) <= w PROVE i \in Elements(shown)
      <3>1. CASE Keyed(index, i) <= v
        BY <1>1, <1>9, <3>1
      <3>2. CASE ~(Keyed(index, i) <= v)
        <4>1. Keyed(index, i) \in Nat
          BY <1>7, KeysInRange
        <4>2. i \in S
          BY <1>7, <3>2, <4>1
        <4>3. PICK k \in 1 .. Len(s) : s[k] = i
          BY <1>18, <4>2
        <4>4. ~(to < k)
          BY <1>2, <2>1, <2>2, <2>7, <4>1, <4>3
        <4>5. k \in 1 .. to
          BY <1>3, <1>5, <4>4
        <4> QED
          BY <1>8, <1>9, <1>11, <4>3, <4>5 DEF Elements
      <3> QED
        BY <3>1, <3>2
    <2> QED
      BY <1>3, <2>1, <2>2, <2>4, <2>6, <2>7
  <1>20. ASSUME ~next PROVE rel.steady \subseteq Elements(shown)
    <2> SUFFICES ASSUME NEW i \in rel.steady PROVE i \in Elements(shown)
      OBVIOUS
    <2>1. CASE Keyed(index, i) <= v
      BY <1>1, <1>9, <2>1
    <2>2. CASE ~(Keyed(index, i) <= v)
      <3>1. Keyed(index, i) \in Nat
        BY <1>7, KeysInRange
      <3>2. i \in S
        BY <1>7, <2>2, <3>1
      <3>3. PICK k \in 1 .. Len(s) : s[k] = i
        BY <1>18, <3>2
      <3>4. k \in 1 .. to
        BY <1>5, <1>20
      <3> QED
        BY <1>8, <1>9, <1>11, <3>3, <3>4 DEF Elements
    <2> QED
      BY <2>1, <2>2
  <1> QED
    BY <1>8, <1>15, <1>17, <1>19, <1>20 DEF shown

(* What a page changes.                                                    *)
LEMMA FetchIs ==
    ASSUME Related, NEW shown, shown \in Seq(PostgresRelation!RowId), NEW ended, ended \in BOOLEAN,
           NEW by, by \in {0, 1, 2}, NEW cursor, cursor \in RelCursor,
           rel' = [rel EXCEPT !.shown = shown, !.ended = ended, !.by = by, !.cursor = cursor]
    PROVE  /\ rel' \in RelRecord
           /\ rel'.shown = shown /\ rel'.ended = ended /\ rel'.by = by /\ rel'.cursor = cursor
           /\ rel'.rows = rel.rows /\ rel'.steady = rel.steady /\ rel'.changes = rel.changes
           /\ rel'.flaws = rel.flaws
  <1>1. rel \in RelRecord
    BY DEF Related
  <1>2. rel' \in RelRecord
    BY <1>1 DEF RelRecord
  <1> QED
    BY <1>1, <1>2 DEF RelRecord

LEMMA RelFetches ==
    ASSUME Related, PostgresRelation!FetchPage
    PROVE  Related'
  <1> DEFINE index == PostgresRelation!Chosen
             next == Len(PostgresRelation!Fetched) > PageRows
             page == PostgresRelation!PageOf
             value == IF index = 0 THEN 0 ELSE PostgresRelation!Key(index, page[Len(page)])
             mark == [version |-> rel.version, index |-> index, value |-> value,
                      offset |-> rel.cursor.offset + PageRows]
             cursor == IF ~next THEN PostgresRelation!NoCursor ELSE mark
             shown == rel.shown \o page
             ended == ~next
             w == Keyed(index, page[Len(page)])
  <1>1. ~rel.ended /\ PostgresRelation!SameShape
    BY DEF PostgresRelation!FetchPage
  <1>2. rel' = [rel EXCEPT !.shown = shown, !.ended = ended, !.by = index, !.cursor = cursor]
    BY Zenon DEF PostgresRelation!FetchPage, PostgresRelation!NoIndex, PostgresRelation!Null
  <1>3. index \in {0, 1, 2} /\ (index # 0 => rel.flaws[index] = {})
    BY ChosenIndex
  <1>4. index # 0 => value = w
    BY ChosenIndex
  <1>5. page \in Seq(PostgresRelation!RowId) /\ rel.shown \in Seq(PostgresRelation!RowId)
    BY PageRead, RelFields, Zenon
  <1>6. shown \in Seq(PostgresRelation!RowId)
    BY <1>5, ConcatProperties
  <1>7. next \in BOOLEAN /\ ended \in BOOLEAN /\ (ended <=> ~next)
    OBVIOUS
  <1>8. index = 0 =>
          LET s == Sorted(rel.rows)
              from == rel.cursor.offset
              to == IF from + PageRows <= Len(s) THEN from + PageRows ELSE Len(s)
          IN /\ next => from + PageRows \in 0 .. MaxRow
             /\ s \in Seq(PostgresRelation!RowId) /\ Len(s) = Cardinality(rel.rows) /\ Len(s) \in Nat
             /\ rel.changes = 0 => shown = SubSeq(s, 1, to) /\ (next <=> from + PageRows < Len(s))
    BY <1>1, HeapPage
  <1>9. index # 0 =>
          /\ KeysAscend(index, shown)
          /\ rel.changes = 0 => Elements(shown) \subseteq rel.rows
          /\ next => /\ w \in 1 .. MaxRow /\ rel.cursor.offset + PageRows <= w
                     /\ \A i \in Elements(shown) : Keyed(index, i) <= w
                     /\ {i \in rel.steady : Keyed(index, i) <= w} \subseteq Elements(shown)
          /\ ~next => rel.steady \subseteq Elements(shown)
    <2> SUFFICES ASSUME index # 0
                 PROVE  /\ KeysAscend(index, shown)
                        /\ rel.changes = 0 => Elements(shown) \subseteq rel.rows
                        /\ next => /\ w \in 1 .. MaxRow /\ rel.cursor.offset + PageRows <= w
                                   /\ \A i \in Elements(shown) : Keyed(index, i) <= w
                                   /\ {i \in rel.steady : Keyed(index, i) <= w} \subseteq Elements(shown)
                        /\ ~next => rel.steady \subseteq Elements(shown)
      OBVIOUS
    <2>1. /\ index = PostgresRelation!Chosen /\ page = PostgresRelation!PageOf
          /\ next <=> Len(PostgresRelation!Fetched) > PageRows
      OBVIOUS
    <2> HIDE DEF index, page, next
    <2> QED
      BY <1>1, <2>1, KeyPage
  <1>10. rel.cursor.offset \in Nat /\ PageRows \in Nat \ {0} /\ MaxRow \in Nat /\ rel.version \in Nat \ {0}
    BY RelFields, RelNumbers
  <1> HIDE DEF index, next, page, value, shown, ended, w
  <1>11. next => value \in 0 .. MaxRow /\ rel.cursor.offset + PageRows \in 0 .. MaxRow
    <2>1. CASE index = 0
      BY <1>8, <1>10, <2>1 DEF value
    <2>2. CASE index # 0
      BY <1>4, <1>9, <1>10, <2>2
    <2> QED
      BY <2>1, <2>2
  <1>12. cursor \in RelCursor
    <2>1. PostgresRelation!NoCursor \in RelCursor
      BY <1>10 DEF PostgresRelation!NoCursor, PostgresRelation!NoIndex, PostgresRelation!Null, RelCursor
    <2>2. next => mark \in RelCursor
      BY <1>3, <1>10, <1>11 DEF RelCursor
    <2> QED
      BY <2>1, <2>2
  <1>13. next => /\ cursor.index = index /\ cursor.value = value
                 /\ cursor.offset = rel.cursor.offset + PageRows
                 /\ cursor # PostgresRelation!NoCursor
    <2>1. mark.version # 0 /\ PostgresRelation!NoCursor.version = 0
      BY <1>10 DEF PostgresRelation!NoCursor
    <2> QED
      BY <2>1
  <1> HIDE DEF cursor
  <1>14. /\ rel' \in RelRecord
         /\ rel'.shown = shown /\ rel'.ended = ended /\ rel'.by = index /\ rel'.cursor = cursor
         /\ rel'.rows = rel.rows /\ rel'.steady = rel.steady /\ rel'.changes = rel.changes
         /\ rel'.flaws = rel.flaws
    BY <1>2, <1>3, <1>6, <1>7, <1>12, FetchIs, ZenonT(60)
  <1>15. ASSUME index = 0, rel.changes = 0 PROVE HeapShown'
    <2> DEFINE s == Sorted(rel.rows)
               from == rel.cursor.offset
               to == IF from + PageRows <= Len(s) THEN from + PageRows ELSE Len(s)
    <2>1. /\ s \in Seq(PostgresRelation!RowId) /\ Len(s) = Cardinality(rel.rows) /\ Len(s) \in Nat
          /\ shown = SubSeq(s, 1, to) /\ (next <=> from + PageRows < Len(s))
      BY <1>8, <1>15
    <2> HIDE DEF s
    <2>2. CASE next
      <3>1. to = from + PageRows /\ to <= Len(s)
        BY <1>10, <2>1, <2>2
      <3> QED
        BY <1>7, <1>13, <1>14, <2>1, <2>2, <3>1 DEF HeapShown, s
    <2>3. CASE ~next
      <3>1. to = Len(s)
        BY <1>10, <2>1, <2>3
      <3>2. shown = s
        BY <2>1, <3>1, SubSeqFull
      <3> QED
        BY <1>7, <1>14, <2>3, <3>2 DEF HeapShown, s
    <2> QED
      BY <2>2, <2>3
  <1>16. ASSUME index # 0 PROVE KeysShown'
    <2>1. rel.flaws[index] = {} /\ KeysAscend(index, shown)
          /\ (rel.changes = 0 => Elements(shown) \subseteq rel.rows)
      BY <1>3, <1>9, <1>16
    <2>2. ASSUME next
          PROVE  /\ cursor.offset <= cursor.value
                 /\ \A i \in Elements(shown) : Keyed(index, i) <= cursor.value
                 /\ {i \in rel.steady : Keyed(index, i) <= cursor.value} \subseteq Elements(shown)
      BY <1>4, <1>9, <1>13, <1>16, <2>2
    <2>3. ~next => rel.steady \subseteq Elements(shown)
      BY <1>9, <1>16
    <2> QED
      BY <1>7, <1>14, <2>1, <2>2, <2>3 DEF KeysShown, KeysAscend
  <1> QED
    BY <1>7, <1>13, <1>14, <1>15, <1>16 DEF Related

(* A row that comes or goes, an index, the relation.                       *)
LEMMA RelChanges ==
    ASSUME Related,
           PostgresRelation!ChangeRows \/ PostgresRelation!ChangeIndexes \/ PostgresRelation!ChangeRelation
    PROVE  Related'
  <1>1. rel \in RelRecord
    BY DEF Related
  <1>2. /\ rel' \in RelRecord /\ rel'.changes = rel.changes + 1
        /\ rel'.steady \subseteq rel'.rows /\ rel'.steady \subseteq rel.steady
        /\ rel'.shown = rel.shown /\ rel'.ended = rel.ended /\ rel'.by = rel.by
        /\ rel'.cursor = rel.cursor /\ rel'.flaws = rel.flaws
    <2>1. CASE PostgresRelation!ChangeRows
      <3>1. PICK i \in PostgresRelation!RowId :
               rel' = [rel EXCEPT !.changes = @ + 1, !.steady = @ \ {i},
                                  !.rows = IF i \in @ THEN @ \ {i} ELSE @ \union {i}]
        BY <2>1, Zenon DEF PostgresRelation!ChangeRows
      <3> DEFINE changes == rel.changes + 1
                 steady == rel.steady \ {i}
                 rows == IF i \in rel.rows THEN rel.rows \ {i} ELSE rel.rows \union {i}
      <3>2. rel' = [rel EXCEPT !.changes = changes, !.steady = steady, !.rows = rows]
        BY <3>1
      <3>3. /\ changes \in Nat /\ steady \in SUBSET PostgresRelation!RowId /\ steady \subseteq rel.steady
            /\ rows \in SUBSET PostgresRelation!RowId /\ steady \subseteq rows
        BY <3>1, RelFields DEF Related
      <3>4. changes = rel.changes + 1
        OBVIOUS
      <3> HIDE DEF changes, steady, rows
      <3>5. rel' \in RelRecord
        BY <1>1, <3>2, <3>3 DEF RelRecord
      <3> QED
        BY <1>1, <3>2, <3>3, <3>4, <3>5 DEF RelRecord
    <2>2. CASE PostgresRelation!ChangeIndexes
      <3>1. PICK index \in PostgresRelation!Index :
               rel' = [rel EXCEPT !.changes = @ + 1,
                                  !.indexes = IF index \in @ THEN @ \ {index} ELSE @ \union {index}]
        BY <2>2, Zenon DEF PostgresRelation!ChangeIndexes
      <3> DEFINE changes == rel.changes + 1
                 indexes == IF index \in rel.indexes THEN rel.indexes \ {index} ELSE rel.indexes \union {index}
      <3>2. rel' = [rel EXCEPT !.changes = changes, !.indexes = indexes]
        BY <3>1
      <3>3. changes \in Nat /\ indexes \in SUBSET PostgresRelation!Index
        BY <3>1, RelFields, RelNumbers
      <3>4. changes = rel.changes + 1
        OBVIOUS
      <3> HIDE DEF changes, indexes
      <3>5. rel' \in RelRecord
        BY <1>1, <3>2, <3>3 DEF RelRecord
      <3>6. rel.steady \subseteq rel.rows
        BY DEF Related
      <3> QED
        BY <1>1, <3>2, <3>3, <3>4, <3>5, <3>6 DEF RelRecord
    <2>3. CASE PostgresRelation!ChangeRelation
      <3> DEFINE changes == rel.changes + 1
                 version == rel.version + 1
      <3>1. rel' = [rel EXCEPT !.changes = changes, !.version = version, !.steady = {}]
        BY <2>3 DEF PostgresRelation!ChangeRelation
      <3>2. changes \in Nat /\ version \in Nat \ {0}
        BY RelFields
      <3>3. changes = rel.changes + 1
        OBVIOUS
      <3> HIDE DEF changes, version
      <3>4. rel' \in RelRecord
        BY <1>1, <3>1, <3>2 DEF RelRecord
      <3> QED
        BY <1>1, <3>1, <3>2, <3>3, <3>4 DEF RelRecord
    <2> QED
      BY <2>1, <2>2, <2>3
  <1>3. rel.changes \in Nat
    BY RelFields
  <1>4. rel'.changes # 0
    BY <1>2, <1>3
  <1>5. rel.by # 0 => KeysShown'
    <2> SUFFICES ASSUME rel.by # 0 PROVE KeysShown'
      OBVIOUS
    <2>1. KeysShown
      BY DEF Related
    <2>2. /\ rel.flaws[rel.by] = {}
          /\ \A i, k \in 1 .. Len(rel.shown) :
                i < k => Keyed(rel.by, rel.shown[i]) < Keyed(rel.by, rel.shown[k])
          /\ rel.ended => rel.steady \subseteq Elements(rel.shown)
          /\ ~rel.ended =>
                /\ rel.cursor.offset <= rel.cursor.value
                /\ \A i \in Elements(rel.shown) : Keyed(rel.by, i) <= rel.cursor.value
                /\ \A i \in rel.steady : Keyed(rel.by, i) <= rel.cursor.value => i \in Elements(rel.shown)
      BY <2>1 DEF KeysShown
    <2>3. \A i \in rel'.steady : i \in rel.steady
      BY <1>2
    <2> QED
      BY <1>2, <1>4, <2>2, <2>3 DEF KeysShown
  <1>6. ~rel.ended => IF rel.cursor = PostgresRelation!NoCursor THEN rel.shown = <<>> /\ rel.by = 0
                      ELSE rel.cursor.index = rel.by
    BY DEF Related
  <1> QED
    BY <1>2, <1>4, <1>5, <1>6 DEF Related, PostgresRelation!NoCursor

LEMMA RelationStep ==
    ASSUME Related, [PostgresRelation!Next]_rel
    PROVE  Related'
  <1>1. CASE PostgresRelation!FetchPage
    BY <1>1, RelFetches
  <1>2. CASE PostgresRelation!ChangeRows \/ PostgresRelation!ChangeIndexes \/ PostgresRelation!ChangeRelation
    BY <1>2, RelChanges
  <1>3. CASE PostgresRelation!FetchRefused \/ PostgresRelation!Done \/ UNCHANGED rel
    <2>1. rel' = rel
      BY <1>3, Zenon DEF PostgresRelation!FetchRefused, PostgresRelation!Done
    <2> QED
      BY <2>1 DEF Related, HeapShown, KeysShown, PostgresRelation!NoCursor
  <1> QED
    BY <1>1, <1>2, <1>3, Zenon DEF PostgresRelation!Next

LEMMA RelationStart ==
    ASSUME PostgresRelation!Init
    PROVE  Related
  <1>1. PICK rows \in SUBSET PostgresRelation!RowId, large \in SUBSET PostgresRelation!RowId,
             indexes \in SUBSET PostgresRelation!Index,
             flaws \in [PostgresRelation!Index -> SUBSET PostgresRelation!Flaw] :
           rel = [version |-> 1, indexes |-> indexes, flaws |-> flaws, rows |-> rows,
                  large |-> large, steady |-> rows, cursor |-> PostgresRelation!NoCursor,
                  shown |-> <<>>, by |-> PostgresRelation!NoIndex, ended |-> FALSE, changes |-> 0]
    BY Zenon DEF PostgresRelation!Init
  <1>2. /\ rel.rows = rows /\ rel.steady = rows /\ rel.cursor = PostgresRelation!NoCursor
        /\ rel.shown = <<>> /\ rel.by = 0 /\ ~rel.ended /\ rel.changes = 0
    BY <1>1 DEF PostgresRelation!NoIndex
  <1>3. PostgresRelation!NoCursor \in RelCursor /\ PostgresRelation!NoCursor.offset = 0
    BY RelNumbers DEF PostgresRelation!NoCursor, PostgresRelation!NoIndex, PostgresRelation!Null, RelCursor
  <1>4. rel \in RelRecord
    BY <1>1, <1>3 DEF RelRecord, PostgresRelation!NoIndex
  <1>5. HeapShown
    <2>1. Cardinality(rel.rows) \in Nat
      BY <1>2, RowSets
    <2>2. SubSeq(Sorted(rel.rows), 1, 0) = <<>>
      BY SubSeqEmpty
    <2> QED
      BY <1>2, <1>3, <2>1, <2>2 DEF HeapShown
  <1> QED
    BY <1>2, <1>4, <1>5 DEF Related

LEMMA RelationComplete ==
    ASSUME Related
    PROVE  PostgresRelation!TypeOK /\ PostgresRelation!PagesComplete
  <1>1. PostgresRelation!TypeOK
    <2>1. rel.steady \subseteq rel.rows
      BY DEF Related
    <2> QED
      BY <2>1, RelFields, RelNumbers DEF PostgresRelation!TypeOK, PostgresRelation!NoIndex
  <1>2. /\ rel.shown \in Seq(PostgresRelation!RowId) /\ rel.rows \in SUBSET PostgresRelation!RowId
        /\ DOMAIN rel.shown = 1 .. Len(rel.shown) /\ Len(rel.shown) \in Nat
        /\ \A i \in 1 .. Len(rel.shown) : rel.shown[i] \in PostgresRelation!RowId
    BY RelFields, LenProperties, ElementOfSeq
  <1>3. PostgresRelation!Range(rel.shown) = Elements(rel.shown)
    BY DEF PostgresRelation!Range, Elements
  <1>4. ASSUME NEW index, KeysAscend(index, rel.shown) PROVE PostgresRelation!IsInjective(rel.shown)
    <2>1. \A i \in 1 .. Len(rel.shown) : Keyed(index, rel.shown[i]) \in Nat
      BY <1>2, KeysInRange
    <2>2. ASSUME NEW i \in 1 .. Len(rel.shown), NEW k \in 1 .. Len(rel.shown),
                 rel.shown[i] = rel.shown[k]
          PROVE  i = k
      <3>1. ~(i < k) /\ ~(k < i)
        BY <1>4, <2>1, <2>2 DEF KeysAscend
      <3> QED
        BY <1>2, <3>1
    <2> QED
      BY <1>2, <2>2 DEF PostgresRelation!IsInjective
  <1>5. ASSUME rel.by # 0
        PROVE  /\ PostgresRelation!IsInjective(rel.shown)
               /\ rel.ended => rel.steady \subseteq Elements(rel.shown)
    <2>1. KeysShown
      BY <1>5 DEF Related
    <2>2. KeysAscend(rel.by, rel.shown)
      BY <2>1 DEF KeysShown, KeysAscend
    <2> QED
      BY <1>4, <2>1, <2>2 DEF KeysShown
  <1>6. ASSUME rel.ended, rel.changes = 0
        PROVE  PostgresRelation!IsInjective(rel.shown) /\ Elements(rel.shown) = rel.rows
    <2>1. CASE rel.by = 0
      <3>1. rel.shown = Sorted(rel.rows)
        BY <1>6, <2>1 DEF Related, HeapShown
      <3>2. rel.rows \in SUBSET Nat /\ IsFiniteSet(rel.rows)
        BY <1>2, RowSets
      <3>3. Ascends(rel.shown) /\ Elements(rel.shown) = rel.rows
        BY <3>1, <3>2, SortedInOrder
      <3>4. KeysAscend(0, rel.shown)
        BY <3>3 DEF Ascends, KeysAscend, Keyed
      <3> QED
        BY <1>4, <3>3, <3>4
    <2>2. CASE rel.by # 0
      <3>1. KeysShown /\ rel.steady = rel.rows
        BY <1>6, <2>2 DEF Related
      <3>2. Elements(rel.shown) = rel.rows
        BY <1>6, <3>1 DEF KeysShown
      <3> QED
        BY <1>5, <2>2, <3>2
    <2> QED
      BY <2>1, <2>2
  <1> QED
    BY <1>1, <1>3, <1>5, <1>6 DEF PostgresRelation!PagesComplete, PostgresRelation!NoIndex
-----------------------------------------------------------------------------
(* DynamoDB *)

(* Nothing is in a sequence twice.                                         *)
Distinct(s) == \A i, j \in 1 .. Len(s) : s[i] = s[j] => i = j

Token == 0 .. MaxSequence + 1
ShardCursor ==
    [is : {"none", "After", "At", "Unanchored", "Closed"}, sequence : 0 .. MaxSequence,
     token : Token, stale : BOOLEAN]
ShardWork ==
    [after : 0 .. MaxSequence, at : 0 .. MaxSequence, token : Token, stale : BOOLEAN,
     renewed : BOOLEAN, values : Seq(DynamoDbShard!Sequence), next : Token]
ShardRecord ==
    [kind : DynamoDbShard!Kind, low : 1 .. MaxSequence + 1, last : 0 .. MaxSequence,
     sealed : BOOLEAN, start : DynamoDbShard!Sequence,
     present : SUBSET DynamoDbShard!Sequence, steady : SUBSET DynamoDbShard!Sequence,
     keys : SUBSET DynamoDbShard!Sequence, asked : SUBSET DynamoDbShard!Sequence,
     at : {"idle", "iterator", "batch", "page"}, cursor : ShardCursor, work : ShardWork,
     from : Token, shown : Seq(DynamoDbShard!Sequence), ended : BOOLEAN, changes : Nat]

(* The record that comes after those shown.                                *)
NextRecord == shard.from + Len(shard.shown)

(* A place names it, however it is written: after a record, at one, or by  *)
(* an iterator.                                                            *)
Names(next, after, at, token) ==
    /\ after > 0 => after + 1 = next
    /\ after = 0 /\ at > 0 => at = next
    /\ token > 0 => token = next

ShardCursorNames ==
    LET c == shard.cursor IN
    /\ c.sequence <= shard.last
    /\ c.is = "none" => shard.shown = <<>> /\ c.token = 0
    /\ c.is = "After" => c.sequence > 0 /\ Names(NextRecord, c.sequence, 0, c.token)
    /\ c.is = "At" => c.sequence > 0 /\ Names(NextRecord, 0, c.sequence, c.token)
    /\ c.is = "Unanchored" => c.token > 0 /\ Names(NextRecord, 0, 0, c.token)
    /\ c.is # "none" => shard.from > 0 /\ NextRecord <= shard.last + 1

ShardWorkNames ==
    LET w == shard.work IN
    /\ w.after <= shard.last /\ w.at <= shard.last
    /\ shard.at = "iterator" /\ shard.cursor.is # "none" =>
          (w.after > 0 \/ w.at > 0) /\ Names(NextRecord, w.after, w.at, 0)
    /\ shard.at \in {"batch", "page"} =>
          /\ shard.from > 0 /\ NextRecord <= shard.last + 1
          /\ w.token > 0 /\ Names(NextRecord, w.after, w.at, w.token)
    /\ shard.at = "page" =>
          /\ w.token + Len(w.values) <= shard.last + 1
          /\ \A i \in 1 .. Len(w.values) : w.values[i] = w.token + i - 1
          /\ IF w.next = 0 THEN shard.sealed /\ w.token + Len(w.values) = shard.last + 1
             ELSE w.next = w.token + Len(w.values)

(* The records shown follow each other.                                    *)
RecordsShown == shard.shown = [i \in 1 .. Len(shard.shown) |-> shard.from + i - 1]

ShardShown ==
    /\ shard.start <= shard.last /\ shard.low <= shard.last + 1
    /\ RecordsShown
    /\ shard.ended <=> shard.cursor.is = "Closed"
    /\ shard.ended => shard.at = "idle" /\ shard.sealed /\ NextRecord = shard.last + 1
    /\ ShardCursorNames /\ ShardWorkNames

(* What was there all the time, up to the last key, was shown.             *)
ScanShown ==
    /\ shard.at = "idle" /\ Ascends(shard.shown)
    /\ IF shard.ended THEN shard.steady \subseteq Elements(shard.shown)
       ELSE /\ \A i \in Elements(shard.shown) : i <= shard.cursor.sequence
            /\ {i \in shard.steady : i <= shard.cursor.sequence} \subseteq Elements(shard.shown)

KeysAsked ==
    /\ shard.at = "idle" /\ Distinct(shard.shown)
    /\ Elements(shard.shown) \union shard.keys = shard.asked
    /\ Elements(shard.shown) \intersect shard.keys = {}

Sharded ==
    /\ shard \in ShardRecord
    /\ shard.steady \subseteq shard.present
    /\ shard.kind \in DynamoDbShard!Streams => ShardShown
    /\ shard.kind = "list" => ScanShown
    /\ shard.kind = "batch" => KeysAsked

LEMMA ShardNumbers ==
    /\ PageRows \in Nat \ {0} /\ MaxSequence \in Nat \ {0}
    /\ DynamoDbShard!Sequence = 1 .. MaxSequence /\ DynamoDbShard!Sequence \in SUBSET Nat
  <1>1. PageRows \in Nat \ {0} /\ MaxSequence \in Nat \ {0}
    BY PagesAssumption
  <1> QED
    BY <1>1 DEF DynamoDbShard!Sequence

LEMMA ShardFields ==
    ASSUME Sharded
    PROVE  /\ shard \in ShardRecord /\ shard.kind \in DynamoDbShard!Kind
           /\ shard.low \in Nat /\ shard.last \in Nat /\ shard.last <= MaxSequence
           /\ shard.low >= 1 /\ shard.sealed \in BOOLEAN
           /\ shard.start \in DynamoDbShard!Sequence /\ shard.start \in Nat /\ shard.start > 0
           /\ shard.present \in SUBSET DynamoDbShard!Sequence
           /\ shard.steady \in SUBSET DynamoDbShard!Sequence
           /\ shard.keys \in SUBSET DynamoDbShard!Sequence
           /\ shard.at \in {"idle", "iterator", "batch", "page"}
           /\ shard.cursor \in ShardCursor /\ shard.work \in ShardWork
           /\ shard.from \in Token /\ shard.from \in Nat
           /\ shard.shown \in Seq(DynamoDbShard!Sequence) /\ Len(shard.shown) \in Nat
           /\ shard.ended \in BOOLEAN /\ shard.changes \in Nat /\ NextRecord \in Nat
  <1>1. shard \in ShardRecord
    BY DEF Sharded
  <1>2. shard.from \in Nat /\ shard.shown \in Seq(DynamoDbShard!Sequence)
    BY <1>1, ShardNumbers DEF ShardRecord, Token
  <1>3. Len(shard.shown) \in Nat
    BY <1>2, LenProperties
  <1>4. /\ shard.kind \in DynamoDbShard!Kind /\ shard.sealed \in BOOLEAN
        /\ shard.start \in DynamoDbShard!Sequence
        /\ shard.present \in SUBSET DynamoDbShard!Sequence
        /\ shard.steady \in SUBSET DynamoDbShard!Sequence
        /\ shard.keys \in SUBSET DynamoDbShard!Sequence
        /\ shard.at \in {"idle", "iterator", "batch", "page"}
        /\ shard.cursor \in ShardCursor /\ shard.work \in ShardWork /\ shard.from \in Token
        /\ shard.ended \in BOOLEAN
    BY <1>1, Zenon DEF ShardRecord
  <1>5. shard.low \in 1 .. MaxSequence + 1 /\ shard.last \in 0 .. MaxSequence /\ shard.changes \in Nat
    BY <1>1 DEF ShardRecord
  <1>6. shard.start \in 1 .. MaxSequence /\ MaxSequence \in Nat
    BY <1>4, ShardNumbers
  <1>7. shard.low \in Nat /\ shard.last \in Nat /\ shard.last <= MaxSequence /\ shard.low >= 1
    BY <1>5, <1>6
  <1>8. shard.start \in Nat /\ shard.start > 0
    BY <1>6
  <1>9. NextRecord \in Nat
    BY <1>2, <1>3 DEF NextRecord
  <1> QED
    BY <1>1, <1>2, <1>3, <1>4, <1>5, <1>7, <1>8, <1>9

LEMMA CursorFields ==
    ASSUME Sharded
    PROVE  /\ shard.cursor.is \in {"none", "After", "At", "Unanchored", "Closed"}
           /\ shard.cursor.sequence \in Nat /\ shard.cursor.sequence \in 0 .. MaxSequence
           /\ shard.cursor.token \in Token /\ shard.cursor.token \in Nat
           /\ shard.cursor.stale \in BOOLEAN
  BY ShardFields, ShardNumbers DEF ShardCursor, Token

LEMMA WorkFields ==
    ASSUME Sharded
    PROVE  /\ shard.work.after \in Nat /\ shard.work.at \in Nat
           /\ shard.work.after \in 0 .. MaxSequence /\ shard.work.at \in 0 .. MaxSequence
           /\ shard.work.token \in Token /\ shard.work.token \in Nat
           /\ shard.work.stale \in BOOLEAN /\ shard.work.renewed \in BOOLEAN
           /\ shard.work.values \in Seq(DynamoDbShard!Sequence) /\ Len(shard.work.values) \in Nat
           /\ shard.work.next \in Token /\ shard.work.next \in Nat
  <1>1. shard.work.values \in Seq(DynamoDbShard!Sequence)
    BY ShardFields DEF ShardWork
  <1>2. Len(shard.work.values) \in Nat
    BY <1>1, LenProperties
  <1>3. shard.work \in ShardWork
    BY ShardFields
  <1>4. MaxSequence \in Nat \ {0} /\ Token \in SUBSET Nat
    BY ShardNumbers DEF Token
  <1>5. /\ shard.work.after \in 0 .. MaxSequence /\ shard.work.at \in 0 .. MaxSequence
        /\ shard.work.token \in Token /\ shard.work.next \in Token
        /\ shard.work.stale \in BOOLEAN /\ shard.work.renewed \in BOOLEAN
    BY <1>3 DEF ShardWork
  <1>6. shard.work.token \in Nat /\ shard.work.next \in Nat
    BY <1>4, <1>5, Zenon
  <1>7. 0 .. MaxSequence \subseteq Nat
    BY <1>4
  <1>8. shard.work.after \in Nat /\ shard.work.at \in Nat
    BY <1>5, <1>7, Zenon
  <1> QED
    BY <1>1, <1>2, <1>5, <1>6, <1>8, Zenon

LEMMA NoPlace ==
    /\ DynamoDbShard!NoCursor \in ShardCursor /\ DynamoDbShard!NoWork \in ShardWork
    /\ DynamoDbShard!NoCursor.is = "none" /\ DynamoDbShard!NoCursor.sequence = 0
    /\ DynamoDbShard!NoCursor.token = 0 /\ ~DynamoDbShard!NoCursor.stale
    /\ DynamoDbShard!NoWork.after = 0 /\ DynamoDbShard!NoWork.at = 0
  <1>1. <<>> \in Seq(DynamoDbShard!Sequence)
    OBVIOUS
  <1> QED
    BY <1>1, ShardNumbers
       DEF DynamoDbShard!NoCursor, DynamoDbShard!NoWork, ShardCursor, ShardWork, Token

(* Only the records of a shard take more than one request for a page.      *)
LEMMA StreamWorks ==
    ASSUME Sharded, shard.at # "idle" \/ shard.kind \in DynamoDbShard!Streams
    PROVE  shard.kind \in DynamoDbShard!Streams /\ ShardShown /\ (shard.at # "idle" => ~shard.ended)
  <1>1. shard.kind \in DynamoDbShard!Streams \union {"list", "batch"}
    BY ShardFields DEF DynamoDbShard!Kind
  <1>2. shard.kind \in DynamoDbShard!Streams
    BY <1>1 DEF Sharded, ScanShown, KeysAsked
  <1> QED
    BY <1>2 DEF Sharded, ShardShown

LEMMA StreamKinds ==
    ASSUME shard.kind \in DynamoDbShard!Streams, shard'.kind = shard.kind, shard' \in ShardRecord,
           shard'.steady \subseteq shard'.present, ShardShown'
    PROVE  Sharded'
  <1>1. shard.kind # "list" /\ shard.kind # "batch"
    BY DEF DynamoDbShard!Streams
  <1> QED
    BY <1>1 DEF Sharded

(* A request begins where the cursor stands, or where the replay starts.   *)
LEMMA ShardAsks ==
    ASSUME Sharded, DynamoDbShard!Ask
    PROVE  Sharded'
  <1> DEFINE start == IF shard.cursor.is = "none" /\ DynamoDbShard!IsReplay
                      THEN [DynamoDbShard!NoCursor EXCEPT
                               !.is = IF shard.kind = "at" THEN "At" ELSE "After",
                               !.sequence = shard.start]
                      ELSE shard.cursor
             at == IF start.token = 0 THEN "iterator" ELSE "batch"
             after == IF start.is = "After" THEN start.sequence ELSE 0
             first == IF start.is = "At" THEN start.sequence ELSE 0
             work == [DynamoDbShard!NoWork EXCEPT !.after = after, !.at = first,
                                                  !.token = start.token, !.stale = start.stale]
  <1>1. /\ shard.at = "idle" /\ shard.kind \in DynamoDbShard!Streams /\ shard.cursor.is # "Closed"
        /\ shard' = [shard EXCEPT !.at = at, !.work = work]
    BY DEF DynamoDbShard!Ask, DynamoDbShard!At
  <1>2. ShardShown /\ ~shard.ended
    BY <1>1, StreamWorks DEF ShardShown
  <1>3. start \in ShardCursor
    <2>1. DynamoDbShard!NoCursor \in ShardCursor /\ shard.cursor \in ShardCursor
          /\ shard.start \in 0 .. MaxSequence
      BY NoPlace, ShardFields, ShardNumbers
    <2> QED
      BY <2>1 DEF ShardCursor
  <1>4. shard.cursor.is # "none" => start = shard.cursor
    OBVIOUS
  <1>5. shard.cursor.is = "none" =>
          /\ start.token = 0 /\ start.sequence <= shard.last
          /\ start.is = "none" \/ start.is = "After" \/ start.is = "At"
    <2> SUFFICES ASSUME shard.cursor.is = "none"
                 PROVE  /\ start.token = 0 /\ start.sequence <= shard.last
                        /\ start.is = "none" \/ start.is = "After" \/ start.is = "At"
      OBVIOUS
    <2>1. shard.cursor.token = 0 /\ shard.cursor.sequence <= shard.last /\ shard.start <= shard.last
      BY <1>2 DEF ShardShown, ShardCursorNames
    <2>2. CASE DynamoDbShard!IsReplay
      BY <2>1, <2>2, NoPlace DEF DynamoDbShard!NoCursor
    <2>3. CASE ~DynamoDbShard!IsReplay
      BY <2>1, <2>3
    <2> QED
      BY <2>2, <2>3
  <1> HIDE DEF start
  <1>6. start.sequence \in 0 .. MaxSequence /\ start.token \in Token /\ start.token \in Nat
        /\ start.stale \in BOOLEAN /\ start.sequence \in Nat
        /\ shard.last \in Nat /\ NextRecord \in Nat /\ shard.from \in Nat
    BY <1>3, ShardFields, ShardNumbers DEF ShardCursor, Token
  <1>7. after \in 0 .. MaxSequence /\ first \in 0 .. MaxSequence /\ after \in Nat /\ first \in Nat
        /\ at \in {"iterator", "batch"} /\ (at = "batch" <=> start.token # 0)
    BY <1>6, ShardNumbers
  <1>8. /\ ShardCursorNames /\ RecordsShown
        /\ shard.start <= shard.last /\ shard.low <= shard.last + 1
        /\ shard.ended <=> shard.cursor.is = "Closed"
    BY <1>2 DEF ShardShown
  <1>9. after <= shard.last /\ first <= shard.last
    BY <1>4, <1>5, <1>6, <1>8 DEF ShardCursorNames
  <1>10. ASSUME shard.cursor.is # "none"
         PROVE  /\ shard.from > 0 /\ NextRecord <= shard.last + 1
                /\ Names(NextRecord, after, first, start.token)
                /\ start.token = 0 => after > 0 \/ first > 0
    <2>1. shard.cursor.is \in {"After", "At", "Unanchored"}
      BY <1>1, <1>10, CursorFields
    <2> QED
      BY <1>4, <1>6, <1>8, <1>10, <2>1 DEF ShardCursorNames, Names
  <1>11. start.token # 0 => shard.cursor.is # "none"
    BY <1>5
  <1>12. /\ work \in ShardWork /\ work.after = after /\ work.at = first /\ work.token = start.token
    <2>1. DynamoDbShard!NoWork \in ShardWork
      BY NoPlace
    <2> DEFINE token == start.token
               stale == start.stale
               none == DynamoDbShard!NoWork
    <2>2. token \in Token /\ stale \in BOOLEAN /\ none \in ShardWork
          /\ work = [none EXCEPT !.after = after, !.at = first, !.token = token, !.stale = stale]
      BY <1>6, <2>1
    <2> HIDE DEF after, first, token, stale, work, none
    <2>3. /\ work \in ShardWork /\ work.after = after /\ work.at = first /\ work.token = token
      BY <1>7, <2>2 DEF ShardWork
    <2> QED
      BY <2>3 DEF token
  <1> HIDE DEF at, after, first, work
  <1>13. /\ shard' \in ShardRecord /\ shard'.kind = shard.kind /\ shard'.low = shard.low
         /\ shard'.last = shard.last /\ (shard'.sealed <=> shard.sealed) /\ shard'.start = shard.start
         /\ shard'.present = shard.present /\ shard'.steady = shard.steady
         /\ shard'.at = at /\ shard'.cursor = shard.cursor /\ shard'.work = work
         /\ shard'.from = shard.from /\ shard'.shown = shard.shown
         /\ (shard'.ended <=> shard.ended)
    <2>1. shard \in ShardRecord
      BY DEF Sharded
    <2> QED
      BY <1>1, <1>7, <1>12, <2>1 DEF ShardRecord
  <1>14. NextRecord' = NextRecord
    BY <1>13 DEF NextRecord
  <1>15. ShardCursorNames' /\ RecordsShown'
    BY <1>8, <1>13, <1>14 DEF ShardCursorNames, RecordsShown
  <1>16. ShardWorkNames'
    <2>1. at = "batch" => /\ shard.from > 0 /\ NextRecord <= shard.last + 1
                          /\ start.token > 0 /\ Names(NextRecord, after, first, start.token)
      BY <1>6, <1>7, <1>10, <1>11
    <2>2. at = "iterator" /\ shard.cursor.is # "none" =>
             (after > 0 \/ first > 0) /\ Names(NextRecord, after, first, 0)
      BY <1>7, <1>10 DEF Names
    <2>3. at # "page"
      BY <1>7
    <2> QED
      BY <1>9, <1>12, <1>13, <1>14, <2>1, <2>2, <2>3 DEF ShardWorkNames
  <1>17. ShardShown'
    BY <1>2, <1>8, <1>13, <1>15, <1>16 DEF ShardShown
  <1>18. shard.steady \subseteq shard.present
    BY DEF Sharded
  <1> QED
    BY <1>1, <1>13, <1>17, <1>18, StreamKinds

(* The service places the iterator after the record named, at it, or where *)
(* the shard begins or ends.                                               *)
LEMMA ShardPlaces ==
    ASSUME Sharded, DynamoDbShard!Iterator
    PROVE  Sharded'
  <1> DEFINE place == DynamoDbShard!Place
             work == [shard.work EXCEPT !.token = place, !.stale = FALSE]
             from == IF shard.cursor.is = "none" THEN place ELSE shard.from
  <1>1. /\ shard.at = "iterator"
        /\ shard' = [shard EXCEPT !.at = "batch", !.work.token = place, !.work.stale = FALSE,
                                  !.from = IF shard.cursor.is = "none" THEN place ELSE @]
    BY DEF DynamoDbShard!Iterator, DynamoDbShard!At
  <1>2. shard.kind \in DynamoDbShard!Streams /\ ShardShown /\ ~shard.ended
    BY <1>1, StreamWorks
  <1>3. ShardCursorNames /\ ShardWorkNames /\ RecordsShown
        /\ shard.start <= shard.last /\ shard.low <= shard.last + 1
        /\ (shard.ended <=> shard.cursor.is = "Closed")
    BY <1>2 DEF ShardShown
  <1>4. shard.last \in Nat /\ shard.low \in Nat /\ shard.low >= 1 /\ shard.last <= MaxSequence
        /\ MaxSequence \in Nat /\ shard.from \in Nat /\ NextRecord \in Nat
        /\ shard.work.after \in Nat /\ shard.work.at \in Nat
    BY ShardFields, WorkFields, ShardNumbers
  <1>5. shard.work.after <= shard.last /\ shard.work.at <= shard.last
    BY <1>3 DEF ShardWorkNames
  <1>6. place \in Nat /\ place > 0 /\ place <= shard.last + 1
        /\ place = IF shard.work.after > 0 THEN shard.work.after + 1
                   ELSE IF shard.work.at > 0 THEN shard.work.at
                   ELSE IF shard.kind = "follow" THEN shard.last + 1 ELSE shard.low
    BY <1>3, <1>4, <1>5 DEF DynamoDbShard!Place, DynamoDbShard!Work
  <1> HIDE DEF place
  <1>7. place \in Token /\ from \in Token /\ from \in Nat
    BY <1>4, <1>6, ShardFields, SMTT(30) DEF Token
  <1>8. /\ work \in ShardWork /\ work.after = shard.work.after /\ work.at = shard.work.at
        /\ work.token = place
    <2> DEFINE w == shard.work
    <2>1. w \in ShardWork /\ work = [w EXCEPT !.token = place, !.stale = FALSE]
      BY ShardFields
    <2> HIDE DEF w, work
    <2>2. work \in ShardWork /\ work.after = w.after /\ work.at = w.at /\ work.token = place
      BY <1>7, <2>1 DEF ShardWork
    <2> QED
      BY <2>2 DEF w
  <1>9. shard' = [shard EXCEPT !.at = "batch", !.work = work, !.from = from]
    BY <1>1, ShardFields DEF ShardRecord, ShardWork
  <1> HIDE DEF work, from
  <1>10. /\ shard' \in ShardRecord /\ shard'.kind = shard.kind /\ shard'.low = shard.low
         /\ shard'.last = shard.last /\ (shard'.sealed <=> shard.sealed) /\ shard'.start = shard.start
         /\ shard'.present = shard.present /\ shard'.steady = shard.steady
         /\ shard'.at = "batch" /\ shard'.cursor = shard.cursor /\ shard'.work = work
         /\ shard'.from = from /\ shard'.shown = shard.shown /\ (shard'.ended <=> shard.ended)
    <2>1. shard \in ShardRecord
      BY DEF Sharded
    <2> QED
      BY <1>7, <1>8, <1>9, <2>1 DEF ShardRecord
  <1>11. ASSUME shard.cursor.is = "none"
         PROVE  /\ NextRecord' = place /\ shard.shown = <<>> /\ from = place
    <2>1. shard.shown = <<>>
      BY <1>3, <1>11 DEF ShardCursorNames
    <2>2. Len(shard.shown) = 0
      BY <2>1
    <2>3. from = place
      BY <1>11 DEF from
    <2> QED
      BY <1>6, <1>10, <2>1, <2>2, <2>3 DEF NextRecord
  <1>12. ASSUME shard.cursor.is # "none"
         PROVE  /\ NextRecord' = NextRecord /\ NextRecord = place /\ from = shard.from /\ from > 0
    <2>1. from = shard.from
      BY <1>12 DEF from
    <2>2. NextRecord' = NextRecord
      BY <1>10, <2>1 DEF NextRecord
    <2>3. (shard.work.after > 0 \/ shard.work.at > 0)
          /\ Names(NextRecord, shard.work.after, shard.work.at, 0)
      BY <1>1, <1>3, <1>12 DEF ShardWorkNames
    <2>4. NextRecord = place
      BY <1>4, <1>6, <2>3 DEF Names
    <2>5. from > 0
      BY <1>3, <1>12, <2>1 DEF ShardCursorNames
    <2> QED
      BY <2>1, <2>2, <2>4, <2>5
  <1>13. NextRecord' = place /\ from > 0
    BY <1>6, <1>11, <1>12
  <1>14. Names(place, work.after, work.at, work.token)
    BY <1>4, <1>6, <1>8 DEF Names
  <1>14a. ASSUME shard.cursor.is # "none", shard.work.after = 0, shard.work.at = 0 PROVE FALSE
    BY <1>1, <1>3, <1>14a DEF ShardWorkNames
  <1>15. ShardCursorNames'
    <2>1. CASE shard.cursor.is = "none"
      BY <1>3, <1>10, <1>13, <2>1 DEF ShardCursorNames
    <2>2. CASE shard.cursor.is # "none"
      <3>1. NextRecord' = NextRecord /\ from = shard.from
        BY <1>12, <2>2
      <3> QED
        BY <1>3, <1>10, <2>2, <3>1 DEF ShardCursorNames
    <2> QED
      BY <2>1, <2>2
  <1>16. RecordsShown'
    <2>1. CASE shard.cursor.is = "none"
      <3>1. shard'.shown = <<>>
        BY <1>10, <1>11, <2>1
      <3> QED
        BY <3>1 DEF RecordsShown
    <2>2. CASE shard.cursor.is # "none"
      BY <1>3, <1>10, <1>12, <2>2 DEF RecordsShown
    <2> QED
      BY <2>1, <2>2
  <1>17. ShardWorkNames'
    BY <1>5, <1>6, <1>8, <1>10, <1>13, <1>14 DEF ShardWorkNames
  <1>18. ShardShown'
    BY <1>2, <1>3, <1>10, <1>15, <1>16, <1>17 DEF ShardShown
  <1>19. shard.steady \subseteq shard.present
    BY DEF Sharded
  <1> QED
    BY <1>2, <1>10, <1>18, <1>19, StreamKinds

(* Records are read from the iterator on.                                  *)
LEMMA ShardReads ==
    ASSUME Sharded, DynamoDbShard!Batch
    PROVE  Sharded'
  <1> DEFINE token == shard.work.token
  <1>1. /\ shard.at = "batch"
        /\ \E count \in 0 .. DynamoDbShard!Min({PageRows, shard.last + 1 - token}) :
             LET next == token + count IN
             shard' = [shard EXCEPT
                         !.at = "page",
                         !.work.values = [i \in 1 .. count |-> token + i - 1],
                         !.work.next = IF shard.sealed /\ next > shard.last THEN 0 ELSE next]
    BY Zenon DEF DynamoDbShard!Batch, DynamoDbShard!At, DynamoDbShard!Work
  <1>2. shard.kind \in DynamoDbShard!Streams /\ ShardShown /\ ~shard.ended
    BY <1>1, StreamWorks
  <1>3. ShardCursorNames /\ ShardWorkNames /\ RecordsShown
        /\ shard.start <= shard.last /\ shard.low <= shard.last + 1
        /\ (shard.ended <=> shard.cursor.is = "Closed")
    BY <1>2 DEF ShardShown
  <1>4. shard.last \in Nat /\ shard.last <= MaxSequence /\ MaxSequence \in Nat /\ token \in Nat
        /\ PageRows \in Nat \ {0} /\ NextRecord \in Nat
    BY ShardFields, WorkFields, ShardNumbers
  <1>5. shard.from > 0 /\ NextRecord <= shard.last + 1 /\ token > 0 /\ token = NextRecord
        /\ Names(NextRecord, shard.work.after, shard.work.at, token)
    BY <1>1, <1>3 DEF ShardWorkNames, Names
  <1>6. PICK count \in 0 .. DynamoDbShard!Min({PageRows, shard.last + 1 - token}) :
             shard' = [shard EXCEPT
                         !.at = "page",
                         !.work.values = [i \in 1 .. count |-> token + i - 1],
                         !.work.next = IF shard.sealed /\ token + count > shard.last THEN 0
                                       ELSE token + count]
    BY <1>1
  <1>7. count \in Nat /\ token + count <= shard.last + 1
    <2>1. shard.last + 1 - token \in Int /\ PageRows \in Int
      BY <1>4
    <2>2. DynamoDbShard!Min({PageRows, shard.last + 1 - token})
            = IF PageRows <= shard.last + 1 - token THEN PageRows ELSE shard.last + 1 - token
      BY <2>1, LeastOfTwo DEF DynamoDbShard!Min, Least
    <2>3. count \in 0 .. (IF PageRows <= shard.last + 1 - token THEN PageRows ELSE shard.last + 1 - token)
      BY <1>6, <2>2, Zenon
    <2> HIDE DEF token
    <2> QED
      BY <1>4, <1>5, <2>3
  <1> DEFINE values == [i \in 1 .. count |-> token + i - 1]
             next == IF shard.sealed /\ token + count > shard.last THEN 0 ELSE token + count
             work == [shard.work EXCEPT !.values = values, !.next = next]
  <1>8. values \in Seq(DynamoDbShard!Sequence) /\ Len(values) = count
        /\ \A i \in 1 .. Len(values) : values[i] = token + i - 1
    <2> HIDE DEF token
    <2>1. \A i \in 1 .. count : token + i - 1 \in 1 .. MaxSequence
      BY <1>4, <1>5, <1>7
    <2>2. values \in [1 .. count -> DynamoDbShard!Sequence]
      BY <2>1, ShardNumbers
    <2>3. values \in Seq(DynamoDbShard!Sequence)
      BY <1>7, <2>2, SeqDef
    <2>4. DOMAIN values = 1 .. count /\ \A i \in 1 .. count : values[i] = token + i - 1
      OBVIOUS
    <2> HIDE DEF values
    <2>5. Len(values) = count
      BY <1>7, <2>3, <2>4, LenProperties
    <2> QED
      BY <2>3, <2>4, <2>5
  <1>9. next \in Token
    BY <1>4, <1>5, <1>7 DEF Token
  <1>10. /\ IF next = 0 THEN shard.sealed /\ token + count = shard.last + 1 ELSE next = token + count
    BY <1>4, <1>5, <1>7
  <1>11. shard' = [shard EXCEPT !.at = "page", !.work = work]
    BY <1>6, ShardFields DEF ShardRecord, ShardWork
  <1> HIDE DEF values, next
  <1>12. /\ work \in ShardWork /\ work.after = shard.work.after /\ work.at = shard.work.at
         /\ work.token = token /\ work.values = values /\ work.next = next
    <2> DEFINE w == shard.work
    <2>1. w \in ShardWork /\ work = [w EXCEPT !.values = values, !.next = next] /\ token = w.token
      BY ShardFields
    <2> HIDE DEF w, work, token
    <2>2. work \in ShardWork /\ work.after = w.after /\ work.at = w.at /\ work.token = w.token
          /\ work.values = values /\ work.next = next
      BY <1>8, <1>9, <2>1 DEF ShardWork
    <2> QED
      BY <2>1, <2>2 DEF w
  <1> HIDE DEF work
  <1>13. /\ shard' \in ShardRecord /\ shard'.kind = shard.kind /\ shard'.low = shard.low
         /\ shard'.last = shard.last /\ (shard'.sealed <=> shard.sealed) /\ shard'.start = shard.start
         /\ shard'.present = shard.present /\ shard'.steady = shard.steady
         /\ shard'.at = "page" /\ shard'.cursor = shard.cursor /\ shard'.work = work
         /\ shard'.from = shard.from /\ shard'.shown = shard.shown /\ (shard'.ended <=> shard.ended)
    <2>1. shard \in ShardRecord
      BY DEF Sharded
    <2> QED
      BY <1>11, <1>12, <2>1 DEF ShardRecord
  <1>14. NextRecord' = NextRecord
    BY <1>13 DEF NextRecord
  <1>15. ShardCursorNames' /\ RecordsShown'
    BY <1>3, <1>13, <1>14 DEF ShardCursorNames, RecordsShown
  <1>16. ShardWorkNames'
    <2>1. shard.work.after <= shard.last /\ shard.work.at <= shard.last
      BY <1>3 DEF ShardWorkNames
    <2> HIDE DEF token
    <2> QED
      BY <1>5, <1>7, <1>8, <1>10, <1>12, <1>13, <1>14, <2>1 DEF ShardWorkNames
  <1>17. ShardShown'
    BY <1>2, <1>3, <1>13, <1>15, <1>16 DEF ShardShown
  <1>18. shard.steady \subseteq shard.present
    BY DEF Sharded
  <1> QED
    BY <1>2, <1>13, <1>17, <1>18, StreamKinds

(* A page that failed, or whose iterator expired for good: the cursor is   *)
(* what it was.                                                            *)
LEMMA ShardFails ==
    ASSUME Sharded, shard.at # "idle", shard' = DynamoDbShard!Fails
    PROVE  Sharded'
  <1>1. shard' = [shard EXCEPT !.at = "idle", !.work = DynamoDbShard!NoWork]
    BY DEF DynamoDbShard!Fails
  <1>2. shard.kind \in DynamoDbShard!Streams /\ ShardShown /\ ~shard.ended
    BY StreamWorks
  <1>3. /\ shard' \in ShardRecord /\ shard'.kind = shard.kind /\ shard'.low = shard.low
        /\ shard'.last = shard.last /\ (shard'.sealed <=> shard.sealed) /\ shard'.start = shard.start
        /\ shard'.present = shard.present /\ shard'.steady = shard.steady
        /\ shard'.at = "idle" /\ shard'.cursor = shard.cursor /\ shard'.work = DynamoDbShard!NoWork
        /\ shard'.from = shard.from /\ shard'.shown = shard.shown /\ (shard'.ended <=> shard.ended)
    <2>1. shard \in ShardRecord /\ DynamoDbShard!NoWork \in ShardWork
      BY NoPlace DEF Sharded
    <2> QED
      BY <1>1, <2>1, ZenonT(60) DEF ShardRecord
  <1>4. NextRecord' = NextRecord
    BY <1>3 DEF NextRecord
  <1>5. ShardCursorNames' /\ RecordsShown'
    BY <1>2, <1>3, <1>4 DEF ShardShown, ShardCursorNames, RecordsShown
  <1>6. ShardWorkNames'
    <2>1. shard.last \in Nat
      BY ShardFields
    <2> QED
      BY <1>3, <2>1, NoPlace DEF ShardWorkNames
  <1>7. ShardShown'
    BY <1>2, <1>3, <1>5, <1>6 DEF ShardShown
  <1>8. shard.steady \subseteq shard.present
    BY DEF Sharded
  <1> QED
    BY <1>2, <1>3, <1>7, <1>8, StreamKinds

(* An iterator that expired is asked for again, once.                      *)
LEMMA ShardRenews ==
    ASSUME Sharded, DynamoDbShard!Expired
    PROVE  Sharded'
  <1>1. shard.at = "batch"
    BY DEF DynamoDbShard!Expired, DynamoDbShard!At
  <1>2. \/ shard' = DynamoDbShard!Fails
        \/ /\ shard.work.after > 0 \/ shard.work.at > 0
           /\ shard' = [shard EXCEPT !.at = "iterator", !.work.renewed = TRUE]
    BY DEF DynamoDbShard!Expired, DynamoDbShard!Work
  <1>3. CASE shard' = DynamoDbShard!Fails
    BY <1>1, <1>3, ShardFails
  <1>4. CASE /\ shard.work.after > 0 \/ shard.work.at > 0
             /\ shard' = [shard EXCEPT !.at = "iterator", !.work.renewed = TRUE]
    <2> DEFINE work == [shard.work EXCEPT !.renewed = TRUE]
    <2>1. shard.kind \in DynamoDbShard!Streams /\ ShardShown /\ ~shard.ended
      BY <1>1, StreamWorks
    <2>2. /\ work \in ShardWork /\ work.after = shard.work.after /\ work.at = shard.work.at
      BY ShardFields DEF ShardWork
    <2>3. shard' = [shard EXCEPT !.at = "iterator", !.work = work]
      BY <1>4, ShardFields DEF ShardRecord, ShardWork
    <2> HIDE DEF work
    <2>4. /\ shard' \in ShardRecord /\ shard'.kind = shard.kind /\ shard'.low = shard.low
          /\ shard'.last = shard.last /\ (shard'.sealed <=> shard.sealed) /\ shard'.start = shard.start
          /\ shard'.present = shard.present /\ shard'.steady = shard.steady
          /\ shard'.at = "iterator" /\ shard'.cursor = shard.cursor /\ shard'.work = work
          /\ shard'.from = shard.from /\ shard'.shown = shard.shown /\ (shard'.ended <=> shard.ended)
      <3>1. shard \in ShardRecord
        BY DEF Sharded
      <3> QED
        BY <2>2, <2>3, <3>1 DEF ShardRecord
    <2>5. NextRecord' = NextRecord
      BY <2>4 DEF NextRecord
    <2>6. ShardCursorNames' /\ RecordsShown'
      BY <2>1, <2>4, <2>5 DEF ShardShown, ShardCursorNames, RecordsShown
    <2>7. ShardWorkNames'
      <3>1. /\ shard.work.after <= shard.last /\ shard.work.at <= shard.last
            /\ Names(NextRecord, shard.work.after, shard.work.at, 0)
        BY <1>1, <2>1 DEF ShardShown, ShardWorkNames, Names
      <3> QED
        BY <1>4, <2>2, <2>4, <2>5, <3>1 DEF ShardWorkNames
    <2>8. ShardShown'
      BY <2>1, <2>4, <2>6, <2>7 DEF ShardShown
    <2>9. shard.steady \subseteq shard.present
      BY DEF Sharded
    <2> QED
      BY <2>1, <2>4, <2>8, <2>9, StreamKinds
  <1> QED
    BY <1>2, <1>3, <1>4

(* What the service does meanwhile: records are written and trimmed, the   *)
(* shard is split.                                                         *)
LEMMA ShardChanges ==
    ASSUME Sharded, DynamoDbShard!Written \/ DynamoDbShard!Trimmed \/ DynamoDbShard!Sealed
    PROVE  Sharded'
  <1>1. shard.kind \in DynamoDbShard!Streams
    BY DEF DynamoDbShard!Written, DynamoDbShard!Trimmed, DynamoDbShard!Sealed
  <1>2. ShardShown
    BY <1>1, StreamWorks
  <1>3. shard \in ShardRecord /\ shard.low \in Nat /\ shard.last \in Nat /\ shard.last <= MaxSequence
        /\ shard.low >= 1 /\ MaxSequence \in Nat /\ shard.changes \in Nat
    BY ShardFields, ShardNumbers
  <1>4. /\ shard' \in ShardRecord /\ shard'.kind = shard.kind
        /\ shard'.last \in Nat /\ shard'.last >= shard.last /\ shard'.low <= shard'.last + 1
        /\ (shard.sealed => shard'.last = shard.last /\ shard'.sealed) /\ shard'.start = shard.start
        /\ shard'.present = shard.present /\ shard'.steady = shard.steady
        /\ shard'.at = shard.at /\ shard'.cursor = shard.cursor /\ shard'.work = shard.work
        /\ shard'.from = shard.from /\ shard'.shown = shard.shown /\ (shard'.ended <=> shard.ended)
    <2>1. CASE DynamoDbShard!Written
      <3> DEFINE changes == shard.changes + 1
                 last == shard.last + 1
      <3>1. ~shard.sealed /\ shard.last < MaxSequence
            /\ shard' = [DynamoDbShard!Changed EXCEPT !.last = @ + 1]
        BY <2>1 DEF DynamoDbShard!Written
      <3>2. shard' = [shard EXCEPT !.changes = changes, !.last = last]
        BY <1>3, <3>1 DEF DynamoDbShard!Changed, ShardRecord
      <3>3. changes \in Nat /\ last \in 0 .. MaxSequence /\ last >= shard.last /\ last \in Nat
            /\ shard.low <= last + 1
        BY <1>2, <1>3, <3>1 DEF ShardShown
      <3> HIDE DEF changes, last
      <3>4. shard' \in ShardRecord /\ shard'.last = last /\ shard'.low = shard.low
        BY <1>3, <3>2, <3>3 DEF ShardRecord
      <3> QED
        BY <1>3, <3>1, <3>2, <3>3, <3>4 DEF ShardRecord
    <2>2. CASE DynamoDbShard!Trimmed
      <3> DEFINE changes == shard.changes + 1
                 low == shard.low + 1
      <3>1. shard.low <= shard.last /\ shard' = [DynamoDbShard!Changed EXCEPT !.low = @ + 1]
        BY <2>2 DEF DynamoDbShard!Trimmed
      <3>2. shard' = [shard EXCEPT !.changes = changes, !.low = low]
        BY <1>3, <3>1 DEF DynamoDbShard!Changed, ShardRecord
      <3>3. changes \in Nat /\ low \in 1 .. MaxSequence + 1 /\ low <= shard.last + 1
        BY <1>3, <3>1
      <3> HIDE DEF changes, low
      <3>4. shard' \in ShardRecord /\ shard'.low = low /\ shard'.last = shard.last
            /\ (shard'.sealed <=> shard.sealed)
        BY <1>3, <3>2, <3>3 DEF ShardRecord
      <3> QED
        BY <1>3, <3>2, <3>3, <3>4 DEF ShardRecord
    <2>3. CASE DynamoDbShard!Sealed
      <3>1. shard' = [shard EXCEPT !.sealed = TRUE]
        BY <2>3 DEF DynamoDbShard!Sealed
      <3>2. shard.low <= shard.last + 1
        BY <1>2 DEF ShardShown
      <3>3. /\ shard' \in ShardRecord /\ shard'.kind = shard.kind
            /\ shard'.last = shard.last /\ shard'.low = shard.low /\ shard'.sealed
            /\ shard'.start = shard.start
            /\ shard'.present = shard.present /\ shard'.steady = shard.steady
            /\ shard'.at = shard.at /\ shard'.cursor = shard.cursor /\ shard'.work = shard.work
            /\ shard'.from = shard.from /\ shard'.shown = shard.shown /\ (shard'.ended <=> shard.ended)
        BY <1>3, <3>1 DEF ShardRecord
      <3> QED
        BY <1>3, <3>2, <3>3
    <2> QED
      BY <2>1, <2>2, <2>3
  <1>5. NextRecord' = NextRecord /\ NextRecord \in Nat
    BY <1>4, ShardFields DEF NextRecord
  <1>6. ShardCursorNames'
    <2>1. ShardCursorNames /\ shard.cursor.sequence \in Nat
      BY <1>2, CursorFields DEF ShardShown
    <2> QED
      BY <1>3, <1>4, <1>5, <2>1 DEF ShardCursorNames
  <1>7. ShardWorkNames'
    <2>1. ShardWorkNames /\ shard.work.after \in Nat /\ shard.work.at \in Nat /\ shard.work.token \in Nat
          /\ Len(shard.work.values) \in Nat
      BY <1>2, WorkFields DEF ShardShown
    <2>2. shard.work.after <= shard'.last /\ shard.work.at <= shard'.last
      BY <1>3, <1>4, <2>1 DEF ShardWorkNames
    <2>3. shard.at \in {"batch", "page"} => NextRecord <= shard'.last + 1
      BY <1>3, <1>4, <1>5, <2>1 DEF ShardWorkNames
    <2>4. shard.at = "page" =>
             /\ shard.work.token + Len(shard.work.values) <= shard'.last + 1
             /\ shard.work.next = 0 =>
                   shard'.sealed /\ shard.work.token + Len(shard.work.values) = shard'.last + 1
      BY <1>3, <1>4, <2>1, SMTT(30) DEF ShardWorkNames
    <2> QED
      BY <1>4, <1>5, <2>1, <2>2, <2>3, <2>4 DEF ShardWorkNames
  <1>8. RecordsShown'
    BY <1>2, <1>4 DEF ShardShown, RecordsShown
  <1>9. ShardShown'
    <2>1. shard.start \in Nat /\ shard.start <= shard.last
      BY <1>2, ShardFields DEF ShardShown
    <2>2. shard.start <= shard'.last
      BY <1>3, <1>4, <2>1
    <2> QED
      BY <1>2, <1>4, <1>5, <1>6, <1>7, <1>8, <2>2 DEF ShardShown
  <1>10. shard.steady \subseteq shard.present
    BY DEF Sharded
  <1> QED
    BY <1>1, <1>4, <1>9, <1>10, StreamKinds

(* An iterator expires: the place it named is the same.                    *)
LEMMA ShardExpires ==
    ASSUME Sharded, DynamoDbShard!Expire
    PROVE  Sharded'
  <1> DEFINE first == shard.cursor.token > 0
             second == shard.work.token > 0
             cursor == [shard.cursor EXCEPT !.stale = first]
             work == [shard.work EXCEPT !.stale = second]
  <1>1. shard.kind \in DynamoDbShard!Streams
        /\ shard' = [shard EXCEPT !.cursor.stale = first, !.work.stale = second]
    BY DEF DynamoDbShard!Expire, DynamoDbShard!Work
  <1>2. ShardShown
    BY <1>1, StreamWorks
  <1>3. first \in BOOLEAN /\ second \in BOOLEAN
    OBVIOUS
  <1>4. shard' = [shard EXCEPT !.cursor = cursor, !.work = work]
    BY <1>1, ShardFields DEF ShardRecord, ShardWork, ShardCursor
  <1> HIDE DEF first, second
  <1>5. /\ cursor \in ShardCursor /\ cursor.is = shard.cursor.is
        /\ cursor.sequence = shard.cursor.sequence /\ cursor.token = shard.cursor.token
    BY <1>3, ShardFields DEF ShardCursor
  <1>6. /\ work \in ShardWork /\ work.after = shard.work.after /\ work.at = shard.work.at
        /\ work.token = shard.work.token /\ work.values = shard.work.values
        /\ work.next = shard.work.next
    BY <1>3, ShardFields DEF ShardWork
  <1> HIDE DEF cursor, work
  <1>7. /\ shard' \in ShardRecord /\ shard'.kind = shard.kind /\ shard'.low = shard.low
        /\ shard'.last = shard.last /\ (shard'.sealed <=> shard.sealed) /\ shard'.start = shard.start
        /\ shard'.present = shard.present /\ shard'.steady = shard.steady
        /\ shard'.at = shard.at /\ shard'.cursor = cursor /\ shard'.work = work
        /\ shard'.from = shard.from /\ shard'.shown = shard.shown /\ (shard'.ended <=> shard.ended)
    <2>1. shard \in ShardRecord
      BY DEF Sharded
    <2> QED
      BY <1>4, <1>5, <1>6, <2>1 DEF ShardRecord
  <1>8. NextRecord' = NextRecord
    BY <1>7 DEF NextRecord
  <1>9. ShardCursorNames' /\ RecordsShown' /\ ShardWorkNames'
    BY <1>2, <1>5, <1>6, <1>7, <1>8 DEF ShardShown, ShardCursorNames, RecordsShown, ShardWorkNames
  <1>10. ShardShown'
    BY <1>2, <1>5, <1>7, <1>8, <1>9 DEF ShardShown
  <1>11. shard.steady \subseteq shard.present
    BY DEF Sharded
  <1> QED
    BY <1>1, <1>7, <1>10, <1>11, StreamKinds

(* A page is shown: records that follow those shown before, and a cursor   *)
(* that names the next.                                                    *)
LEMMA ShardShows ==
    ASSUME Sharded, DynamoDbShard!PageEnds
    PROVE  Sharded'
  <1> DEFINE values == shard.work.values
             token == shard.work.token
             l == Len(shard.shown)
  <1>1. /\ shard.at = "page"
        /\ \E count \in 0 .. Len(values) :
             LET rows == SubSeq(values, 1, count)
                 cut == count < Len(values)
                 cursor == DynamoDbShard!CursorAfter(rows, cut)
             IN /\ cut => count > 0
                /\ shard' = [shard EXCEPT !.at = "idle", !.work = DynamoDbShard!NoWork, !.cursor = cursor,
                                          !.shown = @ \o rows, !.ended = cursor.is = "Closed"]
    BY Zenon DEF DynamoDbShard!PageEnds, DynamoDbShard!At, DynamoDbShard!Work
  <1>2. PICK count \in 0 .. Len(values) :
             LET rows == SubSeq(values, 1, count)
                 cut == count < Len(values)
                 cursor == DynamoDbShard!CursorAfter(rows, cut)
             IN /\ cut => count > 0
                /\ shard' = [shard EXCEPT !.at = "idle", !.work = DynamoDbShard!NoWork, !.cursor = cursor,
                                          !.shown = @ \o rows, !.ended = cursor.is = "Closed"]
    BY <1>1, Zenon
  <1> DEFINE rows == SubSeq(values, 1, count)
             cut == count < Len(values)
             cursor == DynamoDbShard!CursorAfter(rows, cut)
             shown == shard.shown \o rows
             ended == cursor.is = "Closed"
             after == IF rows = <<>> THEN shard.work.after ELSE rows[Len(rows)]
  <1>3. /\ cut => count > 0
        /\ shard' = [shard EXCEPT !.at = "idle", !.work = DynamoDbShard!NoWork, !.cursor = cursor,
                                  !.shown = shown, !.ended = ended]
    BY <1>2, Zenon
  <1>4. shard.kind \in DynamoDbShard!Streams /\ ShardShown /\ ~shard.ended
    BY <1>1, StreamWorks
  <1>5. ShardCursorNames /\ ShardWorkNames /\ RecordsShown
        /\ shard.start <= shard.last /\ shard.low <= shard.last + 1
    BY <1>4 DEF ShardShown
  <1>6. /\ shard.from > 0 /\ NextRecord <= shard.last + 1 /\ token > 0
        /\ Names(NextRecord, shard.work.after, shard.work.at, token) /\ token = NextRecord
        /\ token + Len(values) <= shard.last + 1
        /\ \A i \in 1 .. Len(values) : values[i] = token + i - 1
        /\ IF shard.work.next = 0 THEN shard.sealed /\ token + Len(values) = shard.last + 1
           ELSE shard.work.next = token + Len(values)
        /\ shard.work.after <= shard.last /\ shard.work.at <= shard.last
    BY <1>1, <1>5 DEF ShardWorkNames, Names
  <1>7. /\ values \in Seq(DynamoDbShard!Sequence) /\ Len(values) \in Nat /\ token \in Nat
        /\ shard.work.after \in Nat /\ shard.work.at \in Nat /\ shard.work.next \in Nat
        /\ shard.work.next \in Token /\ shard.work.at \in 0 .. MaxSequence
        /\ shard.work.after \in 0 .. MaxSequence
        /\ shard.last \in Nat /\ shard.last <= MaxSequence /\ MaxSequence \in Nat
        /\ shard.from \in Nat /\ l \in Nat /\ NextRecord = shard.from + l
        /\ shard.shown \in Seq(DynamoDbShard!Sequence)
    BY ShardFields, WorkFields, ShardNumbers DEF NextRecord
  <1> HIDE DEF values, token
  <1>8. rows \in Seq(DynamoDbShard!Sequence) /\ Len(rows) = count
        /\ \A k \in 1 .. count : rows[k] = values[k]
    BY <1>7, FirstOf
  <1>9. count \in Nat /\ count <= Len(values)
    BY <1>7
  <1>10. \A k \in 1 .. count : rows[k] = token + k - 1
    BY <1>6, <1>7, <1>8
  <1>11. rows = <<>> <=> count = 0
    BY <1>8, EmptySeq
  <1>12. after = IF count = 0 THEN shard.work.after ELSE token + count - 1
    <2>1. count # 0 => rows[Len(rows)] = token + count - 1
      <3> SUFFICES ASSUME count # 0 PROVE rows[Len(rows)] = token + count - 1
        OBVIOUS
      <3>1. rows[Len(rows)] = rows[count]
        BY <1>8
      <3>2. count \in 1 .. count
        BY <1>9
      <3> QED
        BY <1>10, <3>1, <3>2
    <2> HIDE DEF rows
    <2> QED
      BY <1>11, <2>1
  <1>13. cursor = CASE cut -> [DynamoDbShard!NoCursor EXCEPT !.is = "After", !.sequence = after]
                    [] ~cut /\ shard.work.next = 0 -> [DynamoDbShard!NoCursor EXCEPT !.is = "Closed"]
                    [] OTHER -> [is |-> IF after > 0 THEN "After" ELSE IF shard.work.at > 0 THEN "At" ELSE "Unanchored",
                                 sequence |-> IF after > 0 THEN after ELSE shard.work.at,
                                 token |-> shard.work.next, stale |-> FALSE]
    BY Zenon DEF DynamoDbShard!CursorAfter, DynamoDbShard!Work
  <1>14. cut \in BOOLEAN /\ (cut <=> count < Len(values)) /\ (cut => count > 0)
    BY <1>3
  <1>15. ended \in BOOLEAN /\ (ended <=> cursor.is = "Closed")
    OBVIOUS
  <1> HIDE DEF rows, cut, cursor, ended, after, shown, l
  <1>16. after \in Nat /\ after <= shard.last /\ after \in 0 .. MaxSequence
         /\ (after > 0 => after + 1 = token + count)
         /\ (after = 0 => count = 0 /\ shard.work.after = 0)
    <2>1. CASE count = 0
      BY <1>6, <1>7, <1>12, <2>1 DEF Names
    <2>2. CASE count # 0
      <3>1. after = token + count - 1 /\ token > 0 /\ count \in Nat /\ count # 0 /\ token \in Nat
            /\ token + Len(values) <= shard.last + 1 /\ count <= Len(values) /\ Len(values) \in Nat
            /\ shard.last \in Nat /\ shard.last <= MaxSequence /\ MaxSequence \in Nat
        BY <1>6, <1>7, <1>9, <1>12, <2>2
      <3>2. after \in Nat /\ after > 0 /\ after + 1 = token + count
        BY <3>1
      <3>3. after <= shard.last
        BY <3>1
      <3> QED
        BY <3>1, <3>2, <3>3
    <2> QED
      BY <2>1, <2>2
  <1> DEFINE next == token + count
             Follows == /\ cursor \in ShardCursor /\ cursor.sequence <= shard.last
                        /\ cursor.is = "After" => cursor.sequence > 0 /\ Names(next, cursor.sequence, 0, cursor.token)
                        /\ cursor.is = "At" => cursor.sequence > 0 /\ Names(next, 0, cursor.sequence, cursor.token)
                        /\ cursor.is = "Unanchored" => cursor.token > 0 /\ Names(next, 0, 0, cursor.token)
                        /\ cursor.is # "none"
                        /\ cursor.is = "Closed" => shard.sealed /\ next = shard.last + 1
  <1>17. next \in Nat /\ next <= shard.last + 1 /\ next > 0
    <2>1. /\ token + Len(values) <= shard.last + 1 /\ token > 0 /\ count <= Len(values)
          /\ token \in Nat /\ count \in Nat /\ Len(values) \in Nat /\ shard.last \in Nat
      BY <1>6, <1>7, <1>9
    <2> DEFINE n == Len(values)
    <2> HIDE DEF n
    <2> QED
      BY <2>1 DEF n
  <1>18. DynamoDbShard!NoCursor \in ShardCursor /\ DynamoDbShard!NoCursor.token = 0
         /\ DynamoDbShard!NoCursor.sequence = 0
    BY NoPlace
  <1>19. ASSUME cut PROVE Follows
    <2>1. cursor = [DynamoDbShard!NoCursor EXCEPT !.is = "After", !.sequence = after]
      BY <1>13, <1>19
    <2>2. after > 0
      BY <1>14, <1>16, <1>19
    <2>3. /\ cursor \in ShardCursor /\ cursor.is = "After" /\ cursor.sequence = after /\ cursor.token = 0
      BY <1>16, <1>18, <2>1 DEF ShardCursor
    <2>4. Names(next, after, 0, 0)
      BY <1>16, <2>2 DEF Names
    <2> QED
      BY <1>16, <2>2, <2>3, <2>4
  <1>20. ASSUME ~cut, shard.work.next = 0 PROVE Follows
    <2>1. cursor = [DynamoDbShard!NoCursor EXCEPT !.is = "Closed"]
      BY <1>13, <1>20
    <2>2. cursor \in ShardCursor /\ cursor.is = "Closed" /\ cursor.sequence = 0
      BY <1>18, <2>1 DEF ShardCursor
    <2>3. count = Len(values)
      BY <1>7, <1>9, <1>14, <1>20
    <2>4. shard.sealed /\ next = shard.last + 1
      BY <1>6, <1>20, <2>3
    <2> QED
      BY <1>7, <2>2, <2>4
  <1>21. ASSUME ~cut, shard.work.next # 0 PROVE Follows
    <2> DEFINE is == IF after > 0 THEN "After" ELSE IF shard.work.at > 0 THEN "At" ELSE "Unanchored"
               sequence == IF after > 0 THEN after ELSE shard.work.at
    <2>1. cursor = [is |-> is, sequence |-> sequence, token |-> shard.work.next, stale |-> FALSE]
      BY <1>13, <1>21
    <2>2. sequence \in 0 .. MaxSequence /\ sequence <= shard.last
      BY <1>6, <1>7, <1>16
    <2>3. is \in {"After", "At", "Unanchored"}
      OBVIOUS
    <2>4. count = Len(values)
      BY <1>7, <1>9, <1>14, <1>21
    <2>5. shard.work.next = next /\ next > 0
      BY <1>6, <1>17, <1>21, <2>4
    <2>6. is = "After" => sequence = after /\ after > 0
      OBVIOUS
    <2>7. is = "At" => sequence = shard.work.at /\ shard.work.at > 0 /\ after = 0
      BY <1>16
    <2>8. after = 0 /\ shard.work.at > 0 => shard.work.at = next
      BY <1>6, <1>7, <1>16 DEF Names
    <2> HIDE DEF is, sequence
    <2>9. cursor \in ShardCursor /\ cursor.is = is /\ cursor.sequence = sequence
          /\ cursor.token = shard.work.next
      BY <1>7, <2>1, <2>2, <2>3 DEF ShardCursor
    <2> HIDE DEF next
    <2>10. is = "After" => Names(next, sequence, 0, shard.work.next) /\ sequence > 0
      BY <1>16, <2>5, <2>6 DEF Names, next
    <2>11. is = "At" => Names(next, 0, sequence, shard.work.next) /\ sequence > 0
      BY <2>5, <2>7, <2>8 DEF Names
    <2>12. Names(next, 0, 0, shard.work.next)
      BY <2>5 DEF Names
    <2> QED
      BY <2>2, <2>3, <2>5, <2>9, <2>10, <2>11, <2>12
  <1>22. Follows
    <2> HIDE DEF Follows
    <2> QED
      BY <1>19, <1>20, <1>21
  <1>23. shown \in Seq(DynamoDbShard!Sequence) /\ Len(shown) = l + count
         /\ \A k \in 1 .. Len(shown) : shown[k] = shard.from + k - 1
    <2>1. /\ shown \in Seq(DynamoDbShard!Sequence) /\ Len(shown) = l + count
          /\ \A k \in 1 .. l : shown[k] = shard.shown[k]
          /\ \A k \in 1 .. count : shown[l + k] = rows[k]
      <3>1. /\ shard.shown \in Seq(DynamoDbShard!Sequence) /\ rows \in Seq(DynamoDbShard!Sequence)
        BY <1>7, <1>8
      <3>2. /\ shown \in Seq(DynamoDbShard!Sequence) /\ Len(shown) = Len(shard.shown) + Len(rows)
            /\ \A k \in 1 .. Len(shard.shown) + Len(rows) :
                 shown[k] = IF k <= Len(shard.shown) THEN shard.shown[k] ELSE rows[k - Len(shard.shown)]
        BY <3>1, ConcatProperties DEF shown
      <3>3. Len(shard.shown) = l /\ Len(rows) = count /\ l \in Nat /\ count \in Nat
        BY <1>7, <1>8, <1>9 DEF l
      <3>4. \A k \in 1 .. l + count : shown[k] = IF k <= l THEN shard.shown[k] ELSE rows[k - l]
        BY <3>2, <3>3
      <3>5. \A k \in 1 .. l : shown[k] = shard.shown[k]
        BY <3>3, <3>4
      <3>6. \A k \in 1 .. count : shown[l + k] = rows[k]
        <4> SUFFICES ASSUME NEW k \in 1 .. count PROVE shown[l + k] = rows[k]
          OBVIOUS
        <4> DEFINE j == l + k
        <4>1. k \in Int /\ k >= 1 /\ k <= count /\ l \in Nat /\ count \in Nat
          BY <3>3
        <4>2. j \in 1 .. l + count /\ ~(j <= l) /\ j - l = k
          BY <4>1
        <4> HIDE DEF j
        <4>3. shown[j] = rows[j - l]
          BY <3>4, <4>2
        <4>4. shown[j] = rows[k]
          BY <4>2, <4>3
        <4> QED
          BY <4>4 DEF j
      <3> QED
        BY <3>2, <3>3, <3>5, <3>6
    <2>2. \A k \in 1 .. l : shown[k] = shard.from + k - 1
      <3>1. RecordsShown /\ \A k \in 1 .. l : shown[k] = shard.shown[k]
        BY <1>5, <2>1
      <3> QED
        BY <3>1 DEF RecordsShown, l
    <2>3. \A k \in 1 .. count : shown[l + k] = shard.from + l + k - 1
      <3> SUFFICES ASSUME NEW k \in 1 .. count PROVE shown[l + k] = shard.from + l + k - 1
        OBVIOUS
      <3>1. shown[l + k] = token + k - 1 /\ token = shard.from + l
        BY <1>6, <1>7, <1>10, <2>1
      <3>2. shard.from \in Nat /\ l \in Nat /\ k \in Int
        BY <1>7, <1>9
      <3> QED
        BY <3>1, <3>2
    <2>4. ASSUME NEW k \in 1 .. l + count PROVE shown[k] = shard.from + k - 1
      <3>1. CASE k <= l
        BY <1>7, <1>9, <2>2, <3>1, SMTT(30)
      <3>2. CASE k > l
        <4> DEFINE j == k - l
        <4>1. j \in 1 .. count /\ l + j = k /\ shard.from + l + j - 1 = shard.from + k - 1
          BY <1>7, <1>9, <3>2
        <4> HIDE DEF j
        <4> QED
          BY <2>3, <4>1
      <3> QED
        BY <1>7, <1>9, <3>1, <3>2
    <2> QED
      BY <2>1, <2>4
  <1>24. /\ shard' \in ShardRecord
         /\ shard'.kind = shard.kind /\ shard'.last = shard.last /\ shard'.low = shard.low
         /\ shard'.start = shard.start /\ shard'.sealed = shard.sealed /\ shard'.from = shard.from
         /\ shard'.steady = shard.steady /\ shard'.present = shard.present
         /\ shard'.at = "idle" /\ shard'.work = DynamoDbShard!NoWork /\ shard'.cursor = cursor
         /\ shard'.shown = shown /\ (shard'.ended <=> ended)
    <2>1. shard \in ShardRecord /\ DynamoDbShard!NoWork \in ShardWork /\ cursor \in ShardCursor
      BY <1>22, NoPlace, ShardFields
    <2> HIDE DEF Follows, next
    <2> QED
      BY <1>3, <1>15, <1>23, <2>1 DEF ShardRecord
  <1>25. NextRecord' = next
    <2>1. NextRecord' = shard.from + Len(shown) /\ Len(shown) = l + count /\ token = shard.from + l
      BY <1>6, <1>7, <1>23, <1>24 DEF NextRecord
    <2>2. shard.from \in Nat /\ l \in Nat /\ count \in Nat
      BY <1>7, <1>9
    <2> QED
      BY <2>1, <2>2
  <1> HIDE DEF next
  <1>26. RecordsShown'
    <2>1. shown = [k \in 1 .. Len(shown) |-> shown[k]]
      BY <1>23
    <2>2. shown = [k \in 1 .. Len(shown) |-> shard.from + k - 1]
      BY <1>23, <2>1
    <2> QED
      BY <1>24, <2>2 DEF RecordsShown
  <1>27. ShardCursorNames'
    BY <1>17, <1>22, <1>24, <1>25, <1>6 DEF ShardCursorNames
  <1>28. ShardWorkNames'
    <2>1. shard'.at = "idle" /\ shard'.work.after = 0 /\ shard'.work.at = 0 /\ shard'.last \in Nat
      BY <1>7, <1>24, NoPlace
    <2> QED
      BY <2>1 DEF ShardWorkNames
  <1>29. (shard.ended <=> shard.cursor.is = "Closed")' /\ (shard'.ended => shard'.sealed /\ NextRecord' = shard'.last + 1)
    BY <1>15, <1>22, <1>24, <1>25
  <1>30. ShardShown'
    BY <1>5, <1>24, <1>26, <1>27, <1>28, <1>29 DEF ShardShown
  <1> QED
    BY <1>4, <1>24, <1>30, StreamKinds, ShardFields DEF Sharded

-----------------------------------------------------------------------------
(* Sets of keys, listed in order.                                          *)
LEMMA KeySets ==
    ASSUME NEW T \in SUBSET DynamoDbShard!Sequence
    PROVE  /\ T \in SUBSET Nat /\ IsFiniteSet(T) /\ Cardinality(T) \in Nat
           /\ DynamoDbShard!Cardinality(T) = Cardinality(T)
           /\ Sorted(T) \in Seq(T) /\ Sorted(T) \in Seq(DynamoDbShard!Sequence)
           /\ Ascends(Sorted(T)) /\ Len(Sorted(T)) = Cardinality(T) /\ Elements(Sorted(T)) = T
  <1>1. T \in SUBSET Nat /\ IsFiniteSet(T)
    <2>1. MaxSequence \in Int /\ 1 \in Int
      BY ShardNumbers
    <2>2. IsFiniteSet(1 .. MaxSequence)
      BY <2>1, FS_Interval
    <2> QED
      BY <2>2, ShardNumbers, FS_Subset
  <1>2. Cardinality(T) \in Nat
    BY <1>1, FS_CardinalityType
  <1>3. DynamoDbShard!Cardinality(T) = Cardinality(T)
    BY DEF DynamoDbShard!Cardinality, Cardinality
  <1>4. /\ Sorted(T) \in Seq(T) /\ Len(Sorted(T)) = Cardinality(T)
        /\ Ascends(Sorted(T)) /\ Elements(Sorted(T)) = T
    BY <1>1, SortedInOrder
  <1>5. Sorted(T) \in Seq(DynamoDbShard!Sequence)
    BY <1>4, SeqMonotonic
  <1> QED
    BY <1>1, <1>2, <1>3, <1>4, <1>5, Zenon

LEMMA KeysInOrder ==
    ASSUME NEW T \in SUBSET DynamoDbShard!Sequence
    PROVE  DynamoDbShard!InOrder(T, <) = Sorted(T)
  <1>0. \A U : DynamoDbShard!Cardinality(U) = Cardinality(U)
    BY DEF DynamoDbShard!Cardinality, Cardinality
  <1> DEFINE first(k) == CHOOSE x \in T : DynamoDbShard!Cardinality({y \in T : y < x}) = k - 1
             second(k) == CHOOSE x \in T : Cardinality({y \in T : y < x}) = k - 1
  <1>1. \A k : first(k) = second(k)
    BY <1>0, Zenon
  <1>2. Sorted(T) = [k \in 1 .. Cardinality(T) |-> second(k)]
    BY DEF Sorted
  <1>3. DynamoDbShard!InOrder(T, <) = [k \in 1 .. DynamoDbShard!Cardinality(T) |-> first(k)]
    BY Zenon DEF DynamoDbShard!InOrder
  <1>4. [k \in 1 .. DynamoDbShard!Cardinality(T) |-> first(k)] = [k \in 1 .. Cardinality(T) |-> second(k)]
    <2> HIDE DEF first, second
    <2> QED
      BY <1>0, <1>1
  <1> QED
    BY <1>2, <1>3, <1>4, Zenon

(* A page of a scan begins behind the last key and ends at the next one.   *)
LEMMA ShardLists ==
    ASSUME Sharded, DynamoDbShard!ListPage
    PROVE  Sharded'
  <1> DEFINE rest == {s \in shard.present : s > shard.cursor.sequence}
             t == Sorted(rest)
             size == Cardinality(rest)
  <1>1. shard.kind = "list" /\ ~shard.ended
    BY Zenon DEF DynamoDbShard!ListPage
  <1>2. /\ ScanShown /\ shard.at = "idle" /\ Ascends(shard.shown)
        /\ \A i \in Elements(shard.shown) : i <= shard.cursor.sequence
        /\ {i \in shard.steady : i <= shard.cursor.sequence} \subseteq Elements(shard.shown)
        /\ shard.steady \subseteq shard.present
    BY <1>1 DEF Sharded, ScanShown
  <1>3. DynamoDbShard!After = rest
    BY DEF DynamoDbShard!After
  <1>4. rest \in SUBSET DynamoDbShard!Sequence /\ rest \in SUBSET Nat
    BY ShardFields, ShardNumbers
  <1> HIDE DEF rest
  <1>5. DynamoDbShard!InOrder(DynamoDbShard!After, <) = t
        /\ DynamoDbShard!Cardinality(DynamoDbShard!After) = size
    BY <1>3, <1>4, KeysInOrder, KeySets, Zenon
  <1>6. \E count \in 0 .. DynamoDbShard!Min({PageRows, DynamoDbShard!Cardinality(DynamoDbShard!After)}) :
           LET rows == SubSeq(DynamoDbShard!InOrder(DynamoDbShard!After, <), 1, count)
               more == count < DynamoDbShard!Cardinality(DynamoDbShard!After)
           IN /\ more => count > 0
              /\ shard' = [shard EXCEPT
                   !.shown = @ \o rows, !.ended = ~more,
                   !.cursor = IF more THEN [DynamoDbShard!NoCursor EXCEPT !.is = "After", !.sequence = rows[Len(rows)]]
                              ELSE DynamoDbShard!NoCursor]
    BY Zenon DEF DynamoDbShard!ListPage
  <1>6a. PICK count \in 0 .. DynamoDbShard!Min({PageRows, size}) :
           LET rows == SubSeq(t, 1, count)
               more == count < size
           IN /\ more => count > 0
              /\ shard' = [shard EXCEPT
                   !.shown = @ \o rows, !.ended = ~more,
                   !.cursor = IF more THEN [DynamoDbShard!NoCursor EXCEPT !.is = "After", !.sequence = rows[Len(rows)]]
                              ELSE DynamoDbShard!NoCursor]
    <2> HIDE DEF t, size
    <2> QED
      BY <1>5, <1>6, Zenon
  <1>7. size \in Nat /\ t \in Seq(rest) /\ Len(t) = size /\ PageRows \in Nat \ {0}
        /\ IsFiniteSet(rest)
    BY <1>4, KeySets, ShardNumbers
  <1>8. count \in 0 .. size
    <2>1. DynamoDbShard!Min({PageRows, size}) = IF PageRows <= size THEN PageRows ELSE size
      BY <1>7, LeastOfTwo DEF DynamoDbShard!Min, Least
    <2>2. count \in 0 .. (IF PageRows <= size THEN PageRows ELSE size)
      BY <1>6a, <2>1, Zenon
    <2> QED
      BY <1>7, <2>2
  <1> DEFINE rows == SubSeq(t, 1, count)
             more == count < size
             last == rows[Len(rows)]
             cursor == IF more THEN [DynamoDbShard!NoCursor EXCEPT !.is = "After", !.sequence = last]
                       ELSE DynamoDbShard!NoCursor
             shown == shard.shown \o rows
             ended == ~more
  <1>9. /\ more => count > 0
        /\ shard' = [shard EXCEPT !.shown = shown, !.ended = ended, !.cursor = cursor]
    BY <1>6a, Zenon
  <1>10. Len(rows) = count /\ last = rows[count]
    BY <1>7, <1>8, FirstOf
  <1>11. (more <=> count < size) /\ (ended <=> ~more) /\ more \in BOOLEAN /\ ended \in BOOLEAN
    OBVIOUS
  <1>12. Proceeds(rows, rest, count)
    BY <1>4, <1>7, <1>8, PageProceeds
  <1>13. cursor = IF more THEN [DynamoDbShard!NoCursor EXCEPT !.is = "After", !.sequence = last]
                  ELSE DynamoDbShard!NoCursor
    OBVIOUS
  <1> HIDE DEF rows, more, last, cursor, ended, t, size
  <1>14. /\ shard.shown \in Seq(DynamoDbShard!Sequence) /\ DynamoDbShard!Sequence \in SUBSET Nat
         /\ shard.cursor.sequence \in Nat /\ shard.present \in SUBSET DynamoDbShard!Sequence
         /\ shard.steady \in SUBSET DynamoDbShard!Sequence /\ Len(shard.shown) \in Nat
         /\ DOMAIN shard.shown = 1 .. Len(shard.shown)
    BY ShardFields, CursorFields, ShardNumbers, LenProperties
  <1>15. Joined(DynamoDbShard!Sequence, shard.shown, rest, rows)
    <2>1. Precedes(shard.shown, rest)
      <3>1. \A i \in 1 .. Len(shard.shown) : shard.shown[i] <= shard.cursor.sequence
                                             /\ shard.shown[i] \in Nat
        BY <1>2, <1>14, ElementOfSeq DEF Elements
      <3>2. \A x \in rest : x > shard.cursor.sequence /\ x \in Nat
        BY <1>4 DEF rest
      <3> QED
        BY <1>14, <3>1, <3>2 DEF Precedes
    <2> QED
      BY <1>4, <1>2, <1>12, <1>14, <2>1, PageJoins
  <1>16. /\ rows \in Seq(DynamoDbShard!Sequence) /\ shown \in Seq(DynamoDbShard!Sequence)
         /\ Ascends(shown) /\ Elements(rows) \subseteq rest
         /\ Elements(shown) = Elements(shard.shown) \union Elements(rows)
    BY <1>15 DEF Joined
  <1> HIDE DEF shown
  <1>17. ASSUME more
         PROVE  /\ last \in rest /\ \A x \in Elements(rows) : x <= last
                /\ {x \in rest : x <= last} \subseteq Elements(rows)
    <2>1. /\ last \in rest /\ \A k \in 1 .. count : rows[k] <= last
          /\ {x \in rest : x <= last} \subseteq Elements(rows)
      BY <1>9, <1>10, <1>12, <1>17 DEF Proceeds
    <2>2. DOMAIN rows = 1 .. count
      BY <1>10, <1>16, LenProperties
    <2> QED
      BY <2>1, <2>2 DEF Elements
  <1>18. ~more => Elements(rows) = rest
    <2> SUFFICES ASSUME ~more PROVE Elements(rows) = rest
      OBVIOUS
    <2>1. count = size
      BY <1>7, <1>8, <1>11
    <2> QED
      BY <1>12, <2>1 DEF Proceeds, size
  <1>19. cursor \in ShardCursor /\ (more => cursor.sequence = last)
    <2>1. more => last \in 0 .. MaxSequence
      <3>1. more => last \in DynamoDbShard!Sequence
        BY <1>4, <1>17
      <3> QED
        BY <3>1, ShardNumbers
    <2>2. DynamoDbShard!NoCursor \in ShardCursor
      BY NoPlace
    <2> QED
      BY <1>13, <2>1, <2>2 DEF ShardCursor
  <1>20. /\ shard' \in ShardRecord
         /\ shard'.kind = shard.kind /\ shard'.steady = shard.steady /\ shard'.present = shard.present
         /\ shard'.at = shard.at /\ shard'.cursor = cursor /\ shard'.shown = shown
         /\ (shard'.ended <=> ended)
    BY <1>9, <1>11, <1>16, <1>19, ShardFields DEF ShardRecord
  <1>21. ASSUME ~more PROVE shard.steady \subseteq Elements(shown)
    <2> SUFFICES ASSUME NEW i \in shard.steady PROVE i \in Elements(shown)
      OBVIOUS
    <2>1. i \in Nat /\ i \in shard.present
      BY <1>2, <1>14
    <2>2. CASE i <= shard.cursor.sequence
      BY <1>2, <1>16, <2>2
    <2>3. CASE i > shard.cursor.sequence
      BY <1>16, <1>18, <1>21, <2>1, <2>3 DEF rest
    <2> QED
      BY <1>14, <2>1, <2>2, <2>3
  <1>22. ASSUME more
         PROVE  /\ \A i \in Elements(shown) : i <= last
                /\ {i \in shard.steady : i <= last} \subseteq Elements(shown)
    <2>1. last \in Nat /\ last > shard.cursor.sequence
      BY <1>4, <1>17, <1>22 DEF rest
    <2>2. \A i \in Elements(shard.shown) : i \in Nat
      BY <1>14, ElementOfSeq DEF Elements
    <2>3. \A i \in Elements(shown) : i <= last
      BY <1>2, <1>14, <1>16, <1>17, <1>22, <2>1, <2>2
    <2>4. ASSUME NEW i \in shard.steady, i <= last PROVE i \in Elements(shown)
      <3>1. i \in Nat /\ i \in shard.present
        BY <1>2, <1>14
      <3>2. CASE i <= shard.cursor.sequence
        BY <1>2, <1>16, <3>2
      <3>3. CASE i > shard.cursor.sequence
        BY <1>16, <1>17, <1>22, <2>4, <3>1, <3>3 DEF rest
      <3> QED
        BY <1>14, <3>1, <3>2, <3>3
    <2> QED
      BY <2>3, <2>4
  <1>23. ScanShown'
    BY <1>2, <1>11, <1>16, <1>19, <1>20, <1>21, <1>22 DEF ScanShown
  <1> QED
    BY <1>1, <1>2, <1>20, <1>23, Zenon DEF Sharded, DynamoDbShard!Streams

(* A batch shows each of its keys when the service has processed it.       *)
LEMMA ShardBatches ==
    ASSUME Sharded, DynamoDbShard!BatchPage
    PROVE  Sharded'
  <1>1. shard.kind = "batch" /\ ~shard.ended
    BY Zenon DEF DynamoDbShard!BatchPage
  <1>2. \E done \in SUBSET shard.keys \ {{}} :
           shard' = [shard EXCEPT !.keys = @ \ done, !.ended = shard.keys = done,
                                  !.shown = @ \o DynamoDbShard!InOrder(done, <)]
    BY Zenon DEF DynamoDbShard!BatchPage
  <1>3. PICK done \in SUBSET shard.keys :
           shard' = [shard EXCEPT !.keys = @ \ done, !.ended = shard.keys = done,
                                  !.shown = @ \o DynamoDbShard!InOrder(done, <)]
    BY <1>2, Zenon
  <1>4. done \in SUBSET DynamoDbShard!Sequence /\ done \in SUBSET shard.keys
    BY ShardFields
  <1> DEFINE rows == Sorted(done)
             shown == shard.shown \o rows
             keys == shard.keys \ done
             ended == shard.keys = done
  <1>5. shard' = [shard EXCEPT !.keys = keys, !.ended = ended, !.shown = shown]
    <2>1. DynamoDbShard!InOrder(done, <) = rows
      BY <1>4, KeysInOrder, Zenon
    <2> QED
      BY <1>3, <2>1, Zenon
  <1>6. /\ rows \in Seq(DynamoDbShard!Sequence) /\ Ascends(rows) /\ Elements(rows) = done
    BY <1>4, KeySets
  <1> HIDE DEF rows
  <1>7. /\ KeysAsked /\ shard.at = "idle" /\ Distinct(shard.shown)
        /\ Elements(shard.shown) \union shard.keys = shard.asked
        /\ Elements(shard.shown) \intersect shard.keys = {}
    BY <1>1 DEF Sharded, KeysAsked
  <1>8. /\ shard.shown \in Seq(DynamoDbShard!Sequence) /\ DynamoDbShard!Sequence \in SUBSET Nat
        /\ shard.keys \in SUBSET DynamoDbShard!Sequence
    BY ShardFields, ShardNumbers
  <1>9. shown \in Seq(DynamoDbShard!Sequence)
        /\ Elements(shown) = Elements(shard.shown) \union Elements(rows)
    BY <1>6, <1>8, JoinElements
  <1>10. /\ Len(shown) = Len(shard.shown) + Len(rows)
         /\ \A k \in 1 .. Len(shard.shown) + Len(rows) :
              shown[k] = IF k <= Len(shard.shown) THEN shard.shown[k] ELSE rows[k - Len(shard.shown)]
    BY <1>6, <1>8, ConcatProperties
  <1> DEFINE l == Len(shard.shown)
             n == Len(rows)
  <1>11. /\ l \in Nat /\ n \in Nat
         /\ \A k \in 1 .. l : shard.shown[k] \in Elements(shard.shown)
         /\ \A k \in 1 .. n : rows[k] \in done /\ rows[k] \in Nat
    <2>1. /\ DOMAIN shard.shown = 1 .. Len(shard.shown) /\ DOMAIN rows = 1 .. Len(rows)
          /\ Len(shard.shown) \in Nat /\ Len(rows) \in Nat
      BY <1>6, <1>8, LenProperties
    <2>2. \A k \in 1 .. Len(rows) : rows[k] \in done
      BY <1>6, <2>1 DEF Elements
    <2>3. done \in SUBSET Nat
      BY <1>4, <1>8
    <2> QED
      BY <2>1, <2>2, <2>3 DEF Elements
  <1>12. Len(shown) = l + n
         /\ \A k \in 1 .. l + n : shown[k] = IF k <= l THEN shard.shown[k] ELSE rows[k - l]
    BY <1>10
  <1> HIDE DEF shown, l, n
  <1>13. \A i, j \in 1 .. l : shard.shown[i] = shard.shown[j] => i = j
    BY <1>7 DEF Distinct, l
  <1>14. \A i, j \in 1 .. n : i < j => rows[i] < rows[j]
    BY <1>6 DEF Ascends, n
  <1>15. ASSUME NEW k \in 1 .. l + n
         PROVE  IF k <= l THEN k \in 1 .. l /\ shown[k] = shard.shown[k]
                ELSE k - l \in 1 .. n /\ shown[k] = rows[k - l]
    BY <1>11, <1>12
  <1>16. ASSUME NEW i \in 1 .. l + n, NEW j \in 1 .. l + n, shown[i] = shown[j]
         PROVE  i = j
    <2>1. CASE i <= l /\ j <= l
      BY <1>13, <1>15, <1>16, <2>1
    <2>2. CASE ~(i <= l) /\ ~(j <= l)
      <3> DEFINE a == i - l
                 b == j - l
      <3>1. a \in 1 .. n /\ b \in 1 .. n /\ rows[a] = rows[b]
        BY <1>15, <1>16, <2>2
      <3>2. i = j <=> a = b
        BY <1>11
      <3> HIDE DEF a, b
      <3>3. rows[a] \in Nat /\ rows[b] \in Nat /\ ~(a < b) /\ ~(b < a)
        BY <1>11, <1>14, <3>1
      <3>4. a = b
        BY <1>11, <3>1, <3>3
      <3> QED
        BY <3>2, <3>4
    <2>3. CASE i <= l /\ ~(j <= l)
      <3>1. shown[i] \in Elements(shard.shown) /\ shown[j] \in done
        BY <1>11, <1>15, <2>3
      <3> QED
        BY <1>4, <1>7, <1>16, <3>1
    <2>4. CASE ~(i <= l) /\ j <= l
      <3>1. shown[j] \in Elements(shard.shown) /\ shown[i] \in done
        BY <1>11, <1>15, <2>4
      <3> QED
        BY <1>4, <1>7, <1>16, <3>1
    <2> QED
      BY <2>1, <2>2, <2>3, <2>4
  <1>17. Distinct(shown)
    BY <1>12, <1>16 DEF Distinct
  <1>18. keys \in SUBSET DynamoDbShard!Sequence /\ ended \in BOOLEAN
         /\ Elements(shown) \union keys = shard.asked /\ Elements(shown) \intersect keys = {}
    BY <1>4, <1>6, <1>7, <1>8, <1>9
  <1> HIDE DEF keys, ended
  <1>19. /\ shard' \in ShardRecord
         /\ shard'.kind = shard.kind /\ shard'.steady = shard.steady /\ shard'.present = shard.present
         /\ shard'.at = shard.at /\ shard'.shown = shown /\ shard'.keys = keys
         /\ shard'.asked = shard.asked
    BY <1>5, <1>9, <1>18, ShardFields DEF ShardRecord
  <1>20. KeysAsked'
    BY <1>7, <1>17, <1>18, <1>19 DEF KeysAsked
  <1> QED
    BY <1>1, <1>19, <1>20, Zenon DEF Sharded, DynamoDbShard!Streams

(* An entry that comes or goes was not there all the time.                 *)
LEMMA ShardEntries ==
    ASSUME Sharded, DynamoDbShard!Entry
    PROVE  Sharded'
  <1>1. PICK s \in DynamoDbShard!Sequence :
           shard' = [DynamoDbShard!Changed EXCEPT
                       !.present = IF s \in @ THEN @ \ {s} ELSE @ \union {s}, !.steady = @ \ {s}]
    BY Zenon DEF DynamoDbShard!Entry
  <1> DEFINE changes == shard.changes + 1
             present == IF s \in shard.present THEN shard.present \ {s} ELSE shard.present \union {s}
             steady == shard.steady \ {s}
  <1>2. shard \in ShardRecord
    BY DEF Sharded
  <1>3. shard' = [shard EXCEPT !.changes = changes, !.present = present, !.steady = steady]
    BY <1>1, <1>2 DEF DynamoDbShard!Changed, ShardRecord
  <1>4. changes \in Nat /\ present \in SUBSET DynamoDbShard!Sequence
        /\ steady \in SUBSET DynamoDbShard!Sequence /\ steady \subseteq present
        /\ steady \subseteq shard.steady
    BY ShardFields DEF Sharded
  <1> HIDE DEF changes, present, steady
  <1>5. /\ shard' \in ShardRecord
        /\ shard'.kind = shard.kind /\ shard'.steady = steady /\ shard'.present = present
        /\ shard'.at = shard.at /\ shard'.cursor = shard.cursor /\ shard'.shown = shard.shown
        /\ shard'.ended = shard.ended
    BY <1>2, <1>3, <1>4 DEF ShardRecord
  <1>6. shard.kind = "list"
    BY Zenon DEF DynamoDbShard!Entry
  <1>7. ScanShown
    BY <1>6 DEF Sharded
  <1>8. ScanShown'
    BY <1>4, <1>5, <1>7 DEF ScanShown
  <1> QED
    BY <1>4, <1>5, <1>6, <1>8, Zenon DEF Sharded, DynamoDbShard!Streams

LEMMA ShardStep ==
    ASSUME Sharded, [DynamoDbShard!Next]_shard
    PROVE  Sharded'
  <1>1. CASE DynamoDbShard!PageFails
    <2>1. shard.at # "idle" /\ shard' = DynamoDbShard!Fails
      BY <1>1, Zenon DEF DynamoDbShard!PageFails, DynamoDbShard!At
    <2> QED
      BY <2>1, ShardFails
  <1>2. CASE DynamoDbShard!Done \/ UNCHANGED shard
    <2>1. shard' = shard
      BY <1>2, Zenon DEF DynamoDbShard!Done
    <2> QED
      BY <2>1 DEF Sharded, ShardShown, ScanShown, KeysAsked, ShardCursorNames, ShardWorkNames,
                  RecordsShown, NextRecord
  <1> QED
    BY <1>1, <1>2, ShardAsks, ShardPlaces, ShardReads, ShardRenews, ShardShows, ShardLists,
       ShardBatches, ShardChanges, ShardExpires, ShardEntries, Zenon
       DEF DynamoDbShard!Next

LEMMA ShardStart ==
    ASSUME DynamoDbShard!Init
    PROVE  Sharded
  <1>1. PICK kind \in DynamoDbShard!Kind, low \in 1 .. 2, last \in 2 .. MaxSequence - 1,
             start \in DynamoDbShard!Sequence,
             present \in SUBSET DynamoDbShard!Sequence, keys \in SUBSET DynamoDbShard!Sequence :
          /\ IF kind \in {"at", "after"} THEN start \in low .. last ELSE start = 1
          /\ kind \in DynamoDbShard!Streams \/ (low = 1 /\ last = 2)
          /\ kind = "list" \/ present = {}
          /\ (kind = "batch") = (keys # {})
          /\ shard = [kind |-> kind, low |-> low, last |-> last, sealed |-> FALSE, start |-> start,
                      present |-> present, steady |-> present, keys |-> keys, asked |-> keys,
                      at |-> "idle", cursor |-> DynamoDbShard!NoCursor, work |-> DynamoDbShard!NoWork,
                      from |-> 0, shown |-> <<>>, ended |-> FALSE, changes |-> 0]
    BY Zenon DEF DynamoDbShard!Init
  <1>2. /\ shard.kind = kind /\ shard.low = low /\ shard.last = last /\ shard.start = start
        /\ shard.present = present /\ shard.steady = present /\ shard.keys = keys
        /\ shard.asked = keys /\ shard.at = "idle" /\ shard.cursor = DynamoDbShard!NoCursor
        /\ shard.work = DynamoDbShard!NoWork /\ shard.from = 0 /\ shard.shown = <<>>
        /\ ~shard.ended
    BY <1>1
  <1>3. /\ low \in Nat /\ low >= 1 /\ low <= 2 /\ last \in Nat /\ last >= 2 /\ last <= MaxSequence - 1
        /\ MaxSequence \in Nat /\ start \in Nat
    BY <1>1, ShardNumbers
  <1>4. low \in 1 .. MaxSequence + 1 /\ last \in 0 .. MaxSequence /\ 0 \in Token
    BY <1>3 DEF Token
  <1>5. <<>> \in Seq(DynamoDbShard!Sequence)
    OBVIOUS
  <1>6. shard \in ShardRecord
    BY <1>1, <1>4, <1>5, NoPlace DEF ShardRecord
  <1>7. Ascends(<<>>) /\ Elements(<<>>) = {} /\ Distinct(<<>>)
    BY DEF Ascends, Elements, Distinct
  <1>8. \A i \in shard.steady : i \in Nat /\ i > 0
    <2>1. \A i \in DynamoDbShard!Sequence : i \in Nat /\ i > 0
      BY ShardNumbers
    <2> QED
      BY <1>2, <2>1
  <1>9. ScanShown
    BY <1>2, <1>7, <1>8, NoPlace DEF ScanShown
  <1>10. KeysAsked
    BY <1>2, <1>7 DEF KeysAsked
  <1>11. RecordsShown
    <2>1. Len(<<>>) = 0
      OBVIOUS
    <2>2. <<>> = [i \in 1 .. 0 |-> shard.from + i - 1]
      OBVIOUS
    <2> QED
      BY <1>2, <2>1, <2>2 DEF RecordsShown
  <1>12. start <= last /\ low <= last + 1
    <2>1. start = 1 \/ start <= last
      BY <1>1, <1>3
    <2> QED
      BY <1>3, <2>1
  <1>13. ShardCursorNames /\ ShardWorkNames
    BY <1>2, <1>3, NoPlace DEF ShardCursorNames, ShardWorkNames
  <1>14. ShardShown
    BY <1>2, <1>11, <1>12, <1>13, NoPlace DEF ShardShown
  <1> QED
    BY <1>2, <1>6, <1>9, <1>10, <1>14 DEF Sharded

LEMMA ShardComplete ==
    ASSUME Sharded
    PROVE  DynamoDbShard!TypeOK /\ DynamoDbShard!PagesComplete
  <1>1. DynamoDbShard!TypeOK
    BY ShardFields, CursorFields DEF DynamoDbShard!TypeOK, Token
  <1>2. /\ shard.shown \in Seq(DynamoDbShard!Sequence) /\ DynamoDbShard!Sequence \in SUBSET Nat
        /\ DOMAIN shard.shown = 1 .. Len(shard.shown) /\ Len(shard.shown) \in Nat
        /\ \A i \in 1 .. Len(shard.shown) : shard.shown[i] \in Nat
    BY ShardFields, ShardNumbers, LenProperties, ElementOfSeq
  <1>3. DynamoDbShard!Range(shard.shown) = Elements(shard.shown)
    BY DEF DynamoDbShard!Range, Elements
  <1>4. Distinct(shard.shown) => DynamoDbShard!IsInjective(shard.shown)
    BY <1>2 DEF Distinct, DynamoDbShard!IsInjective
  <1>5. Ascends(shard.shown) => Distinct(shard.shown)
    <2> SUFFICES ASSUME Ascends(shard.shown), NEW i \in 1 .. Len(shard.shown),
                        NEW k \in 1 .. Len(shard.shown), shard.shown[i] = shard.shown[k]
                 PROVE  i = k
      BY DEF Distinct
    <2>1. ~(i < k) /\ ~(k < i)
      BY <1>2 DEF Ascends
    <2> QED
      BY <1>2, <2>1
  <1>6. shard.kind \in DynamoDbShard!Streams =>
          /\ shard.shown = [i \in 1 .. Len(shard.shown) |-> shard.from + i - 1]
          /\ shard.ended => shard.from + Len(shard.shown) = shard.last + 1
    BY DEF Sharded, ShardShown, RecordsShown, NextRecord
  <1>7. shard.kind = "list" =>
          /\ DynamoDbShard!IsInjective(shard.shown)
          /\ shard.ended => shard.steady \subseteq DynamoDbShard!Range(shard.shown)
    BY <1>3, <1>4, <1>5 DEF Sharded, ScanShown
  <1>8. shard.kind = "batch" =>
          /\ DynamoDbShard!IsInjective(shard.shown)
          /\ DynamoDbShard!Range(shard.shown) \union shard.keys = shard.asked
    BY <1>3, <1>4 DEF Sharded, KeysAsked
  <1>9. shard.kind \in DynamoDbShard!Streams \/ shard.kind = "list" \/ shard.kind = "batch"
    BY ShardFields DEF DynamoDbShard!Kind
  <1>10. shard.kind = "list" => shard.kind \notin DynamoDbShard!Streams
    BY DEF DynamoDbShard!Streams
  <1>11. shard.kind = "batch" => shard.kind \notin DynamoDbShard!Streams /\ shard.kind # "list"
    BY DEF DynamoDbShard!Streams
  <1> QED
    BY <1>1, <1>6, <1>7, <1>8, <1>9, <1>10, <1>11 DEF DynamoDbShard!PagesComplete
-----------------------------------------------------------------------------
(* Kafka *)

Row == KafkaTopic!Partition \X KafkaTopic!Position
Offsets == [KafkaTopic!Partition -> KafkaTopic!Position]
LogCursor == [on : BOOLEAN, turn : KafkaTopic!Partition, next : Offsets, end : Offsets]
LogWork ==
    [cursor : LogCursor, seen : 0 .. Partitions, low : Offsets, end : Offsets,
     step : 0 .. Partitions, part : KafkaTopic!Partition, batch : Seq(KafkaTopic!Position),
     pos : KafkaTopic!Position, quota : Nat, rows : Seq(Row)]
LogRecord ==
    [kind : KafkaTopic!Kind, live : BOOLEAN, replay : KafkaTopic!Replay,
     lookup : KafkaTopic!Position, low : Offsets, stable : Offsets, top : Offsets,
     visible : [KafkaTopic!Partition -> SUBSET KafkaTopic!Position],
     rewritten : [KafkaTopic!Partition -> SUBSET KafkaTopic!Position],
     at : {"idle", "windows", "turn", "poll", "merge", "end"}, cursor : LogCursor,
     work : LogWork, from : Offsets, shown : Seq(Row), ended : BOOLEAN, changes : Nat]

(* The log has been there.                                                 *)
Reached(p, o) == o <= log.stable[p] \/ o <= log.top[p]

(* Rows of one partition come in the order of their offsets.               *)
RowsAscend(rows) ==
    \A i, j \in 1 .. Len(rows) : i < j /\ rows[i][1] = rows[j][1] => rows[i][2] < rows[j][2]

OffsetsOf(rows, p) == {rows[i][2] : i \in {j \in 1 .. Len(rows) : rows[j][1] = p}}

(* The records between two offsets that the log kept as they were.         *)
Owed(p, first, next) ==
    {o \in log.visible[p] \ log.rewritten[p] : o >= first /\ o < next}

Windowed(cursor) ==
    \A p \in KafkaTopic!View : cursor.next[p] <= cursor.end[p] /\ Reached(p, cursor.end[p])

LogKept ==
    \A p \in KafkaTopic!Partition : \A o \in log.visible[p] : o >= log.low[p] /\ o < log.stable[p]

TopicShown ==
    /\ Windowed(log.cursor) /\ RowsAscend(log.shown)
    /\ \A i \in 1 .. Len(log.shown) : LET p == log.shown[i][1] IN
          p \in KafkaTopic!View /\ log.shown[i][2] < log.cursor.next[p]
    /\ ~log.cursor.on => log.shown = <<>> /\ log.cursor.next = KafkaTopic!Zero
    /\ \A p \in KafkaTopic!View :
          Owed(p, log.from[p], log.cursor.next[p]) \subseteq OffsetsOf(log.shown, p)
    /\ log.ended => /\ log.at = "idle"
                    /\ \A p \in KafkaTopic!View : log.cursor.next[p] = log.cursor.end[p]

WindowsTaken(w) == \A p \in KafkaTopic!View : Reached(p, w.end[p])

PageShares(w, from) ==
    /\ w.cursor.on /\ Windowed(w.cursor) /\ RowsAscend(w.rows) /\ w.quota > 0
    /\ \A p \in KafkaTopic!View : log.cursor.next[p] <= w.cursor.next[p]
    /\ \A i \in 1 .. Len(w.rows) : LET p == w.rows[i][1] IN
          /\ p \in KafkaTopic!View
          /\ log.cursor.next[p] <= w.rows[i][2] /\ w.rows[i][2] < w.cursor.next[p]
    /\ \A p \in KafkaTopic!View :
          Owed(p, from[p], w.cursor.next[p])
             \subseteq OffsetsOf(log.shown, p) \union OffsetsOf(w.rows, p)

BatchTaken(w) ==
    /\ w.part \in KafkaTopic!View /\ Ascends(w.batch) /\ w.step < KafkaTopic!Count
    /\ w.cursor.next[w.part] <= w.pos /\ w.pos <= w.cursor.end[w.part]
    /\ \A i \in 1 .. Len(w.batch) :
          w.cursor.next[w.part] <= w.batch[i] /\ w.batch[i] < w.pos
    /\ Owed(w.part, w.cursor.next[w.part], w.pos) \subseteq Elements(w.batch)

Room(w) == PageRows - Len(w.rows)

(* A page under way, at a place.                                           *)
ReadTo(at, w, from) ==
    /\ w.seen <= KafkaTopic!Count /\ w.step <= KafkaTopic!Count /\ Len(w.rows) <= PageRows
    /\ at = "idle" => w = KafkaTopic!NoWork
    /\ at = "windows" => WindowsTaken(w) /\ w.rows = <<>>
    /\ at \in {"turn", "poll", "merge", "end"} => PageShares(w, from)
    /\ at \in {"turn", "poll", "merge"} => Room(w) > 0
    /\ at \in {"poll", "merge"} => BatchTaken(w)
    /\ at = "poll" => Len(w.batch) < Room(w) /\ Len(w.batch) < w.quota
    /\ at = "merge" => Len(w.batch) <= Room(w)

NamesShown ==
    /\ log.at = "idle" /\ log.work = KafkaTopic!NoWork
    /\ log.changes = 0 =>
          LET sorted == Sorted(log.visible[0])
              next == log.cursor.next[0]
          IN /\ next <= Cardinality(log.visible[0])
             /\ log.shown = [i \in 1 .. next |-> <<0, sorted[i]>>]
             /\ log.ended => next = Cardinality(log.visible[0])

Logged ==
    /\ log \in LogRecord /\ LogKept
    /\ \A p \in KafkaTopic!Partition : log.low[p] <= log.stable[p]
    /\ log.kind = "list" => NamesShown
    /\ log.kind # "list" => TopicShown /\ ReadTo(log.at, log.work, log.from)

LEMMA LogNumbers ==
    /\ Partitions \in Nat \ {0} /\ MaxOffset \in Nat /\ PageRows \in Nat \ {0}
    /\ KafkaTopic!Partition = 0 .. Partitions - 1 /\ KafkaTopic!Partition \in SUBSET Nat
    /\ 0 \in KafkaTopic!Partition
    /\ KafkaTopic!Position = 0 .. MaxOffset /\ KafkaTopic!Position \in SUBSET Nat
    /\ 0 \in KafkaTopic!Position
    /\ KafkaTopic!Zero \in Offsets /\ \A p \in KafkaTopic!Partition : KafkaTopic!Zero[p] = 0
  <1>1. Partitions \in Nat \ {0} /\ MaxOffset \in Nat /\ PageRows \in Nat \ {0}
    BY PagesAssumption
  <1>2. /\ KafkaTopic!Partition = 0 .. Partitions - 1 /\ KafkaTopic!Partition \in SUBSET Nat
        /\ 0 \in KafkaTopic!Partition
        /\ KafkaTopic!Position = 0 .. MaxOffset /\ KafkaTopic!Position \in SUBSET Nat
        /\ 0 \in KafkaTopic!Position
    BY <1>1 DEF KafkaTopic!Partition, KafkaTopic!Position
  <1>3. KafkaTopic!Zero \in Offsets /\ \A p \in KafkaTopic!Partition : KafkaTopic!Zero[p] = 0
    BY <1>2 DEF KafkaTopic!Zero, Offsets
  <1> QED
    BY <1>1, <1>2, <1>3

(* The partitions of the view are the first ones.                          *)
LEMMA LogViews ==
    /\ KafkaTopic!View \in SUBSET KafkaTopic!Partition /\ 0 \in KafkaTopic!View
    /\ KafkaTopic!Count \in Nat \ {0} /\ KafkaTopic!Count <= Partitions
    /\ KafkaTopic!View = 0 .. KafkaTopic!Count - 1
  <1>1. \A U : KafkaTopic!Cardinality(U) = Cardinality(U)
    BY DEF KafkaTopic!Cardinality, Cardinality
  <1>2. CASE log.kind = "topic"
    <2>1. KafkaTopic!View = 0 .. Partitions - 1
      BY <1>2, LogNumbers DEF KafkaTopic!View
    <2>2. 0 \in Int /\ Partitions - 1 \in Int /\ ~(0 > Partitions - 1)
      BY LogNumbers
    <2>3. Cardinality(0 .. Partitions - 1) = Partitions - 1 - 0 + 1
      BY <2>2, FS_Interval
    <2>4. KafkaTopic!Count = Partitions
      BY <1>1, <2>1, <2>3, LogNumbers DEF KafkaTopic!Count
    <2> QED
      BY <2>1, <2>4, LogNumbers
  <1>3. CASE log.kind # "topic"
    <2>1. KafkaTopic!View = {0}
      BY <1>3 DEF KafkaTopic!View
    <2>2. KafkaTopic!Count = 1
      BY <1>1, <2>1, FS_Singleton DEF KafkaTopic!Count
    <2>3. {0} = 0 .. 1 - 1
      OBVIOUS
    <2> QED
      BY <2>1, <2>2, <2>3, LogNumbers
  <1> QED
    BY <1>2, <1>3

LEMMA LogFields ==
    ASSUME Logged
    PROVE  /\ log \in LogRecord /\ log.kind \in KafkaTopic!Kind /\ log.live \in BOOLEAN
           /\ log.replay \in KafkaTopic!Replay /\ log.lookup \in KafkaTopic!Position
           /\ log.low \in Offsets /\ log.stable \in Offsets /\ log.top \in Offsets
           /\ log.visible \in [KafkaTopic!Partition -> SUBSET KafkaTopic!Position]
           /\ log.rewritten \in [KafkaTopic!Partition -> SUBSET KafkaTopic!Position]
           /\ log.at \in {"idle", "windows", "turn", "poll", "merge", "end"}
           /\ log.cursor \in LogCursor /\ log.work \in LogWork /\ log.from \in Offsets
           /\ log.shown \in Seq(Row) /\ log.ended \in BOOLEAN /\ log.changes \in Nat
  BY DEF Logged, LogRecord

LEMMA OffsetsTyped ==
    ASSUME NEW o \in Offsets
    PROVE  \A p \in KafkaTopic!Partition : o[p] \in KafkaTopic!Position /\ o[p] \in Nat
                                           /\ o[p] <= MaxOffset
  BY LogNumbers DEF Offsets

LEMMA PlaceFields ==
    ASSUME NEW c \in LogCursor
    PROVE  /\ c.on \in BOOLEAN /\ c.turn \in KafkaTopic!Partition
           /\ c.next \in Offsets /\ c.end \in Offsets
  BY DEF LogCursor

LEMMA PageOfLog ==
    ASSUME NEW w \in LogWork
    PROVE  /\ w.cursor \in LogCursor /\ w.cursor.on \in BOOLEAN
           /\ w.cursor.turn \in KafkaTopic!Partition
           /\ w.cursor.next \in Offsets /\ w.cursor.end \in Offsets
           /\ w.seen \in 0 .. Partitions /\ w.step \in 0 .. Partitions
           /\ w.seen \in Nat /\ w.step \in Nat
           /\ w.low \in Offsets /\ w.end \in Offsets /\ w.part \in KafkaTopic!Partition
           /\ w.batch \in Seq(KafkaTopic!Position) /\ Len(w.batch) \in Nat
           /\ w.pos \in KafkaTopic!Position /\ w.pos \in Nat /\ w.quota \in Nat
           /\ w.rows \in Seq(Row) /\ Len(w.rows) \in Nat /\ Room(w) \in Int
  <1>1. /\ w.cursor \in LogCursor
        /\ w.seen \in 0 .. Partitions /\ w.step \in 0 .. Partitions
        /\ w.low \in Offsets /\ w.end \in Offsets /\ w.part \in KafkaTopic!Partition
        /\ w.batch \in Seq(KafkaTopic!Position)
        /\ w.pos \in KafkaTopic!Position /\ w.quota \in Nat
        /\ w.rows \in Seq(Row)
    BY DEF LogWork
  <1>2. Len(w.batch) \in Nat /\ Len(w.rows) \in Nat
    BY <1>1, LenProperties
  <1>3. /\ w.cursor.on \in BOOLEAN /\ w.cursor.turn \in KafkaTopic!Partition
        /\ w.cursor.next \in Offsets /\ w.cursor.end \in Offsets
    BY <1>1, PlaceFields
  <1>4. w.seen \in Nat /\ w.step \in Nat /\ w.pos \in Nat
    BY <1>1, LogNumbers
  <1>5. Room(w) \in Int
    BY <1>2, LogNumbers DEF Room
  <1> QED
    BY <1>1, <1>2, <1>3, <1>4, <1>5

LEMMA NoPlaces ==
    /\ KafkaTopic!NoCursor \in LogCursor /\ KafkaTopic!NoWork \in LogWork
    /\ ~KafkaTopic!NoCursor.on /\ KafkaTopic!NoCursor.turn = 0
    /\ KafkaTopic!NoCursor.next = KafkaTopic!Zero /\ KafkaTopic!NoCursor.end = KafkaTopic!Zero
    /\ KafkaTopic!NoWork.seen = 0 /\ KafkaTopic!NoWork.step = 0
    /\ KafkaTopic!NoWork.rows = <<>> /\ KafkaTopic!NoWork.end = KafkaTopic!Zero
    /\ KafkaTopic!NoWork.cursor = KafkaTopic!NoCursor
  <1>1. <<>> \in Seq(KafkaTopic!Position) /\ <<>> \in Seq(Row) /\ 0 \in 0 .. Partitions
    BY LogNumbers
  <1>2. KafkaTopic!NoCursor \in LogCursor
    BY LogNumbers DEF KafkaTopic!NoCursor, LogCursor
  <1>3. KafkaTopic!NoWork \in LogWork
    BY <1>1, <1>2, LogNumbers DEF KafkaTopic!NoWork, LogWork
  <1> QED
    BY <1>2, <1>3 DEF KafkaTopic!NoCursor, KafkaTopic!NoWork

-----------------------------------------------------------------------------
(* Rows of a topic *)

LEMMA RowOf ==
    ASSUME NEW rows \in Seq(Row)
    PROVE  /\ Len(rows) \in Nat
           /\ \A i \in 1 .. Len(rows) :
                 /\ rows[i][1] \in KafkaTopic!Partition /\ rows[i][2] \in KafkaTopic!Position
                 /\ rows[i][2] \in Nat
  <1>1. Len(rows) \in Nat /\ \A i \in 1 .. Len(rows) : rows[i] \in Row
    BY LenProperties, ElementOfSeq
  <1>2. \A r \in Row : r[1] \in KafkaTopic!Partition /\ r[2] \in KafkaTopic!Position /\ r[2] \in Nat
    BY LogNumbers DEF Row
  <1> QED
    BY <1>1, <1>2

LEMMA RowsJoin ==
    ASSUME NEW rows \in Seq(Row), NEW more \in Seq(Row), RowsAscend(rows), RowsAscend(more),
           \A i \in 1 .. Len(rows), j \in 1 .. Len(more) :
              rows[i][1] = more[j][1] => rows[i][2] < more[j][2]
    PROVE  /\ rows \o more \in Seq(Row) /\ Len(rows \o more) = Len(rows) + Len(more)
           /\ RowsAscend(rows \o more)
           /\ \A p : OffsetsOf(rows \o more, p) = OffsetsOf(rows, p) \union OffsetsOf(more, p)
           /\ \A k \in 1 .. Len(rows \o more) :
                 (\E i \in 1 .. Len(rows) : (rows \o more)[k] = rows[i])
                 \/ (\E j \in 1 .. Len(more) : (rows \o more)[k] = more[j])
  <1> DEFINE both == rows \o more
             l == Len(rows)
             n == Len(more)
  <1>1. /\ both \in Seq(Row) /\ Len(both) = Len(rows) + Len(more)
        /\ \A k \in 1 .. Len(rows) + Len(more) :
             both[k] = IF k <= Len(rows) THEN rows[k] ELSE more[k - Len(rows)]
    BY ConcatProperties
  <1>2. /\ l \in Nat /\ n \in Nat
        /\ \A i \in 1 .. l : rows[i][2] \in Nat
        /\ \A j \in 1 .. n : more[j][2] \in Nat
    BY RowOf
  <1>3. Len(both) = l + n
        /\ \A k \in 1 .. l + n : both[k] = IF k <= l THEN rows[k] ELSE more[k - l]
    BY <1>1
  <1>4. /\ \A i, j \in 1 .. l : i < j /\ rows[i][1] = rows[j][1] => rows[i][2] < rows[j][2]
        /\ \A i, j \in 1 .. n : i < j /\ more[i][1] = more[j][1] => more[i][2] < more[j][2]
        /\ \A i \in 1 .. l, j \in 1 .. n : rows[i][1] = more[j][1] => rows[i][2] < more[j][2]
    BY DEF RowsAscend
  <1>5. \A p : /\ OffsetsOf(rows, p) = {rows[i][2] : i \in {j \in 1 .. l : rows[j][1] = p}}
               /\ OffsetsOf(more, p) = {more[i][2] : i \in {j \in 1 .. n : more[j][1] = p}}
    BY DEF OffsetsOf
  <1> HIDE DEF both, l, n
  <1>6. ASSUME NEW k \in 1 .. l + n
        PROVE  IF k <= l THEN k \in 1 .. l /\ both[k] = rows[k]
               ELSE k - l \in 1 .. n /\ both[k] = more[k - l]
    BY <1>2, <1>3
  <1>7. \A i \in 1 .. l : i \in 1 .. l + n /\ both[i] = rows[i]
    BY <1>2, <1>3
  <1>8. \A j \in 1 .. n : l + j \in 1 .. l + n /\ both[l + j] = more[j]
    <2> SUFFICES ASSUME NEW j \in 1 .. n PROVE l + j \in 1 .. l + n /\ both[l + j] = more[j]
      OBVIOUS
    <2> DEFINE k == l + j
    <2>1. j \in Int /\ j >= 1 /\ j <= n
      BY <1>2
    <2>2. k \in 1 .. l + n /\ ~(k <= l) /\ k - l = j
      BY <1>2, <2>1
    <2> HIDE DEF k
    <2>3. both[k] = more[k - l]
      BY <1>6, <2>2
    <2>4. both[k] = more[j]
      BY <2>2, <2>3
    <2> QED
      BY <2>2, <2>4 DEF k
  <1>9. ASSUME NEW i \in 1 .. l + n, NEW j \in 1 .. l + n, i < j, both[i][1] = both[j][1]
        PROVE  both[i][2] < both[j][2]
    <2>1. CASE j <= l
      BY <1>2, <1>4, <1>6, <1>9, <2>1
    <2>2. CASE i <= l /\ ~(j <= l)
      BY <1>4, <1>6, <1>9, <2>2
    <2>3. CASE ~(i <= l)
      <3> DEFINE a == i - l
                 b == j - l
      <3>1. a < b /\ ~(j <= l)
        BY <1>2, <1>9, <2>3
      <3>2. a \in 1 .. n /\ b \in 1 .. n /\ both[i] = more[a] /\ both[j] = more[b]
        BY <1>6, <2>3, <3>1
      <3> HIDE DEF a, b
      <3> QED
        BY <1>4, <1>9, <3>1, <3>2
    <2> QED
      BY <2>1, <2>2, <2>3
  <1>10. RowsAscend(both)
    BY <1>3, <1>9 DEF RowsAscend
  <1>11. ASSUME NEW p
         PROVE  OffsetsOf(both, p) = OffsetsOf(rows, p) \union OffsetsOf(more, p)
    <2>1. OffsetsOf(both, p) = {both[i][2] : i \in {j \in 1 .. l + n : both[j][1] = p}}
      BY <1>3 DEF OffsetsOf
    <2>2. ASSUME NEW x \in OffsetsOf(both, p)
          PROVE  x \in OffsetsOf(rows, p) \union OffsetsOf(more, p)
      <3>1. PICK k \in 1 .. l + n : both[k][1] = p /\ x = both[k][2]
        BY <2>1, <2>2
      <3>2. CASE k <= l
        BY <1>5, <1>6, <3>1, <3>2
      <3>3. CASE ~(k <= l)
        BY <1>5, <1>6, <3>1, <3>3
      <3> QED
        BY <3>2, <3>3
    <2>3. OffsetsOf(rows, p) \subseteq OffsetsOf(both, p)
      BY <1>5, <1>7, <2>1
    <2>4. ASSUME NEW x \in OffsetsOf(more, p) PROVE x \in OffsetsOf(both, p)
      <3>1. PICK j \in 1 .. n : more[j][1] = p /\ x = more[j][2]
        BY <1>5, <2>4
      <3>2. l + j \in 1 .. l + n /\ both[l + j] = more[j]
        BY <1>8
      <3> QED
        BY <2>1, <3>1, <3>2
    <2> QED
      BY <2>2, <2>3, <2>4
  <1>12. ASSUME NEW k \in 1 .. l + n
         PROVE  (\E i \in 1 .. l : both[k] = rows[i]) \/ (\E j \in 1 .. n : both[k] = more[j])
    BY <1>6
  <1> QED
    BY <1>1, <1>3, <1>10, <1>11, <1>12 DEF both, l, n

(* The rows of the offsets of a partition.                                 *)
RowsFor(p, s) == [i \in DOMAIN s |-> <<p, s[i]>>]

LEMMA RowsOfBatch ==
    ASSUME NEW p \in KafkaTopic!Partition, NEW s \in Seq(KafkaTopic!Position), Ascends(s)
    PROVE  /\ RowsFor(p, s) \in Seq(Row) /\ Len(RowsFor(p, s)) = Len(s)
           /\ RowsAscend(RowsFor(p, s))
           /\ \A i \in 1 .. Len(s) : RowsFor(p, s)[i][1] = p /\ RowsFor(p, s)[i][2] = s[i]
           /\ OffsetsOf(RowsFor(p, s), p) = Elements(s)
  <1> DEFINE rows == RowsFor(p, s)
  <1>1. /\ DOMAIN s = 1 .. Len(s) /\ Len(s) \in Nat
        /\ \A i \in 1 .. Len(s) : s[i] \in KafkaTopic!Position
    BY LenProperties, ElementOfSeq
  <1>2. \A i \in 1 .. Len(s) : <<p, s[i]>> \in Row
    BY <1>1 DEF Row
  <1>3. rows \in [1 .. Len(s) -> Row] /\ \A i \in 1 .. Len(s) : rows[i] = <<p, s[i]>>
    BY <1>1, <1>2 DEF RowsFor
  <1> HIDE DEF rows
  <1>4. rows \in Seq(Row) /\ Len(rows) = Len(s)
    BY <1>1, <1>3
  <1>5. \A i \in 1 .. Len(s) : rows[i][1] = p /\ rows[i][2] = s[i]
    BY <1>3
  <1>6. RowsAscend(rows)
    BY <1>4, <1>5 DEF RowsAscend, Ascends
  <1>7. OffsetsOf(rows, p) = Elements(s)
    BY <1>1, <1>4, <1>5 DEF OffsetsOf, Elements
  <1> QED
    BY <1>4, <1>5, <1>6, <1>7 DEF rows

(* What lies between two offsets lies before or after one between them.    *)
LEMMA OwedSplits ==
    ASSUME Logged, NEW p \in KafkaTopic!Partition, NEW first \in Nat, NEW mid \in Nat, NEW next \in Nat
    PROVE  /\ Owed(p, first, next) \subseteq Owed(p, first, mid) \union Owed(p, mid, next)
           /\ next <= first => Owed(p, first, next) = {}
           /\ \A o \in Owed(p, first, next) : o \in Nat
  <1>1. \A o \in log.visible[p] : o \in Nat
    BY LogFields, LogNumbers
  <1> QED
    BY <1>1 DEF Owed

LEMMA ReachedBelow ==
    ASSUME Logged, NEW p \in KafkaTopic!Partition, NEW a \in Nat, NEW b \in Nat, a <= b, Reached(p, b)
    PROVE  Reached(p, a)
  <1>1. log.stable[p] \in Nat /\ log.top[p] \in Nat
    BY LogFields, OffsetsTyped
  <1> QED
    BY <1>1 DEF Reached

(* Only the page under way changes, and where the reader began if nothing  *)
(* was shown yet.                                                          *)
LEMMA WorkMoves ==
    ASSUME Logged, log.kind # "list", ~log.ended,
           NEW at \in {"idle", "windows", "turn", "poll", "merge", "end"}, NEW work \in LogWork,
           NEW from \in Offsets, log.cursor.on => from = log.from,
           log' = [log EXCEPT !.at = at, !.work = work, !.from = from],
           ReadTo(at, work, from)
    PROVE  Logged'
  <1>1. log \in LogRecord
    BY DEF Logged
  <1>2. /\ log' \in LogRecord
        /\ log'.kind = log.kind /\ log'.low = log.low /\ log'.stable = log.stable
        /\ log'.top = log.top /\ log'.visible = log.visible /\ log'.rewritten = log.rewritten
        /\ log'.at = at /\ log'.cursor = log.cursor /\ log'.work = work /\ log'.from = from
        /\ log'.shown = log.shown /\ log'.ended = log.ended
    BY <1>1 DEF LogRecord
  <1>3. KafkaTopic!View' = KafkaTopic!View /\ KafkaTopic!Count' = KafkaTopic!Count
    BY <1>2 DEF KafkaTopic!View, KafkaTopic!Count
  <1>4. LogKept' /\ (\A p \in KafkaTopic!Partition : log.low[p] <= log.stable[p])'
    BY <1>2 DEF Logged, LogKept
  <1>5. TopicShown
    BY DEF Logged
  <1>6. TopicShown'
    <2>1. /\ Windowed(log.cursor)' /\ RowsAscend(log.shown)'
          /\ (\A i \in 1 .. Len(log.shown) : LET p == log.shown[i][1] IN
                p \in KafkaTopic!View /\ log.shown[i][2] < log.cursor.next[p])'
          /\ (~log.cursor.on => log.shown = <<>> /\ log.cursor.next = KafkaTopic!Zero)'
          /\ ~log'.ended
      BY <1>2, <1>3, <1>5 DEF TopicShown, Windowed, Reached
    <2>2. ASSUME NEW p \in KafkaTopic!View
          PROVE  Owed(p, from[p], log.cursor.next[p])' \subseteq OffsetsOf(log.shown, p)'
      <3>1. Owed(p, from[p], log.cursor.next[p])' = Owed(p, from[p], log.cursor.next[p])
        BY <1>2 DEF Owed
      <3>2. CASE log.cursor.on
        BY <1>2, <1>5, <3>1, <3>2 DEF TopicShown
      <3>3. CASE ~log.cursor.on
        <4>1. p \in KafkaTopic!Partition
          BY LogViews
        <4>2. log.cursor.next[p] = 0 /\ from[p] \in Nat
          BY <1>5, <3>3, <4>1, LogNumbers, OffsetsTyped DEF TopicShown
        <4>3. Owed(p, from[p], log.cursor.next[p]) = {}
          BY <4>1, <4>2, OwedSplits
        <4> QED
          BY <3>1, <4>3
      <3> QED
        BY <3>2, <3>3
    <2> QED
      BY <1>2, <1>3, <2>1, <2>2 DEF TopicShown
  <1>7. ReadTo(at, work, from)'
    BY <1>2, <1>3 DEF ReadTo, WindowsTaken, PageShares, BatchTaken, Windowed, Reached, Owed
  <1> QED
    BY <1>2, <1>4, <1>6, <1>7 DEF Logged

(* A page is under way only of a view that has not ended.                  *)
LEMMA ReadsLog ==
    ASSUME Logged, log.at # "idle" \/ log.kind # "list"
    PROVE  /\ log.kind # "list" /\ TopicShown /\ ReadTo(log.at, log.work, log.from)
           /\ log.at # "idle" => ~log.ended
  <1>1. log.kind # "list"
    BY DEF Logged, NamesShown
  <1> QED
    BY <1>1 DEF Logged, TopicShown

LEMMA LogBegins ==
    ASSUME Logged, KafkaTopic!Ask \/ KafkaTopic!PageFails \/ log' = KafkaTopic!Fails,
           log.kind # "list", ~log.ended
    PROVE  Logged'
  <1>1. log \in LogRecord /\ log.from \in Offsets
    BY LogFields
  <1>2. PICK place \in {"idle", "windows"} : log' = [log EXCEPT !.at = place, !.work = KafkaTopic!NoWork]
    BY DEF KafkaTopic!Ask, KafkaTopic!PageFails, KafkaTopic!Fails
  <1>3. log' = [log EXCEPT !.at = place, !.work = KafkaTopic!NoWork, !.from = log.from]
    BY <1>1, <1>2 DEF LogRecord
  <1>4. KafkaTopic!NoWork \in LogWork
    BY NoPlaces
  <1>5. ReadTo(place, KafkaTopic!NoWork, log.from)
    <2>1. WindowsTaken(KafkaTopic!NoWork)
      <3> SUFFICES ASSUME NEW p \in KafkaTopic!View PROVE Reached(p, KafkaTopic!NoWork.end[p])
        BY DEF WindowsTaken
      <3>1. p \in KafkaTopic!Partition
        BY LogViews
      <3>2. KafkaTopic!NoWork.end[p] = 0 /\ log.stable[p] \in Nat
        BY <3>1, NoPlaces, LogNumbers, LogFields, OffsetsTyped
      <3> QED
        BY <3>2 DEF Reached
    <2>2. KafkaTopic!NoWork.seen <= KafkaTopic!Count /\ KafkaTopic!NoWork.step <= KafkaTopic!Count
      BY NoPlaces, LogViews
    <2>3. KafkaTopic!NoWork.rows = <<>> /\ Len(KafkaTopic!NoWork.rows) <= PageRows
      BY NoPlaces, LogNumbers
    <2> QED
      BY <2>1, <2>2, <2>3 DEF ReadTo
  <1> QED
    BY <1>1, <1>3, <1>4, <1>5, WorkMoves, ZenonT(60)

(* The watermarks of one partition more.                                   *)
LEMMA LogWatermarks ==
    ASSUME Logged, KafkaTopic!Watermarks
    PROVE  Logged'
  <1> DEFINE w == log.work
             p == w.seen
             low == [w.low EXCEPT ![p] = log.low[p]]
             end == [w.end EXCEPT ![p] = log.stable[p]]
             seen == w.seen + 1
             work == [w EXCEPT !.low = low, !.end = end, !.seen = seen]
  <1>1. /\ log.at = "windows" /\ w.seen < KafkaTopic!Count
        /\ log' = [log EXCEPT !.work.low[p] = log.low[p], !.work.end[p] = log.stable[p],
                              !.work.seen = @ + 1]
    BY DEF KafkaTopic!Watermarks, KafkaTopic!At
  <1>2. /\ log.kind # "list" /\ ~log.ended /\ ReadTo(log.at, w, log.from)
    BY <1>1, ReadsLog
  <1>3. log \in LogRecord /\ w \in LogWork /\ log.from \in Offsets
    BY LogFields
  <1>4. w.low \in Offsets /\ w.end \in Offsets /\ w.seen \in Nat /\ p \in KafkaTopic!View
        /\ p \in KafkaTopic!Partition
    BY <1>1, <1>3, PageOfLog, LogViews
  <1>5. /\ low \in Offsets /\ end \in Offsets
        /\ end[p] = log.stable[p] /\ \A q \in KafkaTopic!Partition \ {p} : end[q] = w.end[q]
    BY <1>4, LogFields DEF Offsets
  <1>6. seen \in 0 .. Partitions /\ seen <= KafkaTopic!Count
    <2>1. KafkaTopic!Count \in Nat /\ KafkaTopic!Count <= Partitions /\ Partitions \in Nat
      BY LogViews, LogNumbers
    <2> QED
      BY <1>1, <1>4, <2>1
  <1>7. log' = [log EXCEPT !.at = "windows", !.work = work, !.from = log.from]
    BY <1>1, <1>3 DEF LogRecord, LogWork
  <1> HIDE DEF low, end, seen
  <1>8. work \in LogWork /\ work.rows = w.rows /\ work.step = w.step /\ work.seen = seen /\ work.end = end
    BY <1>3, <1>5, <1>6 DEF LogWork
  <1>9. WindowsTaken(work)
    <2> SUFFICES ASSUME NEW q \in KafkaTopic!View PROVE Reached(q, end[q])
      BY <1>8 DEF WindowsTaken
    <2>1. CASE q = p
      <3>1. log.stable[p] \in Nat
        BY <1>4, LogFields, OffsetsTyped
      <3> QED
        BY <1>5, <2>1, <3>1 DEF Reached
    <2>2. CASE q # p
      <3>1. Reached(q, w.end[q])
        BY <1>1, <1>2 DEF ReadTo, WindowsTaken
      <3>2. end[q] = w.end[q]
        BY <1>5, <2>2, LogViews
      <3> QED
        BY <3>1, <3>2
    <2> QED
      BY <2>1, <2>2
  <1>10. ReadTo("windows", work, log.from)
    BY <1>1, <1>2, <1>6, <1>8, <1>9 DEF ReadTo
  <1> HIDE DEF work
  <1> QED
    BY <1>2, <1>3, <1>7, <1>8, <1>10, WorkMoves

-----------------------------------------------------------------------------
(* A page begins *)

LEMMA LeastPosition ==
    ASSUME NEW a \in Int, NEW b \in Int
    PROVE  KafkaTopic!Min({a, b}) = (IF a <= b THEN a ELSE b)
  BY LeastOfTwo DEF KafkaTopic!Min, Least

LEMMA MostPosition ==
    ASSUME NEW a \in Int, NEW b \in Int
    PROVE  KafkaTopic!Max({a, b}) = (IF a >= b THEN a ELSE b)
  BY LeastOfTwo DEF KafkaTopic!Max, Most

(* The first cursor of a view, wherever it begins.                         *)
LEMMA LogPlaces ==
    ASSUME Logged, log.kind # "list"
    PROVE  KafkaTopic!Placed \in LogCursor /\ KafkaTopic!Placed.on
  <1> DEFINE w == log.work
  <1>1. w \in LogWork /\ w.low \in Offsets /\ w.end \in Offsets
    BY LogFields, PageOfLog
  <1>2. CASE log.kind # "replay"
    <2>1. KafkaTopic!Placed = [on |-> TRUE, turn |-> 0, end |-> w.end,
                               next |-> IF log.live THEN w.end ELSE w.low]
      BY <1>2 DEF KafkaTopic!Placed
    <2> QED
      BY <1>1, <2>1, LogNumbers DEF LogCursor
  <1>3. CASE log.kind = "replay"
    <2> DEFINE stable == w.end[0]
               end == IF log.replay.end < 0 THEN stable ELSE log.replay.end
               start == IF KafkaTopic!Looked < 0 THEN w.low[0]
                        ELSE IF log.replay.time THEN KafkaTopic!Min({KafkaTopic!Looked, end})
                        ELSE KafkaTopic!Looked
    <2>1. KafkaTopic!Placed = [KafkaTopic!NoCursor EXCEPT !.on = TRUE, !.next[0] = start, !.end[0] = end]
      BY <1>3, Zenon DEF KafkaTopic!Placed, KafkaTopic!Replayed
    <2>2. /\ w.low[0] \in KafkaTopic!Position /\ w.end[0] \in KafkaTopic!Position
          /\ MaxOffset \in Nat /\ KafkaTopic!Position = 0 .. MaxOffset
      BY <1>1, LogNumbers, OffsetsTyped
    <2>3. /\ log.replay.start \in -1 .. MaxOffset /\ log.replay.end \in -1 .. MaxOffset
          /\ log.replay.time \in BOOLEAN /\ log.lookup \in KafkaTopic!Position
      BY LogFields DEF KafkaTopic!Replay
    <2>4. end \in KafkaTopic!Position
      BY <2>2, <2>3
    <2> HIDE DEF end
    <2>5. KafkaTopic!Looked \in -1 .. MaxOffset
      BY <2>2, <2>3 DEF KafkaTopic!Looked
    <2>6. KafkaTopic!Min({KafkaTopic!Looked, end})
             = IF KafkaTopic!Looked <= end THEN KafkaTopic!Looked ELSE end
      <3>1. KafkaTopic!Looked \in Int /\ end \in Int
        BY <2>2, <2>4, <2>5
      <3> QED
        BY <3>1, LeastPosition
    <2>7. start \in KafkaTopic!Position
      BY <2>2, <2>4, <2>5, <2>6
    <2> HIDE DEF start
    <2> DEFINE none == KafkaTopic!NoCursor
               nexts == [none.next EXCEPT ![0] = start]
               ends == [none.end EXCEPT ![0] = end]
    <2>8. none \in LogCursor /\ none.next \in Offsets /\ none.end \in Offsets
      BY NoPlaces, LogNumbers
    <2>9. nexts \in Offsets /\ ends \in Offsets
      BY <2>4, <2>7, <2>8 DEF Offsets
    <2>10. KafkaTopic!Placed = [none EXCEPT !.on = TRUE, !.next = nexts, !.end = ends]
      BY <2>1, <2>8 DEF LogCursor
    <2> HIDE DEF none, nexts, ends
    <2> QED
      BY <2>8, <2>9, <2>10 DEF LogCursor
  <1> QED
    BY <1>2, <1>3

(* The share of a partition: at least one row.                             *)
LEMMA ShareOfPage ==
    ASSUME NEW S \in SUBSET KafkaTopic!Partition
    PROVE  LET m == KafkaTopic!Max({KafkaTopic!Cardinality(S), 1}) IN
           (PageRows + m - 1) \div m \in Nat /\ (PageRows + m - 1) \div m > 0
  <1>1. KafkaTopic!Cardinality(S) = Cardinality(S)
    BY DEF KafkaTopic!Cardinality, Cardinality
  <1>2. Cardinality(S) \in Nat
    <2>1. 0 \in Int /\ Partitions - 1 \in Int
      BY LogNumbers
    <2>2. IsFiniteSet(0 .. Partitions - 1)
      BY <2>1, FS_Interval
    <2>3. IsFiniteSet(S)
      BY <2>2, LogNumbers, FS_Subset
    <2> QED
      BY <2>3, FS_CardinalityType
  <1> DEFINE m == KafkaTopic!Max({KafkaTopic!Cardinality(S), 1})
  <1>3. m \in Nat /\ m >= 1
    <2> DEFINE n == Cardinality(S)
    <2>1. n \in Nat /\ n \in Int /\ 1 \in Int
      BY <1>2
    <2> HIDE DEF n
    <2>2. KafkaTopic!Max({n, 1}) = IF n >= 1 THEN n ELSE 1
      BY <2>1, MostPosition
    <2>3. m = IF n >= 1 THEN n ELSE 1
      BY <1>1, <2>2 DEF n
    <2> QED
      BY <2>1, <2>3
  <1> HIDE DEF m
  <1> DEFINE q == (PageRows + m - 1) \div m
  <1>4. PageRows \in Nat /\ PageRows >= 1
    BY LogNumbers
  <1>5. q \in Int /\ PageRows + m - 1 < m * (q + 1) /\ m * q <= PageRows + m - 1
    BY <1>3, <1>4
  <1> HIDE DEF q
  <1>6. q > 0
    <2> SUFFICES ASSUME q <= 0 PROVE FALSE
      BY <1>5
    <2>1. q + 1 <= 1
      BY <1>5
    <2>2. m * (q + 1) <= m * 1
      BY <1>3, <1>5, <2>1
    <2> QED
      BY <1>3, <1>4, <1>5, <2>2
  <1> QED
    BY <1>5, <1>6 DEF q, m

LEMMA LogResumes ==
    ASSUME Logged, KafkaTopic!Resume
    PROVE  Logged'
  <1> DEFINE w == log.work
             cursor == IF log.cursor.on THEN log.cursor ELSE KafkaTopic!Placed
             begun == KafkaTopic!Extended(cursor)
             active == {p \in KafkaTopic!View : begun.next[p] < begun.end[p]}
             m == KafkaTopic!Max({KafkaTopic!Cardinality(active), 1})
             quota == (PageRows + m - 1) \div m
             from == IF log.cursor.on THEN log.from ELSE begun.next
             work == [w EXCEPT !.cursor = begun, !.quota = quota]
  <1>1. log.at = "windows"
    BY DEF KafkaTopic!Resume, KafkaTopic!At
  <1>2. IF KafkaTopic!Available(cursor)
        THEN log' = [log EXCEPT !.at = "turn", !.work.cursor = begun, !.from = from,
                                !.work.quota = quota]
        ELSE log' = KafkaTopic!Fails
    BY Zenon DEF KafkaTopic!Resume
  <1>3. /\ log.kind # "list" /\ ~log.ended /\ TopicShown /\ ReadTo(log.at, w, log.from)
    BY <1>1, ReadsLog
  <1>4. CASE ~KafkaTopic!Available(cursor)
    BY <1>2, <1>3, <1>4, LogBegins
  <1>5. CASE KafkaTopic!Available(cursor)
    <2>1. log \in LogRecord /\ w \in LogWork /\ log.cursor \in LogCursor /\ log.from \in Offsets
      BY LogFields
    <2>2. w.end \in Offsets /\ w.low \in Offsets
      BY <2>1, PageOfLog
    <2>3. cursor \in LogCursor /\ cursor.on
      BY <1>3, <2>1, LogPlaces
    <2>4. /\ \A p \in KafkaTopic!View : cursor.next[p] <= cursor.end[p] /\ cursor.end[p] <= w.end[p]
      BY <1>5, Zenon DEF KafkaTopic!Available
    <2>5. log.cursor.on => cursor = log.cursor
      OBVIOUS
    <2> HIDE DEF cursor
    <2>6. /\ begun \in LogCursor /\ begun.on /\ begun.next = cursor.next
          /\ begun.end = cursor.end \/ begun.end = w.end
      <3>1. begun = IF log.live THEN [cursor EXCEPT !.end = w.end] ELSE cursor
        BY DEF KafkaTopic!Extended
      <3> HIDE DEF begun
      <3> QED
        BY <2>2, <2>3, <3>1 DEF LogCursor
    <2>7. quota \in Nat /\ quota > 0
      <3>1. active \in SUBSET KafkaTopic!Partition
        BY LogViews
      <3> HIDE DEF active
      <3> QED
        BY <3>1, ShareOfPage
    <2> HIDE DEF begun, quota
    <2>8. log' = [log EXCEPT !.at = "turn", !.work = work, !.from = from]
      BY <1>2, <1>5, <2>1 DEF LogRecord, LogWork
    <2>9. /\ work \in LogWork /\ work.cursor = begun /\ work.quota = quota /\ work.rows = w.rows
          /\ work.seen = w.seen /\ work.step = w.step
      BY <2>1, <2>6, <2>7 DEF LogWork
    <2>10. from \in Offsets /\ (log.cursor.on => from = log.from)
      BY <2>1, <2>6, PlaceFields
    <2>11. Windowed(begun)
      <3> SUFFICES ASSUME NEW p \in KafkaTopic!View
                   PROVE  begun.next[p] <= begun.end[p] /\ Reached(p, begun.end[p])
        BY DEF Windowed
      <3>1. p \in KafkaTopic!Partition
        BY LogViews
      <3>2. /\ w.end[p] \in Nat /\ cursor.next[p] \in Nat /\ cursor.end[p] \in Nat
        BY <2>2, <2>3, <3>1, PlaceFields, OffsetsTyped
      <3>3. Reached(p, w.end[p])
        BY <1>1, <1>3 DEF ReadTo, WindowsTaken
      <3>4. cursor.next[p] <= cursor.end[p] /\ cursor.end[p] <= w.end[p]
        BY <2>4
      <3>5. Reached(p, cursor.end[p])
        BY <3>1, <3>2, <3>3, <3>4, ReachedBelow
      <3>6. cursor.next[p] <= w.end[p]
        BY <3>2, <3>4
      <3> QED
        BY <2>6, <3>3, <3>4, <3>5, <3>6
    <2>12. w.rows = <<>> /\ RowsAscend(<<>>) /\ Len(<<>>) = 0
      <3>1. Len(<<>>) = 0 /\ 1 .. 0 = {}
        OBVIOUS
      <3> QED
        BY <1>1, <1>3, <3>1 DEF ReadTo, RowsAscend
    <2>13. \A p \in KafkaTopic!View : log.cursor.next[p] <= begun.next[p]
      <3> SUFFICES ASSUME NEW p \in KafkaTopic!View PROVE log.cursor.next[p] <= begun.next[p]
        OBVIOUS
      <3>1. p \in KafkaTopic!Partition
        BY LogViews
      <3>2. log.cursor.next[p] \in Nat /\ begun.next[p] \in Nat
        BY <2>1, <2>6, <3>1, PlaceFields, OffsetsTyped
      <3>3. CASE log.cursor.on
        BY <2>5, <2>6, <3>2, <3>3
      <3>4. CASE ~log.cursor.on
        <4>1. log.cursor.next[p] = 0
          BY <1>3, <3>1, <3>4, LogNumbers DEF TopicShown
        <4> QED
          BY <3>2, <4>1
      <3> QED
        BY <3>3, <3>4
    <2>14. ASSUME NEW p \in KafkaTopic!View
           PROVE  Owed(p, from[p], begun.next[p]) \subseteq OffsetsOf(log.shown, p)
      <3>1. p \in KafkaTopic!Partition
        BY LogViews
      <3>2. CASE log.cursor.on
        BY <1>3, <2>5, <2>6, <3>2 DEF TopicShown
      <3>3. CASE ~log.cursor.on
        <4>1. from[p] = begun.next[p] /\ begun.next[p] \in Nat
          BY <2>6, <3>1, <3>3, PlaceFields, OffsetsTyped
        <4>2. Owed(p, begun.next[p], begun.next[p]) = {}
          BY <3>1, <4>1, OwedSplits
        <4> QED
          BY <4>1, <4>2
      <3> QED
        BY <3>2, <3>3
    <2> HIDE DEF from, work
    <2>15. PageShares(work, from)
      BY <2>6, <2>7, <2>9, <2>11, <2>12, <2>13, <2>14 DEF PageShares
    <2>16. Room(work) > 0 /\ Len(work.rows) <= PageRows
      BY <2>9, <2>12, LogNumbers DEF Room
    <2>17. ReadTo("turn", work, from)
      BY <1>3, <2>9, <2>15, <2>16 DEF ReadTo
    <2> QED
      BY <1>3, <2>8, <2>9, <2>10, <2>17, WorkMoves
  <1> QED
    BY <1>4, <1>5

-----------------------------------------------------------------------------
(* The partitions take turns *)

LEMMA IndexIs ==
    ASSUME Logged
    PROVE  KafkaTopic!Index \in KafkaTopic!View /\ KafkaTopic!Index \in KafkaTopic!Partition
  <1> DEFINE a == log.cursor.turn + log.work.step
             n == KafkaTopic!Count
  <1>1. log.cursor.turn \in Nat /\ log.work.step \in Nat
    BY LogFields, PlaceFields, PageOfLog, LogNumbers
  <1>2. a \in Nat /\ n \in Nat \ {0}
    BY <1>1, LogViews
  <1>3. KafkaTopic!Index = a % n
    BY DEF KafkaTopic!Index, KafkaTopic!Work
  <1> HIDE DEF a, n
  <1>4. a % n \in 0 .. n - 1
    BY <1>2
  <1> QED
    BY <1>3, <1>4, LogViews DEF n

LEMMA LogQuiet ==
    ASSUME Logged, KafkaTopic!Quiet
    PROVE  Logged'
  <1> DEFINE w == log.work
             step == w.step + 1
             work == [w EXCEPT !.step = step]
  <1>1. /\ log.at = "turn" /\ w.step < KafkaTopic!Count
        /\ log' = [log EXCEPT !.work.step = @ + 1]
    BY DEF KafkaTopic!Quiet, KafkaTopic!At, KafkaTopic!Work
  <1>2. /\ log.kind # "list" /\ ~log.ended /\ ReadTo("turn", w, log.from)
    BY <1>1, ReadsLog
  <1>3. log \in LogRecord /\ w \in LogWork /\ log.from \in Offsets /\ w.step \in Nat
    BY LogFields, PageOfLog
  <1>4. step \in 0 .. Partitions /\ step <= KafkaTopic!Count
    <2>1. KafkaTopic!Count \in Nat /\ KafkaTopic!Count <= Partitions /\ Partitions \in Nat
      BY LogViews, LogNumbers
    <2> QED
      BY <1>1, <1>3, <2>1
  <1>5. log' = [log EXCEPT !.at = "turn", !.work = work, !.from = log.from]
    BY <1>1, <1>3 DEF LogRecord, LogWork
  <1> HIDE DEF step
  <1>6. /\ work \in LogWork /\ work.step = step /\ work.rows = w.rows /\ work.seen = w.seen
        /\ work.cursor = w.cursor /\ work.quota = w.quota
    BY <1>3, <1>4 DEF LogWork
  <1> HIDE DEF work
  <1>7. ReadTo("turn", work, log.from)
    BY <1>2, <1>4, <1>6 DEF ReadTo, PageShares, Room
  <1> QED
    BY <1>2, <1>3, <1>5, <1>6, <1>7, WorkMoves

LEMMA LogAssigns ==
    ASSUME Logged, KafkaTopic!Assign
    PROVE  Logged'
  <1> DEFINE w == log.work
             p == KafkaTopic!Index
             pos == w.cursor.next[p]
             work == [w EXCEPT !.part = p, !.batch = <<>>, !.pos = pos]
  <1>1. /\ log.at = "turn" /\ w.step < KafkaTopic!Count
        /\ log' = [log EXCEPT !.at = "poll", !.work.part = p, !.work.batch = <<>>, !.work.pos = pos]
    BY DEF KafkaTopic!Assign, KafkaTopic!At, KafkaTopic!Work
  <1>2. /\ log.kind # "list" /\ ~log.ended /\ ReadTo("turn", w, log.from)
    BY <1>1, ReadsLog
  <1>3. log \in LogRecord /\ w \in LogWork /\ log.from \in Offsets
        /\ w.cursor.next \in Offsets /\ w.cursor.end \in Offsets /\ w.quota \in Nat
    BY LogFields, PageOfLog
  <1>4. p \in KafkaTopic!View /\ p \in KafkaTopic!Partition
    BY IndexIs
  <1>5. pos \in KafkaTopic!Position /\ pos \in Nat /\ w.cursor.end[p] \in Nat
    BY <1>3, <1>4, OffsetsTyped
  <1>6. log' = [log EXCEPT !.at = "poll", !.work = work, !.from = log.from]
    BY <1>1, <1>3 DEF LogRecord, LogWork
  <1>7. pos = w.cursor.next[p]
    OBVIOUS
  <1> HIDE DEF p, pos
  <1>8. <<>> \in Seq(KafkaTopic!Position) /\ Len(<<>>) = 0 /\ Ascends(<<>>) /\ Elements(<<>>) = {}
    BY DEF Ascends, Elements
  <1>9. /\ work \in LogWork /\ work.step = w.step /\ work.rows = w.rows /\ work.seen = w.seen
        /\ work.cursor = w.cursor /\ work.quota = w.quota /\ work.part = p /\ work.batch = <<>>
        /\ work.pos = pos
    BY <1>3, <1>4, <1>5, <1>8 DEF LogWork
  <1> HIDE DEF work
  <1>10. PageShares(work, log.from)
    BY <1>2, <1>9 DEF ReadTo, PageShares
  <1>11. BatchTaken(work)
    <2>1. pos <= w.cursor.end[p]
      BY <1>2, <1>4, <1>7 DEF ReadTo, PageShares, Windowed
    <2>2. Owed(p, pos, pos) = {}
      BY <1>4, <1>5, OwedSplits
    <2> QED
      BY <1>1, <1>4, <1>5, <1>7, <1>8, <1>9, <2>1, <2>2 DEF BatchTaken
  <1>12. ReadTo("poll", work, log.from)
    <2>1. Room(work) > 0 /\ w.quota > 0 /\ Room(work) = Room(w)
      BY <1>2, <1>9 DEF ReadTo, PageShares, Room
    <2> QED
      BY <1>2, <1>8, <1>9, <1>10, <1>11, <2>1 DEF ReadTo
  <1> QED
    BY <1>2, <1>3, <1>6, <1>9, <1>12, WorkMoves

-----------------------------------------------------------------------------
(* A partition is read *)

(* The batch grows, the position moves, and what lies between is taken.    *)
LEMMA LogPolls ==
    ASSUME Logged, log.at = "poll", NEW at \in {"poll", "merge"},
           NEW batch \in Seq(KafkaTopic!Position), NEW pos \in KafkaTopic!Position,
           log' = [log EXCEPT !.at = at, !.work.batch = batch, !.work.pos = pos],
           Ascends(batch), log.work.pos <= pos, pos <= KafkaTopic!Until,
           \A i \in 1 .. Len(batch) :
              log.work.cursor.next[log.work.part] <= batch[i] /\ batch[i] < pos,
           Elements(log.work.batch) \subseteq Elements(batch),
           Owed(log.work.part, log.work.pos, pos) \subseteq Elements(batch),
           Len(batch) <= Room(log.work),
           at = "poll" => Len(batch) < Room(log.work) /\ Len(batch) < log.work.quota
    PROVE  Logged'
  <1> DEFINE w == log.work
             p == w.part
             work == [w EXCEPT !.batch = batch, !.pos = pos]
  <1>1. /\ log.kind # "list" /\ ~log.ended /\ ReadTo("poll", w, log.from)
    BY ReadsLog
  <1>2. log \in LogRecord /\ w \in LogWork /\ log.from \in Offsets
        /\ p \in KafkaTopic!Partition /\ w.cursor.next \in Offsets /\ w.pos \in Nat
    BY LogFields, PageOfLog
  <1>3. log' = [log EXCEPT !.at = at, !.work = work, !.from = log.from]
    BY <1>2 DEF LogRecord, LogWork
  <1>4. /\ work \in LogWork /\ work.step = w.step /\ work.rows = w.rows /\ work.seen = w.seen
        /\ work.cursor = w.cursor /\ work.quota = w.quota /\ work.part = p /\ work.batch = batch
        /\ work.pos = pos
    BY <1>2 DEF LogWork
  <1> HIDE DEF work
  <1>5. PageShares(work, log.from)
    BY <1>1, <1>4 DEF ReadTo, PageShares
  <1>6. BatchTaken(w)
    BY <1>1 DEF ReadTo
  <1>7. Owed(p, w.cursor.next[p], pos) \subseteq Elements(batch)
    <2>1. w.cursor.next[p] \in Nat /\ pos \in Nat
      BY <1>2, OffsetsTyped, LogNumbers
    <2>2. Owed(p, w.cursor.next[p], pos) \subseteq Owed(p, w.cursor.next[p], w.pos) \union Owed(p, w.pos, pos)
      BY <1>2, <2>1, OwedSplits
    <2>3. Owed(p, w.cursor.next[p], w.pos) \subseteq Elements(w.batch)
      BY <1>6 DEF BatchTaken
    <2> QED
      BY <2>2, <2>3
  <1>8. w.cursor.next[p] <= pos
    <2>1. w.cursor.next[p] \in Nat /\ pos \in Nat
      BY <1>2, OffsetsTyped, LogNumbers
    <2>2. w.cursor.next[p] <= w.pos
      BY <1>6 DEF BatchTaken
    <2> QED
      BY <1>2, <2>1, <2>2
  <1>9. BatchTaken(work)
    <2>1. pos <= w.cursor.end[p]
      BY DEF KafkaTopic!Until, KafkaTopic!Work
    <2> QED
      BY <1>4, <1>6, <1>7, <1>8, <2>1 DEF BatchTaken
  <1>10. ReadTo(at, work, log.from)
    <2>1. Room(work) = Room(w)
      BY <1>4 DEF Room
    <2> QED
      BY <1>1, <1>4, <1>5, <1>9, <2>1 DEF ReadTo
  <1>11. at \in {"idle", "windows", "turn", "poll", "merge", "end"}
    OBVIOUS
  <1> QED
    BY <1>1, <1>2, <1>3, <1>4, <1>10, <1>11, WorkMoves

(* The first record found, and nothing owed before it.                     *)
LEMMA FirstFound ==
    ASSUME Logged, log.at = "poll"
    PROVE  LET p == log.work.part IN
           /\ p \in KafkaTopic!Partition /\ KafkaTopic!Found \in SUBSET KafkaTopic!Position
           /\ log.work.pos \in Nat /\ KafkaTopic!Until \in KafkaTopic!Position
           /\ KafkaTopic!Until \in Nat
           /\ KafkaTopic!Found # {} =>
                 LET o == KafkaTopic!Min(KafkaTopic!Found) IN
                 /\ o \in KafkaTopic!Found /\ o \in KafkaTopic!Position /\ o \in Nat
                 /\ log.work.pos <= o
                 /\ \A next \in Nat : next <= o => Owed(p, log.work.pos, next) = {}
                 /\ Owed(p, log.work.pos, o + 1) \subseteq {o}
           /\ KafkaTopic!Found = {} => \A next \in Nat : Owed(p, log.work.pos, next) = {}
  <1> DEFINE w == log.work
             p == w.part
             found == KafkaTopic!Found
             o == KafkaTopic!Min(found)
  <1>1. w \in LogWork /\ p \in KafkaTopic!Partition /\ w.pos \in Nat /\ w.cursor.end \in Offsets
    BY LogFields, PageOfLog
  <1>2. log.visible[p] \in SUBSET KafkaTopic!Position /\ KafkaTopic!Position \in SUBSET Nat
    BY <1>1, LogFields, LogNumbers
  <1>3. found = {x \in log.visible[p] : x >= w.pos}
    BY DEF KafkaTopic!Found, KafkaTopic!Work
  <1>4. KafkaTopic!Until = w.cursor.end[p]
    BY DEF KafkaTopic!Until, KafkaTopic!Work
  <1>5. KafkaTopic!Until \in KafkaTopic!Position /\ KafkaTopic!Until \in Nat
    BY <1>1, <1>4, OffsetsTyped
  <1> HIDE DEF found
  <1>6. found \in SUBSET KafkaTopic!Position /\ found \in SUBSET Nat
    BY <1>2, <1>3
  <1>7. ASSUME found # {} PROVE o \in found /\ \A x \in found : o <= x
    <2>1. \E x \in found : \A y \in found : x <= y
      BY <1>6, <1>7, LeastOf
    <2> QED
      BY <2>1 DEF KafkaTopic!Min
  <1> HIDE DEF o
  <1>8. \A next : Owed(p, w.pos, next) \subseteq {x \in found : x < next}
    BY <1>3 DEF Owed
  <1>9. ASSUME found # {}
        PROVE  /\ o \in found /\ o \in KafkaTopic!Position /\ o \in Nat /\ w.pos <= o
               /\ \A next \in Nat : next <= o => Owed(p, w.pos, next) = {}
               /\ Owed(p, w.pos, o + 1) \subseteq {o}
    <2>1. /\ o \in found /\ o \in KafkaTopic!Position /\ o \in Nat
          /\ \A x \in found : o <= x /\ x \in Nat
      BY <1>6, <1>7, <1>9
    <2>2. w.pos <= o
      BY <1>1, <1>3, <2>1
    <2>3. \A next \in Nat : next <= o => \A x \in found : ~(x < next)
      BY <2>1
    <2>4. \A x \in found : x < o + 1 => x = o
      BY <2>1
    <2> QED
      BY <1>8, <2>1, <2>2, <2>3, <2>4
  <1>10. found = {} => \A next \in Nat : Owed(p, w.pos, next) = {}
    BY <1>8
  <1> QED
    BY <1>1, <1>5, <1>6, <1>9, <1>10 DEF o, found

LEMMA LogReachesEnd ==
    ASSUME Logged, KafkaTopic!ReachesEnd
    PROVE  Logged'
  <1> DEFINE w == log.work
             p == w.part
             found == KafkaTopic!Found
             until == KafkaTopic!Until
             o == KafkaTopic!Min(found)
  <1>1. /\ log.at = "poll"
        /\ IF found = {} THEN log.stable[p] >= until ELSE o >= until
        /\ log' = [log EXCEPT !.at = "merge", !.work.batch = w.batch, !.work.pos = until]
    BY DEF KafkaTopic!ReachesEnd, KafkaTopic!At, KafkaTopic!Work, KafkaTopic!Read
  <1>2. BatchTaken(w) /\ Len(w.batch) < Room(w)
    BY <1>1, ReadsLog DEF ReadTo
  <1>3. w \in LogWork /\ w.batch \in Seq(KafkaTopic!Position) /\ Len(w.batch) \in Nat
        /\ Room(w) \in Int /\ w.pos \in Nat /\ p \in KafkaTopic!Partition
        /\ \A i \in 1 .. Len(w.batch) : w.batch[i] \in Nat
    BY LogFields, PageOfLog, ElementOfSeq, LogNumbers
  <1>4. /\ until \in KafkaTopic!Position /\ until \in Nat /\ Owed(p, w.pos, until) = {}
    BY <1>1, FirstFound
  <1>5. w.pos <= until
    BY <1>2 DEF BatchTaken, KafkaTopic!Until, KafkaTopic!Work
  <1>6. /\ Ascends(w.batch)
        /\ \A i \in 1 .. Len(w.batch) : w.cursor.next[p] <= w.batch[i] /\ w.batch[i] < w.pos
    BY <1>2 DEF BatchTaken
  <1>7. \A i \in 1 .. Len(w.batch) : w.cursor.next[p] <= w.batch[i] /\ w.batch[i] < until
    BY <1>3, <1>4, <1>5, <1>6
  <1>8. Len(w.batch) <= Room(w) /\ until <= until
    BY <1>2, <1>3, <1>4
  <1> HIDE DEF until
  <1> QED
    BY <1>1, <1>3, <1>4, <1>5, <1>6, <1>7, <1>8, LogPolls DEF until

LEMMA LogSplits ==
    ASSUME Logged, KafkaTopic!Splits
    PROVE  Logged'
  <1> DEFINE w == log.work
             p == w.part
             found == KafkaTopic!Found
             until == KafkaTopic!Until
             o == KafkaTopic!Min(found)
  <1>1. /\ log.at = "poll" /\ found # {} /\ o < until
        /\ log' = [log EXCEPT !.at = "merge", !.work.batch = w.batch, !.work.pos = o]
    BY DEF KafkaTopic!Splits, KafkaTopic!At, KafkaTopic!Work, KafkaTopic!Read
  <1>2. BatchTaken(w) /\ Len(w.batch) < Room(w)
    BY <1>1, ReadsLog DEF ReadTo
  <1>3. w \in LogWork /\ w.batch \in Seq(KafkaTopic!Position) /\ Len(w.batch) \in Nat
        /\ Room(w) \in Int /\ w.pos \in Nat /\ p \in KafkaTopic!Partition
        /\ \A i \in 1 .. Len(w.batch) : w.batch[i] \in Nat
    BY LogFields, PageOfLog, ElementOfSeq, LogNumbers
  <1>4. /\ o \in KafkaTopic!Position /\ o \in Nat /\ w.pos <= o /\ Owed(p, w.pos, o) = {}
        /\ until \in Nat
    BY <1>1, FirstFound
  <1>5. /\ Ascends(w.batch)
        /\ \A i \in 1 .. Len(w.batch) : w.cursor.next[p] <= w.batch[i] /\ w.batch[i] < w.pos
    BY <1>2 DEF BatchTaken
  <1>6. \A i \in 1 .. Len(w.batch) : w.cursor.next[p] <= w.batch[i] /\ w.batch[i] < o
    <2> HIDE DEF o
    <2> QED
      BY <1>3, <1>4, <1>5, SMTT(30)
  <1>7. Len(w.batch) <= Room(w) /\ o <= until
    BY <1>1, <1>2, <1>3, <1>4
  <1> HIDE DEF o
  <1> QED
    BY <1>1, <1>3, <1>4, <1>5, <1>6, <1>7, LogPolls

LEMMA LogTakes ==
    ASSUME Logged, KafkaTopic!TakesRecord
    PROVE  Logged'
  <1> DEFINE w == log.work
             p == w.part
             found == KafkaTopic!Found
             until == KafkaTopic!Until
             o == KafkaTopic!Min(found)
             pos == o + 1
             batch == Append(w.batch, o)
             full == pos >= until \/ Len(batch) >= KafkaTopic!Limit
             at == IF full THEN "merge" ELSE "poll"
  <1>1. /\ log.at = "poll" /\ found # {} /\ o < until
        /\ log' = IF full THEN [log EXCEPT !.at = "merge", !.work.batch = batch, !.work.pos = pos]
                  ELSE [log EXCEPT !.work.batch = batch, !.work.pos = pos]
    BY DEF KafkaTopic!TakesRecord, KafkaTopic!At, KafkaTopic!Work, KafkaTopic!Read
  <1>2. BatchTaken(w) /\ Len(w.batch) < Room(w) /\ Len(w.batch) < w.quota
    BY <1>1, ReadsLog DEF ReadTo
  <1>3. w \in LogWork /\ w.batch \in Seq(KafkaTopic!Position) /\ Len(w.batch) \in Nat
        /\ Room(w) \in Int /\ w.pos \in Nat /\ p \in KafkaTopic!Partition /\ w.quota \in Nat
        /\ w.cursor.next \in Offsets /\ w.cursor.end \in Offsets
        /\ \A i \in 1 .. Len(w.batch) : w.batch[i] \in Nat
    BY LogFields, PageOfLog, ElementOfSeq, LogNumbers
  <1>4. /\ o \in KafkaTopic!Position /\ o \in Nat /\ w.pos <= o
        /\ Owed(p, w.pos, o + 1) \subseteq {o} /\ until \in Nat /\ until \in KafkaTopic!Position
    BY <1>1, FirstFound
  <1>5. /\ Ascends(w.batch)
        /\ \A i \in 1 .. Len(w.batch) : w.cursor.next[p] <= w.batch[i] /\ w.batch[i] < w.pos
        /\ w.cursor.next[p] <= w.pos
    BY <1>2 DEF BatchTaken
  <1>6. \A i \in 1 .. Len(w.batch) : w.batch[i] < o
    BY <1>3, <1>4, <1>5
  <1>7. log' = [log EXCEPT !.at = at, !.work.batch = batch, !.work.pos = pos]
    <2>1. log \in LogRecord
      BY LogFields
    <2> QED
      BY <1>1, <2>1 DEF LogRecord
  <1>8. (full <=> pos >= until \/ Len(batch) >= KafkaTopic!Limit) /\ at \in {"poll", "merge"}
        /\ (at = "poll" => ~full) /\ pos = o + 1
    OBVIOUS
  <1> HIDE DEF o, until, at, full
  <1>9. /\ batch \in Seq(KafkaTopic!Position) /\ Len(batch) = Len(w.batch) + 1
        /\ Ascends(batch) /\ Elements(batch) = Elements(w.batch) \union {o}
        /\ \A i \in 1 .. Len(w.batch) : batch[i] = w.batch[i]
        /\ batch[Len(w.batch) + 1] = o
    <2>1. KafkaTopic!Position \in SUBSET Nat
      BY LogNumbers
    <2> QED
      BY <1>3, <1>4, <1>5, <1>6, <2>1, AppendAscends
  <1> HIDE DEF batch
  <1> DEFINE n == Len(w.batch)
             first == w.cursor.next[p]
  <1>10. first \in Nat
    BY <1>3, OffsetsTyped
  <1>11. pos \in KafkaTopic!Position /\ pos \in Nat /\ w.pos <= pos /\ pos <= until
    BY <1>1, <1>3, <1>4, LogNumbers, SMTT(30)
  <1>12. ASSUME NEW i \in 1 .. Len(batch) PROVE first <= batch[i] /\ batch[i] < pos
    <2>1. n \in Nat /\ i \in 1 .. n + 1 /\ batch[n + 1] = o
          /\ \A j \in 1 .. n : batch[j] = w.batch[j] /\ first <= w.batch[j] /\ w.batch[j] < o
                               /\ w.batch[j] \in Nat
      BY <1>3, <1>5, <1>6, <1>9
    <2>4. first <= w.pos
      BY <1>5
    <2> HIDE DEF n, first
    <2>2. CASE i = n + 1
      <3> DEFINE a == w.pos
      <3>0. a \in Nat /\ a <= o /\ o \in Nat /\ first <= a
        <4>1. a \in Nat
          BY <1>3
        <4>2. a <= o /\ o \in Nat
          BY <1>4
        <4>3. first <= a
          BY <2>4
        <4> QED
          BY <4>1, <4>2, <4>3
      <3> HIDE DEF a
      <3>1. first <= o /\ o < pos
        BY <1>10, <3>0
      <3>2. batch[i] = o
        BY <2>1, <2>2
      <3> QED
        BY <3>1, <3>2
    <2>3. CASE i # n + 1
      <3>1. i \in 1 .. n
        BY <2>1, <2>3
      <3> QED
        BY <1>4, <2>1, <3>1
    <2> QED
      BY <2>2, <2>3
  <1>13. Owed(p, w.pos, pos) \subseteq Elements(batch) /\ Elements(w.batch) \subseteq Elements(batch)
    BY <1>4, <1>9
  <1>14. Len(batch) <= Room(w) /\ Len(batch) \in Nat
    BY <1>2, <1>3, <1>9
  <1>15. at = "poll" => Len(batch) < Room(w) /\ Len(batch) < w.quota
    <2>1. KafkaTopic!Limit = IF w.quota <= Room(w) THEN w.quota ELSE Room(w)
      <3>1. KafkaTopic!Limit = KafkaTopic!Min({w.quota, Room(w)})
        BY DEF KafkaTopic!Limit, KafkaTopic!Work, Room
      <3> QED
        BY <1>3, <3>1, LeastPosition
    <2> QED
      BY <1>3, <1>8, <1>14, <2>1
  <1> HIDE DEF pos, first, n
  <1> QED
    BY <1>1, <1>5, <1>7, <1>8, <1>9, <1>11, <1>12, <1>13, <1>14, <1>15, LogPolls DEF until, first

-----------------------------------------------------------------------------
(* The rows of a partition are merged *)

(* Some rows of the batch are taken, and what they pass is among them.     *)
Taking(taken, next) ==
    /\ \A i \in 1 .. taken : log.work.batch[i] < next
    /\ Owed(log.work.part, log.work.cursor.next[log.work.part], next)
          \subseteq {log.work.batch[i] : i \in 1 .. taken}
    /\ log.work.cursor.next[log.work.part] <= next /\ next <= log.work.pos

TakenRows(taken) == log.work.rows \o KafkaTopic!Rows(SubSeq(log.work.batch, 1, taken))

LEMMA RowsTaken ==
    ASSUME Logged, log.at = "merge", NEW taken \in 0 .. Len(log.work.batch)
    PROVE  LET w == log.work
               p == log.work.part
               s == SubSeq(w.batch, 1, taken)
               more == KafkaTopic!Rows(s)
               rows == TakenRows(taken)
           IN
           /\ rows \in Seq(Row) /\ Len(rows) = Len(w.rows) + taken /\ RowsAscend(rows)
           /\ Len(rows) <= PageRows
           /\ OffsetsOf(rows, p) = OffsetsOf(w.rows, p) \union {w.batch[i] : i \in 1 .. taken}
           /\ \A q : OffsetsOf(w.rows, q) \subseteq OffsetsOf(rows, q)
           /\ \A k \in 1 .. Len(rows) :
                 \/ \E i \in 1 .. Len(w.rows) : rows[k] = w.rows[i]
                 \/ \E j \in 1 .. taken : rows[k][1] = p /\ rows[k][2] = w.batch[j]
  <1> DEFINE w == log.work
             p == w.part
             s == SubSeq(w.batch, 1, taken)
             more == KafkaTopic!Rows(s)
             rows == TakenRows(taken)
  <1>1. ReadTo("merge", w, log.from)
    BY ReadsLog
  <1>2. /\ w \in LogWork /\ p \in KafkaTopic!Partition /\ w.cursor.next \in Offsets
        /\ w.batch \in Seq(KafkaTopic!Position) /\ Len(w.batch) \in Nat
        /\ w.rows \in Seq(Row) /\ Len(w.rows) \in Nat
    BY LogFields, PageOfLog
  <1>3. BatchTaken(w) /\ PageShares(w, log.from) /\ Len(w.batch) <= Room(w)
    BY <1>1 DEF ReadTo
  <1>4. /\ w.cursor.next[p] \in Nat /\ Ascends(w.batch)
        /\ \A i \in 1 .. Len(w.batch) : w.cursor.next[p] <= w.batch[i]
    BY <1>2, <1>3, OffsetsTyped DEF BatchTaken
  <1>5. /\ s \in Seq(KafkaTopic!Position) /\ Len(s) = taken
        /\ \A k \in 1 .. taken : s[k] = w.batch[k]
    BY <1>2, FirstOf
  <1>6. taken \in Nat /\ taken <= Len(w.batch) /\ 1 .. taken \subseteq 1 .. Len(w.batch)
    BY <1>2
  <1> HIDE DEF s
  <1>7. Ascends(s) /\ Elements(s) = {w.batch[i] : i \in 1 .. taken}
    <2>1. DOMAIN s = 1 .. taken
      BY <1>5, LenProperties
    <2> QED
      BY <1>4, <1>5, <1>6, <2>1 DEF Ascends, Elements
  <1>8. /\ more \in Seq(Row) /\ Len(more) = taken /\ RowsAscend(more)
        /\ \A i \in 1 .. taken : more[i][1] = p /\ more[i][2] = s[i]
        /\ OffsetsOf(more, p) = Elements(s)
    <2>1. more = RowsFor(p, s)
      BY DEF KafkaTopic!Rows, KafkaTopic!Work, RowsFor
    <2>3. p \in KafkaTopic!Partition /\ s \in Seq(KafkaTopic!Position) /\ Ascends(s)
      BY <1>2, <1>5, <1>7
    <2> HIDE DEF more, p
    <2>2. /\ RowsFor(p, s) \in Seq(Row) /\ Len(RowsFor(p, s)) = Len(s)
          /\ RowsAscend(RowsFor(p, s))
          /\ \A i \in 1 .. Len(s) : RowsFor(p, s)[i][1] = p /\ RowsFor(p, s)[i][2] = s[i]
          /\ OffsetsOf(RowsFor(p, s), p) = Elements(s)
      BY <2>3, RowsOfBatch, Zenon
    <2> QED
      BY <1>5, <2>1, <2>2
  <1>9. rows = w.rows \o more
    BY DEF s, TakenRows
  <1>10. /\ RowsAscend(w.rows)
         /\ \A i \in 1 .. Len(w.rows) : w.rows[i][2] < w.cursor.next[w.rows[i][1]]
    BY <1>3 DEF PageShares
  <1> HIDE DEF more, rows, p
  <1>11. \A i \in 1 .. taken : more[i][1] = p /\ more[i][2] = w.batch[i]
                               /\ w.cursor.next[p] <= more[i][2]
    BY <1>4, <1>5, <1>6, <1>8
  <1>12. /\ \A i \in 1 .. Len(w.rows) : w.rows[i][2] \in Nat
         /\ \A i \in 1 .. taken : more[i][2] \in Nat
    BY <1>2, <1>8, RowOf
  <1>13. ASSUME NEW i \in 1 .. Len(w.rows), NEW j \in 1 .. Len(more), w.rows[i][1] = more[j][1]
         PROVE  w.rows[i][2] < more[j][2]
    <2>1. j \in 1 .. taken
      BY <1>8
    <2>2. w.rows[i][2] < w.cursor.next[p] /\ w.cursor.next[p] <= more[j][2]
      BY <1>10, <1>11, <1>13, <2>1
    <2>3. w.rows[i][2] \in Nat /\ more[j][2] \in Nat
      BY <1>12, <2>1
    <2> QED
      BY <1>4, <2>2, <2>3, SMTT(30)
  <1>14. /\ rows \in Seq(Row) /\ Len(rows) = Len(w.rows) + Len(more) /\ RowsAscend(rows)
         /\ \A q : OffsetsOf(rows, q) = OffsetsOf(w.rows, q) \union OffsetsOf(more, q)
         /\ \A k \in 1 .. Len(rows) :
              (\E i \in 1 .. Len(w.rows) : rows[k] = w.rows[i])
              \/ (\E j \in 1 .. Len(more) : rows[k] = more[j])
    <2>1. RowsAscend(w.rows) /\ RowsAscend(more) /\ w.rows \in Seq(Row) /\ more \in Seq(Row)
          /\ \A i \in 1 .. Len(w.rows), j \in 1 .. Len(more) :
                w.rows[i][1] = more[j][1] => w.rows[i][2] < more[j][2]
      BY <1>2, <1>8, <1>10, <1>13
    <2> HIDE DEF w
    <2> QED
      BY <1>9, <2>1, RowsJoin, ZenonT(60)
  <1>15. Len(rows) <= PageRows
    <2>1. Len(w.batch) <= PageRows - Len(w.rows) /\ PageRows \in Nat
          /\ Len(rows) = Len(w.rows) + taken
      BY <1>3, <1>8, <1>14, LogNumbers DEF Room
    <2> DEFINE a == Len(w.batch)
               b == Len(w.rows)
    <2>2. a <= PageRows - b /\ Len(rows) = b + taken /\ taken <= a /\ a \in Nat /\ b \in Nat
      BY <1>2, <1>6, <2>1
    <2> HIDE DEF a, b
    <2> QED
      BY <1>6, <2>1, <2>2
  <1>16. \A k \in 1 .. Len(rows) :
            \/ \E i \in 1 .. Len(w.rows) : rows[k] = w.rows[i]
            \/ \E j \in 1 .. taken : rows[k][1] = p /\ rows[k][2] = w.batch[j]
    <2> SUFFICES ASSUME NEW k \in 1 .. Len(rows), \A i \in 1 .. Len(w.rows) : rows[k] # w.rows[i]
                 PROVE  \E j \in 1 .. taken : rows[k][1] = p /\ rows[k][2] = w.batch[j]
      OBVIOUS
    <2>1. Len(more) = taken
      BY <1>8
    <2>2. \E j \in 1 .. Len(more) : rows[k] = more[j]
      BY <1>14, Zenon
    <2>3. PICK j \in 1 .. taken : rows[k] = more[j]
      BY <2>1, <2>2, Zenon
    <2>4. rows[k][1] = p /\ rows[k][2] = w.batch[j]
      BY <1>11, <2>3
    <2> QED
      BY <2>4
  <1> QED
    BY <1>7, <1>8, <1>14, <1>15, <1>16 DEF rows, p

(* The page with the rows merged.                                          *)
Merged(work, taken, next) ==
    /\ work.rows = TakenRows(taken)
    /\ work.cursor.on /\ work.cursor.end = log.work.cursor.end
    /\ work.cursor.next = [log.work.cursor.next EXCEPT ![log.work.part] = next]
    /\ work.quota = log.work.quota

LEMMA MergeShares ==
    ASSUME Logged, log.at = "merge", NEW taken \in 0 .. Len(log.work.batch), NEW next \in Nat,
           Taking(taken, next), NEW work \in LogWork, Merged(work, taken, next)
    PROVE  PageShares(work, log.from)
  <1> DEFINE w == log.work
             p == w.part
             rows == TakenRows(taken)
             nexts == [w.cursor.next EXCEPT ![p] = next]
  <1>1. ReadTo("merge", w, log.from)
    BY ReadsLog
  <1>2. /\ log.from \in Offsets /\ log.cursor.next \in Offsets
        /\ w \in LogWork /\ p \in KafkaTopic!Partition
        /\ w.cursor.next \in Offsets /\ w.cursor.end \in Offsets
        /\ w.batch \in Seq(KafkaTopic!Position) /\ w.pos \in Nat /\ w.rows \in Seq(Row)
    BY LogFields, PageOfLog, PlaceFields
  <1>3. BatchTaken(w) /\ PageShares(w, log.from)
    BY <1>1 DEF ReadTo
  <1>4. /\ w.cursor.next[p] \in Nat /\ w.cursor.end[p] \in Nat /\ p \in KafkaTopic!View
        /\ w.pos <= w.cursor.end[p]
        /\ \A i \in 1 .. Len(w.batch) : w.cursor.next[p] <= w.batch[i]
    BY <1>2, <1>3, OffsetsTyped DEF BatchTaken
  <1>5. next <= w.cursor.end[p] /\ w.cursor.next[p] <= next
    <2>1. next <= w.pos /\ w.cursor.next[p] <= next
      BY DEF Taking
    <2> QED
      BY <1>2, <1>4, <2>1
  <1>6. /\ rows \in Seq(Row) /\ RowsAscend(rows)
        /\ OffsetsOf(rows, p) = OffsetsOf(w.rows, p) \union {w.batch[i] : i \in 1 .. taken}
        /\ \A q : OffsetsOf(w.rows, q) \subseteq OffsetsOf(rows, q)
        /\ \A k \in 1 .. Len(rows) :
              \/ \E i \in 1 .. Len(w.rows) : rows[k] = w.rows[i]
              \/ \E j \in 1 .. taken : rows[k][1] = p /\ rows[k][2] = w.batch[j]
    BY RowsTaken
  <1> HIDE DEF rows
  <1>7. /\ nexts[p] = next /\ \A q \in KafkaTopic!Partition : q # p => nexts[q] = w.cursor.next[q]
    BY <1>2 DEF Offsets
  <1>8. /\ work.rows = rows /\ work.cursor.on /\ work.cursor.end = w.cursor.end
        /\ work.cursor.next = nexts /\ work.quota = w.quota
    BY DEF Merged, rows
  <1> HIDE DEF nexts
  <1>9. Windowed(work.cursor)
    <2> SUFFICES ASSUME NEW q \in KafkaTopic!View
                 PROVE  nexts[q] <= w.cursor.end[q] /\ Reached(q, w.cursor.end[q])
      BY <1>8 DEF Windowed
    <2>1. Windowed(w.cursor)
      BY <1>3 DEF PageShares
    <2> QED
      BY <1>5, <1>7, <2>1, LogViews DEF Windowed
  <1>10. /\ \A q \in KafkaTopic!View : log.cursor.next[q] <= w.cursor.next[q]
         /\ \A i \in 1 .. Len(w.rows) :
              /\ w.rows[i][1] \in KafkaTopic!View
              /\ log.cursor.next[w.rows[i][1]] <= w.rows[i][2]
              /\ w.rows[i][2] < w.cursor.next[w.rows[i][1]]
         /\ w.quota > 0
    BY <1>3 DEF PageShares
  <1>11. ASSUME NEW q \in KafkaTopic!View
         PROVE  /\ w.cursor.next[q] <= nexts[q] /\ w.cursor.next[q] \in Nat
                /\ nexts[q] \in Nat /\ log.cursor.next[q] \in Nat
                /\ log.cursor.next[q] <= nexts[q]
    <2>1. q \in KafkaTopic!Partition
      BY LogViews
    <2>2. w.cursor.next[q] \in Nat /\ log.cursor.next[q] \in Nat
      BY <1>2, <2>1, OffsetsTyped
    <2>3. nexts[q] \in Nat /\ w.cursor.next[q] <= nexts[q]
      BY <1>5, <1>7, <2>1, <2>2
    <2> QED
      BY <1>10, <2>2, <2>3
  <1>12. ASSUME NEW k \in 1 .. Len(rows)
         PROVE  /\ rows[k][1] \in KafkaTopic!View
                /\ log.cursor.next[rows[k][1]] <= rows[k][2]
                /\ rows[k][2] < nexts[rows[k][1]]
    <2>1. CASE \E i \in 1 .. Len(w.rows) : rows[k] = w.rows[i]
      <3>1. PICK i \in 1 .. Len(w.rows) : rows[k] = w.rows[i]
        BY <2>1
      <3> DEFINE q == w.rows[i][1]
                 o == w.rows[i][2]
      <3>2. /\ q \in KafkaTopic!View /\ log.cursor.next[q] <= o /\ o < w.cursor.next[q]
        BY <1>10
      <3>3. o \in Nat
        BY <1>2, RowOf
      <3>4. rows[k][1] = q /\ rows[k][2] = o
        BY <3>1
      <3> HIDE DEF q, o
      <3>5. o < nexts[q]
        BY <1>11, <3>2, <3>3
      <3> QED
        BY <3>2, <3>4, <3>5
    <2>2. CASE \E j \in 1 .. taken : rows[k][1] = p /\ rows[k][2] = w.batch[j]
      <3>1. PICK j \in 1 .. taken : rows[k][1] = p /\ rows[k][2] = w.batch[j]
        BY <2>2
      <3>2. j \in 1 .. Len(w.batch)
        BY <1>2, LenProperties
      <3>3. w.batch[j] \in Nat /\ w.cursor.next[p] <= w.batch[j] /\ w.batch[j] < next
        BY <1>2, <1>4, <3>2, ElementOfSeq, LogNumbers DEF Taking
      <3>4. log.cursor.next[p] <= w.cursor.next[p] /\ log.cursor.next[p] \in Nat
        BY <1>4, <1>10, <1>11
      <3> DEFINE o == w.batch[j]
                 a == w.cursor.next[p]
      <3> HIDE DEF o, a
      <3>5. log.cursor.next[p] <= o
        BY <1>4, <3>3, <3>4, SMTT(30) DEF o, a
      <3> QED
        BY <1>4, <1>7, <3>1, <3>3, <3>5 DEF o
    <2> QED
      BY <1>6, <2>1, <2>2
  <1>13. ASSUME NEW q \in KafkaTopic!View
         PROVE  Owed(q, log.from[q], nexts[q])
                   \subseteq OffsetsOf(log.shown, q) \union OffsetsOf(rows, q)
    <2>1. Owed(q, log.from[q], w.cursor.next[q])
             \subseteq OffsetsOf(log.shown, q) \union OffsetsOf(w.rows, q)
      BY <1>3 DEF PageShares
    <2>2. CASE q # p
      BY <1>6, <1>7, <2>1, <2>2, LogViews
    <2>3. CASE q = p
      <3>1. log.from[p] \in Nat
        BY <1>2, OffsetsTyped
      <3>2. Owed(p, log.from[p], next)
               \subseteq Owed(p, log.from[p], w.cursor.next[p]) \union Owed(p, w.cursor.next[p], next)
        BY <1>2, <1>4, <3>1, OwedSplits, SMTT(30)
      <3>3. Owed(p, w.cursor.next[p], next) \subseteq OffsetsOf(rows, p)
        BY <1>6 DEF Taking
      <3> QED
        BY <1>6, <1>7, <2>1, <2>3, <3>2, <3>3
    <2> QED
      BY <2>2, <2>3
  <1> QED
    BY <1>6, <1>8, <1>9, <1>10, <1>11, <1>12, <1>13 DEF PageShares

Merging(at, taken, next, step, turn) ==
    log' = [log EXCEPT !.at = at, !.work.rows = TakenRows(taken), !.work.step = step,
                       !.work.cursor.next[log.work.part] = next,
                       !.work.cursor.turn = turn]

LEMMA LogMerges ==
    ASSUME Logged, log.at = "merge", NEW taken \in 0 .. Len(log.work.batch), NEW next \in Nat,
           NEW at \in {"turn", "end"}, NEW step \in 0 .. Partitions, step <= KafkaTopic!Count,
           NEW turn \in KafkaTopic!Partition,
           Taking(taken, next), Merging(at, taken, next, step, turn),
           at = "turn" => Len(TakenRows(taken)) < PageRows
    PROVE  Logged'
  <1> DEFINE w == log.work
             p == w.part
             rows == TakenRows(taken)
             nexts == [w.cursor.next EXCEPT ![p] = next]
             cursor == [w.cursor EXCEPT !.next = nexts, !.turn = turn]
             work == [w EXCEPT !.rows = rows, !.step = step, !.cursor = cursor]
  <1>1. /\ log.kind # "list" /\ ~log.ended /\ ReadTo("merge", w, log.from)
    BY ReadsLog
  <1>2. /\ log \in LogRecord /\ w \in LogWork /\ log.from \in Offsets
        /\ p \in KafkaTopic!Partition /\ w.cursor \in LogCursor
        /\ w.cursor.next \in Offsets /\ w.cursor.end \in Offsets /\ w.pos \in Nat
    BY LogFields, PageOfLog
  <1>3. /\ BatchTaken(w) /\ PageShares(w, log.from) /\ w.seen <= KafkaTopic!Count
    BY <1>1 DEF ReadTo
  <1>4. rows \in Seq(Row) /\ Len(rows) <= PageRows /\ Len(rows) \in Nat
    BY RowsTaken, LenProperties
  <1>5. next \in KafkaTopic!Position
    <2>1. w.cursor.end[p] \in 0 .. MaxOffset /\ KafkaTopic!Position = 0 .. MaxOffset
          /\ MaxOffset \in Nat
      BY <1>2, OffsetsTyped, LogNumbers
    <2>2. next <= w.pos /\ w.pos <= w.cursor.end[p]
      BY <1>3 DEF Taking, BatchTaken
    <2> QED
      BY <1>2, <2>1, <2>2
  <1>6. nexts \in Offsets
    BY <1>2, <1>5 DEF Offsets
  <1>7. log' = [log EXCEPT !.at = at, !.work = work, !.from = log.from]
    <2>1. log' = [log EXCEPT !.at = at, !.work.rows = rows, !.work.step = step,
                             !.work.cursor.next[p] = next, !.work.cursor.turn = turn]
      BY DEF Merging
    <2> DEFINE w1 == [w EXCEPT !.rows = rows, !.step = step]
               c1 == [w.cursor EXCEPT !.next = nexts]
               first == [log EXCEPT !.at = at, !.work = w1]
               second == [first EXCEPT !.work.cursor.next[p] = next]
    <2>2. log' = [second EXCEPT !.work.cursor.turn = turn]
      <3>1. first = [log EXCEPT !.at = at, !.work.rows = rows, !.work.step = step]
        BY <1>2 DEF LogRecord, LogWork
      <3> HIDE DEF first
      <3> QED
        BY <2>1, <3>1
    <2>3. w1 \in LogWork /\ w1.cursor = w.cursor
      BY <1>2, <1>4 DEF LogWork
    <2>4. c1 \in LogCursor
      BY <1>2, <1>6 DEF LogCursor
    <2> HIDE DEF rows, w1
    <2>5. first \in LogRecord /\ first.work = w1
      BY <1>2, <2>3 DEF LogRecord
    <2> HIDE DEF first
    <2>6. second = [first EXCEPT !.work = [w1 EXCEPT !.cursor = c1]]
      BY <2>3, <2>5 DEF LogRecord, LogWork, LogCursor
    <2> HIDE DEF second
    <2> DEFINE w2 == [w1 EXCEPT !.cursor = c1]
    <2> HIDE DEF c1
    <2>7. w2 \in LogWork /\ w2.cursor = c1
      BY <2>3, <2>4 DEF LogWork
    <2>8. second = [first EXCEPT !.work = w2]
      BY <2>6
    <2> HIDE DEF w2
    <2>9. second \in LogRecord /\ second.work = w2
      BY <2>5, <2>7, <2>8 DEF LogRecord
    <2>10. log' = [second EXCEPT !.work = [w2 EXCEPT !.cursor = [c1 EXCEPT !.turn = turn]]]
      BY <2>2, <2>7, <2>9
    <2>11. cursor = [c1 EXCEPT !.turn = turn]
      BY DEF c1
    <2>12. work = [w2 EXCEPT !.cursor = cursor]
      <3> HIDE DEF cursor
      <3> QED
        BY <1>2, <2>3, <2>4 DEF w2, w1, LogWork
    <2>13. log' = [second EXCEPT !.work = work]
      BY <2>10, <2>11, <2>12
    <2> HIDE DEF work
    <2>14. log' = [first EXCEPT !.work = work]
      BY <2>5, <2>8, <2>13 DEF LogRecord
    <2> QED
      BY <1>2, <2>14 DEF first, LogRecord
  <1> HIDE DEF rows, nexts
  <1>8. cursor \in LogCursor /\ cursor.next = nexts /\ cursor.end = w.cursor.end
        /\ cursor.on = w.cursor.on
    BY <1>2, <1>6 DEF LogCursor
  <1> HIDE DEF cursor
  <1>9. /\ work \in LogWork /\ work.rows = rows /\ work.step = step /\ work.cursor = cursor
        /\ work.seen = w.seen /\ work.quota = w.quota
    BY <1>2, <1>4, <1>8 DEF LogWork
  <1> HIDE DEF work
  <1>10. Merged(work, taken, next)
    <2>1. w.cursor.on
      BY <1>3 DEF PageShares
    <2> QED
      BY <1>8, <1>9, <2>1 DEF Merged, rows, nexts
  <1>11. PageShares(work, log.from)
    BY <1>9, <1>10, MergeShares
  <1>12. Len(work.rows) <= PageRows /\ (at = "turn" => Room(work) > 0)
    <2>1. at = "turn" => Len(rows) < PageRows
      BY DEF rows
    <2> QED
      BY <1>4, <1>9, <2>1, LogNumbers DEF Room
  <1>13. ReadTo(at, work, log.from)
    BY <1>3, <1>9, <1>11, <1>12 DEF ReadTo
  <1>14. at \in {"idle", "windows", "turn", "poll", "merge", "end"}
    OBVIOUS
  <1> QED
    BY <1>1, <1>2, <1>7, <1>9, <1>13, <1>14, WorkMoves

LEMMA LogOverflows ==
    ASSUME Logged, KafkaTopic!Overflows
    PROVE  Logged'
  <1> DEFINE w == log.work
             p == w.part
             s == w.batch
  <1>1. log.at = "merge"
    BY DEF KafkaTopic!Overflows, KafkaTopic!At
  <1>2. PICK taken \in 0 .. Len(s) - 1 :
           log' = [log EXCEPT !.at = "end", !.work.rows = TakenRows(taken),
                              !.work.cursor.next[p] = s[taken + 1], !.work.cursor.turn = p]
    BY Zenon DEF KafkaTopic!Overflows, KafkaTopic!Work, TakenRows
  <1>3. /\ log \in LogRecord /\ w \in LogWork /\ p \in KafkaTopic!Partition /\ w.step \in 0 .. Partitions
        /\ s \in Seq(KafkaTopic!Position) /\ Len(s) \in Nat /\ w.cursor.next \in Offsets
        /\ w.pos \in Nat
        /\ \A i \in 1 .. Len(s) : s[i] \in Nat
    BY LogFields, PageOfLog, ElementOfSeq, LogNumbers
  <1>4. /\ BatchTaken(w) /\ w.step <= KafkaTopic!Count
    BY <1>1, ReadsLog DEF ReadTo
  <1>5. /\ Ascends(s) /\ Owed(p, w.cursor.next[p], w.pos) \subseteq Elements(s)
        /\ \A i \in 1 .. Len(s) : w.cursor.next[p] <= s[i] /\ s[i] < w.pos
    BY <1>4 DEF BatchTaken
  <1> DEFINE first == taken + 1
             next == s[first]
  <1>6. /\ first \in 1 .. Len(s) /\ taken \in 0 .. Len(s) /\ 1 .. taken \subseteq 1 .. Len(s)
        /\ \A i \in 1 .. taken : i < first
    BY <1>3
  <1>7. next \in Nat /\ w.cursor.next[p] <= next /\ next <= w.pos /\ next < w.pos
    BY <1>3, <1>5, <1>6
  <1>8. \A i \in 1 .. taken : s[i] < next
    BY <1>5, <1>6 DEF Ascends
  <1>9. ASSUME NEW o \in Owed(p, w.cursor.next[p], next) PROVE \E i \in 1 .. taken : o = s[i]
    <2>1. o \in Nat /\ o < next /\ o \in log.visible[p] \ log.rewritten[p] /\ o >= w.cursor.next[p]
      <3>1. log.visible[p] \in SUBSET Nat
        BY <1>3, LogFields, LogNumbers
      <3> QED
        BY <1>9, <3>1 DEF Owed
    <2>2. o \in Owed(p, w.cursor.next[p], w.pos)
      <3>1. o < w.pos
        BY <1>3, <1>7, <2>1
      <3> QED
        BY <2>1, <3>1 DEF Owed
    <2>3. DOMAIN s = 1 .. Len(s)
      BY <1>3, LenProperties
    <2>4. PICK k \in 1 .. Len(s) : o = s[k]
      BY <1>5, <2>2, <2>3 DEF Elements
    <2>5. ~(first < k) /\ k # first
      BY <1>3, <1>5, <1>6, <1>7, <2>1, <2>4 DEF Ascends
    <2>6. k \in 1 .. taken
      BY <1>3, <2>5
    <2> QED
      BY <2>4, <2>6
  <1>10. Owed(p, w.cursor.next[p], next) \subseteq {s[i] : i \in 1 .. taken}
    BY <1>9
  <1>11. Taking(taken, next)
    BY <1>7, <1>8, <1>10 DEF Taking
  <1> HIDE DEF next
  <1>12. Merging("end", taken, next, w.step, p)
    <2> DEFINE rows == TakenRows(taken)
               one == [log EXCEPT !.at = "end", !.work.rows = rows]
               two == [log EXCEPT !.at = "end", !.work.rows = rows, !.work.step = w.step]
    <2> HIDE DEF rows
    <2>1. one = two
      BY <1>3, ZenonT(60) DEF LogRecord, LogWork
    <2>2. log' = [one EXCEPT !.work.cursor.next[p] = next, !.work.cursor.turn = p]
      BY <1>2 DEF next, rows
    <2>3. [two EXCEPT !.work.cursor.next[p] = next, !.work.cursor.turn = p]
             = [log EXCEPT !.at = "end", !.work.rows = rows, !.work.step = w.step,
                           !.work.cursor.next[p] = next, !.work.cursor.turn = p]
      OBVIOUS
    <2> HIDE DEF one, two
    <2> QED
      BY <2>1, <2>2, <2>3 DEF Merging, rows
  <1> QED
    BY <1>1, <1>3, <1>4, <1>6, <1>7, <1>11, <1>12, LogMerges

LEMMA LogMergesAll ==
    ASSUME Logged, KafkaTopic!Merges
    PROVE  Logged'
  <1> DEFINE w == log.work
             p == w.part
             s == w.batch
             taken == Len(s)
             rows == TakenRows(taken)
             at == IF Len(rows) >= PageRows THEN "end" ELSE "turn"
             step == w.step + 1
             turn == (p + 1) % KafkaTopic!Count
  <1>1. /\ log \in LogRecord /\ w \in LogWork /\ p \in KafkaTopic!Partition /\ w.step \in Nat
        /\ s \in Seq(KafkaTopic!Position) /\ Len(s) \in Nat /\ w.cursor.next \in Offsets
        /\ w.pos \in Nat
    BY LogFields, PageOfLog
  <1>2. log.at = "merge"
    BY DEF KafkaTopic!Merges, KafkaTopic!At
  <1>3. rows = w.rows \o KafkaTopic!Rows(s)
    <2>1. SubSeq(s, 1, Len(s)) = s
      BY <1>1, SubSeqFull
    <2> QED
      BY <2>1 DEF TakenRows
  <1>4. log' = [log EXCEPT !.at = at, !.work.rows = rows, !.work.step = step,
                           !.work.cursor.next[p] = w.pos, !.work.cursor.turn = turn]
    BY <1>3 DEF KafkaTopic!Merges, KafkaTopic!Work
  <1>5. BatchTaken(w)
    BY <1>2, ReadsLog DEF ReadTo
  <1>6. /\ Owed(p, w.cursor.next[p], w.pos) \subseteq Elements(s) /\ w.step < KafkaTopic!Count
        /\ \A i \in 1 .. Len(s) : s[i] < w.pos
        /\ w.cursor.next[p] <= w.pos
    BY <1>5 DEF BatchTaken
  <1>7. Taking(taken, w.pos)
    <2>1. Elements(s) = {s[i] : i \in 1 .. Len(s)}
      BY <1>1, LenProperties DEF Elements
    <2> QED
      BY <1>1, <1>6, <2>1 DEF Taking
  <1>8. Merging(at, taken, w.pos, step, turn)
    <2> HIDE DEF rows, at, step, turn
    <2> QED
      BY <1>4 DEF Merging, rows
  <1>9. /\ step \in 0 .. Partitions /\ step <= KafkaTopic!Count /\ turn \in KafkaTopic!Partition
    <2> DEFINE n == KafkaTopic!Count
    <2>1. n \in Nat \ {0} /\ n <= Partitions /\ Partitions \in Nat /\ p \in Nat
          /\ KafkaTopic!Partition = 0 .. Partitions - 1
      BY <1>1, LogViews, LogNumbers
    <2> HIDE DEF n
    <2>2. (p + 1) % n \in 0 .. n - 1
      BY <2>1
    <2>3. (p + 1) % n \in KafkaTopic!Partition
      BY <2>1, <2>2
    <2> QED
      BY <1>1, <1>6, <2>1, <2>3, SMTT(30) DEF n
  <1>10. at \in {"turn", "end"} /\ (at = "turn" => Len(TakenRows(taken)) < PageRows)
         /\ taken \in 0 .. Len(s)
    <2>1. rows \in Seq(Row)
      BY <1>1, <1>2, RowsTaken
    <2>2. Len(rows) \in Nat
      BY <2>1, LenProperties
    <2> QED
      BY <1>1, <2>2, LogNumbers
  <1> HIDE DEF at, step, turn, taken
  <1> QED
    BY <1>1, <1>2, <1>7, <1>8, <1>9, <1>10, LogMerges

(* The rows of the page are shown, behind those shown before.              *)
LEMMA LogPageEnds ==
    ASSUME Logged, KafkaTopic!PageEnds
    PROVE  Logged'
  <1> DEFINE w == log.work
             rows == w.rows
             shown == log.shown \o rows
             ended == ~log.live /\ \A p \in KafkaTopic!View : w.cursor.next[p] = w.cursor.end[p]
  <1>1. /\ log.at = "end" \/ log.at = "turn"
        /\ log' = [log EXCEPT !.at = "idle", !.cursor = w.cursor, !.work = KafkaTopic!NoWork,
                              !.shown = shown, !.ended = ended]
    BY DEF KafkaTopic!PageEnds, KafkaTopic!At, KafkaTopic!Work
  <1>2. log.kind # "list" /\ TopicShown /\ PageShares(w, log.from)
    BY <1>1, ReadsLog DEF ReadTo
  <1>3. /\ log \in LogRecord /\ w \in LogWork /\ w.cursor \in LogCursor /\ rows \in Seq(Row)
        /\ log.shown \in Seq(Row) /\ log.cursor.next \in Offsets /\ w.cursor.next \in Offsets
    BY LogFields, PageOfLog, PlaceFields
  <1>4. /\ w.cursor.on /\ Windowed(w.cursor) /\ RowsAscend(rows)
        /\ \A p \in KafkaTopic!View : log.cursor.next[p] <= w.cursor.next[p]
        /\ \A i \in 1 .. Len(rows) :
             /\ rows[i][1] \in KafkaTopic!View
             /\ log.cursor.next[rows[i][1]] <= rows[i][2] /\ rows[i][2] < w.cursor.next[rows[i][1]]
        /\ \A p \in KafkaTopic!View :
              Owed(p, log.from[p], w.cursor.next[p])
                 \subseteq OffsetsOf(log.shown, p) \union OffsetsOf(rows, p)
    BY <1>2 DEF PageShares
  <1>5. /\ RowsAscend(log.shown)
        /\ \A i \in 1 .. Len(log.shown) :
              /\ log.shown[i][1] \in KafkaTopic!View
              /\ log.shown[i][2] < log.cursor.next[log.shown[i][1]]
    BY <1>2 DEF TopicShown
  <1>6. ended \in BOOLEAN /\ (ended => \A p \in KafkaTopic!View : w.cursor.next[p] = w.cursor.end[p])
    BY LogFields
  <1> HIDE DEF rows, ended
  <1>7. /\ \A i \in 1 .. Len(log.shown) : log.shown[i][2] \in Nat
        /\ \A i \in 1 .. Len(rows) : rows[i][2] \in Nat
        /\ \A p \in KafkaTopic!View : log.cursor.next[p] \in Nat /\ w.cursor.next[p] \in Nat
    <2>1. \A p \in KafkaTopic!View : p \in KafkaTopic!Partition
      BY LogViews
    <2> QED
      BY <1>3, <2>1, RowOf, OffsetsTyped
  <1>8. ASSUME NEW i \in 1 .. Len(log.shown), NEW j \in 1 .. Len(rows), log.shown[i][1] = rows[j][1]
        PROVE  log.shown[i][2] < rows[j][2]
    <2> DEFINE a == log.shown[i][2]
               b == rows[j][2]
               c == log.cursor.next[rows[j][1]]
    <2>1. a \in Nat /\ b \in Nat /\ c \in Nat /\ a < c /\ c <= b
      BY <1>4, <1>5, <1>7, <1>8
    <2> HIDE DEF a, b, c
    <2>2. a < b
      BY <2>1
    <2> QED
      BY <2>2 DEF a, b
  <1>9. /\ shown \in Seq(Row) /\ Len(shown) = Len(log.shown) + Len(rows) /\ RowsAscend(shown)
        /\ \A q : OffsetsOf(shown, q) = OffsetsOf(log.shown, q) \union OffsetsOf(rows, q)
        /\ \A k \in 1 .. Len(shown) :
             (\E i \in 1 .. Len(log.shown) : shown[k] = log.shown[i])
             \/ (\E j \in 1 .. Len(rows) : shown[k] = rows[j])
    <2>1. /\ log.shown \in Seq(Row) /\ rows \in Seq(Row) /\ RowsAscend(log.shown) /\ RowsAscend(rows)
          /\ \A i \in 1 .. Len(log.shown), j \in 1 .. Len(rows) :
                log.shown[i][1] = rows[j][1] => log.shown[i][2] < rows[j][2]
      BY <1>3, <1>4, <1>5, <1>8
    <2> QED
      BY <2>1, RowsJoin
  <1> HIDE DEF shown
  <1>10. ASSUME NEW k \in 1 .. Len(shown)
         PROVE  shown[k][1] \in KafkaTopic!View /\ shown[k][2] < w.cursor.next[shown[k][1]]
    <2>1. CASE \E i \in 1 .. Len(log.shown) : shown[k] = log.shown[i]
      <3>1. PICK i \in 1 .. Len(log.shown) : shown[k] = log.shown[i]
        BY <2>1
      <3> DEFINE p == log.shown[i][1]
                 o == log.shown[i][2]
      <3>2. p \in KafkaTopic!View /\ o < log.cursor.next[p] /\ o \in Nat
        BY <1>5, <1>7
      <3>3. shown[k][1] = p /\ shown[k][2] = o
        BY <3>1
      <3> HIDE DEF p, o
      <3>4. log.cursor.next[p] <= w.cursor.next[p] /\ log.cursor.next[p] \in Nat
            /\ w.cursor.next[p] \in Nat
        BY <1>4, <1>7, <3>2
      <3>5. o < w.cursor.next[p]
        BY <3>2, <3>4
      <3> QED
        BY <3>2, <3>3, <3>5
    <2>2. CASE \E j \in 1 .. Len(rows) : shown[k] = rows[j]
      BY <1>4, <2>2
    <2> QED
      BY <1>9, <2>1, <2>2
  <1>11. /\ log' \in LogRecord
         /\ log'.kind = log.kind /\ log'.low = log.low /\ log'.stable = log.stable
         /\ log'.top = log.top /\ log'.visible = log.visible /\ log'.rewritten = log.rewritten
         /\ log'.at = "idle" /\ log'.cursor = w.cursor /\ log'.work = KafkaTopic!NoWork
         /\ log'.from = log.from /\ log'.shown = shown /\ (log'.ended <=> ended)
    BY <1>1, <1>3, <1>6, <1>9, NoPlaces DEF LogRecord
  <1>12. KafkaTopic!View' = KafkaTopic!View /\ KafkaTopic!Count' = KafkaTopic!Count
    BY <1>11 DEF KafkaTopic!View, KafkaTopic!Count
  <1>13. LogKept' /\ (\A p \in KafkaTopic!Partition : log.low[p] <= log.stable[p])'
    BY <1>11 DEF Logged, LogKept
  <1>14. TopicShown'
    <2>1. Windowed(log.cursor)'
      BY <1>4, <1>11, <1>12 DEF Windowed, Reached
    <2>2. ASSUME NEW p \in KafkaTopic!View
          PROVE  Owed(p, log.from[p], log.cursor.next[p])' \subseteq OffsetsOf(shown, p)
      BY <1>4, <1>9, <1>11 DEF Owed
    <2> QED
      BY <1>4, <1>6, <1>9, <1>10, <1>11, <1>12, <2>1, <2>2 DEF TopicShown
  <1>15. ReadTo("idle", KafkaTopic!NoWork, log.from)'
    <2>1. KafkaTopic!NoWork.seen <= KafkaTopic!Count /\ KafkaTopic!NoWork.step <= KafkaTopic!Count
      BY NoPlaces, LogViews
    <2>2. Len(KafkaTopic!NoWork.rows) <= PageRows
      BY NoPlaces, LogNumbers
    <2> QED
      BY <1>12, <2>1, <2>2 DEF ReadTo
  <1> QED
    BY <1>2, <1>11, <1>13, <1>14, <1>15 DEF Logged

-----------------------------------------------------------------------------
(* The brokers change the log. *)

(* What is read as committed afterwards was so before, or lies beyond      *)
(* everything the log has reached; nothing that was reached is forgotten.  *)
LogAfter(low, stable, top, visible, rewritten) ==
    \A q \in KafkaTopic!Partition :
        /\ low[q] <= stable[q]
        /\ \A o \in visible[q] : o >= low[q] /\ o < stable[q]
        /\ \A o \in KafkaTopic!Position : Reached(q, o) => (o <= stable[q] \/ o <= top[q])
        /\ \A o \in visible[q] \ rewritten[q] :
              \/ o \in log.visible[q] \ log.rewritten[q]
              \/ o >= log.stable[q] /\ o >= log.top[q]

LogTurns(low, stable, top, visible, rewritten) ==
    /\ low \in Offsets /\ stable \in Offsets /\ top \in Offsets
    /\ visible \in [KafkaTopic!Partition -> SUBSET KafkaTopic!Position]
    /\ rewritten \in [KafkaTopic!Partition -> SUBSET KafkaTopic!Position]
    /\ log' = [log EXCEPT !.low = low, !.stable = stable, !.top = top, !.visible = visible,
                          !.rewritten = rewritten, !.changes = @ + 1]

LEMMA OwedAfter ==
    ASSUME Logged, NEW low, NEW stable, NEW top, NEW visible, NEW rewritten,
           LogAfter(low, stable, top, visible, rewritten),
           visible \in [KafkaTopic!Partition -> SUBSET KafkaTopic!Position],
           NEW q \in KafkaTopic!Partition, NEW first, NEW next \in Nat, Reached(q, next)
    PROVE  {o \in visible[q] \ rewritten[q] : o >= first /\ o < next} \subseteq Owed(q, first, next)
  <1> SUFFICES ASSUME NEW o \in visible[q] \ rewritten[q], o >= first, o < next
               PROVE  o \in log.visible[q] \ log.rewritten[q]
    BY DEF Owed
  <1>1. /\ o \in Nat /\ log.stable[q] \in Nat /\ log.top[q] \in Nat
    BY LogNumbers, LogFields, OffsetsTyped
  <1>2. \/ o \in log.visible[q] \ log.rewritten[q]
        \/ o >= log.stable[q] /\ o >= log.top[q]
    BY DEF LogAfter
  <1>3. next <= log.stable[q] \/ next <= log.top[q]
    BY DEF Reached
  <1> QED
    BY <1>1, <1>2, <1>3

LEMMA LogTurned ==
    ASSUME Logged, NEW low, NEW stable, NEW top, NEW visible, NEW rewritten,
           LogAfter(low, stable, top, visible, rewritten),
           LogTurns(low, stable, top, visible, rewritten)
    PROVE  Logged'
  <1>1. log \in LogRecord
    BY DEF Logged
  <1>2. PICK at, w, from, cursor, shown :
          at = log.at /\ w = log.work /\ from = log.from /\ cursor = log.cursor /\ shown = log.shown
    OBVIOUS
  <1>3. /\ log' \in LogRecord
        /\ log'.kind = log.kind /\ log'.low = low /\ log'.stable = stable
        /\ log'.top = top /\ log'.visible = visible /\ log'.rewritten = rewritten
        /\ log'.at = at /\ log'.cursor = cursor /\ log'.work = w /\ log'.from = from
        /\ log'.shown = shown /\ log'.ended = log.ended /\ log'.changes = log.changes + 1
    <2> DEFINE changes == log.changes + 1
    <2>1. changes \in Nat
      BY LogFields
    <2>2. log' = [log EXCEPT !.low = low, !.stable = stable, !.top = top, !.visible = visible,
                             !.rewritten = rewritten, !.changes = changes]
      BY <1>1 DEF LogTurns, LogRecord
    <2>3. /\ low \in Offsets /\ stable \in Offsets /\ top \in Offsets
          /\ visible \in [KafkaTopic!Partition -> SUBSET KafkaTopic!Position]
          /\ rewritten \in [KafkaTopic!Partition -> SUBSET KafkaTopic!Position]
      BY DEF LogTurns
    <2> HIDE DEF changes
    <2>4. log' \in LogRecord
      BY <1>1, <2>1, <2>2, <2>3 DEF LogRecord
    <2>5. /\ log'.kind = log.kind /\ log'.low = low /\ log'.stable = stable
          /\ log'.top = top /\ log'.visible = visible /\ log'.rewritten = rewritten
          /\ log'.at = log.at /\ log'.cursor = log.cursor /\ log'.work = log.work
          /\ log'.from = log.from
          /\ log'.shown = log.shown /\ log'.ended = log.ended /\ log'.changes = changes
      BY <1>1, <2>2 DEF LogRecord
    <2> QED
      BY <1>2, <2>4, <2>5 DEF changes
  <1>4. KafkaTopic!View' = KafkaTopic!View /\ KafkaTopic!Count' = KafkaTopic!Count
    BY <1>3 DEF KafkaTopic!View, KafkaTopic!Count
  <1>5. LogKept' /\ (\A p \in KafkaTopic!Partition : log.low[p] <= log.stable[p])'
    BY <1>3 DEF LogKept, LogAfter
  <1>6. CASE log.kind = "list"
    <2>1. log'.changes # 0
      BY <1>3, LogFields
    <2>2. log'.at = "idle" /\ log'.work = KafkaTopic!NoWork
      BY <1>2, <1>3, <1>6 DEF Logged, NamesShown
    <2> QED
      BY <1>3, <1>5, <1>6, <2>1, <2>2 DEF Logged, NamesShown
  <1>7. CASE log.kind # "list"
    <2>1. TopicShown /\ ReadTo(at, w, from)
      BY <1>2, <1>7 DEF Logged
    <2>2. ASSUME NEW q \in KafkaTopic!Partition, NEW o \in KafkaTopic!Position, Reached(q, o)
          PROVE  Reached(q, o)'
      BY <1>3, <2>2 DEF LogAfter, Reached
    <2>3. ASSUME NEW q \in KafkaTopic!Partition, NEW first, NEW next \in Nat, Reached(q, next)
          PROVE  Owed(q, first, next)' \subseteq Owed(q, first, next)
      <3>1. Owed(q, first, next)' = {o \in visible[q] \ rewritten[q] : o >= first /\ o < next}
        BY <1>3 DEF Owed
      <3>2. visible \in [KafkaTopic!Partition -> SUBSET KafkaTopic!Position]
        BY DEF LogTurns
      <3> QED
        BY <2>3, <3>1, <3>2, OwedAfter
    <2>4. cursor \in LogCursor /\ w \in LogWork /\ from \in Offsets
      BY <1>2, LogFields
    <2>5. /\ cursor.next \in Offsets /\ cursor.end \in Offsets
          /\ w.cursor.next \in Offsets /\ w.cursor.end \in Offsets
          /\ w.end \in Offsets /\ w.pos \in Nat /\ w.part \in KafkaTopic!Partition
      BY <2>4, PlaceFields, PageOfLog
    <2>6. ASSUME NEW c \in LogCursor, Windowed(c)
          PROVE  /\ Windowed(c)'
                 /\ \A q \in KafkaTopic!View : \A next \in Nat : next <= c.end[q] => Reached(q, next)
                 /\ \A q \in KafkaTopic!View : Reached(q, c.next[q])
      <3>1. \A q \in KafkaTopic!View : /\ q \in KafkaTopic!Partition
                                       /\ c.end[q] \in KafkaTopic!Position /\ c.end[q] \in Nat
                                       /\ c.next[q] \in Nat
                                       /\ c.next[q] <= c.end[q] /\ Reached(q, c.end[q])
        BY <2>6, PlaceFields, OffsetsTyped, LogViews DEF Windowed
      <3>2. \A q \in KafkaTopic!View : Reached(q, c.end[q])'
        BY <2>2, <3>1
      <3>3. Windowed(c)'
        BY <1>4, <3>1, <3>2 DEF Windowed
      <3>4. ASSUME NEW q \in KafkaTopic!View, NEW next \in Nat, next <= c.end[q]
            PROVE  Reached(q, next)
        BY <3>1, <3>4, ReachedBelow
      <3> QED
        BY <3>1, <3>3, <3>4
    <2>7. TopicShown'
      <3>1. Windowed(cursor)' /\ \A q \in KafkaTopic!View : Reached(q, cursor.next[q])
        BY <1>2, <2>1, <2>4, <2>6 DEF TopicShown
      <3>2. ASSUME NEW q \in KafkaTopic!View
            PROVE  Owed(q, from[q], cursor.next[q])' \subseteq OffsetsOf(shown, q)
        <4>1. q \in KafkaTopic!Partition /\ cursor.next[q] \in Nat
          BY <2>5, LogViews, OffsetsTyped
        <4>2. Owed(q, from[q], cursor.next[q])' \subseteq Owed(q, from[q], cursor.next[q])
          BY <2>3, <3>1, <4>1
        <4> QED
          BY <1>2, <2>1, <4>2 DEF TopicShown
      <3> QED
        BY <1>2, <1>3, <1>4, <2>1, <3>1, <3>2 DEF TopicShown
    <2>8. WindowsTaken(w) => WindowsTaken(w)'
      <3>1. \A q \in KafkaTopic!View : q \in KafkaTopic!Partition /\ w.end[q] \in KafkaTopic!Position
        BY <2>5, LogViews, OffsetsTyped
      <3> QED
        BY <1>4, <2>2, <3>1 DEF WindowsTaken
    <2>9. ASSUME PageShares(w, from)
          PROVE  PageShares(w, from)' /\ (BatchTaken(w) => BatchTaken(w)')
      <3>1. w.cursor \in LogCursor /\ Windowed(w.cursor)
        BY <2>4, <2>9, PageOfLog DEF PageShares
      <3>2. /\ Windowed(w.cursor)'
            /\ \A q \in KafkaTopic!View : \A next \in Nat : next <= w.cursor.end[q] => Reached(q, next)
            /\ \A q \in KafkaTopic!View : Reached(q, w.cursor.next[q])
        BY <2>6, <3>1
      <3>3. ASSUME NEW q \in KafkaTopic!View
            PROVE  Owed(q, from[q], w.cursor.next[q])'
                     \subseteq OffsetsOf(shown, q) \union OffsetsOf(w.rows, q)
        <4>1. q \in KafkaTopic!Partition /\ w.cursor.next[q] \in Nat
          BY <2>5, LogViews, OffsetsTyped
        <4>2. Owed(q, from[q], w.cursor.next[q])' \subseteq Owed(q, from[q], w.cursor.next[q])
          BY <2>3, <3>2, <4>1
        <4> QED
          BY <1>2, <2>9, <4>2 DEF PageShares
      <3>4. PageShares(w, from)'
        BY <1>2, <1>3, <1>4, <2>9, <3>2, <3>3 DEF PageShares
      <3>5. ASSUME BatchTaken(w) PROVE BatchTaken(w)'
        <4>1. Reached(w.part, w.pos)
          BY <2>5, <3>2, <3>5 DEF BatchTaken
        <4>2. Owed(w.part, w.cursor.next[w.part], w.pos)'
                \subseteq Owed(w.part, w.cursor.next[w.part], w.pos)
          BY <2>3, <2>5, <4>1
        <4> QED
          BY <1>4, <3>5, <4>2 DEF BatchTaken
      <3> QED
        BY <3>4, <3>5
    <2>10. ReadTo(at, w, from)'
      BY <1>4, <2>1, <2>8, <2>9 DEF ReadTo
    <2> QED
      BY <1>3, <1>5, <1>7, <2>7, <2>10 DEF Logged
  <1> QED
    BY <1>6, <1>7

LEMMA LogProduces ==
    ASSUME Logged, NEW p \in KafkaTopic!Partition, KafkaTopic!Produced(p)
    PROVE  Logged'
  <1>1. log.stable[p] < MaxOffset
    BY DEF KafkaTopic!Produced
  <1>2. PICK visible \in BOOLEAN :
          log' = [KafkaTopic!Changed EXCEPT
                    !.stable[p] = @ + 1,
                    !.visible[p] = IF visible THEN @ \union {log.stable[p]} ELSE @,
                    !.rewritten[p] = IF log.stable[p] < log.top[p] THEN @ \union {log.stable[p]}
                                     ELSE @]
    BY Zenon DEF KafkaTopic!Produced
  <1> DEFINE new == log.stable[p]
             stable == [log.stable EXCEPT ![p] = new + 1]
             seen == [log.visible EXCEPT ![p] = IF visible THEN @ \union {new} ELSE @]
             rewritten == [log.rewritten EXCEPT ![p] = IF new < log.top[p] THEN @ \union {new} ELSE @]
  <1>3. log' = [log EXCEPT !.low = log.low, !.stable = stable, !.top = log.top, !.visible = seen,
                           !.rewritten = rewritten, !.changes = @ + 1]
    BY <1>2, LogFields, ZenonT(60) DEF KafkaTopic!Changed, LogRecord
  <1>4. /\ new \in Nat /\ new + 1 \in KafkaTopic!Position /\ new \in KafkaTopic!Position
    BY <1>1, LogFields, OffsetsTyped, LogNumbers
  <1>5. /\ stable \in Offsets /\ stable[p] = new + 1
        /\ \A q \in KafkaTopic!Partition \ {p} : stable[q] = log.stable[q]
    BY <1>4, LogFields DEF Offsets
  <1>6. /\ seen \in [KafkaTopic!Partition -> SUBSET KafkaTopic!Position]
        /\ seen[p] \in SUBSET (log.visible[p] \union {new})
        /\ \A q \in KafkaTopic!Partition \ {p} : seen[q] = log.visible[q]
    BY <1>4, LogFields
  <1>7. /\ rewritten \in [KafkaTopic!Partition -> SUBSET KafkaTopic!Position]
        /\ log.rewritten[p] \in SUBSET rewritten[p] /\ (new < log.top[p] => new \in rewritten[p])
        /\ \A q \in KafkaTopic!Partition \ {p} : rewritten[q] = log.rewritten[q]
    BY <1>4, LogFields
  <1>8. LogTurns(log.low, stable, log.top, seen, rewritten)
    BY <1>3, <1>5, <1>6, <1>7, LogFields DEF LogTurns
  <1> HIDE DEF new, stable, seen, rewritten
  <1>9. ASSUME NEW q \in KafkaTopic!Partition
        PROVE  /\ log.low[q] <= stable[q]
               /\ \A o \in seen[q] : o >= log.low[q] /\ o < stable[q]
               /\ \A o \in KafkaTopic!Position : Reached(q, o) => (o <= stable[q] \/ o <= log.top[q])
               /\ \A o \in seen[q] \ rewritten[q] :
                     \/ o \in log.visible[q] \ log.rewritten[q]
                     \/ o >= log.stable[q] /\ o >= log.top[q]
    <2>1. /\ log.low[q] \in Nat /\ log.stable[q] \in Nat /\ log.top[q] \in Nat
          /\ log.low[q] <= log.stable[q]
          /\ log.visible[q] \in SUBSET Nat
          /\ \A o \in log.visible[q] : o >= log.low[q] /\ o < log.stable[q]
      BY LogFields, OffsetsTyped, LogNumbers DEF Logged, LogKept
    <2>2. KafkaTopic!Position \in SUBSET Nat
      BY LogNumbers
    <2>3. CASE q # p
      BY <1>5, <1>6, <1>7, <2>1, <2>3 DEF Reached
    <2>4. CASE q = p
      <3>1. new = log.stable[q] /\ stable[q] = log.stable[q] + 1
        BY <1>5, <2>4 DEF new
      <3>2. /\ seen[q] \in SUBSET (log.visible[q] \union {log.stable[q]})
            /\ log.rewritten[q] \in SUBSET rewritten[q]
            /\ (log.stable[q] < log.top[q] => log.stable[q] \in rewritten[q])
        BY <1>6, <1>7, <2>4, <3>1
      <3>3. \A o \in KafkaTopic!Position : Reached(q, o) => (o <= stable[q] \/ o <= log.top[q])
        BY <2>1, <2>2, <3>1 DEF Reached
      <3> QED
        BY <2>1, <3>1, <3>2, <3>3
    <2> QED
      BY <2>3, <2>4
  <1>10. LogAfter(log.low, stable, log.top, seen, rewritten)
    BY <1>9 DEF LogAfter
  <1> QED
    BY <1>8, <1>10, LogTurned

LEMMA LogRetains ==
    ASSUME Logged, NEW p \in KafkaTopic!Partition, KafkaTopic!Retain(p)
    PROVE  Logged'
  <1> DEFINE old == log.low[p]
             low == [log.low EXCEPT ![p] = old + 1]
             seen == [log.visible EXCEPT ![p] = @ \ {old}]
  <1>1. old < log.stable[p]
        /\ log' = [KafkaTopic!Changed EXCEPT !.low[p] = @ + 1, !.visible[p] = @ \ {old}]
    BY DEF KafkaTopic!Retain
  <1>2. log' = [log EXCEPT !.low = low, !.stable = log.stable, !.top = log.top, !.visible = seen,
                           !.rewritten = log.rewritten, !.changes = @ + 1]
    BY <1>1, LogFields DEF KafkaTopic!Changed, LogRecord
  <1>3. /\ old \in Nat /\ log.stable[p] \in Nat /\ log.stable[p] <= MaxOffset
    BY LogFields, OffsetsTyped
  <1>4. old + 1 \in KafkaTopic!Position
    BY <1>1, <1>3, LogNumbers
  <1>5. /\ low \in Offsets /\ low[p] = old + 1
        /\ \A q \in KafkaTopic!Partition \ {p} : low[q] = log.low[q]
    BY <1>4, LogFields DEF Offsets
  <1>6. /\ seen \in [KafkaTopic!Partition -> SUBSET KafkaTopic!Position]
        /\ seen[p] = log.visible[p] \ {old}
        /\ \A q \in KafkaTopic!Partition \ {p} : seen[q] = log.visible[q]
    BY LogFields
  <1>7. LogTurns(low, log.stable, log.top, seen, log.rewritten)
    BY <1>2, <1>5, <1>6, LogFields DEF LogTurns
  <1> HIDE DEF low, seen
  <1>8. ASSUME NEW q \in KafkaTopic!Partition
        PROVE  /\ low[q] <= log.stable[q]
               /\ \A o \in seen[q] : o >= low[q] /\ o < log.stable[q]
               /\ seen[q] \in SUBSET log.visible[q]
    <2>1. /\ log.low[q] \in Nat /\ log.stable[q] \in Nat /\ log.low[q] <= log.stable[q]
          /\ log.visible[q] \in SUBSET Nat
          /\ \A o \in log.visible[q] : o >= log.low[q] /\ o < log.stable[q]
      BY LogFields, OffsetsTyped, LogNumbers DEF Logged, LogKept
    <2>2. CASE q # p
      BY <1>5, <1>6, <2>1, <2>2
    <2>3. CASE q = p
      BY <1>1, <1>5, <1>6, <2>1, <2>3
    <2> QED
      BY <2>2, <2>3
  <1>9. LogAfter(low, log.stable, log.top, seen, log.rewritten)
    BY <1>8 DEF LogAfter, Reached
  <1> QED
    BY <1>7, <1>9, LogTurned

LEMMA LogTruncates ==
    ASSUME Logged, NEW p \in KafkaTopic!Partition, KafkaTopic!Truncate(p)
    PROVE  Logged'
  <1> DEFINE old == log.stable[p]
             high == KafkaTopic!Max({log.top[p], old})
             stable == [log.stable EXCEPT ![p] = old - 1]
             top == [log.top EXCEPT ![p] = high]
             seen == [log.visible EXCEPT ![p] = @ \ {old - 1}]
  <1>1. /\ log.low[p] < old
        /\ log' = [KafkaTopic!Changed EXCEPT !.stable[p] = @ - 1, !.visible[p] = @ \ {log.stable[p] - 1},
                                             !.top[p] = KafkaTopic!Max({@, log.stable[p]})]
    BY DEF KafkaTopic!Truncate
  <1>2. log' = [log EXCEPT !.low = log.low, !.stable = stable, !.top = top, !.visible = seen,
                           !.rewritten = log.rewritten, !.changes = @ + 1]
    BY <1>1, LogFields DEF KafkaTopic!Changed, LogRecord
  <1>3. /\ old \in Nat /\ log.low[p] \in Nat /\ log.top[p] \in Nat
        /\ old \in KafkaTopic!Position /\ log.top[p] \in KafkaTopic!Position
    BY LogFields, OffsetsTyped
  <1>4. high = (IF log.top[p] >= old THEN log.top[p] ELSE old)
    BY <1>3, MostPosition
  <1>5. /\ old - 1 \in KafkaTopic!Position /\ high \in KafkaTopic!Position
        /\ high \in Nat /\ high >= old /\ high >= log.top[p]
    <2> HIDE DEF high
    <2> QED
      BY <1>1, <1>3, <1>4, LogNumbers
  <1> HIDE DEF high
  <1>6. /\ stable \in Offsets /\ stable[p] = old - 1
        /\ \A q \in KafkaTopic!Partition \ {p} : stable[q] = log.stable[q]
        /\ top \in Offsets /\ top[p] = high
        /\ \A q \in KafkaTopic!Partition \ {p} : top[q] = log.top[q]
    BY <1>5, LogFields DEF Offsets
  <1>7. /\ seen \in [KafkaTopic!Partition -> SUBSET KafkaTopic!Position]
        /\ seen[p] = log.visible[p] \ {old - 1}
        /\ \A q \in KafkaTopic!Partition \ {p} : seen[q] = log.visible[q]
    BY LogFields
  <1>8. LogTurns(log.low, stable, top, seen, log.rewritten)
    BY <1>2, <1>6, <1>7, LogFields DEF LogTurns
  <1> HIDE DEF stable, top, seen
  <1>9. ASSUME NEW q \in KafkaTopic!Partition
        PROVE  /\ log.low[q] <= stable[q]
               /\ \A o \in seen[q] : o >= log.low[q] /\ o < stable[q]
               /\ \A o \in KafkaTopic!Position : Reached(q, o) => (o <= stable[q] \/ o <= top[q])
               /\ seen[q] \in SUBSET log.visible[q]
    <2>1. /\ log.low[q] \in Nat /\ log.stable[q] \in Nat /\ log.low[q] <= log.stable[q]
          /\ log.top[q] \in Nat /\ log.visible[q] \in SUBSET Nat
          /\ \A o \in log.visible[q] : o >= log.low[q] /\ o < log.stable[q]
          /\ KafkaTopic!Position \in SUBSET Nat
      BY LogFields, OffsetsTyped, LogNumbers DEF Logged, LogKept
    <2>2. CASE q # p
      BY <1>6, <1>7, <2>1, <2>2 DEF Reached
    <2>3. CASE q = p
      <3>1. /\ log.low[q] < log.stable[q] /\ stable[q] = log.stable[q] - 1
            /\ top[q] >= log.stable[q] /\ top[q] >= log.top[q] /\ top[q] \in Nat
            /\ seen[q] = log.visible[q] \ {log.stable[q] - 1}
        BY <1>1, <1>5, <1>6, <1>7, <2>3
      <3>2. ASSUME NEW o \in KafkaTopic!Position, Reached(q, o) PROVE o <= top[q]
        <4>1. o \in Nat /\ log.stable[q] \in Nat /\ log.top[q] \in Nat /\ top[q] \in Nat
          BY <2>1, <3>1
        <4>2. o <= log.stable[q] \/ o <= log.top[q]
          BY <3>2 DEF Reached
        <4>3. log.stable[q] <= top[q] /\ log.top[q] <= top[q]
          BY <3>1, <4>1
        <4> QED
          BY <4>1, <4>2, <4>3
      <3> QED
        BY <2>1, <3>1, <3>2
    <2> QED
      BY <2>2, <2>3
  <1>10. LogAfter(log.low, stable, top, seen, log.rewritten)
    BY <1>9 DEF LogAfter
  <1> QED
    BY <1>8, <1>10, LogTurned

-----------------------------------------------------------------------------
(* Lists of names *)

LEMMA OffsetSets ==
    ASSUME NEW T \in SUBSET KafkaTopic!Position
    PROVE  /\ T \in SUBSET Nat /\ IsFiniteSet(T) /\ Cardinality(T) \in Nat
           /\ KafkaTopic!Cardinality(T) = Cardinality(T)
           /\ Sorted(T) \in Seq(T) /\ Len(Sorted(T)) = Cardinality(T) /\ Elements(Sorted(T)) = T
           /\ \A i \in 1 .. Cardinality(T) : Sorted(T)[i] \in T
           /\ MaxOffset \notin T => Cardinality(T) <= MaxOffset
  <1>1. 0 \in Int /\ MaxOffset \in Int /\ MaxOffset - 1 \in Int
    BY LogNumbers
  <1>2. T \in SUBSET Nat /\ IsFiniteSet(T)
    BY <1>1, LogNumbers, FS_Interval, FS_Subset
  <1>3. Cardinality(T) \in Nat /\ KafkaTopic!Cardinality(T) = Cardinality(T)
    BY <1>2, FS_CardinalityType DEF KafkaTopic!Cardinality, Cardinality
  <1>4. Sorted(T) \in Seq(T) /\ Len(Sorted(T)) = Cardinality(T) /\ Elements(Sorted(T)) = T
    BY <1>2, SortedInOrder
  <1>5. \A i \in 1 .. Cardinality(T) : Sorted(T)[i] \in T
    BY <1>4, ElementOfSeq
  <1>6. ASSUME MaxOffset \notin T PROVE Cardinality(T) <= MaxOffset
    <2> DEFINE U == 0 .. MaxOffset - 1
    <2>1. T \in SUBSET U
      BY <1>6, LogNumbers
    <2>2. IsFiniteSet(U) /\ Cardinality(U) = IF 0 > MaxOffset - 1 THEN 0 ELSE MaxOffset - 1 - 0 + 1
      BY <1>1, FS_Interval
    <2> HIDE DEF U
    <2>3. Cardinality(T) <= Cardinality(U)
      BY <2>1, <2>2, FS_Subset
    <2>4. Cardinality(U) = MaxOffset
      BY <2>2, LogNumbers
    <2> QED
      BY <2>3, <2>4
  <1> QED
    BY <1>2, <1>3, <1>4, <1>5, <1>6, Zenon

LEMMA OffsetsInOrder ==
    ASSUME NEW T \in SUBSET KafkaTopic!Position
    PROVE  KafkaTopic!InOrder(T, <) = Sorted(T)
  <1>0. \A U : KafkaTopic!Cardinality(U) = Cardinality(U)
    BY DEF KafkaTopic!Cardinality, Cardinality
  <1> DEFINE first(k) == CHOOSE x \in T : KafkaTopic!Cardinality({y \in T : y < x}) = k - 1
             second(k) == CHOOSE x \in T : Cardinality({y \in T : y < x}) = k - 1
  <1>1. \A k : first(k) = second(k)
    BY <1>0, Zenon
  <1>2. Sorted(T) = [k \in 1 .. Cardinality(T) |-> second(k)]
    BY DEF Sorted
  <1>3. KafkaTopic!InOrder(T, <) = [k \in 1 .. KafkaTopic!Cardinality(T) |-> first(k)]
    BY Zenon DEF KafkaTopic!InOrder
  <1>4. [k \in 1 .. KafkaTopic!Cardinality(T) |-> first(k)] = [k \in 1 .. Cardinality(T) |-> second(k)]
    <2> HIDE DEF first, second
    <2> QED
      BY <1>0, <1>1
  <1> QED
    BY <1>2, <1>3, <1>4, Zenon

(* A page of a list continues the names where the last one ended.          *)
LEMMA LogLists ==
    ASSUME Logged, KafkaTopic!ListPage
    PROVE  Logged'
  <1> DEFINE T == log.visible[0]
             t == Sorted(T)
             size == Cardinality(T)
             c == log.cursor.next[0]
             next == KafkaTopic!Min({c + PageRows, size})
             more == [i \in 1 .. next - c |-> <<0, t[c + i]>>]
             shown == log.shown \o more
             nexts == [log.cursor.next EXCEPT ![0] = next]
             cursor == [log.cursor EXCEPT !.on = TRUE, !.next = nexts]
             ended == next = size
  <1>1. log.kind = "list" /\ log.at = "idle"
    BY Zenon DEF KafkaTopic!ListPage, KafkaTopic!At
  <1>2. NamesShown
    BY <1>1 DEF Logged
  <1>3. /\ log \in LogRecord /\ log.cursor \in LogCursor /\ log.shown \in Seq(Row)
        /\ T \in SUBSET KafkaTopic!Position /\ MaxOffset \notin T
    <2>1. 0 \in KafkaTopic!Partition /\ log.stable[0] \in Nat /\ log.stable[0] <= MaxOffset
      BY LogNumbers, LogFields, OffsetsTyped
    <2>2. \A o \in T : o < log.stable[0]
      BY <2>1 DEF Logged, LogKept
    <2>3. MaxOffset \notin T
      BY <2>1, <2>2, LogNumbers
    <2> QED
      BY <2>1, <2>3, LogFields
  <1>4. /\ c \in Nat /\ log.cursor.next \in Offsets /\ PageRows \in Nat /\ PageRows > 0
    BY <1>3, PlaceFields, OffsetsTyped, LogNumbers
  <1>5. /\ size \in Nat /\ size <= MaxOffset /\ T \in SUBSET Nat
        /\ \A i \in 1 .. size : t[i] \in T
    BY <1>3, OffsetSets
  <1>6. KafkaTopic!InOrder(log.visible[0], <) = t /\ KafkaTopic!Cardinality(log.visible[0]) = size
    BY <1>3, OffsetsInOrder, OffsetSets, Zenon
  <1>7. LET n == KafkaTopic!Min({log.cursor.next[0] + PageRows, KafkaTopic!Cardinality(log.visible[0])}) IN
          /\ log.cursor.next[0] <= KafkaTopic!Cardinality(log.visible[0])
          /\ log' = [log EXCEPT !.cursor.on = TRUE, !.cursor.next[0] = n,
                        !.shown = @ \o [i \in 1 .. n - log.cursor.next[0] |->
                            <<0, KafkaTopic!InOrder(log.visible[0], <)[log.cursor.next[0] + i]>>],
                        !.ended = n = KafkaTopic!Cardinality(log.visible[0])]
    BY Zenon DEF KafkaTopic!ListPage
  <1>8. /\ c <= size
        /\ log' = [log EXCEPT !.cursor.on = TRUE, !.cursor.next[0] = next,
                              !.shown = shown, !.ended = ended]
    <2>1. LET n == KafkaTopic!Min({log.cursor.next[0] + PageRows, size}) IN
          /\ log.cursor.next[0] <= size
          /\ log' = [log EXCEPT !.cursor.on = TRUE, !.cursor.next[0] = n,
                        !.shown = @ \o [i \in 1 .. n - log.cursor.next[0] |->
                            <<0, t[log.cursor.next[0] + i]>>],
                        !.ended = n = size]
      <3> HIDE DEF t, size
      <3> QED
        BY <1>6, <1>7, Zenon
    <2> HIDE DEF t, size
    <2> QED
      BY <2>1
  <1>9. next = (IF c + PageRows <= size THEN c + PageRows ELSE size)
    BY <1>4, <1>5, LeastPosition
  <1> HIDE DEF T, t, size
  <1>10. /\ next \in Nat /\ c <= next /\ next <= size /\ next \in KafkaTopic!Position
         /\ next - c \in Nat
    <2> HIDE DEF next, c
    <2> QED
      BY <1>4, <1>5, <1>8, <1>9, LogNumbers
  <1>11. \A i \in 1 .. next - c : more[i] = <<0, t[c + i]>> /\ more[i] \in Row
    <2>1. ASSUME NEW i \in 1 .. next - c PROVE <<0, t[c + i]>> \in Row
      <3>1. c + i \in 1 .. size
        <4> HIDE DEF next, c
        <4> QED
          BY <1>4, <1>5, <1>10, <2>1
      <3>2. t[c + i] \in KafkaTopic!Position
        BY <1>3, <1>5, <3>1
      <3> QED
        BY <3>2, LogNumbers DEF Row
    <2> QED
      BY <2>1
  <1>12. more \in [1 .. next - c -> Row]
    BY <1>11
  <1>13. more \in Seq(Row) /\ Len(more) = next - c
    <2> DEFINE n == next - c
    <2>1. n \in Nat /\ more \in [1 .. n -> Row]
      BY <1>10, <1>12
    <2> HIDE DEF n, more
    <2>2. more \in Seq(Row) /\ Len(more) = n
      BY <2>1
    <2> QED
      BY <2>2 DEF n
  <1>14. nexts \in Offsets /\ nexts[0] = next
    BY <1>4, <1>10, LogNumbers DEF Offsets
  <1>15. ended \in BOOLEAN /\ (ended <=> next = size)
    OBVIOUS
  <1>16. /\ shown \in Seq(Row) /\ Len(shown) = Len(log.shown) + Len(more)
         /\ \A k \in 1 .. Len(log.shown) + Len(more) :
              shown[k] = IF k <= Len(log.shown) THEN log.shown[k] ELSE more[k - Len(log.shown)]
    <2> HIDE DEF more
    <2> QED
      BY <1>3, <1>13, ConcatProperties
  <1>17. log' = [log EXCEPT !.cursor = cursor, !.shown = shown, !.ended = ended]
    <2> HIDE DEF next, shown, ended
    <2> QED
      BY <1>3, <1>8 DEF LogRecord, LogCursor
  <1>18. ASSUME log.changes = 0
         PROVE  shown = [i \in 1 .. next |-> <<0, t[i]>>]
    <2>1. log.shown = [i \in 1 .. c |-> <<0, t[i]>>]
      BY <1>2, <1>18 DEF NamesShown, T, t
    <2>2. Len(log.shown) = c /\ \A i \in 1 .. c : log.shown[i] = <<0, t[i]>>
      BY <1>4, <2>1
    <2>3. /\ Len(shown) = c + (next - c)
          /\ \A k \in 1 .. c + (next - c) : shown[k] = IF k <= c THEN log.shown[k] ELSE more[k - c]
      <3> HIDE DEF shown, more, next, c
      <3> QED
        BY <1>13, <1>16, <2>2
    <2> HIDE DEF shown, more, next, c
    <2>4. c + (next - c) = next
      BY <1>4, <1>10
    <2>5. ASSUME NEW k \in 1 .. next PROVE shown[k] = <<0, t[k]>>
      <3>1. CASE k <= c
        <4>1. k \in 1 .. c /\ k \in 1 .. c + (next - c)
          BY <1>4, <2>4, <2>5, <3>1
        <4>2. shown[k] = log.shown[k]
          BY <2>3, <3>1, <4>1
        <4> QED
          BY <2>2, <4>1, <4>2
      <3>2. CASE ~(k <= c)
        <4>1. k - c \in 1 .. next - c /\ c + (k - c) = k
          BY <1>4, <1>10, <2>5, <3>2
        <4>2. more[k - c] = <<0, t[c + (k - c)]>>
          BY <1>11, <4>1
        <4> QED
          BY <2>3, <2>4, <2>5, <3>2, <4>1, <4>2
      <3> QED
        BY <3>1, <3>2
    <2>6. shown \in Seq(Row) /\ Len(shown) = next
      BY <1>16, <2>3, <2>4
    <2>7. shown = [k \in 1 .. next |-> shown[k]]
      BY <2>6
    <2> QED
      BY <2>5, <2>7
  <1> HIDE DEF next, c, more, shown, nexts, ended
  <1>19. cursor \in LogCursor /\ cursor.next = nexts
    BY <1>3, <1>14 DEF LogCursor
  <1> HIDE DEF cursor
  <1>20. /\ log' \in LogRecord
         /\ log'.kind = log.kind /\ log'.low = log.low /\ log'.stable = log.stable
         /\ log'.visible = log.visible /\ log'.at = log.at /\ log'.cursor = cursor
         /\ log'.work = log.work /\ log'.shown = shown /\ (log'.ended <=> ended)
         /\ log'.changes = log.changes
    BY <1>3, <1>15, <1>16, <1>17, <1>19 DEF LogRecord
  <1>21. LogKept' /\ (\A p \in KafkaTopic!Partition : log.low[p] <= log.stable[p])'
    BY <1>20 DEF Logged, LogKept
  <1>22. NamesShown'
    <2>1. /\ log'.cursor.next[0] = next /\ log'.visible[0] = T /\ Sorted(T) = t
          /\ Cardinality(T) = size
      BY <1>14, <1>19, <1>20 DEF T, t, size
    <2>2. log'.at = "idle" /\ log'.work = KafkaTopic!NoWork
      BY <1>2, <1>20 DEF NamesShown
    <2>3. log'.changes = 0 =>
            LET sorted == Sorted(log'.visible[0])
                n == log'.cursor.next[0]
            IN /\ n <= Cardinality(log'.visible[0])
               /\ log'.shown = [i \in 1 .. n |-> <<0, sorted[i]>>]
               /\ log'.ended => n = Cardinality(log'.visible[0])
      BY <1>10, <1>15, <1>18, <1>20, <2>1
    <2> QED
      BY <2>2, <2>3 DEF NamesShown
  <1> QED
    BY <1>1, <1>20, <1>21, <1>22 DEF Logged

LEMMA LogStep ==
    ASSUME Logged, [KafkaTopic!Next]_log
    PROVE  Logged'
  <1>1. CASE KafkaTopic!PageFails
    <2>1. log.at # "idle"
      BY <1>1, Zenon DEF KafkaTopic!PageFails, KafkaTopic!At
    <2>2. log.kind # "list" /\ ~log.ended
      BY <2>1, ReadsLog
    <2> QED
      BY <1>1, <2>2, LogBegins
  <1>2. CASE KafkaTopic!Ask
    <2>1. log.kind # "list" /\ ~log.ended
      BY <1>2, ZenonT(60) DEF KafkaTopic!Ask
    <2> QED
      BY <1>2, <2>1, LogBegins
  <1>3. CASE KafkaTopic!ListFails \/ KafkaTopic!Done \/ UNCHANGED log
    <2>1. log' = log
      BY <1>3, Zenon DEF KafkaTopic!ListFails, KafkaTopic!Done
    <2> QED
      BY <2>1 DEF Logged, LogKept, NamesShown, TopicShown, ReadTo, WindowsTaken, PageShares,
                  BatchTaken, Windowed, Reached, Owed, KafkaTopic!View, KafkaTopic!Count
  <1> QED
    BY <1>1, <1>2, <1>3, LogWatermarks, LogResumes, LogQuiet, LogAssigns, LogReachesEnd, LogTakes,
       LogSplits, LogOverflows, LogMergesAll, LogPageEnds, LogLists, LogProduces, LogRetains,
       LogTruncates, Zenon
       DEF KafkaTopic!Next

LEMMA LogStart ==
    ASSUME KafkaTopic!Init
    PROVE  Logged
  <1>1. PICK kind \in KafkaTopic!Kind, live \in BOOLEAN, replay \in KafkaTopic!Replay,
             lookup \in KafkaTopic!Position,
             stable \in [KafkaTopic!Partition -> KafkaTopic!Position],
             low \in [KafkaTopic!Partition -> KafkaTopic!Position] :
        /\ \A p \in KafkaTopic!Partition : low[p] <= KafkaTopic!Min({1, stable[p]}) /\ stable[p] >= MaxOffset - 1
        /\ kind # "replay" => replay = KafkaTopic!NoReplay /\ lookup = 0
        /\ replay.time => replay.start = -1
        /\ ~replay.time => lookup = 0
        /\ live => kind \in {"partition", "topic"}
        /\ kind = "list" => low[0] = 0
        /\ kind # "topic" => \A p \in KafkaTopic!Partition \ {0} : low[p] = 0 /\ stable[p] = MaxOffset
        /\ \E hidden \in SUBSET (low[0] .. stable[0] - 1) :
              /\ KafkaTopic!Cardinality(hidden) <= 1
              /\ log = [kind |-> kind, live |-> live, replay |-> replay, lookup |-> lookup,
                        low |-> low, stable |-> stable, top |-> KafkaTopic!Zero,
                        visible |-> [p \in KafkaTopic!Partition |-> (low[p] .. stable[p] - 1)
                                                            \ IF p = 0 THEN hidden ELSE {}],
                        rewritten |-> [p \in KafkaTopic!Partition |-> {}],
                        at |-> "idle", cursor |-> KafkaTopic!NoCursor, work |-> KafkaTopic!NoWork,
                        from |-> KafkaTopic!Zero,
                        shown |-> <<>>, ended |-> FALSE, changes |-> 0]
    BY Zenon DEF KafkaTopic!Init
  <1>2. PICK hidden :
           log = [kind |-> kind, live |-> live, replay |-> replay, lookup |-> lookup,
                  low |-> low, stable |-> stable, top |-> KafkaTopic!Zero,
                  visible |-> [p \in KafkaTopic!Partition |-> (low[p] .. stable[p] - 1)
                                                      \ IF p = 0 THEN hidden ELSE {}],
                  rewritten |-> [p \in KafkaTopic!Partition |-> {}],
                  at |-> "idle", cursor |-> KafkaTopic!NoCursor, work |-> KafkaTopic!NoWork,
                  from |-> KafkaTopic!Zero,
                  shown |-> <<>>, ended |-> FALSE, changes |-> 0]
    BY <1>1, Zenon
  <1> DEFINE visible == [p \in KafkaTopic!Partition |-> (low[p] .. stable[p] - 1)
                                                      \ IF p = 0 THEN hidden ELSE {}]
             rewritten == [p \in KafkaTopic!Partition |-> {}]
  <1>3. /\ log.kind = kind /\ log.low = low /\ log.stable = stable /\ log.visible = visible
        /\ log.at = "idle" /\ log.cursor = KafkaTopic!NoCursor /\ log.work = KafkaTopic!NoWork
        /\ log.from = KafkaTopic!Zero /\ log.shown = <<>> /\ ~log.ended
    BY <1>2
  <1>4. ASSUME NEW p \in KafkaTopic!Partition
        PROVE  /\ low[p] \in Nat /\ stable[p] \in Nat /\ stable[p] <= MaxOffset /\ low[p] <= stable[p]
    <2>1. low[p] \in Nat /\ stable[p] \in Nat /\ stable[p] <= MaxOffset
      BY <1>1, OffsetsTyped DEF Offsets
    <2>2. KafkaTopic!Min({1, stable[p]}) = (IF 1 <= stable[p] THEN 1 ELSE stable[p])
      BY <2>1, LeastPosition
    <2>3. low[p] <= KafkaTopic!Min({1, stable[p]})
      BY <1>1
    <2> QED
      BY <2>1, <2>2, <2>3
  <1>5. ASSUME NEW p \in KafkaTopic!Partition, NEW o \in visible[p]
        PROVE  o \in KafkaTopic!Position /\ o >= low[p] /\ o < stable[p]
    <2>1. o \in low[p] .. stable[p] - 1
      BY <1>5
    <2> QED
      BY <1>4, <2>1, LogNumbers
  <1>6. /\ visible \in [KafkaTopic!Partition -> SUBSET KafkaTopic!Position]
        /\ rewritten \in [KafkaTopic!Partition -> SUBSET KafkaTopic!Position]
    BY <1>5
  <1>7. <<>> \in Seq(Row) /\ Len(<<>>) = 0
    OBVIOUS
  <1> HIDE DEF visible, rewritten
  <1>8. log \in LogRecord
    <2>1. log = [kind |-> kind, live |-> live, replay |-> replay, lookup |-> lookup,
                  low |-> low, stable |-> stable, top |-> KafkaTopic!Zero,
                  visible |-> visible, rewritten |-> rewritten,
                  at |-> "idle", cursor |-> KafkaTopic!NoCursor, work |-> KafkaTopic!NoWork,
                  from |-> KafkaTopic!Zero,
                  shown |-> <<>>, ended |-> FALSE, changes |-> 0]
      BY <1>2 DEF visible, rewritten
    <2>2. low \in Offsets /\ stable \in Offsets
      BY <1>1 DEF Offsets
    <2> QED
      BY <1>6, <1>7, <2>1, <2>2, NoPlaces, LogNumbers DEF LogRecord
  <1>9. LogKept /\ \A p \in KafkaTopic!Partition : log.low[p] <= log.stable[p]
    BY <1>3, <1>4, <1>5 DEF LogKept
  <1>10. NamesShown
    <2>1. log.cursor.next[0] = 0
      BY <1>3, NoPlaces, LogNumbers
    <2>2. 0 \in KafkaTopic!Partition /\ visible[0] \in SUBSET KafkaTopic!Position
      BY <1>6, LogNumbers
    <2>3. Cardinality(visible[0]) \in Nat
      BY <2>2, OffsetSets
    <2>4. <<>> = [i \in 1 .. 0 |-> <<0, Sorted(visible[0])[i]>>]
      OBVIOUS
    <2> QED
      BY <1>3, <2>1, <2>3, <2>4 DEF NamesShown
  <1>11. TopicShown
    <2>1. ASSUME NEW p \in KafkaTopic!View
          PROVE  /\ p \in KafkaTopic!Partition /\ KafkaTopic!Zero[p] = 0 /\ Reached(p, 0)
                 /\ \A o \in log.visible[p] : ~(o < 0)
      <3>1. p \in KafkaTopic!Partition
        BY LogViews
      <3> QED
        BY <1>3, <1>4, <1>5, <3>1, LogNumbers DEF Reached
    <2>2. Windowed(log.cursor)
      BY <1>3, <2>1, NoPlaces DEF Windowed
    <2>3. RowsAscend(<<>>)
      BY DEF RowsAscend
    <2>4. \A p \in KafkaTopic!View : Owed(p, log.from[p], log.cursor.next[p]) = {}
      BY <1>3, <2>1, NoPlaces DEF Owed
    <2>5. \A i \in 1 .. Len(log.shown) : FALSE
      BY <1>3, <1>7
    <2>6. log.cursor.next = KafkaTopic!Zero /\ log.shown = <<>> /\ ~log.ended
      BY <1>3, NoPlaces
    <2> QED
      BY <2>2, <2>3, <2>4, <2>5, <2>6 DEF TopicShown
  <1>12. ReadTo("idle", KafkaTopic!NoWork, log.from)
    BY NoPlaces, LogViews, LogNumbers, <1>7 DEF ReadTo
  <1> QED
    BY <1>3, <1>8, <1>9, <1>10, <1>11, <1>12 DEF Logged

LEMMA LogComplete ==
    ASSUME Logged
    PROVE  KafkaTopic!TypeOK /\ KafkaTopic!PagesComplete
  <1>1. /\ log.shown \in Seq(Row) /\ DOMAIN log.shown = 1 .. Len(log.shown)
        /\ Len(log.shown) \in Nat /\ \A i \in 1 .. Len(log.shown) : log.shown[i] \in Row
        /\ log.cursor \in LogCursor /\ log.work \in LogWork
    BY LogFields, LenProperties, ElementOfSeq
  <1>2. Len(log.work.rows) <= PageRows
    <2>1. CASE log.kind = "list"
      BY <2>1, NoPlaces, LogNumbers DEF Logged, NamesShown
    <2>2. CASE log.kind # "list"
      BY <2>2 DEF Logged, ReadTo
    <2> QED
      BY <2>1, <2>2
  <1>3. KafkaTopic!TypeOK
    BY <1>1, <1>2, LogFields, PlaceFields DEF KafkaTopic!TypeOK, Offsets, Row
  <1>4. \A p : KafkaTopic!Shown(p) = OffsetsOf(log.shown, p)
    BY <1>1 DEF KafkaTopic!Shown, OffsetsOf
  <1>5. ASSUME log.kind = "list", log.ended, log.changes = 0
        PROVE  KafkaTopic!Shown(0) = log.visible[0]
    <2> DEFINE T == log.visible[0]
               t == Sorted(T)
               n == Cardinality(T)
    <2>1. T \in SUBSET KafkaTopic!Position
      BY LogFields, LogNumbers
    <2>2. Elements(t) = T /\ Len(t) = n /\ n \in Nat
      BY <2>1, OffsetSets
    <2>3. log.shown = [i \in 1 .. n |-> <<0, t[i]>>]
      BY <1>5 DEF Logged, NamesShown
    <2> HIDE DEF T, t, n
    <2>4. Len(log.shown) = n /\ \A i \in 1 .. n : log.shown[i][1] = 0 /\ log.shown[i][2] = t[i]
      BY <2>2, <2>3
    <2>5. OffsetsOf(log.shown, 0) = {log.shown[i][2] : i \in {j \in 1 .. n : log.shown[j][1] = 0}}
      BY <2>4 DEF OffsetsOf
    <2>6. T = {t[i] : i \in 1 .. n}
      BY <2>2 DEF Elements
    <2>7. {j \in 1 .. n : log.shown[j][1] = 0} = 1 .. n
      BY <2>4
    <2>8. OffsetsOf(log.shown, 0) = {log.shown[i][2] : i \in 1 .. n}
      BY <2>5, <2>7
    <2>9. OffsetsOf(log.shown, 0) = T
      <3> DEFINE f(i) == log.shown[i][2]
      <3>1. \A i \in 1 .. n : f(i) = t[i]
        BY <2>4
      <3>2. OffsetsOf(log.shown, 0) = {f(i) : i \in 1 .. n}
        BY <2>8
      <3> HIDE DEF f
      <3>3. \A o \in OffsetsOf(log.shown, 0) : o \in T
        BY <2>6, <3>1, <3>2
      <3>4. \A o \in T : o \in OffsetsOf(log.shown, 0)
        BY <2>6, <3>1, <3>2
      <3> QED
        BY <3>3, <3>4
    <2> QED
      BY <1>4, <2>9 DEF T
  <1>6. ASSUME log.kind # "list"
        PROVE  /\ \A i, j \in DOMAIN log.shown :
                    i < j /\ log.shown[i][1] = log.shown[j][1] => log.shown[i][2] < log.shown[j][2]
               /\ \A p \in KafkaTopic!View :
                    /\ {o \in log.visible[p] \ log.rewritten[p] :
                           o >= log.from[p] /\ o < log.cursor.next[p]} \subseteq KafkaTopic!Shown(p)
                    /\ log.ended => log.cursor.next[p] = log.cursor.end[p]
    <2>1. TopicShown
      BY <1>6 DEF Logged
    <2> QED
      BY <1>1, <1>4, <2>1 DEF TopicShown, RowsAscend, Owed
  <1> QED
    BY <1>3, <1>5, <1>6 DEF KafkaTopic!PagesComplete

-----------------------------------------------------------------------------
(* All that pages *)

(* What each part knows of its pages so far.                               *)
Continuing ==
    /\ part = "nats" => Scanned
    /\ part = "kafka" => Logged
    /\ part = "dynamodb" => Sharded
    /\ part = "listing" => Listed
    /\ part = "postgres" => Related
    /\ part = "bounds" => Charged

LEMMA PagesMove ==
    ASSUME [PagesNext]_all
    PROVE  /\ part' = part
           /\ part = "nats" => [NatsStream!Next]_scan
           /\ part = "kafka" => [KafkaTopic!Next]_log
           /\ part = "dynamodb" => [DynamoDbShard!Next]_shard
           /\ part = "listing" => [Lists!Next]_listing
           /\ part = "postgres" => [PostgresRelation!Next]_rel
           /\ part = "bounds" => Bounds!Next \/ walk' = walk
  BY DEF PagesNext, OfNats, OfKafka, OfDynamoDb, OfListing, OfPostgres, OfDecoding, Walks, all

LEMMA PagesBegin ==
    ASSUME PagesInit
    PROVE  Continuing
  <1>1. /\ part = "nats" => NatsStream!Init
        /\ part = "kafka" => KafkaTopic!Init
        /\ part = "dynamodb" => DynamoDbShard!Init
        /\ part = "listing" => Lists!Init
        /\ part = "postgres" => PostgresRelation!Init
        /\ part = "bounds" => Bounds!Init
    BY DEF PagesInit
  <1> QED
    BY <1>1, ScanBegins, LogStart, ShardStart, ListingStart, RelationStart, WalkStart DEF Continuing

LEMMA PagesContinue ==
    ASSUME Continuing, [PagesNext]_all
    PROVE  Continuing'
  <1>1. part' = part
    BY PagesMove
  <1>2. part = "nats" => Scanned'
    BY PagesMove, ScanSteps DEF Continuing
  <1>3. part = "kafka" => Logged'
    BY PagesMove, LogStep DEF Continuing
  <1>4. part = "dynamodb" => Sharded'
    BY PagesMove, ShardStep DEF Continuing
  <1>5. part = "listing" => Listed'
    BY PagesMove, ListingStep DEF Continuing
  <1>6. part = "postgres" => Related'
    BY PagesMove, RelationStep DEF Continuing
  <1>7. part = "bounds" => Charged'
    <2> SUFFICES ASSUME part = "bounds" PROVE Charged'
      OBVIOUS
    <2>1. Charged /\ (Bounds!Next \/ walk' = walk)
      BY PagesMove DEF Continuing
    <2>2. CASE Bounds!Next
      BY <2>1, <2>2, WalkStep
    <2>3. CASE walk' = walk
      BY <2>1, <2>3 DEF Charged
    <2> QED
      BY <2>1, <2>2, <2>3
  <1> QED
    BY <1>1, <1>2, <1>3, <1>4, <1>5, <1>6, <1>7 DEF Continuing

(* The invariant holds always.                                             *)
LEMMA ContinuingAlways == PagesSpec => []Continuing
  BY PagesBegin, PagesContinue, PTL DEF PagesSpec, all

(* What the pages know of themselves bounds and types their state.         *)
LEMMA ContinuingTyped ==
    ASSUME Continuing, TypeOK
    PROVE  PagesTypeOK
  <1>1. part = "bounds" => Bounds!TypeOK
    <2> SUFFICES ASSUME Charged PROVE Bounds!TypeOK
      BY DEF Continuing
    <2>1. walk \in WalkRecord
      BY DEF Charged
    <2>2. \A k \in DOMAIN walk.stack : walk.stack[k] \in FrameState
      BY <2>1, ElementOfSeq, LenProperties DEF WalkRecord
    <2> QED
      BY <2>1, <2>2 DEF Bounds!TypeOK, WalkRecord, WalkState, FrameState
  <1>2. part = "nats" => NatsStream!TypeOK
    BY ScanTyped DEF Continuing
  <1>3. part = "kafka" => KafkaTopic!TypeOK
    BY LogComplete DEF Continuing
  <1>4. part = "dynamodb" => DynamoDbShard!TypeOK
    BY ShardComplete DEF Continuing
  <1>5. part = "listing" => Lists!TypeOK
    BY ListingComplete DEF Continuing
  <1>6. part = "postgres" => PostgresRelation!TypeOK
    BY RelationComplete DEF Continuing
  <1> QED
    BY <1>1, <1>2, <1>3, <1>4, <1>5, <1>6 DEF PagesTypeOK

-----------------------------------------------------------------------------
(* For any number of records, partitions, keys, entries and rows, pages of *)
(* any size and any number of changes between two requests: the state of   *)
(* every reader keeps its type, a page of Kafka never has more rows than   *)
(* fit it, and an offset, a key or an iterator names a place there is      *)
(* (browse.rs, replay.rs, topic.rs and rows.rs of the crates, bounds.rs of *)
(* avro and protobuf).                                                     *)
THEOREM PagesTyped == PagesSpec => []PagesTypeOK
  <1>1. Continuing /\ TypeOK => PagesTypeOK
    BY ContinuingTyped
  <1> QED
    BY <1>1, ContinuingAlways, CacheTyped, PTL

(* Under the same: paging to the end shows what there was from beginning   *)
(* to end, nothing twice and nothing left out, as far as the server keeps  *)
(* a place for the reader: streams, committed records of all partitions,   *)
(* shards, scans and batches, the rows of a relation, and listings.        *)
THEOREM PagesAreComplete == PagesSpec => []PagesComplete
  <1>1. Continuing => PagesComplete
    BY ScanComplete, LogComplete, ShardComplete, ListingComplete, RelationComplete
    DEF Continuing, PagesComplete
  <1> QED
    BY <1>1, ContinuingAlways, PTL

=============================================================================
