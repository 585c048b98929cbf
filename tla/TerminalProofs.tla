---------------------------- MODULE TerminalProofs ----------------------------
(***************************************************************************)
(* For any number of rows, views, processes, connections, queries and      *)
(* texts: the window of live records slides by whole rows, a handler finds *)
(* its data whatever arrived under an open mode, a popup only covers the   *)
(* request, what was saved is not lost, the columns of followed records    *)
(* stay, a key edits at the caret, what is drawn is cut as promised, and   *)
(* the terminal is left as it was found. Each part of Terminal.tla has an  *)
(* invariant of its own, which the steps of the other parts leave alone.   *)
(***************************************************************************)
EXTENDS Terminal, OrderingProofs

-----------------------------------------------------------------------------
(* The window of live records *)

(* A follow that awaits more records, or nothing, has its window.          *)
Phase ==
    /\ asked # "nothing" => following
    /\ following /\ asked # "first" => live

Window == TypeOK /\ NewestRecords /\ DisplayFitsRows /\ Phase

(* The operators of Follow *)

(* No more rows are removed than there are.                                *)
LEMMA RemovedRange ==
    ASSUME NEW page \in Seq(Row), NEW cursor
    PROVE  Removed(page, cursor) \in 0 .. Len(page)
<1> DEFINE D == 0 .. Len(page) - 1
           S == {n \in D :
                   \A m \in 0 .. n : ~Fits(SubSeq(page, m + 1, Len(page)), cursor)}
<1>1. Len(page) \in Nat
  BY LenProperties
<1>2. IsFiniteSet(D) /\ Cardinality(D) = Len(page)
  <2>1. 0 \in Int /\ Len(page) - 1 \in Int
    BY <1>1
  <2>2. /\ IsFiniteSet(D)
        /\ Cardinality(D) = IF 0 > Len(page) - 1 THEN 0 ELSE (Len(page) - 1) - 0 + 1
    BY <2>1, FS_Interval
  <2> HIDE DEF D
  <2> QED BY <1>1, <2>2
<1>3. S \in SUBSET D
  OBVIOUS
<1>4. IsFiniteSet(S) /\ Cardinality(S) <= Cardinality(D)
  <2> HIDE DEF S, D
  <2> QED BY <1>2, <1>3, FS_Subset
<1>5. Cardinality(S) \in Nat
  BY <1>4, FS_CardinalityType
<1> QED BY <1>1, <1>2, <1>4, <1>5 DEF Removed

(* The page without its first n rows.                                      *)
LEMMA Dropped ==
    ASSUME NEW page \in Seq(Row), NEW n \in 0 .. Len(page)
    PROVE  LET rest == SubSeq(page, n + 1, Len(page)) IN
           /\ rest \in Seq(Row)
           /\ Len(rest) = Len(page) - n
           /\ \A i \in 1 .. Len(page) - n : rest[i] = page[n + i]
<1>1. Len(page) \in Nat /\ \A i \in n + 1 .. Len(page) : page[i] \in Row
  BY LenProperties, ElementOfSeq
<1>2. Len(page) - (n + 1) + 1 = Len(page) - n
  BY <1>1
<1>3. /\ SubSeq(page, n + 1, Len(page)) \in Seq(Row)
      /\ Len(SubSeq(page, n + 1, Len(page)))
           = IF n + 1 <= Len(page) THEN Len(page) - (n + 1) + 1 ELSE 0
      /\ \A i \in 1 .. Len(page) - (n + 1) + 1 :
            SubSeq(page, n + 1, Len(page))[i] = page[n + 1 + i - 1]
  BY <1>1, SubSeqProperties
<1>4. n + 1 <= Len(page) \/ Len(page) - n = 0
  BY <1>1
<1> DEFINE rest == SubSeq(page, n + 1, Len(page))
<1>5. /\ rest \in Seq(Row)
      /\ Len(rest) = Len(page) - n
      /\ \A i \in 1 .. Len(page) - n : rest[i] = page[n + i]
  <2>1. \A i \in 1 .. Len(page) - n : n + 1 + i - 1 = n + i
    BY <1>1
  <2> HIDE DEF rest
  <2>2. /\ rest \in Seq(Row)
        /\ Len(rest) = IF n + 1 <= Len(page) THEN Len(page) - (n + 1) + 1 ELSE 0
        /\ \A i \in 1 .. Len(page) - (n + 1) + 1 : rest[i] = page[n + 1 + i - 1]
    BY <1>3 DEF rest
  <2> QED BY <1>1, <1>2, <1>4, <2>1, <2>2
<1> QED BY <1>5

LEMMA AllProperties ==
    ASSUME NEW page \in Seq(Row)
    PROVE  /\ All(page) \in Seq(Nat)
           /\ Len(All(page)) = Len(page)
           /\ \A i \in 1 .. Len(page) : All(page)[i] = i
<1>1. Len(page) \in Nat
  BY LenProperties
<1> DEFINE n == Len(page)
           f == [i \in 1 .. n |-> i]
<1>2. f \in Seq(Nat) /\ Len(f) = n /\ \A i \in 1 .. n : f[i] = i
  <2> HIDE DEF n
  <2>1. n \in Nat
    BY <1>1 DEF n
  <2>2. \A i \in 1 .. n : i \in Nat
    BY <2>1
  <2> QED BY <2>1, <2>2
<1> QED BY <1>2 DEF All

LEMMA PositionRange ==
    ASSUME NEW shown \in Seq(Nat), NEW keep
    PROVE  /\ Position(shown, keep) \in Nat \ {0}
           /\ Position(shown, keep) = 1 \/ Position(shown, keep) <= Len(shown)
<1>1. DOMAIN shown = 1 .. Len(shown) /\ Len(shown) \in Nat
  BY LenProperties
<1>2. CASE \E i \in DOMAIN shown : shown[i] \in keep
  <2>1. Position(shown, keep) \in DOMAIN shown
    BY <1>2 DEF Position
  <2> QED BY <1>1, <2>1
<1>3. CASE ~\E i \in DOMAIN shown : shown[i] \in keep
  BY <1>3 DEF Position
<1> QED BY <1>2, <1>3

(* Displaying every row satisfies the display part of the invariant.       *)
LEMMA AllDisplayed ==
    ASSUME NEW page \in Seq(Row), NEW p \in Nat \ {0},
           p = 1 \/ p <= Len(page),
           rows' = page, visible' = All(page), selected' = p
    PROVE  DisplayFitsRows' /\ visible' \in Seq(Nat) /\ selected' \in Nat \ {0}
<1>1. Len(page) \in Nat /\ DOMAIN page = 1 .. Len(page)
  BY LenProperties
<1>2. /\ All(page) \in Seq(Nat)
      /\ Len(All(page)) = Len(page)
      /\ \A i \in 1 .. Len(page) : All(page)[i] = i
  BY AllProperties
<1>3. DOMAIN All(page) = 1 .. Len(page)
  BY <1>2, LenProperties
<1> HIDE DEF All
<1> QED BY <1>1, <1>2, <1>3 DEF DisplayFitsRows

LEMMA EndRange ==
    ASSUME NEW page \in Seq(Row)
    PROVE  /\ End(page) \in Nat \ {0}
           /\ End(page) = 1 \/ End(page) <= Len(page)
BY EmptySeq, LenProperties DEF End

LEMMA WindowInit == Init => Window
<1> SUFFICES ASSUME Init PROVE Window
  OBVIOUS
<1>1. rows \in Seq(Row) /\ visible \in Seq(Nat)
  BY EmptySeq DEF Init
<1>2. TypeOK
  <2>1. received \in 0 .. MaxRecord
    BY FollowAssumption DEF Init
  <2>2. selected \in Nat \ {0} /\ evicted \in Nat
    BY DEF Init
  <2>3. live \in BOOLEAN /\ following \in BOOLEAN
    BY DEF Init
  <2>4. asked \in {"nothing", "first", "more"}
    BY DEF Init
  <2> QED BY <1>1, <2>1, <2>2, <2>3, <2>4 DEF TypeOK
<1>3. DOMAIN visible = {}
  BY DEF Init
<1>4. DisplayFitsRows
  BY <1>3 DEF Init, DisplayFitsRows
<1> QED BY <1>2, <1>4 DEF Init, Window, NewestRecords, Phase

LEMMA BrowseKeeps == ASSUME Window, Browse PROVE Window'
<1>1. PICK count \in 0 .. PageRows :
      \E page \in [1 .. count -> [record : {0}, size : RowSize]] :
          rows' = page /\ visible' = All(page)
  BY DEF Browse
<1>2. PICK page \in [1 .. count -> [record : {0}, size : RowSize]] :
          rows' = page /\ visible' = All(page)
  BY <1>1
<1>3. count \in Nat
  BY FollowAssumption
<1>4. \A i \in 1 .. count : page[i] \in Row
  BY <1>2, FollowAssumption DEF Row
<1>5. page \in Seq(Row)
  BY <1>3, <1>4
<1>6. selected' = 1
  BY DEF Browse
<1>7. DisplayFitsRows' /\ visible' \in Seq(Nat) /\ selected' \in Nat \ {0}
  BY <1>2, <1>5, <1>6, AllDisplayed
<1>8. /\ live' = FALSE /\ received' = 0 /\ evicted' = 0
      /\ following' = FALSE /\ asked' = "nothing"
  BY DEF Browse
<1>9. TypeOK'
  <2>1. rows' \in Seq(Row)
    BY <1>2, <1>5
  <2>2. 0 \in 0 .. MaxRecord
    BY FollowAssumption
  <2> QED BY <1>7, <1>8, <2>1, <2>2 DEF TypeOK
<1> QED BY <1>7, <1>8, <1>9 DEF Window, NewestRecords, Phase

LEMMA SelectKeeps == ASSUME Window, Select PROVE Window'
<1>1. DOMAIN visible = 1 .. Len(visible) /\ Len(visible) \in Nat
  BY LenProperties DEF Window, TypeOK
<1>2. selected' \in DOMAIN visible
  BY DEF Select
<1>3. selected' \in Nat \ {0} /\ selected' <= Len(visible)
  BY <1>1, <1>2
<1> QED BY <1>3 DEF Select, Window, TypeOK, NewestRecords, DisplayFitsRows, Phase

LEMMA ArrangeKeeps == ASSUME Window, Arrange PROVE Window'
<1>1. PICK some \in SUBSET DOMAIN rows : \E order \in Bijection(1 .. Cardinality(some), some) : visible' = order
  BY DEF Arrange
<1>2. DOMAIN rows = 1 .. Len(rows) /\ Len(rows) \in Nat
  BY LenProperties DEF Window, TypeOK
<1>3. IsFiniteSet(some) /\ Cardinality(some) \in Nat
  <2>1. IsFiniteSet(1 .. Len(rows))
    BY <1>2, FS_Interval
  <2>2. IsFiniteSet(some)
    BY <1>2, <2>1, FS_Subset
  <2> QED BY <2>2, FS_CardinalityType
<1>4. /\ visible' \in [1 .. Cardinality(some) -> some]
      /\ \A i, j \in 1 .. Cardinality(some) : i # j => visible'[i] # visible'[j]
  BY <1>1 DEF Bijection, Injection, Surjection, IsInjective
<1>5. visible' \in Seq(Nat)
  <2>1. \A i \in 1 .. Cardinality(some) : visible'[i] \in Nat
    BY <1>2, <1>4
  <2> QED BY <1>3, <1>4, <2>1
<1>6. /\ selected' \in Nat \ {0}
      /\ selected' = 1 \/ selected' <= Len(visible')
  BY <1>5, PositionRange DEF Arrange
<1>7. DisplayFitsRows'
  BY <1>4, <1>6 DEF Arrange, DisplayFitsRows
<1> QED BY <1>5, <1>6, <1>7 DEF Arrange, Window, TypeOK, NewestRecords, Phase

LEMMA QuietKeeps == ASSUME Window, Start \/ Tick \/ Stop \/ BatchFails PROVE Window'
<1> USE DEF Window, TypeOK, NewestRecords, DisplayFitsRows, Phase
<1>1. CASE Start
  BY <1>1 DEF Start
<1>2. CASE Tick
  BY <1>2 DEF Tick
<1>3. CASE Stop
  BY <1>3 DEF Stop
<1>4. CASE BatchFails
  BY <1>4 DEF BatchFails
<1> QED BY <1>1, <1>2, <1>3, <1>4

(* The rows that are kept and the batch are the newest records, and so are *)
(* the rows left of them.                                                  *)
LEMMA BatchKeeps == ASSUME Window, BatchArrives PROVE Window'
<1> DEFINE first == IF asked = "first" THEN 0 ELSE received
           gone == IF asked = "first" THEN 0 ELSE evicted
<1>0. /\ asked # "nothing"
      /\ rows \in Seq(Row) /\ received \in 0 .. MaxRecord /\ evicted \in Nat
      /\ MaxRecord \in Nat /\ PageRows \in Nat
      /\ asked # "first" => live
  BY FollowAssumption DEF BatchArrives, Window, TypeOK, Phase
<1>1. PICK count \in 0 .. PageRows, cursor \in CursorSize :
      /\ first + count <= MaxRecord
      /\ \E batch \in Batch(first, count) :
            LET combined == Kept \o batch
                n == Removed(combined, cursor)
            IN  /\ rows' = SubSeq(combined, n + 1, Len(combined))
                /\ evicted' = IF asked = "first" THEN n ELSE evicted + n
                /\ IF Rebuilds(count, n)
                   THEN /\ visible' = All(rows')
                        /\ selected' = IF selected >= Len(visible) THEN End(rows')
                                       ELSE Position(visible', Keep(n))
                   ELSE UNCHANGED <<visible, selected>>
      /\ received' = first + count
  BY DEF BatchArrives
<1>2. PICK batch \in Batch(first, count) :
            LET combined == Kept \o batch
                n == Removed(combined, cursor)
            IN  /\ rows' = SubSeq(combined, n + 1, Len(combined))
                /\ evicted' = IF asked = "first" THEN n ELSE evicted + n
                /\ IF Rebuilds(count, n)
                   THEN /\ visible' = All(rows')
                        /\ selected' = IF selected >= Len(visible) THEN End(rows')
                                       ELSE Position(visible', Keep(n))
                   ELSE UNCHANGED <<visible, selected>>
  BY <1>1
<1> DEFINE combined == Kept \o batch
           n == Removed(combined, cursor)
<1>3. /\ live' = TRUE /\ asked' = "nothing" /\ following' = following
      /\ following = TRUE
  BY <1>0 DEF BatchArrives, Window, TypeOK, Phase
<1>4. /\ first \in Nat /\ gone \in Nat /\ count \in Nat
      /\ received' \in 0 .. MaxRecord /\ received' = first + count
  BY <1>0, <1>1
<1>5. /\ Kept \in Seq(Row) /\ Len(Kept) \in Nat
      /\ gone + Len(Kept) = first
      /\ \A i \in 1 .. Len(Kept) : Kept[i].record = gone + i
  <2>1. CASE asked = "first"
    BY <2>1, EmptySeq DEF Kept
  <2>2. CASE asked # "first"
    <3>1. Len(rows) \in Nat /\ DOMAIN rows = 1 .. Len(rows)
      BY <1>0, LenProperties
    <3> QED BY <1>0, <2>2, <3>1 DEF Kept, Window, NewestRecords
  <2> QED BY <2>1, <2>2
<1>6. /\ batch \in Seq(Row) /\ Len(batch) = count
      /\ \A i \in 1 .. count : batch[i].record = first + i
  <2>1. batch \in [1 .. count -> Row]
    BY DEF Batch
  <2>2. \A i \in 1 .. count : batch[i] \in Row
    BY <2>1
  <2> QED BY <1>4, <2>1, <2>2 DEF Batch
<1> HIDE DEF first, gone
<1>7. /\ combined \in Seq(Row) /\ Len(combined) = Len(Kept) + count
      /\ \A i \in 1 .. Len(Kept) + count :
            combined[i] = IF i <= Len(Kept) THEN Kept[i] ELSE batch[i - Len(Kept)]
  BY <1>5, <1>6, ConcatProperties
<1>8. \A i \in 1 .. Len(combined) : combined[i].record = gone + i
  <2> SUFFICES ASSUME NEW i \in 1 .. Len(combined)
               PROVE  combined[i].record = gone + i
    OBVIOUS
  <2> HIDE DEF combined
  <2>1. CASE i <= Len(Kept)
    BY <1>4, <1>5, <1>7, <2>1
  <2>2. CASE ~(i <= Len(Kept))
    <3>1. i - Len(Kept) \in 1 .. count
      BY <1>4, <1>5, <1>7, <2>2
    <3>2. combined[i].record = first + (i - Len(Kept))
      BY <1>4, <1>5, <1>6, <1>7, <2>2, <3>1
    <3>3. first + (i - Len(Kept)) = gone + i
      <4>1. \A l, g \in Nat : (g + l) + (i - l) = g + i
        BY <3>1
      <4> QED BY <1>4, <1>5, <4>1
    <3> QED BY <3>2, <3>3
  <2> QED BY <2>1, <2>2
<1>9. n \in 0 .. Len(combined)
  BY <1>7, RemovedRange
<1>10. rows' = SubSeq(combined, n + 1, Len(combined))
  BY <1>2
<1>11. evicted' = gone + n
  <2>1. n \in Nat
    BY <1>7, <1>9, LenProperties
  <2>2. evicted' = IF asked = "first" THEN n ELSE evicted + n
    BY <1>2
  <2> HIDE DEF n
  <2> QED BY <2>1, <2>2 DEF gone
<1>12. /\ IF Rebuilds(count, n)
          THEN /\ visible' = All(rows')
               /\ selected' = IF selected >= Len(visible) THEN End(rows')
                              ELSE Position(visible', Keep(n))
          ELSE UNCHANGED <<visible, selected>>
  BY <1>2
<1> HIDE DEF combined, n
<1>13. /\ rows' \in Seq(Row)
       /\ Len(rows') = Len(combined) - n
       /\ \A i \in 1 .. Len(combined) - n : rows'[i] = combined[n + i]
  BY <1>7, <1>9, <1>10, Dropped
<1>14. Len(combined) \in Nat /\ n \in Nat /\ DOMAIN rows' = 1 .. Len(combined) - n
  BY <1>7, <1>9, <1>13, LenProperties
<1>15. Len(combined) = Len(Kept) + count /\ Len(rows') = Len(combined) - n
  BY <1>7, <1>13
<1>16. NewestRecords'
  <2>1. evicted' + Len(rows') = received'
    <3>1. gone + Len(Kept) = first /\ Len(Kept) \in Nat
      BY <1>5
    <3> QED BY <1>4, <1>11, <1>15, <1>14, <3>1
  <2>2. \A i \in DOMAIN rows' : rows'[i].record = evicted' + i
    <3> SUFFICES ASSUME NEW i \in DOMAIN rows' PROVE rows'[i].record = evicted' + i
      OBVIOUS
    <3>1. n + i \in 1 .. Len(combined) /\ rows'[i] = combined[n + i]
      BY <1>9, <1>13, <1>14
    <3>2. combined[n + i].record = gone + (n + i) /\ i \in Nat
      BY <1>8, <1>14, <3>1
    <3> QED BY <1>4, <1>11, <1>14, <3>1, <3>2
  <2> QED BY <2>1, <2>2 DEF NewestRecords
<1>17. DisplayFitsRows' /\ visible' \in Seq(Nat) /\ selected' \in Nat \ {0}
  <2>1. CASE Rebuilds(count, n)
    <3>1. visible' = All(rows')
      BY <1>12, <2>1
    <3>2. visible' \in Seq(Nat) /\ Len(visible') = Len(rows')
      BY <1>13, <3>1, AllProperties
    <3>3. selected' \in {End(rows'), Position(visible', Keep(n))}
      BY <1>12, <2>1
    <3>4. /\ selected' \in Nat \ {0}
          /\ selected' = 1 \/ selected' <= Len(rows')
      BY <1>13, <3>2, <3>3, EndRange, PositionRange
    <3> QED BY <1>13, <3>1, <3>4, AllDisplayed
  <2>2. CASE ~Rebuilds(count, n)
    <3>1. asked # "first" /\ count = 0 /\ n = 0
      BY <1>4, <1>9, <1>14, <2>2 DEF Rebuilds
    <3>2. Kept = rows
      BY <3>1 DEF Kept
    <3>3. DOMAIN rows = 1 .. Len(rows)
      BY <1>0, LenProperties
    <3>4. Len(combined) = Len(rows) /\ DOMAIN rows' = DOMAIN rows
      BY <1>5, <1>7, <1>14, <3>1, <3>2, <3>3
    <3>5. visible' = visible /\ selected' = selected
      BY <1>12, <2>2
    <3> QED BY <3>4, <3>5 DEF Window, TypeOK, DisplayFitsRows
  <2> QED BY <2>1, <2>2
<1>18. evicted' \in Nat
  BY <1>4, <1>11, <1>14
<1> QED BY <1>3, <1>4, <1>13, <1>16, <1>17, <1>18 DEF Window, TypeOK, Phase

LEMMA WindowKept == Spec => []Window
<1>1. Init => Window
  BY WindowInit
<1>2. Window /\ [Next]_vars => Window'
  <2> SUFFICES ASSUME Window, [Next]_vars PROVE Window'
    OBVIOUS
  <2>1. CASE UNCHANGED vars
    BY <2>1 DEF vars, Window, TypeOK, NewestRecords, DisplayFitsRows, Phase
  <2> QED BY <2>1, BrowseKeeps, SelectKeeps, ArrangeKeeps, QuietKeeps, BatchKeeps
          DEF Next
<1> QED BY <1>1, <1>2, PTL DEF Spec

(* Every variable of the live window keeps its type (follow.rs, reindex).  *)
THEOREM WindowTyped == Spec => []TypeOK
BY WindowKept, PTL DEF Window

(* complete_follow never skips or repeats a record in the live window, and *)
(* live_evicted counts exactly what left it.                               *)
THEOREM WindowIsNewest == Spec => []NewestRecords
BY WindowKept, PTL DEF Window

(* View::visible and View::selected never index a row that was evicted or  *)
(* replaced.                                                               *)
THEOREM DisplayExists == Spec => []DisplayFitsRows
BY WindowKept, PTL DEF Window

Size(page) == [i \in DOMAIN page |-> page[i].size]

(* The bytes of a page are the sum of its rows' sizes.                     *)
LEMMA BytesTotal ==
    ASSUME NEW page \in Seq(Row)
    PROVE  Bytes(page) = Total(Size(page), DOMAIN page) /\ Bytes(page) \in Nat
  <1>1. IsFiniteSet(DOMAIN page) /\ DOMAIN page = 1 .. Len(page) /\ Len(page) \in Nat
    <2>1. DOMAIN page = 1 .. Len(page) /\ Len(page) \in Nat
      BY LenProperties
    <2> QED
      BY <2>1, FS_Interval
  <1>2. \A i \in DOMAIN page : page[i] \in Row
    BY <1>1, ElementOfSeq
  <1>3. Weighs(Size(page), DOMAIN page)
    BY <1>2, FollowAssumption DEF Weighs, Size, Row
  <1>4. Bytes(page) = SumFunctionOnSet(Size(page), DOMAIN page)
    BY Zenon DEF Bytes, SumFunction, Size
  <1> QED
    BY <1>1, <1>3, <1>4, SumTotal

LEMMA NoBytes == Len(<<>>) = 0 /\ Bytes(<<>>) = 0
  <1>1. <<>> \in Seq(Row) /\ DOMAIN <<>> = {}
    BY EmptySeq
  <1>2. Total(Size(<<>>), DOMAIN <<>>) = 0
    BY <1>1, TotalOfNone
  <1> QED
    BY <1>1, <1>2, BytesTotal, Zenon

(* A page that fits with its continuation fits without.                    *)
LEMMA FitsAlone ==
    ASSUME NEW page \in Seq(Row), NEW cursor \in CursorSize, Fits(page, cursor)
    PROVE  Fits(page, 0) /\ cursor <= PageBytes
  <1>1. cursor \in Nat /\ PageBytes \in Nat /\ Bytes(page) \in Nat
    BY BytesTotal, FollowAssumption
  <1>2. cursor + Bytes(page) <= PageBytes /\ Len(page) <= PageRows
    BY DEF Fits
  <1> HIDE DEF Bytes
  <1>3. 0 + Bytes(page) <= PageBytes /\ cursor <= PageBytes
    BY <1>1, <1>2
  <1> QED
    BY <1>2, <1>3 DEF Fits

(* Rows are removed until the page fits, and not longer.                   *)
LEMMA RemovedFits ==
    ASSUME NEW page \in Seq(Row), NEW cursor \in CursorSize, NEW k \in 0 .. Len(page),
           Fits(SubSeq(page, k + 1, Len(page)), cursor)
    PROVE  LET n == Removed(page, cursor) IN
           n <= k /\ Fits(SubSeq(page, n + 1, Len(page)), cursor)
  <1> DEFINE fits(m) == Fits(SubSeq(page, m + 1, Len(page)), cursor)
             B == {m \in 0 .. Len(page) : fits(m)}
             S == {m \in 0 .. Len(page) - 1 : \A j \in 0 .. m : ~fits(j)}
  <1>1. Len(page) \in Nat
    BY LenProperties
  <1>2. PICK n \in B : \A m \in B : n <= m
    <2>1. k \in B /\ B \in SUBSET Nat
      BY <1>1
    <2> HIDE DEF B
    <2> QED
      BY <2>1, LeastOf
  <1>3. n \in 0 .. Len(page) /\ fits(n) /\ n <= k
    BY <1>2
  <1>4. \A m \in 0 .. Len(page) : fits(m) => n <= m
    BY <1>2
  <1> HIDE DEF fits
  <1>5. S = 0 .. n - 1
    <2>1. ASSUME NEW m \in S PROVE m \in 0 .. n - 1
      <3>1. m \in 0 .. Len(page) - 1 /\ \A j \in 0 .. m : ~fits(j)
        BY <2>1
      <3>2. ~(n \in 0 .. m)
        BY <1>3, <3>1
      <3> QED
        BY <1>1, <1>3, <3>1, <3>2
    <2>2. ASSUME NEW m \in 0 .. n - 1 PROVE m \in S
      <3>1. m \in 0 .. Len(page) - 1
        BY <1>1, <1>3
      <3>2. ASSUME NEW j \in 0 .. m PROVE ~fits(j)
        <4>1. j \in 0 .. Len(page) /\ ~(n <= j)
          BY <1>1, <1>3
        <4> QED
          BY <1>4, <4>1
      <3> QED
        BY <3>1, <3>2
    <2> QED
      BY <2>1, <2>2
  <1>6. Cardinality(0 .. n - 1) = n
    <2>1. n \in Nat
      BY <1>1, <1>3
    <2>2. 0 \in Int /\ n - 1 \in Int
      BY <2>1
    <2>3. Cardinality(0 .. n - 1) = IF 0 > n - 1 THEN 0 ELSE n - 1 - 0 + 1
      BY <2>2, FS_Interval
    <2> QED
      BY <2>1, <2>3
  <1>7. Removed(page, cursor) = Cardinality(S)
    BY DEF Removed, fits
  <1>8. Removed(page, cursor) = n
    BY <1>5, <1>6, <1>7
  <1> QED
    BY <1>3, <1>8 DEF fits

(* What one step keeps: the limits, and the record under the selection.    *)
Slides ==
    /\ Fits(rows', 0)
    /\ asked = "more" /\ received' > received =>
          IF selected >= Len(visible)
          THEN selected' = Len(rows')
          ELSE LET record == rows[visible[selected]].record IN
               IF record > evicted'
               THEN rows'[visible'[selected']].record = record
               ELSE selected' = 1

(* The row that was under the selection has moved up by n, or it is gone.  *)
LEMMA RowKept ==
    ASSUME NEW page \in Seq(Row), NEW v \in Nat, NEW n \in Nat, SelectedRow = {v},
           v - n <= Len(page)
    PROVE  IF v > n THEN Position(All(page), Keep(n)) = v - n
           ELSE Position(All(page), Keep(n)) = 1
  <1>1. Keep(n) = {v - n}
    BY DEF Keep
  <1>2. /\ DOMAIN All(page) = 1 .. Len(page) /\ Len(page) \in Nat
        /\ \A i \in 1 .. Len(page) : All(page)[i] = i
    BY AllProperties, LenProperties DEF All
  <1> HIDE DEF All
  <1>3. CASE v > n
    <2>1. v - n \in DOMAIN All(page) /\ All(page)[v - n] = v - n
      BY <1>2, <1>3
    <2>2. \A i \in DOMAIN All(page) : All(page)[i] \in Keep(n) <=> i = v - n
      BY <1>1, <1>2, <2>1
    <2> QED
      BY <1>3, <2>1, <2>2 DEF Position
  <1>4. CASE ~(v > n)
    <2>1. \A i \in DOMAIN All(page) : All(page)[i] \notin Keep(n)
      BY <1>1, <1>2, <1>4
    <2> QED
      BY <1>4, <2>1 DEF Position
  <1> QED
    BY <1>3, <1>4

LEMMA BatchSlides == ASSUME Window, BatchArrives PROVE Slides
<1> DEFINE first == IF asked = "first" THEN 0 ELSE received
<1>0. /\ asked # "nothing" /\ following = TRUE
      /\ rows \in Seq(Row) /\ received \in 0 .. MaxRecord /\ evicted \in Nat
      /\ MaxRecord \in Nat /\ PageRows \in Nat
      /\ asked # "first" => live
  BY FollowAssumption DEF BatchArrives, Window, TypeOK, Phase
<1>1. PICK count \in 0 .. PageRows, cursor \in CursorSize :
      /\ first + count <= MaxRecord
      /\ \E batch \in Batch(first, count) :
            /\ Fits(batch, cursor)
            /\ LET combined == Kept \o batch
                   n == Removed(combined, cursor)
               IN  /\ rows' = SubSeq(combined, n + 1, Len(combined))
                   /\ evicted' = IF asked = "first" THEN n ELSE evicted + n
                   /\ IF Rebuilds(count, n)
                      THEN /\ visible' = All(rows')
                           /\ selected' = IF selected >= Len(visible) THEN End(rows')
                                          ELSE Position(visible', Keep(n))
                      ELSE UNCHANGED <<visible, selected>>
      /\ received' = first + count
  BY DEF BatchArrives
<1>2. PICK batch \in Batch(first, count) :
            /\ Fits(batch, cursor)
            /\ LET combined == Kept \o batch
                   n == Removed(combined, cursor)
               IN  /\ rows' = SubSeq(combined, n + 1, Len(combined))
                   /\ evicted' = IF asked = "first" THEN n ELSE evicted + n
                   /\ IF Rebuilds(count, n)
                      THEN /\ visible' = All(rows')
                           /\ selected' = IF selected >= Len(visible) THEN End(rows')
                                          ELSE Position(visible', Keep(n))
                      ELSE UNCHANGED <<visible, selected>>
  BY <1>1
<1> DEFINE combined == Kept \o batch
           n == Removed(combined, cursor)
<1>3. /\ first \in Nat /\ count \in Nat /\ received' = first + count
  BY <1>0, <1>1
<1>4. Kept \in Seq(Row) /\ Len(Kept) \in Nat
  BY <1>0, EmptySeq, LenProperties DEF Kept
<1>5. batch \in Seq(Row) /\ Len(batch) = count
  <2>1. batch \in [1 .. count -> Row]
    BY DEF Batch
  <2>2. \A i \in 1 .. count : batch[i] \in Row
    BY <2>1
  <2> QED BY <1>3, <2>1, <2>2
<1> HIDE DEF first
<1>6. /\ combined \in Seq(Row) /\ Len(combined) = Len(Kept) + count
      /\ Len(combined) \in Nat
      /\ SubSeq(combined, Len(Kept) + 1, Len(combined)) = batch
  <2>1. /\ combined \in Seq(Row) /\ Len(combined) = Len(Kept) + Len(batch)
        /\ \A i \in 1 .. Len(Kept) + Len(batch) :
              combined[i] = IF i <= Len(Kept) THEN Kept[i] ELSE batch[i - Len(Kept)]
    BY <1>4, <1>5, ConcatProperties
  <2> DEFINE rest == SubSeq(combined, Len(Kept) + 1, Len(combined))
  <2>2. Len(Kept) \in 0 .. Len(combined) /\ Len(combined) \in Nat
    BY <1>3, <1>4, <1>5, <2>1
  <2>3. /\ rest \in Seq(Row) /\ Len(rest) = Len(combined) - Len(Kept)
        /\ \A i \in 1 .. Len(combined) - Len(Kept) : rest[i] = combined[Len(Kept) + i]
    BY <2>1, <2>2, Dropped
  <2> HIDE DEF rest, combined
  <2>4. Len(rest) = Len(batch) /\ Len(batch) \in Nat
    BY <1>3, <1>4, <1>5, <2>1, <2>3
  <2>5. \A i \in 1 .. Len(rest) : rest[i] = batch[i]
    <3> SUFFICES ASSUME NEW i \in 1 .. Len(batch) PROVE rest[i] = batch[i]
      BY <2>4
    <3>1. i \in 1 .. Len(combined) - Len(Kept) /\ Len(Kept) + i \in 1 .. Len(Kept) + Len(batch)
      BY <1>3, <1>4, <1>5, <2>1, <2>4
    <3>2. (Len(Kept) + i) - Len(Kept) = i /\ ~(Len(Kept) + i <= Len(Kept))
      BY <1>4, <2>4
    <3> QED
      BY <2>1, <2>3, <3>1, <3>2
  <2>6. rest = batch
    BY <1>5, <2>3, <2>4, <2>5, SeqEqual
  <2> QED
    BY <1>5, <2>1, <2>2, <2>6 DEF rest
<1>7. n \in 0 .. Len(combined) /\ n <= Len(Kept) /\ Fits(SubSeq(combined, n + 1, Len(combined)), cursor)
  <2>1. Len(Kept) \in 0 .. Len(combined)
    BY <1>3, <1>4, <1>6
  <2>2. Fits(SubSeq(combined, Len(Kept) + 1, Len(combined)), cursor)
    BY <1>2, <1>6
  <2>3. combined \in Seq(Row)
    BY <1>6
  <2> HIDE DEF combined
  <2> QED
    BY <2>1, <2>2, <2>3, RemovedFits, RemovedRange
<1>8. rows' = SubSeq(combined, n + 1, Len(combined))
  BY <1>2
<1>9. /\ IF Rebuilds(count, n)
         THEN /\ visible' = All(rows')
              /\ selected' = IF selected >= Len(visible) THEN End(rows')
                             ELSE Position(visible', Keep(n))
         ELSE UNCHANGED <<visible, selected>>
      /\ evicted' = IF asked = "first" THEN n ELSE evicted + n
  BY <1>2
<1> HIDE DEF combined, n
<1>10. rows' \in Seq(Row) /\ Len(rows') = Len(combined) - n
  BY <1>6, <1>7, <1>8, Dropped
<1>11. Fits(rows', 0)
  BY <1>7, <1>8, <1>10, FitsAlone
<1>12. ASSUME asked = "more", received' > received
       PROVE  IF selected >= Len(visible)
              THEN selected' = Len(rows')
              ELSE LET record == rows[visible[selected]].record IN
                   IF record > evicted'
                   THEN rows'[visible'[selected']].record = record
                   ELSE selected' = 1
  <2>1. count > 0 /\ Kept = rows /\ evicted' = evicted + n /\ n \in Nat
    BY <1>0, <1>3, <1>6, <1>7, <1>9, <1>12 DEF first, Kept
  <2>2. visible' = All(rows') /\ Len(rows') > 0 /\ Len(rows') \in Nat
    <3>1. Rebuilds(count, n)
      BY <2>1 DEF Rebuilds
    <3>2. visible' = All(rows')
      BY <1>9, <3>1
    <3>3. Len(rows') > 0 /\ Len(rows') \in Nat
      BY <1>3, <1>4, <1>6, <1>7, <1>10, <2>1
    <3> QED
      BY <3>2, <3>3
  <2>3. selected' = IF selected >= Len(visible) THEN End(rows') ELSE Position(visible', Keep(n))
    BY <1>9, <2>1 DEF Rebuilds
  <2>4. CASE selected >= Len(visible)
    BY <1>10, <2>2, <2>3, <2>4, EmptySeq DEF End
  <2>5. CASE ~(selected >= Len(visible))
    <3> DEFINE v == visible[selected]
    <3>1. selected \in 1 .. Len(visible) /\ DOMAIN visible = 1 .. Len(visible)
      <4>1. selected \in Nat \ {0} /\ Len(visible) \in Nat /\ DOMAIN visible = 1 .. Len(visible)
        BY LenProperties DEF Window, TypeOK
      <4> QED
        BY <2>5, <4>1
    <3>2. v \in 1 .. Len(rows) /\ SelectedRow = {v} /\ v \in Nat /\ Len(rows) \in Nat
      <4>1. DOMAIN rows = 1 .. Len(rows) /\ Len(rows) \in Nat
        BY <1>0, LenProperties
      <4>2. v \in 1 .. Len(rows)
        BY <3>1, <4>1 DEF Window, DisplayFitsRows
      <4>3. SelectedRow = {v}
        BY <3>1 DEF SelectedRow
      <4> QED
        BY <4>1, <4>2, <4>3
    <3>3. rows[v].record = evicted + v
      <4>1. DOMAIN rows = 1 .. Len(rows)
        BY <1>0, LenProperties
      <4> QED
        BY <1>0, <1>12, <3>2, <4>1 DEF Window, NewestRecords
    <3> HIDE DEF v
    <3>4. v - n <= Len(rows') /\ Len(rows') = Len(rows) + count - n
      BY <1>3, <1>6, <1>10, <2>1, <3>2
    <3>5. IF v > n THEN Position(All(rows'), Keep(n)) = v - n
          ELSE Position(All(rows'), Keep(n)) = 1
      BY <1>10, <2>1, <3>2, <3>4, RowKept
    <3>6. rows[v].record > evicted' <=> v > n
      BY <1>0, <2>1, <3>2, <3>3
    <3>7. CASE v > n
      <4>1. selected' = v - n /\ v - n \in 1 .. Len(rows')
        BY <2>1, <2>2, <2>3, <2>5, <3>2, <3>4, <3>5, <3>7
      <4>2. visible'[selected'] = v - n
        BY <1>10, <2>2, <4>1, AllProperties
      <4>3. rows'[v - n].record = evicted' + (v - n)
        <5>1. DOMAIN rows' = 1 .. Len(rows')
          BY <1>10, LenProperties
        <5>2. live' = TRUE /\ NewestRecords'
          BY BatchKeeps DEF Window, BatchArrives
        <5> QED
          BY <4>1, <5>1, <5>2 DEF NewestRecords
      <4>4. evicted' + (v - n) = rows[v].record
        BY <1>0, <2>1, <3>2, <3>3
      <4> QED
        BY <2>5, <3>6, <3>7, <4>2, <4>3, <4>4 DEF v
    <3>8. CASE ~(v > n)
      <4>1. selected' = 1
        BY <2>2, <2>3, <2>5, <3>5, <3>8
      <4> QED
        BY <2>5, <3>6, <3>8, <4>1 DEF v
    <3> QED
      BY <3>7, <3>8
  <2> QED
    BY <2>4, <2>5
<1> QED
  BY <1>11, <1>12 DEF Slides

LEMMA WindowSlidesStep ==
    ASSUME Window, Fits(rows, 0), [Next]_vars PROVE Slides
  <1>1. received \in Nat
    BY FollowAssumption DEF Window, TypeOK
  <1>2. CASE UNCHANGED vars
    BY <1>1, <1>2 DEF vars, Slides
  <1>3. CASE Browse
    <2>1. PICK count \in 0 .. PageRows :
            \E page \in [1 .. count -> [record : {0}, size : RowSize]] :
                Fits(page, 0) /\ rows' = page
      BY <1>3 DEF Browse
    <2>2. Fits(rows', 0) /\ received' = 0
      BY <1>3, <2>1 DEF Browse
    <2> QED
      BY <1>1, <2>2 DEF Slides
  <1>4. CASE Select \/ Arrange \/ Start \/ Tick \/ Stop \/ BatchFails
    <2>1. rows' = rows /\ received' = received
      BY <1>4 DEF Select, Arrange, Start, Tick, Stop, BatchFails
    <2> QED
      BY <1>1, <2>1 DEF Slides
  <1>5. CASE BatchArrives
    BY <1>5, BatchSlides
  <1> QED
    BY <1>2, <1>3, <1>4, <1>5 DEF Next

(* complete_follow keeps the limits of the page, and the selection stays   *)
(* on its record while others are evicted before it, or at the end.        *)
THEOREM WindowSlidesOn == Spec => WindowSlides
  <1>1. Init => Fits(rows, 0)
    <2> SUFFICES ASSUME Init PROVE Fits(rows, 0)
      OBVIOUS
    <2>1. Bytes(rows) = 0 /\ Len(rows) = 0
      BY NoBytes DEF Init
    <2>2. PageRows \in Nat /\ PageBytes \in Nat
      BY FollowAssumption
    <2> HIDE DEF Bytes
    <2>3. 0 + Bytes(rows) <= PageBytes
      BY <2>1, <2>2
    <2> QED
      BY <2>1, <2>2, <2>3 DEF Fits
  <1>2. Window /\ Fits(rows, 0) /\ [Next]_vars => Slides /\ Fits(rows, 0)'
    <2>1. ASSUME Window, Fits(rows, 0), [Next]_vars PROVE Slides
      BY <2>1, WindowSlidesStep
    <2>2. Fits(rows', 0) => Fits(rows, 0)'
      BY Zenon DEF Fits, Bytes, SumFunction
    <2> QED
      BY <2>1, <2>2 DEF Slides
  <1>3. Spec => [][Slides]_vars
    BY <1>1, <1>2, WindowKept, PTL DEF Spec
  <1> QED
    BY <1>3 DEF WindowSlides, Slides

-----------------------------------------------------------------------------
(* The modes of the terminal *)

Entered == {"initialized", "hooked", "enhanced", "pushed"}

ScreenState ==
    [step : Entered \union {"guarded", "running", "unwinding", "ended"},
     terminal : [alternate : BOOLEAN, raw : BOOLEAN, paste : BOOLEAN, main : {1}, flags : {0, 1}],
     hooked : BOOLEAN, enhanced : BOOLEAN]

(* The flags are pushed on the alternate screen, and popped once, by who   *)
(* comes first; the hook is there before they are.                         *)
ScreenPhase(s) ==
    /\ s \in ScreenState
    /\ s.step \in Entered => s.terminal.alternate
    /\ s.step \in {"enhanced", "pushed"} => s.enhanced
    /\ s.step \in {"hooked", "running"} => s.hooked
    /\ s.enhanced => /\ s.terminal.alternate /\ s.hooked
                     /\ s.step \in {"enhanced", "pushed", "running"}
    /\ s.terminal.flags = IF s.enhanced /\ s.step # "enhanced" THEN 1 ELSE 0
    /\ s.step = "ended" => s.terminal = ScreenModes!Restored

(* None of the program's flags are left and none of its caller's popped.   *)
LEMMA ModesRestored ==
    ASSUME NEW s, ScreenPhase(s)
    PROVE  LET r == ScreenModes!RestoreInputModes(s) IN
           /\ r \in ScreenState /\ r.step = s.step /\ (r.hooked <=> s.hooked) /\ ~r.enhanced
           /\ r.terminal.flags = 0 /\ ~r.terminal.paste
  <1> DEFINE Modes == [alternate : BOOLEAN, raw : BOOLEAN, paste : BOOLEAN, main : {1}, flags : {0}]
             t == IF s.enhanced THEN ScreenModes!Pop(s.terminal) ELSE s.terminal
             w == [t EXCEPT !.paste = FALSE]
             r == ScreenModes!RestoreInputModes(s)
  <1>1. t \in Modes
    <2>1. CASE s.enhanced
      <3>1. ScreenModes!Pop(s.terminal)
              = [s.terminal EXCEPT !.flags = IF @ = 0 THEN 0 ELSE @ - 1]
        BY <2>1 DEF ScreenModes!Pop, ScreenPhase
      <3> QED
        BY <2>1, <3>1 DEF ScreenPhase, ScreenState
    <2>2. CASE ~s.enhanced
      BY <2>2 DEF ScreenPhase, ScreenState
    <2> QED
      BY <2>1, <2>2
  <1>2. r = [s EXCEPT !.enhanced = FALSE, !.terminal = w]
    BY DEF ScreenModes!RestoreInputModes, ScreenPhase, ScreenState
  <1> HIDE DEF t, r
  <1>3. w \in Modes /\ ~w.paste
    BY <1>1
  <1> HIDE DEF w
  <1>4. r \in ScreenState /\ r.step = s.step /\ (r.hooked <=> s.hooked) /\ ~r.enhanced
        /\ r.terminal = w
    BY <1>2, <1>3 DEF ScreenPhase, ScreenState
  <1> QED
    BY <1>3, <1>4 DEF r

(* Leaving the alternate screen is the rest of it.                         *)
LEMMA ScreenLeft ==
    ASSUME NEW s \in ScreenState
    PROVE  LET l == ScreenModes!Leave(s) IN
           /\ l \in ScreenState /\ l.step = s.step /\ (l.hooked <=> s.hooked)
           /\ (l.enhanced <=> s.enhanced)
           /\ ~l.terminal.alternate /\ ~l.terminal.raw
           /\ l.terminal.flags = s.terminal.flags
           /\ (l.terminal.paste <=> s.terminal.paste)
  <1> DEFINE t == [s.terminal EXCEPT !.alternate = FALSE, !.raw = FALSE]
             l == ScreenModes!Leave(s)
  <1>1. t \in [alternate : BOOLEAN, raw : BOOLEAN, paste : BOOLEAN, main : {1}, flags : {0, 1}]
        /\ ~t.alternate /\ ~t.raw /\ t.flags = s.terminal.flags
        /\ (t.paste <=> s.terminal.paste)
    BY DEF ScreenState
  <1>2. l = [s EXCEPT !.terminal = t]
    BY DEF ScreenModes!Leave
  <1> HIDE DEF t, l
  <1>3. l \in ScreenState /\ l.step = s.step /\ (l.hooked <=> s.hooked)
        /\ (l.enhanced <=> s.enhanced) /\ l.terminal = t
    BY <1>1, <1>2 DEF ScreenState
  <1> QED
    BY <1>1, <1>3 DEF l

(* A terminal without the program's modes is the one that was found.       *)
LEMMA NothingElse ==
    ASSUME NEW t \in [alternate : BOOLEAN, raw : BOOLEAN, paste : BOOLEAN, main : {1},
                      flags : {0, 1}],
           ~t.alternate, ~t.raw, ~t.paste, t.flags = 0
    PROVE  t = ScreenModes!Restored
  <1>1. t = [alternate |-> t.alternate, raw |-> t.raw, paste |-> t.paste, main |-> t.main,
             flags |-> t.flags]
    OBVIOUS
  <1>2. t.alternate = FALSE /\ t.raw = FALSE /\ t.paste = FALSE /\ t.main = 1 /\ t.flags = 0
    OBVIOUS
  <1> QED
    BY <1>1, <1>2 DEF ScreenModes!Restored

(* The guard leaves the terminal as it was found, wherever it is dropped.  *)
LEMMA GuardRestores ==
    ASSUME NEW s, ScreenPhase(s)
    PROVE  ScreenPhase(ScreenModes!Drop(s))
  <1> DEFINE r == ScreenModes!RestoreInputModes(s)
             l == ScreenModes!Leave(r)
             d == [l EXCEPT !.step = "ended"]
  <1>1. r \in ScreenState /\ ~r.enhanced /\ r.terminal.flags = 0 /\ ~r.terminal.paste
    BY ModesRestored
  <1> HIDE DEF r
  <1>2. l \in ScreenState /\ ~l.enhanced /\ ~l.terminal.alternate /\ ~l.terminal.raw
        /\ l.terminal.flags = 0 /\ ~l.terminal.paste
    BY <1>1, ScreenLeft
  <1> HIDE DEF l
  <1>3. d \in ScreenState /\ ~d.enhanced /\ d.terminal = l.terminal /\ d.step = "ended"
    BY <1>2 DEF ScreenState
  <1> HIDE DEF d
  <1>4. d.terminal = ScreenModes!Restored
    BY <1>2, <1>3, NothingElse DEF ScreenState
  <1>5. ScreenPhase(d)
    BY <1>2, <1>3, <1>4 DEF ScreenPhase, Entered
  <1> QED
    BY <1>5 DEF d, l, r, ScreenModes!Drop

(* The hook pops nothing that is not pushed, and nothing twice.            *)
LEMMA HookRestores ==
    ASSUME NEW s, ScreenPhase(s)
    PROVE  LET h == ScreenModes!Hook(s) IN
           /\ h \in ScreenState /\ h.step = s.step /\ (h.hooked <=> s.hooked)
           /\ ~h.enhanced /\ h.terminal.flags = 0
  <1>1. CASE s.hooked
    <2> DEFINE r == ScreenModes!RestoreInputModes(s)
    <2>1. r \in ScreenState /\ r.step = s.step /\ (r.hooked <=> s.hooked) /\ ~r.enhanced
          /\ r.terminal.flags = 0
      BY ModesRestored
    <2> HIDE DEF r
    <2>2. LET h == ScreenModes!Leave(r) IN
          /\ h \in ScreenState /\ h.step = s.step /\ (h.hooked <=> s.hooked)
          /\ ~h.enhanced /\ h.terminal.flags = 0
      BY <2>1, ScreenLeft
    <2> QED
      BY <1>1, <2>2 DEF r, ScreenModes!Hook
  <1>2. CASE ~s.hooked
    <2>1. s \in ScreenState /\ ~s.enhanced /\ s.terminal.flags = 0
      BY <1>2 DEF ScreenPhase
    <2>2. LET h == ScreenModes!Leave(s) IN
          /\ h \in ScreenState /\ h.step = s.step /\ (h.hooked <=> s.hooked)
          /\ ~h.enhanced /\ h.terminal.flags = 0
      BY <2>1, ScreenLeft
    <2> QED
      BY <1>2, <2>2 DEF ScreenModes!Hook
  <1> QED
    BY <1>1, <1>2

(* One step changes the mode at a time.                                    *)
LEMMA ScreenStep ==
    ASSUME ScreenPhase(scr), ScreenModes!Next
    PROVE  ScreenPhase(scr')
  <1> DEFINE Modes == [alternate : BOOLEAN, raw : BOOLEAN, paste : BOOLEAN, main : {1},
                       flags : {0, 1}]
  <1>1. CASE ScreenModes!InitTerminal
    <2> DEFINE Entering(raw, alternate) ==
                 [scr EXCEPT !.terminal.raw = raw, !.terminal.alternate = alternate]
    <2>1. \E raw, alternate \in BOOLEAN :
             LET state == Entering(raw, alternate) IN
             scr' = IF raw /\ alternate THEN [state EXCEPT !.step = "initialized"]
                    ELSE ScreenModes!Drop(state)
      BY <1>1, Zenon DEF ScreenModes!InitTerminal
    <2>2. PICK raw \in BOOLEAN, alternate \in BOOLEAN :
             scr' = IF raw /\ alternate
                    THEN [Entering(raw, alternate) EXCEPT !.step = "initialized"]
                    ELSE ScreenModes!Drop(Entering(raw, alternate))
      BY <2>1, Zenon
    <2> DEFINE t == [scr.terminal EXCEPT !.raw = raw, !.alternate = alternate]
               s == Entering(raw, alternate)
    <2>3. t \in Modes /\ (t.alternate <=> alternate) /\ t.flags = 0
          /\ scr.step = "guarded" /\ ~scr.enhanced
      BY <1>1 DEF ScreenModes!InitTerminal, ScreenPhase, ScreenState, Entered
    <2>4. s = [scr EXCEPT !.terminal = t]
      BY DEF ScreenPhase, ScreenState
    <2> HIDE DEF t, Entering
    <2>5. s \in ScreenState /\ s.step = "guarded" /\ ~s.enhanced /\ s.terminal = t
      BY <2>3, <2>4 DEF ScreenPhase, ScreenState
    <2> HIDE DEF s
    <2>6. CASE raw /\ alternate
      <3>1. scr' = [s EXCEPT !.step = "initialized"]
        BY <2>2, <2>6 DEF s
      <3>2. scr' \in ScreenState /\ scr'.step = "initialized" /\ ~scr'.enhanced
            /\ scr'.terminal = t
        BY <2>5, <3>1 DEF ScreenState, Entered
      <3> QED
        BY <2>3, <2>6, <3>2 DEF ScreenPhase, Entered
    <2>7. CASE ~(raw /\ alternate)
      <3>1. scr' = ScreenModes!Drop(s)
        BY <2>2, <2>7 DEF s
      <3>2. ScreenPhase(s)
        BY <2>3, <2>5 DEF ScreenPhase, Entered
      <3> QED
        BY <3>1, <3>2, GuardRestores
    <2> QED
      BY <2>6, <2>7
  <1>2. CASE ScreenModes!SetHook
    BY <1>2 DEF ScreenModes!SetHook, ScreenPhase, ScreenState, Entered
  <1>3. CASE ScreenModes!StoreEnhanced
    BY <1>3 DEF ScreenModes!StoreEnhanced, ScreenPhase, ScreenState, Entered
  <1>4. CASE ScreenModes!PushKeys
    <2> DEFINE t == [scr.terminal EXCEPT !.flags = @ + 1]
    <2>1. scr.step = "enhanced" /\ scr.terminal \in Modes /\ scr.terminal.flags = 0
          /\ scr.terminal.alternate /\ scr.enhanced /\ scr.hooked
      BY <1>4 DEF ScreenModes!PushKeys, ScreenPhase, ScreenState, Entered
    <2>2. t \in Modes /\ t.flags = 1 /\ t.alternate
      BY <2>1
    <2>3. scr' = [scr EXCEPT !.step = "pushed", !.terminal = t]
      BY <1>4 DEF ScreenModes!PushKeys, ScreenPhase, ScreenState
    <2> HIDE DEF t
    <2> QED
      BY <2>1, <2>2, <2>3 DEF ScreenPhase, ScreenState, Entered
  <1>5. CASE ScreenModes!EnablePaste
    <2> DEFINE t == [scr.terminal EXCEPT !.paste = TRUE]
    <2>1. scr.step = "pushed" /\ scr.terminal \in Modes /\ scr.terminal.flags = 1
          /\ scr.terminal.alternate /\ scr.enhanced /\ scr.hooked
      BY <1>5 DEF ScreenModes!EnablePaste, ScreenPhase, ScreenState, Entered
    <2>2. t \in Modes /\ t.flags = 1 /\ t.alternate
      BY <2>1
    <2>3. scr' = [scr EXCEPT !.step = "running", !.terminal = t]
      BY <1>5 DEF ScreenModes!EnablePaste, ScreenPhase, ScreenState
    <2> HIDE DEF t
    <2> QED
      BY <2>1, <2>2, <2>3 DEF ScreenPhase, ScreenState, Entered
  <1>6. CASE ScreenModes!Fail \/ ScreenModes!Exit \/ ScreenModes!Unwind
    BY <1>6, GuardRestores DEF ScreenModes!Fail, ScreenModes!Exit, ScreenModes!Unwind
  <1>7. CASE ScreenModes!Panic \/ ScreenModes!WorkerPanics
    <2> DEFINE h == ScreenModes!Hook(scr)
    <2>1. h \in ScreenState /\ h.step = scr.step /\ (h.hooked <=> scr.hooked) /\ ~h.enhanced
          /\ h.terminal.flags = 0
      BY HookRestores
    <2>2. \/ scr' = [h EXCEPT !.step = "unwinding"]
          \/ scr.step = "running" /\ scr' = h
      BY <1>7 DEF ScreenModes!Panic, ScreenModes!WorkerPanics
    <2> HIDE DEF h
    <2> QED
      BY <2>1, <2>2 DEF ScreenPhase, ScreenState, Entered
  <1>8. CASE ScreenModes!Done
    BY <1>8 DEF ScreenModes!Done
  <1> QED
    BY <1>1, <1>2, <1>3, <1>4, <1>5, <1>6, <1>7, <1>8 DEF ScreenModes!Next

LEMMA ScreenStart == ScreenModes!Init => ScreenPhase(scr)
  BY DEF ScreenModes!Init, ScreenPhase, ScreenState, Entered, ScreenModes!Restored

-----------------------------------------------------------------------------
(* The configuration file *)

Loads(t) == Configuration!Fits(t) /\ Configuration!Parses(t)

(* A process knows a text that loads, and shows its connections; what it   *)
(* adds makes a text that loads; it is only sure of the file that is there.*)
FiledBy(me, file) ==
    /\ me.pc # "off" =>
          /\ Loads(Configuration!TextOf(me.original))
          /\ me.connections = Configuration!TextOf(me.original).names
    /\ \/ me.adding = {}
       \/ \E a \in Alias :
             /\ me.adding = {a}
             /\ Loads(Configuration!Appended(Configuration!TextOf(me.original), a))
    /\ me.pc \in {"compare", "write", "again", "rename"} => me.adding # {}
    /\ me.sure => file = me.original

Filed(c) ==
    /\ c \in Configuration!Conf
    /\ c.lost = {}
    /\ \A p \in Process : FiledBy(c.proc[p], c.file)

(* A file has a text, and so has one that is missing.                      *)
LEMMA FileHasText ==
    ASSUME NEW file \in SUBSET Configuration!Text
    PROVE  Configuration!TextOf(file) \in Configuration!Text
  <1>1. CASE file = {}
    BY <1>1 DEF Configuration!TextOf, Configuration!Empty, Configuration!Text
  <1>2. CASE file # {}
    <2>1. (CHOOSE t \in file : TRUE) \in file
      BY <1>2
    <2> QED
      BY <1>2, <2>1 DEF Configuration!TextOf
  <1> QED
    BY <1>1, <1>2

(* Appending keeps every connection.                                       *)
LEMMA AppendKeeps ==
    ASSUME NEW t \in Configuration!Text, NEW a \in Alias
    PROVE  LET u == Configuration!Appended(t, a) IN
           u \in Configuration!Text /\ t.names \subseteq u.names
  BY DEF Configuration!Appended, Configuration!Text

(* A step of one process leaves the others and the file alone.             *)
LEMMA ProcessFiled ==
    ASSUME NEW c, Filed(c), NEW p \in Process, NEW me \in Configuration!Proc,
           FiledBy(me, c.file)
    PROVE  Filed([c EXCEPT !.proc[p] = me])
  <1> DEFINE procs == [c.proc EXCEPT ![p] = me]
             d == [c EXCEPT !.proc = procs]
  <1>1. procs \in [Process -> Configuration!Proc]
        /\ \A q \in Process : procs[q] = IF q = p THEN me ELSE c.proc[q]
    BY DEF Filed, Configuration!Conf
  <1>2. d = [c EXCEPT !.proc[p] = me]
    BY DEF Filed, Configuration!Conf
  <1> HIDE DEF procs
  <1>3. d \in Configuration!Conf /\ d.proc = procs /\ d.file = c.file /\ d.lost = c.lost
    BY <1>1 DEF Filed, Configuration!Conf
  <1> HIDE DEF d
  <1>4. Filed(d)
    <2>1. ASSUME NEW q \in Process PROVE FiledBy(d.proc[q], d.file)
      <3>1. CASE q = p
        BY <1>1, <1>3, <3>1
      <3>2. CASE q # p
        BY <1>1, <1>3, <3>2 DEF Filed
      <3> QED
        BY <3>1, <3>2
    <2> QED
      BY <1>3, <2>1 DEF Filed
  <1> QED
    BY <1>2, <1>4

(* What a process is, as far as its steps need it.                         *)
LEMMA ProcessKnown ==
    ASSUME Filed(conf), NEW p \in Process
    PROVE  /\ conf.proc[p] \in Configuration!Proc
           /\ FiledBy(conf.proc[p], conf.file)
           /\ conf.file \in SUBSET Configuration!Text
  BY DEF Filed, Configuration!Conf

(* A process reads a file that loads.                                      *)
LEMMA StartFiled ==
    ASSUME Filed(conf), NEW p \in Process, NEW allowMissing \in BOOLEAN,
           Configuration!Start(p, allowMissing)
    PROVE  Filed(conf')
  <1> DEFINE text == Configuration!TextOf(conf.file)
             me == [Configuration!Off EXCEPT !.pc = "ready", !.original = conf.file,
                                             !.connections = text.names]
  <1>1. text \in Configuration!Text /\ Loads(text)
    BY FileHasText, ProcessKnown
    DEF Configuration!Start, Configuration!Readable, Loads
  <1> HIDE DEF text
  <1>2. me \in Configuration!Proc /\ me.pc = "ready" /\ me.original = conf.file
        /\ me.connections = text.names /\ me.adding = {} /\ me.sure = FALSE
    BY <1>1, ProcessKnown DEF Configuration!Off, Configuration!Proc, Configuration!Text
  <1>3. conf' = [conf EXCEPT !.proc[p] = me]
    BY DEF Configuration!Start, text
  <1> HIDE DEF me
  <1>4. FiledBy(me, conf.file)
    BY <1>1, <1>2 DEF FiledBy, text
  <1> QED
    BY <1>2, <1>3, <1>4, ProcessFiled

(* A connection is added to a text that still loads with it.               *)
LEMMA AddFiled ==
    ASSUME Filed(conf), NEW p \in Process, NEW alias \in Alias, Configuration!Add(p, alias)
    PROVE  Filed(conf')
  <1> DEFINE me == conf.proc[p]
             text == Configuration!Appended(Configuration!TextOf(me.original), alias)
             adds == [me EXCEPT !.pc = "compare", !.adding = {alias}, !.error = FALSE]
             fails == [me EXCEPT !.error = TRUE]
             free == alias \notin me.connections /\ Configuration!Fits(text)
                       /\ Configuration!Parses(text)
  <1>1. conf' = [conf EXCEPT !.proc[p] = IF free THEN adds ELSE fails]
    BY DEF Configuration!Add
  <1>2. me \in Configuration!Proc /\ FiledBy(me, conf.file) /\ me.pc = "ready"
    BY ProcessKnown DEF Configuration!Add
  <1> HIDE DEF me
  <1>3. CASE free
    <2>1. adds \in Configuration!Proc /\ adds.pc = "compare" /\ adds.adding = {alias}
          /\ adds.original = me.original /\ adds.connections = me.connections
          /\ adds.sure = me.sure
      BY <1>2 DEF Configuration!Proc
    <2>2. Loads(text)
      BY <1>3 DEF Loads
    <2> HIDE DEF adds
    <2>3. FiledBy(adds, conf.file)
      BY <1>2, <2>1, <2>2 DEF FiledBy
    <2> QED
      BY <1>1, <1>3, <2>1, <2>3, ProcessFiled
  <1>4. CASE ~free
    <2>1. fails \in Configuration!Proc /\ fails.pc = "ready" /\ fails.adding = me.adding
          /\ fails.original = me.original /\ fails.connections = me.connections
          /\ fails.sure = me.sure
      BY <1>2 DEF Configuration!Proc
    <2> HIDE DEF fails
    <2>2. FiledBy(fails, conf.file)
      BY <1>2, <2>1 DEF FiledBy
    <2> QED
      BY <1>1, <1>4, <2>1, <2>2, ProcessFiled
  <1> QED
    BY <1>3, <1>4

(* A process that fails is ready again.                                    *)
LEMMA FailFiled ==
    ASSUME NEW me \in Configuration!Proc, NEW file, FiledBy(me, file), me.pc # "off"
    PROVE  Configuration!Fail(me) \in Configuration!Proc /\ FiledBy(Configuration!Fail(me), file)
  <1> DEFINE fails == Configuration!Fail(me)
  <1>1. fails \in Configuration!Proc /\ fails.pc = "ready" /\ fails.adding = {}
        /\ fails.original = me.original /\ fails.connections = me.connections
        /\ fails.sure = me.sure
    BY DEF Configuration!Fail, Configuration!Proc
  <1> HIDE DEF fails
  <1>2. FiledBy(fails, file)
    BY <1>1 DEF FiledBy
  <1> QED
    BY <1>1, <1>2 DEF fails

(* Its way to the rename only changes where it is, and how sure.           *)
LEMMA WayFiled ==
    ASSUME Filed(conf), NEW p \in Process,
           \/ Configuration!Compare(p) \/ Configuration!Write(p)
           \/ Configuration!CompareAgain(p)
    PROVE  Filed(conf')
  <1> DEFINE me == conf.proc[p]
             writes == [me EXCEPT !.pc = "write"]
             again == [me EXCEPT !.pc = "again"]
             renames == [me EXCEPT !.pc = "rename", !.sure = TRUE]
             fails == Configuration!Fail(me)
  <1>1. me \in Configuration!Proc /\ FiledBy(me, conf.file) /\ me.pc # "off" /\ me.adding # {}
        /\ conf \in Configuration!Conf
    BY ProcessKnown DEF FiledBy, Filed, Configuration!Compare, Configuration!Write,
                        Configuration!CompareAgain
  <1>2. \/ conf' = [conf EXCEPT !.proc[p] = writes]
        \/ conf' = [conf EXCEPT !.proc[p] = again]
        \/ conf' = [conf EXCEPT !.proc[p] = renames] /\ conf.file = me.original
        \/ conf' = [conf EXCEPT !.proc[p] = fails]
    <2>1. CASE Configuration!Compare(p)
      BY <1>1, <2>1 DEF Configuration!Compare, Configuration!Conf
    <2>2. CASE Configuration!Write(p)
      BY <1>1, <2>2 DEF Configuration!Write, Configuration!Conf
    <2>3. CASE Configuration!CompareAgain(p)
      BY <1>1, <2>3 DEF Configuration!CompareAgain, Configuration!Same, Configuration!Conf
    <2> QED
      BY <2>1, <2>2, <2>3
  <1> HIDE DEF me
  <1>3. writes \in Configuration!Proc /\ writes.pc = "write" /\ writes.adding = me.adding
        /\ writes.original = me.original /\ writes.connections = me.connections
        /\ writes.sure = me.sure
    BY <1>1 DEF Configuration!Proc
  <1>4. again \in Configuration!Proc /\ again.pc = "again" /\ again.adding = me.adding
        /\ again.original = me.original /\ again.connections = me.connections
        /\ again.sure = me.sure
    BY <1>1 DEF Configuration!Proc
  <1>5. renames \in Configuration!Proc /\ renames.pc = "rename" /\ renames.adding = me.adding
        /\ renames.original = me.original /\ renames.connections = me.connections
    BY <1>1 DEF Configuration!Proc
  <1> HIDE DEF writes, again, renames
  <1>6. FiledBy(writes, conf.file) /\ FiledBy(again, conf.file)
        /\ (conf.file = me.original => FiledBy(renames, conf.file))
    BY <1>1, <1>3, <1>4, <1>5 DEF FiledBy
  <1>7. fails \in Configuration!Proc /\ FiledBy(fails, conf.file)
    BY <1>1, FailFiled
  <1> HIDE DEF fails
  <1> QED
    BY <1>2, <1>3, <1>4, <1>5, <1>6, <1>7, ProcessFiled

(* A process that ends knows nothing.                                      *)
LEMMA StopFiled ==
    ASSUME Filed(conf), NEW p \in Process, Configuration!Stop(p)
    PROVE  Filed(conf')
  <1>1. Configuration!Off \in Configuration!Proc /\ FiledBy(Configuration!Off, conf.file)
    BY DEF Configuration!Off, Configuration!Proc, FiledBy
  <1>2. conf' = [conf EXCEPT !.proc[p] = Configuration!Off]
    BY DEF Configuration!Stop
  <1> QED
    BY <1>1, <1>2, ProcessFiled

(* When the file changes nobody is sure of it.                             *)
LEMMA ChangedFiled ==
    ASSUME Filed(conf), NEW q \in Process, NEW file
    PROVE  LET me == Configuration!Changed(conf.proc)[q] IN
           me \in Configuration!Proc /\ FiledBy(me, file) /\ me.sure = FALSE
  <1> DEFINE me == conf.proc[q]
             changed == [me EXCEPT !.sure = FALSE]
  <1>1. me \in Configuration!Proc /\ FiledBy(me, conf.file)
    BY ProcessKnown
  <1>2. Configuration!Changed(conf.proc)[q] = changed
    BY DEF Configuration!Changed
  <1> HIDE DEF me
  <1>3. changed \in Configuration!Proc /\ changed.pc = me.pc /\ changed.adding = me.adding
        /\ changed.original = me.original /\ changed.connections = me.connections
        /\ changed.sure = FALSE
    BY <1>1 DEF Configuration!Proc
  <1> HIDE DEF changed
  <1>4. FiledBy(changed, file)
    BY <1>1, <1>3 DEF FiledBy
  <1> QED
    BY <1>2, <1>3, <1>4

(* An editor writes what it likes.                                         *)
LEMMA EditFiled ==
    ASSUME Filed(conf), Configuration!Edit
    PROVE  Filed(conf')
  <1>1. PICK file \in {{}} \cup {{t} : t \in Configuration!Text}, plain \in BOOLEAN :
           conf' = [conf EXCEPT !.file = file, !.plain = plain, !.edits = @ + 1,
                                !.proc = Configuration!Changed(@)]
    BY Zenon DEF Configuration!Edit
  <1> DEFINE procs == Configuration!Changed(conf.proc)
  <1>2. procs \in [Process -> Configuration!Proc]
    BY ChangedFiled DEF Configuration!Changed
  <1>3. \A q \in Process : FiledBy(procs[q], file)
    BY ChangedFiled
  <1>4. conf \in Configuration!Conf /\ conf.lost = {} /\ conf.edits < MaxEdits
    BY DEF Filed, Configuration!Edit
  <1>5. file \in SUBSET Configuration!Text
    OBVIOUS
  <1>6. conf' = [conf EXCEPT !.file = file, !.plain = plain, !.edits = @ + 1, !.proc = procs]
    BY <1>1
  <1> HIDE DEF procs
  <1> DEFINE edits == conf.edits + 1
  <1>7. edits \in 0 .. MaxEdits
    BY <1>4, TerminalAssumption DEF Configuration!Conf
  <1>8. conf' = [conf EXCEPT !.file = file, !.plain = plain, !.edits = edits, !.proc = procs]
    BY <1>6
  <1> HIDE DEF edits
  <1>9. conf' \in Configuration!Conf /\ conf'.file = file /\ conf'.proc = procs
        /\ conf'.lost = {}
    BY <1>2, <1>4, <1>5, <1>7, <1>8 DEF Configuration!Conf
  <1> QED
    BY <1>3, <1>9 DEF Filed

(* The file gets the text that the process knew it by, and one connection. *)
LEMMA RenameFiled ==
    ASSUME Filed(conf), NEW p \in Process, Configuration!Rename(p)
    PROVE  Filed(conf')
  <1> DEFINE me == conf.proc[p]
             known == Configuration!TextOf(me.original)
             text == CHOOSE t \in {Configuration!Appended(known, a) : a \in me.adding} : TRUE
             done == [me EXCEPT !.pc = "ready", !.original = {text}, !.adding = {},
                                !.connections = text.names, !.sure = FALSE]
             changed == Configuration!Changed(conf.proc)
             procs == [changed EXCEPT ![p] = done]
             dropped == IF me.sure THEN Configuration!TextOf(conf.file).names \ text.names
                        ELSE {}
             unsure == [me EXCEPT !.sure = FALSE]
             fails == Configuration!Fail(unsure)
  <1>1. me \in Configuration!Proc /\ FiledBy(me, conf.file) /\ me.pc = "rename"
        /\ conf \in Configuration!Conf /\ conf.lost = {}
    BY ProcessKnown DEF Configuration!Rename, Filed
  <1>2. \/ conf' = [conf EXCEPT !.proc = procs, !.file = {text}, !.plain = TRUE,
                                !.lost = @ \cup dropped]
        \/ conf' = [conf EXCEPT !.proc[p] = fails]
    BY DEF Configuration!Rename
  <1>3. known \in Configuration!Text
    BY <1>1, FileHasText DEF Configuration!Proc
  <1>4. changed \in [Process -> Configuration!Proc]
        /\ \A q \in Process : FiledBy(changed[q], {text})
    BY ChangedFiled DEF Configuration!Changed
  <1> HIDE DEF me, changed
  <1>5. CASE conf' = [conf EXCEPT !.proc = procs, !.file = {text}, !.plain = TRUE,
                                  !.lost = @ \cup dropped]
    <2>1. PICK a \in Alias : me.adding = {a} /\ Loads(Configuration!Appended(known, a))
      BY <1>1 DEF FiledBy
    <2>2. text = Configuration!Appended(known, a)
      <3>1. {Configuration!Appended(known, b) : b \in me.adding}
              = {Configuration!Appended(known, a)}
        BY <2>1
      <3> QED
        BY <3>1
    <2> HIDE DEF text
    <2>3. text \in Configuration!Text /\ Loads(text) /\ known.names \subseteq text.names
      BY <1>3, <2>1, <2>2, AppendKeeps
    <2>4. dropped = {}
      BY <1>1, <2>3 DEF FiledBy
    <2> HIDE DEF dropped, known
    <2>5. done \in Configuration!Proc /\ done.pc = "ready" /\ done.original = {text}
          /\ done.adding = {} /\ done.connections = text.names /\ done.sure = FALSE
      BY <1>1, <2>3 DEF Configuration!Proc, Configuration!Text
    <2> HIDE DEF done
    <2>6. Configuration!TextOf({text}) = text
      BY DEF Configuration!TextOf
    <2>7. FiledBy(done, {text})
      BY <2>3, <2>5, <2>6 DEF FiledBy
    <2>8. procs \in [Process -> Configuration!Proc]
          /\ \A q \in Process : FiledBy(procs[q], {text})
      BY <1>4, <2>5, <2>7
    <2> HIDE DEF procs
    <2>9. conf' \in Configuration!Conf /\ conf'.proc = procs /\ conf'.file = {text}
          /\ conf'.lost = {}
      BY <1>1, <1>5, <2>3, <2>4, <2>8 DEF Configuration!Conf
    <2> QED
      BY <2>8, <2>9 DEF Filed
  <1>6. CASE conf' = [conf EXCEPT !.proc[p] = fails]
    <2>1. unsure \in Configuration!Proc /\ unsure.pc = me.pc /\ unsure.adding = me.adding
          /\ unsure.original = me.original /\ unsure.connections = me.connections
          /\ unsure.sure = FALSE
      BY <1>1 DEF Configuration!Proc
    <2> HIDE DEF unsure
    <2>2. FiledBy(unsure, conf.file)
      BY <1>1, <2>1 DEF FiledBy
    <2>3. fails \in Configuration!Proc /\ FiledBy(fails, conf.file)
      BY <1>1, <2>1, <2>2, FailFiled
    <2> HIDE DEF fails
    <2> QED
      BY <1>6, <2>3, ProcessFiled
  <1> QED
    BY <1>2, <1>5, <1>6

LEMMA FiledStep ==
    ASSUME Filed(conf), Configuration!Next
    PROVE  Filed(conf')
  <1>1. CASE \E p \in Process, allowMissing \in BOOLEAN : Configuration!Start(p, allowMissing)
    BY <1>1, StartFiled
  <1>2. CASE \E p \in Process, alias \in Alias : Configuration!Add(p, alias)
    BY <1>2, AddFiled
  <1>3. CASE \E p \in Process : \/ Configuration!StartFails(p) \/ Configuration!Compare(p)
                                \/ Configuration!Write(p) \/ Configuration!CompareAgain(p)
                                \/ Configuration!Rename(p) \/ Configuration!Stop(p)
    <2>1. PICK p \in Process : \/ Configuration!StartFails(p) \/ Configuration!Compare(p)
                               \/ Configuration!Write(p) \/ Configuration!CompareAgain(p)
                               \/ Configuration!Rename(p) \/ Configuration!Stop(p)
      BY <1>3
    <2>2. CASE Configuration!StartFails(p)
      BY <2>2 DEF Configuration!StartFails
    <2>3. CASE ~Configuration!StartFails(p)
      BY <2>1, <2>3, WayFiled, RenameFiled, StopFiled
    <2> QED
      BY <2>2, <2>3
  <1>4. CASE Configuration!Edit
    BY <1>4, EditFiled
  <1> QED
    BY <1>1, <1>2, <1>3, <1>4 DEF Configuration!Next

(* Nobody has started, and the file is missing or has no connections.      *)
LEMMA FiledStart ==
    ASSUME NEW c \in Configuration!Starts
    PROVE  Filed(c)
  <1>1. PICK file \in {{}, {Configuration!Empty}} :
           c = [proc |-> [p \in Process |-> Configuration!Off], file |-> file, plain |-> TRUE,
                edits |-> 0, lost |-> {}]
    BY DEF Configuration!Starts
  <1>2. Configuration!Off \in Configuration!Proc /\ FiledBy(Configuration!Off, file)
    BY DEF Configuration!Off, Configuration!Proc, FiledBy
  <1>3. file \in SUBSET Configuration!Text
    BY DEF Configuration!Empty, Configuration!Text
  <1>4. c \in Configuration!Conf
    BY <1>1, <1>2, <1>3, TerminalAssumption DEF Configuration!Conf
  <1> QED
    BY <1>1, <1>2, <1>4 DEF Filed

(* What the runs see of it.                                                *)
LEMMA FiledIsKept ==
    ASSUME Filed(conf)
    PROVE  Configuration!NothingOverwritten /\ Configuration!SavedConfigLoads
           /\ Configuration!TypeOK
  <1>1. ASSUME NEW p \in Process
        PROVE  Cardinality(conf.proc[p].adding) <= 1
    <2>1. CASE conf.proc[p].adding = {}
      BY <2>1, FS_EmptySet
    <2>2. CASE conf.proc[p].adding # {}
      <3>1. PICK a : conf.proc[p].adding = {a}
        BY <2>2 DEF Filed, FiledBy
      <3>2. Cardinality({a}) = 1
        BY FS_Singleton
      <3> QED
        BY <3>1, <3>2
    <2> QED
      BY <2>1, <2>2
  <1>2. ASSUME NEW p \in Process, conf.proc[p].pc # "off"
        PROVE  LET me == conf.proc[p] IN
               /\ Configuration!Fits(Configuration!TextOf(me.original))
               /\ Configuration!Parses(Configuration!TextOf(me.original))
               /\ me.connections = Configuration!TextOf(me.original).names
    BY <1>2 DEF Filed, FiledBy, Loads
  <1>3. Configuration!SavedConfigLoads
    BY <1>1, <1>2, Zenon DEF Configuration!SavedConfigLoads, Configuration!Cardinality,
                              Cardinality
  <1> QED
    BY <1>3 DEF Filed, Configuration!NothingOverwritten, Configuration!TypeOK

-----------------------------------------------------------------------------
(* The query history *)

MaybeLine == {Recorded!NoLine} \cup {{l} : l \in Line}

(* The text that was typed is kept while an old entry is shown.            *)
Drafted(run) ==
    run.editor # Recorded!NoLine =>
        /\ run.typed # Recorded!NoLine
        /\ IF run.position = 0 THEN run.editor = run.typed
           ELSE run.position \in Recorded!Own(run) /\ run.current = run.typed

(* What is stored was shown at some time.                                  *)
StoredOf(log, stored) ==
    \E n \in 0 .. Len(log) : stored = Recorded!NewestOf(SubSeq(log, 1, n))

HistoryKept(h) ==
    /\ h \in [on : BOOLEAN, own : BOOLEAN, file : Recorded!File, stored : Seq(Recorded!Entry),
              run : Recorded!Running]
    /\ Len(h.stored) <= Limit
    /\ h.run.entries = Recorded!NewestOf(h.run.log)
    /\ h.on /\ h.own /\ h.file = "entries" => StoredOf(h.run.log, h.stored)
    /\ Drafted(h.run)

(* The newest entries are at most as many as the limit, from the end.      *)
LEMMA NewestOfSome ==
    ASSUME NEW S, NEW s \in Seq(S)
    PROVE  LET t == Recorded!NewestOf(s)
               k == Len(s) - Limit IN
           /\ t \in Seq(S) /\ Len(t) \in Nat
           /\ Len(s) <= Limit => t = s
           /\ Len(s) > Limit =>
                 /\ Len(t) = Limit
                 /\ \A i \in 1 .. Limit : t[i] = s[k + i]
           /\ Len(t) <= Limit
  <1>1. Len(s) \in Nat /\ Limit \in Nat \ {0} /\ \A i \in 1 .. Len(s) : s[i] \in S
    BY TerminalAssumption, LenProperties, ElementOfSeq
  <1>2. CASE Len(s) <= Limit
    BY <1>1, <1>2 DEF Recorded!NewestOf
  <1>3. CASE Len(s) > Limit
    <2> DEFINE m == Len(s) - Limit + 1
               n == Len(s)
    <2>1. m \in Int /\ n \in Int /\ m <= n /\ n - m + 1 = Limit /\ \A i \in m .. n : s[i] \in S
      BY <1>1, <1>3
    <2>2. Recorded!NewestOf(s) = SubSeq(s, m, n)
      BY <1>1, <1>3 DEF Recorded!NewestOf
    <2>3. \A i \in 1 .. Limit : m + i - 1 = Len(s) - Limit + i
      BY <1>1
    <2> HIDE DEF m, n
    <2> DEFINE r == SubSeq(s, m, n)
    <2>4. r \in Seq(S) /\ Len(r) = Limit /\ \A i \in 1 .. Limit : r[i] = s[m + i - 1]
      BY <2>1, SubSeqProperties
    <2> HIDE DEF r
    <2>5. r \in Seq(S) /\ Len(r) = Limit /\ \A i \in 1 .. Limit : r[i] = s[(Len(s) - Limit) + i]
      BY <2>3, <2>4
    <2>6. Recorded!NewestOf(s) = r
      BY <2>2 DEF r
    <2>7. Len(r) \in Nat /\ Len(r) <= Limit /\ ~(Len(s) <= Limit)
      BY <1>1, <1>3, <2>5
    <2> QED
      BY <2>5, <2>6, <2>7, Zenon
  <1> QED
    BY <1>1, <1>2, <1>3

(* A new entry takes the place of the oldest one that is over the limit.   *)
LEMMA NewestOfOneMore ==
    ASSUME NEW S, NEW s \in Seq(S), NEW e \in S
    PROVE  LET t == Recorded!NewestOf(s) IN
           Recorded!NewestOf(Append(s, e)) = Append(IF Len(t) = Limit THEN Tail(t) ELSE t, e)
  <1> DEFINE t == Recorded!NewestOf(s)
             u == Append(s, e)
             v == Recorded!NewestOf(u)
             r == IF Len(t) = Limit THEN Tail(t) ELSE t
             w == Append(r, e)
             L == Len(s)
  <1>1. L \in Nat /\ Limit \in Nat \ {0}
    BY TerminalAssumption, LenProperties
  <1>2. u \in Seq(S) /\ Len(u) = L + 1 /\ u[L + 1] = e /\ \A i \in 1 .. L : u[i] = s[i]
    BY AppendProperties
  <1>3. /\ t \in Seq(S) /\ Len(t) \in Nat
        /\ L <= Limit => t = s
        /\ L > Limit => Len(t) = Limit /\ \A i \in 1 .. Limit : t[i] = s[L - Limit + i]
    BY NewestOfSome
  <1> HIDE DEF u
  <1>4. /\ v \in Seq(S) /\ Len(v) \in Nat
        /\ Len(u) <= Limit => v = u
        /\ Len(u) > Limit => Len(v) = Limit /\ \A i \in 1 .. Limit : v[i] = u[Len(u) - Limit + i]
    BY <1>2, NewestOfSome
  <1> HIDE DEF t, v
  <1>5. CASE L < Limit
    <2>1. t = s /\ v = u /\ r = t
      BY <1>1, <1>2, <1>3, <1>4, <1>5
    <2> QED
      BY <2>1 DEF u, v, t
  <1>6. CASE L >= Limit
    <2>1. Len(t) = Limit /\ \A i \in 1 .. Limit : t[i] = s[L - Limit + i]
      BY <1>1, <1>3, <1>6
    <2>2. t # <<>>
      BY <1>1, <2>1
    <2>3. r \in Seq(S) /\ Len(r) = Limit - 1 /\ \A i \in 1 .. Limit - 1 : r[i] = t[i + 1]
      BY <1>1, <1>3, <2>1, <2>2, HeadTailProperties
    <2> HIDE DEF r
    <2>4. w \in Seq(S) /\ Len(w) = Len(r) + 1 /\ w[Len(r) + 1] = e
          /\ \A i \in 1 .. Len(r) : w[i] = r[i]
      BY <2>3, AppendProperties
    <2> HIDE DEF w
    <2>5. Len(w) = Limit /\ w[Limit] = e /\ \A i \in 1 .. Limit - 1 : w[i] = t[i + 1]
      BY <1>1, <2>3, <2>4
    <2>6. Len(v) = Limit /\ \A i \in 1 .. Limit : v[i] = u[L + 1 - Limit + i]
      BY <1>1, <1>2, <1>4, <1>6
    <2>7. ASSUME NEW i \in 1 .. Limit PROVE v[i] = w[i]
      <3>1. CASE i = Limit
        BY <1>1, <1>2, <2>5, <2>6, <3>1
      <3>2. CASE i # Limit
        <4>1. i \in 1 .. Limit - 1 /\ i + 1 \in 1 .. Limit
          BY <1>1, <3>2
        <4>2. L + 1 - Limit + i \in 1 .. L /\ L - Limit + (i + 1) = L + 1 - Limit + i
          BY <1>1, <1>6, <4>1
        <4>3. v[i] = s[L + 1 - Limit + i]
          BY <1>2, <2>6, <4>2
        <4>4. w[i] = s[L - Limit + (i + 1)]
          BY <2>1, <2>5, <4>1
        <4> QED
          BY <4>2, <4>3, <4>4
      <3> QED
        BY <3>1, <3>2
    <2>8. v = w
      BY <1>4, <2>4, <2>5, <2>6, <2>7, SeqEqual
    <2> QED
      BY <2>8 DEF u, v, t, r, w
  <1> QED
    BY <1>1, <1>5, <1>6

(* What was stored of a log was also stored of a longer one.               *)
LEMMA StoredStays ==
    ASSUME NEW log \in Seq(Recorded!Entry), NEW e \in Recorded!Entry, NEW stored,
           StoredOf(log, stored)
    PROVE  StoredOf(Append(log, e), stored)
  <1> DEFINE S == Recorded!Entry
             longer == Append(log, e)
  <1>1. PICK n \in 0 .. Len(log) : stored = Recorded!NewestOf(SubSeq(log, 1, n))
    BY DEF StoredOf
  <1>2. longer \in Seq(S) /\ Len(longer) = Len(log) + 1
        /\ \A i \in 1 .. Len(log) : longer[i] = log[i]
    BY AppendProperties
  <1>3. Len(log) \in Nat /\ \A i \in 1 .. Len(log) : log[i] \in S
    BY LenProperties, ElementOfSeq
  <1> HIDE DEF longer, S
  <1>4. 1 \in Int /\ n \in Int /\ n - 1 + 1 = n
        /\ (\A i \in 1 .. n : log[i] \in S /\ longer[i] = log[i] /\ longer[i] \in S)
        /\ \A i \in 1 .. n : 1 + i - 1 = i
    BY <1>2, <1>3
  <1>5. /\ SubSeq(log, 1, n) \in Seq(S)
        /\ Len(SubSeq(log, 1, n)) = IF 1 <= n THEN n - 1 + 1 ELSE 0
        /\ \A i \in 1 .. n - 1 + 1 : SubSeq(log, 1, n)[i] = log[1 + i - 1]
    BY <1>4, SubSeqProperties
  <1>6. /\ SubSeq(longer, 1, n) \in Seq(S)
        /\ Len(SubSeq(longer, 1, n)) = IF 1 <= n THEN n - 1 + 1 ELSE 0
        /\ \A i \in 1 .. n - 1 + 1 : SubSeq(longer, 1, n)[i] = longer[1 + i - 1]
    BY <1>4, SubSeqProperties
  <1> DEFINE a == SubSeq(log, 1, n)
             b == SubSeq(longer, 1, n)
  <1>7. Len(a) = Len(b) /\ Len(a) \in 0 .. n
    BY <1>3, <1>4, <1>5, <1>6
  <1>8. \A i \in 1 .. Len(a) : a[i] = b[i]
    BY <1>4, <1>5, <1>6, <1>7
  <1> HIDE DEF a, b
  <1>9. a = b
    BY <1>5, <1>6, <1>7, <1>8, SeqEqual DEF a, b
  <1>10. n \in 0 .. Len(longer)
    BY <1>2, <1>3
  <1> QED
    BY <1>1, <1>9, <1>10 DEF StoredOf, a, b, longer

(* All of a log is one of its beginnings.                                  *)
LEMMA StoredWhole ==
    ASSUME NEW log \in Seq(Recorded!Entry)
    PROVE  StoredOf(log, Recorded!NewestOf(log))
  <1>1. SubSeq(log, 1, Len(log)) = log
    BY SubSeqFull
  <1>2. Len(log) \in 0 .. Len(log)
    BY LenProperties
  <1> QED
    BY <1>1, <1>2 DEF StoredOf

-----------------------------------------------------------------------------
(* A step of the editor that records nothing.                              *)
LEMMA RunKept ==
    ASSUME HistoryKept(his), NEW run \in Recorded!Running,
           run.entries = his.run.entries, run.log = his.run.log, Drafted(run),
           Recorded!Set(run)
    PROVE  HistoryKept(his')
  <1>1. his' = [his EXCEPT !.run = run]
    BY DEF Recorded!Set
  <1>2. his' \in [on : BOOLEAN, own : BOOLEAN, file : Recorded!File,
                  stored : Seq(Recorded!Entry), run : Recorded!Running]
        /\ his'.on = his.on /\ his'.own = his.own /\ his'.file = his.file
        /\ his'.stored = his.stored /\ his'.run = run
    BY <1>1 DEF HistoryKept
  <1> QED
    BY <1>2 DEF HistoryKept

LEMMA EditorKept ==
    ASSUME HistoryKept(his),
           \/ Recorded!OpenEditor \/ Recorded!CloseEditor \/ Recorded!Type
           \/ Recorded!OtherConnection
    PROVE  HistoryKept(his')
  <1> DEFINE run == his.run
  <1>1. run \in Recorded!Running /\ Drafted(run)
    BY DEF HistoryKept
  <1>2. CASE Recorded!OpenEditor
    <2>1. PICK l \in Line : Recorded!Set([run EXCEPT !.editor = {l}, !.typed = {l},
                                                     !.position = 0,
                                                     !.current = Recorded!NoLine])
      BY <1>2 DEF Recorded!OpenEditor
    <2> DEFINE next == [run EXCEPT !.editor = {l}, !.typed = {l}, !.position = 0,
                                   !.current = Recorded!NoLine]
    <2> HIDE DEF run
    <2>2. next \in Recorded!Running /\ next.entries = run.entries /\ next.log = run.log
          /\ next.editor = {l} /\ next.typed = {l} /\ next.position = 0
      BY <1>1 DEF Recorded!Running
    <2>3. Recorded!Set(next)
      BY <2>1
    <2> HIDE DEF next
    <2>4. Drafted(next)
      BY <2>2 DEF Drafted, Recorded!NoLine
    <2> QED
      BY <2>2, <2>3, <2>4, RunKept DEF run
  <1>3. CASE Recorded!CloseEditor
    <2> DEFINE next == [run EXCEPT !.editor = Recorded!NoLine, !.position = 0,
                                   !.current = Recorded!NoLine, !.typed = Recorded!NoLine]
    <2>1. Recorded!Set(next)
      BY <1>3 DEF Recorded!CloseEditor
    <2> HIDE DEF run
    <2>2. next \in Recorded!Running /\ next.entries = run.entries /\ next.log = run.log
          /\ next.editor = Recorded!NoLine
      BY <1>1 DEF Recorded!Running
    <2> HIDE DEF next
    <2>3. Drafted(next)
      BY <2>2 DEF Drafted
    <2> QED
      BY <2>1, <2>2, <2>3, RunKept DEF run
  <1>4. CASE Recorded!Type
    <2>1. PICK l \in Line :
             Recorded!Set([run EXCEPT !.editor = {l},
                                      !.typed = IF run.position = 0 THEN {l} ELSE @])
      BY <1>4 DEF Recorded!Type
    <2> DEFINE typed == IF run.position = 0 THEN {l} ELSE run.typed
               next == [run EXCEPT !.editor = {l}, !.typed = typed]
    <2>2. run.editor # Recorded!NoLine
      BY <1>4 DEF Recorded!Type
    <2>3. Recorded!Set(next)
      BY <2>1
    <2> HIDE DEF run
    <2>4. next \in Recorded!Running /\ next.entries = run.entries /\ next.log = run.log
          /\ next.editor = {l} /\ next.typed = typed /\ next.position = run.position
          /\ next.current = run.current /\ next.alias = run.alias
      BY <1>1 DEF Recorded!Running
    <2> HIDE DEF next
    <2>5. Recorded!Own(next) = Recorded!Own(run)
      BY <2>4 DEF Recorded!Own
    <2>6. Drafted(next)
      BY <1>1, <2>2, <2>4, <2>5 DEF Drafted, Recorded!NoLine
    <2> QED
      BY <2>3, <2>4, <2>6, RunKept DEF run
  <1>5. CASE Recorded!OtherConnection
    <2>1. PICK alias \in Asked : Recorded!Set([run EXCEPT !.alias = alias])
      BY <1>5 DEF Recorded!OtherConnection
    <2> DEFINE next == [run EXCEPT !.alias = alias]
    <2>2. run.editor = Recorded!NoLine /\ Recorded!Set(next)
      BY <1>5, <2>1 DEF Recorded!OtherConnection
    <2> HIDE DEF run
    <2>3. next \in Recorded!Running /\ next.entries = run.entries /\ next.log = run.log
          /\ next.editor = Recorded!NoLine
      BY <1>1, <2>2 DEF Recorded!Running
    <2> HIDE DEF next
    <2>4. Drafted(next)
      BY <2>3 DEF Drafted
    <2> QED
      BY <2>2, <2>3, <2>4, RunKept DEF run
  <1> QED
    BY <1>2, <1>3, <1>4, <1>5

(* Walking the history keeps the text of before the walk.                  *)
LEMMA RecallKept ==
    ASSUME HistoryKept(his), NEW previous \in BOOLEAN, Recorded!Recall(previous)
    PROVE  HistoryKept(his')
  <1> DEFINE run == his.run
             found == Recorded!Nearest(run, previous)
             kept == IF run.position = 0 THEN run.editor ELSE run.current
             walked(i) == [run EXCEPT !.position = i, !.current = kept,
                                      !.editor = {run.entries[i][2]}]
             text == IF run.current = Recorded!NoLine THEN run.editor ELSE run.current
             back == [run EXCEPT !.position = 0, !.current = Recorded!NoLine, !.editor = text]
  <1>1. run \in Recorded!Running /\ Drafted(run) /\ run.editor # Recorded!NoLine
    BY DEF HistoryKept, Recorded!Recall
  <1>2. \/ \E i \in found : Recorded!Set(walked(i))
        \/ run.position # 0 /\ Recorded!Set(back)
    BY DEF Recorded!Recall
  <1>3. kept = run.typed /\ run.typed # Recorded!NoLine
    BY <1>1 DEF Drafted
  <1>4. found \subseteq Recorded!Own(run)
    BY DEF Recorded!Nearest
  <1>5. ASSUME NEW i \in found, Recorded!Set(walked(i)) PROVE HistoryKept(his')
    <2> DEFINE next == walked(i)
    <2>1. i \in Recorded!Own(run)
      BY <1>4
    <2>2. i \in 1 .. Len(run.entries) /\ i \in Nat /\ i # 0 /\ run.entries[i] \in Recorded!Entry
      BY <1>1, <2>1, LenProperties, ElementOfSeq DEF Recorded!Own, Recorded!Running
    <2>3. run.entries[i][2] \in Line
      BY <2>2 DEF Recorded!Entry
    <2> HIDE DEF run, kept
    <2>4. next \in Recorded!Running /\ next.entries = run.entries /\ next.log = run.log
          /\ next.position = i /\ next.current = kept /\ next.typed = run.typed
          /\ next.alias = run.alias
      BY <1>1, <1>3, <2>2, <2>3 DEF Recorded!Running
    <2> HIDE DEF next
    <2>5. Recorded!Own(next) = Recorded!Own(run)
      BY <2>4 DEF Recorded!Own
    <2>6. Drafted(next)
      BY <1>3, <2>1, <2>2, <2>4, <2>5 DEF Drafted
    <2> QED
      BY <1>5, <2>4, <2>6, RunKept DEF run, next
  <1>6. ASSUME run.position # 0, Recorded!Set(back) PROVE HistoryKept(his')
    <2>1. text = run.typed
      BY <1>1, <1>6 DEF Drafted
    <2> HIDE DEF run, text
    <2>2. back \in Recorded!Running /\ back.entries = run.entries /\ back.log = run.log
          /\ back.position = 0 /\ back.editor = text /\ back.typed = run.typed
      BY <1>1, <2>1 DEF Recorded!Running
    <2> HIDE DEF back
    <2>3. Drafted(back)
      BY <1>3, <2>1, <2>2 DEF Drafted
    <2> QED
      BY <1>6, <2>2, <2>3, RunKept DEF run
  <1> QED
    BY <1>2, <1>5, <1>6

(* What is submitted is the newest entry of the log and of those kept.     *)
LEMMA SubmitKept ==
    ASSUME HistoryKept(his), Recorded!Submit
    PROVE  HistoryKept(his')
  <1> DEFINE old == his.run
             entryOf(line) == <<old.alias, line>>
             sameAs(line) == old.entries # <<>> /\ Recorded!Last(old.entries) = entryOf(line)
             runOf(line) == [(IF sameAs(line) THEN old ELSE Recorded!Recorded(old, entryOf(line)))
                                EXCEPT !.position = 0, !.current = Recorded!NoLine,
                                       !.typed = {line}]
  <1>0. PICK line \in his.run.editor :
           LET entry == <<his.run.alias, line>>
               same == his.run.entries # <<>> /\ Recorded!Last(his.run.entries) = entry
               run == [(IF same THEN his.run ELSE Recorded!Recorded(his.run, entry))
                          EXCEPT !.position = 0, !.current = Recorded!NoLine, !.typed = {line}]
           IN /\ same \/ Len(his.run.log) < MaxLog
              /\ \/ Recorded!Set(run)
                 \/ /\ ~same /\ run.saves
                    /\ his' = [his EXCEPT !.run = run, !.file = "entries",
                                          !.stored = run.entries, !.own = TRUE]
    BY Zenon DEF Recorded!Submit
  <1>1. \/ Recorded!Set(runOf(line))
        \/ /\ ~sameAs(line) /\ old.saves
           /\ his' = [his EXCEPT !.run = runOf(line), !.file = "entries",
                                 !.stored = runOf(line).entries, !.own = TRUE]
    BY <1>0 DEF Recorded!Recorded
  <1>2. old \in Recorded!Running /\ Drafted(old) /\ old.entries = Recorded!NewestOf(old.log)
    BY DEF HistoryKept
  <1> DEFINE entry == entryOf(line)
             same == sameAs(line)
             run == runOf(line)
             E == Recorded!Entry
  <1>3. line \in Line /\ old.editor = {line}
    BY <1>2 DEF Recorded!Running, Recorded!NoLine
  <1>4. entry \in E
    BY <1>2, <1>3 DEF Recorded!Entry, Recorded!Running
  <1> HIDE DEF entryOf, sameAs, old
  <1>5. CASE same
    <2>1. run = [old EXCEPT !.position = 0, !.current = Recorded!NoLine, !.typed = {line}]
      BY <1>5
    <2>2. run \in Recorded!Running /\ run.entries = old.entries /\ run.log = old.log
          /\ run.editor = {line} /\ run.position = 0 /\ run.typed = {line}
      BY <1>2, <1>3, <2>1 DEF Recorded!Running
    <2>3. Recorded!Set(run)
      BY <1>1, <1>5
    <2> HIDE DEF runOf
    <2>4. Drafted(run)
      BY <2>2 DEF Drafted, Recorded!NoLine
    <2> QED
      BY <2>2, <2>3, <2>4, RunKept DEF old
  <1>6. CASE ~same
    <2> DEFINE entries == Append(IF Len(old.entries) = Limit THEN Tail(old.entries)
                                 ELSE old.entries, entry)
               log == Append(old.log, entry)
    <2>1. run = [old EXCEPT !.entries = entries, !.log = log, !.position = 0,
                            !.current = Recorded!NoLine, !.typed = {line}]
      BY <1>2, <1>6 DEF Recorded!Recorded, Recorded!Running
    <2>2. old.log \in Seq(E)
      BY <1>2 DEF Recorded!Running
    <2> HIDE DEF E
    <2>3. entries = Recorded!NewestOf(log)
      BY <1>2, <1>4, <2>2, NewestOfOneMore
    <2>4. log \in Seq(E) /\ entries \in Seq(E) /\ Len(entries) <= Limit
      <3>1. log \in Seq(E)
        BY <1>4, <2>2, AppendProperties
      <3> HIDE DEF log, entries
      <3> QED
        BY <2>3, <3>1, NewestOfSome
    <2> HIDE DEF entries
    <2>5. StoredOf(log, entries)
      BY <2>3, <2>4, StoredWhole DEF E
    <2>6. \A stored : StoredOf(old.log, stored) => StoredOf(log, stored)
      BY <1>4, <2>2, StoredStays DEF E
    <2> HIDE DEF log
    <2>7. run \in Recorded!Running /\ run.entries = entries /\ run.log = log
          /\ run.editor = {line} /\ run.position = 0 /\ run.typed = {line}
      BY <1>2, <1>3, <2>1, <2>4 DEF Recorded!Running, E
    <2> HIDE DEF runOf
    <2>8. Drafted(run)
      BY <2>7 DEF Drafted, Recorded!NoLine
    <2> DEFINE Typing == [on : BOOLEAN, own : BOOLEAN, file : Recorded!File,
                         stored : Seq(Recorded!Entry), run : Recorded!Running]
    <2>9. CASE Recorded!Set(run)
      <3>1. his' = [his EXCEPT !.run = run]
        BY <2>9 DEF Recorded!Set
      <3>2. his' \in Typing /\ his'.on = his.on /\ his'.own = his.own /\ his'.file = his.file
            /\ his'.stored = his.stored /\ his'.run = run
        BY <2>7, <3>1 DEF HistoryKept
      <3>3. his.on /\ his.own /\ his.file = "entries" => StoredOf(log, his.stored)
        BY <2>6 DEF HistoryKept, old
      <3> QED
        BY <2>3, <2>7, <2>8, <3>2, <3>3 DEF HistoryKept
    <2>10. CASE his' = [his EXCEPT !.run = run, !.file = "entries", !.stored = run.entries,
                                   !.own = TRUE]
      <3>1. his' = [his EXCEPT !.run = run, !.file = "entries", !.stored = entries, !.own = TRUE]
        BY <2>7, <2>10
      <3>2. his' \in Typing /\ his'.run = run /\ his'.stored = entries
        BY <2>4, <2>7, <3>1 DEF HistoryKept, Recorded!File, E
      <3> QED
        BY <2>3, <2>4, <2>5, <2>7, <2>8, <3>2 DEF HistoryKept
    <2> QED
      BY <1>1, <2>9, <2>10
  <1> QED
    BY <1>5, <1>6

(* A process loads what it can read of the file, or nothing.               *)
LEMMA LoadKept ==
    ASSUME HistoryKept(his), Recorded!Start
    PROVE  HistoryKept(his')
  <1> DEFINE loadedOf(persists) == IF persists /\ his.file = "entries"
                                   THEN Recorded!NewestOf(his.stored) ELSE <<>>
             startOf(alias, persists) ==
                 [entries |-> loadedOf(persists), saves |-> persists /\ his.file # "damaged",
                  alias |-> alias, editor |-> Recorded!NoLine, position |-> 0,
                  current |-> Recorded!NoLine, log |-> loadedOf(persists),
                  typed |-> Recorded!NoLine]
  <1>1. PICK alias \in Asked, persists \in BOOLEAN :
           his' = [his EXCEPT !.on = TRUE, !.own = persists /\ his.file # "damaged",
                              !.run = startOf(alias, persists)]
    BY Zenon DEF Recorded!Start
  <1> DEFINE loaded == loadedOf(persists)
             run == startOf(alias, persists)
             E == Recorded!Entry
             own == persists /\ his.file # "damaged"
  <1>2. his.stored \in Seq(E) /\ Len(his.stored) <= Limit /\ Limit \in Nat \ {0}
    BY TerminalAssumption DEF HistoryKept
  <1>3. Recorded!NewestOf(his.stored) = his.stored
    BY <1>2, NewestOfSome
  <1>4. loaded \in Seq(E) /\ Len(loaded) <= Limit
        /\ (persists /\ his.file = "entries" => loaded = his.stored)
    BY <1>2, <1>3, EmptySeq
  <1> HIDE DEF loadedOf
  <1>5. Recorded!NewestOf(loaded) = loaded
    BY <1>4, NewestOfSome
  <1>6. StoredOf(loaded, loaded)
    BY <1>4, <1>5, StoredWhole
  <1>7. own \in BOOLEAN
    OBVIOUS
  <1>8. run \in Recorded!Running /\ run.entries = loaded /\ run.log = loaded
        /\ run.editor = Recorded!NoLine
    BY <1>4 DEF Recorded!Running
  <1> DEFINE o == own
  <1>9. his' = [his EXCEPT !.on = TRUE, !.own = o, !.run = run]
    BY <1>1
  <1>10. o \in BOOLEAN /\ (o => persists)
    BY <1>7
  <1> HIDE DEF startOf, o
  <1>11. /\ his' \in [on : BOOLEAN, own : BOOLEAN, file : Recorded!File, stored : Seq(E),
                      run : Recorded!Running]
         /\ his'.stored = his.stored /\ his'.file = his.file /\ his'.run = run
         /\ (his'.own <=> o)
    BY <1>8, <1>9, <1>10 DEF HistoryKept
  <1>12. Drafted(run)
    BY <1>8 DEF Drafted
  <1>13. his'.own /\ his'.file = "entries" => his'.stored = loaded
    BY <1>4, <1>10, <1>11
  <1> QED
    BY <1>2, <1>5, <1>6, <1>8, <1>11, <1>12, <1>13 DEF HistoryKept

(* The file changes hands, or the process ends.                            *)
LEMMA DisturbedKept ==
    ASSUME HistoryKept(his), Recorded!Disturbed \/ Recorded!Stop
    PROVE  HistoryKept(his')
  <1> DEFINE Typing == [on : BOOLEAN, own : BOOLEAN, file : Recorded!File,
                       stored : Seq(Recorded!Entry), run : Recorded!Running]
  <1>1. his \in Typing /\ Limit \in Nat \ {0}
    BY TerminalAssumption DEF HistoryKept
  <1>2. CASE Recorded!Stop
    <2>1. his' = [his EXCEPT !.on = FALSE]
      BY <1>2 DEF Recorded!Stop
    <2>2. his' \in Typing /\ ~his'.on /\ his'.stored = his.stored /\ his'.run = his.run
      BY <1>1, <2>1
    <2> QED
      BY <2>2 DEF HistoryKept
  <1>3. CASE Recorded!Disturbed
    <2>1. PICK file \in Recorded!File, stored \in {<<>>} \union {<<e>> : e \in Recorded!Entry} :
             his' = [his EXCEPT !.file = file, !.stored = stored, !.own = FALSE]
      BY <1>3 DEF Recorded!Disturbed, Recorded!File
    <2>2. stored \in Seq(Recorded!Entry) /\ Len(stored) <= Limit
      <3>1. CASE stored = <<>>
        BY <1>1, <3>1, EmptySeq
      <3>2. CASE stored # <<>>
        <4>1. PICK e \in Recorded!Entry : stored = <<e>>
          BY <3>2
        <4>2. <<e>> \in Seq(Recorded!Entry) /\ Len(<<e>>) = 1
          OBVIOUS
        <4> QED
          BY <1>1, <4>1, <4>2
      <3> QED
        BY <3>1, <3>2
    <2>3. his' \in Typing /\ ~his'.own /\ his'.stored = stored /\ his'.run = his.run
      BY <1>1, <2>1, <2>2
    <2> QED
      BY <2>2, <2>3 DEF HistoryKept
  <1> QED
    BY <1>2, <1>3

LEMMA HistoryStep ==
    ASSUME HistoryKept(his), Recorded!Next
    PROVE  HistoryKept(his')
  BY LoadKept, DisturbedKept, EditorKept, RecallKept, SubmitKept DEF Recorded!Next

LEMMA HistoryStart == Recorded!Init => HistoryKept(his)
  <1> SUFFICES ASSUME Recorded!Init PROVE HistoryKept(his)
    OBVIOUS
  <1> DEFINE alias == CHOOSE a \in Asked : TRUE
  <1>1. alias \in Asked /\ Limit \in Nat \ {0}
    BY TerminalAssumption
  <1> DEFINE run == [entries |-> <<>>, saves |-> FALSE, alias |-> alias,
                     editor |-> Recorded!NoLine, position |-> 0, current |-> Recorded!NoLine,
                     log |-> <<>>, typed |-> Recorded!NoLine]
  <1>2. his = [on |-> FALSE, file |-> "missing", stored |-> <<>>, own |-> TRUE, run |-> run]
    BY DEF Recorded!Init
  <1> HIDE DEF alias
  <1>3. run \in Recorded!Running /\ run.entries = <<>> /\ run.log = <<>>
        /\ run.editor = Recorded!NoLine
    BY <1>1, EmptySeq DEF Recorded!Running
  <1>4. Recorded!NewestOf(<<>>) = <<>>
    BY <1>1 DEF Recorded!NewestOf
  <1> HIDE DEF run
  <1>5. his \in [on : BOOLEAN, own : BOOLEAN, file : Recorded!File,
                 stored : Seq(Recorded!Entry), run : Recorded!Running]
        /\ his.run = run /\ ~his.on /\ his.stored = <<>>
    BY <1>2, <1>3, EmptySeq DEF Recorded!File
  <1>6. Drafted(run)
    BY <1>3 DEF Drafted
  <1> QED
    BY <1>1, <1>3, <1>4, <1>5, <1>6 DEF HistoryKept

(* What the runs see of it.                                                *)
LEMMA HistoryIsKept ==
    ASSUME HistoryKept(his)
    PROVE  Recorded!HistoryIsNewest /\ Recorded!DraftReturns /\ Recorded!TypeOK
  <1>1. his.run.log \in Seq(Recorded!Entry)
    BY DEF HistoryKept, Recorded!Running
  <1>2. Len(his.run.entries) <= Limit
    BY <1>1, NewestOfSome DEF HistoryKept
  <1> QED
    BY <1>2 DEF HistoryKept, StoredOf, Drafted, Recorded!HistoryIsNewest,
                Recorded!DraftReturns, Recorded!TypeOK

-----------------------------------------------------------------------------
(* The modes that own a key press *)

(* What holds of the modes together: an answer awaited or followed shows   *)
(* under no row, menu or editor that would lose its data to it.            *)
Modal(u) ==
    /\ u.detail \/ u.rowDetail =>
          /\ u.view.hits > 0 /\ ~u.view.list
          /\ ~u.loading /\ ~u.following /\ ~u.filtering /\ "editor" \notin u.open
    /\ "editor" \in u.open \/ "query" \in u.open \/ "history" \in u.open => Keys!QueryTarget(u.view)
    /\ "query" \in u.open => "editor" \in u.open /\ ~u.loading
    /\ IF "history" \in u.open
       THEN u.entry < u.recorded /\ ~u.loading /\ "editor" \notin u.open
       ELSE u.entry = 0
    /\ "form" \in u.open => u.view.list
    /\ u.loading \/ u.following => ~u.view.list
    /\ IF u.filtering THEN u.restore # {} /\ u.open = {} ELSE u.restore = {}
    /\ u.following => u.open \subseteq {"quit"}

Ready(u) == u \in Keys!Ui /\ Modal(u)

(* The input belongs to something that is open, or to the view.            *)
LEMMA OwnerIsOpen ==
    ASSUME NEW u, u.open \subseteq Keys!Popup
    PROVE  IF u.open = {} THEN Keys!Owner(u) = "view" ELSE Keys!Owner(u) \in u.open
  <1> DEFINE asks(i) == /\ Keys!Priority[i] \in u.open
                        /\ \A j \in 1 .. (i - 1) : Keys!Priority[j] \notin u.open
  <1>1. CASE u.open = {}
    BY <1>1 DEF Keys!Owner
  <1>2. CASE u.open # {}
    <2>1. DOMAIN Keys!Priority = 1 .. 8
      BY DEF Keys!Priority
    <2>2. /\ Keys!Priority[1] = "quit" /\ Keys!Priority[2] = "query"
          /\ Keys!Priority[3] = "connect" /\ Keys!Priority[4] = "form"
          /\ Keys!Priority[5] = "editor" /\ Keys!Priority[6] = "history"
          /\ Keys!Priority[7] = "display" /\ Keys!Priority[8] = "theme"
      BY DEF Keys!Priority
    <2>3. \E i \in 1 .. 8 : asks(i)
      <3>1. CASE Keys!Priority[1] \in u.open
        BY <3>1
      <3>2. CASE Keys!Priority[1] \notin u.open /\ Keys!Priority[2] \in u.open
        BY <3>2
      <3> DEFINE none(n) == \A j \in 1 .. n : Keys!Priority[j] \notin u.open
      <3>3. none(2) \/ \E i \in 1 .. 2 : asks(i)
        BY <3>1, <3>2
      <3>4. none(3) \/ \E i \in 1 .. 3 : asks(i)
        BY <3>3
      <3>5. none(4) \/ \E i \in 1 .. 4 : asks(i)
        BY <3>4
      <3>6. none(5) \/ \E i \in 1 .. 5 : asks(i)
        BY <3>5
      <3>7. none(6) \/ \E i \in 1 .. 6 : asks(i)
        BY <3>6
      <3>8. none(7) \/ \E i \in 1 .. 7 : asks(i)
        BY <3>7
      <3>9. none(8) \/ \E i \in 1 .. 8 : asks(i)
        BY <3>8
      <3>10. ~none(8)
        BY <1>2, <2>2 DEF Keys!Popup
      <3> QED
        BY <3>9, <3>10
    <2>4. asks(CHOOSE i \in DOMAIN Keys!Priority : asks(i))
      BY <2>1, <2>3
    <2> QED
      BY <1>2, <2>4 DEF Keys!Owner
  <1> QED
    BY <1>1, <1>2

(* What the functions that the handlers are made of change.                *)
LEMMA Invalidated ==
    ASSUME NEW u \in Keys!Ui
    PROVE  LET n == Keys!Invalidate(u) IN
           /\ n \in Keys!Ui
           /\ ~n.following /\ ~n.loading /\ n.open = u.open \ {"query"}
           /\ n.view = u.view /\ n.parents = u.parents /\ n.restore = u.restore
           /\ (n.detail <=> u.detail) /\ (n.rowDetail <=> u.rowDetail)
           /\ (n.filtering <=> u.filtering) /\ n.recorded = u.recorded /\ n.entry = u.entry
           /\ (n.quit <=> u.quit) /\ (n.help <=> u.help)
  BY DEF Keys!Invalidate, Keys!Ui

LEMMA Loaded ==
    ASSUME NEW u \in Keys!Ui, NEW wanted \in {"page", "query", "follow"}
    PROVE  LET n == Keys!Load(u, wanted) IN
           /\ n \in Keys!Ui
           /\ ~n.following /\ n.loading /\ n.open = u.open \ {"query"}
           /\ n.view = u.view /\ n.parents = u.parents /\ n.restore = u.restore
           /\ (n.detail <=> u.detail) /\ ~n.rowDetail
           /\ (n.filtering <=> u.filtering) /\ n.recorded = u.recorded /\ n.entry = u.entry
           /\ (n.quit <=> u.quit)
  <1> DEFINE m == Keys!Invalidate(u)
             n == [m EXCEPT !.rowDetail = FALSE, !.loading = TRUE, !.asked = wanted]
  <1>1. /\ m \in Keys!Ui /\ ~m.following /\ m.open = u.open \ {"query"}
        /\ m.view = u.view /\ m.parents = u.parents /\ m.restore = u.restore
        /\ (m.detail <=> u.detail) /\ (m.filtering <=> u.filtering)
        /\ m.recorded = u.recorded /\ m.entry = u.entry /\ (m.quit <=> u.quit)
    BY DEF Keys!Invalidate, Keys!Ui
  <1> HIDE DEF m
  <1>2. n \in Keys!Ui
    BY <1>1 DEF Keys!Ui
  <1>3. /\ ~n.rowDetail /\ n.loading
        /\ (n.following <=> m.following) /\ n.open = m.open
        /\ n.view = m.view /\ n.parents = m.parents /\ n.restore = m.restore
        /\ (n.detail <=> m.detail) /\ (n.filtering <=> m.filtering)
        /\ n.recorded = m.recorded /\ n.entry = m.entry /\ (n.quit <=> m.quit)
    BY <1>1 DEF Keys!Ui
  <1> HIDE DEF n
  <1>4. Keys!Load(u, wanted) = n
    BY DEF Keys!Load, m, n
  <1> QED
    BY <1>1, <1>2, <1>3, <1>4

(* The connection list, and a view before its first page.                  *)
LEMMA FreshViews ==
    /\ Keys!Connections \in Keys!View /\ Keys!Connections.list
    /\ \A leaf, scope \in BOOLEAN : Keys!NewView(leaf, scope) \in Keys!View
                                    /\ ~Keys!NewView(leaf, scope).list
  <1>1. 0 \in Keys!Rows /\ 1 \in Keys!Rows
    BY TerminalAssumption DEF Keys!Rows
  <1>2. Keys!Connections \in Keys!View /\ Keys!Connections.list
    BY <1>1 DEF Keys!Connections, Keys!View
  <1>3. ASSUME NEW leaf \in BOOLEAN, NEW scope \in BOOLEAN
        PROVE  Keys!NewView(leaf, scope) \in Keys!View /\ ~Keys!NewView(leaf, scope).list
    BY <1>1 DEF Keys!NewView, Keys!View
  <1> QED
    BY <1>2, <1>3

LEMMA AtConnections ==
    ASSUME NEW u \in Keys!Ui
    PROVE  LET n == Keys!ToConnections(u) IN
           /\ n \in Keys!Ui
           /\ ~n.following /\ ~n.loading /\ n.open = u.open \ {"query", "editor"}
           /\ n.view = Keys!Connections /\ n.restore = {}
           /\ ~n.detail /\ ~n.rowDetail /\ ~n.filtering
           /\ n.recorded = u.recorded /\ n.entry = u.entry /\ (n.quit <=> u.quit)
  BY FreshViews, EmptySeq, ZenonT(60) DEF Keys!ToConnections, Keys!Invalidate, Keys!Ui

LEMMA EditorOpened ==
    ASSUME NEW u \in Keys!Ui
    PROVE  LET n == Keys!OpenEditor(u) IN
           /\ n \in Keys!Ui
           /\ (n.following <=> u.following) /\ (n.loading <=> u.loading)
           /\ n.open = u.open \cup {"editor"}
           /\ n.view = u.view /\ n.parents = u.parents /\ n.restore = u.restore
           /\ ~n.detail /\ ~n.rowDetail
           /\ (n.filtering <=> u.filtering) /\ n.recorded = u.recorded /\ n.entry = u.entry
           /\ (n.quit <=> u.quit)
  BY DEF Keys!OpenEditor, Keys!Ui, Keys!Popup

LEMMA QuerySubmitted ==
    ASSUME NEW u \in Keys!Ui
    PROVE  LET n == Keys!SubmitQuery(u) IN
           /\ n \in Keys!Ui
           /\ ~n.following /\ n.loading /\ n.open = u.open \ {"query"}
           /\ n.view = u.view /\ n.parents = u.parents /\ n.restore = u.restore
           /\ (n.detail <=> u.detail) /\ ~n.rowDetail
           /\ (n.filtering <=> u.filtering) /\ n.recorded >= u.recorded /\ n.entry = u.entry
           /\ (n.quit <=> u.quit)
  <1> DEFINE more == IF u.recorded = HistoryLimit THEN u.recorded ELSE u.recorded + 1
             t == [u EXCEPT !.recorded = more]
  <1>1. more \in 0 .. HistoryLimit /\ more >= u.recorded
    BY TerminalAssumption DEF Keys!Ui
  <1> HIDE DEF more
  <1>2. t \in Keys!Ui /\ t.open = u.open /\ t.view = u.view /\ t.parents = u.parents
        /\ t.restore = u.restore /\ (t.detail <=> u.detail) /\ (t.filtering <=> u.filtering)
        /\ t.recorded = more /\ t.entry = u.entry /\ (t.quit <=> u.quit)
    BY <1>1 DEF Keys!Ui
  <1>3. Keys!SubmitQuery(u) = Keys!Load(t, "query")
    BY DEF Keys!SubmitQuery, more
  <1> HIDE DEF t
  <1> QED
    BY <1>1, <1>2, <1>3, Loaded

(* The filter is again what it was, with the rows it shows.                *)
LEMMA FilterRestored ==
    ASSUME NEW u \in Keys!Ui, NEW hits \in Keys!Rows
    PROVE  LET n == Keys!RestoreFilter(u, hits) IN
           /\ n \in Keys!Ui /\ ~n.filtering /\ n.restore = {}
           /\ (n.following <=> u.following) /\ (n.loading <=> u.loading) /\ n.open = u.open
           /\ (n.view.list <=> u.view.list)
           /\ (n.detail <=> u.detail) /\ (n.rowDetail <=> u.rowDetail)
           /\ n.recorded = u.recorded /\ n.entry = u.entry /\ (n.quit <=> u.quit)
           /\ (u.restore = {} => n.view = u.view)
  <1>1. CASE u.restore = {}
    BY <1>1 DEF Keys!RestoreFilter, Keys!Ui
  <1>2. CASE u.restore # {}
    <2> DEFINE filter == TRUE \in u.restore
               v == [u.view EXCEPT !.filter = filter, !.hits = hits]
    <2>1. filter \in BOOLEAN
      OBVIOUS
    <2> HIDE DEF filter
    <2>2. v \in Keys!View /\ (v.list <=> u.view.list)
      BY <2>1 DEF Keys!Ui, Keys!View
    <2>3. Keys!RestoreFilter(u, hits) = [u EXCEPT !.filtering = FALSE, !.restore = {},
                                                  !.view = v]
      BY <1>2 DEF Keys!RestoreFilter, Keys!Ui, Keys!View, filter
    <2> HIDE DEF v
    <2> QED
      BY <1>2, <2>2, <2>3, ZenonT(60) DEF Keys!Ui
  <1> QED
    BY <1>1, <1>2

(* Leaving the editor drops its request and a confirmation of it.          *)
LEMMA QueryClosed ==
    ASSUME NEW u, Ready(u)
    PROVE  Ready(Keys!CloseQuery(u))
  <1> DEFINE n == Keys!Invalidate(u)
             c == Keys!CloseQuery(u)
  <1>1. u \in Keys!Ui /\ Modal(u)
    BY DEF Ready
  <1>2. /\ n \in Keys!Ui
        /\ ~n.following /\ ~n.loading /\ n.open = u.open \ {"query"}
        /\ n.view = u.view /\ n.parents = u.parents /\ n.restore = u.restore
        /\ (n.detail <=> u.detail) /\ (n.rowDetail <=> u.rowDetail)
        /\ (n.filtering <=> u.filtering) /\ n.recorded = u.recorded /\ n.entry = u.entry
    BY <1>1, Invalidated
  <1>3. c = [n EXCEPT !.open = @ \ {"editor"}]
    BY DEF Keys!CloseQuery
  <1> HIDE DEF n
  <1>4. c \in Keys!Ui /\ c.open = u.open \ {"query", "editor"}
        /\ ~c.following /\ ~c.loading /\ c.view = u.view /\ c.restore = u.restore
        /\ (c.detail <=> u.detail) /\ (c.rowDetail <=> u.rowDetail)
        /\ (c.filtering <=> u.filtering) /\ c.recorded = u.recorded /\ c.entry = u.entry
    BY <1>2, <1>3 DEF Keys!Ui
  <1> HIDE DEF c
  <1>5. Modal(c)
    BY <1>1, <1>4 DEF Modal
  <1> QED
    BY <1>4, <1>5 DEF Ready, c

(* A popup that covers a request leaves it awaited, unless the program     *)
(* ends or the editor cancels it.                                          *)
Covers(u) ==
    u.open # {} /\ u.loading => ui'.loading \/ ui'.quit \/ Keys!Owner(u) = "editor"

(* What the popups and menus do with a key.                                *)
LEMMA PopupReady ==
    ASSUME NEW u, Ready(u), NEW a \in Keys!Action,
           \/ Keys!Owner(u) = "quit" /\ Keys!ActQuit(u, a)
           \/ Keys!Owner(u) = "query" /\ Keys!ActConfirmation(u, a)
           \/ Keys!Owner(u) = "connect" /\ Keys!ActConnectError(u, a)
           \/ Keys!Owner(u) = "form" /\ Keys!ActForm(u, a)
           \/ Keys!Owner(u) = "editor" /\ Keys!ActEditor(u, a)
    PROVE  Ready(ui') /\ Covers(u)
  <1>1. u \in Keys!Ui /\ Modal(u) /\ u.open \subseteq Keys!Popup
    BY DEF Ready, Keys!Ui
  <1>2. u.open # {} => Keys!Owner(u) \in u.open
    BY <1>1, OwnerIsOpen
  <1>3. Keys!Owner(u) # "view" => u.open # {} /\ Keys!Owner(u) \in u.open
    BY <1>1, OwnerIsOpen
  <1>4. ASSUME NEW p \in {"quit", "query", "connect", "form"}, ui' = [u EXCEPT !.open = @ \ {p}]
        PROVE  Ready(ui') /\ Covers(u)
    <2>1. ui' \in Keys!Ui /\ ui'.open = u.open \ {p}
          /\ (ui'.following <=> u.following) /\ (ui'.loading <=> u.loading)
          /\ ui'.view = u.view /\ ui'.restore = u.restore
          /\ (ui'.detail <=> u.detail) /\ (ui'.rowDetail <=> u.rowDetail)
          /\ (ui'.filtering <=> u.filtering) /\ ui'.recorded = u.recorded /\ ui'.entry = u.entry
      BY <1>1, <1>4 DEF Keys!Ui
    <2>2. Modal(ui')
      BY <1>1, <2>1 DEF Modal
    <2> QED
      BY <2>1, <2>2 DEF Ready, Covers
  <1>5. CASE Keys!Owner(u) = "quit" /\ Keys!ActQuit(u, a)
    <2>1. CASE ui' = [Keys!Invalidate(u) EXCEPT !.quit = TRUE]
      <3> DEFINE n == Keys!Invalidate(u)
      <3>1. /\ n \in Keys!Ui
            /\ ~n.following /\ ~n.loading /\ n.open = u.open \ {"query"}
            /\ n.view = u.view /\ n.parents = u.parents /\ n.restore = u.restore
            /\ (n.detail <=> u.detail) /\ (n.rowDetail <=> u.rowDetail)
            /\ (n.filtering <=> u.filtering) /\ n.recorded = u.recorded /\ n.entry = u.entry
        BY <1>1, Invalidated
      <3> HIDE DEF n
      <3>2. ui' = [n EXCEPT !.quit = TRUE]
        BY <2>1 DEF n
      <3>3. ui' \in Keys!Ui /\ ui'.open = n.open /\ ui'.quit
            /\ (ui'.following <=> n.following) /\ (ui'.loading <=> n.loading)
            /\ ui'.view = n.view /\ ui'.restore = n.restore
            /\ (ui'.detail <=> n.detail) /\ (ui'.rowDetail <=> n.rowDetail)
            /\ (ui'.filtering <=> n.filtering) /\ ui'.recorded = n.recorded
            /\ ui'.entry = n.entry
        BY <3>1, <3>2 DEF Keys!Ui
      <3>4. Modal(ui')
        BY <1>1, <3>1, <3>3 DEF Modal
      <3> QED
        BY <3>3, <3>4 DEF Ready, Covers
    <2> QED
      BY <1>4, <1>5, <2>1 DEF Keys!ActQuit
  <1>6. CASE Keys!Owner(u) = "query" /\ Keys!ActConfirmation(u, a)
    <2>1. CASE ui' = Keys!SubmitQuery([u EXCEPT !.open = @ \ {"query"}])
      <3> DEFINE t == [u EXCEPT !.open = @ \ {"query"}]
      <3>1. /\ t \in Keys!Ui
            /\ t.open = u.open \ {"query"}
            /\ t.view = u.view /\ t.parents = u.parents /\ t.restore = u.restore
            /\ (t.detail <=> u.detail) /\ (t.rowDetail <=> u.rowDetail)
            /\ (t.filtering <=> u.filtering) /\ t.recorded = u.recorded /\ t.entry = u.entry
        BY <1>1 DEF Keys!Ui
      <3>2. ui' = Keys!SubmitQuery(t)
        BY <2>1
      <3> HIDE DEF t
      <3> DEFINE n == Keys!SubmitQuery(t)
      <3>3. /\ n \in Keys!Ui
            /\ ~n.following /\ n.loading /\ n.open = t.open \ {"query"}
            /\ n.view = t.view /\ n.restore = t.restore
            /\ (n.detail <=> t.detail) /\ ~n.rowDetail
            /\ (n.filtering <=> t.filtering) /\ n.recorded >= t.recorded /\ n.entry = t.entry
        BY <3>1, QuerySubmitted
      <3> HIDE DEF n
      <3>4. u.recorded \in Nat /\ u.entry \in Nat /\ n.recorded \in Nat
        BY <1>1, <3>3, TerminalAssumption DEF Keys!Ui
      <3>5. "query" \in u.open
        BY <1>3, <1>6
      <3>6. Modal(n)
        BY <1>1, <3>1, <3>3, <3>4, <3>5 DEF Modal, Keys!QueryTarget
      <3> QED
        BY <3>2, <3>3, <3>6 DEF Ready, Covers, n
    <2> QED
      BY <1>4, <1>6, <2>1 DEF Keys!ActConfirmation
  <1>7. CASE Keys!Owner(u) = "connect" /\ Keys!ActConnectError(u, a)
    BY <1>4, <1>7 DEF Keys!ActConnectError
  <1>8. CASE Keys!Owner(u) = "form" /\ Keys!ActForm(u, a)
    BY <1>4, <1>8 DEF Keys!ActForm
  <1>9. CASE Keys!Owner(u) = "editor" /\ Keys!ActEditor(u, a)
    <2>1. ui' = Keys!CloseQuery(u)
      BY <1>9 DEF Keys!ActEditor
    <2> QED
      BY <1>3, <1>9, <2>1, QueryClosed DEF Covers
  <1> QED
    BY <1>5, <1>6, <1>7, <1>8, <1>9

(* The menus: the query history, display and theme.                        *)
LEMMA MenuReady ==
    ASSUME NEW u, Ready(u), NEW a \in Keys!Action,
           \/ Keys!Owner(u) = "history" /\ Keys!ActHistory(u, a)
           \/ Keys!Owner(u) = "display" /\ Keys!ActDisplay(u, a)
           \/ Keys!Owner(u) = "theme" /\ Keys!ActTheme(u, a)
    PROVE  Ready(ui') /\ Covers(u)
  <1>1. u \in Keys!Ui /\ Modal(u) /\ u.open \subseteq Keys!Popup
    BY DEF Ready, Keys!Ui
  <1>2. u.open # {} /\ Keys!Owner(u) \in u.open
    BY <1>1, OwnerIsOpen
  <1>3. CASE Keys!Owner(u) = "history" /\ Keys!ActHistory(u, a)
    <2> DEFINE closed == [u EXCEPT !.open = @ \ {"history"}, !.entry = 0]
    <2>1. closed \in Keys!Ui /\ closed.open = u.open \ {"history"} /\ closed.entry = 0
          /\ (closed.following <=> u.following) /\ (closed.loading <=> u.loading)
          /\ closed.view = u.view /\ closed.restore = u.restore
          /\ (closed.detail <=> u.detail) /\ (closed.rowDetail <=> u.rowDetail)
          /\ (closed.filtering <=> u.filtering) /\ closed.recorded = u.recorded
      BY <1>1 DEF Keys!Ui
    <2>2. u.entry \in Nat /\ u.recorded \in 0 .. HistoryLimit /\ HistoryLimit \in Nat
      BY <1>1, TerminalAssumption DEF Keys!Ui
    <2>3. ASSUME NEW entry \in Nat, entry < u.recorded, ui' = [u EXCEPT !.entry = entry]
          PROVE  Ready(ui') /\ Covers(u)
      <3>1. ui' \in Keys!Ui /\ ui'.open = u.open /\ ui'.entry = entry
            /\ (ui'.following <=> u.following) /\ (ui'.loading <=> u.loading)
            /\ ui'.view = u.view /\ ui'.restore = u.restore
            /\ (ui'.detail <=> u.detail) /\ (ui'.rowDetail <=> u.rowDetail)
            /\ (ui'.filtering <=> u.filtering) /\ ui'.recorded = u.recorded
        BY <1>1, <2>3 DEF Keys!Ui
      <3>2. Modal(ui')
        BY <1>1, <1>2, <1>3, <2>3, <3>1 DEF Modal
      <3> QED
        BY <3>1, <3>2 DEF Ready, Covers
    <2>4. CASE u.entry > 0 /\ ui' = [u EXCEPT !.entry = @ - 1]
      <3>1. u.entry - 1 \in Nat /\ u.entry - 1 < u.recorded
        BY <1>1, <1>2, <1>3, <2>2, <2>4 DEF Modal
      <3> QED
        BY <2>3, <2>4, <3>1
    <2>5. CASE u.entry + 1 < u.recorded /\ ui' = [u EXCEPT !.entry = @ + 1]
      BY <2>2, <2>3, <2>5
    <2>6. CASE ui' = closed
      <3> HIDE DEF closed
      <3>1. Modal(closed)
        BY <1>1, <2>1 DEF Modal
      <3> QED
        BY <2>1, <2>6, <3>1 DEF Ready, Covers
    <2>7. CASE ui' = Keys!OpenEditor(closed)
      <3> HIDE DEF closed
      <3> DEFINE n == Keys!OpenEditor(closed)
      <3>1. /\ n \in Keys!Ui
            /\ (n.following <=> closed.following) /\ (n.loading <=> closed.loading)
            /\ n.open = closed.open \cup {"editor"}
            /\ n.view = closed.view /\ n.restore = closed.restore
            /\ ~n.detail /\ ~n.rowDetail
            /\ (n.filtering <=> closed.filtering) /\ n.recorded = closed.recorded
            /\ n.entry = closed.entry
        BY <2>1, EditorOpened
      <3> HIDE DEF n
      <3>2. Modal(n)
        BY <1>1, <1>2, <1>3, <2>1, <3>1 DEF Modal
      <3> QED
        BY <2>1, <2>7, <3>1, <3>2 DEF Ready, Covers, n
    <2> QED
      BY <1>3, <2>4, <2>5, <2>6, <2>7 DEF Keys!ActHistory
  <1>4. ASSUME NEW open, open \subseteq u.open, u.open \subseteq open \cup {"display", "theme"},
               NEW help \in BOOLEAN,
               ui' = [u EXCEPT !.open = open, !.help = help]
        PROVE  Ready(ui') /\ Covers(u)
    <2>1. ui' \in Keys!Ui /\ ui'.open = open
          /\ (ui'.following <=> u.following) /\ (ui'.loading <=> u.loading)
          /\ ui'.view = u.view /\ ui'.restore = u.restore
          /\ (ui'.detail <=> u.detail) /\ (ui'.rowDetail <=> u.rowDetail)
          /\ (ui'.filtering <=> u.filtering) /\ ui'.recorded = u.recorded /\ ui'.entry = u.entry
      BY <1>1, <1>4 DEF Keys!Ui
    <2>2. Modal(ui')
      BY <1>1, <1>4, <2>1 DEF Modal
    <2> QED
      BY <2>1, <2>2 DEF Ready, Covers
  <1>5. CASE Keys!Owner(u) = "display" /\ Keys!ActDisplay(u, a)
    <2>1. CASE ui' = [u EXCEPT !.help = ~@]
      <3> DEFINE help == ~u.help
      <3>1. help \in BOOLEAN /\ ui' = [u EXCEPT !.open = u.open, !.help = help]
        BY <1>1, <2>1 DEF Keys!Ui
      <3> QED
        BY <1>4, <3>1
    <2>2. CASE ui' = [u EXCEPT !.open = @ \ {"display"}, !.help = FALSE]
      BY <1>4, <2>2
    <2> QED
      BY <1>5, <2>1, <2>2 DEF Keys!ActDisplay
  <1>6. CASE Keys!Owner(u) = "theme" /\ Keys!ActTheme(u, a)
    <2>1. u.help \in BOOLEAN
      BY <1>1 DEF Keys!Ui
    <2>2. ui' = [u EXCEPT !.open = u.open \ {"theme"}, !.help = u.help]
      BY <1>1, <1>6 DEF Keys!ActTheme, Keys!Ui
    <2> QED
      BY <1>4, <2>1, <2>2
  <1> QED
    BY <1>3, <1>5, <1>6

(* A page is asked for, under no row.                                      *)
LEMMA LoadReady ==
    ASSUME NEW u \in Keys!Ui, NEW wanted \in {"page", "query", "follow"}, u.open = {}, ~u.detail,
           ~u.view.list, ~u.filtering, u.restore = {}, u.entry = 0
    PROVE  Ready(Keys!Load(u, wanted))
  <1> DEFINE n == Keys!Load(u, wanted)
  <1>1. /\ n \in Keys!Ui
        /\ ~n.following /\ n.loading /\ n.open = {} /\ n.view = u.view /\ n.restore = {}
        /\ ~n.detail /\ ~n.rowDetail /\ ~n.filtering /\ n.entry = 0
    BY Loaded
  <1> HIDE DEF n
  <1>2. Modal(n)
    BY <1>1 DEF Modal
  <1> QED
    BY <1>1, <1>2 DEF Ready, n

(* Opening the selected row: a view of its own, or its detail.            *)
LEMMA SelectedReady ==
    ASSUME NEW u, Ready(u), u.open = {}, ~u.following, ~u.loading, ~u.filtering, u.view.hits > 0,
           Keys!OpenSelected(u)
    PROVE  Ready(ui')
  <1>1. u \in Keys!Ui /\ Modal(u) /\ u.restore = {} /\ u.entry = 0 /\ ~u.detail
    BY DEF Ready, Modal, Keys!OpenSelected
  <1>2. ASSUME NEW leaf \in BOOLEAN, NEW scope \in BOOLEAN,
               ui' = [Keys!Load([u EXCEPT !.parents = Append(@, u.view),
                                          !.view = Keys!NewView(leaf, scope)], "page")
                         EXCEPT !.opening = u.view.list]
        PROVE  Ready(ui')
    <2> DEFINE v == Keys!NewView(leaf, scope)
               t == [u EXCEPT !.parents = Append(@, u.view), !.view = v]
               n == Keys!Load(t, "page")
    <2>1. v \in Keys!View /\ ~v.list
      BY FreshViews
    <2> HIDE DEF v
    <2>2. u.view \in Keys!View /\ u.parents \in Seq(Keys!View)
      BY <1>1 DEF Keys!Ui
    <2>3. Append(u.parents, u.view) \in Seq(Keys!View)
      BY <2>2, AppendProperties
    <2>4. /\ t \in Keys!Ui /\ t.view = v /\ t.open = u.open /\ t.restore = u.restore
          /\ (t.detail <=> u.detail) /\ (t.filtering <=> u.filtering) /\ t.entry = u.entry
      BY <1>1, <2>1, <2>3 DEF Keys!Ui
    <2> HIDE DEF t
    <2>5. Ready(n)
      BY <1>1, <2>1, <2>4, LoadReady
    <2>6. ui' = [n EXCEPT !.opening = u.view.list]
      BY <1>2 DEF n, t, v
    <2> HIDE DEF n
    <2>7. u.view.list \in BOOLEAN
      BY <1>1 DEF Keys!Ui, Keys!View
    <2>8. n \in Keys!Ui /\ Modal(n)
      BY <2>5 DEF Ready
    <2>9. ui' \in Keys!Ui /\ ui'.open = n.open /\ ui'.view = n.view /\ ui'.restore = n.restore
          /\ (ui'.following <=> n.following) /\ (ui'.loading <=> n.loading)
          /\ (ui'.detail <=> n.detail) /\ (ui'.rowDetail <=> n.rowDetail)
          /\ (ui'.filtering <=> n.filtering) /\ ui'.recorded = n.recorded /\ ui'.entry = n.entry
      BY <2>6, <2>7, <2>8 DEF Keys!Ui
    <2>10. Modal(ui')
      BY <2>8, <2>9 DEF Modal
    <2> QED
      BY <2>9, <2>10 DEF Ready
  <1>3. ASSUME ~u.view.list,
               ui' = [u EXCEPT !.detail = TRUE] \/ ui' = [u EXCEPT !.rowDetail = TRUE]
        PROVE  Ready(ui')
    <2>1. ui' \in Keys!Ui /\ ui'.open = u.open /\ ui'.view = u.view /\ ui'.restore = u.restore
          /\ (ui'.following <=> u.following) /\ (ui'.loading <=> u.loading)
          /\ (ui'.filtering <=> u.filtering) /\ ui'.recorded = u.recorded /\ ui'.entry = u.entry
      BY <1>1, <1>3 DEF Keys!Ui
    <2>2. Modal(ui')
      BY <1>1, <1>3, <2>1 DEF Modal
    <2> QED
      BY <2>1, <2>2 DEF Ready
  <1> QED
    BY <1>2, <1>3 DEF Keys!OpenSelected

(* Going back from a detail, or to the view behind.                        *)
LEMMA BackReady ==
    ASSUME NEW u, Ready(u), u.open = {}, ~u.following, ~u.filtering,
           u.help \/ u.detail \/ u.rowDetail \/ u.parents # <<>>
    PROVE  Ready(Keys!GoBack(u))
  <1> DEFINE n == Keys!Invalidate(u)
             back == u.parents[Len(u.parents)]
             rest == SubSeq(u.parents, 1, Len(u.parents) - 1)
             leave == [n EXCEPT !.view = back, !.parents = rest]
  <1>1. u \in Keys!Ui /\ Modal(u) /\ u.restore = {} /\ u.entry = 0
    BY DEF Ready, Modal
  <1>2. /\ n \in Keys!Ui
        /\ ~n.following /\ ~n.loading /\ n.open = {} /\ n.restore = {}
        /\ (n.detail <=> u.detail) /\ (n.rowDetail <=> u.rowDetail)
        /\ ~n.filtering /\ n.entry = 0
    BY <1>1, Invalidated
  <1>3. ASSUME u.parents # <<>> PROVE back \in Keys!View /\ rest \in Seq(Keys!View)
    <2>1. u.parents \in Seq(Keys!View)
      BY <1>1 DEF Keys!Ui
    <2> HIDE DEF Keys!View
    <2>2. Len(u.parents) \in Nat \ {0} /\ \A i \in 1 .. Len(u.parents) : u.parents[i] \in Keys!View
      BY <1>3, <2>1, EmptySeq, LenProperties, ElementOfSeq
    <2>3. 1 \in Int /\ Len(u.parents) - 1 \in Int
          /\ \A i \in 1 .. Len(u.parents) - 1 : u.parents[i] \in Keys!View
      BY <2>2
    <2> QED
      BY <2>2, <2>3, SubSeqProperties
  <1>4. ASSUME NEW t \in Keys!Ui, t.open = {}, t.view = u.view, t.restore = {},
               ~t.following, t.loading <=> u.loading, t.detail => u.detail,
               t.rowDetail => u.rowDetail, ~t.filtering, t.entry = 0
        PROVE  Ready(t)
    BY <1>1, <1>4 DEF Ready, Modal
  <1>5. CASE u.help
    <2>1. Keys!GoBack(u) = [u EXCEPT !.help = FALSE]
      BY <1>5 DEF Keys!GoBack
    <2> QED
      BY <1>1, <1>4, <2>1 DEF Keys!Ui
  <1>6. CASE ~u.help /\ u.detail /\ ~(~u.rowDetail /\ Keys!SingleValue(u.view) /\ u.parents # <<>>)
    <2>1. Keys!GoBack(u) = [u EXCEPT !.detail = FALSE]
      BY <1>6 DEF Keys!GoBack
    <2> QED
      BY <1>1, <1>4, <2>1 DEF Keys!Ui
  <1>7. CASE ~u.help /\ ~u.detail /\ u.rowDetail
    <2>1. Keys!GoBack(u) = [u EXCEPT !.rowDetail = FALSE]
      BY <1>7 DEF Keys!GoBack
    <2> QED
      BY <1>1, <1>4, <2>1 DEF Keys!Ui
  <1>8. CASE /\ ~u.help /\ ~u.rowDetail /\ u.parents # <<>>
             /\ u.detail => Keys!SingleValue(u.view)
    <2> DEFINE t == [n EXCEPT !.view = back, !.parents = rest, !.detail = FALSE]
    <2>1. Keys!GoBack(u) = t
      <3>1. CASE u.detail
        <4>1. Keys!GoBack(u) = [leave EXCEPT !.detail = FALSE]
          BY <1>8, <3>1 DEF Keys!GoBack
        <4> HIDE DEF n, back, rest
        <4> QED
          BY <1>2, <4>1 DEF Keys!Ui
      <3>2. CASE ~u.detail
        <4>1. Keys!GoBack(u) = leave /\ n.detail = FALSE
          BY <1>1, <1>2, <1>8, <3>2 DEF Keys!GoBack, Keys!Ui
        <4> HIDE DEF n, back, rest
        <4> QED
          BY <1>2, <4>1 DEF Keys!Ui
      <3> QED
        BY <3>1, <3>2
    <2>2. back \in Keys!View /\ rest \in Seq(Keys!View)
      BY <1>3, <1>8
    <2> HIDE DEF n, back, rest
    <2>3. t \in Keys!Ui /\ t.open = {} /\ t.restore = {} /\ ~t.following /\ ~t.loading
          /\ ~t.detail /\ ~t.rowDetail /\ ~t.filtering /\ t.entry = 0
      BY <1>2, <1>8, <2>2 DEF Keys!Ui
    <2> HIDE DEF t
    <2>4. Modal(t)
      BY <2>3 DEF Modal
    <2> QED
      BY <2>1, <2>3, <2>4 DEF Ready
  <1> QED
    BY <1>5, <1>6, <1>7, <1>8

(* The connection list again, or the page again.                           *)
LEMMA RefreshReady ==
    ASSUME NEW u, Ready(u), u.open = {}, ~u.following, ~u.filtering, Keys!Refresh(u)
    PROVE  Ready(ui')
  <1>1. u \in Keys!Ui /\ Modal(u) /\ u.restore = {} /\ u.entry = 0
    BY DEF Ready, Modal
  <1>2. CASE ~u.view.list /\ ui' = Keys!Load([u EXCEPT !.detail = FALSE], "page")
    <2> DEFINE t == [u EXCEPT !.detail = FALSE]
    <2>1. t \in Keys!Ui /\ t.open = {} /\ ~t.detail /\ ~t.view.list /\ ~t.filtering
          /\ t.restore = {} /\ t.entry = 0
      BY <1>1, <1>2 DEF Keys!Ui
    <2>2. ui' = Keys!Load(t, "page")
      BY <1>2
    <2> HIDE DEF t
    <2> QED
      BY <2>1, <2>2, LoadReady
  <1>3. ASSUME NEW hits \in 0 .. 1, u.view.list,
               ui' = [Keys!ToConnections(u) EXCEPT !.view.filter = u.view.filter, !.view.hits = hits]
        PROVE  Ready(ui')
    <2> DEFINE n == Keys!ToConnections(u)
               v == [n.view EXCEPT !.filter = u.view.filter, !.hits = hits]
    <2>1. /\ n \in Keys!Ui
          /\ ~n.following /\ ~n.loading /\ n.open = {} /\ n.restore = {} /\ ~n.detail
          /\ ~n.rowDetail /\ ~n.filtering /\ n.entry = 0
      BY <1>1, AtConnections
    <2>2. ui' = [n EXCEPT !.view.filter = u.view.filter, !.view.hits = hits]
      BY <1>3
    <2> HIDE DEF n
    <2>3. u.view.filter \in BOOLEAN /\ hits \in Keys!Rows
      BY <1>1, <1>3, TerminalAssumption DEF Keys!Ui, Keys!View, Keys!Rows
    <2>4. v \in Keys!View
      BY <2>1, <2>3 DEF Keys!Ui, Keys!View
    <2>5. ui' = [n EXCEPT !.view = v]
      BY <2>1, <2>2 DEF Keys!Ui, Keys!View
    <2> HIDE DEF v
    <2>6. ui' \in Keys!Ui /\ ui'.open = {} /\ ui'.restore = {} /\ ~ui'.detail /\ ~ui'.rowDetail
          /\ ~ui'.following /\ ~ui'.loading /\ ~ui'.filtering /\ ui'.entry = 0
      BY <2>1, <2>4, <2>5 DEF Keys!Ui
    <2>7. Modal(ui')
      BY <2>6 DEF Modal
    <2> QED
      BY <2>6, <2>7 DEF Ready
  <1> QED
    BY <1>2, <1>3 DEF Keys!Refresh

(* What the view does with an action that is available to it.              *)
LEMMA ViewReady ==
    ASSUME NEW u, Ready(u), u.open = {}, NEW a \in Keys!Action, Keys!Available(u, a),
           u.following => a = "Quit", u.filtering => a = "Cancel", Keys!ActView(u, a)
    PROVE  Ready(ui')
  <1>1. u \in Keys!Ui /\ Modal(u) /\ u.entry = 0
    BY DEF Ready, Modal
  <1>2. /\ a = "Add" => u.view.list /\ ~u.detail /\ ~u.rowDetail
        /\ a = "Follow" => (u.following \/ ~u.loading) /\ ~u.detail /\ ~u.rowDetail /\ ~u.view.list
        /\ a = "Query" => (u.following \/ ~u.loading) /\ Keys!QueryTarget(u.view)
        /\ a = "History" => (u.following \/ ~u.loading) /\ ~u.detail /\ ~u.rowDetail
                            /\ Keys!QueryTarget(u.view)
        /\ a = "Filter" => ~u.detail /\ ~u.rowDetail
        /\ a = "Columns" => (u.following \/ ~u.loading) /\ ~u.detail /\ ~u.rowDetail
        /\ a = "Back" => u.help \/ u.detail \/ u.rowDetail \/ u.parents # <<>>
        /\ a = "Open" => (u.following \/ ~u.loading) /\ u.view.hits > 0
    BY DEF Keys!Available
  <1>3. ASSUME NEW p \in {"", "history", "display", "form", "theme", "quit"}, NEW help \in BOOLEAN,
               ui' = [u EXCEPT !.open = @ \cup ({p} \cap Keys!Popup), !.help = help],
               p # "" => ~u.filtering, u.following => p \in {"", "quit"},
               p = "form" => u.view.list,
               p = "history" => ~u.loading /\ Keys!QueryTarget(u.view) /\ u.recorded > 0
        PROVE  Ready(ui')
    <2> DEFINE open == {p} \cap Keys!Popup
    <2>1. ui' \in Keys!Ui /\ ui'.open = open
          /\ (ui'.following <=> u.following) /\ (ui'.loading <=> u.loading)
          /\ ui'.view = u.view /\ ui'.restore = u.restore
          /\ (ui'.detail <=> u.detail) /\ (ui'.rowDetail <=> u.rowDetail)
          /\ (ui'.filtering <=> u.filtering) /\ ui'.recorded = u.recorded /\ ui'.entry = u.entry
      BY <1>1, <1>3 DEF Keys!Ui
    <2>2. open \subseteq {p} /\ (p = "" => open = {})
      BY DEF Keys!Popup
    <2> HIDE DEF open
    <2>3. Modal(ui')
      BY <1>1, <1>3, <2>1, <2>2 DEF Modal
    <2> QED
      BY <2>1, <2>3 DEF Ready
  <1>4. u.help \in BOOLEAN
    BY <1>1 DEF Keys!Ui
  <1>5. CASE a = "Follow" /\ ui' = [Keys!Invalidate(u) EXCEPT !.following = TRUE, !.loading = TRUE,
                                                              !.asked = "follow"]
    <2> DEFINE n == Keys!Invalidate(u)
    <2>1. /\ n \in Keys!Ui /\ n.open = {}
          /\ n.view = u.view /\ n.restore = u.restore
          /\ (n.detail <=> u.detail) /\ (n.rowDetail <=> u.rowDetail)
          /\ (n.filtering <=> u.filtering) /\ n.entry = u.entry
      BY <1>1, Invalidated
    <2>2. ui' = [n EXCEPT !.following = TRUE, !.loading = TRUE, !.asked = "follow"]
      BY <1>5
    <2> HIDE DEF n
    <2>3. ui' \in Keys!Ui /\ ui'.open = {}
          /\ ui'.view = u.view /\ ui'.restore = u.restore
          /\ (ui'.detail <=> u.detail) /\ (ui'.rowDetail <=> u.rowDetail)
          /\ (ui'.filtering <=> u.filtering) /\ ui'.entry = u.entry
      BY <2>1, <2>2 DEF Keys!Ui
    <2>4. Modal(ui')
      BY <1>1, <1>2, <1>5, <2>3 DEF Modal
    <2> QED
      BY <2>3, <2>4 DEF Ready
  <1>6. CASE a = "Query" /\ ui' = Keys!OpenEditor(u)
    <2> DEFINE n == Keys!OpenEditor(u)
    <2>1. /\ n \in Keys!Ui
          /\ (n.following <=> u.following) /\ (n.loading <=> u.loading)
          /\ n.open = {"editor"} /\ n.view = u.view /\ n.restore = u.restore
          /\ ~n.detail /\ ~n.rowDetail
          /\ (n.filtering <=> u.filtering) /\ n.entry = u.entry
      BY <1>1, EditorOpened
    <2> HIDE DEF n
    <2>2. ~u.following /\ ~u.filtering
      BY <1>6
    <2>3. Modal(n)
      BY <1>1, <1>2, <1>6, <2>1, <2>2 DEF Modal
    <2> QED
      BY <1>6, <2>1, <2>3 DEF Ready, n
  <1>7. CASE a = "History" /\ u.recorded > 0 /\ ui' = [u EXCEPT !.open = @ \cup {"history"}]
    <2>1. ui' = [u EXCEPT !.open = @ \cup ({"history"} \cap Keys!Popup), !.help = u.help]
      BY <1>1, <1>7 DEF Keys!Popup, Keys!Ui
    <2> QED
      BY <1>2, <1>3, <1>4, <1>7, <2>1
  <1>8. CASE a = "Display" /\ ui' = [u EXCEPT !.open = @ \cup {"display"}, !.help = FALSE]
    <2>1. ui' = [u EXCEPT !.open = @ \cup ({"display"} \cap Keys!Popup), !.help = FALSE]
      BY <1>8 DEF Keys!Popup
    <2> QED
      BY <1>3, <1>8, <2>1
  <1>9. CASE a = "Add" /\ ui' = [u EXCEPT !.open = @ \cup {"form"}]
    <2>1. ui' = [u EXCEPT !.open = @ \cup ({"form"} \cap Keys!Popup), !.help = u.help]
      BY <1>1, <1>9 DEF Keys!Popup, Keys!Ui
    <2> QED
      BY <1>2, <1>3, <1>4, <1>9, <2>1
  <1>10. CASE a = "Themes" /\ ui' = [u EXCEPT !.open = @ \cup {"theme"}]
    <2>1. ui' = [u EXCEPT !.open = @ \cup ({"theme"} \cap Keys!Popup), !.help = u.help]
      BY <1>1, <1>10 DEF Keys!Popup, Keys!Ui
    <2> QED
      BY <1>3, <1>4, <1>10, <2>1
  <1>11. CASE a = "Filter" /\ ui' = [u EXCEPT !.help = FALSE, !.filtering = TRUE,
                                              !.restore = {u.view.filter}]
    <2>1. u.view.filter \in BOOLEAN
      BY <1>1 DEF Keys!Ui, Keys!View
    <2>2. ui' \in Keys!Ui /\ ui'.open = {} /\ ui'.filtering /\ ui'.restore # {}
          /\ (ui'.following <=> u.following) /\ (ui'.loading <=> u.loading)
          /\ ui'.view = u.view
          /\ (ui'.detail <=> u.detail) /\ (ui'.rowDetail <=> u.rowDetail)
          /\ ui'.recorded = u.recorded /\ ui'.entry = u.entry
      BY <1>1, <1>11, <2>1 DEF Keys!Ui
    <2>3. Modal(ui')
      BY <1>1, <1>2, <1>11, <2>2 DEF Modal
    <2> QED
      BY <2>2, <2>3 DEF Ready
  <1>12. CASE a = "Sort" /\ ui' = [u EXCEPT !.help = FALSE]
    <2>1. ui' = [u EXCEPT !.open = @ \cup ({""} \cap Keys!Popup), !.help = FALSE]
      BY <1>1, <1>12 DEF Keys!Popup, Keys!Ui
    <2> QED
      BY <1>3, <1>12, <2>1
  <1>13. CASE a = "Columns" /\ Keys!OpenColumns(u)
    <2> DEFINE v == Keys!NewView(TRUE, FALSE)
               t == [u EXCEPT !.help = FALSE, !.parents = Append(@, u.view), !.view = v]
    <2>1. v \in Keys!View /\ ~v.list
      BY FreshViews
    <2>2. ui' = Keys!Load(t, "page")
      BY <1>13 DEF Keys!OpenColumns
    <2> HIDE DEF v
    <2>3. u.view \in Keys!View /\ u.parents \in Seq(Keys!View)
      BY <1>1 DEF Keys!Ui
    <2>4. Append(u.parents, u.view) \in Seq(Keys!View)
      BY <2>3, AppendProperties
    <2>5. /\ t \in Keys!Ui /\ t.view = v /\ t.open = u.open /\ t.restore = u.restore
          /\ (t.detail <=> u.detail) /\ (t.filtering <=> u.filtering) /\ t.entry = u.entry
      BY <1>1, <2>1, <2>4 DEF Keys!Ui
    <2> HIDE DEF t
    <2>6. ~u.filtering /\ u.restore = {} /\ ~u.detail
      BY <1>1, <1>2, <1>13 DEF Modal
    <2> QED
      BY <1>1, <2>1, <2>2, <2>5, <2>6, LoadReady
  <1>14. CASE a = "Open" /\ Keys!OpenSelected(u)
    <2>1. ~u.following /\ ~u.filtering /\ ~u.loading /\ u.view.hits > 0
      BY <1>2, <1>14
    <2> QED
      BY <1>14, <2>1, SelectedReady
  <1>15. CASE a = "Back" /\ ui' = Keys!GoBack(u)
    <2>1. ~u.following /\ ~u.filtering
      BY <1>15
    <2> QED
      BY <1>2, <1>15, <2>1, BackReady
  <1>16. CASE a = "Connections" /\ ui' = Keys!ToConnections(u)
    <2> DEFINE n == Keys!ToConnections(u)
    <2>1. /\ n \in Keys!Ui
          /\ ~n.following /\ ~n.loading /\ n.open = {} /\ n.restore = {} /\ ~n.detail
          /\ ~n.rowDetail /\ ~n.filtering /\ n.entry = 0
      BY <1>1, AtConnections
    <2> HIDE DEF n
    <2>2. Modal(n)
      BY <2>1 DEF Modal
    <2> QED
      BY <1>16, <2>1, <2>2 DEF Ready, n
  <1>17. CASE a = "Refresh" /\ Keys!Refresh(u)
    BY <1>17, RefreshReady
  <1>18. CASE a = "Help" /\ ui' = [u EXCEPT !.help = ~@]
    <2> DEFINE help == ~u.help
    <2>1. help \in BOOLEAN
      OBVIOUS
    <2>2. ui' = [u EXCEPT !.open = @ \cup ({""} \cap Keys!Popup), !.help = help]
      BY <1>1, <1>18, ZenonT(60) DEF Keys!Popup, Keys!Ui
    <2> HIDE DEF help
    <2> QED
      BY <1>3, <1>18, <2>1, <2>2
  <1>19. CASE a = "Quit" /\ ui' = [u EXCEPT !.open = @ \cup {"quit"}]
    <2>1. ui' = [u EXCEPT !.open = @ \cup ({"quit"} \cap Keys!Popup), !.help = u.help]
      BY <1>1, <1>19 DEF Keys!Popup, Keys!Ui
    <2> QED
      BY <1>3, <1>4, <1>19, <2>1
  <1>20. CASE a = "Cancel" /\ ui' = Keys!Invalidate(u)
    <2> DEFINE n == Keys!Invalidate(u)
    <2>1. /\ n \in Keys!Ui /\ n.open = {} /\ ~n.following /\ ~n.loading
          /\ n.view = u.view /\ n.restore = u.restore
          /\ (n.detail <=> u.detail) /\ (n.rowDetail <=> u.rowDetail)
          /\ (n.filtering <=> u.filtering) /\ n.recorded = u.recorded /\ n.entry = u.entry
      BY <1>1, Invalidated
    <2> HIDE DEF n
    <2>2. Modal(n)
      BY <1>1, <2>1 DEF Modal
    <2> QED
      BY <1>20, <2>1, <2>2 DEF Ready, n
  <1>21. CASE a = "Cancel" /\ ui' = [u EXCEPT !.quit = TRUE]
    <2>1. ui' \in Keys!Ui /\ ui'.open = u.open
          /\ (ui'.following <=> u.following) /\ (ui'.loading <=> u.loading)
          /\ ui'.view = u.view /\ ui'.restore = u.restore
          /\ (ui'.detail <=> u.detail) /\ (ui'.rowDetail <=> u.rowDetail)
          /\ (ui'.filtering <=> u.filtering) /\ ui'.recorded = u.recorded /\ ui'.entry = u.entry
      BY <1>1, <1>21 DEF Keys!Ui
    <2>2. Modal(ui')
      BY <1>1, <2>1 DEF Modal
    <2> QED
      BY <2>1, <2>2 DEF Ready
  <1> QED
    BY <1>5, <1>6, <1>7, <1>8, <1>9, <1>10, <1>11, <1>12, <1>13, <1>14, <1>15, <1>16, <1>17,
       <1>18, <1>19, <1>20, <1>21 DEF Keys!ActView

(* An action on whatever owns the input; only a cancellation reaches act   *)
(* past the filter line.                                                   *)
LEMMA ActReady ==
    ASSUME NEW u, Ready(u), NEW a \in Keys!Action, u.filtering => a = "Cancel", Keys!Act(u, a)
    PROVE  Ready(ui') /\ Covers(u)
  <1> DEFINE owner == Keys!Owner(u)
             stops == u.following /\ a # "Quit"
             n == Keys!Invalidate(u)
             v == IF stops THEN n ELSE u
  <1>1. u \in Keys!Ui /\ Modal(u) /\ u.open \subseteq Keys!Popup
    BY DEF Ready, Keys!Ui
  <1>2. IF u.open = {} THEN owner = "view" ELSE owner \in u.open
    BY <1>1, OwnerIsOpen
  <1>3. "view" \notin u.open
    BY <1>1 DEF Keys!Popup
  <1>4. /\ n \in Keys!Ui
        /\ ~n.following /\ ~n.loading /\ n.open = u.open \ {"query"}
        /\ n.view = u.view /\ n.parents = u.parents /\ n.restore = u.restore
        /\ (n.detail <=> u.detail) /\ (n.rowDetail <=> u.rowDetail)
        /\ (n.filtering <=> u.filtering) /\ n.recorded = u.recorded /\ n.entry = u.entry
        /\ (n.help <=> u.help)
    BY <1>1, Invalidated
  <1>5. CASE \/ owner = "quit" /\ Keys!ActQuit(u, a)
             \/ owner = "query" /\ Keys!ActConfirmation(u, a)
             \/ owner = "connect" /\ Keys!ActConnectError(u, a)
             \/ owner = "form" /\ Keys!ActForm(u, a)
             \/ owner = "editor" /\ Keys!ActEditor(u, a)
    BY <1>5, PopupReady
  <1>6. CASE owner = "history" /\ Keys!ActHistory(u, a)
    BY <1>6, MenuReady
  <1>7. CASE /\ ~(stops /\ a \in {"Follow", "Cancel"})
             /\ \/ owner = "display" /\ Keys!ActDisplay(v, a)
                \/ owner = "theme" /\ Keys!ActTheme(v, a)
    <2>1. ~u.following
      BY <1>1, <1>2, <1>3, <1>7 DEF Modal
    <2>2. v = u
      BY <2>1
    <2> HIDE DEF v
    <2> QED
      BY <1>7, <2>2, MenuReady
  <1>8. CASE stops /\ owner \in {"display", "theme", "view"}
    <2>1. u.open = {}
      BY <1>1, <1>2, <1>8 DEF Modal
    <2>2. v = n
      BY <1>8
    <2> HIDE DEF n, v
    <2>3. Modal(n)
      BY <1>1, <1>4, <2>1 DEF Modal
    <2>4. Ready(n) /\ n.open = {}
      BY <1>4, <2>1, <2>3 DEF Ready
    <2>5. CASE ui' = v
      BY <2>1, <2>2, <2>4, <2>5 DEF Covers
    <2>6. CASE Keys!ActView(v, a)
      <3>1. Keys!Available(u, a)
        BY DEF Keys!Act
      <3>2. Keys!Available(n, a)
        BY <1>4, <1>8, <2>1, <2>4, <3>1 DEF Keys!Available
      <3>3. Ready(ui')
        BY <1>4, <2>2, <2>4, <2>6, <3>2, ViewReady
      <3> QED
        BY <2>1, <3>3 DEF Covers
    <2>7. owner = "view"
      BY <1>2, <2>1
    <2>8. ui' = v \/ Keys!ActView(v, a)
      BY <1>8, <2>7 DEF Keys!Act, v, n
    <2> QED
      BY <2>5, <2>6, <2>8
  <1>9. CASE ~stops /\ owner = "view" /\ Keys!ActView(v, a)
    <2>1. u.open = {} /\ v = u
      BY <1>2, <1>3, <1>9
    <2>2. Keys!Available(u, a) /\ Keys!ActView(u, a)
      BY <1>9, <2>1 DEF Keys!Act
    <2>3. Ready(ui')
      BY <1>9, <2>1, <2>2, ViewReady
    <2> QED
      BY <2>1, <2>3 DEF Covers
  <1> QED
    BY <1>5, <1>6, <1>7, <1>8, <1>9 DEF Keys!Act

(* Every key: what it reaches finds its data, and what it leaves is as the *)
(* next one expects.                                                       *)
LEMMA KeyReady ==
    ASSUME Ready(ui), Keys!Key
    PROVE  Ready(ui') /\ Covers(ui)
  <1>1. ui \in Keys!Ui /\ Modal(ui) /\ ui.open \subseteq Keys!Popup
    BY DEF Ready, Keys!Ui
  <1>2. IF ui.open = {} THEN Keys!Owner(ui) = "view" ELSE Keys!Owner(ui) \in ui.open
    BY <1>1, OwnerIsOpen
  <1>3. Keys!Closing \subseteq Keys!Action /\ "Cancel" \in Keys!Action
    BY DEF Keys!Closing, Keys!Action
  <1>4. "view" \notin ui.open
    BY <1>1 DEF Keys!Popup
  <1>5. ASSUME NEW hits \in Keys!Rows,
               ui.restore = {} => hits = ui.view.hits
        PROVE  Ready(Keys!RestoreFilter(ui, hits))
    <2> DEFINE n == Keys!RestoreFilter(ui, hits)
    <2>1. /\ n \in Keys!Ui /\ ~n.filtering /\ n.restore = {}
          /\ (n.following <=> ui.following) /\ (n.loading <=> ui.loading) /\ n.open = ui.open
          /\ (n.view.list <=> ui.view.list)
          /\ (n.detail <=> ui.detail) /\ (n.rowDetail <=> ui.rowDetail)
          /\ n.recorded = ui.recorded /\ n.entry = ui.entry
          /\ (ui.restore = {} => n.view = ui.view)
      BY <1>1, FilterRestored
    <2> HIDE DEF n
    <2>2. Modal(n)
      BY <1>1, <2>1 DEF Modal
    <2> QED
      BY <2>1, <2>2 DEF Ready, n
  <1>6. ASSUME NEW command \in BOOLEAN
        PROVE  LET n == [ui EXCEPT !.command = command] IN
               /\ Ready(n) /\ n.open = ui.open /\ (n.filtering <=> ui.filtering)
               /\ (n.loading <=> ui.loading)
    <2> DEFINE n == [ui EXCEPT !.command = command]
    <2>1. n \in Keys!Ui /\ n.open = ui.open
          /\ (n.following <=> ui.following) /\ (n.loading <=> ui.loading)
          /\ n.view = ui.view /\ n.restore = ui.restore
          /\ (n.detail <=> ui.detail) /\ (n.rowDetail <=> ui.rowDetail)
          /\ (n.filtering <=> ui.filtering) /\ n.recorded = ui.recorded /\ n.entry = ui.entry
      BY <1>1 DEF Keys!Ui
    <2> HIDE DEF n
    <2>2. Modal(n)
      BY <1>1, <2>1 DEF Modal
    <2> QED
      BY <2>1, <2>2 DEF Ready, n
  <1>7. CASE Keys!KeyModal
    <2>1. PICK a \in Keys!Closing : Keys!Act(ui, a)
      BY <1>7 DEF Keys!KeyModal
    <2>2. Keys!Owner(ui) # "view"
      BY <1>7 DEF Keys!KeyModal
    <2>3. ~ui.filtering
      BY <1>1, <1>2, <2>2 DEF Modal
    <2> QED
      BY <1>3, <2>1, <2>3, ActReady
  <1>8. CASE Keys!SaveConnection
    <2> DEFINE t == [ui EXCEPT !.open = @ \ {"form"}]
               n == Keys!ToConnections(t)
    <2>1. "form" \in ui.open
      BY <1>2, <1>8 DEF Keys!SaveConnection
    <2>2. t \in Keys!Ui /\ t.open = ui.open \ {"form"} /\ t.entry = ui.entry
      BY <1>1 DEF Keys!Ui
    <2>3. ui' = n
      BY <1>8 DEF Keys!SaveConnection
    <2> HIDE DEF t
    <2>4. n \in Keys!Ui
          /\ ~n.following /\ ~n.loading /\ n.open = t.open \ {"query", "editor"}
          /\ n.restore = {} /\ ~n.detail /\ ~n.rowDetail /\ ~n.filtering /\ n.entry = t.entry
      BY <2>2, AtConnections
    <2> HIDE DEF n
    <2>5. "history" \notin ui.open /\ "query" \notin ui.open /\ ~ui.loading
      BY <1>1, <2>1 DEF Modal, Keys!QueryTarget
    <2>6. Modal(n)
      BY <1>1, <2>2, <2>4, <2>5 DEF Modal
    <2> QED
      BY <2>3, <2>4, <2>5, <2>6 DEF Ready, Covers
  <1>9. CASE Keys!KeyEditor
    <2>1. "editor" \in ui.open /\ Keys!Owner(ui) = "editor"
      BY <1>2, <1>9 DEF Keys!KeyEditor
    <2>2. Covers(ui)
      BY <2>1 DEF Covers
    <2>3. CASE ui' = Keys!CloseQuery(ui)
      BY <2>2, <2>3, QueryClosed
    <2>4. CASE ~ui.loading /\ ui' = [ui EXCEPT !.open = @ \cup {"query"}]
      <3>1. ui' \in Keys!Ui /\ ui'.open = ui.open \cup {"query"}
            /\ (ui'.following <=> ui.following) /\ (ui'.loading <=> ui.loading)
            /\ ui'.view = ui.view /\ ui'.restore = ui.restore
            /\ (ui'.detail <=> ui.detail) /\ (ui'.rowDetail <=> ui.rowDetail)
            /\ (ui'.filtering <=> ui.filtering) /\ ui'.recorded = ui.recorded
            /\ ui'.entry = ui.entry
        BY <1>1, <2>4 DEF Keys!Ui, Keys!Popup
      <3>2. Modal(ui')
        BY <1>1, <2>1, <2>4, <3>1 DEF Modal
      <3> QED
        BY <2>2, <3>1, <3>2 DEF Ready
    <2>5. CASE ~ui.loading /\ ui' = Keys!SubmitQuery(ui)
      <3> DEFINE n == Keys!SubmitQuery(ui)
      <3>1. /\ n \in Keys!Ui
            /\ ~n.following /\ n.loading /\ n.open = ui.open \ {"query"}
            /\ n.view = ui.view /\ n.restore = ui.restore
            /\ (n.detail <=> ui.detail) /\ ~n.rowDetail
            /\ (n.filtering <=> ui.filtering) /\ n.entry = ui.entry
        BY <1>1, QuerySubmitted
      <3> HIDE DEF n
      <3>2. Modal(n)
        BY <1>1, <2>1, <3>1 DEF Modal, Keys!QueryTarget
      <3> QED
        BY <2>2, <2>5, <3>1, <3>2 DEF Ready, n
    <2> QED
      BY <1>9, <2>3, <2>4, <2>5 DEF Keys!KeyEditor
  <1>10. CASE Keys!KeyCancel
    <2> DEFINE t == [ui EXCEPT !.command = FALSE]
    <2>1. /\ Ready(t) /\ t.open = ui.open /\ t.view = ui.view /\ t.restore = ui.restore
          /\ (t.loading <=> ui.loading)
      <3>1. t.view = ui.view /\ t.restore = ui.restore
        BY <1>1 DEF Keys!Ui
      <3> QED
        BY <1>6, <3>1
    <2>2. PICK hits \in Keys!Rows :
             /\ ui.restore = {} => hits = ui.view.hits
             /\ Keys!Act(Keys!RestoreFilter(t, hits), "Cancel")
      BY <1>10 DEF Keys!KeyCancel
    <2> HIDE DEF t
    <2> DEFINE n == Keys!RestoreFilter(t, hits)
    <2>3. t \in Keys!Ui /\ Modal(t)
      BY <2>1 DEF Ready
    <2>4. /\ n \in Keys!Ui /\ ~n.filtering /\ n.restore = {}
          /\ (n.following <=> t.following) /\ (n.loading <=> t.loading) /\ n.open = t.open
          /\ (n.view.list <=> t.view.list)
          /\ (n.detail <=> t.detail) /\ (n.rowDetail <=> t.rowDetail)
          /\ n.recorded = t.recorded /\ n.entry = t.entry
          /\ (t.restore = {} => n.view = t.view)
      BY <2>3, FilterRestored
    <2>5. Keys!Act(n, "Cancel")
      BY <2>2
    <2> HIDE DEF n
    <2>6. Modal(n)
      BY <2>3, <2>4 DEF Modal
    <2>7. Ready(ui') /\ Covers(n)
      BY <1>3, <2>4, <2>5, <2>6, ActReady DEF Ready
    <2>8. Keys!Owner(n) = Keys!Owner(ui) /\ n.open = ui.open /\ (n.loading <=> ui.loading)
      BY <2>1, <2>4 DEF Keys!Owner
    <2> QED
      BY <2>7, <2>8 DEF Covers
  <1>11. CASE Keys!KeyFilter
    <2>1. ui.filtering /\ ui.open = {}
      BY <1>1, <1>11 DEF Keys!KeyFilter, Modal
    <2>2. Covers(ui)
      BY <2>1 DEF Covers
    <2>3. ASSUME NEW hits \in Keys!Rows, ui.restore = {} => hits = ui.view.hits,
                 ui' = Keys!RestoreFilter(ui, hits)
          PROVE  Ready(ui')
      BY <1>5, <2>3
    <2>4. CASE ui' = [ui EXCEPT !.filtering = FALSE, !.restore = {}]
      <3>1. ui' \in Keys!Ui /\ ui'.open = {} /\ ~ui'.filtering /\ ui'.restore = {}
            /\ (ui'.following <=> ui.following) /\ (ui'.loading <=> ui.loading)
            /\ ui'.view = ui.view
            /\ (ui'.detail <=> ui.detail) /\ (ui'.rowDetail <=> ui.rowDetail)
            /\ ui'.recorded = ui.recorded /\ ui'.entry = ui.entry
        BY <1>1, <2>1, <2>4 DEF Keys!Ui
      <3>2. Modal(ui')
        BY <1>1, <2>1, <3>1 DEF Modal
      <3> QED
        BY <2>2, <3>1, <3>2 DEF Ready
    <2>5. ASSUME NEW filter \in BOOLEAN, NEW hits \in Keys!Rows,
                 ui' = [ui EXCEPT !.view.filter = filter, !.view.hits = hits]
          PROVE  Ready(ui')
      <3> DEFINE v == [ui.view EXCEPT !.filter = filter, !.hits = hits]
      <3>1. v \in Keys!View /\ (v.list <=> ui.view.list)
        BY <1>1 DEF Keys!Ui, Keys!View
      <3>2. ui' = [ui EXCEPT !.view = v]
        BY <1>1, <2>5 DEF Keys!Ui, Keys!View
      <3> HIDE DEF v
      <3>3. ui' \in Keys!Ui /\ ui'.open = ui.open /\ ui'.view = v /\ ui'.restore = ui.restore
            /\ (ui'.following <=> ui.following) /\ (ui'.loading <=> ui.loading)
            /\ (ui'.filtering <=> ui.filtering)
            /\ (ui'.detail <=> ui.detail) /\ (ui'.rowDetail <=> ui.rowDetail)
            /\ ui'.recorded = ui.recorded /\ ui'.entry = ui.entry
        BY <1>1, <3>1, <3>2 DEF Keys!Ui
      <3>4. Modal(ui')
        BY <1>1, <2>1, <3>1, <3>3 DEF Modal
      <3> QED
        BY <3>3, <3>4 DEF Ready
    <2>6. \/ \E hits \in Keys!Rows : /\ ui.restore = {} => hits = ui.view.hits
                                     /\ ui' = Keys!RestoreFilter(ui, hits)
          \/ ui' = [ui EXCEPT !.filtering = FALSE, !.restore = {}]
          \/ \E filter \in BOOLEAN, hits \in Keys!Rows :
                ui' = [ui EXCEPT !.view.filter = filter, !.view.hits = hits]
      BY <1>11 DEF Keys!KeyFilter
    <2> QED
      BY <2>2, <2>3, <2>4, <2>5, <2>6
  <1>12. CASE Keys!KeyCommand
    <2> DEFINE t == [ui EXCEPT !.command = FALSE]
    <2>1. Ready(t) /\ t.open = ui.open /\ (t.filtering <=> ui.filtering)
          /\ (t.loading <=> ui.loading)
      BY <1>6
    <2>2. ui' = t \/ \E a \in Keys!Action : Keys!Act(t, a)
      BY <1>12 DEF Keys!KeyCommand
    <2>3. ~ui.filtering
      BY <1>12 DEF Keys!KeyCommand
    <2> HIDE DEF t
    <2>4. CASE ui' = t
      BY <2>1, <2>4 DEF Covers
    <2>5. ASSUME NEW a \in Keys!Action, Keys!Act(t, a) PROVE Ready(ui') /\ Covers(ui)
      <3>1. Ready(ui') /\ Covers(t)
        BY <2>1, <2>3, <2>5, ActReady
      <3>2. Keys!Owner(t) = Keys!Owner(ui)
        BY <2>1 DEF Keys!Owner
      <3> QED
        BY <2>1, <3>1, <3>2 DEF Covers
    <2> QED
      BY <2>2, <2>4, <2>5
  <1>13. CASE Keys!KeyColon
    <2> DEFINE n == Keys!Invalidate(ui)
               v == IF ui.following THEN n ELSE ui
    <2>1. ui.open = {}
      BY <1>2, <1>4, <1>13 DEF Keys!KeyColon
    <2>2. /\ n \in Keys!Ui
          /\ ~n.following /\ ~n.loading /\ n.open = ui.open \ {"query"}
          /\ n.view = ui.view /\ n.restore = ui.restore
          /\ (n.detail <=> ui.detail) /\ (n.rowDetail <=> ui.rowDetail)
          /\ (n.filtering <=> ui.filtering) /\ n.recorded = ui.recorded /\ n.entry = ui.entry
      BY <1>1, Invalidated
    <2>3. ui' = [v EXCEPT !.command = TRUE]
      BY <1>13 DEF Keys!KeyColon
    <2> HIDE DEF n
    <2>4. v \in Keys!Ui /\ v.open = {} /\ v.view = ui.view /\ v.restore = ui.restore
          /\ (v.following => ui.following) /\ (v.loading => ui.loading)
          /\ (v.detail <=> ui.detail) /\ (v.rowDetail <=> ui.rowDetail)
          /\ (v.filtering <=> ui.filtering) /\ v.recorded = ui.recorded /\ v.entry = ui.entry
      BY <1>1, <2>1, <2>2
    <2> HIDE DEF v
    <2>5. ui' \in Keys!Ui /\ ui'.open = v.open /\ ui'.view = v.view /\ ui'.restore = v.restore
          /\ (ui'.following <=> v.following) /\ (ui'.loading <=> v.loading)
          /\ (ui'.detail <=> v.detail) /\ (ui'.rowDetail <=> v.rowDetail)
          /\ (ui'.filtering <=> v.filtering) /\ ui'.recorded = v.recorded /\ ui'.entry = v.entry
      BY <2>3, <2>4 DEF Keys!Ui
    <2>6. Modal(ui')
      BY <1>1, <2>1, <2>4, <2>5 DEF Modal
    <2> QED
      BY <2>1, <2>5, <2>6 DEF Ready, Covers
  <1>14. CASE Keys!KeyBinding
    <2>1. ~ui.filtering
      BY <1>14 DEF Keys!KeyBinding
    <2>2. \E a \in Keys!Action : Keys!Act(ui, a)
      BY <1>14 DEF Keys!KeyBinding
    <2> QED
      BY <2>1, <2>2, ActReady
  <1>15. CASE Keys!Interrupted
    BY <1>3, <1>15, ActReady DEF Keys!Interrupted
  <1> QED
    BY <1>7, <1>8, <1>9, <1>10, <1>11, <1>12, <1>13, <1>14, <1>15 DEF Keys!Key

(* The awaited request ends underneath.                                    *)
LEMMA ReplyReady ==
    ASSUME Ready(ui),
           Keys!PageArrives \/ Keys!PageFails \/ Keys!BatchArrives \/ Keys!FollowTick \/ Keys!Quits
    PROVE  Ready(ui')
  <1>1. ui \in Keys!Ui /\ Modal(ui)
    BY DEF Ready
  <1>2. CASE Keys!PageArrives
    <2> DEFINE results == ui.asked = "query" /\ ~ui.view.query
               fresh == [Keys!NewView(TRUE, ui.view.scope) EXCEPT !.query = TRUE]
               base == IF results THEN fresh ELSE ui.view
               shownOf(held, hits, columns) == [base EXCEPT !.rows = held, !.hits = hits,
                                                            !.columns = columns]
    <2>1. ui.loading /\ ~ui.following
      BY <1>2, ZenonT(60) DEF Keys!PageArrives
    <2>2. PICK held \in Keys!Rows, hits \in Keys!Rows, columns \in 1 .. 2 :
             LET shown == shownOf(held, hits, columns) IN
             ui' = [ui EXCEPT !.loading = FALSE, !.opening = FALSE,
                              !.open = @ \ {"editor"},
                              !.parents = IF results THEN Append(@, ui.view) ELSE @,
                              !.view = shown,
                              !.detail = @ \/ (/\ Keys!SingleValue(shown) /\ ~shown.query
                                               /\ ~ui.filtering)]
      BY <1>2, ZenonT(60) DEF Keys!PageArrives
    <2> DEFINE shown == shownOf(held, hits, columns)
               detail == ui.detail \/ (Keys!SingleValue(shown) /\ ~shown.query /\ ~ui.filtering)
               parents == IF results THEN Append(ui.parents, ui.view) ELSE ui.parents
    <2>3. ui.view \in Keys!View /\ ui.parents \in Seq(Keys!View) /\ ~ui.view.list
      BY <1>1, <2>1 DEF Keys!Ui, Modal
    <2>4. parents \in Seq(Keys!View)
      BY <2>3, AppendProperties
    <2>5. fresh \in Keys!View /\ ~fresh.list
      <3> DEFINE n == Keys!NewView(TRUE, ui.view.scope)
      <3>1. n \in Keys!View /\ (n.list <=> FALSE)
        BY <2>3, FreshViews DEF Keys!View
      <3>2. fresh = [n EXCEPT !.query = TRUE]
        OBVIOUS
      <3> HIDE DEF n
      <3> QED
        BY <3>1, <3>2 DEF Keys!View
    <2> HIDE DEF fresh
    <2>6. base \in Keys!View /\ ~base.list
      BY <2>3, <2>5
    <2> HIDE DEF base
    <2>7. shown \in Keys!View /\ ~shown.list
      BY <2>6 DEF Keys!View
    <2>8. ui' = [ui EXCEPT !.loading = FALSE, !.opening = FALSE, !.open = @ \ {"editor"},
                           !.parents = parents, !.view = shown, !.detail = detail]
      BY <1>1, <2>2 DEF Keys!Ui
    <2>9. ~ui.detail /\ ~ui.rowDetail /\ "query" \notin ui.open /\ "history" \notin ui.open
          /\ "form" \notin ui.open
      BY <1>1, <2>1 DEF Modal
    <2>10. detail \in BOOLEAN /\ (detail => shown.hits > 0 /\ ~ui.filtering)
      BY <2>9 DEF Keys!SingleValue
    <2> HIDE DEF shown, parents, detail
    <2>11. ui' \in Keys!Ui /\ ui'.open = ui.open \ {"editor"}
           /\ ~ui'.following /\ ~ui'.loading /\ ui'.view = shown /\ ui'.restore = ui.restore
           /\ (ui'.detail <=> detail) /\ (ui'.rowDetail <=> ui.rowDetail)
           /\ (ui'.filtering <=> ui.filtering) /\ ui'.recorded = ui.recorded
           /\ ui'.entry = ui.entry
      BY <1>1, <2>1, <2>4, <2>7, <2>8, <2>10 DEF Keys!Ui
    <2>12. Modal(ui')
      BY <1>1, <2>1, <2>7, <2>9, <2>10, <2>11 DEF Modal
    <2> QED
      BY <2>11, <2>12, SMTT(30) DEF Ready
  <1>3. CASE Keys!PageFails
    <2>1. ui.loading /\ ~ui.following
      BY <1>3 DEF Keys!PageFails
    <2>2. CASE ui' = [Keys!ToConnections(ui) EXCEPT !.open = @ \cup {"connect"}]
      <3> DEFINE n == Keys!ToConnections(ui)
      <3>1. /\ n \in Keys!Ui
            /\ ~n.following /\ ~n.loading /\ n.open = ui.open \ {"query", "editor"}
            /\ n.view = Keys!Connections /\ n.restore = {}
            /\ ~n.detail /\ ~n.rowDetail /\ ~n.filtering
            /\ n.recorded = ui.recorded /\ n.entry = ui.entry
        BY <1>1, AtConnections
      <3>2. ui' = [n EXCEPT !.open = @ \cup {"connect"}]
        BY <2>2
      <3> HIDE DEF n
      <3>3. ui' \in Keys!Ui /\ ui'.open = n.open \cup {"connect"}
            /\ ~ui'.following /\ ~ui'.loading /\ ui'.view = n.view /\ ui'.restore = n.restore
            /\ ~ui'.detail /\ ~ui'.rowDetail /\ ~ui'.filtering
            /\ ui'.recorded = n.recorded /\ ui'.entry = n.entry
        BY <3>1, <3>2 DEF Keys!Ui, Keys!Popup
      <3>4. Modal(ui')
        BY <1>1, <2>1, <3>1, <3>3, FreshViews DEF Modal
      <3> QED
        BY <3>3, <3>4 DEF Ready
    <2>3. CASE ui' = [ui EXCEPT !.loading = FALSE, !.opening = FALSE]
      <3>1. ui' \in Keys!Ui /\ ui'.open = ui.open
            /\ ~ui'.following /\ ~ui'.loading /\ ui'.view = ui.view /\ ui'.restore = ui.restore
            /\ (ui'.detail <=> ui.detail) /\ (ui'.rowDetail <=> ui.rowDetail)
            /\ (ui'.filtering <=> ui.filtering) /\ ui'.recorded = ui.recorded
            /\ ui'.entry = ui.entry
        BY <1>1, <2>1, <2>3 DEF Keys!Ui
      <3>2. Modal(ui')
        BY <1>1, <3>1 DEF Modal
      <3> QED
        BY <3>1, <3>2 DEF Ready
    <2> QED
      BY <1>3, <2>2, <2>3 DEF Keys!PageFails
  <1>4. CASE Keys!BatchArrives
    <2>1. ui.loading /\ ui.following
      BY <1>4 DEF Keys!BatchArrives
    <2>2. ~ui.detail /\ ~ui.rowDetail /\ ui.open \subseteq {"quit"}
      BY <1>1, <2>1 DEF Modal
    <2>3. CASE ui' = [ui EXCEPT !.following = FALSE, !.loading = FALSE]
      <3>1. ui' \in Keys!Ui /\ ui'.open = ui.open
            /\ ~ui'.following /\ ~ui'.loading /\ ui'.view = ui.view /\ ui'.restore = ui.restore
            /\ (ui'.detail <=> ui.detail) /\ (ui'.rowDetail <=> ui.rowDetail)
            /\ (ui'.filtering <=> ui.filtering) /\ ui'.recorded = ui.recorded
            /\ ui'.entry = ui.entry
        BY <1>1, <2>1, <2>3 DEF Keys!Ui
      <3>2. Modal(ui')
        BY <1>1, <2>2, <3>1 DEF Modal
      <3> QED
        BY <3>1, <3>2 DEF Ready
    <2>4. ASSUME NEW held \in Keys!Rows, NEW hits \in Keys!Rows,
                 ui' = [ui EXCEPT !.view = [[ui.view EXCEPT !.rows = held,
                                                !.filter = @ /\ ~(ui.asked = "follow")]
                                               EXCEPT !.hits = hits],
                                  !.loading = FALSE, !.asked = "page"]
          PROVE  Ready(ui')
      <3> DEFINE filter == ui.view.filter /\ ~(ui.asked = "follow")
                 v == [ui.view EXCEPT !.rows = held, !.filter = filter, !.hits = hits]
      <3>1. filter \in BOOLEAN
        OBVIOUS
      <3>2. ui' = [ui EXCEPT !.view = v, !.loading = FALSE, !.asked = "page"]
        BY <1>1, <2>4 DEF Keys!Ui, Keys!View
      <3> HIDE DEF filter
      <3>3. v \in Keys!View /\ (v.list <=> ui.view.list)
        BY <1>1, <3>1 DEF Keys!Ui, Keys!View
      <3> HIDE DEF v
      <3>4. ui' \in Keys!Ui /\ ui'.open = ui.open
            /\ (ui'.following <=> ui.following) /\ ~ui'.loading /\ ui'.view = v
            /\ ui'.restore = ui.restore
            /\ (ui'.detail <=> ui.detail) /\ (ui'.rowDetail <=> ui.rowDetail)
            /\ (ui'.filtering <=> ui.filtering) /\ ui'.recorded = ui.recorded
            /\ ui'.entry = ui.entry
        BY <1>1, <3>2, <3>3 DEF Keys!Ui
      <3>5. Modal(ui')
        BY <1>1, <2>1, <2>2, <3>3, <3>4, SMTT(30) DEF Modal
      <3> QED
        BY <3>4, <3>5 DEF Ready
    <2>5. \/ \E held \in Keys!Rows, hits \in Keys!Rows :
                ui' = [ui EXCEPT !.view = [[ui.view EXCEPT !.rows = held,
                                               !.filter = @ /\ ~(ui.asked = "follow")]
                                              EXCEPT !.hits = hits],
                                 !.loading = FALSE, !.asked = "page"]
          \/ ui' = [ui EXCEPT !.following = FALSE, !.loading = FALSE]
      BY <1>4 DEF Keys!BatchArrives
    <2> QED
      BY <2>3, <2>4, <2>5
  <1>5. CASE Keys!FollowTick
    <2>1. ui.following /\ ui' = [ui EXCEPT !.loading = TRUE]
      BY <1>5 DEF Keys!FollowTick
    <2>2. ui' \in Keys!Ui /\ ui'.open = ui.open
          /\ ui'.following /\ ui'.loading /\ ui'.view = ui.view /\ ui'.restore = ui.restore
          /\ (ui'.detail <=> ui.detail) /\ (ui'.rowDetail <=> ui.rowDetail)
          /\ (ui'.filtering <=> ui.filtering) /\ ui'.recorded = ui.recorded
          /\ ui'.entry = ui.entry
      BY <1>1, <2>1 DEF Keys!Ui
    <2>3. Modal(ui')
      BY <1>1, <2>1, <2>2 DEF Modal
    <2> QED
      BY <2>2, <2>3 DEF Ready
  <1>6. CASE Keys!Quits
    BY <1>6 DEF Keys!Quits
  <1> QED
    BY <1>2, <1>3, <1>4, <1>5, <1>6

LEMMA KeysStep ==
    ASSUME Ready(ui), Keys!Next
    PROVE  Ready(ui')
  BY KeyReady, ReplyReady DEF Keys!Next

LEMMA KeysStart == Keys!Init => Ready(ui)
  <1> SUFFICES ASSUME Keys!Init PROVE Ready(ui)
    OBVIOUS
  <1>1. ui = Keys!Start
    BY DEF Keys!Init
  <1>2. ui \in Keys!Ui
    BY <1>1, FreshViews, EmptySeq, TerminalAssumption DEF Keys!Start, Keys!Ui
  <1>3. Modal(ui)
    BY <1>1 DEF Keys!Start, Modal
  <1> QED
    BY <1>2, <1>3 DEF Ready

(* What the runs see of it: the handlers find their data, and a popup only *)
(* covers the request.                                                     *)
LEMMA HandlersReady ==
    ASSUME Ready(ui)
    PROVE  Keys!HandlersFindTheirData /\ Keys!TypeOK
  BY DEF Ready, Modal, Keys!HandlersFindTheirData, Keys!TypeOK

LEMMA RequestCovered ==
    ASSUME Ready(ui), Keys!Next, ui.open # {}, ui.loading, ~ui'.loading
    PROVE  Keys!PageArrives \/ Keys!PageFails \/ Keys!BatchArrives \/ ui'.quit
           \/ Keys!Owner(ui) = "editor"
  <1>1. CASE Keys!Key
    BY <1>1, KeyReady DEF Covers
  <1>2. CASE Keys!FollowTick
    BY <1>2 DEF Keys!FollowTick
  <1>3. CASE Keys!Quits
    BY <1>3 DEF Keys!Quits
  <1> QED
    BY <1>1, <1>2, <1>3 DEF Keys!Next

-----------------------------------------------------------------------------
(* The text that is typed *)

Char == {"a", "m", "n", "t", "c"}

EditState(n) ==
    [kind : {"query", "form"}, texts : [1 .. n -> Seq(Char)], cursors : [1 .. n -> Nat],
     field : 1 .. n, choosing : BOOLEAN, selected : 1 .. Providers, save : BOOLEAN]

FieldsOf(e) == IF e.kind = "query" THEN 1 ELSE Fields
Lengths(e) == [f \in 1 .. FieldsOf(e) |-> Len(e.texts[f])]
OneLine(text) == \A i \in 1 .. Len(text) : text[i] # "n"

(* The editor's state, with the caret in its text.                         *)
Edited(e) ==
    /\ e \in EditState(FieldsOf(e))
    /\ Total(Lengths(e), 1 .. FieldsOf(e)) <= QueryBytes
    /\ \A f \in 1 .. FieldsOf(e) :
          /\ e.cursors[f] \in 0 .. Len(e.texts[f])
          /\ e.kind = "form" => OneLine(e.texts[f])

TextOf(e) == e.texts[e.field]
CursorOf(e) == e.cursors[e.field]

LEMMA EditFields ==
    ASSUME NEW e, Edited(e)
    PROVE  /\ FieldsOf(e) \in Nat \ {0} /\ e.kind \in {"query", "form"}
           /\ e.texts \in [1 .. FieldsOf(e) -> Seq(Char)] /\ e.cursors \in [1 .. FieldsOf(e) -> Nat]
           /\ e.field \in 1 .. FieldsOf(e) /\ e.choosing \in BOOLEAN
           /\ e.selected \in 1 .. Providers /\ e.save \in BOOLEAN
           /\ Fields \in Nat \ {0} /\ Providers \in Nat \ {0} /\ QueryBytes \in Nat
           /\ TextOf(e) \in Seq(Char) /\ CursorOf(e) \in 0 .. Len(TextOf(e))
           /\ Len(TextOf(e)) \in Nat
           /\ e.kind = "form" => OneLine(TextOf(e))
  <1>1. Fields \in Nat \ {0} /\ Providers \in Nat \ {0} /\ QueryBytes \in Nat
    BY EditorAssumption
  <1>2. FieldsOf(e) \in Nat \ {0}
    BY <1>1 DEF FieldsOf
  <1>3. /\ e.kind \in {"query", "form"}
        /\ e.texts \in [1 .. FieldsOf(e) -> Seq(Char)] /\ e.cursors \in [1 .. FieldsOf(e) -> Nat]
        /\ e.field \in 1 .. FieldsOf(e) /\ e.choosing \in BOOLEAN
        /\ e.selected \in 1 .. Providers /\ e.save \in BOOLEAN
    <2> HIDE DEF FieldsOf
    <2> QED
      BY DEF Edited, EditState
  <1>4. TextOf(e) \in Seq(Char) /\ CursorOf(e) \in 0 .. Len(TextOf(e))
        /\ (e.kind = "form" => OneLine(TextOf(e)))
    BY <1>3 DEF Edited, TextOf, CursorOf
  <1>5. Len(TextOf(e)) \in Nat
    BY <1>4, LenProperties
  <1> QED
    BY <1>1, <1>2, <1>3, <1>4, <1>5

LEMMA EditLengths ==
    ASSUME NEW e, Edited(e)
    PROVE  /\ IsFiniteSet(1 .. FieldsOf(e)) /\ Weighs(Lengths(e), 1 .. FieldsOf(e))
           /\ Total(Lengths(e), 1 .. FieldsOf(e)) \in Nat
           /\ Lengths(e)[e.field] = Len(TextOf(e))
  <1>1. FieldsOf(e) \in Nat /\ e.field \in 1 .. FieldsOf(e)
        /\ \A f \in 1 .. FieldsOf(e) : Len(e.texts[f]) \in Nat
    BY EditFields, LenProperties
  <1>2. IsFiniteSet(1 .. FieldsOf(e))
    BY <1>1, FS_Interval
  <1>3. Weighs(Lengths(e), 1 .. FieldsOf(e))
    BY <1>1 DEF Weighs, Lengths
  <1> QED
    BY <1>1, <1>2, <1>3, TotalTyped DEF Lengths, TextOf

(* The whole length of the texts, as the check of an insertion counts it.  *)
LEMMA HeldTotal ==
    ASSUME Edited(ed)
    PROVE  Typed!Held = Total(Lengths(ed), 1 .. FieldsOf(ed))
  <1> DEFINE D == DOMAIN ed.texts
  <1>1. D = 1 .. FieldsOf(ed)
    BY EditFields
  <1>2. Typed!Held = Typed!SumFunctionOnSet(Lengths(ed), D)
    <2> DEFINE w == [f \in D |-> Len(ed.texts[f])]
    <2>1. w = Lengths(ed) /\ DOMAIN w = D
      BY <1>1 DEF Lengths
    <2>2. Typed!Held = Typed!SumFunctionOnSet(w, DOMAIN w)
      BY Zenon DEF Typed!Held, Typed!SumFunction
    <2> HIDE DEF w
    <2> QED
      BY <2>1, <2>2
  <1>3. Typed!SumFunctionOnSet(Lengths(ed), D) = SumFunctionOnSet(Lengths(ed), D)
    BY Zenon DEF Typed!SumFunctionOnSet, Typed!FoldFunctionOnSet, Typed!MapThenFoldSet,
                 SumFunctionOnSet, FoldFunctionOnSet, MapThenFoldSet
  <1>4. IsFiniteSet(D) /\ Weighs(Lengths(ed), D)
    BY <1>1, EditLengths, SMTT(30)
  <1> QED
    BY <1>1, <1>2, <1>3, <1>4, SumTotal

-----------------------------------------------------------------------------
(* A part of a text is replaced *)

Splice(t, first, last, insert) == (SubSeq(t, 1, first) \o insert) \o SubSeq(t, last + 1, Len(t))

LEMMA PartOf ==
    ASSUME NEW S, NEW t \in Seq(S), NEW n \in 0 .. Len(t)
    PROVE  /\ SubSeq(t, n + 1, Len(t)) \in Seq(S) /\ Len(SubSeq(t, n + 1, Len(t))) = Len(t) - n
           /\ \A i \in 1 .. Len(t) - n : SubSeq(t, n + 1, Len(t))[i] = t[n + i]
  <1>1. Len(t) \in Nat /\ n \in Nat /\ n <= Len(t)
    BY LenProperties
  <1>2. \A i \in n + 1 .. Len(t) : t[i] \in S
    BY <1>1, ElementOfSeq
  <1> DEFINE r == SubSeq(t, n + 1, Len(t))
  <1>3. /\ r \in Seq(S) /\ Len(r) = IF n + 1 <= Len(t) THEN Len(t) - (n + 1) + 1 ELSE 0
        /\ \A i \in 1 .. Len(t) - (n + 1) + 1 : r[i] = t[n + 1 + i - 1]
    BY <1>1, <1>2, SubSeqProperties
  <1> HIDE DEF r
  <1>4. Len(r) = Len(t) - n /\ Len(t) - (n + 1) + 1 = Len(t) - n
    BY <1>1, <1>3
  <1>5. \A i \in 1 .. Len(t) - n : n + 1 + i - 1 = n + i
    BY <1>1
  <1>6. \A i \in 1 .. Len(t) - n : r[i] = t[n + i]
    BY <1>3, <1>4, <1>5
  <1> QED
    BY <1>3, <1>4, <1>6 DEF r

(* What the spliced text has, and at which places.                         *)
HasParts(r, t, first, last, insert) ==
    /\ Len(r) = first + Len(insert) + (Len(t) - last)
    /\ \A i \in 1 .. first : r[i] = t[i]
    /\ \A i \in 1 .. Len(insert) : r[first + i] = insert[i]
    /\ \A i \in 1 .. Len(t) - last : r[first + Len(insert) + i] = t[last + i]

LEMMA Spliced ==
    ASSUME NEW S, NEW t \in Seq(S), NEW insert \in Seq(S),
           NEW first \in 0 .. Len(t), NEW last \in first .. Len(t),
           NEW r, r = Splice(t, first, last, insert)
    PROVE  r \in Seq(S) /\ HasParts(r, t, first, last, insert)
  <1> DEFINE a == SubSeq(t, 1, first)
             b == SubSeq(t, last + 1, Len(t))
             m == a \o insert
  <1>1. Len(t) \in Nat /\ first \in Nat /\ last \in Nat /\ last <= Len(t) /\ first <= last
        /\ Len(insert) \in Nat
    BY LenProperties
  <1>2. a \in Seq(S) /\ Len(a) = first /\ \A i \in 1 .. first : a[i] = t[i]
    BY FirstOf
  <1>3. /\ b \in Seq(S) /\ Len(b) = Len(t) - last
        /\ \A i \in 1 .. Len(t) - last : b[i] = t[last + i]
    BY <1>1, PartOf
  <1> HIDE DEF a, b
  <1>4. /\ m \in Seq(S) /\ Len(m) = first + Len(insert)
        /\ \A i \in 1 .. first + Len(insert) : m[i] = IF i <= first THEN a[i] ELSE insert[i - first]
    BY <1>2, ConcatProperties
  <1> HIDE DEF m
  <1>5. /\ r \in Seq(S) /\ Len(r) = Len(m) + Len(b)
        /\ \A i \in 1 .. Len(m) + Len(b) : r[i] = IF i <= Len(m) THEN m[i] ELSE b[i - Len(m)]
    <2>1. r = m \o b
      BY DEF Splice, m, a, b
    <2>2. /\ m \o b \in Seq(S) /\ Len(m \o b) = Len(m) + Len(b)
          /\ \A i \in 1 .. Len(m) + Len(b) :
                (m \o b)[i] = IF i <= Len(m) THEN m[i] ELSE b[i - Len(m)]
      BY <1>3, <1>4, ConcatProperties
    <2> QED
      BY <2>1, <2>2, Zenon
  <1>6. Len(r) = first + Len(insert) + (Len(t) - last)
    BY <1>3, <1>4, <1>5
  <1>7. ASSUME NEW i \in 1 .. first PROVE r[i] = t[i]
    <2>1. i \in 1 .. Len(m) + Len(b) /\ i <= Len(m) /\ i \in 1 .. first + Len(insert) /\ i <= first
      BY <1>1, <1>3, <1>4
    <2> QED
      BY <1>2, <1>4, <1>5, <2>1
  <1>8. ASSUME NEW i \in 1 .. Len(insert) PROVE r[first + i] = insert[i]
    <2>1. /\ first + i \in 1 .. Len(m) + Len(b) /\ first + i <= Len(m)
          /\ first + i \in 1 .. first + Len(insert) /\ ~(first + i <= first)
          /\ (first + i) - first = i
      BY <1>1, <1>3, <1>4
    <2> QED
      BY <1>4, <1>5, <2>1
  <1>9. ASSUME NEW i \in 1 .. Len(t) - last PROVE r[first + Len(insert) + i] = t[last + i]
    <2>1. /\ Len(m) + i \in 1 .. Len(m) + Len(b) /\ ~(Len(m) + i <= Len(m))
          /\ (Len(m) + i) - Len(m) = i
      BY <1>1, <1>3, <1>4
    <2>2. r[Len(m) + i] = b[i] /\ b[i] = t[last + i]
      BY <1>3, <1>5, <2>1
    <2> QED
      BY <1>4, <2>2
  <1> QED
    BY <1>5, <1>6, <1>7, <1>8, <1>9 DEF HasParts

(* What is before the replaced part is a prefix of the new text, what is   *)
(* behind it is a suffix of the old one.                                   *)
LEMMA SplicedAround ==
    ASSUME NEW S, NEW t \in Seq(S), NEW insert \in Seq(S),
           NEW first \in 0 .. Len(t), NEW last \in first .. Len(t),
           NEW r, r = Splice(t, first, last, insert)
    PROVE  LET behind == Len(r) - (first + Len(insert)) IN
           /\ Typed!Before(r, first) = Typed!Before(t, first)
           /\ behind <= Len(t) /\ Typed!Behind(r, behind) = Typed!Behind(t, behind)
  <1> DEFINE k == first + Len(insert)
             behind == Len(r) - k
  <1>1. Len(t) \in Nat /\ first \in Nat /\ last \in Nat /\ last <= Len(t) /\ first <= last
        /\ Len(insert) \in Nat
    BY LenProperties
  <1>2. /\ r \in Seq(S) /\ Len(r) = k + (Len(t) - last)
        /\ \A i \in 1 .. first : r[i] = t[i]
        /\ \A i \in 1 .. Len(t) - last : r[k + i] = t[last + i]
    <2>1. r \in Seq(S) /\ HasParts(r, t, first, last, insert)
      BY Spliced
    <2> QED
      BY <2>1 DEF HasParts
  <1>3. /\ Len(r) \in Nat /\ k \in 0 .. Len(r) /\ first \in 0 .. Len(r) /\ behind = Len(t) - last
        /\ Len(r) - behind + 1 = k + 1 /\ Len(t) - behind + 1 = last + 1 /\ behind <= Len(t)
    BY <1>1, <1>2
  <1> DEFINE a == SubSeq(t, 1, first)
             b == SubSeq(r, 1, first)
             c == SubSeq(t, last + 1, Len(t))
             d == SubSeq(r, k + 1, Len(r))
  <1>4. /\ a \in Seq(S) /\ Len(a) = first /\ \A i \in 1 .. first : a[i] = t[i]
    BY FirstOf
  <1>5. /\ b \in Seq(S) /\ Len(b) = first /\ \A i \in 1 .. first : b[i] = r[i]
    BY <1>2, <1>3, FirstOf
  <1>6. /\ c \in Seq(S) /\ Len(c) = Len(t) - last /\ \A i \in 1 .. Len(t) - last : c[i] = t[last + i]
    <2>1. last \in 0 .. Len(t)
      BY <1>1
    <2> QED
      BY <2>1, PartOf
  <1>7. /\ d \in Seq(S) /\ Len(d) = behind /\ \A i \in 1 .. behind : d[i] = r[k + i]
    <2>1. k \in 0 .. Len(r) /\ Len(r) - k = behind /\ r \in Seq(S)
      BY <1>2, <1>3
    <2> HIDE DEF k, behind
    <2> QED
      BY <2>1, PartOf
  <1> HIDE DEF a, b, c, d, k, behind
  <1>8. a = b
    <2>1. \A i \in 1 .. Len(a) : a[i] = b[i]
      BY <1>2, <1>4, <1>5
    <2> QED
      BY <1>4, <1>5, <2>1, SeqEqual
  <1>9. c = d
    <2>1. \A i \in 1 .. Len(c) : c[i] = d[i]
      BY <1>2, <1>3, <1>6, <1>7
    <2> QED
      BY <1>3, <1>6, <1>7, <2>1, SeqEqual
  <1>10. Typed!Before(r, first) = b /\ Typed!Before(t, first) = a
    BY DEF Typed!Before, a, b
  <1>11. Typed!Behind(r, behind) = d /\ Typed!Behind(t, behind) = c
    BY <1>3 DEF Typed!Behind, c, d
  <1> QED
    BY <1>3, <1>8, <1>9, <1>10, <1>11 DEF k, behind

(* The order that Ordering.tla gives, with no other fact beside it.        *)
LEMMA InOrderSorted ==
    ASSUME NEW S
    PROVE  Typed!InOrder(S, <) = Sorted(S)
  <1> DEFINE first(k) == CHOOSE x \in S : Typed!Cardinality({y \in S : y < x}) = k - 1
             second(k) == CHOOSE x \in S : Cardinality({y \in S : y < x}) = k - 1
  <1>1. \A T : Typed!Cardinality(T) = Cardinality(T)
    BY DEF Typed!Cardinality, Cardinality
  <1>2. \A k : first(k) = second(k)
    BY <1>1, Zenon
  <1>3. Sorted(S) = [k \in 1 .. Cardinality(S) |-> second(k)]
    BY DEF Sorted
  <1>4. Typed!InOrder(S, <) = [k \in 1 .. Typed!Cardinality(S) |-> first(k)]
    BY Zenon DEF Typed!InOrder
  <1>5. [k \in 1 .. Typed!Cardinality(S) |-> first(k)] = [k \in 1 .. Cardinality(S) |-> second(k)]
    <2> HIDE DEF first, second
    <2> QED
      BY <1>1, <1>2
  <1> QED
    BY <1>3, <1>4, <1>5, Zenon

-----------------------------------------------------------------------------
(* The lines of a text *)

StartIn(t, k) == Typed!Max({0} \union {i \in 1 .. k : t[i] = "n"})
EndIn(t, k) == Typed!Min({Len(t)} \union {i - 1 : i \in {j \in k + 1 .. Len(t) : t[j] = "n"}})

NoNewLine(t, first, last) == \A i \in first + 1 .. last : t[i] # "n"
BeginsLine(t, s) == s = 0 \/ t[s] = "n"
EndsLine(t, e) == e = Len(t) \/ t[e + 1] = "n"

LEMMA MostOf ==
    ASSUME NEW S \in SUBSET Nat, S # {}, NEW n \in Nat, \A x \in S : x <= n
    PROVE  Typed!Max(S) \in S /\ \A y \in S : Typed!Max(S) >= y
  <1>1. \E x \in S : \A y \in S : x >= y
    BY GreatestOf
  <1> QED
    BY <1>1 DEF Typed!Max

LEMMA FewestOf ==
    ASSUME NEW S \in SUBSET Nat, S # {}
    PROVE  Typed!Min(S) \in S /\ \A y \in S : Typed!Min(S) <= y
  <1>1. \E x \in S : \A y \in S : x <= y
    BY LeastOf
  <1> QED
    BY <1>1 DEF Typed!Min

LEMMA StartFound ==
    ASSUME NEW t \in Seq(Char), NEW k \in 0 .. Len(t)
    PROVE  /\ StartIn(t, k) \in 0 .. k
           /\ BeginsLine(t, StartIn(t, k)) /\ NoNewLine(t, StartIn(t, k), k)
  <1> DEFINE S == {0} \union {i \in 1 .. k : t[i] = "n"}
             s == Typed!Max(S)
  <1>1. k \in Nat
    BY LenProperties
  <1>2. S \in SUBSET Nat /\ S # {} /\ \A x \in S : x <= k
    BY <1>1
  <1>3. s \in S /\ \A y \in S : s >= y
    <2> HIDE DEF S
    <2> QED
      BY <1>1, <1>2, MostOf
  <1> HIDE DEF s
  <1>4. s \in 0 .. k
    BY <1>1, <1>3
  <1>5. BeginsLine(t, s)
    BY <1>3 DEF BeginsLine
  <1>6. ASSUME NEW i \in s + 1 .. k, t[i] = "n" PROVE FALSE
    <2>1. i \in 1 .. k /\ ~(s >= i)
      BY <1>1, <1>4
    <2>2. i \in S
      BY <1>6, <2>1
    <2> QED
      BY <1>3, <2>1, <2>2
  <1> QED
    BY <1>4, <1>5, <1>6 DEF s, StartIn, NoNewLine

LEMMA EndFound ==
    ASSUME NEW t \in Seq(Char), NEW k \in 0 .. Len(t)
    PROVE  /\ EndIn(t, k) \in k .. Len(t)
           /\ EndsLine(t, EndIn(t, k)) /\ NoNewLine(t, k, EndIn(t, k))
  <1> DEFINE S == {Len(t)} \union {i - 1 : i \in {j \in k + 1 .. Len(t) : t[j] = "n"}}
             e == Typed!Min(S)
  <1>1. k \in Nat /\ Len(t) \in Nat /\ k <= Len(t)
    BY LenProperties
  <1>2. S \in SUBSET (k .. Len(t)) /\ S # {}
    BY <1>1
  <1>3. e \in S /\ \A y \in S : e <= y
    <2>1. S \in SUBSET Nat
      BY <1>1, <1>2
    <2> HIDE DEF S
    <2> QED
      BY <1>2, <2>1, FewestOf
  <1> HIDE DEF e
  <1>4. e \in k .. Len(t)
    BY <1>2, <1>3
  <1>5. EndsLine(t, e)
    <2>1. CASE e = Len(t)
      BY <2>1 DEF EndsLine
    <2>2. CASE e # Len(t)
      <3>1. PICK i \in k + 1 .. Len(t) : t[i] = "n" /\ e = i - 1
        BY <1>3, <2>2
      <3>2. i = e + 1
        BY <1>1, <3>1
      <3> QED
        BY <3>1, <3>2 DEF EndsLine
    <2> QED
      BY <2>1, <2>2
  <1>6. ASSUME NEW i \in k + 1 .. e, t[i] = "n" PROVE FALSE
    <2>1. i \in k + 1 .. Len(t) /\ ~(e <= i - 1)
      BY <1>1, <1>4
    <2>2. i - 1 \in S
      BY <1>6, <2>1
    <2> QED
      BY <1>3, <2>1, <2>2
  <1> QED
    BY <1>4, <1>5, <1>6 DEF e, EndIn, NoNewLine

(* A line from s to e.                                                     *)
IsLine(t, s, e) ==
    /\ s \in 0 .. e /\ e \in 0 .. Len(t)
    /\ BeginsLine(t, s) /\ EndsLine(t, e) /\ NoNewLine(t, s, e)

LEMMA LineFound ==
    ASSUME NEW t \in Seq(Char), NEW s, NEW e, IsLine(t, s, e), NEW c \in s .. e
    PROVE  StartIn(t, c) = s /\ EndIn(t, c) = e
  <1>1. Len(t) \in Nat /\ e \in 0 .. Len(t) /\ s \in 0 .. e /\ c \in s .. e
    BY LenProperties DEF IsLine
  <1>2. c \in 0 .. Len(t)
    BY <1>1
  <1> DEFINE a == StartIn(t, c)
             b == EndIn(t, c)
  <1>3. a \in 0 .. c /\ BeginsLine(t, a) /\ NoNewLine(t, a, c)
    BY <1>2, StartFound
  <1>4. b \in c .. Len(t) /\ EndsLine(t, b) /\ NoNewLine(t, c, b)
    BY <1>2, EndFound
  <1>5. BeginsLine(t, s) /\ EndsLine(t, e) /\ NoNewLine(t, s, e)
    BY DEF IsLine
  <1> HIDE DEF a, b
  <1>6. a = s
    <2>1. CASE a < s
      <3>1. s \in a + 1 .. c /\ s # 0
        BY <1>1, <1>3, <2>1
      <3> QED
        BY <1>3, <1>5, <3>1 DEF NoNewLine, BeginsLine
    <2>2. CASE a > s
      <3>1. a \in s + 1 .. e /\ a # 0
        BY <1>1, <1>3, <2>2
      <3> QED
        BY <1>3, <1>5, <3>1 DEF NoNewLine, BeginsLine
    <2> QED
      BY <1>1, <1>3, <2>1, <2>2
  <1>7. b = e
    <2>1. CASE b < e
      <3>1. b + 1 \in s + 1 .. e /\ b # Len(t)
        BY <1>1, <1>4, <2>1
      <3> QED
        BY <1>4, <1>5, <3>1 DEF NoNewLine, EndsLine
    <2>2. CASE b > e
      <3>1. e + 1 \in c + 1 .. b /\ e # Len(t)
        BY <1>1, <1>4, <2>2
      <3> QED
        BY <1>4, <1>5, <3>1 DEF NoNewLine, EndsLine
    <2> QED
      BY <1>1, <1>4, <2>1, <2>2
  <1> QED
    BY <1>6, <1>7 DEF a, b

-----------------------------------------------------------------------------
(* The column of the caret *)

Ends(t, first, last) == {k \in first + 1 .. last : k = last \/ Typed!Boundary(t, k)}
ColumnIn(t, c) == Cardinality(Ends(t, StartIn(t, c), c))

LEMMA EndsTyped ==
    ASSUME NEW t, NEW first \in Nat, NEW last \in Nat
    PROVE  /\ Ends(t, first, last) \in SUBSET Nat /\ IsFiniteSet(Ends(t, first, last))
           /\ Ends(t, first, last) \in SUBSET (first + 1 .. last)
           /\ Cardinality(Ends(t, first, last)) \in Nat
  <1>1. Ends(t, first, last) \in SUBSET (first + 1 .. last)
    BY DEF Ends
  <1>2. IsFiniteSet(first + 1 .. last)
    BY FS_Interval
  <1>3. IsFiniteSet(Ends(t, first, last))
    BY <1>1, <1>2, FS_Subset
  <1> QED
    BY <1>1, <1>3, FS_CardinalityType

(* The column in a line is the number of the graphemes up to the caret; to *)
(* one of their ends, the graphemes are those of the line up to there.     *)
LEMMA ColumnAt ==
    ASSUME NEW t \in Seq(Char), NEW s, NEW e, IsLine(t, s, e),
           NEW j \in 1 .. Cardinality(Ends(t, s, e)), NEW c, c = Sorted(Ends(t, s, e))[j]
    PROVE  c \in s + 1 .. e /\ ColumnIn(t, c) = j
  <1> DEFINE S == Ends(t, s, e)
  <1>1. Len(t) \in Nat /\ e \in Nat /\ s \in Nat /\ s <= e /\ e <= Len(t)
    BY LenProperties DEF IsLine
  <1>2. S \in SUBSET Nat /\ IsFiniteSet(S) /\ S \in SUBSET (s + 1 .. e) /\ Cardinality(S) \in Nat
    BY <1>1, EndsTyped
  <1>3. c \in S /\ Cardinality({y \in S : y < c}) = j - 1
    <2> HIDE DEF S
    <2>1. j \in 1 .. Cardinality(S) /\ c = Sorted(S)[j]
      BY DEF S
    <2> QED
      BY <1>2, <2>1, PlaceOf
  <1>4. c \in s + 1 .. e /\ c \in s .. e
    BY <1>1, <1>2, <1>3
  <1>5. StartIn(t, c) = s
    BY <1>4, LineFound
  <1> DEFINE L == {y \in S : y < c}
  <1>6. Ends(t, s, c) = L \union {c}
    <2>1. ASSUME NEW k \in Ends(t, s, c) PROVE k \in L \union {c}
      <3>1. k \in s + 1 .. c /\ (k = c \/ Typed!Boundary(t, k))
        BY <2>1 DEF Ends
      <3>2. k \in s + 1 .. e /\ k <= c
        BY <1>1, <1>4, <3>1
      <3>3. CASE k = c
        BY <3>3
      <3>4. CASE k # c
        <4>1. k \in S
          BY <3>1, <3>2, <3>4 DEF Ends
        <4> QED
          BY <1>1, <1>4, <3>2, <3>4, <4>1
      <3> QED
        BY <3>3, <3>4
    <2>2. ASSUME NEW k \in L \union {c} PROVE k \in Ends(t, s, c)
      <3>1. CASE k = c
        <4>1. c \in s + 1 .. c
          BY <1>1, <1>4
        <4> QED
          BY <3>1, <4>1 DEF Ends
      <3>2. CASE k # c
        <4>1. k \in S /\ k < c /\ k \in s + 1 .. e
          BY <1>2, <2>2, <3>2
        <4>2. Typed!Boundary(t, k)
          <5>1. k # e
            BY <1>1, <1>4, <4>1
          <5> QED
            BY <4>1, <5>1 DEF Ends
        <4>3. k \in s + 1 .. c
          BY <1>1, <1>4, <4>1
        <4> QED
          BY <4>2, <4>3 DEF Ends
      <3> QED
        BY <3>1, <3>2
    <2> QED
      BY <2>1, <2>2
  <1>7. IsFiniteSet(L) /\ c \notin L
    <2>1. L \in SUBSET S
      OBVIOUS
    <2>2. c \notin L
      BY <1>1, <1>4
    <2> QED
      BY <1>2, <2>1, <2>2, FS_Subset
  <1>8. Cardinality(L) = j - 1
    BY <1>3
  <1> HIDE DEF L, S
  <1>9. Cardinality(L \union {c}) = Cardinality(L) + 1
    BY <1>7, FS_AddElement
  <1>10. j \in Int
    BY <1>2 DEF S
  <1> QED
    BY <1>4, <1>5, <1>6, <1>8, <1>9, <1>10 DEF ColumnIn

(* Up and down lead to the column, or to the end of a shorter line.        *)
Reach(s, line, col) == IF col = 0 \/ line = <<>> THEN s ELSE line[Typed!Min({col, Len(line)})]

LEMMA ColumnReached ==
    ASSUME NEW t \in Seq(Char), NEW s, NEW e, IsLine(t, s, e), NEW col \in Nat, NEW c,
           c = Reach(s, Sorted(Ends(t, s, e)), col)
    PROVE  /\ c \in s .. e
           /\ ColumnIn(t, c) = col \/ (ColumnIn(t, c) < col /\ c = EndIn(t, c))
  <1> DEFINE S == Ends(t, s, e)
             line == Sorted(S)
             n == Cardinality(S)
  <1>1. Len(t) \in Nat /\ e \in Nat /\ s \in Nat /\ s <= e /\ e <= Len(t)
    BY LenProperties DEF IsLine
  <1>2. S \in SUBSET Nat /\ IsFiniteSet(S) /\ S \in SUBSET (s + 1 .. e) /\ n \in Nat
    BY <1>1, EndsTyped
  <1>3. line \in Seq(S) /\ Len(line) = n /\ Ascends(line) /\ Elements(line) = S
    <2> HIDE DEF S
    <2> QED
      BY <1>2, SortedInOrder
  <1>4. CASE col = 0 \/ line = <<>>
    <2>1. c = s /\ c \in s .. e
      BY <1>1, <1>4 DEF Reach
    <2>2. StartIn(t, c) = s /\ EndIn(t, c) = e
      BY <2>1, LineFound
    <2>3. Ends(t, s, s) = {}
      <3>1. s + 1 .. s = {}
        BY <1>1
      <3> QED
        BY <3>1 DEF Ends
    <2>4. ColumnIn(t, c) = 0
      BY <2>1, <2>2, <2>3, FS_EmptySet DEF ColumnIn
    <2>5. ASSUME line = <<>> PROVE c = e
      <3>1. n = 0
        <4> HIDE DEF S
        <4> QED
          BY <1>3, <2>5
      <3>2. S = {}
        <4> HIDE DEF S
        <4> QED
          BY <1>2, <3>1, FS_EmptySet
      <3>3. ~(e \in s + 1 .. e)
        BY <3>2 DEF Ends
      <3> QED
        BY <1>1, <2>1, <3>3
    <2> HIDE DEF line
    <2> QED
      BY <1>4, <2>1, <2>2, <2>4, <2>5
  <1>5. CASE ~(col = 0 \/ line = <<>>)
    <2> DEFINE j == Typed!Min({col, n})
    <2>1. c = line[j] /\ j = IF col <= n THEN col ELSE n
      <3>1. Least({col, n}) = IF col <= n THEN col ELSE n
        BY <1>2, LeastOfTwo
      <3>2. j = Least({col, n})
        BY DEF Typed!Min, Least
      <3>3. c = line[j]
        BY <1>3, <1>5 DEF Reach
      <3> QED
        BY <3>1, <3>2, <3>3
    <2>2. n # 0
      <3> HIDE DEF S
      <3>1. Len(line) # 0
        BY <1>3, <1>5, EmptySeq
      <3> QED
        BY <1>3, <3>1
    <2> HIDE DEF j
    <2>3. j \in 1 .. n /\ (j = col \/ (j < col /\ j = n))
      BY <1>2, <1>5, <2>1, <2>2
    <2>4. c \in s + 1 .. e /\ ColumnIn(t, c) = j
      BY <2>1, <2>3, ColumnAt
    <2>5. c \in s .. e
      BY <1>1, <2>4
    <2>6. EndIn(t, c) = e
      BY <2>5, LineFound
    <2>7. ASSUME j = n PROVE c = e
      <3>1. e \in S
        <4>1. e \in s + 1 .. e
          BY <1>1, <2>4
        <4> QED
          BY <4>1 DEF Ends
      <3>2. PICK i \in 1 .. n : line[i] = e
        <4> HIDE DEF S
        <4>1. DOMAIN line = 1 .. n
          BY <1>3
        <4> QED
          BY <1>3, <3>1, <4>1 DEF Elements
      <3>3. i < n => line[i] < line[n]
        <4> HIDE DEF S
        <4>1. n \in 1 .. n
          BY <1>2, <2>2
        <4> QED
          BY <1>3, <3>2, <4>1 DEF Ascends
      <3>4. i = n \/ i < n
        BY <1>2, <3>2
      <3> QED
        BY <1>1, <2>1, <2>4, <2>7, <3>2, <3>3, <3>4
    <2> QED
      BY <2>3, <2>4, <2>5, <2>6, <2>7
  <1> QED
    BY <1>4, <1>5

(* What is typed is made of characters, and of one line in a form.         *)
LEMMA Normal ==
    ASSUME NEW input \in Typed!Input
    PROVE  /\ Typed!Normalized(input) \in Seq(Char)
           /\ {"n", "t", "c"} \intersect Typed!Range(input) = {} => OneLine(Typed!Normalized(input))
  <1>1. input \in Seq(Char) /\ DOMAIN input = 1 .. Len(input)
    <2>1. PICK x \in Char, y \in Char : input = <<x>> \/ input = <<x, y>>
      BY DEF Typed!Input, Typed!Letter, Typed!Combining, Typed!NewLine, Typed!Tab, Typed!Control,
             Char
    <2> HIDE DEF Char
    <2>2. CASE input = <<x>>
      BY <2>2
    <2>3. CASE input = <<x, y>>
      BY <2>3
    <2> QED
      BY <2>1, <2>2, <2>3
  <1>2. /\ Typed!Normalized(input) \in Seq(Char)
        /\ input # <<"t">> => Typed!Normalized(input) = input
    <2>1. <<"a", "a">> \in Seq(Char)
      <3>1. "a" \in Char
        BY DEF Char
      <3> HIDE DEF Char
      <3> QED
        BY <3>1
    <2> QED
      BY <1>1, <2>1 DEF Typed!Normalized, Typed!Tab, Typed!Letter
  <1>3. ASSUME {"n", "t", "c"} \intersect Typed!Range(input) = {}
        PROVE  OneLine(Typed!Normalized(input))
    <2>1. \A i \in DOMAIN input : input[i] \notin {"n", "t", "c"}
      BY <1>3 DEF Typed!Range
    <2>2. input = <<"a">> \/ input = <<"m">>
      <3>1. input # <<"n">> /\ input # <<"t">> /\ input # <<"c">>
        <4>1. <<"n">>[1] = "n" /\ <<"t">>[1] = "t" /\ <<"c">>[1] = "c"
          OBVIOUS
        <4>2. 1 \in DOMAIN <<"n">> /\ 1 \in DOMAIN <<"t">> /\ 1 \in DOMAIN <<"c">>
          OBVIOUS
        <4> QED
          BY <2>1, <4>1, <4>2
      <3>2. input # <<"a", "n">>
        <4>1. <<"a", "n">>[2] = "n" /\ 2 \in DOMAIN <<"a", "n">>
          OBVIOUS
        <4> QED
          BY <2>1, <4>1
      <3> QED
        BY <3>1, <3>2 DEF Typed!Input, Typed!Letter, Typed!Combining, Typed!NewLine, Typed!Tab,
                          Typed!Control
    <2>3. Typed!Normalized(input) = <<"a">> \/ Typed!Normalized(input) = <<"m">>
      BY <1>2, <2>2
    <2> QED
      BY <2>3 DEF OneLine
  <1> QED
    BY <1>2, <1>3

-----------------------------------------------------------------------------
(* What an edit leaves *)

SameText(e, d) ==
    d.texts = e.texts /\ d.field = e.field /\ d.kind = e.kind

LEMMA MoveKeeps ==
    ASSUME NEW e, Edited(e), NEW c \in 0 .. Len(TextOf(e)), NEW d,
           d = [e EXCEPT !.cursors[e.field] = c]
    PROVE  Edited(d) /\ SameText(e, d) /\ TextOf(d) = TextOf(e) /\ CursorOf(d) = c
  <1> DEFINE n == FieldsOf(e)
             cursors == [e.cursors EXCEPT ![e.field] = c]
  <1>1. e \in EditState(n) /\ e.field \in 1 .. n /\ e.cursors \in [1 .. n -> Nat]
    BY EditFields DEF Edited
  <1>2. c \in Nat
    BY EditFields
  <1>3. cursors \in [1 .. n -> Nat] /\ cursors[e.field] = c
        /\ \A f \in 1 .. n : f # e.field => cursors[f] = e.cursors[f]
    BY <1>1, <1>2
  <1>4. d = [e EXCEPT !.cursors = cursors]
    OBVIOUS
  <1> HIDE DEF n, cursors
  <1>5. /\ d \in EditState(n) /\ d.cursors = cursors /\ d.texts = e.texts
        /\ d.field = e.field /\ d.kind = e.kind
    BY <1>1, <1>3, <1>4 DEF EditState
  <1>6. FieldsOf(d) = n
    BY <1>5 DEF FieldsOf, n
  <1>7. Lengths(d) = Lengths(e)
    BY <1>5, <1>6 DEF Lengths, n
  <1>8. \A f \in 1 .. n : d.cursors[f] \in 0 .. Len(d.texts[f])
                          /\ (d.kind = "form" => OneLine(d.texts[f]))
    <2> SUFFICES ASSUME NEW f \in 1 .. n
                 PROVE  cursors[f] \in 0 .. Len(e.texts[f])
                        /\ (e.kind = "form" => OneLine(e.texts[f]))
      BY <1>5
    <2>1. e.cursors[f] \in 0 .. Len(e.texts[f]) /\ (e.kind = "form" => OneLine(e.texts[f]))
      BY DEF Edited, n
    <2> QED
      BY <1>3, <2>1 DEF TextOf
  <1>9. Edited(d)
    BY <1>5, <1>6, <1>7, <1>8 DEF Edited, n
  <1> QED
    BY <1>3, <1>5, <1>9 DEF SameText, TextOf, CursorOf

(* An insertion that the checks let through.                               *)
Fitting(e, insert) ==
    /\ e.kind = "form" => OneLine(insert)
    /\ Len(insert) = 0 \/ Total(Lengths(e), 1 .. FieldsOf(e)) + Len(insert) <= QueryBytes

ReplacedIn(e, first, last, insert) ==
    [e EXCEPT !.texts[e.field] = Splice(TextOf(e), first, last, insert),
              !.cursors[e.field] = first + Len(insert)]

LEMMA ReplaceKeeps ==
    ASSUME NEW e, Edited(e), NEW insert \in Seq(Char), Fitting(e, insert),
           NEW first \in 0 .. Len(TextOf(e)), NEW last \in first .. Len(TextOf(e)),
           NEW d, d = ReplacedIn(e, first, last, insert)
    PROVE  /\ Edited(d) /\ d.field = e.field /\ d.kind = e.kind
           /\ TextOf(d) = Splice(TextOf(e), first, last, insert)
           /\ CursorOf(d) = first + Len(insert)
  <1> DEFINE n == FieldsOf(e)
             t == TextOf(e)
             r == Splice(t, first, last, insert)
             c == first + Len(insert)
             texts == [e.texts EXCEPT ![e.field] = r]
             cursors == [e.cursors EXCEPT ![e.field] = c]
  <1>1. /\ e \in EditState(n) /\ e.field \in 1 .. n /\ e.cursors \in [1 .. n -> Nat]
        /\ e.texts \in [1 .. n -> Seq(Char)] /\ t \in Seq(Char) /\ n \in Nat
        /\ e.kind = "form" => OneLine(t)
    BY EditFields DEF Edited
  <1>2. Len(t) \in Nat /\ first \in Nat /\ last \in Nat /\ first <= last /\ last <= Len(t)
        /\ Len(insert) \in Nat
    BY <1>1, LenProperties
  <1>3. r \in Seq(Char) /\ HasParts(r, t, first, last, insert)
    <2>1. first \in 0 .. Len(t) /\ last \in first .. Len(t)
      OBVIOUS
    <2> HIDE DEF t
    <2> QED
      BY <1>1, <2>1, Spliced
  <1>4. d = [e EXCEPT !.texts = texts, !.cursors = cursors]
    BY DEF ReplacedIn
  <1> HIDE DEF t, r
  <1>5. Len(r) = c + (Len(t) - last) /\ c \in 0 .. Len(r) /\ c \in Nat /\ Len(r) \in Nat
    BY <1>2, <1>3 DEF HasParts
  <1> HIDE DEF c
  <1>6. /\ texts \in [1 .. n -> Seq(Char)] /\ texts[e.field] = r
        /\ \A f \in 1 .. n : f # e.field => texts[f] = e.texts[f]
        /\ cursors \in [1 .. n -> Nat] /\ cursors[e.field] = c
        /\ \A f \in 1 .. n : f # e.field => cursors[f] = e.cursors[f]
    BY <1>1, <1>3, <1>5
  <1> HIDE DEF n, texts, cursors
  <1>7. /\ d \in EditState(n) /\ d.cursors = cursors /\ d.texts = texts
        /\ d.field = e.field /\ d.kind = e.kind
    BY <1>1, <1>4, <1>6 DEF EditState
  <1>8. FieldsOf(d) = n
    BY <1>7 DEF FieldsOf, n
  <1>9. Total(Lengths(d), 1 .. n) <= QueryBytes
    <2>1. IsFiniteSet(1 .. n) /\ Weighs(Lengths(e), 1 .. n) /\ Lengths(e)[e.field] = Len(t)
          /\ Total(Lengths(e), 1 .. n) \in Nat
      BY EditLengths DEF n, t
    <2>2. Lengths(d) = [f \in 1 .. n |-> Len(texts[f])]
      <3>1. Lengths(d) = [f \in 1 .. FieldsOf(d) |-> Len(d.texts[f])]
        BY DEF Lengths
      <3> QED
        BY <1>7, <1>8, <3>1
    <2>3. \A f \in 1 .. n : Len(texts[f]) \in Nat
      BY <1>6, LenProperties
    <2>4. Weighs(Lengths(d), 1 .. n)
      BY <2>2, <2>3 DEF Weighs
    <2>5. Lengths(e) = [f \in 1 .. n |-> Len(e.texts[f])]
      BY DEF Lengths, n
    <2>6. \A f \in (1 .. n) \ {e.field} : Lengths(d)[f] = Lengths(e)[f]
      BY <1>6, <2>2, <2>5
    <2>7. Total(Lengths(d), 1 .. n)
             = Total(Lengths(e), 1 .. n) - Lengths(e)[e.field] + Lengths(d)[e.field]
      <3> DEFINE v == Lengths(d)
                 w == Lengths(e)
                 F == 1 .. n
                 x == e.field
      <3>1. Weighs(v, F) /\ Weighs(w, F) /\ x \in F /\ IsFiniteSet(F)
            /\ \A f \in F \ {x} : v[f] = w[f]
        BY <1>1, <2>1, <2>4, <2>6
      <3> HIDE DEF v, w, F, x
      <3>2. Total(v, F) = Total(w, F) - w[x] + v[x]
        BY <3>1, TotalChanged
      <3> QED
        BY <3>2 DEF v, w, F, x
    <2>8. Lengths(d)[e.field] = Len(r)
      BY <1>1, <1>6, <2>2
    <2>9. Total(Lengths(e), 1 .. n) <= QueryBytes /\ QueryBytes \in Nat
      BY EditFields DEF Edited, n
    <2>10. Total(Lengths(d), 1 .. n) <= Total(Lengths(e), 1 .. n) + Len(insert)
      BY <1>2, <1>5, <2>1, <2>7, <2>8 DEF c
    <2>11. Len(insert) = 0 \/ Total(Lengths(e), 1 .. n) + Len(insert) <= QueryBytes
      BY DEF Fitting, n
    <2>12. Total(Lengths(d), 1 .. n) \in Nat
      BY <2>1, <2>4, TotalTyped
    <2> QED
      BY <1>2, <2>1, <2>9, <2>10, <2>11, <2>12
  <1>10. ASSUME e.kind = "form" PROVE OneLine(r)
    <2>1. OneLine(t) /\ OneLine(insert)
      BY <1>1, <1>10 DEF Fitting
    <2>2. SUFFICES ASSUME NEW i \in 1 .. Len(r) PROVE r[i] # "n"
      BY DEF OneLine
    <2>3. CASE i <= first
      <3>1. i \in 1 .. first /\ i \in 1 .. Len(t)
        BY <1>2, <1>5, <2>3
      <3> QED
        BY <1>3, <2>1, <3>1 DEF HasParts, OneLine
    <2>4. CASE i > first /\ i <= c
      <3>1. i - first \in 1 .. Len(insert) /\ first + (i - first) = i
        BY <1>2, <1>5, <2>4 DEF c
      <3> QED
        BY <1>3, <2>1, <3>1 DEF HasParts, OneLine
    <2>5. CASE i > c
      <3> DEFINE j == i - c
      <3>1. i \in 1 .. Len(r) /\ Len(r) = c + (Len(t) - last)
        BY <1>5, <2>2
      <3>2. j \in 1 .. Len(t) - last /\ c + j = i /\ last + j \in 1 .. Len(t)
        BY <1>2, <1>5, <2>5, <3>1
      <3> HIDE DEF j
      <3>3. \A k \in 1 .. Len(t) - last : r[c + k] = t[last + k]
        BY <1>3 DEF HasParts, c
      <3>4. r[i] = t[last + j]
        BY <3>2, <3>3
      <3> QED
        BY <2>1, <3>2, <3>4 DEF OneLine
    <2> QED
      BY <1>2, <1>5, <2>3, <2>4, <2>5
  <1>11. \A f \in 1 .. n : d.cursors[f] \in 0 .. Len(d.texts[f])
                          /\ (d.kind = "form" => OneLine(d.texts[f]))
    <2> SUFFICES ASSUME NEW f \in 1 .. n
                 PROVE  cursors[f] \in 0 .. Len(texts[f])
                        /\ (e.kind = "form" => OneLine(texts[f]))
      BY <1>7
    <2>1. e.cursors[f] \in 0 .. Len(e.texts[f]) /\ (e.kind = "form" => OneLine(e.texts[f]))
      BY DEF Edited, n
    <2>2. CASE f = e.field
      BY <1>5, <1>6, <1>10, <2>2
    <2>3. CASE f # e.field
      BY <1>6, <2>1, <2>3
    <2> QED
      BY <2>2, <2>3
  <1>12. Edited(d)
    BY <1>7, <1>8, <1>9, <1>11 DEF Edited
  <1> QED
    BY <1>6, <1>7, <1>12 DEF TextOf, CursorOf, r, t, c

-----------------------------------------------------------------------------
(* The keys *)

ColumnOf(e) == ColumnIn(TextOf(e), CursorOf(e))

(* The text changes only at the caret.                                     *)
AtCaret(e, d) ==
    (TextOf(d) # TextOf(e) /\ d.field = e.field /\ TextOf(d) # <<>>) =>
       LET first == Typed!Min({CursorOf(e), CursorOf(d)})
           behind == Len(TextOf(d)) - CursorOf(d)
       IN /\ Typed!Before(TextOf(d), first) = Typed!Before(TextOf(e), first)
          /\ behind <= Len(TextOf(e))
          /\ Typed!Behind(TextOf(d), behind) = Typed!Behind(TextOf(e), behind)

ColumnKept(e, d) ==
    \/ ColumnOf(d) = ColumnOf(e)
    \/ ColumnOf(d) < ColumnOf(e) /\ CursorOf(d) = EndIn(TextOf(d), CursorOf(d))

LEMMA SameAtCaret ==
    ASSUME NEW e, NEW d, SameText(e, d)
    PROVE  AtCaret(e, d)
  BY DEF SameText, AtCaret, TextOf

LEMMA ReplaceAtCaret ==
    ASSUME NEW e, Edited(e), NEW d, NEW insert \in Seq(Char),
           NEW first \in 0 .. Len(TextOf(e)), NEW last \in first .. Len(TextOf(e)),
           TextOf(d) = Splice(TextOf(e), first, last, insert),
           CursorOf(d) = first + Len(insert),
           first <= CursorOf(e), Len(insert) = 0 \/ first = CursorOf(e)
    PROVE  AtCaret(e, d)
  <1> DEFINE t == TextOf(e)
             r == TextOf(d)
  <1>1. t \in Seq(Char) /\ CursorOf(e) \in Nat /\ Len(insert) \in Nat /\ first \in Nat
    BY EditFields, LenProperties
  <1>2. r = Splice(t, first, last, insert) /\ first \in 0 .. Len(t) /\ last \in first .. Len(t)
    OBVIOUS
  <1> HIDE DEF t, r
  <1>3. LET behind == Len(r) - (first + Len(insert)) IN
        /\ Typed!Before(r, first) = Typed!Before(t, first)
        /\ behind <= Len(t) /\ Typed!Behind(r, behind) = Typed!Behind(t, behind)
    BY <1>1, <1>2, SplicedAround
  <1>4. Typed!Min({CursorOf(e), CursorOf(d)}) = first
    <2> DEFINE a == CursorOf(e)
               b == CursorOf(d)
    <2>1. a \in Int /\ b \in Int /\ a >= first /\ b >= first /\ (a = first \/ b = first)
      BY <1>1
    <2> HIDE DEF a, b
    <2>2. Least({a, b}) = first
      BY <1>1, <2>1, LeastOfTwo
    <2> QED
      BY <2>2 DEF Typed!Min, Least, a, b
  <1> QED
    BY <1>3, <1>4 DEF AtCaret, t, r

(* What a key does to the state e of the editor.                           *)
EditedTo(e, d) == Edited(d) /\ AtCaret(e, d)

LEMMA MoveEdits ==
    ASSUME Edited(ed), NEW c \in 0 .. Len(TextOf(ed)), Typed!Move(c)
    PROVE  /\ EditedTo(ed, ed')
           /\ TextOf(ed') = TextOf(ed) /\ CursorOf(ed') = c
  <1>1. ed' = [ed EXCEPT !.cursors[ed.field] = c]
    BY DEF Typed!Move
  <1> DEFINE d == ed'
  <1>2. d = [ed EXCEPT !.cursors[ed.field] = c]
    BY <1>1
  <1> HIDE DEF d
  <1>3. Edited(d) /\ SameText(ed, d) /\ TextOf(d) = TextOf(ed) /\ CursorOf(d) = c
    BY <1>2, MoveKeeps
  <1> QED
    BY <1>3, SameAtCaret DEF EditedTo, d

LEMMA ReplaceEdits ==
    ASSUME Edited(ed), NEW insert \in Seq(Char),
           NEW first \in 0 .. Len(TextOf(ed)), NEW last \in first .. Len(TextOf(ed)),
           Fitting(ed, insert), first <= CursorOf(ed), Len(insert) = 0 \/ first = CursorOf(ed),
           Typed!Replace(first, last, insert)
    PROVE  EditedTo(ed, ed')
  <1> DEFINE d == ed'
  <1>1. d = ReplacedIn(ed, first, last, insert)
    BY DEF Typed!Replace, ReplacedIn, Splice, TextOf
  <1> HIDE DEF d
  <1>2. /\ Edited(d) /\ d.field = ed.field /\ d.kind = ed.kind
        /\ TextOf(d) = Splice(TextOf(ed), first, last, insert)
        /\ CursorOf(d) = first + Len(insert)
    BY <1>1, ReplaceKeeps
  <1>3. AtCaret(ed, d)
    BY <1>2, ReplaceAtCaret
  <1> QED
    BY <1>2, <1>3 DEF EditedTo, d

LEMMA StayEdits ==
    ASSUME Edited(ed), ed' = ed
    PROVE  EditedTo(ed, ed')
  <1>1. SameText(ed, ed')
    BY DEF SameText
  <1>2. AtCaret(ed, ed')
    BY DEF AtCaret
  <1> QED
    BY <1>2 DEF EditedTo

(* The text and its caret, as the keys see them.                           *)
LEMMA SameWords ==
    /\ Typed!Text = TextOf(ed) /\ Typed!Cursor = CursorOf(ed)
    /\ \A k : Typed!LineStart(k) = StartIn(TextOf(ed), k)
    /\ \A k : Typed!LineEnd(k) = EndIn(TextOf(ed), k)
  BY DEF Typed!Text, Typed!Cursor, TextOf, CursorOf, Typed!LineStart, Typed!LineEnd, StartIn,
         EndIn, Typed!NewLine

LEMMA ColumnIs == Typed!Column = ColumnOf(ed) \/ ~Edited(ed)
  <1> SUFFICES ASSUME Edited(ed) PROVE Typed!Column = ColumnOf(ed)
    OBVIOUS
  <1> DEFINE t == TextOf(ed)
             c == CursorOf(ed)
             s == StartIn(t, c)
             S == Ends(t, s, c)
  <1>1. t \in Seq(Char) /\ c \in 0 .. Len(t) /\ Len(t) \in Nat
    BY EditFields
  <1>2. s \in Nat /\ c \in Nat
    <2> HIDE DEF t, c
    <2> QED
      BY <1>1, StartFound
  <1>3. S \in SUBSET Nat /\ IsFiniteSet(S)
    <2> HIDE DEF t, c, s
    <2> QED
      BY <1>2, EndsTyped
  <1>4. Typed!Graphemes(s, c) = Typed!InOrder(S, <)
    BY SameWords, Zenon DEF Typed!Graphemes, Ends
  <1>5. Typed!Column = Len(Typed!Graphemes(s, c))
    BY SameWords, Zenon DEF Typed!Column
  <1>6. Typed!Column = Len(Sorted(S))
    <2> HIDE DEF S
    <2> QED
      BY <1>4, <1>5, InOrderSorted, Zenon
  <1> HIDE DEF S
  <1>7. Len(Sorted(S)) = Cardinality(S)
    BY <1>3, SortedInOrder
  <1> QED
    BY <1>6, <1>7 DEF S, ColumnOf, ColumnIn

(* The graphemes before and behind the caret.                              *)
LEMMA NeighboursFound ==
    ASSUME Edited(ed)
    PROVE  /\ Typed!Previous \in 0 .. CursorOf(ed)
           /\ Typed!Following \in CursorOf(ed) .. Len(TextOf(ed))
  <1> DEFINE t == TextOf(ed)
             c == CursorOf(ed)
             B == {k \in 0 .. c - 1 : Typed!Boundary(t, k)}
             F == {k \in c + 1 .. Len(t) : Typed!Boundary(t, k)}
  <1>1. c \in 0 .. Len(t) /\ Len(t) \in Nat
    BY EditFields
  <1>2. /\ Typed!Previous = IF c = 0 THEN 0 ELSE Typed!Max(B)
        /\ Typed!Following = IF c = Len(t) THEN c ELSE Typed!Min(F)
    BY SameWords, Zenon DEF Typed!Previous, Typed!Following
  <1>3. Typed!Boundary(t, 0) /\ Typed!Boundary(t, Len(t))
    BY DEF Typed!Boundary
  <1> HIDE DEF t, c
  <1>4. ASSUME c # 0 PROVE Typed!Max(B) \in 0 .. c - 1
    <2>1. 0 \in B /\ B \in SUBSET Nat /\ B \in SUBSET (0 .. c - 1) /\ \A x \in B : x <= c
      BY <1>1, <1>3, <1>4
    <2> HIDE DEF B
    <2>2. Typed!Max(B) \in B
      <3>1. c \in Nat
        BY <1>1
      <3> QED
        BY <2>1, <3>1, MostOf
    <2> QED
      BY <2>1, <2>2
  <1>5. ASSUME c # Len(t) PROVE Typed!Min(F) \in c + 1 .. Len(t)
    <2>1. Len(t) \in F /\ F \in SUBSET (c + 1 .. Len(t)) /\ F \in SUBSET Nat
      BY <1>1, <1>3, <1>5
    <2> HIDE DEF F
    <2>2. Typed!Min(F) \in F
      BY <2>1, FewestOf
    <2> QED
      BY <2>1, <2>2
  <1> HIDE DEF B, F
  <1> QED
    BY <1>1, <1>2, <1>4, <1>5 DEF t, c

LEMMA KeyEdits ==
    ASSUME Edited(ed), Typed!EditKeys
    PROVE  EditedTo(ed, ed')
  <1> DEFINE t == TextOf(ed)
             c == CursorOf(ed)
  <1>1. /\ c \in 0 .. Len(t) /\ Len(t) \in Nat /\ t \in Seq(Char)
        /\ Typed!Previous \in 0 .. c /\ Typed!Following \in c .. Len(t)
    BY EditFields, NeighboursFound
  <1>2. /\ StartIn(t, c) \in 0 .. c /\ EndIn(t, c) \in c .. Len(t)
    <2> HIDE DEF t, c
    <2> QED
      BY <1>1, StartFound, EndFound
  <1>3. /\ Typed!Text = t /\ Typed!Cursor = c
        /\ Typed!LineStart(Typed!Cursor) = StartIn(t, c) /\ Typed!LineEnd(Typed!Cursor) = EndIn(t, c)
    BY SameWords
  <1>4. <<>> \in Seq(Char) /\ Len(<<>>) = 0 /\ OneLine(<<>>)
    BY DEF OneLine
  <1>5. ASSUME NEW k \in {Typed!Previous, Typed!Following, StartIn(t, c), EndIn(t, c), 0, Len(t)}
        PROVE  k \in 0 .. Len(t)
    <2> HIDE DEF t, c
    <2> QED
      BY <1>1, <1>2, <1>5
  <1>6. CASE Typed!Left \/ Typed!Right \/ Typed!Home \/ Typed!End \/ Typed!TextHome \/ Typed!TextEnd
    <2>1. PICK k \in {Typed!Previous, Typed!Following, StartIn(t, c), EndIn(t, c), 0, Len(t)} :
             Typed!Move(k)
      BY <1>3, <1>6, Zenon DEF Typed!Left, Typed!Right, Typed!Home, Typed!End, Typed!TextHome,
                               Typed!TextEnd
    <2>2. k \in 0 .. Len(TextOf(ed))
      BY <1>5, <2>1
    <2> QED
      BY <2>1, <2>2, MoveEdits
  <1>7. CASE Typed!Clear \/ Typed!Backspace \/ Typed!Delete
    <2> DEFINE piece(first, last) ==
                  \/ first = 0 /\ last = Len(t)
                  \/ first = Typed!Previous /\ last = c
                  \/ first = c /\ last = Typed!Following
    <2>1. PICK first, last : piece(first, last) /\ Typed!Replace(first, last, <<>>)
      <3>1. CASE Typed!Clear
        <4>1. piece(0, Len(t)) /\ Typed!Replace(0, Len(t), <<>>)
          BY <1>3, <3>1, Zenon DEF Typed!Clear
        <4> QED
          BY <4>1, Zenon
      <3>2. CASE Typed!Backspace
        <4>1. piece(Typed!Previous, c) /\ Typed!Replace(Typed!Previous, c, <<>>)
          BY <1>3, <3>2, Zenon DEF Typed!Backspace
        <4> QED
          BY <4>1, Zenon
      <3>3. CASE Typed!Delete
        <4>1. piece(c, Typed!Following) /\ Typed!Replace(c, Typed!Following, <<>>)
          BY <1>3, <3>3, Zenon DEF Typed!Delete
        <4> QED
          BY <4>1, Zenon
      <3> QED
        BY <1>7, <3>1, <3>2, <3>3
    <2>2. first \in 0 .. Len(t) /\ last \in first .. Len(t) /\ first <= c
      <3> HIDE DEF t, c
      <3> QED
        BY <1>1, <2>1
    <2>3. first \in 0 .. Len(TextOf(ed)) /\ last \in first .. Len(TextOf(ed)) /\ first <= CursorOf(ed)
      BY <2>2
    <2> HIDE DEF t, c
    <2> QED
      BY <1>4, <2>1, <2>3, ReplaceEdits DEF Fitting
  <1> QED
    BY <1>6, <1>7 DEF Typed!EditKeys

LEMMA InsertEdits ==
    ASSUME Edited(ed), NEW input \in Typed!Input, Typed!Insert(input),
           ed.kind = "form" => {"n", "t", "c"} \intersect Typed!Range(input) = {}
    PROVE  EditedTo(ed, ed')
  <1> DEFINE insert == Typed!Normalized(input)
  <1>1. insert \in Seq(Char) /\ (ed.kind = "form" => OneLine(insert))
    BY Normal
  <1>2. \/ ed' = ed
        \/ /\ Typed!Held + Len(insert) <= QueryBytes
           /\ Typed!Replace(Typed!Cursor, Typed!Cursor, insert)
    <2>1. \/ ed' = ed
          \/ /\ ~(Typed!Held + Len(insert) > QueryBytes)
             /\ Typed!Replace(Typed!Cursor, Typed!Cursor, insert)
      BY Zenon DEF Typed!Insert
    <2>2. Typed!Held \in Nat /\ Len(insert) \in Nat /\ QueryBytes \in Nat
      BY <1>1, HeldTotal, EditLengths, EditFields, LenProperties
    <2> HIDE DEF insert
    <2> QED
      BY <2>1, <2>2
  <1> HIDE DEF insert
  <1>3. CASE ed' = ed
    BY <1>3, StayEdits
  <1>4. CASE /\ Typed!Held + Len(insert) <= QueryBytes
             /\ Typed!Replace(Typed!Cursor, Typed!Cursor, insert)
    <2> DEFINE c == CursorOf(ed)
    <2>1. Typed!Replace(c, c, insert)
      BY <1>4, SameWords
    <2>2. Fitting(ed, insert)
      BY <1>1, <1>4, HeldTotal DEF Fitting
    <2>3. c \in 0 .. Len(TextOf(ed)) /\ Len(TextOf(ed)) \in Nat
      BY EditFields
    <2>4. c \in c .. Len(TextOf(ed)) /\ c <= CursorOf(ed) /\ c = CursorOf(ed)
      <3>1. c = CursorOf(ed)
        OBVIOUS
      <3> HIDE DEF c
      <3> QED
        BY <2>3, <3>1
    <2> HIDE DEF c
    <2> QED
      BY <1>1, <2>1, <2>2, <2>3, <2>4, ReplaceEdits
  <1> QED
    BY <1>2, <1>3, <1>4

(* Up and down.                                                            *)
LEMMA LineMoveEdits ==
    ASSUME Edited(ed), NEW s, NEW e, IsLine(TextOf(ed), s, e), Typed!LineMove(s, e)
    PROVE  EditedTo(ed, ed') /\ ColumnKept(ed, ed')
  <1> DEFINE t == TextOf(ed)
             S == Ends(t, s, e)
             line == Sorted(S)
             col == ColumnOf(ed)
             c == Reach(s, line, col)
  <1>1. t \in Seq(Char) /\ Len(t) \in Nat /\ CursorOf(ed) \in 0 .. Len(t)
    BY EditFields
  <1>2. col \in Nat
    <2> DEFINE u == CursorOf(ed)
    <2>1. u \in 0 .. Len(t) /\ u \in Nat
      BY <1>1
    <2> HIDE DEF t, u
    <2>2. StartIn(t, u) \in Nat
      BY <1>1, <2>1, StartFound
    <2>3. ColumnIn(t, u) \in Nat
      BY <2>1, <2>2, EndsTyped DEF ColumnIn
    <2> QED
      BY <2>3 DEF ColumnOf, t, u
  <1>3. Typed!Column = col
    BY ColumnIs
  <1>4. Typed!Graphemes(s, e) = Typed!InOrder(S, <)
    BY SameWords, Zenon DEF Typed!Graphemes, Ends
  <1>5. Typed!Graphemes(s, e) = line
    <2> HIDE DEF S
    <2> QED
      BY <1>4, InOrderSorted, Zenon
  <1>6. Typed!Move(c)
    <2> HIDE DEF line, col
    <2> QED
      BY <1>3, <1>5, Zenon DEF Typed!LineMove, Reach
  <1>7. /\ c \in s .. e
        /\ ColumnIn(t, c) = col \/ (ColumnIn(t, c) < col /\ c = EndIn(t, c))
    <2>1. IsLine(t, s, e) /\ c = Reach(s, Sorted(Ends(t, s, e)), col)
      OBVIOUS
    <2> HIDE DEF t, c, col
    <2> QED
      BY <1>1, <1>2, <2>1, ColumnReached
  <1> HIDE DEF c, t, col
  <1>8. c \in 0 .. Len(t)
    BY <1>1, <1>7 DEF IsLine, t
  <1>9. EditedTo(ed, ed') /\ TextOf(ed') = t /\ CursorOf(ed') = c
    BY <1>6, <1>8, MoveEdits DEF t
  <1> QED
    BY <1>7, <1>9 DEF ColumnKept, ColumnOf, t, col

LEMMA StayKeepsColumn ==
    ASSUME ed' = ed
    PROVE  ColumnKept(ed, ed')
  BY DEF ColumnKept

LEMMA UpEdits ==
    ASSUME Edited(ed), Typed!Up
    PROVE  EditedTo(ed, ed') /\ ColumnKept(ed, ed')
  <1> DEFINE t == TextOf(ed)
             a == StartIn(t, CursorOf(ed))
             e == a - 1
             s == StartIn(t, e)
  <1>1. t \in Seq(Char) /\ CursorOf(ed) \in 0 .. Len(t) /\ Len(t) \in Nat
    BY EditFields
  <1>2. a \in 0 .. CursorOf(ed) /\ BeginsLine(t, a)
    <2> HIDE DEF t
    <2> QED
      BY <1>1, StartFound
  <1>3. IF a = 0 THEN ed' = ed ELSE Typed!LineMove(s, e)
    BY SameWords, Zenon DEF Typed!Up
  <1> HIDE DEF t, a
  <1>4. CASE a = 0
    BY <1>3, <1>4, StayEdits, StayKeepsColumn
  <1>5. CASE a # 0
    <2>1. e \in 0 .. Len(t) /\ e + 1 = a
      BY <1>1, <1>2, <1>5
    <2> HIDE DEF e
    <2>2. s \in 0 .. e /\ BeginsLine(t, s) /\ NoNewLine(t, s, e)
      BY <1>1, <2>1, StartFound
    <2>3. EndsLine(t, e)
      BY <1>2, <1>5, <2>1 DEF BeginsLine, EndsLine
    <2> HIDE DEF s
    <2>4. IsLine(t, s, e)
      BY <2>1, <2>2, <2>3 DEF IsLine
    <2> QED
      BY <1>3, <1>5, <2>4, LineMoveEdits DEF t
  <1> QED
    BY <1>4, <1>5

LEMMA DownEdits ==
    ASSUME Edited(ed), Typed!Down
    PROVE  EditedTo(ed, ed') /\ ColumnKept(ed, ed')
  <1> DEFINE t == TextOf(ed)
             a == EndIn(t, CursorOf(ed))
             s == a + 1
             e == EndIn(t, s)
  <1>1. t \in Seq(Char) /\ CursorOf(ed) \in 0 .. Len(t) /\ Len(t) \in Nat
    BY EditFields
  <1>2. a \in CursorOf(ed) .. Len(t) /\ EndsLine(t, a)
    <2> HIDE DEF t
    <2> QED
      BY <1>1, EndFound
  <1>3. IF a = Len(t) THEN ed' = ed ELSE Typed!LineMove(s, e)
    BY SameWords, Zenon DEF Typed!Down
  <1> HIDE DEF t, a
  <1>4. CASE a = Len(t)
    BY <1>3, <1>4, StayEdits, StayKeepsColumn
  <1>5. CASE a # Len(t)
    <2>1. s \in 0 .. Len(t) /\ s \in Nat
      BY <1>1, <1>2, <1>5
    <2>2. BeginsLine(t, s)
      BY <1>2, <1>5 DEF BeginsLine, EndsLine
    <2> HIDE DEF s
    <2>3. e \in s .. Len(t) /\ EndsLine(t, e) /\ NoNewLine(t, s, e)
      BY <1>1, <2>1, EndFound
    <2> HIDE DEF e
    <2>4. IsLine(t, s, e)
      BY <1>1, <2>1, <2>2, <2>3 DEF IsLine
    <2> QED
      BY <1>3, <1>5, <2>4, LineMoveEdits DEF t
  <1> QED
    BY <1>4, <1>5

(* The texts and carets stay.                                              *)
LEMMA TextsStay ==
    ASSUME NEW e, Edited(e), NEW d, d.texts = e.texts, d.cursors = e.cursors, d.kind = e.kind,
           d \in EditState(FieldsOf(e))
    PROVE  Edited(d)
  <1>1. FieldsOf(d) = FieldsOf(e)
    BY DEF FieldsOf
  <1>2. Lengths(d) = Lengths(e)
    BY <1>1 DEF Lengths
  <1> QED
    BY <1>1, <1>2 DEF Edited

LEMMA ChooseEdits ==
    ASSUME Edited(ed), Typed!Choose
    PROVE  EditedTo(ed, ed')
  <1> DEFINE d == ed'
             n == FieldsOf(ed)
  <1>1. /\ ed \in EditState(n) /\ ed.selected \in 1 .. Providers /\ Providers \in Nat \ {0}
    BY EditFields DEF Edited
  <1>2. \/ \E s \in {Typed!Max({1, ed.selected - 1}), Typed!Min({Providers, ed.selected + 1})} :
              d = [ed EXCEPT !.selected = s]
        \/ d = [ed EXCEPT !.choosing = FALSE]
    BY Zenon DEF Typed!Choose
  <1>3. /\ Typed!Max({1, ed.selected - 1}) \in 1 .. Providers
        /\ Typed!Min({Providers, ed.selected + 1}) \in 1 .. Providers
    <2> DEFINE a == ed.selected
    <2>1. a \in Int /\ a >= 1 /\ a <= Providers /\ a - 1 \in Int /\ a + 1 \in Int
          /\ 1 \in Int /\ Providers \in Int
      BY <1>1
    <2> HIDE DEF a
    <2>2. /\ Most({1, a - 1}) = IF 1 >= a - 1 THEN 1 ELSE a - 1
          /\ Least({Providers, a + 1}) = IF Providers <= a + 1 THEN Providers ELSE a + 1
      BY <2>1, LeastOfTwo
    <2>3. Most({1, a - 1}) \in 1 .. Providers /\ Least({Providers, a + 1}) \in 1 .. Providers
      BY <1>1, <2>1, <2>2
    <2> QED
      BY <2>3 DEF Typed!Max, Most, Typed!Min, Least, a
  <1> HIDE DEF d, n
  <1>4. /\ d \in EditState(n) /\ d.texts = ed.texts /\ d.cursors = ed.cursors /\ d.kind = ed.kind
        /\ d.field = ed.field
    <2>1. CASE d = [ed EXCEPT !.choosing = FALSE]
      BY <1>1, <2>1 DEF EditState
    <2>2. CASE \E s \in 1 .. Providers : d = [ed EXCEPT !.selected = s]
      BY <1>1, <2>2 DEF EditState
    <2> QED
      BY <1>2, <1>3, <2>1, <2>2
  <1>5. Edited(d)
    BY <1>4, TextsStay DEF n
  <1>6. AtCaret(ed, d)
    BY <1>4, SameAtCaret DEF SameText
  <1> QED
    BY <1>5, <1>6 DEF EditedTo, d

LEMMA TurnedIn ==
    ASSUME NEW n \in Nat \ {0}, NEW f \in 1 .. n
    PROVE  (f % n) + 1 \in 1 .. n /\ ((f + n - 2) % n) + 1 \in 1 .. n
  <1>1. n \in Nat /\ n > 0 /\ f \in Int /\ f + n - 2 \in Int
    OBVIOUS
  <1>2. \A x \in Int : x % n \in 0 .. n - 1
    BY <1>1
  <1>3. f % n \in 0 .. n - 1 /\ (f + n - 2) % n \in 0 .. n - 1
    BY <1>1, <1>2
  <1> QED
    BY <1>1, <1>3

LEMMA FormEdits ==
    ASSUME Edited(ed), Typed!FormKey
    PROVE  EditedTo(ed, ed')
  <1> DEFINE d == ed'
             n == FieldsOf(ed)
  <1>1. ed.kind = "form"
    BY Zenon DEF Typed!FormKey, Typed!Is
  <1>2. /\ ed \in EditState(n) /\ ed.field \in 1 .. n /\ n = Fields /\ Fields \in Nat \ {0}
    BY <1>1, EditFields DEF Edited, FieldsOf
  <1>3. \/ Typed!EditKeys
        \/ d = [ed EXCEPT !.field = (ed.field % Fields) + 1]
        \/ d = [ed EXCEPT !.field = ((ed.field + Fields - 2) % Fields) + 1]
        \/ d = [ed EXCEPT !.save = TRUE]
    BY Zenon DEF Typed!FormKey
  <1>4. (ed.field % Fields) + 1 \in 1 .. n /\ ((ed.field + Fields - 2) % Fields) + 1 \in 1 .. n
    BY <1>2, TurnedIn
  <1> HIDE DEF d, n
  <1>5. CASE Typed!EditKeys
    BY <1>5, KeyEdits
  <1>6. CASE \E f \in 1 .. n : d = [ed EXCEPT !.field = f]
    <2>1. PICK f \in 1 .. n : d = [ed EXCEPT !.field = f]
      BY <1>6
    <2>2. /\ d \in EditState(n) /\ d.texts = ed.texts /\ d.cursors = ed.cursors
          /\ d.kind = ed.kind /\ d.field = f
      BY <1>2, <2>1 DEF EditState
    <2>3. Edited(d)
      BY <2>2, TextsStay DEF n
    <2>4. d.field = ed.field => TextOf(d) = TextOf(ed)
      BY <2>2 DEF TextOf
    <2>5. AtCaret(ed, d)
      BY <2>4 DEF AtCaret
    <2> QED
      BY <2>3, <2>5 DEF EditedTo, d
  <1>7. CASE d = [ed EXCEPT !.save = TRUE]
    <2>1. /\ d \in EditState(n) /\ d.texts = ed.texts /\ d.cursors = ed.cursors
          /\ d.kind = ed.kind /\ d.field = ed.field
      BY <1>2, <1>7 DEF EditState
    <2>2. Edited(d)
      BY <2>1, TextsStay DEF n
    <2>3. AtCaret(ed, d)
      BY <2>1, SameAtCaret DEF SameText
    <2> QED
      BY <2>2, <2>3 DEF EditedTo, d
  <1> QED
    BY <1>3, <1>4, <1>5, <1>6, <1>7

LEMMA TypeEdits ==
    ASSUME Edited(ed), Typed!QueryTypes \/ Typed!FormTypes
    PROVE  EditedTo(ed, ed')
  <1>1. CASE Typed!QueryTypes
    <2>1. PICK input \in Typed!Input : Typed!Insert(input)
      BY <1>1, Zenon DEF Typed!QueryTypes
    <2>2. ed.kind # "form"
      BY <1>1 DEF Typed!QueryTypes, Typed!Is
    <2> QED
      BY <2>1, <2>2, InsertEdits
  <1>2. CASE Typed!FormTypes
    <2>1. PICK input \in Typed!Input :
             IF {"n", "t", "c"} \intersect Typed!Range(input) # {} THEN ed' = ed
             ELSE Typed!Insert(input)
      BY <1>2, Zenon DEF Typed!FormTypes, Typed!NewLine, Typed!Tab, Typed!Control
    <2>2. CASE ed' = ed
      BY <2>2, StayEdits
    <2>3. CASE {"n", "t", "c"} \intersect Typed!Range(input) = {} /\ Typed!Insert(input)
      BY <2>3, InsertEdits
    <2> QED
      BY <2>1, <2>2, <2>3
  <1> QED
    BY <1>1, <1>2

(* Every key: the caret stays in the text, the text changes at the caret,  *)
(* and up and down keep the column.                                        *)
LEMMA EditStep ==
    ASSUME Edited(ed), Typed!Next
    PROVE  EditedTo(ed, ed')
  <1>1. CASE Typed!QueryTypes \/ Typed!FormTypes
    BY <1>1, TypeEdits
  <1>2. CASE Typed!QueryKey
    BY <1>2, KeyEdits DEF Typed!QueryKey
  <1>3. CASE Typed!Up
    BY <1>3, UpEdits
  <1>4. CASE Typed!Down
    BY <1>4, DownEdits
  <1>5. CASE Typed!Choose
    BY <1>5, ChooseEdits
  <1>6. CASE Typed!FormKey
    BY <1>6, FormEdits
  <1> QED
    BY <1>1, <1>2, <1>3, <1>4, <1>5, <1>6 DEF Typed!Next

LEMMA EditStart ==
    ASSUME ed \in {Typed!Editor("query", 1, FALSE), Typed!Editor("form", Fields, TRUE)}
    PROVE  Edited(ed)
  <1> DEFINE n == FieldsOf(ed)
  <1>1. Fields \in Nat \ {0} /\ Providers \in Nat \ {0} /\ QueryBytes \in Nat
    BY EditorAssumption
  <1>2. PICK kind \in {"query", "form"}, choosing \in BOOLEAN :
           ed = Typed!Editor(kind, IF kind = "query" THEN 1 ELSE Fields, choosing)
    OBVIOUS
  <1>3. n = (IF kind = "query" THEN 1 ELSE Fields) /\ n \in Nat \ {0}
    BY <1>1, <1>2 DEF Typed!Editor, FieldsOf
  <1>4. ed = Typed!Editor(kind, n, choosing)
    BY <1>2, <1>3
  <1> HIDE DEF n
  <1>5. <<>> \in Seq(Char)
    OBVIOUS
  <1>6. /\ ed \in EditState(n)
        /\ \A f \in 1 .. n : ed.texts[f] = <<>> /\ ed.cursors[f] = 0
    BY <1>1, <1>3, <1>4, <1>5 DEF Typed!Editor, EditState
  <1>7. Total(Lengths(ed), 1 .. n) = 0
    <2>1. Lengths(ed) = [f \in 1 .. n |-> 0]
      BY <1>6 DEF Lengths, n
    <2>2. Units(Lengths(ed), 1 .. n) = {}
      BY <2>1 DEF Units
    <2> QED
      BY <2>2, FS_EmptySet DEF Total
  <1>8. \A f \in 1 .. n : ed.cursors[f] \in 0 .. Len(ed.texts[f]) /\ OneLine(ed.texts[f])
    BY <1>6 DEF OneLine
  <1> QED
    BY <1>1, <1>6, <1>7, <1>8 DEF Edited, n

LEMMA EditIsKept == Edited(ed) => Typed!CaretInText
  <1> SUFFICES ASSUME Edited(ed) PROVE Typed!CaretInText
    OBVIOUS
  <1> DEFINE n == FieldsOf(ed)
  <1>1. DOMAIN ed.texts = 1 .. n /\ ed.field \in 1 .. n /\ ed.selected \in 1 .. Providers
        /\ ed.texts \in [1 .. n -> Seq(Char)]
    BY EditFields
  <1>2. Typed!Held <= QueryBytes
    BY HeldTotal DEF Edited
  <1>3. \A f \in 1 .. n : ed.cursors[f] \in 0 .. Len(ed.texts[f])
                          /\ (ed.kind = "form" => OneLine(ed.texts[f]))
    BY DEF Edited
  <1> HIDE DEF n
  <1>4. ASSUME NEW f \in 1 .. n, ed.kind = "form" PROVE "n" \notin Typed!Range(ed.texts[f])
    <2>1. OneLine(ed.texts[f]) /\ ed.texts[f] \in Seq(Char)
      BY <1>1, <1>3, <1>4
    <2> QED
      BY <2>1 DEF OneLine, Typed!Range
  <1> QED
    BY <1>1, <1>2, <1>3, <1>4 DEF Typed!CaretInText, Typed!NewLine

(* What the run sees of a step.                                            *)
AtTheCaret ==
    /\ (Typed!Text' # Typed!Text /\ ed'.field = ed.field /\ Typed!Text' # <<>>) =>
          LET first == Typed!Min({Typed!Cursor, Typed!Cursor'})
              behind == Len(Typed!Text') - Typed!Cursor'
          IN /\ Typed!Before(Typed!Text', first) = Typed!Before(Typed!Text, first)
             /\ behind <= Len(Typed!Text)
             /\ Typed!Behind(Typed!Text', behind) = Typed!Behind(Typed!Text, behind)
    /\ (Typed!Up \/ Typed!Down) =>
          \/ Typed!LineNumber' = Typed!LineNumber
          \/ Typed!Column' = Typed!Column
          \/ Typed!Column' < Typed!Column /\ Typed!Cursor' = Typed!LineEnd(Typed!Cursor)'

LEMMA EditSeen ==
    ASSUME Edited(ed), Typed!Next
    PROVE  AtTheCaret
  <1>1. EditedTo(ed, ed')
    BY EditStep
  <1>2. Typed!Text' = TextOf(ed') /\ Typed!Cursor' = CursorOf(ed')
        /\ Typed!Text = TextOf(ed) /\ Typed!Cursor = CursorOf(ed)
    BY DEF Typed!Text, Typed!Cursor, TextOf, CursorOf
  <1>3. Typed!Column = ColumnOf(ed)
    BY ColumnIs
  <1>4. (Typed!Column = ColumnOf(ed) \/ ~Edited(ed))'
    BY ColumnIs, PTL
  <1>5. Typed!Column' = ColumnOf(ed')
    BY <1>1, <1>4 DEF EditedTo
  <1>6. Typed!LineEnd(Typed!Cursor)' = EndIn(TextOf(ed'), CursorOf(ed'))
    BY DEF Typed!LineEnd, Typed!Text, Typed!Cursor, TextOf, CursorOf, EndIn, Typed!NewLine
  <1>7. (Typed!Up \/ Typed!Down) => ColumnKept(ed, ed')
    BY UpEdits, DownEdits
  <1>8. AtCaret(ed, ed')
    BY <1>1 DEF EditedTo
  <1> QED
    BY <1>2, <1>3, <1>5, <1>6, <1>7, <1>8, Zenon DEF AtTheCaret, AtCaret, ColumnKept

-----------------------------------------------------------------------------
(* What is drawn: its sums and bounds *)

LEMMA DrawnTotal ==
    ASSUME NEW D, IsFiniteSet(D), NEW w, Weighs(w, D)
    PROVE  Drawn!SumFunctionOnSet(w, D) = Total(w, D) /\ Total(w, D) \in Nat
  <1>1. Drawn!SumFunctionOnSet(w, D) = SumFunctionOnSet(w, D)
    BY Zenon DEF Drawn!SumFunctionOnSet, Drawn!FoldFunctionOnSet, Drawn!MapThenFoldSet,
                 SumFunctionOnSet, FoldFunctionOnSet, MapThenFoldSet
  <1> QED
    BY <1>1, SumTotal

LEMMA DrawnBounds ==
    ASSUME NEW a \in Int, NEW b \in Int
    PROVE  /\ Drawn!Min({a, b}) = (IF a <= b THEN a ELSE b)
           /\ Drawn!Max({a, b}) = (IF a >= b THEN a ELSE b)
  <1>1. Drawn!Min({a, b}) = Least({a, b}) /\ Drawn!Max({a, b}) = Most({a, b})
    BY DEF Drawn!Min, Drawn!Max, Least, Most
  <1> QED
    BY <1>1, LeastOfTwo

LEMMA DrawnLeast ==
    ASSUME NEW S \in SUBSET Nat, S # {}
    PROVE  Drawn!Min(S) \in S /\ \A y \in S : Drawn!Min(S) <= y
  <1>1. \E x \in S : \A y \in S : x <= y
    BY LeastOf
  <1> QED
    BY <1>1 DEF Drawn!Min

LEMMA DrawnGreatest ==
    ASSUME NEW S \in SUBSET Nat, S # {}, NEW n \in Nat, \A x \in S : x <= n
    PROVE  Drawn!Max(S) \in S /\ \A y \in S : y <= Drawn!Max(S)
  <1>1. \E x \in S : \A y \in S : x >= y
    BY GreatestOf
  <1>2. Drawn!Max(S) \in S /\ \A y \in S : Drawn!Max(S) >= y
    BY <1>1 DEF Drawn!Max
  <1> QED
    BY <1>2

(* Equal numbers have a sum that is as many of them.                       *)
LEMMA TotalOfOnes ==
    ASSUME NEW D, IsFiniteSet(D), NEW w, \A x \in D : w[x] = 1
    PROVE  Total(w, D) = Cardinality(D)
  <1> DEFINE G == {s \in SUBSET D : Total(w, s) = Cardinality(s)}
  <1>1. {} \in G
    BY TotalOfNone, FS_EmptySet
  <1>2. ASSUME NEW s \in SUBSET D, NEW x \in s, s \ {x} \in G PROVE s \in G
    <2>1. IsFiniteSet(s) /\ Weighs(w, s)
      BY FS_Subset DEF Weighs
    <2>2. Total(w, s) = w[x] + Total(w, s \ {x}) /\ w[x] = 1
      BY <2>1, TotalAdds
    <2>3. Cardinality(s \ {x}) = Cardinality(s) - 1 /\ Cardinality(s) \in Nat
      BY <2>1, FS_RemoveElement, FS_CardinalityType
    <2> QED
      BY <1>2, <2>2, <2>3
  <1> HIDE DEF G
  <1>3. SUBSET D \subseteq G
    <2>1. \A s \in SUBSET D : s # {} => \E x \in s : s \ {x} \in G => s \in G
      BY <1>2
    <2> QED
      BY <1>1, <2>1, SubsetInduction
  <1> QED
    BY <1>3 DEF G

-----------------------------------------------------------------------------
(* The widths of the columns *)

(* The least that one of n gets of r, when it is shared.                   *)
Fair(q, r, n) == q \in Nat /\ q * n <= r /\ r < q * n + n

LEMMA ShareIsFair ==
    ASSUME NEW r \in Nat, NEW n \in Nat \ {0}
    PROVE  Fair(r \div n, r, n)
  BY DEF Fair

LEMMA ProductGrows ==
    ASSUME NEW a \in Nat, NEW b \in Nat, NEW c \in Nat, a <= b
    PROVE  a * c <= b * c /\ a * c \in Nat /\ b * c \in Nat
  <1>1. b = a + (b - a) /\ b - a \in Nat
    OBVIOUS
  <1>2. b * c = a * c + (b - a) * c
    OBVIOUS
  <1>3. (b - a) * c \in Nat /\ a * c \in Nat /\ b * c \in Nat
    BY <1>1
  <1> QED
    BY <1>2, <1>3

(* A column takes its part, or all it needs when that is less.             *)
LEMMA FairLeaves ==
    ASSUME NEW r \in Nat, NEW m \in Nat, NEW q, Fair(q, r, m + 1), NEW w \in 0 .. q
    PROVE  /\ r - w \in Nat
           /\ w * m <= r - w
           /\ \A v \in Nat : v * (m + 1) <= r => v <= q /\ v * m <= r - w
           /\ w = q => r - w <= (q + 1) * m
           /\ \A v \in Nat : v * (m + 1) <= r /\ r <= (v + 1) * (m + 1) =>
                 q <= v + 1 /\ (w = q => r - w <= (v + 1) * m)
  <1>1. q \in Nat /\ q * (m + 1) = q * m + q /\ q * m \in Nat /\ w \in Nat /\ w <= q
    BY DEF Fair
  <1>2. q * m + q <= r /\ r < q * m + q + m + 1
    BY <1>1 DEF Fair
  <1>3. w * m <= q * m /\ w * m \in Nat
    BY <1>1, ProductGrows
  <1>4. r - w \in Nat /\ q * m <= r - w /\ w * m <= r - w
    BY <1>1, <1>2, <1>3
  <1>5. (q + 1) * m = q * m + m
    BY <1>1
  <1>6. ASSUME NEW v \in Nat, v * (m + 1) <= r PROVE v <= q /\ v * m <= r - w
    <2>1. v * (m + 1) = v * m + v /\ v * m \in Nat
      OBVIOUS
    <2>2. v <= q
      <3> SUFFICES ASSUME q + 1 <= v PROVE FALSE
        BY <1>1
      <3>1. (q + 1) * m <= v * m
        BY <1>1, ProductGrows
      <3> QED
        BY <1>1, <1>2, <1>5, <1>6, <2>1, <3>1
    <2>3. v * m <= q * m
      BY <1>1, <2>2, ProductGrows
    <2> QED
      BY <1>1, <1>4, <2>1, <2>2, <2>3
  <1>7. ASSUME NEW v \in Nat, v * (m + 1) <= r, r <= (v + 1) * (m + 1)
        PROVE  q <= v + 1 /\ (w = q => r - w <= (v + 1) * m)
    <2>1. (v + 1) * (m + 1) = (v + 1) * m + v + 1 /\ (v + 1) * m = v * m + m /\ v * m \in Nat
      OBVIOUS
    <2>2. q <= v + 1
      <3> SUFFICES ASSUME v + 2 <= q PROVE FALSE
        BY <1>1
      <3>1. (v + 2) * m <= q * m /\ (v + 2) * m = (v + 1) * m + m
        BY <1>1, ProductGrows
      <3> QED
        BY <1>1, <1>2, <1>7, <2>1, <3>1
    <2>3. v <= q
      BY <1>6, <1>7
    <2>4. CASE q = v + 1
      BY <1>7, <2>1, <2>4
    <2>5. CASE q = v
      BY <1>2, <1>5, <2>1, <2>5
    <2> QED
      BY <1>1, <2>2, <2>3, <2>4, <2>5
  <1> QED
    BY <1>1, <1>2, <1>4, <1>5, <1>6, <1>7

(* The columns of a state of Layout, of which some wait for their width.   *)
Columnar(s) ==
    s \in [kind : {"widths"}, needs : [1 .. Columns -> Nat], waiting : SUBSET (1 .. Columns),
           widths : [1 .. Columns -> Nat], available : Nat, remaining : Nat]

Served(s) == 1 .. Columns \ s.waiting

(* Those that need least came first; none of them got more than what is    *)
(* left gives each of the others, and one that got less than it needs got  *)
(* as much as any other, but for one.                                      *)
Allotted(s) ==
    LET m == Cardinality(s.waiting) IN
    /\ Columnar(s)
    /\ Total(s.widths, 1 .. Columns) + s.remaining = s.available
    /\ \A c \in s.waiting : s.widths[c] = 0
    /\ \A c \in Served(s), d \in s.waiting : s.needs[c] <= s.needs[d]
    /\ \A c \in Served(s) : s.widths[c] <= s.needs[c] /\ s.widths[c] * m <= s.remaining
    /\ \A c \in Served(s) : s.widths[c] < s.needs[c] =>
          /\ s.remaining <= (s.widths[c] + 1) * m
          /\ \A d \in Served(s) : s.widths[d] <= s.widths[c] + 1

(* A column x is served, with the width w.                                 *)
LEMMA ColumnsServed ==
    ASSUME NEW s, Allotted(s), NEW x \in s.waiting, \A d \in s.waiting : s.needs[x] <= s.needs[d],
           NEW q, Fair(q, s.remaining, Cardinality(s.waiting)),
           NEW w, w = (IF s.needs[x] <= q THEN s.needs[x] ELSE q),
           NEW t, t = [s EXCEPT !.waiting = @ \ {x}, !.widths[x] = w, !.remaining = @ - w]
    PROVE  Allotted(t)
  <1> DEFINE C == 1 .. Columns
             m == Cardinality(t.waiting)
             r == s.remaining
  <1>1. /\ s.needs \in [C -> Nat] /\ s.widths \in [C -> Nat] /\ s.waiting \subseteq C
        /\ s.available \in Nat /\ r \in Nat /\ x \in C /\ s.needs[x] \in Nat /\ s.widths[x] = 0
    BY DEF Allotted, Columnar
  <1>17. /\ t.needs = s.needs /\ t.available = s.available /\ t.waiting = s.waiting \ {x}
         /\ t.widths = [s.widths EXCEPT ![x] = w] /\ t.remaining = r - w
    BY DEF Allotted, Columnar
  <1>2. IsFiniteSet(C)
    <2>1. 1 \in Int /\ Columns \in Int
      BY LayoutAssumption
    <2> QED
      BY <2>1, FS_Interval
  <1>3. IsFiniteSet(s.waiting) /\ Cardinality(s.waiting) = m + 1 /\ m \in Nat
    <2>1. IsFiniteSet(s.waiting)
      BY <1>1, <1>2, FS_Subset
    <2>2. IsFiniteSet(t.waiting) /\ Cardinality(t.waiting) = Cardinality(s.waiting) - 1
      BY <1>17, <2>1, FS_RemoveElement
    <2>3. Cardinality(s.waiting) \in Nat /\ Cardinality(t.waiting) \in Nat
      BY <2>1, <2>2, FS_CardinalityType
    <2> QED
      BY <2>1, <2>2, <2>3
  <1>4. q \in Nat /\ w \in 0 .. q /\ w \in Nat /\ w <= s.needs[x] /\ (w < s.needs[x] => w = q)
        /\ (w # q => w = s.needs[x])
    BY <1>1 DEF Fair
  <1>5. Fair(q, r, m + 1)
    BY <1>3
  <1>6. /\ r - w \in Nat /\ w * m <= r - w
        /\ \A v \in Nat : v * (m + 1) <= r => v <= q /\ v * m <= r - w
        /\ w = q => r - w <= (q + 1) * m
        /\ \A v \in Nat : v * (m + 1) <= r /\ r <= (v + 1) * (m + 1) =>
              q <= v + 1 /\ (w = q => r - w <= (v + 1) * m)
    <2>1. r \in Nat /\ m \in Nat /\ w \in 0 .. q /\ Fair(q, r, m + 1)
      BY <1>1, <1>3, <1>4, <1>5
    <2> HIDE DEF m, r
    <2> QED
      BY <2>1, FairLeaves
  <1>7. /\ t.widths \in [C -> Nat] /\ t.widths[x] = w
        /\ \A c \in C \ {x} : t.widths[c] = s.widths[c]
    <2> HIDE DEF C
    <2> QED
      BY <1>1, <1>4, <1>17
  <1>8. Columnar(t)
    <2> DEFINE W == [s.widths EXCEPT ![x] = w]
               A == s.waiting \ {x}
    <2>1. t = [s EXCEPT !.waiting = A, !.widths = W, !.remaining = r - w]
      OBVIOUS
    <2>2. W \in [C -> Nat] /\ A \subseteq C
      BY <1>1, <1>7, <1>17
    <2> HIDE DEF W, A, r
    <2> QED
      BY <1>6, <2>1, <2>2, ZenonT(60) DEF Columnar, Allotted
  <1>9. Served(t) = Served(s) \union {x} /\ x \notin Served(s) /\ Served(s) \subseteq C
        /\ t.waiting \subseteq s.waiting /\ x \notin t.waiting
    BY <1>1, <1>17 DEF Served
  <1>10. Total(t.widths, C) + t.remaining = t.available
    <2>1. Weighs(s.widths, C) /\ Weighs(t.widths, C)
      BY <1>1, <1>7 DEF Weighs
    <2>2. Total(t.widths, C) = Total(s.widths, C) - s.widths[x] + t.widths[x]
      <3> HIDE DEF C
      <3> QED
        BY <1>1, <1>2, <1>7, <2>1, TotalChanged
    <2>3. Total(s.widths, C) \in Nat /\ Total(s.widths, C) + r = s.available
      BY <1>2, <2>1, TotalTyped DEF Allotted
    <2> QED
      BY <1>1, <1>4, <1>7, <1>17, <2>2, <2>3
  <1>11. \A c \in t.waiting : t.widths[c] = 0
    BY <1>1, <1>7, <1>9 DEF Allotted
  <1>12. \A c \in Served(t), d \in t.waiting : t.needs[c] <= t.needs[d]
    BY <1>9, <1>17 DEF Allotted
  <1>13. ASSUME NEW c \in Served(s)
         PROVE  /\ t.widths[c] = s.widths[c] /\ s.widths[c] \in Nat /\ s.widths[c] <= s.needs[c]
                /\ s.widths[c] <= q /\ s.widths[c] * m <= r - w
                /\ s.needs[c] \in Nat /\ s.needs[c] <= s.needs[x]
    <2>1. t.widths[c] = s.widths[c] /\ s.widths[c] \in Nat /\ s.needs[c] \in Nat
      BY <1>1, <1>7, <1>9
    <2>2. s.widths[c] <= s.needs[c] /\ s.widths[c] * (m + 1) <= r /\ s.needs[c] <= s.needs[x]
      BY <1>3 DEF Allotted
    <2> QED
      BY <1>6, <2>1, <2>2
  <1>14. \A c \in Served(t) : t.widths[c] <= t.needs[c] /\ t.widths[c] * m <= t.remaining
    <2> SUFFICES ASSUME NEW c \in Served(t)
                 PROVE  t.widths[c] <= t.needs[c] /\ t.widths[c] * m <= t.remaining
      OBVIOUS
    <2> HIDE DEF m, r
    <2>1. CASE c = x
      BY <1>4, <1>6, <1>7, <1>17, <2>1
    <2>2. CASE c \in Served(s)
      BY <1>13, <1>17, <2>2
    <2> QED
      BY <1>9, <2>1, <2>2
  <1>15. ASSUME NEW c \in Served(s), s.widths[c] < s.needs[c]
         PROVE  /\ r - w <= (s.widths[c] + 1) * m /\ w <= s.widths[c] + 1
                /\ \A d \in Served(s) : s.widths[d] <= s.widths[c] + 1
    <2>1. s.widths[c] * (m + 1) <= r /\ r <= (s.widths[c] + 1) * (m + 1)
          /\ \A d \in Served(s) : s.widths[d] <= s.widths[c] + 1
      BY <1>3, <1>15 DEF Allotted
    <2>2. q <= s.widths[c] + 1 /\ (w = q => r - w <= (s.widths[c] + 1) * m)
      BY <1>6, <1>13, <2>1
    <2>3. w = q
      BY <1>4, <1>13, <1>15, <2>2
    <2> QED
      BY <2>1, <2>2, <2>3
  <1>16. ASSUME NEW c \in Served(t), t.widths[c] < t.needs[c]
         PROVE  /\ t.remaining <= (t.widths[c] + 1) * m
                /\ \A d \in Served(t) : t.widths[d] <= t.widths[c] + 1
    <2>1. CASE c = x
      <3>1. w = q
        BY <1>4, <1>7, <1>16, <1>17, <2>1
      <3>2. \A d \in Served(t) : t.widths[d] <= q
        BY <1>4, <1>7, <1>9, <1>13
      <3>3. \A d \in Served(t) : t.widths[d] \in Nat
        BY <1>4, <1>7, <1>9, <1>13
      <3> QED
        BY <1>4, <1>6, <1>7, <1>17, <2>1, <3>1, <3>2, <3>3
    <2>2. CASE c # x
      <3> HIDE DEF m, r
      <3>1. c \in Served(s) /\ t.widths[c] = s.widths[c] /\ t.needs[c] = s.needs[c]
        BY <1>9, <1>13, <1>16, <1>17, <2>2
      <3>2. /\ r - w <= (s.widths[c] + 1) * m /\ w <= s.widths[c] + 1
            /\ \A d \in Served(s) : s.widths[d] <= s.widths[c] + 1
        BY <1>15, <1>16, <3>1
      <3>3. ASSUME NEW d \in Served(t) PROVE t.widths[d] <= t.widths[c] + 1
        <4>1. CASE d = x
          BY <1>7, <3>1, <3>2, <4>1
        <4>2. CASE d \in Served(s)
          BY <1>13, <3>1, <3>2, <4>2
        <4> QED
          BY <1>9, <4>1, <4>2
      <3> QED
        BY <1>17, <3>1, <3>2, <3>3
    <2> QED
      BY <2>1, <2>2
  <1> HIDE DEF m
  <1> QED
    BY <1>8, <1>10, <1>11, <1>12, <1>14, <1>16 DEF Allotted, m

LEMMA AllotKeeps ==
    ASSUME Allotted(drawn), Drawn!Allot
    PROVE  Allotted(drawn')
  <1> DEFINE least == {c \in drawn.waiting : \A d \in drawn.waiting : drawn.needs[c] <= drawn.needs[d]}
             x == Drawn!Min(least)
             q == drawn.remaining \div Cardinality(drawn.waiting)
             w == IF drawn.needs[x] <= q THEN drawn.needs[x] ELSE q
  <1>1. /\ drawn.needs \in [1 .. Columns -> Nat] /\ drawn.waiting \subseteq 1 .. Columns
        /\ drawn.remaining \in Nat /\ drawn.waiting # {} /\ Columns \in Nat
    BY LayoutAssumption DEF Allotted, Columnar, Drawn!Allot
  <1>2. x \in drawn.waiting /\ \A d \in drawn.waiting : drawn.needs[x] <= drawn.needs[d]
    <2> DEFINE N == {drawn.needs[c] : c \in drawn.waiting}
    <2>1. N \subseteq Nat /\ N # {}
      BY <1>1
    <2>2. PICK n \in N : \A y \in N : n <= y
      <3> HIDE DEF N
      <3> QED
        BY <2>1, LeastOf
    <2>3. least # {} /\ least \subseteq Nat
      <3>1. PICK c \in drawn.waiting : drawn.needs[c] = n
        OBVIOUS
      <3>2. c \in least
        BY <2>2, <3>1
      <3>3. drawn.waiting \subseteq Nat
        BY <1>1
      <3>4. least \subseteq drawn.waiting
        OBVIOUS
      <3> HIDE DEF least
      <3> QED
        BY <3>2, <3>3, <3>4
    <2>4. x \in least
      <3> HIDE DEF least
      <3> QED
        BY <2>3, DrawnLeast
    <2> QED
      BY <2>4
  <1>3. IsFiniteSet(drawn.waiting) /\ Cardinality(drawn.waiting) \in Nat \ {0}
    <2>1. IsFiniteSet(1 .. Columns)
      <3>1. 1 \in Int /\ Columns \in Int
        BY LayoutAssumption
      <3> QED
        BY <3>1, FS_Interval
    <2>2. IsFiniteSet(drawn.waiting)
      BY <1>1, <2>1, FS_Subset
    <2> QED
      BY <1>1, <2>2, FS_CardinalityType, FS_EmptySet
  <1>4. Fair(q, drawn.remaining, Cardinality(drawn.waiting))
    BY <1>1, <1>3, ShareIsFair
  <1>5. Drawn!Share = q
    BY DEF Drawn!Share, Drawn!Cardinality, Cardinality
  <1>6. q \in Nat /\ drawn.needs[x] \in Nat
    BY <1>1, <1>2, <1>4 DEF Fair
  <1>7. Drawn!Min({drawn.needs[x], q}) = w
    <2> DEFINE n == drawn.needs[x]
    <2>1. n \in Int /\ q \in Int
      BY <1>6
    <2> HIDE DEF n, q
    <2> QED
      BY <2>1, DrawnBounds DEF n
  <1>8. drawn' = [drawn EXCEPT !.waiting = @ \ {x}, !.widths[x] = w, !.remaining = @ - w]
    <2> HIDE DEF x, w
    <2> QED
      BY <1>5, <1>7, Zenon DEF Drawn!Allot, x
  <1> HIDE DEF x, q, w
  <1> QED
    BY <1>2, <1>4, <1>8, ColumnsServed DEF w

(* The last column has been served.                                        *)
LEMMA AllottedFair ==
    ASSUME Allotted(drawn)
    PROVE  Drawn!WidthsFair
  <1> DEFINE C == 1 .. Columns
  <1>1. drawn.widths \in [C -> Nat] /\ drawn.remaining \in Nat /\ drawn.available \in Nat
    BY DEF Allotted, Columnar
  <1>2. Total(drawn.widths, C) + drawn.remaining = drawn.available
    BY DEF Allotted
  <1>3. Drawn!SumFunction(drawn.widths) = Total(drawn.widths, C) /\ Total(drawn.widths, C) \in Nat
    <2>1. 1 \in Int /\ Columns \in Int
      BY LayoutAssumption
    <2>2. IsFiniteSet(C)
      BY <2>1, FS_Interval
    <2>3. Weighs(drawn.widths, C)
      BY <1>1 DEF Weighs
    <2>4. DOMAIN drawn.widths = C
      BY <1>1
    <2> HIDE DEF C
    <2> QED
      BY <2>2, <2>3, <2>4, DrawnTotal DEF Drawn!SumFunction
  <1>4. ASSUME drawn.waiting = {}, NEW c \in C, drawn.widths[c] < drawn.needs[c]
        PROVE  /\ \A d \in C : drawn.widths[d] <= drawn.widths[c] + 1
               /\ drawn.remaining = 0
    <2>1. Cardinality(drawn.waiting) = 0
      BY <1>4, FS_EmptySet
    <2>2. Served(drawn) = C
      BY <1>4 DEF Served
    <2>3. drawn.remaining <= (drawn.widths[c] + 1) * 0
          /\ \A d \in C : drawn.widths[d] <= drawn.widths[c] + 1
      BY <1>4, <2>1, <2>2 DEF Allotted
    <2>4. (drawn.widths[c] + 1) * 0 = 0
      <3>1. drawn.widths[c] + 1 \in Int
        <4> HIDE DEF C
        <4> QED
          BY <1>1, <1>4
      <3> QED
        BY <3>1
    <2> QED
      BY <1>1, <2>3, <2>4
  <1> QED
    BY <1>1, <1>2, <1>3, <1>4 DEF Drawn!WidthsFair

-----------------------------------------------------------------------------
(* The memory of the previews *)

Previewed(s) ==
    /\ s \in [kind : {"previews"}, used : Nat, held : Nat, remaining : Nat, limited : BOOLEAN,
              missing : BOOLEAN]
    /\ s.held + s.remaining = Budget
    /\ s.missing => s.limited

LEMMA PreviewKeeps ==
    ASSUME Previewed(drawn), Drawn!Preview
    PROVE  Previewed(drawn')
  <1>1. /\ drawn.remaining \in Nat /\ drawn.used \in Nat /\ drawn.held \in Nat /\ Budget \in Nat
        /\ drawn.held + drawn.remaining = Budget
    BY LayoutAssumption DEF Previewed
  <1>2. PICK length \in 0 .. Budget :
          drawn' = IF drawn.remaining < Drawn!Mark
                   THEN [drawn EXCEPT !.used = @ + 1, !.limited = TRUE,
                                      !.missing = @ \/ length > 0]
                   ELSE LET kept == Drawn!Prefix(length)
                            size == kept + (IF kept < length THEN Drawn!Mark ELSE 0) IN
                        [drawn EXCEPT !.used = @ + 1, !.held = @ + size,
                                      !.remaining = Drawn!Max({0, @ - size}),
                                      !.limited = @ \/ kept < length,
                                      !.missing = @ \/ kept < length]
    BY Zenon DEF Drawn!Preview
  <1>3. CASE drawn.remaining < 3
    <2>1. drawn' = [drawn EXCEPT !.used = @ + 1, !.limited = TRUE, !.missing = @ \/ length > 0]
      BY <1>2, <1>3 DEF Drawn!Mark
    <2> DEFINE cut == drawn.missing \/ length > 0
    <2>2. cut \in BOOLEAN
      BY DEF Previewed
    <2> HIDE DEF cut
    <2>3. drawn' = [drawn EXCEPT !.used = @ + 1, !.limited = TRUE, !.missing = cut]
      BY <2>1 DEF cut
    <2> DEFINE used == drawn.used + 1
    <2>4. used \in Nat /\ drawn' = [drawn EXCEPT !.used = used, !.limited = TRUE, !.missing = cut]
      BY <1>1, <2>3
    <2> HIDE DEF used
    <2>5. drawn' \in [kind : {"previews"}, used : Nat, held : Nat, remaining : Nat,
                     limited : BOOLEAN, missing : BOOLEAN]
      BY <2>2, <2>4 DEF Previewed
    <2>6. drawn'.held = drawn.held /\ drawn'.remaining = drawn.remaining /\ drawn'.limited = TRUE
      BY <2>4 DEF Previewed
    <2> QED
      BY <1>1, <2>5, <2>6 DEF Previewed
  <1>4. CASE ~(drawn.remaining < 3)
    <2> DEFINE kept == IF length <= drawn.remaining - 3 THEN length ELSE drawn.remaining - 3
               size == IF length <= drawn.remaining - 3 THEN length ELSE drawn.remaining
               cut == length > drawn.remaining - 3
    <2>1. drawn.remaining - 3 \in Nat /\ length \in Nat
      BY <1>1, <1>4
    <2>2. Drawn!Max({0, drawn.remaining - 3}) = drawn.remaining - 3
      <3>1. 0 \in Int /\ drawn.remaining - 3 \in Int
        BY <2>1
      <3> QED
        BY <2>1, <3>1, DrawnBounds
    <2>3. Drawn!Prefix(length) = kept
      <3>1. length \in Int /\ drawn.remaining - 3 \in Int
        BY <2>1
      <3>2. Drawn!Min({length, drawn.remaining - 3}) = kept
        BY <3>1, DrawnBounds
      <3>3. Drawn!Prefix(length) = Drawn!Min({length, Drawn!Max({0, drawn.remaining - 3})})
        BY DEF Drawn!Prefix, Drawn!Mark
      <3> HIDE DEF kept
      <3> QED
        BY <2>2, <3>2, <3>3
    <2>4. /\ kept + (IF kept < length THEN 3 ELSE 0) = size /\ (kept < length <=> cut)
          /\ size \in Nat /\ drawn.remaining - size \in Nat
      BY <1>1, <2>1
    <2>5. Drawn!Max({0, drawn.remaining - size}) = drawn.remaining - size
      <3>1. 0 \in Int /\ drawn.remaining - size \in Int
        BY <2>4
      <3>2. 0 <= drawn.remaining - size
        BY <2>4
      <3>3. Drawn!Max({0, drawn.remaining - size})
              = IF 0 >= drawn.remaining - size THEN 0 ELSE drawn.remaining - size
        <4> DEFINE b == drawn.remaining - size
        <4> HIDE DEF size, b
        <4> QED
          BY <3>1, DrawnBounds DEF b
      <3> HIDE DEF size
      <3> QED
        BY <3>1, <3>2, <3>3
    <2> DEFINE limited == drawn.limited \/ cut
               missing == drawn.missing \/ cut
    <2>6. drawn' = [drawn EXCEPT !.used = @ + 1, !.held = @ + size,
                                 !.remaining = drawn.remaining - size,
                                 !.limited = limited, !.missing = missing]
      <3> HIDE DEF size, kept, cut
      <3>1. (drawn.limited \/ kept < length) = limited /\ (drawn.missing \/ kept < length) = missing
        BY <2>4
      <3>2. ~(drawn.remaining < Drawn!Mark) /\ Drawn!Mark = 3
        BY <1>4 DEF Drawn!Mark
      <3> HIDE DEF limited, missing
      <3> QED
        BY <1>2, <2>3, <2>4, <2>5, <3>1, <3>2
    <2>7. limited \in BOOLEAN /\ missing \in BOOLEAN /\ (missing => limited)
      BY DEF Previewed
    <2> DEFINE remaining == drawn.remaining - size
    <2>8. remaining \in Nat /\ drawn.held + size + remaining = Budget
      BY <1>1, <2>4
    <2> HIDE DEF size, limited, missing, remaining
    <2> DEFINE used == drawn.used + 1
               held == drawn.held + size
    <2>9. /\ used \in Nat /\ held \in Nat /\ held + remaining = Budget
          /\ drawn' = [drawn EXCEPT !.used = used, !.held = held, !.remaining = remaining,
                                   !.limited = limited, !.missing = missing]
      BY <1>1, <2>4, <2>6, <2>8 DEF remaining
    <2> HIDE DEF used, held
    <2>10. drawn' \in [kind : {"previews"}, used : Nat, held : Nat, remaining : Nat,
                      limited : BOOLEAN, missing : BOOLEAN]
      BY <2>7, <2>8, <2>9 DEF Previewed
    <2>11. /\ drawn'.held = held /\ drawn'.remaining = remaining
           /\ drawn'.limited = limited /\ drawn'.missing = missing
      BY <2>9 DEF Previewed
    <2> QED
      BY <2>7, <2>9, <2>10, <2>11 DEF Previewed
  <1> QED
    BY <1>3, <1>4

-----------------------------------------------------------------------------
(* The lines of a value in its row *)

Scrolled(s) ==
    /\ s \in [kind : {"scroll"}, lines : Nat, room : Nat \ {0}, scroll : Nat, seen : SUBSET Int]
    /\ LET begin == Drawn!Begin(s) IN
       /\ begin \in Nat
       /\ s.lines >= s.room => begin + s.room <= s.lines
       /\ \A i \in 1 .. s.lines : i <= begin + s.room => i \in s.seen

LEMMA BeginIs ==
    ASSUME NEW s, s.scroll \in Nat, s.lines \in Nat, s.room \in Nat
    PROVE  Drawn!Begin(s) = IF s.scroll <= s.lines - s.room THEN s.scroll
                            ELSE IF s.lines - s.room >= 0 THEN s.lines - s.room ELSE 0
  <1> DEFINE m == IF 0 >= s.lines - s.room THEN 0 ELSE s.lines - s.room
  <1>1. 0 \in Int /\ s.lines - s.room \in Int /\ m \in Int /\ s.scroll \in Int
    OBVIOUS
  <1>2. Drawn!Max({0, s.lines - s.room}) = m
    BY <1>1, DrawnBounds
  <1>3. Drawn!Min({s.scroll, m}) = IF s.scroll <= m THEN s.scroll ELSE m
    <2> HIDE DEF m
    <2> QED
      BY <1>1, DrawnBounds
  <1>4. Drawn!Begin(s) = Drawn!Min({s.scroll, m})
    BY <1>2 DEF Drawn!Begin
  <1> QED
    BY <1>3, <1>4

(* The table is drawn with another scroll or room, no further on than what *)
(* was drawn.                                                              *)
LEMMA DrawnFurther ==
    ASSUME NEW s, s \in [kind : {"scroll"}, lines : Nat, room : Nat \ {0}, scroll : Nat,
                         seen : SUBSET Int],
           \A i \in 1 .. s.lines : i <= Drawn!Begin(s) => i \in s.seen
    PROVE  Scrolled(Drawn!DrawnFrom(s))
  <1> DEFINE begin == Drawn!Begin(s)
             end == Drawn!Min({begin + s.room, s.lines})
             seen == s.seen \union (begin + 1 .. end)
             t == [s EXCEPT !.seen = seen]
  <1>1. begin = IF s.scroll <= s.lines - s.room THEN s.scroll
                ELSE IF s.lines - s.room >= 0 THEN s.lines - s.room ELSE 0
    BY BeginIs
  <1>2. begin \in Nat /\ (s.lines >= s.room => begin + s.room <= s.lines)
    BY <1>1
  <1>3. end = IF begin + s.room <= s.lines THEN begin + s.room ELSE s.lines
    <2>1. begin + s.room \in Int /\ s.lines \in Int
      BY <1>2
    <2> QED
      BY <2>1, DrawnBounds
  <1>4. Drawn!DrawnFrom(s) = t
    BY DEF Drawn!DrawnFrom
  <1> HIDE DEF begin, end
  <1>5. \A i \in 1 .. s.lines : i <= begin + s.room => i \in seen
    <2> SUFFICES ASSUME NEW i \in 1 .. s.lines, i <= begin + s.room PROVE i \in seen
      OBVIOUS
    <2>1. CASE i <= begin
      BY <2>1 DEF begin
    <2>2. CASE i > begin
      BY <1>2, <1>3, <2>2
    <2> QED
      BY <1>2, <2>1, <2>2
  <1>6. seen \in SUBSET Int
    OBVIOUS
  <1> HIDE DEF seen
  <1>7. /\ t \in [kind : {"scroll"}, lines : Nat, room : Nat \ {0}, scroll : Nat, seen : SUBSET Int]
        /\ t.lines = s.lines /\ t.room = s.room /\ t.scroll = s.scroll /\ t.seen = seen
    BY <1>6
  <1>8. Drawn!Begin(t) = begin
    BY <1>7 DEF begin, Drawn!Begin
  <1> HIDE DEF t
  <1> QED
    BY <1>2, <1>4, <1>5, <1>7, <1>8 DEF Scrolled

LEMMA ScrollKeeps ==
    ASSUME Scrolled(drawn), Drawn!ScrollValue
    PROVE  Scrolled(drawn')
  <1>1. /\ drawn.lines \in Nat /\ drawn.room \in Nat \ {0} /\ drawn.scroll \in Nat
        /\ drawn.seen \in SUBSET Int /\ drawn.lines > drawn.room
    BY DEF Scrolled, Drawn!ScrollValue
  <1>2. PICK down \in BOOLEAN, half \in BOOLEAN :
          drawn' = Drawn!DrawnFrom([drawn EXCEPT !.scroll = Drawn!Scroll(down, half)])
    BY Zenon DEF Drawn!ScrollValue
  <1> DEFINE half1 == IF 1 >= drawn.room \div 2 THEN 1 ELSE drawn.room \div 2
             step == IF half THEN half1 ELSE drawn.room
             up == IF 0 >= drawn.scroll - step THEN 0 ELSE drawn.scroll - step
             to == IF down THEN drawn.scroll + step ELSE up
             last == drawn.lines - drawn.room
             scroll == IF to <= last THEN to ELSE last
  <1>3. /\ half1 \in Nat /\ half1 <= drawn.room /\ step \in Nat /\ step <= drawn.room
        /\ drawn.room \div 2 \in Nat /\ up \in Nat /\ up <= drawn.scroll /\ to \in Nat
        /\ to <= drawn.scroll + drawn.room /\ last \in Nat /\ scroll \in Nat
        /\ scroll <= drawn.scroll + drawn.room
    BY <1>1
  <1>4. Drawn!Scroll(down, half) = scroll
    <2>1. Drawn!Max({1, drawn.room \div 2}) = half1
      <3>1. 1 \in Int /\ drawn.room \div 2 \in Int
        BY <1>3
      <3> QED
        BY <3>1, DrawnBounds
    <2>2. Drawn!Max({0, drawn.scroll - step}) = up
      <3>1. 0 \in Int /\ drawn.scroll - step \in Int
        BY <1>1, <1>3
      <3> HIDE DEF step
      <3> QED
        BY <3>1, DrawnBounds
    <2>3. Drawn!Min({to, last}) = scroll
      <3>1. to \in Int /\ last \in Int
        BY <1>3
      <3> HIDE DEF to, last
      <3> QED
        BY <3>1, DrawnBounds
    <2> HIDE DEF half1, up, scroll
    <2> QED
      BY <2>1, <2>2, <2>3 DEF Drawn!Scroll
  <1> DEFINE t == [drawn EXCEPT !.scroll = scroll]
  <1>5. /\ t \in [kind : {"scroll"}, lines : Nat, room : Nat \ {0}, scroll : Nat, seen : SUBSET Int]
        /\ t.lines = drawn.lines /\ t.room = drawn.room /\ t.scroll = scroll /\ t.seen = drawn.seen
    <2> HIDE DEF scroll
    <2> QED
      BY <1>3 DEF Scrolled
  <1>6. Drawn!Begin(t) <= Drawn!Begin(drawn) + drawn.room /\ Drawn!Begin(t) \in Nat
        /\ Drawn!Begin(drawn) \in Nat
    <2>1. Drawn!Begin(drawn) = IF drawn.scroll <= last THEN drawn.scroll ELSE last
      BY <1>1, <1>3, BeginIs
    <2>2. Drawn!Begin(t) = scroll
      <3> HIDE DEF t, to
      <3>1. Drawn!Begin(t) = IF scroll <= last THEN scroll ELSE last
        BY <1>1, <1>3, <1>5, BeginIs
      <3> QED
        BY <1>3, <3>1
    <2> HIDE DEF t, to
    <2> QED
      BY <1>1, <1>3, <2>1, <2>2
  <1>7. \A i \in 1 .. t.lines : i <= Drawn!Begin(t) => i \in t.seen
    <2> HIDE DEF t
    <2> QED
      BY <1>1, <1>5, <1>6 DEF Scrolled
  <1> HIDE DEF t
  <1>8. Scrolled(Drawn!DrawnFrom(t))
    BY <1>5, <1>7, DrawnFurther
  <1> QED
    BY <1>2, <1>4, <1>8 DEF t

LEMMA ResizeKeeps ==
    ASSUME Scrolled(drawn), Drawn!Resize, Height \in Nat
    PROVE  Scrolled(drawn')
  <1>1. /\ drawn.lines \in Nat /\ drawn.room \in Nat \ {0} /\ drawn.scroll \in Nat
        /\ drawn.seen \in SUBSET Int
    BY DEF Scrolled
  <1>2. PICK room \in 1 .. Height + 1 : drawn' = Drawn!DrawnFrom([drawn EXCEPT !.room = room])
    BY Zenon DEF Drawn!Resize
  <1> DEFINE t == [drawn EXCEPT !.room = room]
  <1>3. /\ t \in [kind : {"scroll"}, lines : Nat, room : Nat \ {0}, scroll : Nat, seen : SUBSET Int]
        /\ t.lines = drawn.lines /\ t.room = room /\ t.scroll = drawn.scroll /\ t.seen = drawn.seen
        /\ room \in Nat \ {0}
    BY DEF Scrolled
  <1> HIDE DEF t
  <1>4. \A i \in 1 .. t.lines : i <= Drawn!Begin(t) => i \in t.seen
    <2>1. Drawn!Begin(drawn) = IF drawn.scroll <= drawn.lines - drawn.room THEN drawn.scroll
                ELSE IF drawn.lines - drawn.room >= 0 THEN drawn.lines - drawn.room ELSE 0
      BY <1>1, BeginIs
    <2>2. Drawn!Begin(t) = IF drawn.scroll <= drawn.lines - room THEN drawn.scroll
                ELSE IF drawn.lines - room >= 0 THEN drawn.lines - room ELSE 0
      BY <1>1, <1>3, BeginIs
    <2>3. ASSUME NEW i \in 1 .. drawn.lines, i <= Drawn!Begin(t)
          PROVE  i <= Drawn!Begin(drawn) + drawn.room
      BY <1>1, <1>3, <2>1, <2>2, <2>3
    <2> QED
      BY <1>3, <2>3 DEF Scrolled
  <1>5. Scrolled(Drawn!DrawnFrom(t))
    BY <1>3, <1>4, DrawnFurther
  <1> QED
    BY <1>2, <1>5 DEF t

LEMMA ScrolledSeen ==
    ASSUME Scrolled(drawn)
    PROVE  Drawn!ValueSeen
  <1> DEFINE begin == Drawn!Begin(drawn)
             end == begin + drawn.room
  <1>1. /\ drawn.lines \in Nat /\ end \in Nat /\ (drawn.lines >= drawn.room => end <= drawn.lines)
        /\ \A i \in 1 .. drawn.lines : i <= end => i \in drawn.seen
    BY DEF Scrolled
  <1> HIDE DEF end
  <1>2. Drawn!Min({drawn.lines, end}) = IF drawn.lines <= end THEN drawn.lines ELSE end
    <2>1. drawn.lines \in Int /\ end \in Int
      BY <1>1
    <2> QED
      BY <2>1, DrawnBounds
  <1>3. 1 .. Drawn!Min({drawn.lines, end}) \subseteq drawn.seen
    BY <1>1, <1>2
  <1> QED
    BY <1>1, <1>3 DEF Drawn!ValueSeen, end

-----------------------------------------------------------------------------
(* The rows of a table *)

Ones(heights) == \A row \in 1 .. TableRows : heights[row] = 1

(* With rows of one line each, those that were passed were seen.           *)
Paged(s) ==
    /\ s \in [kind : {"rows"}, heights : [1 .. TableRows -> Nat], selected : 1 .. TableRows,
              seen : SUBSET Int]
    /\ s.seen = {} => s.selected = 1

LEMMA OneLineEach ==
    ASSUME Ones(drawn.heights), NEW first \in 1 .. TableRows, NEW last \in 1 .. TableRows,
           first <= last
    PROVE  Drawn!LinesOf(first, last) = last - first + 1
  <1>1. first \in Int /\ last \in Int /\ first >= 1 /\ last <= TableRows /\ TableRows \in Int
    BY LayoutAssumption
  <1>2. IsFiniteSet(first .. last) /\ Cardinality(first .. last) = last - first + 1
    BY <1>1, FS_Interval
  <1>3. \A x \in first .. last : drawn.heights[x] = 1
    <2>1. \A x \in first .. last : x \in 1 .. TableRows
      BY <1>1
    <2> QED
      BY <2>1 DEF Ones
  <1>4. Weighs(drawn.heights, first .. last)
    BY <1>3 DEF Weighs
  <1>5. Drawn!LinesOf(first, last) = Total(drawn.heights, first .. last)
    BY <1>2, <1>4, DrawnTotal DEF Drawn!LinesOf
  <1> QED
    BY <1>2, <1>3, <1>5, TotalOfOnes

(* The window has the chosen row and those of a height before it.          *)
LEMMA WindowHas ==
    ASSUME Ones(drawn.heights), NEW chosen \in 1 .. TableRows, NEW row \in 1 .. chosen,
           row = chosen \/ chosen - row + 1 <= Height
    PROVE  row \in Drawn!Window(chosen)
  <1> DEFINE S == {f \in 1 .. chosen : f = chosen \/ Drawn!LinesOf(f, chosen) <= Height}
             first == Drawn!Min(S)
             W == {r \in 1 .. TableRows : r <= chosen \/ Drawn!LinesOf(1, r) <= Height}
  <1>1. chosen \in Nat /\ TableRows \in Nat /\ row \in Nat /\ row \in 1 .. TableRows
        /\ row <= chosen
    BY LayoutAssumption
  <1>2. row \in S
    <2>1. Drawn!LinesOf(row, chosen) = chosen - row + 1
      BY <1>1, OneLineEach
    <2> QED
      BY <2>1
  <1>3. first \in S /\ first <= row
    <2>1. S \in SUBSET Nat /\ S # {}
      BY <1>2
    <2> HIDE DEF S
    <2> QED
      BY <1>2, <2>1, DrawnLeast
  <1>4. first \in 1 .. chosen
    BY <1>3
  <1>5. row \in first .. chosen
    <2> HIDE DEF first
    <2> QED
      BY <1>1, <1>3, <1>4
  <1>6. row \in W
    BY <1>1
  <1>7. Drawn!Window(chosen) = IF first > 1 THEN first .. chosen ELSE W
    BY Zenon DEF Drawn!Window
  <1> HIDE DEF first, W
  <1> QED
    BY <1>5, <1>6, <1>7

(* A page further are as many rows as the table has lines.                 *)
LEMMA StepDown ==
    ASSUME Paged(drawn)
    PROVE  /\ Drawn!PageStep(TRUE) \in 1 .. TableRows - drawn.selected + 1
           /\ Ones(drawn.heights) => Drawn!PageStep(TRUE) <= 1 \/ Drawn!PageStep(TRUE) <= Height
  <1> DEFINE s == drawn.selected
             most == TableRows - s + 1
             S == {n \in 1 .. most : n = most \/ Drawn!LinesOf(s, s + n - 1) >= Height}
  <1>1. s \in 1 .. TableRows /\ most \in Nat \ {0} /\ TableRows \in Nat /\ Height \in Nat
        /\ s \in Nat
    BY LayoutAssumption DEF Paged
  <1>2. Drawn!PageStep(TRUE) = Drawn!Min(S)
    BY DEF Drawn!PageStep
  <1>3. most \in S /\ S \in SUBSET Nat
    BY <1>1
  <1>4. Drawn!Min(S) \in S /\ \A n \in S : Drawn!Min(S) <= n
    <2> HIDE DEF S, most
    <2> QED
      BY <1>3, DrawnLeast
  <1> DEFINE m == Drawn!Min(S)
  <1>5. ASSUME Ones(drawn.heights) PROVE m <= 1 \/ m <= Height
    <2> DEFINE n == IF Height = 0 THEN 1 ELSE Height
    <2>1. m \in 1 .. most /\ n \in Nat /\ (n = 1 \/ n = Height)
      BY <1>1, <1>4
    <2>2. CASE n >= most
      <3> HIDE DEF m, n
      <3> QED
        BY <1>1, <2>1, <2>2
    <2>3. CASE n < most
      <3>1. n \in 1 .. most /\ s + n - 1 \in 1 .. TableRows /\ s <= s + n - 1 /\ n >= Height
        BY <1>1, <2>3
      <3>2. Drawn!LinesOf(s, s + n - 1) = (s + n - 1) - s + 1
        <4> DEFINE last == s + n - 1
        <4> HIDE DEF last, s
        <4>1. s \in 1 .. TableRows /\ last \in 1 .. TableRows /\ s <= last
          BY <1>1, <3>1 DEF last
        <4>2. Drawn!LinesOf(s, last) = last - s + 1
          BY <1>5, <4>1, OneLineEach
        <4> QED
          BY <4>2 DEF last
      <3>3. n \in S
        BY <1>1, <3>1, <3>2
      <3>4. m <= n
        BY <1>4, <3>3
      <3> HIDE DEF m, n
      <3> QED
        BY <1>1, <2>1, <3>4
    <2> QED
      BY <1>1, <2>2, <2>3
  <1> QED
    BY <1>2, <1>4, <1>5

LEMMA StepUp ==
    ASSUME Paged(drawn)
    PROVE  Drawn!PageStep(FALSE) \in 1 .. drawn.selected
  <1> DEFINE s == drawn.selected
             S == {n \in 1 .. s : n = s \/ Drawn!LinesOf(s - n + 1, s) >= Height}
  <1>1. s \in Nat \ {0}
    BY LayoutAssumption DEF Paged
  <1>2. Drawn!PageStep(FALSE) = Drawn!Min(S)
    BY DEF Drawn!PageStep
  <1>3. s \in S /\ S \in SUBSET Nat
    BY <1>1
  <1>4. Drawn!Min(S) \in S
    <2> HIDE DEF S, s
    <2> QED
      BY <1>3, DrawnLeast
  <1> QED
    BY <1>2, <1>4

(* From the chosen row to another that is not too far.                     *)
LEMMA TurnKeeps ==
    ASSUME Paged(drawn), Drawn!RowsSeen, NEW chosen \in 1 .. TableRows,
           drawn' = [drawn EXCEPT !.selected = chosen,
                                  !.seen = @ \union Drawn!Window(chosen)],
           Drawn!Window(chosen) \subseteq Int,
           Ones(drawn.heights) => chosen <= drawn.selected + 1
                                  \/ chosen <= drawn.selected + Height,
           chosen = 1 \/ chosen \in Drawn!Window(chosen)
    PROVE  Paged(drawn') /\ Drawn!RowsSeen'
  <1> DEFINE seen == drawn.seen \union Drawn!Window(chosen)
  <1>1. /\ drawn.seen \in SUBSET Int /\ drawn.selected \in Nat /\ drawn.selected >= 1
        /\ TableRows \in Nat \ {0} /\ Height \in Nat /\ drawn.kind = "rows"
        /\ drawn.selected \in 1 .. TableRows
    BY LayoutAssumption DEF Paged
  <1>2. seen \in SUBSET Int
    BY <1>1
  <1>3. /\ drawn' \in [kind : {"rows"}, heights : [1 .. TableRows -> Nat],
                       selected : 1 .. TableRows, seen : SUBSET Int]
        /\ drawn'.heights = drawn.heights /\ drawn'.selected = chosen /\ drawn'.seen = seen
        /\ drawn'.kind = "rows"
    <2> HIDE DEF seen
    <2> QED
      BY <1>2 DEF Paged, seen
  <1>4. Paged(drawn')
    BY <1>3 DEF Paged
  <1>5. Drawn!Window(1)' = Drawn!Window(1)
    BY <1>3 DEF Drawn!Window, Drawn!LinesOf
  <1>6. ASSUME Ones(drawn.heights), NEW row \in 1 .. chosen, row \notin Drawn!Window(1)
        PROVE  row \in seen
    <2>1. 1 \in Drawn!Window(1)
      <3>1. 1 \in 1 .. TableRows /\ 1 \in 1 .. 1
        BY <1>1
      <3> QED
        BY <1>6, <3>1, WindowHas
    <2>2. CASE row <= drawn.selected
      <3>1. row # 1 /\ row \in 1 .. drawn.selected
        BY <1>1, <1>6, <2>1, <2>2
      <3>2. drawn.seen # {}
        BY <3>1 DEF Paged
      <3>3. row \in drawn.seen
        BY <1>1, <1>6, <3>1, <3>2 DEF Drawn!RowsSeen, Drawn!Is, Ones
      <3> QED
        BY <3>3
    <2>3. CASE row > drawn.selected
      <3>1. row = chosen \/ chosen - row + 1 <= Height
        BY <1>1, <1>6, <2>3
      <3>2. row \in Drawn!Window(chosen)
        BY <1>6, <3>1, WindowHas
      <3> QED
        BY <3>2
    <2> QED
      BY <1>1, <1>6, <2>2, <2>3
  <1>7. Drawn!RowsSeen'
    <2> HIDE DEF seen
    <2> QED
      BY <1>3, <1>5, <1>6 DEF Drawn!RowsSeen, Drawn!Is, Ones
  <1> QED
    BY <1>4, <1>7

LEMMA WindowRows ==
    ASSUME NEW chosen \in 1 .. TableRows
    PROVE  Drawn!Window(chosen) \subseteq Int /\ chosen \in Drawn!Window(chosen)
  <1> DEFINE S == {f \in 1 .. chosen : f = chosen \/ Drawn!LinesOf(f, chosen) <= Height}
             first == Drawn!Min(S)
             W == {r \in 1 .. TableRows : r <= chosen \/ Drawn!LinesOf(1, r) <= Height}
  <1>1. chosen \in S /\ S \in SUBSET Nat /\ chosen \in W /\ W \subseteq Int
    BY LayoutAssumption
  <1>2. first \in S
    <2> HIDE DEF S
    <2> QED
      BY <1>1, DrawnLeast
  <1>3. first \in 1 .. chosen /\ chosen \in Nat
    BY <1>2, LayoutAssumption
  <1>4. Drawn!Window(chosen) = IF first > 1 THEN first .. chosen ELSE W
    BY Zenon DEF Drawn!Window
  <1> HIDE DEF first, W
  <1> QED
    BY <1>1, <1>3, <1>4

LEMMA PageDownKeeps ==
    ASSUME Paged(drawn), Drawn!RowsSeen, Drawn!PageDown
    PROVE  Paged(drawn') /\ Drawn!RowsSeen'
  <1> DEFINE step == Drawn!PageStep(TRUE)
             chosen == drawn.selected + step
  <1>1. drawn.selected \in 1 .. TableRows /\ TableRows \in Nat \ {0} /\ Height \in Nat
    BY LayoutAssumption DEF Paged
  <1>2. /\ step \in 1 .. TableRows - drawn.selected + 1
        /\ Ones(drawn.heights) => step <= 1 \/ step <= Height
    BY StepDown
  <1> DEFINE to == IF TableRows <= chosen THEN TableRows ELSE chosen
  <1> HIDE DEF step
  <1>3. /\ to \in 1 .. TableRows
        /\ Ones(drawn.heights) => to <= drawn.selected + 1 \/ to <= drawn.selected + Height
    BY <1>1, <1>2
  <1>4. Drawn!Min({TableRows, chosen}) = to
    <2>1. TableRows \in Int /\ chosen \in Int
      BY <1>1, <1>2
    <2> HIDE DEF chosen
    <2> QED
      BY <2>1, DrawnBounds
  <1>5. drawn' = [drawn EXCEPT !.selected = to, !.seen = @ \union Drawn!Window(to)]
    <2>1. drawn' = LET u == Drawn!Min({TableRows, chosen}) IN
                   [drawn EXCEPT !.selected = u, !.seen = @ \union Drawn!Window(u)]
      BY Zenon DEF Drawn!PageDown, Drawn!Turn, chosen, step
    <2> HIDE DEF chosen, to
    <2> QED
      BY <1>4, <2>1
  <1> HIDE DEF to
  <1> QED
    BY <1>3, <1>5, WindowRows, TurnKeeps

LEMMA PageUpKeeps ==
    ASSUME Paged(drawn), Drawn!RowsSeen, Drawn!PageUp
    PROVE  Paged(drawn') /\ Drawn!RowsSeen'
  <1> DEFINE step == Drawn!PageStep(FALSE)
             chosen == drawn.selected - step
             to == IF 1 >= chosen THEN 1 ELSE chosen
  <1>1. drawn.selected \in 1 .. TableRows /\ TableRows \in Nat \ {0} /\ Height \in Nat
    BY LayoutAssumption DEF Paged
  <1>2. step \in 1 .. drawn.selected
    BY StepUp
  <1> HIDE DEF step
  <1>3. to \in 1 .. TableRows /\ to <= drawn.selected + 1
    BY <1>1, <1>2
  <1>4. Drawn!Max({1, chosen}) = to
    <2>1. 1 \in Int /\ chosen \in Int
      BY <1>1, <1>2
    <2> HIDE DEF chosen
    <2> QED
      BY <2>1, DrawnBounds
  <1>5. drawn' = [drawn EXCEPT !.selected = to, !.seen = @ \union Drawn!Window(to)]
    <2>1. drawn' = LET u == Drawn!Max({1, chosen}) IN
                   [drawn EXCEPT !.selected = u, !.seen = @ \union Drawn!Window(u)]
      BY Zenon DEF Drawn!PageUp, Drawn!Turn, chosen, step
    <2> HIDE DEF chosen, to
    <2> QED
      BY <1>4, <2>1
  <1> HIDE DEF to
  <1> QED
    BY <1>3, <1>5, WindowRows, TurnKeeps

-----------------------------------------------------------------------------
(* The lines of a text, which have its positions *)

Rises(lines) ==
    \A k, l \in 1 .. Len(lines) : \A i \in 1 .. Len(lines[k]), j \in 1 .. Len(lines[l]) :
       k < l \/ (k = l /\ i < j) => lines[k][i] < lines[l][j]

Has(lines, x) == \E k \in 1 .. Len(lines) : \E i \in 1 .. Len(lines[k]) : x = lines[k][i]

LEMMA LinesAre ==
    ASSUME NEW P, NEW lines \in Seq(Seq(P))
    PROVE  /\ Drawn!Rising(lines) <=> Rises(lines)
           /\ \A x : x \in Drawn!Shown(lines) <=> Has(lines, x)
           /\ Len(lines) \in Nat
           /\ \A k \in 1 .. Len(lines) : lines[k] \in Seq(P) /\ Len(lines[k]) \in Nat
  <1>1. DOMAIN lines = 1 .. Len(lines) /\ Len(lines) \in Nat
    BY LenProperties
  <1>2. \A k \in 1 .. Len(lines) : lines[k] \in Seq(P)
    BY ElementOfSeq
  <1>3. \A k \in 1 .. Len(lines) : DOMAIN lines[k] = 1 .. Len(lines[k]) /\ Len(lines[k]) \in Nat
    BY <1>2, LenProperties
  <1>4. Drawn!Rising(lines) <=> Rises(lines)
    BY <1>1, <1>3, Zenon DEF Drawn!Rising, Rises
  <1>5. \A k \in 1 .. Len(lines) : \A x :
           x \in Drawn!Range(lines[k]) <=> \E i \in 1 .. Len(lines[k]) : x = lines[k][i]
    BY <1>3 DEF Drawn!Range
  <1>6. \A x : x \in Drawn!Shown(lines) <=>
                \E k \in 1 .. Len(lines) : x \in Drawn!Range(lines[k])
    BY <1>1 DEF Drawn!Shown
  <1>7. \A x : x \in Drawn!Shown(lines) <=> Has(lines, x)
    <2> SUFFICES ASSUME NEW x PROVE x \in Drawn!Shown(lines) <=> Has(lines, x)
      OBVIOUS
    <2>1. x \in Drawn!Shown(lines) <=> \E k \in 1 .. Len(lines) : x \in Drawn!Range(lines[k])
      BY <1>6
    <2>2. \A k \in 1 .. Len(lines) :
             x \in Drawn!Range(lines[k]) <=> \E i \in 1 .. Len(lines[k]) : x = lines[k][i]
      BY <1>5
    <2> QED
      BY <2>1, <2>2, Zenon DEF Has
  <1> QED
    BY <1>1, <1>2, <1>3, <1>4, <1>7, Zenon

LEMMA LastReplaced ==
    ASSUME NEW Q, NEW lines \in Seq(Q), Len(lines) >= 1, NEW v \in Q,
           NEW r, r = [lines EXCEPT ![Len(lines)] = v]
    PROVE  /\ r \in Seq(Q) /\ Len(r) = Len(lines) /\ r[Len(lines)] = v
           /\ \A k \in 1 .. Len(lines) - 1 : r[k] = lines[k]
  <1> DEFINE n == Len(lines)
  <1>1. n \in Nat /\ n >= 1 /\ lines \in [1 .. n -> Q] /\ r = [lines EXCEPT ![n] = v]
    BY LenProperties
  <1> HIDE DEF n
  <1>2. n \in 1 .. n /\ n \notin 1 .. n - 1 /\ \A k \in 1 .. n - 1 : k \in 1 .. n
    BY <1>1
  <1>3. r \in [1 .. n -> Q] /\ r[n] = v /\ \A k \in 1 .. n - 1 : r[k] = lines[k]
    BY <1>1, <1>2
  <1>4. r \in Seq(Q) /\ Len(r) = n
    <2>1. \A m \in Nat : \A g \in [1 .. m -> Q] : g \in Seq(Q) /\ Len(g) = m
      OBVIOUS
    <2> QED
      BY <1>1, <1>3, <2>1, Zenon
  <1> QED
    BY <1>3, <1>4 DEF n

Lined(P, lines) == P \in SUBSET Nat /\ lines \in Seq(Seq(P)) /\ Len(lines) >= 1 /\ Rises(lines)

Beyond(at, lines) == \A x \in Drawn!Shown(lines) : x < at

Shows(r, lines, at) == Drawn!Shown(r) = Drawn!Shown(lines) \union {at}

(* The last line is replaced.                                              *)
EndsIn(r, lines, last) ==
    /\ Len(r) = Len(lines) /\ r[Len(lines)] = last
    /\ \A k \in 1 .. Len(lines) - 1 : r[k] = lines[k]

(* A line is added.                                                        *)
OneMore(r, lines, last) ==
    /\ Len(r) = Len(lines) + 1 /\ r[Len(lines) + 1] = last
    /\ \A k \in 1 .. Len(lines) : r[k] = lines[k]

With(lines, at) == Append(lines[Len(lines)], at)
Grown(r, lines, at) == r = [lines EXCEPT ![Len(lines)] = With(lines, at)]

(* A position behind all others is put at the end of the last line.        *)
LEMMA LineGrows ==
    ASSUME NEW P, NEW lines, Lined(P, lines), NEW at, at \in P, Beyond(at, lines),
           NEW r, Grown(r, lines, at)
    PROVE  Lined(P, r) /\ EndsIn(r, lines, With(lines, at)) /\ Shows(r, lines, at)
  <1>0. /\ P \in SUBSET Nat /\ lines \in Seq(Seq(P)) /\ Len(lines) >= 1 /\ Rises(lines)
        /\ \A x \in Drawn!Shown(lines) : x < at
    BY DEF Lined, Beyond
  <1> DEFINE n == Len(lines)
             last == lines[n]
             grown == Append(last, at)
  <1>1. /\ n \in Nat /\ \A k \in 1 .. n : lines[k] \in Seq(P) /\ Len(lines[k]) \in Nat
        /\ \A x : x \in Drawn!Shown(lines) <=> Has(lines, x)
    BY <1>0, LinesAre
  <1>2. last \in Seq(P) /\ Len(last) \in Nat /\ n \in 1 .. n
    BY <1>0, <1>1
  <1>3. /\ grown \in Seq(P) /\ Len(grown) = Len(last) + 1 /\ grown[Len(last) + 1] = at
        /\ \A i \in 1 .. Len(last) : grown[i] = last[i]
    <2> HIDE DEF last
    <2> QED
      BY <1>2
  <1> HIDE DEF grown
  <1>4. /\ r \in Seq(Seq(P)) /\ Len(r) = n /\ r[n] = grown
        /\ \A k \in 1 .. n - 1 : r[k] = lines[k]
    BY <1>0, <1>3, LastReplaced DEF grown, Grown, With
  <1> HIDE DEF n, last
  <1>5. \A k \in 1 .. n : \A i \in 1 .. Len(lines[k]) :
           lines[k][i] < at /\ lines[k][i] \in Nat
    <2> SUFFICES ASSUME NEW k \in 1 .. n, NEW i \in 1 .. Len(lines[k])
                 PROVE  lines[k][i] < at /\ lines[k][i] \in Nat
      OBVIOUS
    <2>1. lines[k][i] \in P
      BY <1>1, ElementOfSeq
    <2>2. Has(lines, lines[k][i])
      BY Zenon DEF Has, n
    <2> QED
      BY <1>0, <1>1, <2>1, <2>2
  <1>6. Rises(r)
    <2> SUFFICES ASSUME NEW k \in 1 .. n, NEW l \in 1 .. n, NEW i \in 1 .. Len(r[k]),
                        NEW j \in 1 .. Len(r[l]), k < l \/ (k = l /\ i < j)
                 PROVE  r[k][i] < r[l][j]
      BY <1>4 DEF Rises
    <2>1. CASE l # n
      <3>1. k \in 1 .. n - 1 /\ l \in 1 .. n - 1
        BY <1>1, <2>1
      <3>2. r[k] = lines[k] /\ r[l] = lines[l]
        BY <1>4, <3>1
      <3> QED
        BY <1>0, <3>2 DEF Rises, n
    <2>2. CASE l = n /\ j \in 1 .. Len(last)
      <3>1. i \in 1 .. Len(lines[k]) /\ r[k][i] = lines[k][i] /\ lines[n] = last
        <4>1. CASE k = n
          BY <1>2, <1>3, <1>4, <2>2, <4>1 DEF last
        <4>2. CASE k # n
          <5>1. k \in 1 .. n - 1
            BY <1>1, <4>2
          <5> QED
            BY <1>4, <5>1 DEF last
        <4> QED
          BY <4>1, <4>2
      <3>2. r[l][j] = lines[l][j]
        BY <1>3, <1>4, <2>2 DEF last
      <3> QED
        BY <1>0, <2>2, <3>1, <3>2 DEF Rises, n
    <2>3. CASE l = n /\ j = Len(last) + 1
      <3>1. r[l][j] = at
        BY <1>3, <1>4, <2>3
      <3>2. i \in 1 .. Len(lines[k]) /\ r[k][i] = lines[k][i]
        <4>1. CASE k = n
          BY <1>2, <1>3, <1>4, <2>3, <4>1 DEF last
        <4>2. CASE k # n
          <5>1. k \in 1 .. n - 1
            BY <1>1, <4>2
          <5> QED
            BY <1>4, <5>1
        <4> QED
          BY <4>1, <4>2
      <3> QED
        BY <1>5, <3>1, <3>2
    <2> QED
      BY <1>2, <1>3, <1>4, <2>1, <2>2, <2>3
  <1>7. \A x : x \in Drawn!Shown(r) <=> Has(r, x)
    BY <1>4, LinesAre, Zenon
  <1>8. ASSUME NEW x \in Drawn!Shown(r) PROVE x \in Drawn!Shown(lines) \union {at}
    <2>0. Has(r, x)
      BY <1>7, <1>8
    <2>1. PICK k \in 1 .. n : \E i \in 1 .. Len(r[k]) : x = r[k][i]
      <3>1. PICK k \in 1 .. Len(r) : \E i \in 1 .. Len(r[k]) : x = r[k][i]
        BY <2>0, Zenon DEF Has
      <3> QED
        BY <1>4, <3>1
    <2>10. PICK i \in 1 .. Len(r[k]) : x = r[k][i]
      BY <2>1
    <2>2. CASE k # n
      <3>1. k \in 1 .. n - 1
        BY <1>1, <2>2
      <3>2. Has(lines, x)
        BY <1>4, <2>10, <3>1 DEF Has, n
      <3> QED
        BY <1>1, <3>2
    <2>3. CASE k = n
      <3>1. i \in 1 .. Len(last) \/ i = Len(last) + 1
        BY <1>2, <1>3, <1>4, <2>3
      <3>2. x = grown[i]
        BY <1>4, <2>10, <2>3
      <3>3. CASE i = Len(last) + 1
        BY <1>3, <3>2, <3>3
      <3>4. CASE i \in 1 .. Len(last)
        <4>1. x = lines[n][i] /\ i \in 1 .. Len(lines[n])
          BY <1>3, <3>2, <3>4 DEF last
        <4>2. Has(lines, x)
          BY <1>2, <4>1, Zenon DEF Has, n
        <4> QED
          BY <1>1, <4>2
      <3> QED
        BY <3>1, <3>3, <3>4
    <2> QED
      BY <2>2, <2>3
  <1>9. at \in Drawn!Shown(r)
    <2>1. Len(last) + 1 \in 1 .. Len(r[n]) /\ r[n][Len(last) + 1] = at
      BY <1>2, <1>3, <1>4
    <2>2. Has(r, at)
      BY <1>2, <1>4, <2>1 DEF Has
    <2> QED
      BY <1>7, <2>2
  <1>10. ASSUME NEW x \in Drawn!Shown(lines) PROVE x \in Drawn!Shown(r)
    <2>1. PICK k \in 1 .. n : \E i \in 1 .. Len(lines[k]) : x = lines[k][i]
      BY <1>1, <1>10, Zenon DEF Has, n
    <2>10. PICK i \in 1 .. Len(lines[k]) : x = lines[k][i]
      BY <2>1
    <2>2. i \in 1 .. Len(r[k]) /\ r[k][i] = lines[k][i]
      <3>1. CASE k = n
        BY <1>2, <1>3, <1>4, <2>10, <3>1 DEF last
      <3>2. CASE k # n
        <4>1. k \in 1 .. n - 1
          BY <1>1, <3>2
        <4> QED
          BY <1>4, <4>1
      <3> QED
        BY <3>1, <3>2
    <2>3. Has(r, x)
      BY <1>4, <2>10, <2>2 DEF Has
    <2> QED
      BY <1>7, <2>3
  <1>11. Drawn!Shown(r) = Drawn!Shown(lines) \union {at}
    BY <1>8, <1>9, <1>10
  <1> QED
    BY <1>0, <1>4, <1>6, <1>11 DEF n, grown, last, Lined, EndsIn, With, Shows

(* A line is begun.                                                        *)
LEMMA LineBegins ==
    ASSUME NEW P, NEW lines, Lined(P, lines), NEW r, r = Append(lines, <<>>)
    PROVE  Lined(P, r) /\ OneMore(r, lines, <<>>) /\ Drawn!Shown(r) = Drawn!Shown(lines)
  <1>0. P \in SUBSET Nat /\ lines \in Seq(Seq(P)) /\ Len(lines) >= 1 /\ Rises(lines)
    BY DEF Lined
  <1> DEFINE n == Len(lines)
             Q == Seq(P)
  <1>1. /\ n \in Nat /\ \A k \in 1 .. n : lines[k] \in Seq(P) /\ Len(lines[k]) \in Nat
        /\ \A x : x \in Drawn!Shown(lines) <=> Has(lines, x)
    BY <1>0, LinesAre
  <1>2. /\ r \in Seq(Q) /\ Len(r) = n + 1 /\ r[n + 1] = <<>>
        /\ \A k \in 1 .. n : r[k] = lines[k]
    <2>1. <<>> \in Q
      OBVIOUS
    <2> HIDE DEF Q
    <2>2. lines \in Seq(Q)
      BY <1>0 DEF Q
    <2> QED
      BY <2>1, <2>2
  <1>3. Len(r[n + 1]) = 0 /\ 1 .. Len(r[n + 1]) = {}
    BY <1>2
  <1> HIDE DEF n
  <1>4. Rises(r)
    <2> SUFFICES ASSUME NEW k \in 1 .. n + 1, NEW l \in 1 .. n + 1, NEW i \in 1 .. Len(r[k]),
                        NEW j \in 1 .. Len(r[l]), k < l \/ (k = l /\ i < j)
                 PROVE  r[k][i] < r[l][j]
      BY <1>2 DEF Rises
    <2>1. k # n + 1 /\ l # n + 1
      BY <1>3
    <2>2. k \in 1 .. n /\ l \in 1 .. n
      BY <1>1, <2>1
    <2>3. r[k] = lines[k] /\ r[l] = lines[l]
      BY <1>2, <2>2
    <2> QED
      BY <1>0, <2>2, <2>3 DEF Rises, n
  <1>5. \A x : x \in Drawn!Shown(r) <=> Has(r, x)
    BY <1>2, LinesAre, Zenon
  <1>6. 1 .. n + 1 = 1 .. n \union {n + 1}
    BY <1>1
  <1>7. \A x : x \in Drawn!Shown(r) <=> x \in Drawn!Shown(lines)
    <2>1. \A x : Has(r, x) <=> Has(lines, x)
      BY <1>2, <1>3, <1>6 DEF Has, n
    <2> QED
      BY <1>1, <1>5, <2>1
  <1> QED
    BY <1>0, <1>1, <1>2, <1>4, <1>7 DEF n, Lined, OneMore

First(lines, m) == SubSeq(lines[Len(lines)], 1, m)
Shortened(r, lines, m) == r = [lines EXCEPT ![Len(lines)] = First(lines, m)]

(* The last line keeps its first positions.                                *)
LEMMA LineIsCut ==
    ASSUME NEW P, NEW lines, Lined(P, lines), NEW m, m \in 0 .. Len(lines[Len(lines)]),
           NEW r, Shortened(r, lines, m)
    PROVE  /\ Lined(P, r) /\ EndsIn(r, lines, First(lines, m))
           /\ Drawn!Shown(r) \subseteq Drawn!Shown(lines)
           /\ \A x \in Drawn!Shown(r), y \in Drawn!Shown(lines) : y < x => y \in Drawn!Shown(r)
  <1>0. P \in SUBSET Nat /\ lines \in Seq(Seq(P)) /\ Len(lines) >= 1 /\ Rises(lines)
    BY DEF Lined
  <1> DEFINE n == Len(lines)
             last == lines[n]
             kept == SubSeq(last, 1, m)
  <1>1. /\ n \in Nat /\ \A k \in 1 .. n : lines[k] \in Seq(P) /\ Len(lines[k]) \in Nat
        /\ \A x : x \in Drawn!Shown(lines) <=> Has(lines, x)
    BY <1>0, LinesAre
  <1>2. last \in Seq(P) /\ Len(last) \in Nat /\ n \in 1 .. n
    BY <1>0, <1>1
  <1>3. kept \in Seq(P) /\ Len(kept) = m /\ \A i \in 1 .. m : kept[i] = last[i]
    BY <1>2, FirstOf
  <1> HIDE DEF kept
  <1>4. /\ r \in Seq(Seq(P)) /\ Len(r) = n /\ r[n] = kept
        /\ \A k \in 1 .. n - 1 : r[k] = lines[k]
    BY <1>0, <1>3, LastReplaced DEF kept, Shortened, First
  <1>5. m \in Nat /\ m <= Len(last)
    BY <1>2 DEF n, last
  <1> HIDE DEF n, last
  <1>6. \A k \in 1 .. n : Len(r[k]) <= Len(lines[k]) /\ Len(r[k]) \in Nat
          /\ \A i \in 1 .. Len(r[k]) : i \in 1 .. Len(lines[k]) /\ r[k][i] = lines[k][i]
    <2> SUFFICES ASSUME NEW k \in 1 .. n
                 PROVE  Len(r[k]) <= Len(lines[k]) /\ Len(r[k]) \in Nat
                   /\ \A i \in 1 .. Len(r[k]) : i \in 1 .. Len(lines[k]) /\ r[k][i] = lines[k][i]
      OBVIOUS
    <2>1. CASE k = n
      BY <1>2, <1>3, <1>4, <1>5, <2>1 DEF last
    <2>2. CASE k # n
      <3>1. k \in 1 .. n - 1
        BY <1>1, <2>2
      <3>2. r[k] = lines[k]
        BY <1>4, <3>1
      <3> QED
        BY <1>1, <3>2
    <2> QED
      BY <2>1, <2>2
  <1>7. Rises(r)
    <2> SUFFICES ASSUME NEW k \in 1 .. n, NEW l \in 1 .. n, NEW i \in 1 .. Len(r[k]),
                        NEW j \in 1 .. Len(r[l]), k < l \/ (k = l /\ i < j)
                 PROVE  r[k][i] < r[l][j]
      BY <1>4 DEF Rises
    <2>1. /\ i \in 1 .. Len(lines[k]) /\ r[k][i] = lines[k][i]
          /\ j \in 1 .. Len(lines[l]) /\ r[l][j] = lines[l][j]
      BY <1>6
    <2> QED
      BY <1>0, <2>1 DEF Rises, n
  <1>8. \A x : x \in Drawn!Shown(r) <=> Has(r, x)
    BY <1>4, LinesAre, Zenon
  <1>9. Drawn!Shown(r) \subseteq Drawn!Shown(lines)
    <2>1. ASSUME NEW x, Has(r, x) PROVE Has(lines, x)
      <3>1. PICK k \in 1 .. Len(r) : \E i \in 1 .. Len(r[k]) : x = r[k][i]
        BY <2>1, Zenon DEF Has
      <3>2. PICK i \in 1 .. Len(r[k]) : x = r[k][i]
        BY <3>1
      <3>3. k \in 1 .. n
        BY <1>4
      <3>4. i \in 1 .. Len(lines[k]) /\ x = lines[k][i]
        BY <1>6, <3>2, <3>3
      <3> QED
        BY <3>3, <3>4, Zenon DEF Has, n
    <2> QED
      BY <1>1, <1>8, <2>1
  <1>10. ASSUME NEW x \in Drawn!Shown(r), NEW y \in Drawn!Shown(lines), y < x
         PROVE  y \in Drawn!Shown(r)
    <2>0. Has(r, x)
      BY <1>8, <1>10
    <2>1. PICK k \in 1 .. n : \E i \in 1 .. Len(r[k]) : x = r[k][i]
      <3>1. PICK k \in 1 .. Len(r) : \E i \in 1 .. Len(r[k]) : x = r[k][i]
        BY <2>0, Zenon DEF Has
      <3> QED
        BY <1>4, <3>1
    <2>10. PICK i \in 1 .. Len(r[k]) : x = r[k][i]
      BY <2>1
    <2>2. PICK l \in 1 .. n : \E j \in 1 .. Len(lines[l]) : y = lines[l][j]
      BY <1>1, <1>10, Zenon DEF Has, n
    <2>20. PICK j \in 1 .. Len(lines[l]) : y = lines[l][j]
      BY <2>2
    <2>3. x = lines[k][i] /\ i \in 1 .. Len(lines[k]) /\ x \in Nat /\ y \in Nat
      <3>1. x = lines[k][i] /\ i \in 1 .. Len(lines[k])
        BY <1>6, <2>10
      <3>2. x \in P /\ y \in P
        BY <1>1, <2>10, <2>20, <3>1, ElementOfSeq
      <3> QED
        BY <1>0, <3>1, <3>2
    <2>4. CASE l # n
      <3>1. l \in 1 .. n - 1
        BY <1>1, <2>4
      <3>2. Has(r, y)
        BY <1>4, <2>20, <3>1 DEF Has
      <3> QED
        BY <1>8, <3>2
    <2>5. CASE l = n /\ j <= m
      <3>1. j \in 1 .. Len(r[l]) /\ r[l][j] = lines[l][j]
        BY <1>2, <1>3, <1>4, <1>5, <2>20, <2>5 DEF last
      <3>2. Has(r, y)
        BY <1>4, <2>20, <3>1 DEF Has
      <3> QED
        BY <1>8, <3>2
    <2>6. CASE l = n /\ j > m
      <3>1. k < l \/ (k = l /\ i < j)
        BY <1>1, <1>3, <1>4, <1>5, <2>10, <2>20, <2>6
      <3>2. x < y
        BY <1>0, <2>10, <2>20, <2>3, <3>1 DEF Rises, n
      <3> QED
        BY <1>10, <2>3, <3>2
    <2> QED
      BY <1>1, <1>5, <2>20, <2>4, <2>5, <2>6
  <1> QED
    BY <1>0, <1>4, <1>7, <1>9, <1>10 DEF n, kept, last, Lined, EndsIn, First

-----------------------------------------------------------------------------
(* The width of a line *)

Widths(text, line) == [k \in DOMAIN line |-> text[line[k]].width]
Wide(text, line) == Total(Widths(text, line), DOMAIN line)

Measured(text) == \A i \in 1 .. Len(text) : text[i].width \in Nat

LEMMA LineWeighs ==
    ASSUME NEW text, Measured(text), NEW line \in Seq(1 .. Len(text))
    PROVE  /\ IsFiniteSet(DOMAIN line) /\ Weighs(Widths(text, line), DOMAIN line)
           /\ DOMAIN line = 1 .. Len(line) /\ Len(line) \in Nat /\ Wide(text, line) \in Nat
           /\ \A k \in DOMAIN line : Widths(text, line)[k] = text[line[k]].width
  <1>1. DOMAIN line = 1 .. Len(line) /\ Len(line) \in Nat
    BY LenProperties
  <1>2. IsFiniteSet(DOMAIN line)
    BY <1>1, FS_Interval
  <1>3. \A k \in DOMAIN line : line[k] \in 1 .. Len(text)
    BY <1>1, ElementOfSeq
  <1>4. \A k \in DOMAIN line : Widths(text, line)[k] = text[line[k]].width
    BY DEF Widths
  <1>5. Weighs(Widths(text, line), DOMAIN line)
    BY <1>3, <1>4 DEF Weighs, Measured
  <1> QED
    BY <1>1, <1>2, <1>4, <1>5, TotalTyped DEF Wide

LEMMA WidthIs ==
    ASSUME Measured(drawn.text), NEW line \in Seq(1 .. Len(drawn.text))
    PROVE  Drawn!WidthOf(line) = Wide(drawn.text, line)
  <1>1. IsFiniteSet(DOMAIN line) /\ Weighs(Widths(drawn.text, line), DOMAIN line)
    BY LineWeighs
  <1>2. Drawn!WidthOf(line) = Drawn!SumFunctionOnSet(Widths(drawn.text, line), DOMAIN line)
    <2>1. DOMAIN Widths(drawn.text, line) = DOMAIN line
      BY DEF Widths
    <2>2. Drawn!WidthOf(line) = Drawn!SumFunction(Widths(drawn.text, line))
      BY Zenon DEF Drawn!WidthOf, Widths
    <2> QED
      BY <2>1, <2>2, Zenon DEF Drawn!SumFunction
  <1> QED
    BY <1>1, <1>2, DrawnTotal DEF Wide

LEMMA WideGrows ==
    ASSUME NEW text, Measured(text), NEW line \in Seq(1 .. Len(text)), NEW at \in 1 .. Len(text)
    PROVE  Wide(text, Append(line, at)) = Wide(text, line) + text[at].width
  <1> DEFINE n == Len(line)
             grown == Append(line, at)
             w == Widths(text, grown)
             v == Widths(text, line)
  <1>1. /\ n \in Nat /\ DOMAIN line = 1 .. n /\ grown \in Seq(1 .. Len(text))
        /\ Len(grown) = n + 1 /\ grown[n + 1] = at /\ \A i \in 1 .. n : grown[i] = line[i]
    <2> DEFINE P == 1 .. Len(text)
    <2> HIDE DEF P
    <2>1. line \in Seq(P) /\ at \in P
      BY DEF P
    <2>2. /\ n \in Nat /\ DOMAIN line = 1 .. n /\ grown \in Seq(P)
          /\ Len(grown) = n + 1 /\ grown[n + 1] = at /\ \A i \in 1 .. n : grown[i] = line[i]
      BY <2>1
    <2> QED
      BY <2>2 DEF P
  <1> HIDE DEF grown, n
  <1>2. /\ IsFiniteSet(DOMAIN grown) /\ Weighs(w, DOMAIN grown) /\ DOMAIN grown = 1 .. n + 1
        /\ \A k \in 1 .. n + 1 : w[k] = text[grown[k]].width
    BY <1>1, LineWeighs
  <1>3. \A k \in 1 .. n : v[k] = text[line[k]].width
    BY <1>1 DEF Widths
  <1>4. n + 1 \in DOMAIN grown /\ DOMAIN grown \ {n + 1} = 1 .. n
    BY <1>1, <1>2
  <1>5. Total(w, DOMAIN grown) = w[n + 1] + Total(w, 1 .. n)
    <2> DEFINE D == DOMAIN grown
    <2>1. IsFiniteSet(D) /\ Weighs(w, D) /\ n + 1 \in D
      BY <1>2, <1>4
    <2> HIDE DEF w, D
    <2>2. Total(w, D) = w[n + 1] + Total(w, D \ {n + 1})
      BY <2>1, TotalAdds, SMTT(30)
    <2> QED
      BY <1>4, <2>2 DEF D
  <1>6. Units(w, 1 .. n) = Units(v, 1 .. n)
    <2>1. \A k \in 1 .. n : w[k] = v[k]
      BY <1>1, <1>2, <1>3, SMTT(30)
    <2> HIDE DEF w, v
    <2> QED
      BY <2>1 DEF Units
  <1>7. w[n + 1] = text[at].width /\ text[at].width \in Nat
    BY <1>1, <1>2, <1>4 DEF Measured
  <1>8. Wide(text, line) \in Nat /\ Wide(text, line) = Total(v, 1 .. n)
    BY <1>1, LineWeighs DEF Wide
  <1> QED
    BY <1>5, <1>6, <1>7, <1>8 DEF Wide, Total, grown

LEMMA WideOfNone == \A text : Wide(text, <<>>) = 0
  <1>1. DOMAIN <<>> = {}
    BY EmptySeq
  <1> QED
    BY <1>1, TotalOfNone DEF Wide

(* What has no width has no grapheme.                                      *)
LEMMA WideHolds ==
    ASSUME NEW text, Measured(text), NEW line \in Seq(1 .. Len(text)),
           \A k \in 1 .. Len(line) : text[line[k]].width > 0, Wide(text, line) = 0
    PROVE  line = <<>>
  <1>1. /\ IsFiniteSet(DOMAIN line) /\ Weighs(Widths(text, line), DOMAIN line)
        /\ DOMAIN line = 1 .. Len(line) /\ Len(line) \in Nat
        /\ \A k \in DOMAIN line : Widths(text, line)[k] = text[line[k]].width
    BY LineWeighs
  <1>2. SUFFICES ASSUME Len(line) # 0 PROVE FALSE
    BY <1>1, EmptySeq
  <1>3. 1 \in DOMAIN line
    BY <1>1, <1>2
  <1>4. /\ Total(Widths(text, line), DOMAIN line \ {1}) \in Nat
        /\ Wide(text, line) = Widths(text, line)[1] + Total(Widths(text, line), DOMAIN line \ {1})
    <2> DEFINE D == DOMAIN line
               w == Widths(text, line)
    <2>1. IsFiniteSet(D) /\ Weighs(w, D) /\ 1 \in D
      BY <1>1, <1>3
    <2> HIDE DEF w, D
    <2>2. Total(w, D \ {1}) \in Nat /\ Total(w, D) = w[1] + Total(w, D \ {1})
      <3>1. \A x \in D : Total(w, D \ {x}) \in Nat /\ Total(w, D) = w[x] + Total(w, D \ {x})
        BY <2>1, TotalAdds, ZenonT(60)
      <3> QED
        BY <2>1, <3>1
    <2> QED
      BY <2>2 DEF Wide, D, w
  <1>5. Widths(text, line)[1] > 0 /\ Widths(text, line)[1] \in Nat
    BY <1>1, <1>3 DEF Weighs
  <1> QED
    BY <1>4, <1>5

-----------------------------------------------------------------------------
(* The chunks of a long value *)

(* Every chunk fits, or is of one grapheme.                                *)
Chunky(text, lines) ==
    \A k \in 1 .. Len(lines) : Wide(text, lines[k]) <= Chunk \/ Len(lines[k]) = 1

ChunkRecord(text) ==
    [kind : {"chunks"}, text : Seq(Drawn!Glyph), at : Nat, lines : Seq(Seq(1 .. Len(text))),
     used : Nat, shown : Nat]

Chunked(s) ==
    /\ s \in ChunkRecord(s.text)
    /\ Measured(s.text) /\ \A i \in 1 .. Len(s.text) : s.text[i].width > 0
    /\ s.at >= 1 /\ Len(s.lines) >= 1 /\ s.shown \in 1 .. Len(s.lines)
    /\ Rises(s.lines) /\ Drawn!Shown(s.lines) = 1 .. s.at - 1
    /\ s.used = Wide(s.text, s.lines[Len(s.lines)])
    /\ Chunky(s.text, s.lines)

Begun(r, lines, at) == r = Append(lines, <<at>>)

LEMMA ChunkGrows ==
    ASSUME NEW P, NEW lines, Lined(P, lines), NEW at, at \in P, Beyond(at, lines),
           NEW r, Begun(r, lines, at)
    PROVE  Lined(P, r) /\ OneMore(r, lines, <<at>>) /\ Shows(r, lines, at)
  <1> DEFINE n == Len(lines)
             begun == Append(lines, <<>>)
             grown == [begun EXCEPT ![Len(begun)] = Append(begun[Len(begun)], at)]
             Q == Seq(P)
  <1>1. n \in Nat /\ lines \in Seq(Q)
    BY LenProperties DEF Lined
  <1>2. /\ Lined(P, begun) /\ OneMore(begun, lines, <<>>)
        /\ Drawn!Shown(begun) = Drawn!Shown(lines)
    <2>1. begun = Append(lines, <<>>)
      OBVIOUS
    <2> HIDE DEF begun
    <2> QED
      BY <2>1, LineBegins, Zenon
  <1> HIDE DEF begun
  <1>3. /\ Lined(P, grown) /\ EndsIn(grown, begun, With(begun, at))
        /\ Shows(grown, begun, at)
    <2>1. Beyond(at, begun)
      BY <1>2 DEF Beyond
    <2>2. Grown(grown, begun, at)
      BY DEF Grown, With
    <2> HIDE DEF grown
    <2> QED
      BY <1>2, <2>1, <2>2, LineGrows, Zenon
  <1> HIDE DEF grown
  <1>4. Append(<<>>, at) = <<at>> /\ <<at>> \in Q
    OBVIOUS
  <1>5. r \in Seq(Q) /\ OneMore(r, lines, <<at>>)
    <2> HIDE DEF Q
    <2> QED
      BY <1>1, <1>4 DEF OneMore, Begun
  <1>6. OneMore(grown, lines, <<at>>) /\ grown \in Seq(Q)
    <2>1. Len(begun) = n + 1 /\ begun[n + 1] = <<>> /\ \A k \in 1 .. n : begun[k] = lines[k]
      BY <1>2 DEF OneMore, n
    <2>2. /\ Len(grown) = Len(begun) /\ grown[Len(begun)] = Append(begun[Len(begun)], at)
          /\ \A k \in 1 .. Len(begun) - 1 : grown[k] = begun[k]
      BY <1>3, Zenon DEF EndsIn, With
    <2> HIDE DEF n
    <2>3. Len(begun) - 1 = n
      BY <1>1, <2>1
    <2>4. grown[n + 1] = <<at>> /\ Len(grown) = n + 1 /\ \A k \in 1 .. n : grown[k] = lines[k]
      BY <1>4, <2>1, <2>2, <2>3
    <2> QED
      BY <1>3, <2>4, Zenon DEF OneMore, n, Lined, Q
  <1>7. r = grown
    <2>1. \A k \in 1 .. n + 1 : k \in 1 .. n \/ k = n + 1
      BY <1>1
    <2>2. \A k \in 1 .. n + 1 : r[k] = grown[k]
      BY <1>5, <1>6, <2>1, Zenon DEF OneMore, n
    <2>3. Len(r) = n + 1 /\ Len(grown) = n + 1
      BY <1>5, <1>6, Zenon DEF OneMore, n
    <2> HIDE DEF Q
    <2> QED
      BY <1>5, <1>6, <2>2, <2>3, SeqEqual
  <1> QED
    BY <1>2, <1>3, <1>5, <1>7 DEF Shows

LEMMA ChunkGoesOn ==
    ASSUME NEW text, Measured(text), \A i \in 1 .. Len(text) : text[i].width > 0,
           NEW lines, Lined(1 .. Len(text), lines), Chunky(text, lines),
           NEW at \in 1 .. Len(text), NEW r, NEW full \in BOOLEAN,
           full = (Wide(text, lines[Len(lines)]) > 0
                   /\ Wide(text, lines[Len(lines)]) + text[at].width > Chunk),
           IF full THEN OneMore(r, lines, <<at>>)
           ELSE EndsIn(r, lines, With(lines, at))
    PROVE  /\ Chunky(text, r) /\ Len(r) >= Len(lines) /\ text[at].width \in Nat
           /\ Wide(text, r[Len(r)]) =
                IF full THEN text[at].width ELSE Wide(text, lines[Len(lines)]) + text[at].width
  <1> DEFINE P == 1 .. Len(text)
             n == Len(lines)
             last == lines[n]
             used == Wide(text, last)
             chars == text[at].width
  <1>1. n \in Nat /\ n >= 1 /\ n \in 1 .. n /\ last \in Seq(P) /\ chars \in Nat /\ Chunk \in Nat
    <2>1. lines \in Seq(Seq(P)) /\ n >= 1
      BY Zenon DEF Lined
    <2>2. n \in Nat
      BY <2>1, LenProperties
    <2>3. n \in 1 .. n
      BY <2>1, <2>2
    <2>4. last \in Seq(P)
      BY <2>1, <2>3, LinesAre, Zenon
    <2> QED
      BY <2>1, <2>2, <2>3, <2>4, LayoutAssumption DEF Measured
  <1>2. used \in Nat /\ Wide(text, Append(last, at)) = used + chars
    BY <1>1, LineWeighs, WideGrows
  <1>3. Wide(text, <<at>>) = chars /\ Len(<<at>>) = 1
    <2>1. <<>> \in Seq(P) /\ Append(<<>>, at) = <<at>> /\ Len(<<at>>) = 1
      OBVIOUS
    <2>2. Wide(text, Append(<<>>, at)) = Wide(text, <<>>) + chars
      BY <2>1, WideGrows
    <2>3. Wide(text, <<>>) = 0
      BY WideOfNone
    <2> QED
      BY <1>1, <2>1, <2>2, <2>3
  <1>4. ASSUME ~full PROVE used + chars <= Chunk \/ Len(Append(last, at)) = 1
    <2>1. CASE used > 0
      <3>1. ~(used > 0 /\ used + chars > Chunk)
        BY <1>4
      <3> HIDE DEF used, chars
      <3> QED
        BY <1>1, <1>2, <2>1, <3>1
    <2>2. CASE used = 0
      <3>1. \A k \in 1 .. Len(last) : last[k] \in P
        BY <1>1, ElementOfSeq
      <3>2. last = <<>>
        BY <1>1, <2>2, <3>1, WideHolds
      <3> HIDE DEF last
      <3>3. Append(last, at) = <<at>>
        BY <3>2
      <3> QED
        BY <1>3, <3>3, Zenon
    <2> QED
      BY <1>2, <2>1, <2>2
  <1> HIDE DEF P, n, last, used, chars
  <1>5. CASE full
    <2>1. Len(r) = n + 1 /\ r[n + 1] = <<at>> /\ \A k \in 1 .. n : r[k] = lines[k]
      BY <1>5 DEF OneMore, n
    <2>2. \A k \in 1 .. n + 1 : k \in 1 .. n \/ k = n + 1
      BY <1>1
    <2>3. Chunky(text, r)
      <3> SUFFICES ASSUME NEW k \in 1 .. n + 1
                   PROVE  Wide(text, r[k]) <= Chunk \/ Len(r[k]) = 1
        BY <2>1 DEF Chunky
      <3>1. CASE k \in 1 .. n
        BY <2>1, <3>1 DEF Chunky, n
      <3>2. CASE k = n + 1
        BY <1>3, <2>1, <3>2, Zenon
      <3> QED
        BY <2>2, <3>1, <3>2
    <2> QED
      BY <1>1, <1>3, <1>5, <2>1, <2>3 DEF n, chars
  <1>6. CASE ~full
    <2>1. Len(r) = n /\ r[n] = Append(last, at) /\ \A k \in 1 .. n - 1 : r[k] = lines[k]
      BY <1>6, Zenon DEF EndsIn, With, n, last
    <2>2. \A k \in 1 .. n : k \in 1 .. n - 1 \/ k = n
      BY <1>1
    <2>3. Chunky(text, r)
      <3> SUFFICES ASSUME NEW k \in 1 .. n
                   PROVE  Wide(text, r[k]) <= Chunk \/ Len(r[k]) = 1
        BY <2>1 DEF Chunky
      <3>1. CASE k \in 1 .. n - 1
        BY <2>1, <3>1 DEF Chunky, n
      <3>2. CASE k = n
        <4>1. Wide(text, r[k]) = used + chars /\ r[k] = Append(last, at)
          BY <1>2, <2>1, <3>2, Zenon
        <4> QED
          BY <1>4, <1>6, <4>1, Zenon
      <3> QED
        BY <2>2, <3>1, <3>2
    <2>4. Wide(text, r[Len(r)]) = used + chars
      BY <1>2, <2>1, Zenon
    <2> QED
      BY <1>1, <1>6, <2>1, <2>3, <2>4 DEF n, chars, used, last
  <1> QED
    BY <1>5, <1>6

LEMMA SplitKeeps ==
    ASSUME Chunked(drawn), Drawn!Split
    PROVE  Chunked(drawn')
  <1> DEFINE text == drawn.text
             lines == drawn.lines
             n == Len(lines)
             P == 1 .. Len(text)
             at == drawn.at
             chars == text[at].width
             full == drawn.used > 0 /\ drawn.used + chars > Chunk
             next == IF full THEN Append(lines, <<at>>)
                     ELSE [lines EXCEPT ![n] = Append(lines[n], at)]
             used == IF full THEN chars ELSE drawn.used + chars
  <1>1. /\ text \in Seq(Drawn!Glyph) /\ lines \in Seq(Seq(P)) /\ at \in Nat /\ at >= 1
        /\ drawn.used \in Nat /\ drawn.shown \in 1 .. n /\ n >= 1 /\ Rises(lines)
        /\ Drawn!Shown(lines) = 1 .. at - 1 /\ drawn.used = Wide(text, lines[n])
        /\ Measured(text) /\ \A i \in P : text[i].width > 0 /\ Chunky(text, lines)
    BY DEF Chunked, ChunkRecord
  <1>2. at <= Len(text) /\ Len(text) \in Nat /\ n \in Nat
    BY <1>1, LenProperties DEF Drawn!Split
  <1>3. at \in P /\ Lined(P, lines) /\ Beyond(at, lines)
    <2>1. at \in P /\ P \in SUBSET Nat
      BY <1>1, <1>2
    <2>2. Beyond(at, lines)
      BY <1>1 DEF Beyond
    <2> HIDE DEF P, n
    <2> QED
      BY <1>1, <2>1, <2>2 DEF Lined, n
  <1>4. drawn' = [drawn EXCEPT !.at = at + 1, !.used = used, !.lines = next]
    <2> DEFINE t == [drawn EXCEPT !.at = at + 1]
               u == [t EXCEPT !.used = used]
    <2>1. t.used = drawn.used /\ u.lines = lines
      <3>1. drawn \in ChunkRecord(text)
        BY DEF Chunked
      <3> HIDE DEF used
      <3> QED
        BY <3>1 DEF ChunkRecord
    <2> DEFINE v == [t EXCEPT !.used = IF full THEN chars ELSE @ + chars]
    <2>2. drawn' = [v EXCEPT !.lines = IF full THEN Append(@, <<at>>)
                                       ELSE [@ EXCEPT ![Len(@)] = Append(lines[n], at)]]
      <3>1. drawn' = [drawn EXCEPT
              !.at = @ + 1, !.used = IF full THEN chars ELSE @ + chars,
              !.lines = IF full THEN Append(@, <<drawn.at>>)
                        ELSE [@ EXCEPT ![Len(@)] = Append(Drawn!LastLine(drawn), drawn.at)]]
        BY Zenon DEF Drawn!Split
      <3>2. Drawn!LastLine(drawn) = lines[n]
        BY DEF Drawn!LastLine
      <3> HIDE DEF full, chars
      <3> QED
        BY <3>1, <3>2
    <2>3. v = u
      <3>1. (IF full THEN chars ELSE t.used + chars) = used
        <4> HIDE DEF t, full, chars
        <4> QED
          BY <2>1
      <3> QED
        BY <3>1, Zenon
    <2> HIDE DEF v
    <2>4. drawn' = [u EXCEPT !.lines = next]
      <3> HIDE DEF u, full, chars
      <3>1. CASE full
        <4>1. next = Append(lines, <<at>>)
          BY <3>1
        <4>2. drawn' = [v EXCEPT !.lines = Append(@, <<at>>)]
          BY <2>2, <3>1
        <4> QED
          BY <2>1, <2>3, <4>1, <4>2, Zenon
      <3>2. CASE ~full
        <4>1. next = [lines EXCEPT ![n] = Append(lines[n], at)]
          BY <3>2
        <4>2. drawn' = [v EXCEPT !.lines = [@ EXCEPT ![Len(@)] = Append(lines[n], at)]]
          BY <2>2, <3>2
        <4> QED
          BY <2>1, <2>3, <4>1, <4>2, Zenon
      <3> QED
        BY <3>1, <3>2
    <2> QED
      BY <2>4, Zenon
  <1> HIDE DEF text, lines, P, at, chars
  <1>5. /\ Lined(P, next) /\ Shows(next, lines, at)
        /\ IF full THEN OneMore(next, lines, <<at>>)
           ELSE EndsIn(next, lines, With(lines, at))
    <2>1. CASE full
      <3>1. Begun(next, lines, at)
        BY <2>1 DEF Begun
      <3> HIDE DEF next, full
      <3>2. /\ Lined(P, next) /\ OneMore(next, lines, <<at>>)
            /\ Shows(next, lines, at)
        BY <1>3, <3>1, ChunkGrows, Zenon
      <3> QED
        BY <2>1, <3>2, Zenon
    <2>2. CASE ~full
      <3>1. Grown(next, lines, at)
        BY <2>2 DEF Grown, With
      <3> HIDE DEF next, full
      <3>2. /\ Lined(P, next) /\ EndsIn(next, lines, With(lines, at))
            /\ Shows(next, lines, at)
        BY <1>3, <3>1, LineGrows, Zenon
      <3> QED
        BY <2>2, <3>2, Zenon
    <2> QED
      BY <2>1, <2>2
  <1>6. full \in BOOLEAN /\ full = (Wide(text, lines[Len(lines)]) > 0
                   /\ Wide(text, lines[Len(lines)]) + text[at].width > Chunk)
    BY <1>1 DEF chars
  <1>7. used = IF full THEN text[at].width ELSE Wide(text, lines[Len(lines)]) + text[at].width
    BY <1>1 DEF chars
  <1> HIDE DEF next, full, used
  <1>8. /\ Chunky(text, next) /\ Len(next) >= n /\ text[at].width \in Nat
        /\ used = Wide(text, next[Len(next)])
    <2>1. /\ Chunky(text, next) /\ Len(next) >= Len(lines) /\ text[at].width \in Nat
          /\ Wide(text, next[Len(next)]) =
                IF full THEN text[at].width ELSE Wide(text, lines[Len(lines)]) + text[at].width
      BY <1>1, <1>3, <1>5, <1>6, ChunkGoesOn, ZenonT(60) DEF P
    <2> QED
      BY <1>7, <2>1, Zenon
  <1>9. used \in Nat
    BY <1>1, <1>7, <1>8
  <1> DEFINE then == at + 1
  <1>10. then \in Nat /\ then >= 1 /\ Drawn!Shown(next) = 1 .. then - 1
    <2>1. then \in Nat /\ then >= 1 /\ then - 1 = at
      BY <1>1
    <2>2. 1 .. at - 1 \union {at} = 1 .. at
      BY <1>1
    <2> HIDE DEF then
    <2> QED
      BY <1>1, <1>5, <2>1, <2>2 DEF Shows
  <1>11. drawn' = [drawn EXCEPT !.at = then, !.used = used, !.lines = next]
    BY <1>4
  <1>12. drawn \in ChunkRecord(text) /\ next \in Seq(Seq(P)) /\ Len(next) \in Nat /\ Rises(next)
         /\ Len(next) >= 1
    <2>1. next \in Seq(Seq(P)) /\ Rises(next) /\ Len(next) >= 1
      BY <1>5, Zenon DEF Lined
    <2> QED
      BY <2>1, LenProperties DEF Chunked, text
  <1> HIDE DEF then
  <1>13. drawn' \in ChunkRecord(text)
    BY <1>9, <1>10, <1>11, <1>12 DEF ChunkRecord, P
  <1>14. /\ drawn'.text = text /\ drawn'.at = then /\ drawn'.lines = next /\ drawn'.used = used
         /\ drawn'.shown = drawn.shown
    BY <1>11, <1>12 DEF ChunkRecord, text
  <1>15. drawn.shown \in 1 .. Len(next)
    BY <1>1, <1>2, <1>8, <1>12
  <1> QED
    BY <1>1, <1>8, <1>10, <1>12, <1>13, <1>14, <1>15 DEF Chunked, P

LEMMA TurnChunkKeeps ==
    ASSUME Chunked(drawn), Drawn!TurnChunk
    PROVE  Chunked(drawn')
  <1> DEFINE n == Len(drawn.lines)
  <1>1. n \in Nat /\ n >= 1 /\ drawn.shown \in Nat /\ drawn \in ChunkRecord(drawn.text)
    BY LenProperties DEF Chunked, ChunkRecord
  <1>2. PICK turned \in {drawn.shown - 1, drawn.shown + 1} :
          drawn' = [drawn EXCEPT !.shown = Drawn!Max({1, Drawn!Min({turned, n})})]
    BY Zenon DEF Drawn!TurnChunk
  <1> DEFINE low == IF turned <= n THEN turned ELSE n
             shown == IF 1 >= low THEN 1 ELSE low
  <1> HIDE DEF n
  <1>3. turned \in Int /\ n \in Int /\ low \in Int /\ 1 \in Int
    BY <1>1
  <1>4. Drawn!Min({turned, n}) = low
    BY <1>3, DrawnBounds
  <1>5. Drawn!Max({1, low}) = shown
    <2> HIDE DEF low
    <2> QED
      BY <1>3, DrawnBounds
  <1>6. shown \in 1 .. n /\ shown \in Nat
    BY <1>1, <1>3
  <1> HIDE DEF low, shown
  <1>7. drawn' = [drawn EXCEPT !.shown = shown]
    BY <1>2, <1>4, <1>5
  <1>8. drawn' \in ChunkRecord(drawn.text)
    BY <1>1, <1>6, <1>7 DEF ChunkRecord
  <1>9. /\ drawn'.text = drawn.text /\ drawn'.at = drawn.at /\ drawn'.lines = drawn.lines
        /\ drawn'.used = drawn.used /\ drawn'.shown = shown
    BY <1>1, <1>7 DEF ChunkRecord
  <1> QED
    BY <1>6, <1>8, <1>9 DEF Chunked, n

LEMMA ChunkedFit ==
    ASSUME Chunked(drawn)
    PROVE  Drawn!ChunksFit
  <1> DEFINE lines == drawn.lines
             P == 1 .. Len(drawn.text)
  <1>1. lines \in Seq(Seq(P)) /\ Measured(drawn.text)
    BY DEF Chunked, ChunkRecord
  <1>2. DOMAIN lines = 1 .. Len(lines) /\ \A k \in DOMAIN lines : lines[k] \in Seq(P)
    BY <1>1, LenProperties, ElementOfSeq
  <1>3. \A k \in DOMAIN lines : Drawn!WidthOf(lines[k]) = Wide(drawn.text, lines[k])
    BY <1>1, <1>2, WidthIs
  <1>4. Drawn!Rising(lines) <=> Rises(lines)
    BY <1>1, LinesAre
  <1> QED
    BY <1>2, <1>3, <1>4 DEF Drawn!ChunksFit, Chunked, Chunky

-----------------------------------------------------------------------------
(* The lines of a preview and of a value *)

WrapRecord(text) ==
    [kind : {"preview", "value"}, text : Seq(Drawn!Glyph), width : Nat \ {0}, at : Nat,
     lines : Seq(Seq(1 .. Len(text))), cut : BOOLEAN]

Glyphs(text) == {i \in 1 .. Len(text) : text[i] # Drawn!NewLine}

(* No line is wider than the room.                                         *)
Narrow(kind, text, width, lines, cut) ==
    \A k \in 1 .. Len(lines) :
       \/ Wide(text, lines[k]) + (IF cut /\ k = Len(lines) THEN 1 ELSE 0) <= width
       \/ (kind = "value" /\ Len(lines[k]) = 1)

(* The lines have the graphemes before a position, or those up to the cut. *)
Reached(kind, text, at, lines, cut) ==
    /\ Drawn!Shown(lines) \subseteq Glyphs(text)
    /\ IF cut
       THEN /\ kind = "preview" /\ at = Len(text) + 1
            /\ \A x \in Drawn!Shown(lines), y \in Glyphs(text) : y < x => y \in Drawn!Shown(lines)
       ELSE \A x \in Glyphs(text) : x < at <=> x \in Drawn!Shown(lines)

Wrap(kind, text, width, at, lines, cut) ==
    /\ Lined(1 .. Len(text), lines) /\ (kind = "preview" => Len(lines) <= 3)
    /\ Narrow(kind, text, width, lines, cut) /\ Reached(kind, text, at, lines, cut)

Wrapped(s) ==
    /\ s \in WrapRecord(s.text) /\ s.at \in 1 .. Len(s.text) + 1
    /\ Wrap(s.kind, s.text, s.width, s.at, s.lines, s.cut)

LEMMA GlyphsMeasured ==
    ASSUME NEW text \in Seq(Drawn!Glyph)
    PROVE  /\ Measured(text) /\ \A i \in Glyphs(text) : text[i].width > 0
           /\ Len(text) \in Nat /\ \A i \in Glyphs(text) : i \in 1 .. Len(text)
  <1>1. \A i \in 1 .. Len(text) : text[i] \in Drawn!Glyph
    BY ElementOfSeq
  <1>2. \A g \in Drawn!Glyph : g.width \in Nat /\ (g # Drawn!NewLine => g.width > 0)
    BY DEF Drawn!Glyph, Drawn!NewLine
  <1>3. Len(text) \in Nat
    BY LenProperties
  <1> QED
    BY <1>1, <1>2, <1>3 DEF Measured, Glyphs

LEMMA LastOf ==
    ASSUME NEW P, NEW lines, Lined(P, lines)
    PROVE  /\ Len(lines) \in Nat /\ Len(lines) \in 1 .. Len(lines)
           /\ lines[Len(lines)] \in Seq(P) /\ Len(lines[Len(lines)]) \in Nat
           /\ \A k \in 1 .. Len(lines[Len(lines)]) : lines[Len(lines)][k] \in Drawn!Shown(lines)
           /\ \A k \in 1 .. Len(lines) : k \in 1 .. Len(lines) - 1 \/ k = Len(lines)
  <1> DEFINE n == Len(lines)
  <1>1. lines \in Seq(Seq(P)) /\ n >= 1
    BY Zenon DEF Lined
  <1>2. n \in Nat /\ \A x : x \in Drawn!Shown(lines) <=> Has(lines, x)
    BY <1>1, LinesAre, Zenon
  <1>3. n \in 1 .. n
    BY <1>1, <1>2
  <1>4. lines[n] \in Seq(P) /\ Len(lines[n]) \in Nat
    BY <1>1, <1>3, LinesAre, Zenon
  <1>5. \A k \in 1 .. Len(lines[n]) : Has(lines, lines[n][k])
    BY <1>3, Zenon DEF Has
  <1> QED
    BY <1>2, <1>3, <1>4, <1>5

LEMMA WrapCuts ==
    ASSUME NEW text \in Seq(Drawn!Glyph), NEW width \in Nat, NEW at \in Nat, NEW lines,
           Wrap("preview", text, width, at, lines, FALSE), NEW m, m \in 0 .. Len(lines[Len(lines)]),
           Wide(text, First(lines, m)) < width, NEW r, Shortened(r, lines, m)
    PROVE  Wrap("preview", text, width, Len(text) + 1, r, TRUE)
  <1> DEFINE P == 1 .. Len(text)
             n == Len(lines)
  <1>1. /\ Lined(P, lines) /\ n <= 3 /\ Narrow("preview", text, width, lines, FALSE)
        /\ Drawn!Shown(lines) \subseteq Glyphs(text)
        /\ \A x \in Glyphs(text) : x < at <=> x \in Drawn!Shown(lines)
    BY DEF Wrap, Reached
  <1> HIDE DEF P
  <1>2. /\ Lined(P, r) /\ EndsIn(r, lines, First(lines, m))
        /\ Drawn!Shown(r) \subseteq Drawn!Shown(lines)
        /\ \A x \in Drawn!Shown(r), y \in Drawn!Shown(lines) : y < x => y \in Drawn!Shown(r)
    BY <1>1, LineIsCut
  <1>3. /\ n \in Nat /\ n \in 1 .. n /\ First(lines, m) \in Seq(P)
        /\ \A k \in 1 .. n : k \in 1 .. n - 1 \/ k = n
        /\ \A k \in 1 .. n - 1 : k \in 1 .. n
    <2>1. n \in Nat /\ n \in 1 .. n /\ lines[n] \in Seq(P)
          /\ \A k \in 1 .. n : k \in 1 .. n - 1 \/ k = n
      BY <1>1, LastOf
    <2>2. First(lines, m) \in Seq(P)
      BY <2>1, FirstOf DEF First
    <2> QED
      BY <2>1, <2>2
  <1>4. Wide(text, First(lines, m)) + 1 <= width
    <2>1. Wide(text, First(lines, m)) \in Nat
      BY <1>3, GlyphsMeasured, LineWeighs DEF P
    <2> QED
      BY <2>1
  <1>5. Len(r) = n /\ r[n] = First(lines, m) /\ \A k \in 1 .. n - 1 : r[k] = lines[k]
    BY <1>2, Zenon DEF EndsIn
  <1>6. Narrow("preview", text, width, r, TRUE)
    <2> SUFFICES ASSUME NEW k \in 1 .. n
                 PROVE  Wide(text, r[k]) + (IF k = n THEN 1 ELSE 0) <= width
      BY <1>5 DEF Narrow
    <2>1. CASE k = n
      <3>1. Wide(text, r[k]) = Wide(text, First(lines, m))
        BY <1>5, <2>1, Zenon
      <3> QED
        BY <1>4, <2>1, <3>1
    <2>2. CASE k \in 1 .. n - 1
      <3>1. Wide(text, lines[k]) + 0 <= width
        BY <1>1, <1>3, <2>2 DEF Narrow
      <3>2. k # n
        BY <1>3, <2>2
      <3> QED
        BY <1>5, <2>2, <3>1, <3>2
    <2> QED
      BY <1>3, <2>1, <2>2
  <1>7. Reached("preview", text, Len(text) + 1, r, TRUE)
    <2>1. ASSUME NEW x \in Drawn!Shown(r), NEW y \in Glyphs(text), y < x
          PROVE  y \in Drawn!Shown(r)
      <3>1. x < at /\ x \in Glyphs(text)
        BY <1>1, <1>2
      <3>2. y < at
        <4>1. x \in Nat /\ y \in Nat
          BY <3>1, GlyphsMeasured
        <4> QED
          BY <2>1, <3>1, <4>1
      <3> QED
        BY <1>1, <1>2, <2>1, <3>2
    <2> QED
      BY <1>1, <1>2, <2>1 DEF Reached
  <1> QED
    BY <1>1, <1>2, <1>5, <1>6, <1>7 DEF Wrap, P

Begins(r, lines) == r = Append(lines, <<>>)
Fresh(r) == r[Len(r)] = <<>>
Another(kind, lines) == kind = "preview" => Len(lines) # 3

LEMMA WrapBreaks ==
    ASSUME NEW kind, NEW text \in Seq(Drawn!Glyph), NEW width \in Nat, NEW at, NEW lines,
           Wrap(kind, text, width, at, lines, FALSE), Another(kind, lines),
           NEW r, Begins(r, lines)
    PROVE  Wrap(kind, text, width, at, r, FALSE) /\ Fresh(r)
  <1> DEFINE P == 1 .. Len(text)
             n == Len(lines)
  <1>1. /\ Lined(P, lines) /\ (kind = "preview" => n <= 3)
        /\ Narrow(kind, text, width, lines, FALSE) /\ Reached(kind, text, at, lines, FALSE)
    BY DEF Wrap
  <1> HIDE DEF P
  <1>2. Lined(P, r) /\ OneMore(r, lines, <<>>) /\ Drawn!Shown(r) = Drawn!Shown(lines)
    BY <1>1, LineBegins DEF Begins
  <1>3. Len(r) = n + 1 /\ r[n + 1] = <<>> /\ \A k \in 1 .. n : r[k] = lines[k]
    BY <1>2, Zenon DEF OneMore
  <1>4. n \in Nat /\ \A k \in 1 .. n + 1 : k \in 1 .. n \/ k = n + 1
    <2>1. n \in Nat
      BY <1>1, LastOf
    <2> HIDE DEF n
    <2> QED
      BY <2>1
  <1>5. Narrow(kind, text, width, r, FALSE)
    <2> SUFFICES ASSUME NEW k \in 1 .. n + 1
                 PROVE  Wide(text, r[k]) + 0 <= width \/ (kind = "value" /\ Len(r[k]) = 1)
      BY <1>3 DEF Narrow
    <2>1. CASE k \in 1 .. n
      <3>1. Wide(text, lines[k]) + 0 <= width \/ (kind = "value" /\ Len(lines[k]) = 1)
        BY <1>1, <2>1 DEF Narrow
      <3> QED
        BY <1>3, <2>1, <3>1
    <2>2. CASE k = n + 1
      <3>1. Wide(text, r[k]) = 0
        BY <1>3, <2>2, WideOfNone, Zenon
      <3> QED
        BY <3>1
    <2> QED
      BY <1>4, <2>1, <2>2
  <1>6. Reached(kind, text, at, r, FALSE)
    BY <1>1, <1>2 DEF Reached
  <1>7. kind = "preview" => Len(r) <= 3
    <2> HIDE DEF n
    <2>1. kind = "preview" => n # 3 /\ n <= 3 /\ n \in Nat
      BY <1>1, <1>4 DEF Another, n
    <2> QED
      BY <1>3, <2>1
  <1> QED
    BY <1>2, <1>3, <1>5, <1>6, <1>7 DEF Wrap, P, Fresh

LEMMA WrapPuts ==
    ASSUME NEW kind, NEW text \in Seq(Drawn!Glyph), NEW width \in Nat, NEW at, NEW lines,
           Wrap(kind, text, width, at, lines, FALSE), at \in Glyphs(text),
           \/ Wide(text, lines[Len(lines)]) + text[at].width <= width
           \/ (kind = "value" /\ lines[Len(lines)] = <<>>),
           NEW r, Grown(r, lines, at)
    PROVE  Wrap(kind, text, width, at + 1, r, FALSE)
  <1> DEFINE P == 1 .. Len(text)
             n == Len(lines)
  <1>1. /\ Lined(P, lines) /\ (kind = "preview" => n <= 3)
        /\ Narrow(kind, text, width, lines, FALSE) /\ Drawn!Shown(lines) \subseteq Glyphs(text)
        /\ \A x \in Glyphs(text) : x < at <=> x \in Drawn!Shown(lines)
    BY DEF Wrap, Reached
  <1>2. /\ at \in P /\ at \in Nat /\ Measured(text) /\ \A x \in Glyphs(text) : x \in Nat
    <2>1. Measured(text) /\ \A i \in Glyphs(text) : i \in 1 .. Len(text)
      BY GlyphsMeasured
    <2> QED
      BY <2>1
  <1>3. Beyond(at, lines)
    BY <1>1 DEF Beyond
  <1> HIDE DEF P
  <1>4. Lined(P, r) /\ EndsIn(r, lines, With(lines, at)) /\ Shows(r, lines, at)
    BY <1>1, <1>2, <1>3, LineGrows, Zenon
  <1>5. Len(r) = n /\ r[n] = Append(lines[n], at) /\ \A k \in 1 .. n - 1 : r[k] = lines[k]
    BY <1>4, Zenon DEF EndsIn, With
  <1>6. /\ n \in Nat /\ lines[n] \in Seq(P) /\ \A k \in 1 .. n : k \in 1 .. n - 1 \/ k = n
        /\ \A k \in 1 .. n - 1 : k \in 1 .. n
    <2>1. n \in Nat /\ lines[n] \in Seq(P) /\ \A k \in 1 .. n : k \in 1 .. n - 1 \/ k = n
      BY <1>1, LastOf
    <2> QED
      BY <2>1
  <1>7. Narrow(kind, text, width, r, FALSE)
    <2> SUFFICES ASSUME NEW k \in 1 .. n
                 PROVE  Wide(text, r[k]) + 0 <= width \/ (kind = "value" /\ Len(r[k]) = 1)
      BY <1>5 DEF Narrow
    <2>1. CASE k \in 1 .. n - 1
      <3>1. Wide(text, lines[k]) + 0 <= width \/ (kind = "value" /\ Len(lines[k]) = 1)
        BY <1>1, <1>6, <2>1 DEF Narrow
      <3> QED
        BY <1>5, <2>1, <3>1
    <2>2. CASE k = n
      <3>1. CASE Wide(text, lines[n]) + text[at].width <= width
        <4>1. Wide(text, Append(lines[n], at)) = Wide(text, lines[n]) + text[at].width
          BY <1>2, <1>6, WideGrows DEF P
        <4>2. Wide(text, r[k]) = Wide(text, lines[n]) + text[at].width
          BY <1>5, <2>2, <4>1, Zenon
        <4>3. Wide(text, lines[n]) \in Nat /\ text[at].width \in Nat
          BY <1>2, <1>6, LineWeighs DEF P, Measured
        <4> QED
          BY <3>1, <4>2, <4>3
      <3>2. CASE kind = "value" /\ lines[n] = <<>>
        <4>1. Append(<<>>, at) = <<at>> /\ Len(<<at>>) = 1
          OBVIOUS
        <4>2. Len(r[k]) = 1
          BY <1>5, <2>2, <3>2, <4>1, Zenon
        <4> QED
          BY <3>2, <4>2
      <3> QED
        BY <3>1, <3>2
    <2> QED
      BY <1>6, <2>1, <2>2
  <1>8. Reached(kind, text, at + 1, r, FALSE)
    <2>1. Drawn!Shown(r) = Drawn!Shown(lines) \union {at}
      BY <1>4 DEF Shows
    <2>2. \A x \in Glyphs(text) : x < at + 1 <=> x < at \/ x = at
      BY <1>2
    <2> QED
      BY <1>1, <2>1, <2>2 DEF Reached
  <1> QED
    BY <1>1, <1>4, <1>5, <1>7, <1>8 DEF Wrap, P

LEMMA WrapSkips ==
    ASSUME NEW kind, NEW text \in Seq(Drawn!Glyph), NEW width \in Nat, NEW at \in Nat, NEW lines,
           Wrap(kind, text, width, at, lines, FALSE), text[at] = Drawn!NewLine
    PROVE  Wrap(kind, text, width, at + 1, lines, FALSE)
  <1>1. \A x \in Glyphs(text) : x \in Nat /\ x # at
    <2>1. \A i \in Glyphs(text) : i \in 1 .. Len(text)
      BY GlyphsMeasured
    <2> QED
      BY <2>1 DEF Glyphs
  <1>2. \A x \in Glyphs(text) : x < at + 1 <=> x < at
    BY <1>1
  <1> QED
    BY <1>2 DEF Wrap, Reached

-----------------------------------------------------------------------------
(* Cut, broken and filled *)

LEMMA WrappedFields ==
    ASSUME NEW s, Wrapped(s)
    PROVE  /\ s \in WrapRecord(s.text) /\ s.text \in Seq(Drawn!Glyph) /\ Len(s.text) \in Nat
           /\ s.kind \in {"preview", "value"} /\ s.width \in Nat /\ s.width >= 1
           /\ s.at \in Nat /\ s.at >= 1 /\ s.at <= Len(s.text) + 1
           /\ s.cut \in BOOLEAN /\ Measured(s.text)
           /\ Wrap(s.kind, s.text, s.width, s.at, s.lines, s.cut)
           /\ Lined(1 .. Len(s.text), s.lines) /\ s.lines \in Seq(Seq(1 .. Len(s.text)))
  <1>1. s \in WrapRecord(s.text) /\ Wrap(s.kind, s.text, s.width, s.at, s.lines, s.cut)
        /\ s.at \in 1 .. Len(s.text) + 1
    BY DEF Wrapped
  <1>2. /\ s.text \in Seq(Drawn!Glyph) /\ s.kind \in {"preview", "value"} /\ s.width \in Nat \ {0}
        /\ s.at \in Nat /\ s.cut \in BOOLEAN /\ s.lines \in Seq(Seq(1 .. Len(s.text)))
    BY <1>1, Zenon DEF WrapRecord
  <1>3. Len(s.text) \in Nat /\ Measured(s.text)
    BY <1>2, GlyphsMeasured
  <1>4. Lined(1 .. Len(s.text), s.lines)
    BY <1>1 DEF Wrap
  <1> QED
    BY <1>1, <1>2, <1>3, <1>4

(* What a step makes of a text keeps its room, and goes on where it was.   *)
Alike(s) ==
    /\ Wrapped(s) /\ s.text = drawn.text /\ s.width = drawn.width /\ s.kind = drawn.kind
    /\ s.cut \/ s.at = drawn.at

LEMMA CutKeeps ==
    ASSUME NEW s, Alike(s), drawn.kind = "preview", ~s.cut
    PROVE  Alike(Drawn!Cut(s)) /\ Drawn!Cut(s).cut
  <1> DEFINE text == drawn.text
             lines == s.lines
             n == Len(lines)
             line == lines[n]
             kept == {k \in 0 .. Len(line) : Drawn!WidthOf(SubSeq(line, 1, k)) < drawn.width}
             m == Drawn!Max(kept)
             r == [lines EXCEPT ![n] = SubSeq(line, 1, m)]
             P == 1 .. Len(text)
  <1>1. /\ s.text = text /\ s.kind = "preview" /\ s.width = drawn.width /\ s.cut = FALSE
        /\ s \in WrapRecord(text) /\ text \in Seq(Drawn!Glyph) /\ Len(text) \in Nat
        /\ drawn.width \in Nat /\ drawn.width >= 1 /\ s.at \in Nat /\ Measured(text)
        /\ Wrap("preview", text, drawn.width, s.at, lines, FALSE) /\ Lined(P, lines)
    BY WrappedFields DEF Alike
  <1> HIDE DEF text, lines
  <1>2. n \in Nat /\ n \in 1 .. n /\ line \in Seq(P) /\ Len(line) \in Nat
    BY <1>1, LastOf
  <1>3. \A k \in 0 .. Len(line) : SubSeq(line, 1, k) \in Seq(P)
    BY <1>2, FirstOf
  <1>4. \A k \in 0 .. Len(line) : Drawn!WidthOf(SubSeq(line, 1, k)) = Wide(text, First(lines, k))
    BY <1>1, <1>3, WidthIs DEF First, text
  <1>5. 0 \in kept
    <2>1. SubSeq(line, 1, 0) = <<>>
      BY <1>2, EmptySeq
    <2>2. 0 \in 0 .. Len(line) /\ First(lines, 0) = <<>>
      BY <1>2, <2>1 DEF First
    <2>3. Drawn!WidthOf(SubSeq(line, 1, 0)) = 0
      BY <1>4, <2>2, WideOfNone, Zenon
    <2> QED
      BY <1>1, <2>2, <2>3
  <1>6. m \in kept
    <2>1. kept \in SUBSET Nat /\ kept # {} /\ \A x \in kept : x <= Len(line)
      BY <1>2, <1>5
    <2> HIDE DEF kept, line
    <2> QED
      BY <1>2, <2>1, DrawnGreatest
  <1>7. m \in 0 .. Len(line) /\ Wide(text, First(lines, m)) < drawn.width
    BY <1>4, <1>6
  <1>8. Shortened(r, lines, m)
    BY DEF Shortened, First
  <1> DEFINE c == [s EXCEPT !.cut = TRUE, !.at = Len(text) + 1, !.lines = r]
  <1>9. Drawn!Cut(s) = c
    <2>1. Drawn!Cut(s) = [s EXCEPT !.cut = TRUE, !.at = Len(drawn.text) + 1,
                                  !.lines[Len(s.lines)] = SubSeq(line, 1, m)]
      BY Zenon DEF Drawn!Cut, Drawn!LastLine, lines
    <2> DEFINE e == SubSeq(line, 1, m)
               after == Len(text) + 1
    <2>2. Drawn!Cut(s) = [s EXCEPT !.cut = TRUE, !.at = after, !.lines[n] = e]
      BY <2>1, Zenon DEF text, lines
    <2> HIDE DEF e, after
    <2>3. [s EXCEPT !.cut = TRUE, !.at = after, !.lines[n] = e]
            = [s EXCEPT !.cut = TRUE, !.at = after, !.lines = [lines EXCEPT ![n] = e]]
      BY <1>1 DEF WrapRecord, lines
    <2> QED
      BY <2>2, <2>3, Zenon DEF e, after
  <1> HIDE DEF line, kept, m, r
  <1>10. Wrap("preview", text, drawn.width, Len(text) + 1, r, TRUE)
    BY <1>1, <1>7, <1>8, WrapCuts, Zenon DEF line, n
  <1>11. r \in Seq(Seq(P))
    BY <1>10, Zenon DEF Wrap, Lined
  <1> DEFINE after == Len(text) + 1
  <1>12. after \in Nat /\ after \in 1 .. Len(text) + 1
    BY <1>1
  <1> HIDE DEF after
  <1>13. c \in WrapRecord(text)
    BY <1>1, <1>11, <1>12 DEF WrapRecord, after
  <1>14. /\ c.text = text /\ c.kind = "preview" /\ c.width = drawn.width /\ c.cut = TRUE
         /\ c.at = after /\ c.lines = r
    BY <1>1 DEF WrapRecord, after, lines
  <1> HIDE DEF c
  <1>15. Wrapped(c)
    BY <1>10, <1>12, <1>13, <1>14, Zenon DEF Wrapped, after
  <1> QED
    BY <1>9, <1>14, <1>15, Zenon DEF Alike, text

LEMMA BreakKeeps ==
    ASSUME NEW s, Alike(s), ~s.cut
    PROVE  /\ Alike(Drawn!Broken(s))
           /\ Drawn!Broken(s).cut \/ Drawn!LastLine(Drawn!Broken(s)) = <<>>
  <1> DEFINE text == drawn.text
             lines == s.lines
             r == Append(lines, <<>>)
             c == [s EXCEPT !.lines = r]
  <1>1. /\ s.text = text /\ s.kind = drawn.kind /\ s.width = drawn.width /\ s.cut = FALSE
        /\ s \in WrapRecord(text) /\ text \in Seq(Drawn!Glyph) /\ s.at \in 1 .. Len(text) + 1
        /\ drawn.width \in Nat /\ Wrap(drawn.kind, text, drawn.width, s.at, lines, FALSE)
        /\ s.at = drawn.at
    BY WrappedFields DEF Alike, Wrapped
  <1>2. CASE drawn.kind = "preview" /\ Len(s.lines) = 3
    <2>1. Drawn!Broken(s) = Drawn!Cut(s)
      BY <1>2, Zenon DEF Drawn!Broken, Drawn!Is
    <2> QED
      BY <1>2, <2>1, CutKeeps, Zenon
  <1>3. CASE ~(drawn.kind = "preview" /\ Len(s.lines) = 3)
    <2>1. Drawn!Broken(s) = c
      <3>1. Drawn!Broken(s) = [s EXCEPT !.lines = Append(@, <<>>)]
        BY <1>3 DEF Drawn!Broken, Drawn!Is
      <3> QED
        BY <1>1, <3>1 DEF WrapRecord
    <2>2. Another(drawn.kind, lines)
      BY <1>3 DEF Another
    <2> HIDE DEF text, lines
    <2>3. Wrap(drawn.kind, text, drawn.width, s.at, r, FALSE) /\ Fresh(r)
      <3> HIDE DEF r
      <3>1. Begins(r, lines)
        BY DEF r, Begins
      <3> QED
        BY <1>1, <2>2, <3>1, WrapBreaks, Zenon
    <2> HIDE DEF r
    <2>4. r \in Seq(Seq(1 .. Len(text)))
      BY <2>3, Zenon DEF Wrap, Lined
    <2>5. c \in WrapRecord(text)
      BY <1>1, <2>4 DEF WrapRecord
    <2>6. /\ c.text = text /\ c.kind = drawn.kind /\ c.width = drawn.width /\ c.cut = FALSE
          /\ c.at = s.at /\ c.lines = r
      BY <1>1 DEF WrapRecord
    <2> HIDE DEF c
    <2>7. Wrapped(c)
      BY <1>1, <2>3, <2>5, <2>6, Zenon DEF Wrapped
    <2>8. Drawn!LastLine(c) = <<>>
      BY <2>3, <2>6, Zenon DEF Drawn!LastLine, Fresh
    <2> QED
      BY <1>1, <2>1, <2>6, <2>7, <2>8, Zenon DEF Alike, text
  <1> QED
    BY <1>2, <1>3

(* The last line has room for so much, or has nothing.                     *)
Roomy(s, width) ==
    s.cut \/ Drawn!LastLine(s) = <<>> \/ Wide(drawn.text, Drawn!LastLine(s)) + width <= drawn.width

LEMMA LastWeighs ==
    ASSUME NEW s, Alike(s)
    PROVE  /\ Drawn!LastLine(s) \in Seq(1 .. Len(drawn.text))
           /\ Drawn!Used(s) = Wide(drawn.text, Drawn!LastLine(s)) /\ Drawn!Used(s) \in Nat
           /\ Drawn!Used(s) = 0 => Drawn!LastLine(s) = <<>>
  <1> DEFINE P == 1 .. Len(drawn.text)
             line == Drawn!LastLine(s)
  <1>1. /\ Measured(drawn.text) /\ Lined(P, s.lines) /\ drawn.text \in Seq(Drawn!Glyph)
        /\ Wrap(s.kind, drawn.text, s.width, s.at, s.lines, s.cut)
    BY WrappedFields DEF Alike
  <1> HIDE DEF P
  <1>2. line \in Seq(P) /\ \A k \in 1 .. Len(line) : line[k] \in Drawn!Shown(s.lines)
    BY <1>1, LastOf, Zenon DEF Drawn!LastLine
  <1>3. Drawn!Shown(s.lines) \subseteq Glyphs(drawn.text)
    BY <1>1 DEF Wrap, Reached
  <1>4. \A k \in 1 .. Len(line) : drawn.text[line[k]].width > 0
    BY <1>1, <1>2, <1>3, GlyphsMeasured
  <1> HIDE DEF line
  <1>5. Drawn!WidthOf(line) = Wide(drawn.text, line) /\ Wide(drawn.text, line) \in Nat
    BY <1>1, <1>2, WidthIs, LineWeighs DEF P
  <1>6. Wide(drawn.text, line) = 0 => line = <<>>
    BY <1>1, <1>2, <1>4, WideHolds DEF P
  <1>7. Drawn!Used(s) = Drawn!WidthOf(line)
    BY DEF Drawn!Used, line
  <1> QED
    BY <1>2, <1>5, <1>6, <1>7 DEF P, line

LEMMA FitKeeps ==
    ASSUME NEW s, Alike(s), NEW width
    PROVE  Alike(Drawn!Fitted(s, width)) /\ (width \in Nat => Roomy(Drawn!Fitted(s, width), width))
  <1> DEFINE f == Drawn!Fitted(s, width)
             full == ~s.cut /\ Drawn!Used(s) > 0 /\ Drawn!Used(s) + width > drawn.width
  <1>1. CASE full
    <2>1. f = Drawn!Broken(s)
      BY <1>1 DEF Drawn!Fitted
    <2>2. Alike(Drawn!Broken(s)) /\ (Drawn!Broken(s).cut \/ Drawn!LastLine(Drawn!Broken(s)) = <<>>)
      BY <1>1, BreakKeeps
    <2> QED
      BY <2>1, <2>2 DEF Roomy
  <1>2. CASE ~full
    <2>1. f = s
      BY <1>2, Zenon DEF Drawn!Fitted
    <2>2. ASSUME width \in Nat PROVE Roomy(s, width)
      <3>1. /\ Drawn!Used(s) = Wide(drawn.text, Drawn!LastLine(s)) /\ Drawn!Used(s) \in Nat
            /\ Drawn!Used(s) = 0 => Drawn!LastLine(s) = <<>>
        BY LastWeighs
      <3>2. drawn.width \in Nat
        BY WrappedFields DEF Alike
      <3>3. CASE ~s.cut /\ Drawn!Used(s) > 0
        <4>1. ~(Drawn!Used(s) + width > drawn.width)
          BY <1>2, <3>3
        <4>2. Drawn!Used(s) + width <= drawn.width
          BY <2>2, <3>1, <3>2, <4>1
        <4> QED
          BY <3>1, <4>2 DEF Roomy
      <3>4. CASE s.cut
        BY <3>4 DEF Roomy
      <3>5. CASE Drawn!Used(s) = 0
        BY <3>1, <3>5 DEF Roomy
      <3>6. Drawn!Used(s) > 0 \/ Drawn!Used(s) = 0
        BY <3>1
      <3> QED
        BY <3>3, <3>4, <3>5, <3>6
    <2> QED
      BY <2>1, <2>2, Zenon DEF Alike
  <1> QED
    BY <1>1, <1>2

LEMMA PutKeeps ==
    ASSUME NEW s, Alike(s), drawn.at \in Glyphs(drawn.text),
           \/ Roomy(s, drawn.text[drawn.at].width)
           \/ (drawn.kind = "value" /\ Drawn!LastLine(s) = <<>>),
           drawn.kind = "preview" => drawn.text[drawn.at].width <= drawn.width
    PROVE  Wrapped(Drawn!Put(s))
  <1> DEFINE text == drawn.text
             lines == s.lines
             n == Len(lines)
             at == drawn.at
             r == [lines EXCEPT ![n] = Append(lines[n], at)]
             after == at + 1
             c == [s EXCEPT !.at = after, !.lines = r]
  <1>1. /\ s.text = text /\ s.kind = drawn.kind /\ s.width = drawn.width /\ s.cut \in BOOLEAN
        /\ s \in WrapRecord(text) /\ text \in Seq(Drawn!Glyph) /\ Len(text) \in Nat
        /\ drawn.width \in Nat /\ Wrap(drawn.kind, text, drawn.width, s.at, lines, s.cut)
        /\ (s.cut \/ s.at = at) /\ drawn.kind \in {"preview", "value"}
        /\ Measured(text)
    BY WrappedFields DEF Alike
  <1>2. CASE s.cut
    <2>1. Drawn!Put(s) = s
      BY <1>2, Zenon DEF Drawn!Put
    <2> QED
      BY <2>1, Zenon DEF Alike
  <1>3. CASE ~s.cut
    <2>1. s.at = at /\ s.cut = FALSE
      BY <1>1, <1>3
    <2>2. Drawn!Put(s) = c
      <3>1. Drawn!Put(s) = [s EXCEPT !.at = @ + 1, !.lines[Len(s.lines)] = Append(@, drawn.at)]
        BY <1>3, Zenon DEF Drawn!Put
      <3>2. Drawn!Put(s) = [s EXCEPT !.at = after, !.lines[n] = Append(lines[n], at)]
        BY <1>1, <2>1, <3>1 DEF WrapRecord
      <3> DEFINE e == Append(lines[n], at)
      <3> HIDE DEF e, after
      <3>3. [s EXCEPT !.at = after, !.lines[n] = e]
              = [s EXCEPT !.at = after, !.lines = [lines EXCEPT ![n] = e]]
        BY <1>1 DEF WrapRecord
      <3> QED
        BY <3>2, <3>3, Zenon DEF e
    <2>3. at \in 1 .. Len(text) /\ after \in 1 .. Len(text) + 1 /\ after \in Nat
      <3>1. at \in 1 .. Len(text)
        BY DEF Glyphs
      <3> QED
        BY <1>1, <3>1
    <2>4. Grown(r, lines, at)
      BY DEF Grown, With
    <2>5. \/ Wide(text, lines[n]) + text[at].width <= drawn.width
          \/ (drawn.kind = "value" /\ lines[n] = <<>>)
      <3>1. Drawn!LastLine(s) = lines[n]
        BY DEF Drawn!LastLine
      <3>2. CASE lines[n] = <<>>
        <4>1. Wide(text, lines[n]) = 0
          BY <3>2, WideOfNone, Zenon
        <4>2. text[at].width \in Nat
          BY <1>1, <2>3 DEF Measured
        <4> QED
          BY <1>1, <3>2, <4>1, <4>2
      <3>3. CASE lines[n] # <<>>
        BY <1>3, <3>1, <3>3 DEF Roomy
      <3> QED
        BY <3>2, <3>3
    <2> HIDE DEF text, lines, n, at, r, after
    <2>6. Wrap(drawn.kind, text, drawn.width, at + 1, r, FALSE)
      <3>1. at \in Glyphs(text)
        BY DEF at, text
      <3> QED
        BY <1>1, <2>1, <2>4, <2>5, <3>1, WrapPuts, Zenon DEF n
    <2>7. r \in Seq(Seq(1 .. Len(text)))
      BY <2>6, Zenon DEF Wrap, Lined
    <2>8. c \in WrapRecord(text)
      BY <1>1, <2>3, <2>7 DEF WrapRecord
    <2>9. /\ c.text = text /\ c.kind = drawn.kind /\ c.width = drawn.width /\ c.cut = FALSE
          /\ c.at = after /\ c.lines = r
      BY <1>1, <2>1 DEF WrapRecord
    <2> HIDE DEF c
    <2>10. Wrapped(c)
      BY <2>3, <2>6, <2>8, <2>9, Zenon DEF Wrapped, after
    <2> QED
      BY <2>2, <2>10, Zenon
  <1> QED
    BY <1>2, <1>3

LEMMA WrapGoesOn ==
    ASSUME Wrapped(drawn), Drawn!Wrapping
    PROVE  /\ Alike(drawn) /\ ~drawn.cut /\ drawn.at \in 1 .. Len(drawn.text)
           /\ drawn.text[drawn.at] \in Drawn!Glyph
  <1>1. /\ drawn.text \in Seq(Drawn!Glyph) /\ Len(drawn.text) \in Nat /\ drawn.cut \in BOOLEAN
        /\ drawn.at \in Nat /\ drawn.at >= 1 /\ drawn.at <= Len(drawn.text)
        /\ Wrap(drawn.kind, drawn.text, drawn.width, drawn.at, drawn.lines, drawn.cut)
    BY WrappedFields DEF Drawn!Wrapping
  <1>2. ASSUME drawn.cut PROVE FALSE
    <2>1. drawn.at = Len(drawn.text) + 1
      BY <1>1, <1>2 DEF Wrap, Reached
    <2> QED
      BY <1>1, <2>1
  <1>3. drawn.at \in 1 .. Len(drawn.text)
    BY <1>1
  <1> QED
    BY <1>1, <1>2, <1>3, ElementOfSeq DEF Alike

LEMMA BreakLineKeeps ==
    ASSUME Wrapped(drawn), Drawn!BreakLine
    PROVE  Wrapped(drawn')
  <1> DEFINE b == Drawn!Broken(drawn)
             text == drawn.text
             after == drawn.at + 1
             c == [b EXCEPT !.at = after]
  <1>1. Alike(drawn) /\ ~drawn.cut /\ drawn.at \in 1 .. Len(text) /\ text[drawn.at] = Drawn!NewLine
    BY WrapGoesOn DEF Drawn!BreakLine
  <1>2. Alike(b)
    BY <1>1, BreakKeeps
  <1>3. drawn' = IF b.cut THEN b ELSE [b EXCEPT !.at = @ + 1]
    BY Zenon DEF Drawn!BreakLine
  <1> HIDE DEF b
  <1>4. /\ b.text = text /\ b.kind = drawn.kind /\ b.width = drawn.width /\ b.cut \in BOOLEAN
        /\ b \in WrapRecord(text) /\ text \in Seq(Drawn!Glyph) /\ Len(text) \in Nat
        /\ drawn.width \in Nat /\ Wrap(drawn.kind, text, drawn.width, b.at, b.lines, b.cut)
        /\ (b.cut \/ b.at = drawn.at) /\ drawn.at \in Nat
    BY <1>1, <1>2, WrappedFields DEF Alike
  <1>5. CASE b.cut
    BY <1>2, <1>3, <1>5, Zenon DEF Alike
  <1>6. CASE ~b.cut
    <2>1. b.at = drawn.at /\ b.cut = FALSE
      BY <1>4, <1>6
    <2>2. drawn' = c
      BY <1>3, <1>4, <1>6, <2>1 DEF WrapRecord
    <2>3. after \in Nat /\ after \in 1 .. Len(text) + 1
      BY <1>1, <1>4
    <2>4. Wrap(drawn.kind, text, drawn.width, after, b.lines, FALSE)
      <3>1. Wrap(drawn.kind, text, drawn.width, drawn.at, b.lines, FALSE)
        BY <1>4, <2>1
      <3> HIDE DEF text
      <3> QED
        BY <1>1, <1>4, <3>1, WrapSkips, Zenon
    <2> HIDE DEF after, text
    <2>5. c \in WrapRecord(text)
      BY <1>4, <2>3 DEF WrapRecord
    <2>6. /\ c.text = text /\ c.kind = drawn.kind /\ c.width = drawn.width /\ c.cut = FALSE
          /\ c.at = after /\ c.lines = b.lines
      BY <1>4, <2>1 DEF WrapRecord
    <2> HIDE DEF c
    <2> QED
      BY <2>2, <2>3, <2>4, <2>5, <2>6, Zenon DEF Wrapped
  <1> QED
    BY <1>5, <1>6

LEMMA PutGlyphKeeps ==
    ASSUME Wrapped(drawn), Drawn!PutGlyph
    PROVE  Wrapped(drawn')
  <1> DEFINE glyph == drawn.text[drawn.at]
             line == IF glyph.word THEN Drawn!Fitted(drawn, Drawn!WordWidth(drawn.at)) ELSE drawn
             wide == drawn.kind = "preview" /\ glyph.width > drawn.width /\ ~line.cut
  <1>1. Alike(drawn) /\ ~drawn.cut /\ drawn.at \in 1 .. Len(drawn.text) /\ glyph # Drawn!NewLine
        /\ glyph \in Drawn!Glyph
    BY WrapGoesOn DEF Drawn!PutGlyph
  <1>2. drawn' = IF wide THEN Drawn!Cut(line) ELSE Drawn!Put(Drawn!Fitted(line, glyph.width))
    BY Zenon DEF Drawn!PutGlyph, Drawn!Is
  <1>3. glyph.width \in Nat /\ drawn.width \in Nat
    <2>1. drawn.width \in Nat /\ Measured(drawn.text)
      BY WrappedFields
    <2> QED
      BY <1>1, <2>1 DEF Measured
  <1>4. Alike(line)
    BY <1>1, FitKeeps, Zenon
  <1> HIDE DEF line
  <1>5. CASE wide
    <2>1. drawn' = Drawn!Cut(line)
      BY <1>2, <1>5
    <2> QED
      BY <1>4, <1>5, <2>1, CutKeeps, Zenon DEF Alike
  <1>6. CASE ~wide
    <2> DEFINE f == Drawn!Fitted(line, glyph.width)
    <2>1. drawn' = Drawn!Put(f)
      BY <1>2, <1>6, Zenon
    <2>2. Alike(f) /\ Roomy(f, glyph.width)
      BY <1>3, <1>4, FitKeeps
    <2>3. CASE line.cut
      <3>1. f = line
        BY <2>3, Zenon DEF Drawn!Fitted
      <3>2. Drawn!Put(line) = line
        BY <2>3, Zenon DEF Drawn!Put
      <3> QED
        BY <1>4, <2>1, <3>1, <3>2, Zenon DEF Alike
    <2>4. CASE ~line.cut
      <3>1. drawn.kind = "preview" => glyph.width <= drawn.width
        BY <1>3, <1>6, <2>4
      <3>2. drawn.at \in Glyphs(drawn.text)
        BY <1>1 DEF Glyphs
      <3> HIDE DEF f
      <3>3. Wrapped(Drawn!Put(f))
        BY <2>2, <3>1, <3>2, PutKeeps, Zenon
      <3> QED
        BY <2>1, <3>3, Zenon
    <2> QED
      BY <2>3, <2>4
  <1> QED
    BY <1>5, <1>6

LEMMA WrappedFit ==
    ASSUME Wrapped(drawn)
    PROVE  Drawn!LinesFit
  <1> DEFINE text == drawn.text
             lines == drawn.lines
             P == 1 .. Len(text)
             n == Len(lines)
             shown == Drawn!Shown(lines)
             glyphs == {i \in DOMAIN text : text[i] # Drawn!NewLine}
  <1>1. /\ text \in Seq(Drawn!Glyph) /\ Len(text) \in Nat /\ drawn.cut \in BOOLEAN
        /\ drawn.kind \in {"preview", "value"} /\ drawn.at \in Nat /\ drawn.at <= Len(text) + 1
        /\ Measured(text) /\ Lined(P, lines) /\ lines \in Seq(Seq(P)) /\ drawn.width \in Nat
        /\ Wrap(drawn.kind, text, drawn.width, drawn.at, lines, drawn.cut)
    BY WrappedFields
  <1>2. DOMAIN lines = 1 .. n /\ DOMAIN text = P /\ \A k \in 1 .. n : lines[k] \in Seq(P)
    BY <1>1, LenProperties, ElementOfSeq
  <1>3. \A k \in 1 .. n : Drawn!WidthOf(lines[k]) = Wide(text, lines[k])
    BY <1>1, <1>2, WidthIs
  <1>4. Drawn!Rising(lines)
    <2>1. Drawn!Rising(lines) <=> Rises(lines)
      BY <1>1, LinesAre
    <2> QED
      BY <1>1, <2>1 DEF Lined
  <1>5. glyphs = Glyphs(text)
    BY <1>2 DEF Glyphs
  <1>6. /\ drawn.kind = "preview" => n <= 3
        /\ Narrow(drawn.kind, text, drawn.width, lines, drawn.cut)
        /\ Reached(drawn.kind, text, drawn.at, lines, drawn.cut)
    BY <1>1 DEF Wrap
  <1>7. \A i \in Glyphs(text) : i \in Nat /\ i <= Len(text)
    <2>1. \A i \in Glyphs(text) : i \in 1 .. Len(text)
      BY <1>1, GlyphsMeasured
    <2> QED
      BY <1>1, <2>1
  <1> HIDE DEF text, lines, P, n, glyphs, shown
  <1>8. shown \subseteq Glyphs(text)
    BY <1>6 DEF Reached, shown
  <1>9. \A i \in shown, j \in Glyphs(text) : j < i => j \in shown
    <2>1. CASE drawn.cut
      BY <1>6, <2>1 DEF Reached, shown
    <2>2. CASE ~drawn.cut
      <3>1. \A x \in Glyphs(text) : x < drawn.at <=> x \in shown
        BY <1>6, <2>2 DEF Reached, shown
      <3> QED
        BY <1>1, <1>7, <1>8, <3>1
    <2> QED
      BY <2>1, <2>2
  <1>10. ~Drawn!Wrapping /\ ~drawn.cut => shown = Glyphs(text)
    <2> SUFFICES ASSUME ~Drawn!Wrapping, ~drawn.cut PROVE Glyphs(text) \subseteq shown
      BY <1>8
    <2>1. \A x \in Glyphs(text) : x < drawn.at <=> x \in shown
      BY <1>6 DEF Reached, shown
    <2>2. drawn.at > Len(text)
      BY <1>1 DEF Drawn!Wrapping, text
    <2> QED
      BY <1>1, <1>7, <2>1, <2>2
  <1>11. \A k \in 1 .. n :
            \/ Drawn!WidthOf(lines[k]) + (IF drawn.cut /\ k = n THEN 1 ELSE 0) <= drawn.width
            \/ (drawn.kind = "value" /\ Len(lines[k]) = 1)
    BY <1>3, <1>6, Zenon DEF Narrow, n
  <1> QED
    <2> DEFINE mark(k) == IF drawn.cut /\ k = Len(drawn.lines) THEN 1 ELSE 0
    <2>1. \A k \in DOMAIN drawn.lines :
            \/ Drawn!WidthOf(drawn.lines[k]) + mark(k) <= drawn.width
            \/ (Drawn!Is("value") /\ Len(drawn.lines[k]) = 1)
      BY <1>2, <1>11, Zenon DEF lines, n, Drawn!Is
    <2>2. Drawn!Is("preview") => Len(drawn.lines) <= 3
      BY <1>6, Zenon DEF lines, n, Drawn!Is
    <2> HIDE DEF mark
    <2>3. /\ Drawn!Rising(drawn.lines) /\ shown \subseteq glyphs
          /\ \A i \in shown, j \in glyphs : j < i => j \in shown
          /\ ~Drawn!Wrapping /\ ~drawn.cut => shown = glyphs
      BY <1>4, <1>5, <1>8, <1>9, <1>10, Zenon DEF lines
    <2> QED
      BY <2>1, <2>2, <2>3, Zenon DEF Drawn!LinesFit, mark, shown, glyphs, text, lines

-----------------------------------------------------------------------------
(* What is drawn *)

DrawKept ==
    \/ Allotted(drawn) \/ Wrapped(drawn) \/ Chunked(drawn) \/ Previewed(drawn)
    \/ (Paged(drawn) /\ Drawn!RowsSeen) \/ Scrolled(drawn)

LEMMA KindsOf ==
    ASSUME NEW s
    PROVE  /\ Allotted(s) => s.kind = "widths"
           /\ Wrapped(s) => s.kind \in {"preview", "value"}
           /\ Chunked(s) => s.kind = "chunks"
           /\ Previewed(s) => s.kind = "previews"
           /\ Paged(s) => s.kind = "rows"
           /\ Scrolled(s) => s.kind = "scroll"
  BY DEF Allotted, Columnar, Wrapped, WrapRecord, Chunked, ChunkRecord, Previewed, Paged, Scrolled

LEMMA DrawnText ==
    ASSUME NEW text \in Drawn!Texts
    PROVE  text \in Seq(Drawn!Glyph) /\ Len(text) \in Nat /\ Measured(text)
  <1>1. PICK n \in 0 .. MaxGraphemes : text \in [1 .. n -> Drawn!Glyph]
    BY DEF Drawn!Texts
  <1>2. n \in Nat
    BY <1>1, LayoutAssumption
  <1>3. text \in Seq(Drawn!Glyph)
    BY <1>1, <1>2, SeqDef
  <1> QED
    BY <1>3, GlyphsMeasured

(* Before the first grapheme there is one line, which has nothing.         *)
LEMMA FirstLine ==
    ASSUME NEW text, NEW lines, lines = <<<<>>>>
    PROVE  /\ Lined(1 .. Len(text), lines) /\ Drawn!Shown(lines) = {}
           /\ Len(lines) = 1 /\ lines[1] = <<>>
  <1> DEFINE P == 1 .. Len(text)
             none == <<>>
  <1>1. none \in Seq(P) /\ Len(none) = 0
    OBVIOUS
  <1>2. lines = <<none>>
    OBVIOUS
  <1>3. P \in SUBSET Nat
    OBVIOUS
  <1> HIDE DEF none, P
  <1>4. lines \in Seq(Seq(P)) /\ Len(lines) = 1 /\ lines[1] = none
    <2> DEFINE Q == Seq(P)
    <2> HIDE DEF Q
    <2>1. none \in Q
      BY <1>1 DEF Q
    <2>2. <<none>> \in Seq(Q) /\ Len(<<none>>) = 1 /\ <<none>>[1] = none
      BY <2>1
    <2> QED
      BY <1>2, <2>2 DEF Q
  <1>5. \A k \in 1 .. Len(lines) : \A i \in 1 .. Len(lines[k]) : FALSE
    <2>1. \A k \in 1 .. Len(lines) : k = 1
      BY <1>4
    <2>2. \A i \in 1 .. 0 : FALSE
      OBVIOUS
    <2> QED
      BY <1>1, <1>4, <2>1, <2>2
  <1>6. Drawn!Shown(lines) = {}
    <2>1. \A x : x \in Drawn!Shown(lines) <=> Has(lines, x)
      BY <1>4, LinesAre, Zenon
    <2>2. \A x : ~Has(lines, x)
      BY <1>5, Zenon DEF Has
    <2> QED
      BY <2>1, <2>2
  <1>7. Rises(lines)
    BY <1>5, Zenon DEF Rises
  <1>8. Len(lines) >= 1
    BY <1>4
  <1> QED
    BY <1>3, <1>4, <1>6, <1>7, <1>8 DEF Lined, P, none

LEMMA WidthsStart ==
    ASSUME NEW available \in 0 .. MaxWidth, NEW needs \in [1 .. Columns -> 0 .. MaxWidth],
           NEW s, s = [kind |-> "widths", needs |-> needs, waiting |-> 1 .. Columns,
                       widths |-> [c \in 1 .. Columns |-> 0], available |-> available,
                       remaining |-> available]
    PROVE  Allotted(s)
  <1> DEFINE C == 1 .. Columns
             zero == [c \in C |-> 0]
  <1>1. /\ s.kind = "widths" /\ s.needs = needs /\ s.waiting = C /\ s.widths = zero
        /\ s.available = available /\ s.remaining = available
    OBVIOUS
  <1>2. available \in Nat /\ needs \in [C -> Nat] /\ zero \in [C -> Nat]
    BY LayoutAssumption
  <1>3. Columnar(s)
    BY <1>2 DEF Columnar
  <1>4. Total(zero, C) = 0
    <2>1. Units(zero, C) = {}
      BY DEF Units
    <2> QED
      BY <2>1, FS_EmptySet DEF Total
  <1>5. Served(s) = {}
    BY <1>1 DEF Served
  <1>6. \A c \in C : zero[c] = 0
    OBVIOUS
  <1> HIDE DEF C, zero
  <1>7. Total(s.widths, C) + s.remaining = s.available
    <2>1. Total(s.widths, C) = 0
      BY <1>1, <1>4, Zenon
    <2>2. s.remaining = available /\ s.available = available
      BY <1>1
    <2> QED
      BY <1>2, <2>1, <2>2
  <1> QED
    BY <1>1, <1>3, <1>5, <1>6, <1>7 DEF Allotted, C

LEMMA WrapStart ==
    ASSUME NEW kind \in {"preview", "value"}, NEW text \in Drawn!Texts,
           NEW width \in 1 .. LineWidth,
           NEW s, s = [kind |-> kind, text |-> text, width |-> width, at |-> 1,
                       lines |-> <<<<>>>>, cut |-> FALSE]
    PROVE  Wrapped(s)
  <1> DEFINE lines == <<<<>>>>
  <1>1. /\ s.kind = kind /\ s.text = text /\ s.width = width /\ s.at = 1 /\ s.cut = FALSE
        /\ s.lines = lines
        /\ s = [kind |-> kind, text |-> text, width |-> width, at |-> 1,
                lines |-> lines, cut |-> FALSE]
    OBVIOUS
  <1>2. /\ Lined(1 .. Len(text), lines) /\ Drawn!Shown(lines) = {}
        /\ Len(lines) = 1 /\ lines[1] = <<>>
    BY FirstLine
  <1> HIDE DEF lines
  <1>3. width \in Nat \ {0} /\ text \in Seq(Drawn!Glyph) /\ Len(text) \in Nat
    BY LayoutAssumption, DrawnText
  <1>4. lines \in Seq(Seq(1 .. Len(text)))
    BY <1>2, Zenon DEF Lined
  <1>5. s \in WrapRecord(text) /\ 1 \in 1 .. Len(text) + 1
    BY <1>1, <1>3, <1>4 DEF WrapRecord
  <1>6. Narrow(kind, text, width, lines, FALSE)
    <2>1. Wide(text, lines[1]) = 0
      BY <1>2, WideOfNone, Zenon
    <2> SUFFICES ASSUME NEW k \in 1 .. 1
                 PROVE  Wide(text, lines[k]) + 0 <= width
      BY <1>2 DEF Narrow
    <2>2. k = 1
      OBVIOUS
    <2> QED
      BY <1>3, <2>1, <2>2
  <1>7. Reached(kind, text, 1, lines, FALSE)
    <2>1. \A x \in Glyphs(text) : x \in Nat /\ x >= 1
      <3>1. \A x \in Glyphs(text) : x \in 1 .. Len(text)
        BY <1>3, GlyphsMeasured
      <3> QED
        BY <1>3, <3>1
    <2>2. \A x \in Glyphs(text) : ~(x < 1)
      BY <2>1
    <2> QED
      BY <1>2, <2>2 DEF Reached
  <1>8. kind = "preview" => Len(lines) <= 3
    BY <1>2
  <1> QED
    BY <1>1, <1>2, <1>5, <1>6, <1>7, <1>8 DEF Wrapped, Wrap

LEMMA ChunkStart ==
    ASSUME NEW text \in Drawn!Texts, \A i \in DOMAIN text : text[i].width > 0 /\ text[i].word,
           NEW s, s = [kind |-> "chunks", text |-> text, at |-> 1, lines |-> <<<<>>>>, used |-> 0,
                       shown |-> 1]
    PROVE  Chunked(s)
  <1> DEFINE lines == <<<<>>>>
  <1>1. /\ s.kind = "chunks" /\ s.text = text /\ s.at = 1 /\ s.used = 0 /\ s.shown = 1
        /\ s.lines = lines
        /\ s = [kind |-> "chunks", text |-> text, at |-> 1, lines |-> lines, used |-> 0,
                shown |-> 1]
    OBVIOUS
  <1>2. /\ Lined(1 .. Len(text), lines) /\ Drawn!Shown(lines) = {}
        /\ Len(lines) = 1 /\ lines[1] = <<>>
    BY FirstLine
  <1> HIDE DEF lines
  <1>3. text \in Seq(Drawn!Glyph) /\ Len(text) \in Nat /\ Measured(text)
    BY DrawnText
  <1>4. lines \in Seq(Seq(1 .. Len(text))) /\ Rises(lines)
    BY <1>2, Zenon DEF Lined
  <1>5. s \in ChunkRecord(text)
    BY <1>1, <1>3, <1>4 DEF ChunkRecord
  <1>6. Wide(text, lines[1]) = 0
    BY <1>2, WideOfNone, Zenon
  <1>7. Chunky(text, lines)
    <2>1. Chunk \in Nat
      BY LayoutAssumption
    <2> SUFFICES ASSUME NEW k \in 1 .. 1 PROVE Wide(text, lines[k]) <= Chunk
      BY <1>2 DEF Chunky
    <2>2. k = 1
      OBVIOUS
    <2> QED
      BY <1>6, <2>1, <2>2
  <1>8. \A i \in 1 .. Len(text) : text[i].width > 0
    <2>1. DOMAIN text = 1 .. Len(text)
      BY <1>3, LenProperties
    <2> QED
      BY <2>1
  <1>9. Drawn!Shown(lines) = 1 .. s.at - 1 /\ s.shown \in 1 .. Len(lines)
    BY <1>1, <1>2
  <1> QED
    BY <1>1, <1>2, <1>3, <1>4, <1>5, <1>6, <1>7, <1>8, <1>9 DEF Chunked

LEMMA OtherStarts ==
    ASSUME NEW heights \in [1 .. TableRows -> 1 .. 2],
           NEW lines \in 0 .. TableRows, NEW room \in 1 .. Height + 1
    PROVE  /\ Previewed([kind |-> "previews", used |-> 0, held |-> 0, remaining |-> Budget,
                         limited |-> FALSE, missing |-> FALSE])
           /\ Paged([kind |-> "rows", heights |-> heights, selected |-> 1, seen |-> {}])
           /\ Scrolled(Drawn!DrawnFrom([kind |-> "scroll", lines |-> lines, room |-> room,
                                        scroll |-> 0, seen |-> {}]))
  <1>1. Budget \in Nat /\ TableRows \in Nat \ {0} /\ Height \in Nat
    BY LayoutAssumption
  <1>2. Previewed([kind |-> "previews", used |-> 0, held |-> 0, remaining |-> Budget,
                   limited |-> FALSE, missing |-> FALSE])
    BY <1>1 DEF Previewed
  <1>3. Paged([kind |-> "rows", heights |-> heights, selected |-> 1, seen |-> {}])
    <2>1. heights \in [1 .. TableRows -> Nat] /\ 1 \in 1 .. TableRows /\ {} \in SUBSET Int
      BY <1>1
    <2> QED
      BY <2>1 DEF Paged
  <1>4. Scrolled(Drawn!DrawnFrom([kind |-> "scroll", lines |-> lines, room |-> room,
                                  scroll |-> 0, seen |-> {}]))
    <2> DEFINE s == [kind |-> "scroll", lines |-> lines, room |-> room, scroll |-> 0, seen |-> {}]
    <2>1. lines \in Nat /\ room \in Nat \ {0} /\ {} \in SUBSET Int
      BY <1>1
    <2>2. /\ s \in [kind : {"scroll"}, lines : Nat, room : Nat \ {0}, scroll : Nat,
                     seen : SUBSET Int]
          /\ s.scroll = 0 /\ s.lines = lines /\ s.room = room
      BY <2>1
    <2> HIDE DEF s
    <2>3. Drawn!Begin(s) = 0
      BY <2>1, <2>2, BeginIs
    <2>4. \A i \in 1 .. s.lines : ~(i <= Drawn!Begin(s))
      BY <2>1, <2>2, <2>3
    <2>5. Scrolled(Drawn!DrawnFrom(s))
      BY <2>2, <2>4, DrawnFurther
    <2> QED
      BY <2>5, Zenon DEF s
  <1> QED
    BY <1>2, <1>3, <1>4, Zenon

LEMMA DrawStart == Drawn!Init => DrawKept
  <1> SUFFICES ASSUME Drawn!Init PROVE DrawKept
    OBVIOUS
  <1>1. ASSUME NEW available \in 0 .. MaxWidth, NEW needs \in [1 .. Columns -> 0 .. MaxWidth],
               drawn = [kind |-> "widths", needs |-> needs, waiting |-> 1 .. Columns,
                        widths |-> [c \in 1 .. Columns |-> 0], available |-> available,
                        remaining |-> available]
        PROVE  DrawKept
    BY <1>1, WidthsStart DEF DrawKept
  <1>2. ASSUME NEW kind \in {"preview", "value"}, NEW text \in Drawn!Texts,
               NEW width \in 1 .. LineWidth,
               drawn = [kind |-> kind, text |-> text, width |-> width, at |-> 1,
                        lines |-> <<<<>>>>, cut |-> FALSE]
        PROVE  DrawKept
    BY <1>2, WrapStart DEF DrawKept
  <1>3. ASSUME NEW text \in Drawn!Texts, \A i \in DOMAIN text : text[i].width > 0 /\ text[i].word,
               drawn = [kind |-> "chunks", text |-> text, at |-> 1, lines |-> <<<<>>>>, used |-> 0,
                        shown |-> 1]
        PROVE  DrawKept
    BY <1>3, ChunkStart DEF DrawKept
  <1>4. ASSUME drawn = [kind |-> "previews", used |-> 0, held |-> 0, remaining |-> Budget,
                        limited |-> FALSE, missing |-> FALSE]
        PROVE  DrawKept
    <2>1. PICK heights \in [1 .. TableRows -> 1 .. 2] : TRUE
      <3>1. [r \in 1 .. TableRows |-> 1] \in [1 .. TableRows -> 1 .. 2]
        OBVIOUS
      <3> QED
        BY <3>1
    <2>2. 0 \in 0 .. TableRows /\ 1 \in 1 .. Height + 1
      BY LayoutAssumption
    <2>3. Previewed(drawn)
      BY <1>4, <2>1, <2>2, OtherStarts
    <2> QED
      BY <2>3 DEF DrawKept
  <1>5. ASSUME NEW heights \in [1 .. TableRows -> 1 .. 2],
               drawn = [kind |-> "rows", heights |-> heights, selected |-> 1, seen |-> {}]
        PROVE  DrawKept
    <2>1. 0 \in 0 .. TableRows /\ 1 \in 1 .. Height + 1
      BY LayoutAssumption
    <2>2. Paged(drawn)
      BY <1>5, <2>1, OtherStarts
    <2>3. drawn.seen = {}
      BY <1>5
    <2> QED
      BY <2>2, <2>3, Zenon DEF DrawKept, Drawn!RowsSeen
  <1>6. ASSUME NEW lines \in 0 .. TableRows, NEW room \in 1 .. Height + 1,
               drawn = Drawn!DrawnFrom([kind |-> "scroll", lines |-> lines, room |-> room,
                                        scroll |-> 0, seen |-> {}])
        PROVE  DrawKept
    <2>1. PICK heights \in [1 .. TableRows -> 1 .. 2] : TRUE
      <3>1. [r \in 1 .. TableRows |-> 1] \in [1 .. TableRows -> 1 .. 2]
        OBVIOUS
      <3> QED
        BY <3>1
    <2>2. Scrolled(drawn)
      BY <1>6, <2>1, OtherStarts
    <2> QED
      BY <2>2 DEF DrawKept
  <1> QED
    BY <1>1, <1>2, <1>3, <1>4, <1>5, <1>6, Zenon DEF Drawn!Init

LEMMA DrawStays == ASSUME DrawKept, drawn' = drawn PROVE DrawKept'
  <1>1. Drawn!RowsSeen => Drawn!RowsSeen'
    BY DEF Drawn!RowsSeen, Drawn!Is, Drawn!Window, Drawn!LinesOf
  <1> QED
    BY <1>1 DEF DrawKept

LEMMA DrawStep == ASSUME DrawKept, Drawn!Next PROVE DrawKept'
  <1>1. CASE Drawn!Allot
    <2>1. Allotted(drawn)
      BY <1>1, KindsOf DEF DrawKept, Drawn!Allot, Drawn!Is
    <2> QED
      BY <1>1, <2>1, AllotKeeps DEF DrawKept
  <1>2. CASE Drawn!BreakLine
    <2>1. Wrapped(drawn)
      BY <1>2, KindsOf DEF DrawKept, Drawn!BreakLine, Drawn!Wrapping
    <2> QED
      BY <1>2, <2>1, BreakLineKeeps DEF DrawKept
  <1>3. CASE Drawn!PutGlyph
    <2>1. Wrapped(drawn)
      BY <1>3, KindsOf DEF DrawKept, Drawn!PutGlyph, Drawn!Wrapping
    <2> QED
      BY <1>3, <2>1, PutGlyphKeeps DEF DrawKept
  <1>4. CASE Drawn!Split
    <2>1. Chunked(drawn)
      BY <1>4, KindsOf DEF DrawKept, Drawn!Split, Drawn!Is
    <2> QED
      BY <1>4, <2>1, SplitKeeps DEF DrawKept
  <1>5. CASE Drawn!TurnChunk
    <2>1. Chunked(drawn)
      BY <1>5, KindsOf DEF DrawKept, Drawn!TurnChunk, Drawn!Is
    <2> QED
      BY <1>5, <2>1, TurnChunkKeeps DEF DrawKept
  <1>6. CASE Drawn!Preview
    <2>1. Previewed(drawn)
      BY <1>6, KindsOf DEF DrawKept, Drawn!Preview, Drawn!Is
    <2> QED
      BY <1>6, <2>1, PreviewKeeps DEF DrawKept
  <1>7. CASE Drawn!PageDown
    <2>1. Paged(drawn) /\ Drawn!RowsSeen
      BY <1>7, KindsOf DEF DrawKept, Drawn!PageDown, Drawn!Turn, Drawn!Is
    <2> QED
      BY <1>7, <2>1, PageDownKeeps DEF DrawKept
  <1>8. CASE Drawn!PageUp
    <2>1. Paged(drawn) /\ Drawn!RowsSeen
      BY <1>8, KindsOf DEF DrawKept, Drawn!PageUp, Drawn!Turn, Drawn!Is
    <2> QED
      BY <1>8, <2>1, PageUpKeeps DEF DrawKept
  <1>9. CASE Drawn!ScrollValue
    <2>1. Scrolled(drawn)
      BY <1>9, KindsOf DEF DrawKept, Drawn!ScrollValue, Drawn!Is
    <2> QED
      BY <1>9, <2>1, ScrollKeeps DEF DrawKept
  <1>10. CASE Drawn!Resize
    <2>1. Scrolled(drawn) /\ Height \in Nat
      BY <1>10, KindsOf, LayoutAssumption DEF DrawKept, Drawn!Resize, Drawn!Is
    <2> QED
      BY <1>10, <2>1, ResizeKeeps DEF DrawKept
  <1>11. CASE Drawn!Done
    <2>1. drawn' = drawn
      BY <1>11, Zenon DEF Drawn!Done
    <2> QED
      BY <2>1, DrawStays
  <1> QED
    BY <1>1, <1>2, <1>3, <1>4, <1>5, <1>6, <1>7, <1>8, <1>9, <1>10, <1>11, Zenon DEF Drawn!Next

LEMMA DrawIsKept == ASSUME DrawKept PROVE Drawn!ShownAsPromised
  <1>1. /\ Allotted(drawn) => Drawn!WidthsFair
        /\ Wrapped(drawn) => Drawn!LinesFit
        /\ Chunked(drawn) => Drawn!ChunksFit
        /\ Scrolled(drawn) => Drawn!ValueSeen
    BY AllottedFair, WrappedFit, ChunkedFit, ScrolledSeen
  <1>2. Previewed(drawn) => Drawn!PreviewsFit
    <2> SUFFICES ASSUME Previewed(drawn) PROVE drawn.held <= Budget /\ (drawn.missing => drawn.limited)
      BY DEF Drawn!PreviewsFit
    <2>1. drawn.held \in Nat /\ drawn.remaining \in Nat /\ drawn.held + drawn.remaining = Budget
          /\ (drawn.missing => drawn.limited)
      BY DEF Previewed
    <2> QED
      BY <2>1
  <1>3. /\ drawn.kind # "widths" => Drawn!WidthsFair
        /\ drawn.kind \notin {"preview", "value"} => Drawn!LinesFit
        /\ drawn.kind # "chunks" => Drawn!ChunksFit
        /\ drawn.kind # "previews" => Drawn!PreviewsFit
        /\ drawn.kind # "rows" => Drawn!RowsSeen
        /\ drawn.kind # "scroll" => Drawn!ValueSeen
    BY Zenon DEF Drawn!WidthsFair, Drawn!LinesFit, Drawn!ChunksFit, Drawn!PreviewsFit,
                 Drawn!RowsSeen, Drawn!ValueSeen, Drawn!Is
  <1> QED
    BY <1>1, <1>2, <1>3, KindsOf DEF DrawKept, Drawn!ShownAsPromised

-----------------------------------------------------------------------------
(* The views and their columns *)

(* What PagingProofs.tla shows of views, their pages and what is awaited.  *)
VP == INSTANCE PagingProofs WITH
    view <- pview, parents <- pparents, request <- prequest, following <- pfollowing,
    opening <- popening, editing <- pediting

(* The constants are those of Paging.tla.                                  *)
LEMMA ViewConstants == VP!PagingAssumption
  BY TerminalAssumption DEF VP!PagingAssumption, VP!Range, Range

(* Its steps are those of the views.                                       *)
LEMMA SameAsk ==
    /\ Views!OpenConnection => VP!OpenConnection
    /\ Views!OpenResource => VP!OpenResource
    /\ Views!Refresh => VP!Refresh
    /\ Views!EditQuery => VP!EditQuery
    /\ Views!SubmitQuery => VP!SubmitQuery
    /\ Views!CloseQuery => VP!CloseQuery
    /\ Views!NextPage => VP!NextPage
    /\ Views!PreviousPage => VP!PreviousPage
    /\ Views!GoBack => VP!GoBack
    /\ Views!ShowConnections => VP!ShowConnections
    /\ Views!Cancel => VP!Cancel
    /\ Views!StartFollow => VP!StartFollow
    /\ Views!FollowTick => VP!FollowTick
    /\ Views!MoveColumn => VP!MoveColumn
    /\ Views!Sort => VP!Sort
  BY DEF Views!OpenConnection, VP!OpenConnection, Views!OpenResource, VP!OpenResource,
         Views!Refresh, VP!Refresh, Views!EditQuery, VP!EditQuery, Views!SubmitQuery,
         VP!SubmitQuery, Views!CloseQuery, VP!CloseQuery, Views!NextPage, VP!NextPage,
         Views!PreviousPage, VP!PreviousPage, Views!GoBack, VP!GoBack,
         Views!ShowConnections, VP!ShowConnections, Views!Cancel, VP!Cancel,
         Views!StartFollow, VP!StartFollow, Views!FollowTick, VP!FollowTick,
         Views!MoveColumn, VP!MoveColumn, Views!Sort, VP!Sort,
         Views!Idle, VP!Idle, Views!Pages, VP!Pages, Views!Loading, VP!Loading,
         Views!NoRequest, VP!NoRequest, Views!NewView, VP!NewView, Views!Blank, VP!Blank,
         Views!List, VP!List, Views!Load, VP!Load, Views!LoadFrom, VP!LoadFrom,
         Views!FollowFrom, VP!FollowFrom, Views!Continuation, VP!Continuation,
         Views!Live, VP!Live, Views!Invalidate, VP!Invalidate, Views!Top, VP!Top,
         Views!Below, VP!Below, Views!StopFollowing, VP!StopFollowing,
         Views!ColumnCount, VP!ColumnCount

LEMMA SameReply ==
    /\ Views!PageArrives => VP!PageArrives
    /\ Views!PageFails => VP!PageFails
    /\ Views!BatchArrives => VP!BatchArrives
    /\ Views!BatchFails => VP!BatchFails
  BY DEF Views!PageArrives, VP!PageArrives, Views!PageFails, VP!PageFails,
         Views!BatchArrives, VP!BatchArrives, Views!BatchFails, VP!BatchFails,
         Views!Loading, VP!Loading, Views!NoRequest, VP!NoRequest, Views!NewView, VP!NewView,
         Views!Blank, VP!Blank, Views!List, VP!List, Views!Shown, VP!Shown,
         Views!NameAt, VP!NameAt, Views!ColumnCount, VP!ColumnCount,
         Views!SmallerOf, VP!SmallerOf, Views!Pushed, VP!Pushed, Views!Below, VP!Below,
         Views!Behind, VP!Behind, Views!Extends, VP!Extends, Views!Live, VP!Live

LEMMA SameNext == Views!Next => VP!Next
  BY SameAsk, SameReply DEF Views!Next, VP!Next

LEMMA SameTypes == VP!TypeOK => Views!TypeOK
  BY DEF Views!TypeOK, VP!TypeOK, Views!View, VP!View, Views!Page, VP!Page, Views!Token, VP!Token,
         Views!Live, VP!Live, Views!Offset, VP!Offset, Views!Bookmark, VP!Bookmark,
         Views!Request, VP!Request, Views!NoRequest, VP!NoRequest

LEMMA SameInit == Views!Init => VP!Init
  BY DEF Views!Init, VP!Init, Views!List, VP!List, Views!NewView, VP!NewView,
         Views!Blank, VP!Blank, Views!NoRequest, VP!NoRequest

(* What is shown of the views is kept by their steps.                      *)
LEMMA ViewsStep ==
    ASSUME VP!Orderly, Views!Next
    PROVE  VP!Orderly'
  BY SameNext, ViewConstants, VP!StepOrderly

LEMMA ViewsStart == Views!Init => VP!Orderly
  BY SameInit, ViewConstants, VP!InitOrderly

LEMMA ViewsTyped ==
    ASSUME VP!Orderly
    PROVE  Views!TypeOK
  <1>1. VP!TypeOK
    BY DEF VP!Orderly, VP!Stacked, VP!Awaited, VP!Sound, VP!TypeOK
  <1> QED
    BY <1>1, SameTypes

LEMMA ViewsKeepColumns ==
    ASSUME VP!Orderly, Views!Next, pview.live, pview'.live,
           pview'.page.columns # pview.page.columns
    PROVE  prequest.reset \/ pparents' # pparents
  BY SameNext, ViewConstants, VP!StepKeepsColumns

-----------------------------------------------------------------------------
(* The parts together: a step of one leaves what the others have           *)

ScreenKept == part = "screen" => ScreenPhase(scr)
FilesKept == Filed(conf) /\ HistoryKept(his)
KeysKept == Ready(ui)
ViewsKept == VP!Orderly
EditsKept == Edited(ed)
DrawsKept == part = "layout" => DrawKept
PartKept == part \in Part

all == <<vars, part, pviews, ui, conf, his, ed, drawn, scr>>

(* A variable changes only in a step of its part.                          *)
LEMMA OneMoves ==
    ASSUME [TerminalNext]_all
    PROVE  /\ part' = part
           /\ (Views!Next \/ UNCHANGED pviews)
           /\ (Keys!Next \/ ui' = ui)
           /\ (Configuration!Next \/ conf' = conf)
           /\ (Recorded!Next \/ his' = his)
           /\ (Typed!Next \/ ed' = ed)
           /\ part = "layout" => Drawn!Next \/ drawn' = drawn
           /\ part = "screen" => ScreenModes!Next \/ scr' = scr
  BY DEF TerminalNext, all, Follows, Pages, Presses, Saves, Records, Types, Draws, Switches

LEMMA PartsStart == TerminalInit => PartKept /\ ScreenKept /\ FilesKept /\ KeysKept /\ ViewsKept
  <1> SUFFICES ASSUME TerminalInit PROVE PartKept /\ ScreenKept /\ FilesKept /\ KeysKept /\ ViewsKept
    OBVIOUS
  <1>1. PartKept
    BY DEF TerminalInit, PartKept
  <1>2. ScreenKept
    BY ScreenStart DEF TerminalInit, ScreenKept
  <1>3. KeysKept /\ ViewsKept
    BY KeysStart, ViewsStart DEF TerminalInit, KeysKept, ViewsKept
  <1>4. HistoryKept(his)
    BY HistoryStart DEF TerminalInit
  <1>5. Configuration!Starts # {}
    BY DEF Configuration!Starts
  <1>6. conf \in Configuration!Starts
    BY <1>5 DEF TerminalInit, Configuration!Init
  <1>7. FilesKept
    BY <1>4, <1>6, FiledStart DEF FilesKept
  <1> QED
    BY <1>1, <1>2, <1>3, <1>7

LEMMA ScreenPart == ScreenKept /\ PartKept /\ [TerminalNext]_all => ScreenKept'
  BY OneMoves, ScreenStep DEF ScreenKept

LEMMA FilesPart == FilesKept /\ [TerminalNext]_all => FilesKept'
  BY OneMoves, FiledStep, HistoryStep DEF FilesKept

LEMMA KeysPart == KeysKept /\ [TerminalNext]_all => KeysKept'
  BY OneMoves, KeysStep DEF KeysKept

LEMMA ViewsPart == ViewsKept /\ [TerminalNext]_all => ViewsKept'
  <1> SUFFICES ASSUME ViewsKept, [TerminalNext]_all PROVE ViewsKept'
    OBVIOUS
  <1>1. CASE Views!Next
    BY <1>1, ViewsStep DEF ViewsKept
  <1>2. CASE UNCHANGED pviews
    <2>1. UNCHANGED VP!vars
      BY <1>2 DEF pviews, VP!vars
    <2> QED
      BY <2>1, ViewConstants, VP!StutterOrderly DEF ViewsKept
  <1> QED
    BY <1>1, <1>2, OneMoves

LEMMA EditsStart == TerminalInit => EditsKept
  BY EditStart DEF TerminalInit, Typed!Init, EditsKept

LEMMA EditsPart == EditsKept /\ [TerminalNext]_all => EditsKept'
  BY OneMoves, EditStep DEF EditsKept, EditedTo

LEMMA DrawsStart == TerminalInit => DrawsKept
  BY DrawStart DEF TerminalInit, DrawsKept

LEMMA DrawsPart == DrawsKept /\ [TerminalNext]_all => DrawsKept'
  BY OneMoves, DrawStep, DrawStays DEF DrawsKept

-----------------------------------------------------------------------------
(* Results *)

(* However it ends, the terminal is left as it was found (tui::run, its    *)
(* guard and the panic hook).                                              *)
THEOREM TerminalIsRestored == TerminalSpec => []ScreenRestored
  <1>1. PartKept /\ [TerminalNext]_all => PartKept'
    BY OneMoves DEF PartKept
  <1>2. ScreenKept => ScreenRestored
    BY DEF ScreenKept, ScreenRestored, ScreenPhase, ScreenState, ScreenModes!ScreenRestored
  <1> QED
    BY <1>1, <1>2, PartsStart, ScreenPart, PTL DEF TerminalSpec, all

(* What was saved is not lost, for any number of processes, connections    *)
(* and queries (config.rs, history.rs).                                    *)
THEOREM NothingSavedIsLost == TerminalSpec => []SavedIsKept
  <1>1. FilesKept => SavedIsKept
    BY FiledIsKept, HistoryIsKept DEF FilesKept, SavedIsKept
  <1> QED
    BY <1>1, PartsStart, FilesPart, PTL DEF TerminalSpec, all

(* No expect call of app.rs fails, for any number of rows and views.       *)
THEOREM HandlersAlwaysReady == TerminalSpec => []HandlersFindTheirData
  <1>1. KeysKept => HandlersFindTheirData
    BY HandlersReady DEF KeysKept, HandlersFindTheirData
  <1> QED
    BY <1>1, PartsStart, KeysPart, PTL DEF TerminalSpec, all

(* The popups and menus of app.rs only cover the request underneath.       *)
THEOREM PopupsOnlyCover == TerminalSpec => PopupsKeepRequest
  <1> DEFINE Covered == ui.open # {} /\ ui.loading /\ ~ui'.loading
                       => Keys!PageArrives \/ Keys!PageFails \/ Keys!BatchArrives \/ ui'.quit
                          \/ Keys!Owner(ui) = "editor"
  <1>1. KeysKept /\ [TerminalNext]_all => [Covered]_ui
    BY OneMoves, RequestCovered DEF KeysKept
  <1>2. TerminalSpec => [][Covered]_ui
    BY <1>1, PartsStart, KeysPart, PTL DEF TerminalSpec, all
  <1> QED
    BY <1>2 DEF PopupsKeepRequest, Keys!PopupsKeepRequest

(* Records of other columns are never appended to the followed ones        *)
(* (complete_follow in app/follow.rs).                                     *)
THEOREM LiveColumnsStay == TerminalSpec => LiveColumnsStable
  <1> DEFINE Stays == pview.live /\ pview'.live /\ pview'.page.columns # pview.page.columns
                        => prequest.reset \/ pparents' # pparents
  <1>1. ViewsKept /\ [TerminalNext]_all => [Stays]_pviews
    BY OneMoves, ViewsKeepColumns DEF ViewsKept
  <1>2. TerminalSpec => [][Stays]_pviews
    BY <1>1, PartsStart, ViewsPart, PTL DEF TerminalSpec, all
  <1> QED
    BY <1>2 DEF LiveColumnsStable, Views!LiveColumnsStable, Views!vars, pviews

(* A key edits the text at its caret, which stays in the text, and up and  *)
(* down keep the column, for texts of any length (query.rs, connection.rs).*)
THEOREM EditsStayAtCaret == TerminalSpec => EditsAtCaret
  <1>1. EditsKept /\ [TerminalNext]_all => [AtTheCaret]_ed
    BY OneMoves, EditSeen DEF EditsKept
  <1>2. TerminalSpec => [][AtTheCaret]_ed
    BY <1>1, EditsStart, EditsPart, PTL DEF TerminalSpec, all
  <1>3. TerminalSpec => []Typed!CaretInText
    <2>1. EditsKept => Typed!CaretInText
      BY EditIsKept DEF EditsKept
    <2> QED
      BY <2>1, EditsStart, EditsPart, PTL DEF TerminalSpec, all
  <1>4. TerminalSpec => Typed!EditsAtCaret
    BY <1>2 DEF Typed!EditsAtCaret, AtTheCaret
  <1> QED
    BY <1>3, <1>4 DEF EditsAtCaret

(* What is cut or scrolled is nowhere lost, overdrawn or over its budget,  *)
(* for texts, tables and rooms of any size (ui.rs, value.rs, row_value.rs).*)
THEOREM DrawingsShown == TerminalSpec => []ShownAsPromised
  <1>1. DrawsKept => ShownAsPromised
    BY DrawIsKept DEF DrawsKept, ShownAsPromised
  <1> QED
    BY <1>1, DrawsStart, DrawsPart, PTL DEF TerminalSpec, all

(* The variables of the parts keep their types.                            *)
THEOREM PartsTyped == TerminalSpec => []PartsTypeOK
  <1>1. PartKept /\ [TerminalNext]_all => PartKept'
    BY OneMoves DEF PartKept
  <1>2. PartKept /\ FilesKept /\ KeysKept /\ ViewsKept => PartsTypeOK
    BY FiledIsKept, HistoryIsKept, HandlersReady, ViewsTyped
       DEF PartKept, FilesKept, KeysKept, ViewsKept, PartsTypeOK
  <1> QED
    BY <1>1, <1>2, PartsStart, FilesPart, KeysPart, ViewsPart, PTL DEF TerminalSpec, all

=============================================================================
