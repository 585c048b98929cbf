------------------------------- MODULE Follow -------------------------------
(***************************************************************************)
(* The window of live records (crates/tui/src/app/follow.rs): batches are  *)
(* appended to the displayed rows, the oldest rows are evicted to keep the *)
(* page within its limits, and the selection stays on its row or at the    *)
(* end. crates/tui/src/app.rs keeps the display indices ("visible") and    *)
(* the selection among them.                                               *)
(*                                                                         *)
(* The records of a resource are numbered in the order the provider        *)
(* delivers them since following started; a row of a browsed page has      *)
(* number 0. A row or a cursor counts by its size. Requests, replies and   *)
(* cancellations are those of Session.tla.                                 *)
(***************************************************************************)
EXTENDS Integers, FiniteSets, Sequences, Functions

CONSTANTS
    PageRows,       \* PAGE_ROWS, 100 in the code
    PageBytes,      \* PAGE_BYTES, 1 MiB in the code
    RowSize,        \* sizes of a row
    CursorSize,     \* sizes of a continuation, at most 4096 in the code
    MaxRecord       \* bound: records delivered since following started

ASSUME FollowAssumption ==
    /\ PageRows \in Nat \ {0}
    /\ PageBytes \in Nat
    /\ RowSize \subseteq Nat
    /\ CursorSize \subseteq Nat
    /\ MaxRecord \in Nat

VARIABLES
    rows,       \* the rows of the displayed page
    visible,    \* the indices shown, filtered and sorted
    selected,   \* the selected position in visible, from 1
    live,       \* the page is a live window
    evicted,    \* how many live rows were evicted
    received,   \* history: how many records the window was given
    following,
    asked       \* the awaited request of the follow

vars == <<rows, visible, selected, live, evicted, received, following, asked>>

Row == [record : 0 .. MaxRecord, size : RowSize]

(* page.bytes() counts the continuation with the rows; the projections of  *)
(* the rows have the same limit.                                           *)
Bytes(page) == SumFunction([i \in DOMAIN page |-> page[i].size])
Fits(page, cursor) == Len(page) <= PageRows /\ cursor + Bytes(page) <= PageBytes

(* What a page of the provider may hold: the records after "first".        *)
Batch(first, count) ==
    {b \in [1 .. count -> Row] : \A i \in 1 .. count : b[i].record = first + i}

All(page) == [i \in 1 .. Len(page) |-> i]

(* selected_index: the row under the selection, if there is one.           *)
SelectedRow == {visible[i] : i \in {selected} \cap DOMAIN visible}

(* reindex: the kept row, or else the first one, is selected.              *)
Position(shown, keep) ==
    IF \E i \in DOMAIN shown : shown[i] \in keep
    THEN CHOOSE i \in DOMAIN shown : shown[i] \in keep
    ELSE 1

(* How often remove(0) runs: once for every page on the way to the first   *)
(* one that fits.                                                          *)
Removed(page, cursor) ==
    Cardinality({n \in 0 .. Len(page) - 1 :
        \A m \in 0 .. n : ~Fits(SubSeq(page, m + 1, Len(page)), cursor)})

-----------------------------------------------------------------------------
(* Any browsed page takes the place of what was shown.                     *)
Browse ==
    /\ \E count \in 0 .. PageRows :
       \E page \in [1 .. count -> [record : {0}, size : RowSize]] :
          /\ Fits(page, 0)
          /\ rows' = page
          /\ visible' = All(page)
    /\ selected' = 1
    /\ live' = FALSE
    /\ received' = 0
    /\ evicted' = 0
    /\ following' = FALSE
    /\ asked' = "nothing"

(* Up and down, like every action, stop following first.                   *)
Select ==
    /\ visible # <<>>
    /\ selected' \in {selected - 1, selected + 1} \cap DOMAIN visible
    /\ following' = FALSE
    /\ asked' = "nothing"
    /\ UNCHANGED <<rows, visible, live, evicted, received>>

(* A filter shows some of the rows, a sort reorders them.                  *)
Arrange ==
    /\ \E some \in SUBSET DOMAIN rows :
       \E order \in Bijection(1 .. Cardinality(some), some) : visible' = order
    /\ selected' = Position(visible', SelectedRow)
    /\ following' = FALSE
    /\ asked' = "nothing"
    /\ UNCHANGED <<rows, live, evicted, received>>

Start ==
    /\ ~following
    /\ following' = TRUE
    /\ asked' = "first"
    /\ UNCHANGED <<rows, visible, selected, live, evicted, received>>

Tick ==
    /\ following
    /\ asked = "nothing"
    /\ asked' = "more"
    /\ UNCHANGED <<rows, visible, selected, live, evicted, received, following>>

Stop ==
    /\ following
    /\ following' = FALSE
    /\ asked' = "nothing"
    /\ UNCHANGED <<rows, visible, selected, live, evicted, received>>

(* Mutant of Rebuilds: a batch without rows never rebuilds.                *)
RebuildsOnRows(count, removed) == asked = "first" \/ count > 0

Rebuilds(count, removed) == asked = "first" \/ count > 0 \/ removed > 0

(* Mutant of Keep: the index is kept, not the row.                         *)
KeepIndex(removed) == SelectedRow

(* The kept row moves up by what was removed before it.                    *)
Keep(removed) == {i - removed : i \in SelectedRow}

(* Mutant of End: the last of no rows.                                     *)
EndUnchecked(page) == Len(page)

End(page) == IF page = <<>> THEN 1 ELSE Len(page)

(* Mutant of Kept: the first batch is appended to what was shown.          *)
KeptAlways == rows

(* The first batch replaces the page, a later one extends it.              *)
Kept == IF asked = "first" THEN <<>> ELSE rows

(* The selection and the end are those of the display before the batch,    *)
(* also when the batch replaces it.                                        *)
BatchArrives ==
    /\ asked # "nothing"
    /\ LET first == IF asked = "first" THEN 0 ELSE received
           end == selected >= Len(visible)
       IN  \E count \in 0 .. PageRows, cursor \in CursorSize :
             /\ first + count <= MaxRecord
             /\ \E batch \in Batch(first, count) :
                  /\ Fits(batch, cursor)
                  /\ LET combined == Kept \o batch
                         n == Removed(combined, cursor)
                     IN  /\ rows' = SubSeq(combined, n + 1, Len(combined))
                         /\ evicted' = IF asked = "first" THEN n ELSE evicted + n
                         /\ IF Rebuilds(count, n)
                            THEN /\ visible' = All(rows')
                                 /\ selected' = IF end THEN End(rows')
                                                ELSE Position(visible', Keep(n))
                            ELSE UNCHANGED <<visible, selected>>
             /\ received' = first + count
    /\ live' = TRUE
    /\ asked' = "nothing"
    /\ UNCHANGED following

(* An error, an oversized batch or changed columns.                        *)
BatchFails ==
    /\ asked # "nothing"
    /\ following' = FALSE
    /\ asked' = "nothing"
    /\ UNCHANGED <<rows, visible, selected, live, evicted, received>>

Init ==
    /\ rows = <<>>
    /\ visible = <<>>
    /\ selected = 1
    /\ live = FALSE
    /\ evicted = 0
    /\ received = 0
    /\ following = FALSE
    /\ asked = "nothing"

Next ==
    \/ Browse
    \/ Select
    \/ Arrange
    \/ Start
    \/ Tick
    \/ Stop
    \/ BatchArrives
    \/ BatchFails

Spec == Init /\ [][Next]_vars

-----------------------------------------------------------------------------
TypeOK ==
    /\ rows \in Seq(Row)
    /\ visible \in Seq(Nat)
    /\ selected \in Nat \ {0}
    /\ live \in BOOLEAN
    /\ evicted \in Nat
    /\ received \in 0 .. MaxRecord
    /\ following \in BOOLEAN
    /\ asked \in {"nothing", "first", "more"}

(* A live window holds the newest records without a gap or a repetition,   *)
(* and the count of evicted records accounts for all the others, whatever  *)
(* was stopped, restarted, filtered or rejected in between.                *)
NewestRecords ==
    live => /\ evicted + Len(rows) = received
            /\ \A i \in DOMAIN rows : rows[i].record = evicted + i

(* The display indexes rows that exist, each once: also after a batch that *)
(* brings no rows but a longer cursor, which evicts some.                  *)
DisplayFitsRows ==
    /\ \A i \in DOMAIN visible : visible[i] \in DOMAIN rows
    /\ \A i, j \in DOMAIN visible : visible[i] = visible[j] => i = j
    /\ selected = 1 \/ selected <= Len(visible)

(* The window slides over the records: it keeps its limits, and while      *)
(* following, the selection stays on its record as others are evicted      *)
(* before it, unless it is at the end, where it stays.                     *)
WindowSlides ==
    [][/\ Fits(rows', 0)
       /\ asked = "more" /\ received' > received =>
             IF selected >= Len(visible)
             THEN selected' = Len(rows')
             ELSE LET record == rows[visible[selected]].record IN
                  IF record > evicted'
                  THEN rows'[visible'[selected']].record = record
                  ELSE selected' = 1]_vars

=============================================================================
