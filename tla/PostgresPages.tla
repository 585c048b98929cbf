----------------------------- MODULE PostgresPages -----------------------------
(***************************************************************************)
(* The rows of a PostgreSQL relation, page by page (crates/postgres/src/   *)
(* rows.rs): from the key of the last row where an index gives every row a *)
(* key of its own, by an offset otherwise. Rows come and go between the    *)
(* pages, indexes are created and dropped, the relation is altered or      *)
(* replaced. A page is one transaction that locks the relation first, so   *)
(* its shape does not change under it.                                     *)
(***************************************************************************)
EXTENDS Integers, Sequences, FiniteSets, FiniteSetsExt, Ordering

CONSTANTS
    MaxRow,         \* bound: rows, in the order of the heap
    PageRows,       \* PAGE_ROWS, 100 in the code
    MaxChange       \* bound: changes of the rows, the indexes or the relation

VARIABLE rel

-----------------------------------------------------------------------------
(* Data *)

RowId == 1 .. MaxRow

(* Two indexes, on two columns that order the rows in opposite ways; the   *)
(* first one is the primary key where it is one.                           *)
Index == {1, 2}
NoIndex == 0
Null == 0

(* What the conditions of read_shape rule out: keys that repeat (an index  *)
(* that is not unique, not valid, deferrable, partial, or of a parent      *)
(* whose children it does not cover) and keys that are NULL.               *)
Flaw == {"repeats", "nulls"}

KeyOf(index, flaws, i) ==
    LET place == IF index = 1 THEN i ELSE MaxRow + 1 - i
        kept == IF "repeats" \in flaws THEN (place + 1) \div 2 ELSE place
    IN IF "nulls" \in flaws /\ place = 1 THEN Null ELSE kept

Key(index, i) == KeyOf(index, rel.flaws[index], i)

NoCursor == [version |-> 0, index |-> NoIndex, value |-> Null, offset |-> 0]

-----------------------------------------------------------------------------
(* The shape of the relation *)

Usable == {index \in rel.indexes : rel.flaws[index] = {}}

(* The primary key first, then the oldest index.                           *)
Chosen == IF Usable = {} THEN NoIndex ELSE Min(Usable)

(* A cursor is for the shape that it was made of.                          *)
SameShape ==
    rel.cursor # NoCursor => rel.cursor.version = rel.version /\ rel.cursor.index = Chosen

-----------------------------------------------------------------------------
(* The query *)

(* ORDER BY the key, NULL last; the order of the heap without a key.       *)
Before(i, j) ==
    IF Chosen = NoIndex THEN i < j
    ELSE \/ Key(Chosen, i) # Null /\ Key(Chosen, i) < Key(Chosen, j)
         \/ Key(Chosen, i) # Null /\ Key(Chosen, j) = Null
         \/ Key(Chosen, i) = Key(Chosen, j) /\ i < j

(* WHERE key > the last one, where there is a key and a page before.       *)
Selected ==
    IF Chosen = NoIndex \/ rel.cursor = NoCursor THEN rel.rows
    ELSE {i \in rel.rows : Key(Chosen, i) > rel.cursor.value}

Ordered == InOrder(Selected, Before)

Skipped == IF Chosen = NoIndex THEN rel.cursor.offset ELSE 0

(* LIMIT one row more than a page, to know whether there is a next.        *)
Fetched == SubSeq(Ordered, Skipped + 1, Min({Skipped + PageRows + 1, Len(Ordered)}))

PageOf == SubSeq(Fetched, 1, Min({PageRows, Len(Fetched)}))

-----------------------------------------------------------------------------
(* Requests *)

HasNull == Chosen # NoIndex /\ \E i \in DOMAIN PageOf : Key(Chosen, PageOf[i]) = Null

(* A page ends the read or leaves the cursor of its last row.              *)
FetchPage ==
    /\ ~rel.ended /\ SameShape /\ ~HasNull
    /\ Range(PageOf) \intersect rel.large = {}
    /\ LET next == Len(Fetched) > PageRows IN
       rel' = [rel EXCEPT
                 !.shown = @ \o PageOf,
                 !.ended = ~next,
                 !.by = Chosen,
                 !.cursor = IF ~next THEN NoCursor
                            ELSE [version |-> rel.version, index |-> Chosen,
                                  value |-> IF Chosen = NoIndex THEN Null
                                            ELSE Key(Chosen, PageOf[Len(PageOf)]),
                                  offset |-> rel.cursor.offset + PageRows]]

(* A changed relation, a NULL key or a row over the limits: the view keeps *)
(* the page that it has, and the bookmark with it.                         *)
FetchRefused ==
    /\ ~rel.ended
    /\ ~SameShape \/ HasNull \/ Range(PageOf) \intersect rel.large # {}
    /\ UNCHANGED rel

-----------------------------------------------------------------------------
(* Other sessions *)

Changes == rel.changes < MaxChange

(* A row is inserted or deleted.                                           *)
ChangeRows ==
    /\ Changes
    /\ \E i \in RowId :
          rel' = [rel EXCEPT !.changes = @ + 1, !.steady = @ \ {i},
                             !.rows = IF i \in @ THEN @ \ {i} ELSE @ \union {i}]

(* An index is dropped, or created where there is none.                    *)
ChangeIndexes ==
    /\ Changes
    /\ \E index \in Index :
          rel' = [rel EXCEPT !.changes = @ + 1,
                             !.indexes = IF index \in @ THEN @ \ {index} ELSE @ \union {index}]

(* A column is altered, or the relation replaced by another of its name,   *)
(* with other rows.                                                        *)
ChangeRelation ==
    /\ Changes
    /\ rel' = [rel EXCEPT !.changes = @ + 1, !.version = @ + 1, !.steady = {}]

-----------------------------------------------------------------------------
Init ==
    \E rows, large \in SUBSET RowId, indexes \in SUBSET Index, flaws \in [Index -> SUBSET Flaw] :
        /\ large \subseteq rows /\ Cardinality(large) <= 1
        /\ rel = [version |-> 1, indexes |-> indexes, flaws |-> flaws, rows |-> rows,
                  large |-> large, steady |-> rows, cursor |-> NoCursor, shown |-> <<>>,
                  by |-> NoIndex, ended |-> FALSE, changes |-> 0]

Done == rel.ended /\ UNCHANGED rel

Next == FetchPage \/ FetchRefused \/ ChangeRows \/ ChangeIndexes \/ ChangeRelation \/ Done

Spec == Init /\ [][Next]_rel

-----------------------------------------------------------------------------
(* Properties *)

TypeOK ==
    /\ {rel.cursor.index, rel.by} \subseteq Index \union {NoIndex}
    /\ rel.cursor.offset \in 0 .. MaxRow
    /\ rel.rows \subseteq RowId /\ rel.steady \subseteq rel.rows
    /\ rel.shown \in Seq(RowId)

(* A read that ends while nothing changed has shown every row once. One    *)
(* that went by a key keeps to that for the rows that were there all the   *)
(* time, and shows none twice, whatever other rows came and went: an index *)
(* whose keys repeat or are NULL is not paged by, and a page after another *)
(* index took over or the relation changed is refused. A row too large to  *)
(* show is never passed over.                                              *)
PagesComplete ==
    /\ rel.ended /\ rel.changes = 0 =>
          IsInjective(rel.shown) /\ Range(rel.shown) = rel.rows
    /\ rel.by # NoIndex =>
          /\ IsInjective(rel.shown)
          /\ rel.ended => rel.steady \subseteq Range(rel.shown)

=============================================================================
