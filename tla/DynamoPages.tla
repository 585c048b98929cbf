----------------------------- MODULE DynamoPages -----------------------------
(***************************************************************************)
(* Pages of DynamoDB (crates/dynamodb/src/streams.rs and browse.rs): the   *)
(* records of a shard, read, followed or replayed through iterators that   *)
(* expire while the user looks at a page; listings and scans that continue *)
(* after the last key evaluated, while entries come and go; and a batch    *)
(* whose keys the service processes a few at a time.                       *)
(***************************************************************************)
EXTENDS Integers, Sequences, FiniteSets, FiniteSetsExt, Ordering

CONSTANTS
    MaxSequence,    \* bound: sequence numbers of a shard, keys of a list
    PageRows,       \* rows of a page, 100 in the code
    MaxChange       \* bound: writes, trimmed records, deletions

VARIABLE shard

-----------------------------------------------------------------------------
(* Data *)

Sequence == 1 .. MaxSequence
Streams == {"browse", "follow", "at", "after"}
Kind == Streams \union {"list", "batch"}
IsReplay == shard.kind \in {"at", "after"}

(* A cursor of streams.rs, or the bookmark of another read. token is the   *)
(* place of its iterator in the shard, 0 for none; a stale one expired.    *)
NoCursor == [is |-> "none", sequence |-> 0, token |-> 0, stale |-> FALSE]

NoWork == [after |-> 0, at |-> 0, token |-> 0, stale |-> FALSE, renewed |-> FALSE,
           values |-> <<>>, next |-> 0]

At(place) == shard.at = place
Work == shard.work
Fails == [shard EXCEPT !.at = "idle", !.work = NoWork]

-----------------------------------------------------------------------------
(* The records of a shard *)

(* start_state: where the last page stopped, or where the replay starts.   *)
Ask ==
    /\ At("idle") /\ shard.kind \in Streams /\ shard.cursor.is # "Closed"
    /\ LET start == IF shard.cursor.is = "none" /\ IsReplay
                    THEN [NoCursor EXCEPT !.is = IF shard.kind = "at" THEN "At" ELSE "After",
                                          !.sequence = shard.start]
                    ELSE shard.cursor
       IN shard' = [shard EXCEPT
                      !.at = IF start.token = 0 THEN "iterator" ELSE "batch",
                      !.work = [NoWork EXCEPT
                                   !.after = IF start.is = "After" THEN start.sequence ELSE 0,
                                   !.at = IF start.is = "At" THEN start.sequence ELSE 0,
                                   !.token = start.token, !.stale = start.stale]]

(* GetShardIterator. One at or after a record that is gone is an error.    *)
Place ==
    IF Work.after > 0 THEN Work.after + 1
    ELSE IF Work.at > 0 THEN Work.at
    ELSE IF shard.kind = "follow" THEN shard.last + 1
    ELSE shard.low

Iterator ==
    /\ At("iterator")
    /\ \A s \in {Work.after, Work.at} \ {0} : s >= shard.low
    /\ shard' = [shard EXCEPT !.at = "batch", !.work.token = Place, !.work.stale = FALSE,
                              !.from = IF shard.cursor.is = "none" THEN Place ELSE @]

(* GetRecords: none, some or all of the records that fit the page. A       *)
(* sealed shard that has no more gives no next iterator.                   *)
Batch ==
    /\ At("batch") /\ ~Work.stale /\ Work.token >= shard.low
    /\ \E count \in 0 .. Min({PageRows, shard.last + 1 - Work.token}) :
         LET next == Work.token + count IN
         shard' = [shard EXCEPT
                     !.at = "page",
                     !.work.values = [i \in 1 .. count |-> Work.token + i - 1],
                     !.work.next = IF shard.sealed /\ next > shard.last THEN 0 ELSE next]

(* The iterator expired: it is renewed once, after the last record shown,  *)
(* and not at all in a replay or when nothing was shown yet.               *)
Expired ==
    /\ At("batch") /\ Work.stale
    /\ shard' = IF ~Work.renewed /\ ~IsReplay /\ (Work.after > 0 \/ Work.at > 0)
                THEN [shard EXCEPT !.at = "iterator", !.work.renewed = TRUE] ELSE Fails

(* Any other error: the worker keeps the bookmark it has.                  *)
PageFails == ~At("idle") /\ shard' = Fails

(* A page that was cut goes on after its last record, with an iterator of  *)
(* its own; any other with the one the service gave.                       *)
CursorAfter(rows, cut) ==
    LET after == IF rows = <<>> THEN Work.after ELSE rows[Len(rows)] IN
    CASE cut -> [NoCursor EXCEPT !.is = "After", !.sequence = after]
      [] ~cut /\ Work.next = 0 -> [NoCursor EXCEPT !.is = "Closed"]
      [] OTHER -> [is |-> IF after > 0 THEN "After" ELSE IF Work.at > 0 THEN "At" ELSE "Unanchored",
                   sequence |-> IF after > 0 THEN after ELSE Work.at,
                   token |-> Work.next, stale |-> FALSE]

(* rows_page: records until the display limit, at least one.               *)
PageEnds ==
    /\ At("page")
    /\ \E count \in 0 .. Len(Work.values) :
         LET rows == SubSeq(Work.values, 1, count)
             cut == count < Len(Work.values)
             cursor == CursorAfter(rows, cut)
         IN /\ cut => count > 0
            /\ shard' = [shard EXCEPT !.at = "idle", !.work = NoWork, !.cursor = cursor,
                                      !.shown = @ \o rows, !.ended = cursor.is = "Closed"]

-----------------------------------------------------------------------------
(* Listings and scans: ExclusiveStartKey; a batch: UnprocessedKeys *)

After == {s \in shard.present : s > shard.cursor.sequence}

(* One request; the service evaluates as many entries as it likes, and     *)
(* names the last of them unless there are no more.                        *)
ListPage ==
    /\ At("idle") /\ shard.kind = "list" /\ ~shard.ended
    /\ \E count \in 0 .. Min({PageRows, Cardinality(After)}) :
         LET rows == SubSeq(InOrder(After, <), 1, count)
             more == count < Cardinality(After)
         IN /\ more => count > 0
            /\ shard' = [shard EXCEPT
                 !.shown = @ \o rows, !.ended = ~more,
                 !.cursor = IF more THEN [NoCursor EXCEPT !.is = "After", !.sequence = rows[Len(rows)]]
                            ELSE NoCursor]

(* multi_items: the bookmark holds the keys that were not processed.       *)
BatchPage ==
    /\ At("idle") /\ shard.kind = "batch" /\ ~shard.ended
    /\ \E done \in SUBSET shard.keys \ {{}} :
         shard' = [shard EXCEPT !.keys = @ \ done, !.ended = shard.keys = done,
                                !.shown = @ \o InOrder(done, <)]

-----------------------------------------------------------------------------
(* The service *)

Changes == shard.changes < MaxChange
Changed == [shard EXCEPT !.changes = @ + 1]

Written ==
    /\ Changes /\ shard.kind \in Streams /\ ~shard.sealed /\ shard.last < MaxSequence
    /\ shard' = [Changed EXCEPT !.last = @ + 1]

Trimmed ==
    /\ Changes /\ shard.kind \in Streams /\ shard.low <= shard.last
    /\ shard' = [Changed EXCEPT !.low = @ + 1]

(* The shard is split.                                                     *)
Sealed ==
    /\ shard.kind \in Streams /\ ~shard.sealed
    /\ shard' = [shard EXCEPT !.sealed = TRUE]

Expire ==
    /\ ~At("page") /\ shard.kind \in Streams
    /\ \/ shard.cursor.token > 0 /\ ~shard.cursor.stale
       \/ Work.token > 0 /\ ~Work.stale
    /\ shard' = [shard EXCEPT !.cursor.stale = shard.cursor.token > 0,
                              !.work.stale = Work.token > 0]

Entry ==
    /\ Changes /\ shard.kind = "list"
    /\ \E s \in Sequence :
         shard' = [Changed EXCEPT !.present = IF s \in @ THEN @ \ {s} ELSE @ \union {s},
                                  !.steady = @ \ {s}]

-----------------------------------------------------------------------------
Init ==
    \E kind \in Kind, low \in 1 .. 2, last \in 2 .. MaxSequence - 1, start \in Sequence,
       present, keys \in SUBSET Sequence :
        /\ IF kind \in {"at", "after"} THEN start \in low .. last ELSE start = 1
        /\ kind \in Streams \/ (low = 1 /\ last = 2)
        /\ kind = "list" \/ present = {}
        /\ (kind = "batch") = (keys # {})
        /\ shard = [kind |-> kind, low |-> low, last |-> last, sealed |-> FALSE, start |-> start,
                    present |-> present, steady |-> present, keys |-> keys, asked |-> keys,
                    at |-> "idle", cursor |-> NoCursor, work |-> NoWork, from |-> 0,
                    shown |-> <<>>, ended |-> FALSE, changes |-> 0]

Done == shard.ended /\ UNCHANGED shard

Next ==
    \/ Ask \/ Iterator \/ Batch \/ Expired \/ PageEnds \/ PageFails
    \/ ListPage \/ BatchPage
    \/ Written \/ Trimmed \/ Sealed \/ Expire \/ Entry
    \/ Done

Spec == Init /\ [][Next]_shard

-----------------------------------------------------------------------------
(* Properties *)

TypeOK ==
    /\ shard.at \in {"idle", "iterator", "batch", "page"}
    /\ shard.cursor.is \in {"none", "After", "At", "Unanchored", "Closed"}
    /\ shard.cursor.sequence \in 0 .. MaxSequence
    /\ shard.cursor.token \in 0 .. MaxSequence + 1
    /\ shard.shown \in Seq(Sequence)

(* The pages of a shard show its records one after the other, none left    *)
(* out and none twice, from where the reader began, however often an       *)
(* iterator expired or a page was cut; a view that ends shows the last. A  *)
(* listing shows once what was there all the time, a batch all its keys.   *)
PagesComplete ==
    CASE shard.kind \in Streams ->
           /\ shard.shown = [i \in 1 .. Len(shard.shown) |-> shard.from + i - 1]
           /\ shard.ended => shard.from + Len(shard.shown) = shard.last + 1
      [] shard.kind = "list" ->
           /\ IsInjective(shard.shown)
           /\ shard.ended => shard.steady \subseteq Range(shard.shown)
      [] OTHER ->
           /\ IsInjective(shard.shown)
           /\ Range(shard.shown) \union shard.keys = shard.asked

=============================================================================
