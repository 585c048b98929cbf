------------------------------ MODULE KafkaPages ------------------------------
(***************************************************************************)
(* Reading Kafka records (crates/kafka/src/provider.rs and topic.rs): a    *)
(* partition, a whole topic by rotating batches of its partitions, a       *)
(* replay, and following. A page captures the watermarks of its partitions *)
(* and reads up to them; between two requests, and between the watermarks  *)
(* and the records, the log grows, is cut at its beginning by retention    *)
(* and at its end by a change of leader.                                   *)
(*                                                                         *)
(* Offsets without a committed record (control records, aborted            *)
(* transactions, compaction) are what "visible" leaves out.                *)
(***************************************************************************)
EXTENDS Integers, Sequences, FiniteSets, FiniteSetsExt, Ordering

CONSTANTS
    Partitions,     \* bound: partitions of the topic, 32 in the code
    MaxOffset,      \* bound: end of a partition
    PageRows,       \* rows of a page, 100 in the code
    MaxChange       \* bound: changes of the log

VARIABLE log

-----------------------------------------------------------------------------
(* Data *)

Partition == 0 .. Partitions - 1
Position == 0 .. MaxOffset
Kind == {"partition", "topic", "replay", "list"}

(* The partitions of the view: one of them, or all.                        *)
View == IF log.kind = "topic" THEN Partition ELSE {0}
Count == Cardinality(View)

Zero == [p \in Partition |-> 0]
NoCursor == [on |-> FALSE, turn |-> 0, next |-> Zero, end |-> Zero]

(* windows: partitions whose watermarks are captured, with low and end.    *)
(* part, batch and pos are those of the read; step counts the partitions.  *)
NoWork == [cursor |-> NoCursor, seen |-> 0, low |-> Zero, end |-> Zero, step |-> 0, part |-> 0,
           batch |-> <<>>, pos |-> 0, quota |-> 0, rows |-> <<>>]

At(place) == log.at = place

-----------------------------------------------------------------------------
(* A page begins *)

Ask ==
    /\ At("idle") /\ ~log.ended /\ log.kind # "list"
    /\ log' = [log EXCEPT !.at = "windows", !.work = NoWork]

(* Any error: the caller keeps the cursor and the rows it has.             *)
Fails == [log EXCEPT !.at = "idle", !.work = NoWork]

PageFails == ~At("idle") /\ log' = Fails

(* fetch_watermarks, of one partition after another.                       *)
Watermarks ==
    /\ At("windows") /\ log.work.seen < Count
    /\ LET p == log.work.seen IN
       log' = [log EXCEPT !.work.low[p] = log.low[p], !.work.end[p] = log.stable[p],
                          !.work.seen = @ + 1]

(* The first cursor of a replay: an offset, a time, which is looked up     *)
(* here, or neither, and an end or none.                                   *)
Looked == IF log.replay.time THEN log.lookup ELSE log.replay.start

Replayed ==
    LET stable == log.work.end[0]
        end == IF log.replay.end < 0 THEN stable ELSE log.replay.end
        start == IF Looked < 0 THEN log.work.low[0]
                 ELSE IF log.replay.time THEN Min({Looked, end}) ELSE Looked
    IN  [NoCursor EXCEPT !.on = TRUE, !.next[0] = start, !.end[0] = end]

Placed ==
    IF log.kind = "replay" THEN Replayed
    ELSE [on |-> TRUE, turn |-> 0, end |-> log.work.end,
          next |-> IF log.live THEN log.work.end ELSE log.work.low]

(* A window that moved backwards is refused, also of a follower.           *)
Available(cursor) ==
    \A p \in View : /\ log.work.low[p] <= cursor.next[p] /\ cursor.next[p] <= cursor.end[p]
                    /\ cursor.end[p] <= log.work.end[p]

(* A follower's window ends where the log does now.                        *)
Extended(cursor) == IF log.live THEN [cursor EXCEPT !.end = log.work.end] ELSE cursor

(* resume_cursor: the window of a first page, or what is left of the last; *)
(* a page is shared among the partitions that have anything to read.       *)
Resume ==
    /\ At("windows") /\ log.work.seen = Count
    /\ LET cursor == IF log.cursor.on THEN log.cursor ELSE Placed
           begun == Extended(cursor)
           active == {p \in View : begun.next[p] < begun.end[p]}
       IN IF Available(cursor)
          THEN log' = [log EXCEPT !.at = "turn", !.work.cursor = begun,
                             !.from = IF log.cursor.on THEN @ ELSE begun.next,
                             !.work.quota = (PageRows + Max({Cardinality(active), 1}) - 1)
                                                \div Max({Cardinality(active), 1})]
          ELSE log' = Fails

-----------------------------------------------------------------------------
(* The partitions take turns *)

Work == log.work
Index == (log.cursor.turn + Work.step) % Count
Limit == Min({Work.quota, PageRows - Len(Work.rows)})

Quiet ==
    /\ At("turn") /\ Work.step < Count
    /\ Work.cursor.next[Index] = Work.cursor.end[Index]
    /\ log' = [log EXCEPT !.work.step = @ + 1]

Assign ==
    /\ At("turn") /\ Work.step < Count
    /\ Work.cursor.next[Index] # Work.cursor.end[Index]
    /\ log' = [log EXCEPT !.at = "poll", !.work.part = Index, !.work.batch = <<>>,
                          !.work.pos = Work.cursor.next[Index]]

(* What a poll finds: read-committed records from the position on. Below   *)
(* the low watermark it is an error (auto.offset.reset).                   *)
Found == {o \in log.visible[Work.part] : o >= Work.pos}
InLog == Work.pos >= log.low[Work.part]
Until == Work.cursor.end[Work.part]

Read(batch, next) ==
    [log EXCEPT !.at = "merge", !.work.batch = batch, !.work.pos = next]

(* A record beyond the window, or the end of the log at or past it.        *)
ReachesEnd ==
    /\ At("poll") /\ InLog
    /\ IF Found = {} THEN log.stable[Work.part] >= Until ELSE Min(Found) >= Until
    /\ log' = Read(Work.batch, Until)

TakesRecord ==
    /\ At("poll") /\ InLog /\ Found # {} /\ Min(Found) < Until
    /\ LET o == Min(Found)
           batch == Append(Work.batch, o)
       IN  log' = IF o + 1 >= Until \/ Len(batch) >= Limit THEN Read(batch, o + 1)
                  ELSE [log EXCEPT !.work.batch = batch, !.work.pos = o + 1]

(* The record makes the batch too large, and begins the next one.          *)
Splits ==
    /\ At("poll") /\ InLog /\ Found # {} /\ Min(Found) < Until /\ Work.batch # <<>>
    /\ log' = Read(Work.batch, Min(Found))

Rows(offsets) == [i \in DOMAIN offsets |-> <<Work.part, offsets[i]>>]

(* Of a topic the rows of all partitions share the budget of the page, and *)
(* the partition whose record did not fit is the first of the next.        *)
Overflows ==
    /\ At("merge") /\ log.kind = "topic"
    /\ \E taken \in 0 .. Len(Work.batch) - 1 :
          /\ Len(Work.rows) + taken > 0
          /\ log' = [log EXCEPT !.at = "end",
                                !.work.rows = @ \o Rows(SubSeq(Work.batch, 1, taken)),
                                !.work.cursor.next[Work.part] = Work.batch[taken + 1],
                                !.work.cursor.turn = Work.part]

Merges ==
    /\ At("merge")
    /\ LET rows == Work.rows \o Rows(Work.batch) IN
       log' = [log EXCEPT !.at = IF Len(rows) >= PageRows THEN "end" ELSE "turn",
                          !.work.rows = rows, !.work.step = @ + 1,
                          !.work.cursor.next[Work.part] = Work.pos,
                          !.work.cursor.turn = (Work.part + 1) % Count]

PageEnds ==
    /\ At("end") \/ (At("turn") /\ Work.step = Count)
    /\ log' = [log EXCEPT !.at = "idle", !.cursor = Work.cursor, !.work = NoWork,
                          !.shown = @ \o Work.rows,
                          !.ended = ~log.live /\
                              \A p \in View : Work.cursor.next[p] = Work.cursor.end[p]]

-----------------------------------------------------------------------------
(* Metadata, groups, offsets and configurations by offset *)

(* Everything is asked again, sorted, and of it a page taken; a list that  *)
(* has become shorter than the offset is refused.                          *)
ListPage ==
    /\ At("idle") /\ log.kind = "list" /\ ~log.ended
    /\ LET next == Min({log.cursor.next[0] + PageRows, Cardinality(log.visible[0])}) IN
       /\ log.cursor.next[0] <= Cardinality(log.visible[0])
       /\ log' = [log EXCEPT !.cursor.on = TRUE, !.cursor.next[0] = next,
                             !.shown = @ \o [i \in 1 .. next - log.cursor.next[0] |->
                                 <<0, InOrder(log.visible[0], <)[log.cursor.next[0] + i]>>],
                             !.ended = next = Cardinality(log.visible[0])]

ListFails ==
    /\ At("idle") /\ log.kind = "list" /\ ~log.ended
    /\ log.cursor.next[0] > Cardinality(log.visible[0])
    /\ UNCHANGED log

-----------------------------------------------------------------------------
(* The brokers *)

Changes(p) == log.changes < MaxChange /\ p \in View
Changed == [log EXCEPT !.changes = @ + 1]

(* One offset, with a committed record or without.                         *)
Produced(p) ==
    /\ Changes(p) /\ log.stable[p] < MaxOffset
    /\ \E visible \in BOOLEAN :
          log' = [Changed EXCEPT
                    !.stable[p] = @ + 1,
                    !.visible[p] = IF visible THEN @ \union {log.stable[p]} ELSE @,
                    !.rewritten[p] = IF log.stable[p] < log.top[p] THEN @ \union {log.stable[p]}
                                     ELSE @]

(* Retention moves the low watermark.                                      *)
Retain(p) ==
    /\ Changes(p) /\ log.low[p] < log.stable[p]
    /\ log' = [Changed EXCEPT !.low[p] = @ + 1, !.visible[p] = @ \ {log.low[p]}]

(* A new leader has less of the log.                                       *)
Truncate(p) ==
    /\ Changes(p) /\ log.low[p] < log.stable[p]
    /\ log' = [Changed EXCEPT !.stable[p] = @ - 1, !.visible[p] = @ \ {log.stable[p] - 1},
                              !.top[p] = Max({@, log.stable[p]})]

-----------------------------------------------------------------------------
(* end < 0 and start < 0: the statement names none.                        *)
Replay == [start : -1 .. MaxOffset, end : -1 .. MaxOffset, time : BOOLEAN]
NoReplay == [start |-> -1, end |-> -1, time |-> FALSE]

(* lookup: the offset the brokers find for the time of a replay.           *)
Init ==
    \E kind \in Kind, live \in BOOLEAN, replay \in Replay, lookup \in Position,
       stable, low \in [Partition -> Position] :
        /\ \A p \in Partition : low[p] <= Min({1, stable[p]}) /\ stable[p] >= MaxOffset - 1
        /\ kind # "replay" => replay = NoReplay /\ lookup = 0
        /\ replay.time => replay.start = -1
        /\ ~replay.time => lookup = 0
        /\ live => kind \in {"partition", "topic"}
        /\ kind = "list" => low[0] = 0
        /\ kind # "topic" => \A p \in Partition \ {0} : low[p] = 0 /\ stable[p] = MaxOffset
        /\ \E hidden \in SUBSET (low[0] .. stable[0] - 1) :
              /\ Cardinality(hidden) <= 1
              /\ log = [kind |-> kind, live |-> live, replay |-> replay, lookup |-> lookup,
                        low |-> low, stable |-> stable, top |-> Zero,
                        visible |-> [p \in Partition |-> (low[p] .. stable[p] - 1)
                                                            \ IF p = 0 THEN hidden ELSE {}],
                        rewritten |-> [p \in Partition |-> {}],
                        at |-> "idle", cursor |-> NoCursor, work |-> NoWork, from |-> Zero,
                        shown |-> <<>>, ended |-> FALSE, changes |-> 0]

Done == log.ended /\ UNCHANGED log

Next ==
    \/ Ask \/ Watermarks \/ Resume \/ Quiet \/ Assign \/ ReachesEnd \/ TakesRecord \/ Splits
    \/ Overflows \/ Merges \/ PageEnds \/ PageFails \/ ListPage \/ ListFails
    \/ \E p \in Partition : Produced(p) \/ Retain(p) \/ Truncate(p)
    \/ Done

Spec == Init /\ [][Next]_log

-----------------------------------------------------------------------------
(* Properties *)

TypeOK ==
    /\ log.at \in {"idle", "windows", "turn", "poll", "merge", "end"}
    /\ log.cursor.turn \in Partition /\ log.cursor.next \in [Partition -> Position]
    /\ log.cursor.end \in [Partition -> Position]
    /\ \A i \in DOMAIN log.shown : log.shown[i] \in Partition \X Position
    /\ Len(log.work.rows) <= PageRows

Shown(p) == {log.shown[i][2] : i \in {j \in DOMAIN log.shown : log.shown[j][1] = p}}

(* Of every partition the pages show the committed records of the window,  *)
(* from its beginning, each once and in the order of the offsets; what     *)
(* they passed is shown unless the log itself lost or replaced it. A view  *)
(* that ends has passed all of its window.                                 *)
PagesComplete ==
    IF log.kind = "list" THEN log.ended /\ log.changes = 0 => Shown(0) = log.visible[0]
    ELSE
    /\ \A i, j \in DOMAIN log.shown :
          i < j /\ log.shown[i][1] = log.shown[j][1] => log.shown[i][2] < log.shown[j][2]
    /\ \A p \in View :
          /\ {o \in log.visible[p] \ log.rewritten[p] :
                 o >= log.from[p] /\ o < log.cursor.next[p]} \subseteq Shown(p)
          /\ log.ended => log.cursor.next[p] = log.cursor.end[p]

=============================================================================
