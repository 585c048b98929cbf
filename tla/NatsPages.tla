------------------------------ MODULE NatsPages ------------------------------
(***************************************************************************)
(* Paging through what a NATS server keeps (crates/nats/src/browse.rs,     *)
(* metadata.rs and replay.rs): the messages of a stream, followed, replayed*)
(* or read as the chunks of an object, and the lists that the server pages *)
(* by offset. There is no snapshot and no consumer: every page asks again, *)
(* and the stream changes while a page is read.                            *)
(***************************************************************************)
EXTENDS Integers, Sequences, FiniteSets, FiniteSetsExt

CONSTANTS
    MaxSeq,         \* bound: sequences of the stream
    PageSize,       \* messages scanned for a page, 100 in the code
    MaxChange       \* bound: changes of the stream or the list

VARIABLE scan

-----------------------------------------------------------------------------
(* Data *)

MessageSeq == 1 .. MaxSeq

(* kept: what the stream retains; match: of it, what has the subject of    *)
(* the view; recent: what is not older than the start time of a replay.    *)
Stream == [created : 0 .. MaxChange, last : 0 .. MaxSeq, kept : SUBSET MessageSeq,
           match : SUBSET MessageSeq, recent : SUBSET MessageSeq]

End == scan.stream.last + 1
First == Min(scan.stream.kept \union {End})

NoCursor == [on |-> FALSE, created |-> 0, next |-> 0, end |-> 0, rows |-> 0]
At(place) == scan.at = place
Streaming == scan.kind # "list"
Live == scan.kind = "live"

(* Replay::parse: 0 where the statement names no start or end.             *)
Replay == {[start |-> s, end |-> e] : s, e \in 0 .. MaxSeq}
Replays == {r \in Replay : r.end # 0 => r.end > r.start}

Fails == scan' = [scan EXCEPT !.at = "idle", !.work = NoCursor, !.rows = <<>>]

-----------------------------------------------------------------------------
(* A page *)

Ask ==
    /\ At("idle") /\ ~scan.ended
    /\ scan' = [scan EXCEPT !.at = IF Streaming THEN "info" ELSE "list",
                            !.work = scan.cursor, !.rows = <<>>, !.scanned = 0]

(* What a continuation needs has been removed, or the stream replaced.     *)
Unavailable(cursor) ==
    \/ cursor.created # scan.stream.created
    \/ cursor.next < First \/ cursor.next > End \/ cursor.end > End

(* place_cursor for a first page.                                          *)
Placed ==
    LET next == IF Live THEN End
                ELSE IF scan.kind = "replay" /\ scan.replay.start # 0 THEN scan.replay.start
                ELSE Min({First, End})
        asked == IF scan.kind = "replay" /\ scan.replay.end # 0 THEN scan.replay.end ELSE End
    IN  [on |-> TRUE, created |-> scan.stream.created, next |-> next, rows |-> 0,
         end |-> Max({Min({asked, End}), next})]

StartRetained ==
    scan.kind = "replay" /\ scan.replay.start # 0 => scan.replay.start \in First .. End

Info ==
    /\ At("info")
    /\ \/ /\ ~scan.cursor.on /\ StartRetained
          /\ scan' = [scan EXCEPT !.at = "scan", !.work = Placed, !.from = Placed.next]
       \/ /\ scan.cursor.on /\ ~Unavailable(scan.cursor)
          /\ scan' = [scan EXCEPT !.at = "scan",
                                  !.work.end = IF Live THEN End ELSE @]
       \/ /\ IF scan.cursor.on THEN Unavailable(scan.cursor) ELSE ~StartRetained
          /\ Fails

Scanning == At("scan") /\ scan.work.next < scan.work.end /\ scan.scanned < PageSize

(* STREAM.MSG.GET with next_by_subj: the next that matches before the end. *)
Later == {m \in scan.stream.kept \intersect scan.stream.match :
             m >= scan.work.next /\ m < scan.work.end}

Exhausted ==
    /\ Scanning
    /\ Later = {}
    /\ scan' = [scan EXCEPT !.work.next = scan.work.end]

(* A replay from a time passes over what is older.                         *)
TooOld ==
    /\ Scanning /\ Later # {}
    /\ scan.kind = "replay" /\ Min(Later) \notin scan.stream.recent
    /\ scan' = [scan EXCEPT !.work.next = Min(Later) + 1, !.scanned = @ + 1]

Taken ==
    [scan EXCEPT !.work.next = Min(Later) + 1, !.work.rows = @ + 1, !.scanned = @ + 1,
                 !.rows = Append(@, Min(Later))]

Wanted ==
    /\ Scanning /\ Later # {}
    /\ scan.kind = "replay" => Min(Later) \in scan.stream.recent

Fetch == Wanted /\ scan' = Taken

(* Mutation: what does not fit has been read.                              *)
FullForgets ==
    /\ Wanted /\ scan.rows # <<>>
    /\ scan' = [Taken EXCEPT !.at = "full", !.rows = scan.rows, !.work.rows = scan.work.rows]

(* It does not fit any more: the page ends before it.                      *)
Full ==
    /\ Wanted /\ scan.rows # <<>>
    /\ scan' = [scan EXCEPT !.at = "full"]

(* A single message beyond the budget, an error of the server, a           *)
(* cancellation: the caller keeps the cursor it had.                       *)
PageFails == ~At("idle") /\ Fails

(* An object is whole, or it is no object: its size is known beforehand.   *)
Whole == scan.kind = "object" => scan.work.rows = scan.chunks

PageEnds ==
    /\ At("full") \/ (At("scan") /\ ~Scanning)
    /\ LET more == scan.work.next < scan.work.end IN
       \/ /\ more \/ Whole
          /\ scan' = [scan EXCEPT !.at = "idle", !.cursor = scan.work, !.rows = <<>>,
                                  !.work = NoCursor, !.shown = @ \o scan.rows,
                                  !.ended = ~more /\ ~Live]
       \/ ~more /\ ~Whole /\ Fails

-----------------------------------------------------------------------------
(* Lists by offset: streams, buckets, consumers, keys *)

Advance(entries) ==
    [scan EXCEPT !.at = "idle", !.work = NoCursor,
                 !.cursor = [NoCursor EXCEPT !.on = TRUE, !.created = scan.stream.created,
                                             !.next = scan.cursor.next + Len(entries)],
                 !.shown = @ \o entries,
                 !.ended = scan.cursor.next + Len(entries) >= Len(scan.list)]

(* The server chooses the size of its batch; of it at most a page is taken.*)
(* No progress, or a bucket that was replaced, is an error.                *)
ListPage ==
    /\ At("list")
    /\ scan.cursor.on => scan.cursor.created = scan.stream.created
    /\ LET from == scan.cursor.next IN
       \E batch \in 1 .. PageSize :
          LET entries == SubSeq(scan.list, from + 1, Min({from + batch, Len(scan.list)})) IN
          /\ entries # <<>> \/ from >= Len(scan.list)
          /\ scan' = Advance(entries)

-----------------------------------------------------------------------------
(* The server *)

Changing == scan.changes < MaxChange
Changed == [scan EXCEPT !.changes = @ + 1]

Store ==
    /\ Changing /\ Streaming /\ End \in MessageSeq
    /\ \E match, recent \in BOOLEAN :
          scan' = [Changed EXCEPT !.stream.last = End, !.stream.kept = @ \union {End},
                                  !.stream.match = IF match THEN @ \union {End} ELSE @,
                                  !.stream.recent = IF recent THEN @ \union {End} ELSE @]

(* Deleted, expired, or pushed out by a limit.                             *)
Discard ==
    /\ Changing /\ Streaming
    /\ \E m \in scan.stream.kept : scan' = [Changed EXCEPT !.stream.kept = @ \ {m}]

Recreate ==
    /\ Changing
    /\ scan' = [Changed EXCEPT !.stream.created = @ + 1, !.stream.last = 0, !.stream.kept = {},
                               !.stream.match = {}, !.stream.recent = {}]

(* An entry of a list goes, and shifts the ones behind it.                 *)
Without(list, i) == SubSeq(list, 1, i - 1) \o SubSeq(list, i + 1, Len(list))

Shift ==
    /\ Changing /\ ~Streaming
    /\ \E i \in 1 .. Len(scan.list) : scan' = [Changed EXCEPT !.list = Without(@, i)]

-----------------------------------------------------------------------------
Init ==
    \E kept, match, recent \in SUBSET MessageSeq, kind \in {"plain", "live", "replay", "object", "list"},
       replay \in Replays, last \in MaxSeq - 1 .. MaxSeq :
        /\ match \subseteq kept /\ recent \subseteq kept /\ kept \subseteq 1 .. last
        /\ kind # "replay" => replay = [start |-> 0, end |-> 0] /\ recent = {}
        /\ kind = "list" => kept = {}
        /\ scan = [stream |-> [created |-> 0, last |-> last, kept |-> kept, match |-> match,
                               recent |-> recent],
                   kind |-> kind, replay |-> replay, chunks |-> Cardinality(match),
                   list |-> IF kind = "list" THEN [i \in 1 .. MaxSeq |-> i] ELSE <<>>,
                   at |-> "idle", cursor |-> NoCursor, work |-> NoCursor, rows |-> <<>>,
                   scanned |-> 0, from |-> 0, shown |-> <<>>, ended |-> FALSE, changes |-> 0]

Done == scan.ended /\ UNCHANGED scan

Next ==
    \/ Ask \/ Info \/ Exhausted \/ TooOld \/ Fetch \/ Full \/ PageFails \/ PageEnds \/ ListPage
    \/ Store \/ Discard \/ Recreate \/ Shift
    \/ Done

Spec == Init /\ [][Next]_scan

-----------------------------------------------------------------------------
(* Properties *)

TypeOK ==
    /\ scan.stream \in Stream
    /\ scan.shown \in Seq(MessageSeq) /\ Len(scan.shown) <= MaxSeq
    /\ scan.at \in {"idle", "info", "scan", "full", "list"}

(* Of a view of a stream: what is still kept of what its pages have passed.*)
Due ==
    {m \in scan.stream.kept \intersect scan.stream.match :
        /\ m >= scan.from /\ m < scan.cursor.next
        /\ scan.kind = "replay" => m \in scan.stream.recent}

(* However the stream changes between two requests, pages that were not    *)
(* refused show what it kept from beginning to end exactly once and in     *)
(* order; the contents of an object are whole when they end; a list that   *)
(* did not change is shown as it is.                                       *)
PagesComplete ==
    /\ \A i, j \in 1 .. Len(scan.shown) : i < j => scan.shown[i] < scan.shown[j]
    /\ Streaming /\ scan.cursor.created = scan.stream.created => Due \subseteq Range(scan.shown)
    /\ Streaming /\ scan.ended => scan.cursor.next = scan.cursor.end
    /\ scan.kind = "object" /\ scan.ended => Len(scan.shown) = scan.chunks
    /\ scan.kind = "list" /\ scan.ended /\ scan.changes = 0 => scan.shown = scan.list

=============================================================================
