------------------------------- MODULE Listings -------------------------------
(***************************************************************************)
(* The listings of the providers: of RabbitMQ (crates/rabbitmq/src/        *)
(* browse.rs), Qdrant (crates/qdrant/src/browse.rs and topology.rs), CQL,  *)
(* PostgreSQL (crates/postgres/src/browse.rs), Kafka (crates/kafka/src/    *)
(* browse.rs, groups.rs and inspect.rs), NATS (crates/nats/src/metadata.rs *)
(* and browse.rs) and DynamoDB (crates/dynamodb/src/browse.rs and api.rs). *)
(* Some are asked for as a whole and a page cut from them by its offset,   *)
(* some by the number of the page, some from where the last page ended.    *)
(* Entries come and go between the pages.                                  *)
(***************************************************************************)
EXTENDS Integers, Sequences, FiniteSets, FiniteSetsExt, Ordering

CONSTANTS
    MaxItem,        \* bound: entries, in the order of the listing
    PageRows,       \* rows of a page, 100 in the code
    MaxChange       \* bound: entries that come or go

VARIABLE listing

-----------------------------------------------------------------------------
(* Data *)

Item == 1 .. MaxItem

(* array: vhosts, nodes and policies of RabbitMQ; numbered: its other      *)
(* lists; collections, topology and scroll: Qdrant; driver: rows of CQL;   *)
(* catalog: PostgreSQL; metadata, groups, configs and offsets: Kafka;      *)
(* consumers and local: NATS; names: the lists of DynamoDB.                *)
KafkaKind == {"metadata", "groups", "configs", "offsets"}

Kind == KafkaKind \union
    {"array", "numbered", "collections", "topology", "scroll", "driver", "catalog", "consumers",
     "local", "names"}

(* Read from where the last page ended, by the server.                     *)
Anchored == {"scroll", "driver", "names"}

Is(kind) == listing.kind = kind /\ ~listing.ended
All == InOrder(listing.items, <)
Total == Cardinality(listing.items)

(* The rows from an offset on, at most a page of them.                     *)
Slice(offset) == SubSeq(All, offset + 1, Min({offset + PageRows, Total}))

Shown(rows, next, bookmark) ==
    listing' = [listing EXCEPT !.shown = @ \o rows, !.ended = ~next,
                               !.bookmark = IF next THEN bookmark ELSE 0]

-----------------------------------------------------------------------------
(* RabbitMQ: the bookmark is the number of the next page *)

Number == listing.bookmark + (IF listing.bookmark = 0 THEN 1 ELSE 0)

ArrayPage ==
    /\ Is("array")
    /\ LET offset == (Number - 1) * PageRows IN
       Shown(Slice(offset), Total - offset > PageRows, Number + 1)

(* The server cuts the page and says how many there are.                   *)
PageCount == (Total + PageRows - 1) \div PageRows

NumberedPage ==
    /\ Is("numbered")
    /\ PageCount >= Number \/ (PageCount = 0 /\ Number = 1)
    /\ Shown(Slice((Number - 1) * PageRows), Number < PageCount, Number + 1)

(* "RabbitMQ page no longer exists": the user keeps the page there is.     *)
NumberedGone ==
    /\ Is("numbered")
    /\ PageCount < Number /\ ~(PageCount = 0 /\ Number = 1)
    /\ UNCHANGED listing

-----------------------------------------------------------------------------
(* Qdrant *)

CollectionsPage ==
    /\ Is("collections")
    /\ LET end == listing.bookmark + PageRows IN Shown(Slice(listing.bookmark), end < Total, end)

(* One row more than the page is taken, to know whether there is a next.   *)
TopologyPage ==
    /\ Is("topology")
    /\ LET taken == Min({PageRows + 1, Max({Total - listing.bookmark, 0})}) IN
       Shown(Slice(listing.bookmark), taken > PageRows, listing.bookmark + PageRows)

From == {i \in listing.items : i >= listing.bookmark}

(* next_page_offset is the first point of the next page, and included.     *)
ScrollPage ==
    /\ Is("scroll")
    /\ LET rest == InOrder(From, <)
           next == Len(rest) > PageRows
       IN Shown(SubSeq(rest, 1, Min({PageRows, Len(rest)})), next,
                IF next THEN rest[PageRows + 1] ELSE 0)

-----------------------------------------------------------------------------
(* CQL: the driver's paging state; a node may end a page before it is full *)

After == {i \in listing.items : i > listing.bookmark}

DriverPage ==
    /\ Is("driver")
    /\ \E count \in 0 .. Min({PageRows, Cardinality(After)}) :
         LET rows == SubSeq(InOrder(After, <), 1, count) IN
         Shown(rows, count < Cardinality(After),
               IF count = 0 THEN listing.bookmark ELSE rows[Len(rows)])

-----------------------------------------------------------------------------
(* PostgreSQL: the catalog by an offset, with one row more than the page *)

CatalogPage ==
    /\ Is("catalog")
    /\ LET fetched == Min({PageRows + 1, Max({Total - listing.bookmark, 0})}) IN
       Shown(Slice(listing.bookmark), fetched > PageRows, listing.bookmark + PageRows)

(* "Schema disappeared", "Relation disappeared", access denied.            *)
CatalogRefused == Is("catalog") /\ UNCHANGED listing

-----------------------------------------------------------------------------
(* Kafka: the brokers, topics or partitions, the groups or the members of  *)
(* one, the options of a topic or a broker, and the offsets of a group are *)
(* read as a whole, sorted, and cut *)

(* "Kafka metadata changed; refresh its parent": the offset is beyond it.  *)
SortedPage(rows) ==
    /\ listing.bookmark <= Total
    /\ LET next == listing.bookmark + Len(rows) IN Shown(rows, next < Total, next)

KafkaMetadataPage == Is("metadata") /\ SortedPage(Slice(listing.bookmark))
KafkaGroupPage == Is("groups") /\ SortedPage(Slice(listing.bookmark))
KafkaConfigPage == Is("configs") /\ SortedPage(Slice(listing.bookmark))

KafkaOffsetPage == Is("offsets") /\ SortedPage(Slice(listing.bookmark))

(* An entry that the broker answers with an error, or the offset beyond    *)
(* what is left, refuses the page.                                         *)
KafkaRefused == listing.kind \in KafkaKind /\ ~listing.ended /\ UNCHANGED listing

-----------------------------------------------------------------------------
(* NATS: the consumers, cut by the server, and what the program knows      *)

ConsumersPage ==
    /\ Is("consumers")
    /\ LET rows == Slice(listing.bookmark)
           next == listing.bookmark + Len(rows)
       IN Shown(rows, next < Total, next)

(* The subjects and the menu are of one page, however many there are.      *)
LocalPage == Is("local") /\ Shown(All, FALSE, 0)

-----------------------------------------------------------------------------
(* DynamoDB: the server names the last entry of a page that is not the     *)
(* last, or gives a token for what comes after it *)

NamesFrom == {i \in listing.items : i > listing.bookmark}

NamesPage ==
    /\ Is("names")
    /\ LET rest == InOrder(NamesFrom, <)
           rows == SubSeq(rest, 1, Min({PageRows, Len(rest)}))
       IN Shown(rows, Len(rest) > PageRows, IF rows = <<>> THEN 0 ELSE rows[Len(rows)])

-----------------------------------------------------------------------------
Change ==
    /\ listing.changes < MaxChange
    /\ \E i \in Item :
          listing' = [listing EXCEPT !.changes = @ + 1, !.steady = @ \ {i},
                                     !.items = IF i \in @ THEN @ \ {i} ELSE @ \union {i}]

Init ==
    \E kind \in Kind, items \in SUBSET Item :
        listing = [kind |-> kind, items |-> items, steady |-> items, bookmark |-> 0,
                   shown |-> <<>>, ended |-> FALSE, changes |-> 0]

Done == listing.ended /\ UNCHANGED listing

Next ==
    \/ ArrayPage \/ NumberedPage \/ NumberedGone \/ CollectionsPage \/ TopologyPage
    \/ ScrollPage \/ DriverPage
    \/ CatalogPage \/ CatalogRefused
    \/ KafkaMetadataPage \/ KafkaGroupPage \/ KafkaConfigPage \/ KafkaOffsetPage \/ KafkaRefused
    \/ ConsumersPage \/ LocalPage \/ NamesPage
    \/ Change
    \/ Done

Spec == Init /\ [][Next]_listing

-----------------------------------------------------------------------------
(* Properties *)

TypeOK ==
    /\ listing.bookmark \in 0 .. MaxItem + PageRows
    /\ listing.shown \in Seq(Item)

(* A listing that ends while nothing changed has shown every entry once    *)
(* and in its order. One that the server continues by itself keeps to that *)
(* for what was there all the time, whatever else came and went.           *)
PagesComplete ==
    /\ listing.ended /\ listing.changes = 0 => listing.shown = All
    /\ listing.kind \in Anchored =>
          /\ IsInjective(listing.shown)
          /\ listing.ended => listing.steady \subseteq Range(listing.shown)

=============================================================================
