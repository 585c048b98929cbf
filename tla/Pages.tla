--------------------------------- MODULE Pages ---------------------------------
(***************************************************************************)
(* The pages of the providers, each with the continuation its server       *)
(* understands, and the decoders that fill their rows: what a reader who   *)
(* pages to the end of a listing, a stream, a topic or a shard has seen,   *)
(* whatever changed between two requests. A view pages by itself, so a     *)
(* behavior is one of one part; the decoders, of SchemaCache.tla, wait     *)
(* meanwhile, and the others do not exist.                                 *)
(***************************************************************************)
EXTENDS SchemaCache

CONSTANTS
    MaxSeq,         \* NATS: sequences of the stream
    PageSize,       \* NATS: messages scanned for a page
    StreamChanges,  \* NATS: changes of the stream or the list
    Partitions,     \* Kafka: partitions of the topic
    MaxOffset,      \* Kafka: end of a partition
    MaxSequence,    \* DynamoDB: sequence numbers of a shard, keys of a list
    MaxItem,        \* listings: entries
    MaxRow,         \* PostgreSQL: rows of the relation
    MaxChange,      \* changes of any other part
    MaxNodes, MaxDepth, MaxNames, MaxBytes, MaxOutput   \* those of DecodeBounds.tla

(* A page has room for a row, and a walk for the root that it begins with. *)
ASSUME PagesAssumption ==
    /\ {MaxSeq, PageSize, Partitions, PageRows, MaxSequence, MaxItem, MaxNodes}
          \subseteq Nat \ {0}
    /\ {StreamChanges, MaxOffset, MaxRow, MaxChange, MaxDepth, MaxNames, MaxBytes, MaxOutput}
          \subseteq Nat

VARIABLES part, scan, log, shard, listing, rel, walk

NatsStream == INSTANCE NatsPages WITH MaxChange <- StreamChanges

KafkaTopic == INSTANCE KafkaPages

DynamoDbShard == INSTANCE DynamoPages

Lists == INSTANCE Listings

PostgresRelation == INSTANCE PostgresPages

Bounds == INSTANCE DecodeBounds

-----------------------------------------------------------------------------
Part == {"nats", "kafka", "dynamodb", "listing", "postgres", "decoding", "bounds"}
Off == [part |-> "off"]

PagesInit ==
    /\ part \in Part /\ Init
    /\ IF part = "nats" THEN NatsStream!Init ELSE scan = Off
    /\ IF part = "kafka" THEN KafkaTopic!Init ELSE log = Off
    /\ IF part = "dynamodb" THEN DynamoDbShard!Init ELSE shard = Off
    /\ IF part = "listing" THEN Lists!Init ELSE listing = Off
    /\ IF part = "postgres" THEN PostgresRelation!Init ELSE rel = Off
    /\ IF part = "bounds" THEN Bounds!Init ELSE walk = Off

OfNats ==
    /\ part = "nats" /\ NatsStream!Next
    /\ UNCHANGED <<part, log, shard, listing, rel, dec, walk>>

OfKafka ==
    /\ part = "kafka" /\ KafkaTopic!Next
    /\ UNCHANGED <<part, scan, shard, listing, rel, dec, walk>>

OfDynamoDb ==
    /\ part = "dynamodb" /\ DynamoDbShard!Next
    /\ UNCHANGED <<part, scan, log, listing, rel, dec, walk>>

OfListing ==
    /\ part = "listing" /\ Lists!Next
    /\ UNCHANGED <<part, scan, log, shard, rel, dec, walk>>

OfPostgres ==
    /\ part = "postgres" /\ PostgresRelation!Next
    /\ UNCHANGED <<part, scan, log, shard, listing, dec, walk>>

OfDecoding ==
    /\ part = "decoding" /\ Next
    /\ UNCHANGED <<part, scan, log, shard, listing, rel, walk>>

Walks ==
    /\ part = "bounds" /\ Bounds!Next
    /\ UNCHANGED <<part, scan, log, shard, listing, rel, dec>>

PagesNext ==
    OfNats \/ OfKafka \/ OfDynamoDb \/ OfListing \/ OfPostgres \/ OfDecoding \/ Walks

PagesSpec ==
    PagesInit /\ [][PagesNext]_<<part, scan, log, shard, listing, rel, dec, walk>>

-----------------------------------------------------------------------------
(* Properties; DecodedByOwnSchema is that of SchemaCache.tla.             *)

(* The types of the part.                                                  *)
PagesTypeOK ==
    /\ part = "nats" => NatsStream!TypeOK
    /\ part = "kafka" => KafkaTopic!TypeOK
    /\ part = "dynamodb" => DynamoDbShard!TypeOK
    /\ part = "listing" => Lists!TypeOK
    /\ part = "postgres" => PostgresRelation!TypeOK
    /\ TypeOK
    /\ part = "bounds" => Bounds!TypeOK

(* Paging to the end shows what there was from beginning to end, nothing   *)
(* twice and nothing left out: of a NATS stream, object or replay, of the  *)
(* committed records of a Kafka topic, of a DynamoDB shard, table or       *)
(* batch, of a PostgreSQL relation, and of the listings of all providers,  *)
(* each as far as its server keeps a place for the reader.                 *)
PagesComplete ==
    /\ part = "nats" => NatsStream!PagesComplete
    /\ part = "kafka" => KafkaTopic!PagesComplete
    /\ part = "dynamodb" => DynamoDbShard!PagesComplete
    /\ part = "listing" => Lists!PagesComplete
    /\ part = "postgres" => PostgresRelation!PagesComplete

(* What a decoder builds of a message stays within its limits, whatever    *)
(* the message and its schema make of each other.                          *)
DecodingIsBounded == part = "bounds" => Bounds!DecodingIsBounded

=============================================================================
