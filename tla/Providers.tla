------------------------------- MODULE Providers -------------------------------
(***************************************************************************)
(* The sessions of the providers other than PostgreSQL, and the check mode *)
(* of the command line, which uses any of them: what each promises of its  *)
(* requests, statements and connections, stated once for all. They share   *)
(* nothing, so a behavior is one of one part.                              *)
(***************************************************************************)
EXTENDS KafkaOwner

CONSTANTS
    MaxSubmission, MaxRecords,              \* bounds of publishing to Kafka
    MaxConnect, MaxPublish, MaxMessage,     \* bounds of the NATS client
    MaxEvents, MaxDown, MaxFollow, MaxBatch,
    QueueLimit,     \* messages the NATS client queues for a subscription
    MaxWrite,       \* bound: statements of CQL, DynamoDB, RabbitMQ and Qdrant each
    MaxRetry,       \* bound: attempts on another node, of the CQL driver
    MaxAttempt,     \* bound: HTTP requests of a DynamoDB page
    Calls           \* calls of a provider's check

ASSUME ProvidersAssumption ==
    /\ MaxRecords \in Nat /\ MaxMessage \in Nat /\ MaxEvents \in Nat \ {0} /\ MaxConnect \in Nat
    /\ MaxFollow \in Nat /\ MaxBatch \in Nat \ {0} /\ QueueLimit \in Nat /\ Calls \in Nat
    /\ MaxRetry \in Nat /\ MaxAttempt \in Nat \ {0}

VARIABLES part, nats, cql, ddb, mq, qd, cmd,
          size, answer, slot, job, step, next, reports, fate, reported, handed, mixed

Publishing == INSTANCE KafkaPublish
NatsServer == INSTANCE Nats WITH MaxWrite <- MaxPublish
Cassandra == INSTANCE Cql
DynamoDb == INSTANCE Dynamo WITH MaxStatement <- MaxWrite
RabbitMq == INSTANCE Rabbit
QdrantDb == INSTANCE Qdrant
Command == INSTANCE CommandLine

-----------------------------------------------------------------------------
Part == {"publish", "owner", "nats", "cql", "dynamodb", "rabbitmq", "qdrant", "command"}

publishing ==
    <<size, answer, slot, job, step, next, reports, fate, reported, handed, mixed>>

ProvidersInit ==
    /\ part \in Part
    /\ Init /\ Publishing!Init /\ NatsServer!Init /\ Cassandra!Init /\ DynamoDb!Init
    /\ RabbitMq!Init /\ QdrantDb!Init
    /\ IF part = "command" THEN Command!Init
       ELSE cmd = [(CHOOSE start \in Command!Starts : TRUE) EXCEPT !.pc = "exit"]

Publishes(Step) ==
    /\ part = "publish" /\ Step
    /\ UNCHANGED <<part, own, nats, cql, ddb, mq, qd, cmd>>

Owns(Step) ==
    /\ part = "owner" /\ Step
    /\ UNCHANGED <<publishing, part, nats, cql, ddb, mq, qd, cmd>>

OfNats(Step) ==
    /\ part = "nats" /\ Step
    /\ UNCHANGED <<publishing, part, own, cql, ddb, mq, qd, cmd>>

OfCql(Step) ==
    /\ part = "cql" /\ Step
    /\ UNCHANGED <<publishing, part, own, nats, ddb, mq, qd, cmd>>

OfDynamoDb(Step) ==
    /\ part = "dynamodb" /\ Step
    /\ UNCHANGED <<publishing, part, own, nats, cql, mq, qd, cmd>>

OfRabbitMq(Step) ==
    /\ part = "rabbitmq" /\ Step
    /\ UNCHANGED <<publishing, part, own, nats, cql, ddb, qd, cmd>>

OfQdrant(Step) ==
    /\ part = "qdrant" /\ Step
    /\ UNCHANGED <<publishing, part, own, nats, cql, ddb, mq, cmd>>

Commands(Step) ==
    /\ part = "command" /\ Step
    /\ UNCHANGED <<publishing, part, own, nats, cql, ddb, mq, qd>>

ProvidersNext ==
    \/ Publishes(Publishing!Next) \/ Owns(Next) \/ OfNats(NatsServer!Next)
    \/ OfCql(Cassandra!Next) \/ OfDynamoDb(DynamoDb!Next) \/ OfRabbitMq(RabbitMq!Next)
    \/ OfQdrant(QdrantDb!Next) \/ Commands(Command!Next)

allvars == <<publishing, part, own, nats, cql, ddb, mq, qd, cmd>>

(* What a part does by itself, each as its module says. One fairness for   *)
(* all of it is less than the program gives: two sessions of Kafka have    *)
(* workers and threads of their own.                                       *)
Progress ==
    \/ Publishes(Publishing!Owner)
    \/ Owns(\E s \in Session : Caller(s) \/ Owner(s))
    \/ OfNats(NatsServer!Progress) \/ OfCql(Cassandra!Progress)
    \/ OfDynamoDb(DynamoDb!Progress) \/ OfRabbitMq(RabbitMq!Progress)
    \/ OfQdrant(QdrantDb!Progress) \/ Commands(Command!Progress)

ProvidersSpec == ProvidersInit /\ [][ProvidersNext]_allvars /\ WF_allvars(Progress)

-----------------------------------------------------------------------------
(* Properties; OneNativeOwner is that of KafkaOwner.tla. *)

(* The types of all parts.                                                 *)
ProvidersTypeOK ==
    /\ part \in Part
    /\ TypeOK /\ Publishing!TypeOK /\ NatsServer!TypeOK /\ Cassandra!TypeOK /\ DynamoDb!TypeOK
    /\ RabbitMq!TypeOK /\ QdrantDb!TypeOK /\ Command!TypeOK

(* What a Kafka job is told is its own: the reports of its records, and    *)
(* the native errors that came while it was served.                        *)
KafkaJobsApart == Publishing!OwnReports /\ DiagnosticsOwn

(* A subscription to a NATS subject is complete, or its loss is told.      *)
LossIsTold == NatsServer!LossIsTold

(* Whatever is reported of a statement is true: of NATS publishes, CQL and *)
(* PartiQL statements, and the HTTP requests to RabbitMQ and Qdrant.       *)
ImplementsWriteOutcome ==
    /\ NatsServer!ImplementsWriteOutcome
    /\ Cassandra!ImplementsWriteOutcome
    /\ DynamoDb!ImplementsWriteOutcome
    /\ RabbitMq!ImplementsWriteOutcome
    /\ QdrantDb!ImplementsWriteOutcome

(* An operation leaves no request behind on the client it gives back, and  *)
(* the program exits with no executor open.                                *)
NothingLeft ==
    /\ RabbitMq!NothingLeft /\ QdrantDb!NothingLeft
    /\ Command!ChecksLeaveNothing

(* A request of either session, a job of either submission, an operation   *)
(* or a check is under way.                                                *)
Pending(i) ==
    \/ part = "publish" /\ job = i
    \/ part = "owner" /\ own.phase[i] \in {"permit", "reply", "shutdown"}
    \/ part = "owner" /\ own.phase[i] = "failed" /\ own.holder = i
    \/ part = "nats" /\ ~NatsServer!Idle
    \/ part = "cql" /\ ~Cassandra!Idle
    \/ part = "dynamodb" /\ ~DynamoDb!Idle
    \/ part = "rabbitmq" /\ ~RabbitMq!Idle
    \/ part = "qdrant" /\ ~QdrantDb!Idle
    \/ part = "command" /\ cmd.pc \in {"check", "cancelled", "shutdown"}

(* Every operation returns, however slow the servers are: within its       *)
(* deadline, also that of a check, of a job in the hands of Kafka's owner, *)
(* and of a request that waits for another one's setup.                    *)
OperationsReturn == \A i \in 1 .. 2 : Pending(i) ~> ~Pending(i)

=============================================================================
