---------------------------- MODULE KafkaPublish ----------------------------
(***************************************************************************)
(* Publishing to Kafka: the request side of crates/kafka/src/provider.rs,  *)
(* its owner thread, and crates/kafka/src/produce.rs, which hands a batch  *)
(* of records to the native producer and waits for the delivery reports.   *)
(*                                                                         *)
(* The producer outlives a submission, and so do the records a submission  *)
(* leaves with it: their reports arrive while a later one is polling.      *)
(* Jobs that do not publish use another native client and are left out;    *)
(* KafkaOwner.tla has them.                                                *)
(***************************************************************************)
EXTENDS Integers, FiniteSets, Sequences

CONSTANTS
    MaxSubmission,  \* bound: submissions
    MaxRecords      \* records of a submission, at least one; PRODUCE_RECORDS = 100 in the code

Submission == 1 .. MaxSubmission
Index == 1 .. MaxRecords
Record == Submission \X Index

VARIABLES
    size,       \* records of a submission; 0 until it is submitted
    answer,     \* what the caller was told
    slot,       \* the job in the channel of the owner, 0 if none
    job,        \* the job in the owner's hands, 0 if none
    step,       \* where the owner is: idle, sending, checked
    next,       \* the next record to hand to the producer
    reports,    \* Reports: one outcome for each record of the batch
    fate,       \* what became of a record
    reported,   \* records whose delivery report was handed out
    handed,     \* history: records handed over when the caller was answered
    mixed       \* history: submissions that began with others in flight

vars == <<size, answer, slot, job, step, next, reports, fate, reported,
          handed, mixed>>

Outcome == {"Applied", "Rejected", "Unknown"}

(* The brokers appended the record and said so, refused it, or left the    *)
(* producer without an answer after appending it or without appending it.  *)
Decided == {"appended", "refused", "unacked", "lost"}

Records(s) == {s} \X (1 .. size[s])
Fates(s) == {fate[r] : r \in Records(s)}

(* producer.in_flight_count(), which counts reports not yet handed out.    *)
InFlight == {r \in Record \ reported : fate[r] # "unsent"}

Waiting == {s \in Submission : answer[s] = "waiting"}

-----------------------------------------------------------------------------
(* The caller: KafkaExecutor::execute                                      *)

HandedOver(s) == Cardinality({r \in Records(s) : fate[r] # "unsent"})

Tell(s, outcome) ==
    /\ answer' = [answer EXCEPT ![s] = outcome]
    /\ handed' = [handed EXCEPT ![s] = HandedOver(s)]

(* The worker of the session asks one thing at a time.                     *)
Fresh(s) ==
    /\ Waiting = {}
    /\ answer[s] = "none"
    /\ \A t \in 1 .. s - 1 : answer[t] # "none"

Submit(s) ==
    /\ Fresh(s)
    /\ slot = 0
    /\ slot' = s
    /\ \E count \in Index : size' = [size EXCEPT ![s] = count]
    /\ answer' = [answer EXCEPT ![s] = "waiting"]
    /\ UNCHANGED <<job, step, next, reports, fate, reported, handed, mixed>>

(* try_send: an abandoned job still lies in the channel.                   *)
Busy(s) ==
    /\ Fresh(s)
    /\ slot # 0
    /\ Tell(s, "error")
    /\ UNCHANGED <<size, slot, job, step, next, reports, fate, reported, mixed>>

(* The request is cancelled, or its deadline passes: context.run returns   *)
(* and the receiver of the reply is dropped.                               *)
Abandon(s) ==
    /\ answer[s] = "waiting"
    /\ Tell(s, "error")
    /\ UNCHANGED <<size, slot, job, step, next, reports, fate, reported, mixed>>

-----------------------------------------------------------------------------
(* The owner thread: NativeWorker::serve and produce::send                 *)

(* Mutant of End: the job is not let go.                                   *)
EndKeepsJob(outcome) ==
    /\ IF answer[job] = "waiting"
       THEN Tell(job, outcome)
       ELSE UNCHANGED <<answer, handed>>
    /\ job' = job
    /\ step' = "idle"
    /\ next' = 1
    /\ reports' = <<>>

(* The reply of a job whose caller is gone goes nowhere. What is left in   *)
(* Reports the next batch clears before anything reads it.                 *)
End(outcome) ==
    /\ IF answer[job] = "waiting"
       THEN Tell(job, outcome)
       ELSE UNCHANGED <<answer, handed>>
    /\ job' = 0
    /\ step' = "idle"
    /\ next' = 1
    /\ reports' = <<>>

TakeAbandoned ==
    /\ job = 0
    /\ slot # 0
    /\ answer[slot] # "waiting"
    /\ slot' = 0
    /\ UNCHANGED <<size, answer, job, step, next, reports, fate, reported, handed, mixed>>

(* Before the batch begins an expired OAuth token replaces the producer;   *)
(* the old one and the reports it still owes are gone.                     *)
Take ==
    /\ job = 0
    /\ slot # 0
    /\ answer[slot] = "waiting"
    /\ job' = slot
    /\ slot' = 0
    /\ step' = "sending"
    /\ next' = 1
    /\ reports' = [i \in 1 .. size[slot] |-> "none"]
    /\ \/ /\ reported' = reported
          /\ mixed' = IF InFlight = {} THEN mixed ELSE mixed \union {slot}
       \/ /\ reported' = reported \union InFlight
          /\ mixed' = mixed
    /\ UNCHANGED <<size, answer, fate, handed>>

Sending == step = "sending" /\ next <= size[job]
Polling == step = "sending" /\ next > size[job]

(* remaining() finds the reply open and time left.                         *)
Check ==
    /\ Sending
    /\ answer[job] = "waiting"
    /\ step' = "checked"
    /\ UNCHANGED <<size, answer, slot, job, next, reports, fate, reported, handed, mixed>>

Enqueue ==
    /\ step = "checked"
    /\ fate' = [fate EXCEPT ![<<job, next>>] = "queued"]
    /\ step' = "sending"
    /\ next' = next + 1
    /\ UNCHANGED <<size, answer, slot, job, reports, reported, handed, mixed>>

(* The record does not decode, or the producer refuses it locally.         *)
RefuseLocally ==
    /\ step = "checked"
    /\ End("error")
    /\ UNCHANGED <<size, slot, fate, reported, mixed>>

(* Mutant of Interrupt: the batch is tried again.                          *)
InterruptRetries ==
    /\ Sending \/ (Polling /\ InFlight # {})
    /\ next' = 1
    /\ step' = "sending"
    /\ UNCHANGED <<size, answer, slot, job, reports, fate, reported, handed, mixed>>

(* remaining() finds the reply closed or the deadline passed.              *)
Interrupt ==
    /\ Sending \/ (Polling /\ InFlight # {})
    /\ End("error")
    /\ UNCHANGED <<size, slot, fate, reported, mixed>>

(* The report of a record arrives, from whichever submission; the callback *)
(* stores its outcome at the index of the record, in the batch of the      *)
(* submission that is polling. What the brokers did is chosen here, where  *)
(* the program first learns of it. A call that began while the caller      *)
(* waited still serves reports when it no longer does.                     *)
Poll ==
    /\ Polling
    /\ \E r \in InFlight, f \in Decided :
         /\ fate' = [fate EXCEPT ![r] = f]
         /\ reported' = reported \union {r}
         /\ reports' = IF r[2] \in DOMAIN reports
                       THEN [reports EXCEPT ![r[2]] =
                               IF f = "appended" THEN "delivered" ELSE "failed"]
                       ELSE reports
    /\ UNCHANGED <<size, answer, slot, job, step, next, handed, mixed>>

(* Mutant of Result: a failure beside a delivery is overlooked.            *)
ResultOfAny(outcomes) ==
    IF "delivered" \in outcomes THEN "Applied"
    ELSE IF outcomes = {"failed"} THEN "Rejected"
    ELSE "Unknown"

Result(outcomes) ==
    IF outcomes = {"delivered"} THEN "Applied"
    ELSE IF outcomes = {"failed"} THEN "Rejected"
    ELSE "Unknown"

Finish ==
    /\ Polling
    /\ InFlight = {}
    /\ End(Result({reports[i] : i \in DOMAIN reports}))
    /\ UNCHANGED <<size, slot, fate, reported, mixed>>

(* Nothing is asked, and the owner waits for a job.                        *)
Quiet ==
    /\ Waiting = {}
    /\ slot = 0
    /\ job = 0
    /\ UNCHANGED vars

Init ==
    /\ size = [s \in Submission |-> 0]
    /\ answer = [s \in Submission |-> "none"]
    /\ slot = 0
    /\ job = 0
    /\ step = "idle"
    /\ next = 1
    /\ reports = <<>>
    /\ fate = [r \in Record |-> "unsent"]
    /\ reported = {}
    /\ handed = [s \in Submission |-> 0]
    /\ mixed = {}

Owner ==
    \/ TakeAbandoned
    \/ Take
    \/ Check
    \/ Enqueue
    \/ RefuseLocally
    \/ Interrupt
    \/ Finish

Next ==
    \/ \E s \in Submission : Submit(s) \/ Busy(s) \/ Abandon(s)
    \/ Owner
    \/ Poll
    \/ Quiet

Spec == Init /\ [][Next]_vars

-----------------------------------------------------------------------------
TypeOK ==
    /\ size \in [Submission -> 0 .. MaxRecords]
    /\ answer \in [Submission -> {"none", "waiting", "error"} \union Outcome]
    /\ slot \in {0} \union Submission
    /\ job \in {0} \union Submission
    /\ step \in {"idle", "sending", "checked"}
    /\ step = "idle" <=> job = 0
    /\ next \in 1 .. MaxRecords + 1
    /\ reports \in Seq({"none", "delivered", "failed"})
    /\ fate \in [Record -> {"unsent", "queued"} \union Decided]
    /\ reported \subseteq Record
    /\ handed \in [Submission -> 0 .. MaxRecords]
    /\ mixed \subseteq Submission

(* A submission that began with nothing of others in flight is answered    *)
(* from its own records: applied if all were acknowledged, rejected if     *)
(* none was, unknown if some were. After the caller was answered at most   *)
(* the record that had just passed its check is still handed over.         *)
OwnReports ==
    /\ \A s \in Submission \ mixed :
          /\ answer[s] = "Applied" => Fates(s) = {"appended"}
          /\ answer[s] = "Rejected" => "appended" \notin Fates(s)
          /\ answer[s] = "Unknown" => {"appended"} # Fates(s) /\ "appended" \in Fates(s)
    /\ \A s \in Submission :
          answer[s] \notin {"none", "waiting"} => HandedOver(s) <= handed[s] + 1

-----------------------------------------------------------------------------
(* What the documentation says, and the code does not do                   *)

(* docs/adr/0015: a submission that ends without a delivery report reports *)
(* the outcome as unknown; it is an error only if nothing was handed over. *)
UnknownNotError ==
    \A s \in Submission : answer[s] = "error" => HandedOver(s) = 0

(* docs/kafka.md: "applied" means every record was delivered.              *)
AppliedDelivered ==
    \A s \in Submission :
        answer[s] = "Applied" => Fates(s) \subseteq {"appended", "unacked"}

(* docs/kafka.md: "rejected" means that the broker refused all of them.    *)
RejectedRefused ==
    \A s \in Submission : answer[s] = "Rejected" => Fates(s) = {"refused"}

=============================================================================
