------------------------------ MODULE SchemaCache ------------------------------
(***************************************************************************)
(* The decoders of a connection (crates/nats/src/decoding.rs, shared by    *)
(* the pages of a session, with crates/schema-source/src/registry.rs and   *)
(* buf.rs): a page is decoded by a thread that cannot be cancelled, only   *)
(* told; two threads at a time, of all connections, and one at a time in   *)
(* the decoders. Schemas of a registry are kept, a few of them, by their   *)
(* id; the schema of a Buf module, a catalog or a file is kept once, as is *)
(* the client of the registry with its reader schema.                      *)
(*                                                                         *)
(* Schemas are what their source names; 0 is the message whose subject is  *)
(* bound to the Buf module, 1 .. MaxId those of the registry.              *)
(***************************************************************************)
EXTENDS Integers, Sequences, FiniteSets

CONSTANTS
    MaxId,          \* bound: schemas of the registry
    CacheEntries,   \* CACHE_ENTRIES: 8 in the code
    Workers,        \* WORKERS: 2 in the code
    PageRows,       \* bound: messages of a page
    MaxJob,         \* bound: pages
    MaxCommit       \* bound: commits of the label

(* What is kept of a registry has room for the schema that is loaded.      *)
ASSUME CacheAssumption ==
    /\ MaxId \in Nat /\ CacheEntries \in Nat \ {0} /\ PageRows \in Nat
    /\ MaxJob \in Nat /\ MaxCommit \in Nat \ {0}

VARIABLE dec

-----------------------------------------------------------------------------
(* Data *)

Job == 1 .. MaxJob
Id == 1 .. MaxId
Message == 0 .. MaxId

(* at: where the thread of a page is; asked: somebody waits for the page;  *)
(* row and result: the message decoded last, or now, and the id of its     *)
(* schema, -1 for an error or -2 for an interruption ("cancelled or timed  *)
(* out"). dec.registry: 0 until a message asks for it, 1 once it is built. *)
NoJob == [at |-> "none", asked |-> FALSE, left |-> 0, row |-> 0, result |-> 0, commit |-> 0]
Ended == [NoJob EXCEPT !.at = "ended"]
GivenUp == [NoJob EXCEPT !.at = "given up"]

J(j) == dec.job[j]
Holding == {"row", "build", "load", "resolved"}
Holders == {j \in Job : J(j).at \in Holding}
Threads == {j \in Job : J(j).at \in Holding \union {"lock"}}
Cached == {i \in DOMAIN dec.cache : TRUE}
Ids == {dec.cache[i].id : i \in Cached}

-----------------------------------------------------------------------------
(* Cache::apply *)

(* The session asks for one page after the other.                          *)
Apply(j) ==
    /\ J(j).at = "none" /\ \A k \in Job : ~J(k).asked /\ (k < j => J(k).at # "none")
    /\ dec' = [dec EXCEPT !.job[j] = [NoJob EXCEPT !.at = "permit", !.asked = TRUE,
                                                   !.left = PageRows]]

Permit(j) ==
    /\ J(j).at = "permit" /\ J(j).asked /\ Cardinality(Threads) < Workers
    /\ dec' = [dec EXCEPT !.job[j].at = "lock"]

(* The guard is dropped with the request: the thread is told, and goes on  *)
(* until it asks. The deadline is the same.                                *)
Drop(j) ==
    /\ J(j).asked
    /\ dec' = [dec EXCEPT !.job[j] = IF @.at = "permit" THEN Ended
                                     ELSE [@ EXCEPT !.asked = FALSE]]

(* remaining() of a thread whose request is gone; the permit and the lock  *)
(* are given back.                                                         *)
GivesUp(j) ==
    /\ J(j).at = "row" /\ ~J(j).asked
    /\ dec' = [dec EXCEPT !.job[j] = GivenUp]

Lock(j) ==
    /\ J(j).at = "lock" /\ Holders = {}
    /\ dec' = [dec EXCEPT !.job[j].at = "row"]

Decodes(j) == J(j).at = "row" /\ J(j).asked /\ J(j).left > 0

(* A message and the result of its preview.                                *)
Shown(job, message, result) ==
    [job EXCEPT !.at = "row", !.left = @ - 1, !.row = message, !.result = result]

Shows(state, j, message, result) ==
    [state EXCEPT !.job[j] = Shown(@, message, result)]

(* A message whose schema, or the client to ask for it, is not there.      *)
Needs(j, message, place) ==
    [dec EXCEPT !.job[j] = [@ EXCEPT !.at = place, !.row = message]]

(* The page, once all of its rows are decoded.                             *)
Delivered(j) ==
    /\ J(j).at = "row" /\ J(j).asked /\ J(j).left = 0
    /\ dec' = [dec EXCEPT !.job[j] = Ended]

-----------------------------------------------------------------------------
(* Entry::registry and Registry::preview *)

Result(id) == dec.cache[CHOOSE i \in Cached : dec.cache[i].id = id].result

(* What cannot be built is the error of every message from then on.        *)
Preview(j) ==
    /\ Decodes(j)
    /\ \E id \in Id :
          \/ /\ dec.registry = 0
             /\ dec' = Needs(j, id, "build")
          \/ /\ dec.registry < 0
             /\ dec' = Shows(dec, j, id, dec.registry)
          \/ /\ dec.registry = 1
             /\ dec' = IF id \in Ids THEN Shows(dec, j, id, Result(id))
                       ELSE Needs(j, id, "load")

(* Once, with the file of the reader schema (get_or_insert_with): an error *)
(* is kept until the session ends, also that of an interrupted page.       *)
Build(j) ==
    /\ J(j).at = "build"
    /\ \/ /\ J(j).asked
          /\ dec' = [dec EXCEPT !.job[j].at = "load", !.registry = 1]
       \/ LET failed == IF J(j).asked THEN -1 ELSE -2
          IN dec' = Shows([dec EXCEPT !.registry = failed], j, J(j).row, failed)

(* Mutation: a schema that was interrupted is remembered as a failure.     *)
LoadKeeps(j) ==
    /\ J(j).at = "load" /\ J(j).row \in Id
    /\ \E result \in {J(j).row, -1} :
         LET kept == IF Len(dec.cache) = CacheEntries THEN Tail(dec.cache) ELSE dec.cache
             entry == [id |-> J(j).row, result |-> IF J(j).asked THEN result ELSE -2]
         IN dec' = Shows([dec EXCEPT !.cache = Append(kept, entry)], j, J(j).row, entry.result)

(* Mutation: nothing makes room in a full cache.                           *)
LoadNeverEvicts(j) ==
    /\ J(j).at = "load" /\ J(j).row \in Id
    /\ \E result \in {J(j).row, -1} :
         LET entry == [id |-> J(j).row, result |-> result]
         IN dec' = IF ~J(j).asked THEN Shows(dec, j, J(j).row, -2)
                   ELSE Shows([dec EXCEPT !.cache = Append(@, entry)], j, J(j).row, result)

(* load: the schema with its references, or the error (-1) of a registry   *)
(* that fails or takes more than two seconds. Both are kept, the oldest    *)
(* goes; what was interrupted (-2) is not kept.                            *)
Load(j) ==
    /\ J(j).at = "load" /\ J(j).row \in Id
    /\ \E result \in {J(j).row, -1} :
         LET kept == IF Len(dec.cache) = CacheEntries THEN Tail(dec.cache) ELSE dec.cache
             entry == [id |-> J(j).row, result |-> result]
         IN dec' = IF ~J(j).asked THEN Shows(dec, j, J(j).row, -2)
                   ELSE Shows([dec EXCEPT !.cache = Append(kept, entry)], j, J(j).row, result)

-----------------------------------------------------------------------------
(* Entry::load and buf::Config::load: the schema of a label *)

PreviewModule(j) ==
    /\ Decodes(j)
    /\ dec' = IF dec.module.loaded THEN Shows(dec, j, 0, dec.module.result)
              ELSE Needs(j, 0, "load")

(* GetCommits: from here on the commit is the identity of the schema.      *)
Resolve(j) ==
    /\ J(j).at = "load" /\ J(j).row = 0 /\ J(j).asked
    /\ dec' = [dec EXCEPT !.job[j] = [@ EXCEPT !.at = "resolved", !.commit = dec.label],
                          !.module.commit = dec.label]

ModuleIs(j, result) ==
    dec' = Shows([dec EXCEPT !.module.loaded = TRUE, !.module.result = result], j, 0, result)

(* The descriptor of the commit, even if the label has moved.              *)
Fetch(j) ==
    /\ J(j).at = "resolved" /\ J(j).asked
    /\ ModuleIs(j, J(j).commit)

(* An error, also that of an interrupted load, is kept until the session   *)
(* ends (get_or_insert_with).                                              *)
ModuleFails(j) ==
    /\ (J(j).at = "load" /\ J(j).row = 0) \/ J(j).at = "resolved"
    /\ ModuleIs(j, IF J(j).asked THEN -1 ELSE -2)

MoveLabel == dec.label < MaxCommit /\ dec' = [dec EXCEPT !.label = @ + 1]

-----------------------------------------------------------------------------
Init ==
    dec = [job |-> [j \in Job |-> NoJob], registry |-> 0, cache |-> <<>>, label |-> 1,
           module |-> [loaded |-> FALSE, result |-> 0, commit |-> 0]]

Done == (\A j \in Job : J(j).at \in {"ended", "given up"}) /\ UNCHANGED dec

Next ==
    \/ \E j \in Job :
          Apply(j) \/ Permit(j) \/ Drop(j) \/ GivesUp(j) \/ Lock(j) \/ Delivered(j)
          \/ Preview(j) \/ Build(j) \/ Load(j) \/ PreviewModule(j) \/ Resolve(j) \/ Fetch(j)
          \/ ModuleFails(j)
    \/ MoveLabel
    \/ Done

Spec == Init /\ [][Next]_dec

-----------------------------------------------------------------------------
(* Properties *)

TypeOK ==
    /\ \A j \in Job :
          /\ J(j).at \in Holding \union {"none", "permit", "lock", "given up", "ended"}
          /\ J(j).asked \in BOOLEAN /\ J(j).left \in 0 .. PageRows /\ J(j).row \in Message
    /\ dec.registry \in {0, 1, -1, -2}
    /\ Len(dec.cache) <= CacheEntries
    /\ dec.label \in 1 .. MaxCommit

(* A page that nobody waits for any more when it asks, or did.             *)
Interrupted(job) == job.at = "given up" \/ (job.at = "row" /\ ~job.asked)

(* Whatever was cancelled, evicted or loaded in between:                   *)
(* - the cache has an id once, and with it the schema or the failure of    *)
(*   that id, never an interruption;                                       *)
(* - every row that a page shows was decoded with the schema of its own    *)
(*   id, and shows an interruption only in a page that is given up, or     *)
(*   because the client of the registry was interrupted while it was built *)
(*   and keeps that (Entry::registry);                                     *)
(* - the module's rows all show what was loaded once, the commit it names; *)
(* - an interruption that is kept is that of a page that was given up, and *)
(*   never the failure of a registry or module that a page waited for;     *)
(* - one page at a time decodes.                                           *)
DecodedByOwnSchema ==
    /\ Cardinality(Ids) = Len(dec.cache)
    /\ \A i \in Cached : dec.cache[i].result \in {dec.cache[i].id, -1}
    /\ \A j \in Job : J(j).at = "row" /\ J(j).row # 0 =>
          \/ J(j).result \in {J(j).row, -1}
          \/ J(j).result = -2 /\ (~J(j).asked \/ dec.registry = -2)
    /\ \A j \in Job : J(j).at = "row" /\ J(j).row = 0 /\ J(j).result # 0 =>
          J(j).result = dec.module.result
    /\ dec.module.result > 0 => dec.module.result = dec.module.commit
    /\ dec.registry = -2 \/ dec.module.result = -2 => \E j \in Job : Interrupted(J(j))
    /\ Cardinality(Holders) <= 1

=============================================================================
