------------------------------ MODULE PagesProofs ------------------------------
(***************************************************************************)
(* For any number of schemas, pages and threads and any size of the cache, *)
(* a row is decoded with the schema that its message names; for any        *)
(* limits, what a decoder builds of a message stays within them; and pages *)
(* of any size of a stream of any length leave nothing out.                *)
(***************************************************************************)
EXTENDS Pages, OrderingProofs

Place == {"none", "permit", "lock", "row", "build", "load", "resolved", "given up", "ended"}
Kept == {0, 1, -1, -2}

Entry == [id : Id, result : Int]
JobState == [at : Place, asked : BOOLEAN, left : 0 .. PageRows, row : Message, result : Int,
             commit : 0 .. MaxCommit]
Module == [loaded : BOOLEAN, result : Int, commit : 0 .. MaxCommit]
Dec == [job : [Job -> JobState], registry : Kept, cache : Seq(Entry), label : 1 .. MaxCommit,
        module : Module]

(* A cache has an id once, and with it the schema or the failure of it.    *)
Sound(cache) ==
    /\ Len(cache) <= CacheEntries
    /\ \A i \in DOMAIN cache : cache[i].result \in {cache[i].id, -1}
    /\ \A i, k \in DOMAIN cache : cache[i].id = cache[k].id => i = k

Absent(cache, id) == \A i \in DOMAIN cache : cache[i].id # id

(* What a page may show, given what is kept.                               *)
RowIs(job, module, registry) ==
    IF job.row = 0 THEN job.result # 0 => module.loaded /\ job.result = module.result
    ELSE \/ job.result \in {job.row, -1}
         \/ job.result = -2 /\ (~job.asked \/ registry = -2)

(* What the thread of a page has done, by where it is. What it loads is    *)
(* not there, and nobody else can put it there.                            *)
Progresses(job, cache, module, registry) ==
    /\ job.at \in {"permit", "lock"} => job.row = 0 /\ job.result = 0
    /\ job.at = "row" => RowIs(job, module, registry)
    /\ job.at \in {"build", "load", "resolved"} => job.left > 0
    /\ job.at = "build" => job.row # 0 /\ registry = 0
    /\ job.at = "load" /\ job.row # 0 => registry = 1 /\ Absent(cache, job.row)
    /\ job.at = "load" /\ job.row = 0 => ~module.loaded
    /\ job.at = "resolved" => job.row = 0 /\ ~module.loaded /\ job.commit = module.commit

(* The module is what the commit has that its label named.                 *)
Named(module) ==
    /\ ~module.loaded => module.result = 0
    /\ module.result > 0 => module.result = module.commit

Alone == \A j, k \in Job : J(j).at \in Holding /\ J(k).at \in Holding => j = k

(* An interruption is kept.                                                *)
Broken(module, registry) == registry = -2 \/ module.result = -2

Decoding ==
    /\ dec \in Dec /\ Sound(dec.cache) /\ Named(dec.module) /\ Alone
    /\ dec.registry = 0 => dec.cache = <<>>
    /\ \A j \in Job : Progresses(J(j), dec.cache, dec.module, dec.registry)
    /\ Broken(dec.module, dec.registry) => \E j \in Job : Interrupted(J(j))

-----------------------------------------------------------------------------
(* The cache *)

(* As many ids as entries.                                                 *)
LEMMA IdsCounted ==
    ASSUME dec \in Dec, Sound(dec.cache)
    PROVE  Cardinality(Ids) = Len(dec.cache)
  <1> DEFINE n == Len(dec.cache)
             f == [i \in 1 .. n |-> dec.cache[i].id]
  <1>1. n \in Nat /\ DOMAIN dec.cache = 1 .. n
    BY DEF Dec
  <1>2. Ids = {f[i] : i \in 1 .. n}
    BY <1>1 DEF Ids, Cached
  <1>3. f \in Bijection(1 .. n, Ids)
    BY <1>1, <1>2 DEF Sound, Bijection, Injection, Surjection, IsInjective
  <1>4. IsFiniteSet(1 .. n) /\ Cardinality(1 .. n) = n
    <2>1. 1 \in Int /\ n \in Int
      BY <1>1
    <2> HIDE DEF n
    <2>2. IsFiniteSet(1 .. n) /\ Cardinality(1 .. n) = IF 1 > n THEN 0 ELSE n - 1 + 1
      BY <2>1, FS_Interval
    <2> QED
      BY <1>1, <2>2
  <1> QED
    BY <1>3, <1>4, FS_Bijection DEF ExistsBijection

(* A schema that is kept makes the oldest one go, if there is no room.     *)
LEMMA LoadKeepsSound ==
    ASSUME NEW cache \in Seq(Entry), Sound(cache), NEW entry \in Entry,
           Absent(cache, entry.id), entry.result \in {entry.id, -1},
           NEW kept, kept = IF Len(cache) = CacheEntries THEN Tail(cache) ELSE cache
    PROVE  Append(kept, entry) \in Seq(Entry) /\ Sound(Append(kept, entry))
  <1>1. kept \in Seq(Entry) /\ Len(kept) < CacheEntries /\ Sound(kept) /\ Absent(kept, entry.id)
    <2>1. CASE Len(cache) = CacheEntries
      BY <2>1, CacheAssumption DEF Sound, Absent
    <2>2. CASE Len(cache) # CacheEntries
      BY <2>2, CacheAssumption DEF Sound, Absent
    <2> QED
      BY <2>1, <2>2
  <1> QED
    BY <1>1, CacheAssumption DEF Sound, Absent

-----------------------------------------------------------------------------
(* The steps *)

(* A thread with the lock changes what is kept, any other only its own     *)
(* page; nobody gets the lock while another has it, and an interruption is *)
(* kept only by a page that is given up.                                   *)
LEMMA PageSteps ==
    ASSUME Decoding, NEW j \in Job, NEW job \in JobState, NEW cache \in Seq(Entry),
           NEW module \in Module, NEW registry \in Kept,
           Sound(cache), Named(module), registry = 0 => cache = <<>>,
           Progresses(job, cache, module, registry),
           dec' = [dec EXCEPT !.job[j] = job, !.registry = registry, !.cache = cache,
                              !.module = module],
           \/ J(j).at \in Holding
           \/ cache = dec.cache /\ module = dec.module /\ registry = dec.registry,
           job.at \in Holding => J(j).at \in Holding \/ Holders = {},
           Interrupted(J(j)) => Interrupted(job),
           Broken(module, registry) => Interrupted(job) \/ Broken(dec.module, dec.registry)
    PROVE  Decoding'
  <1>1. dec' \in Dec
    BY DEF Decoding, Dec
  <1>2. /\ dec'.cache = cache /\ dec'.module = module /\ dec'.registry = registry
        /\ J(j)' = job /\ \A k \in Job : k # j => J(k)' = J(k)
    BY DEF Decoding, Dec, J
  <1>3. Alone'
    BY <1>2 DEF Decoding, Alone, Holders, Holding
  <1>4. ASSUME NEW k \in Job PROVE Progresses(J(k)', cache, module, registry)
    <2>1. CASE k = j
      BY <2>1, <1>2
    <2>2. CASE k # j /\ J(j).at \in Holding
      <3>1. J(k).at \notin Holding
        BY <2>2 DEF Decoding, Alone
      <3> QED
        BY <2>2, <3>1, <1>2 DEF Decoding, Progresses, Holding
    <2>3. CASE k # j /\ cache = dec.cache /\ module = dec.module /\ registry = dec.registry
      BY <2>3, <1>2 DEF Decoding
    <2> QED
      BY <2>1, <2>2, <2>3
  <1>5. Broken(module, registry) => \E k \in Job : Interrupted(J(k)')
    <2>1. Interrupted(job) => Interrupted(J(j)')
      BY <1>2
    <2>2. ASSUME NEW k \in Job, Interrupted(J(k)) PROVE Interrupted(J(k)')
      BY <2>2, <1>2
    <2> QED
      BY <2>1, <2>2 DEF Decoding
  <1>6. \A k \in Job : Interrupted(J(k)') <=> Interrupted(J(k))'
    BY DEF Interrupted
  <1>7. \A k \in Job : Progresses(J(k), dec.cache, dec.module, dec.registry)'
    BY <1>2, <1>4 DEF Progresses, RowIs, Absent
  <1> QED
    BY <1>1, <1>2, <1>3, <1>5, <1>6, <1>7 DEF Decoding, Sound, Named, Broken

(* The fields of a page and what a shown row makes of them.                *)
LEMMA PageFields ==
    ASSUME Decoding, NEW j \in Job
    PROVE  /\ J(j) \in JobState /\ Progresses(J(j), dec.cache, dec.module, dec.registry)
           /\ dec.cache \in Seq(Entry) /\ dec.module \in Module /\ dec.registry \in Kept
           /\ Sound(dec.cache) /\ Named(dec.module) /\ (dec.registry = 0 => dec.cache = <<>>)
  BY DEF Decoding, Dec, J

(* A row that was shown is one row less to show.                           *)
LEMMA ShownTyped ==
    ASSUME NEW job \in JobState, job.left > 0, NEW message \in Message, NEW result \in Int
    PROVE  /\ Shown(job, message, result) \in JobState
           /\ Shown(job, message, result).at = "row"
           /\ Shown(job, message, result).row = message
           /\ Shown(job, message, result).result = result
           /\ Shown(job, message, result).asked = job.asked
  <1>1. job.left - 1 \in 0 .. PageRows
    BY CacheAssumption DEF JobState
  <1> DEFINE left == job.left - 1
  <1>2. Shown(job, message, result)
          = [job EXCEPT !.at = "row", !.left = left, !.row = message, !.result = result]
    BY DEF Shown
  <1> HIDE DEF left
  <1> QED
    BY <1>1, <1>2, ZenonT(30) DEF JobState, Place, left

(* What a shown row changes, in one form for all the places that show one. *)
Showing(j, message, result, registry, cache, module) ==
    [dec EXCEPT !.job[j] = Shown(J(j), message, result), !.registry = registry,
                !.cache = cache, !.module = module]

LEMMA ShowsIs ==
    ASSUME dec \in Dec, NEW j \in Job, NEW message, NEW result, NEW cache
    PROVE  /\ Shows(dec, j, message, result)
                = Showing(j, message, result, dec.registry, dec.cache, dec.module)
           /\ Shows([dec EXCEPT !.cache = cache], j, message, result)
                = Showing(j, message, result, dec.registry, cache, dec.module)
  <1> DEFINE job == Shown(J(j), message, result)
  <1>1. /\ Shows(dec, j, message, result) = [dec EXCEPT !.job[j] = job]
        /\ Shows([dec EXCEPT !.cache = cache], j, message, result)
              = [dec EXCEPT !.cache = cache, !.job[j] = job]
    BY DEF Shows, Dec, J
  <1> HIDE DEF job
  <1> QED
    BY <1>1 DEF Dec, Showing, job

(* The same where the module changes with the row.                         *)
LEMMA ShowsModuleIs ==
    ASSUME dec \in Dec, NEW j \in Job, NEW message, NEW result, NEW module
    PROVE  Shows([dec EXCEPT !.module = module], j, message, result)
             = Showing(j, message, result, dec.registry, dec.cache, module)
  <1> DEFINE job == Shown(J(j), message, result)
  <1>1. Shows([dec EXCEPT !.module = module], j, message, result)
          = [dec EXCEPT !.module = module, !.job[j] = job]
    BY DEF Shows, Dec, J
  <1> HIDE DEF job
  <1> QED
    BY <1>1 DEF Dec, Showing, job

(* The same where the registry does.                                       *)
LEMMA ShowsRegistryIs ==
    ASSUME dec \in Dec, NEW j \in Job, NEW message, NEW result, NEW registry
    PROVE  Shows([dec EXCEPT !.registry = registry], j, message, result)
             = Showing(j, message, result, registry, dec.cache, dec.module)
  <1> DEFINE job == Shown(J(j), message, result)
  <1>1. Shows([dec EXCEPT !.registry = registry], j, message, result)
          = [dec EXCEPT !.registry = registry, !.job[j] = job]
    BY DEF Shows, Dec, J
  <1> HIDE DEF job
  <1> QED
    BY <1>1 DEF Dec, Showing, job

(* A row is shown, from what is kept or what was loaded for it.            *)
LEMMA RowShown ==
    ASSUME Decoding, NEW j \in Job, J(j).at \in Holding, J(j).left > 0,
           NEW message \in Message, NEW result \in Int,
           NEW registry \in Kept, NEW cache \in Seq(Entry), NEW module \in Module,
           Sound(cache), Named(module), registry = 0 => cache = <<>>,
           message = 0 => module.loaded /\ result = module.result,
           message # 0 => \/ result \in {message, -1}
                          \/ result = -2 /\ (~J(j).asked \/ registry = -2),
           Broken(module, registry) => ~J(j).asked \/ Broken(dec.module, dec.registry),
           dec' = Showing(j, message, result, registry, cache, module)
    PROVE  Decoding'
  <1> DEFINE job == Shown(J(j), message, result)
  <1>1. job \in JobState /\ job.at = "row" /\ job.row = message /\ job.result = result
        /\ job.asked = J(j).asked
    BY PageFields, ShownTyped
  <1>2. dec' = [dec EXCEPT !.job[j] = job, !.registry = registry, !.cache = cache,
                           !.module = module]
    BY DEF Showing
  <1> HIDE DEF job
  <1>3. Progresses(job, cache, module, registry)
    BY <1>1 DEF Progresses, RowIs
  <1>4. /\ Interrupted(J(j)) => Interrupted(job)
        /\ Broken(module, registry) => Interrupted(job) \/ Broken(dec.module, dec.registry)
    BY <1>1 DEF Interrupted, Holding
  <1> QED
    BY <1>1, <1>2, <1>3, <1>4, PageSteps, Zenon

-----------------------------------------------------------------------------
(* A page that was not asked for, or has ended, holds nothing.             *)
LEMMA NoJobTyped ==
    /\ NoJob \in JobState /\ NoJob.at = "none" /\ NoJob.row = 0 /\ NoJob.result = 0
    /\ Ended \in JobState /\ Ended.at = "ended"
    /\ GivenUp \in JobState /\ GivenUp.at = "given up"
  <1>1. 0 \in 0 .. PageRows /\ 0 \in 0 .. MaxCommit /\ 0 \in Message
    BY CacheAssumption DEF Message
  <1>2. NoJob \in JobState /\ NoJob.at = "none" /\ NoJob.row = 0 /\ NoJob.result = 0
    BY <1>1 DEF NoJob, JobState, Place
  <1>3. Ended \in JobState /\ Ended.at = "ended"
    BY <1>2 DEF Ended, JobState, Place
  <1>4. GivenUp \in JobState /\ GivenUp.at = "given up"
    BY <1>2 DEF GivenUp, JobState, Place
  <1> QED
    BY <1>2, <1>3, <1>4

(* Nothing is cached at first, and no page is asked for.                   *)
LEMMA InitDecodes == Init => Decoding
  <1> SUFFICES ASSUME Init PROVE Decoding
    OBVIOUS
  <1>2. dec \in Dec
    <2>1. [j \in Job |-> NoJob] \in [Job -> JobState]
      BY NoJobTyped
    <2>2. 0 \in Kept /\ <<>> \in Seq(Entry)
      BY DEF Kept
    <2>3. [loaded |-> FALSE, result |-> 0, commit |-> 0] \in Module /\ 1 \in 1 .. MaxCommit
      BY CacheAssumption DEF Module
    <2> QED
      BY <2>1, <2>2, <2>3 DEF Init, Dec
  <1>3. \A j \in Job : J(j).at = "none"
    BY NoJobTyped DEF Init, J
  <1>4. Sound(dec.cache) /\ Named(dec.module)
    BY CacheAssumption DEF Init, Sound, Named
  <1> QED
    BY <1>2, <1>3, <1>4 DEF Init, Decoding, Alone, Holding, Progresses, Broken

(* Every step keeps the invariant: most of them change one page and leave  *)
(* the cache alone (<1>0), the others hold the lock.                       *)
LEMMA StepDecodes == Decoding /\ [Next]_dec => Decoding'
  <1> SUFFICES ASSUME Decoding, [Next]_dec PROVE Decoding'
    OBVIOUS
  <1> DEFINE Moves(j, job) == dec' = [dec EXCEPT !.job[j] = job]
  <1>0. ASSUME NEW j \in Job, NEW job \in JobState, Moves(j, job),
               Progresses(job, dec.cache, dec.module, dec.registry),
               job.at \in Holding => J(j).at \in Holding \/ Holders = {},
               Interrupted(J(j)) => Interrupted(job)
        PROVE  Decoding'
    <2>1. dec' = [dec EXCEPT !.job[j] = job, !.registry = dec.registry, !.cache = dec.cache,
                             !.module = dec.module]
      BY <1>0 DEF Decoding, Dec
    <2> QED
      BY <1>0, <2>1, PageFields, PageSteps, Zenon
  <1> HIDE DEF Moves
  <1>1. ASSUME NEW j \in Job, Apply(j) PROVE Decoding'
    <2> DEFINE job == [NoJob EXCEPT !.at = "permit", !.asked = TRUE, !.left = PageRows]
    <2>1. job \in JobState /\ job.at = "permit" /\ job.row = 0 /\ job.result = 0
      <3>1. PageRows \in 0 .. PageRows
        BY CacheAssumption
      <3> QED
        BY <3>1, NoJobTyped DEF JobState, Place
    <2>2. Moves(j, job) /\ ~Interrupted(J(j))
      BY <1>1 DEF Apply, Moves, Interrupted
    <2> HIDE DEF job
    <2> QED
      BY <2>1, <2>2, <1>0 DEF Progresses, Holding
  <1>2. ASSUME NEW j \in Job, Permit(j) PROVE Decoding'
    <2> DEFINE job == [J(j) EXCEPT !.at = "lock"]
    <2>1. job \in JobState /\ job.at = "lock" /\ job.row = J(j).row /\ job.result = J(j).result
      BY PageFields DEF JobState, Place
    <2>2. Moves(j, job) /\ job.row = 0 /\ job.result = 0 /\ ~Interrupted(J(j))
      BY <1>2, <2>1, PageFields DEF Permit, Moves, J, Progresses, Interrupted
    <2> HIDE DEF job
    <2> QED
      BY <2>1, <2>2, <1>0 DEF Progresses, Holding
  <1>3. ASSUME NEW j \in Job, Drop(j) PROVE Decoding'
    <2> DEFINE job == IF J(j).at = "permit" THEN Ended ELSE [J(j) EXCEPT !.asked = FALSE]
    <2>1. /\ job \in JobState /\ Progresses(job, dec.cache, dec.module, dec.registry)
          /\ job.at \in Holding => J(j).at \in Holding
          /\ Interrupted(J(j)) => Interrupted(job)
      <3>1. CASE J(j).at = "permit"
        BY <3>1, NoJobTyped DEF Progresses, Holding, Interrupted
      <3>2. CASE J(j).at # "permit"
        BY <3>2, PageFields DEF JobState, Progresses, RowIs, Interrupted
      <3> QED
        BY <3>1, <3>2
    <2>2. Moves(j, job)
      BY <1>3 DEF Drop, Moves, J
    <2> HIDE DEF job
    <2> QED
      BY <2>1, <2>2, <1>0
  <1>4. ASSUME NEW j \in Job, GivesUp(j) PROVE Decoding'
    <2>1. Moves(j, GivenUp)
      BY <1>4 DEF GivesUp, Moves, J
    <2> QED
      BY <2>1, NoJobTyped, <1>0 DEF Progresses, Holding, Interrupted
  <1>16. ASSUME NEW j \in Job, Delivered(j) PROVE Decoding'
    <2>1. Moves(j, Ended) /\ ~Interrupted(J(j))
      BY <1>16 DEF Delivered, Moves, J, Interrupted
    <2> QED
      BY <2>1, NoJobTyped, <1>0 DEF Progresses, Holding
  <1>5. ASSUME NEW j \in Job, Lock(j) PROVE Decoding'
    <2> DEFINE job == [J(j) EXCEPT !.at = "row"]
    <2>1. job \in JobState /\ job.at = "row" /\ job.row = J(j).row /\ job.result = J(j).result
      BY PageFields DEF JobState, Place, Holding
    <2>2. Moves(j, job) /\ Holders = {} /\ ~Interrupted(J(j))
      BY <1>5 DEF Lock, Moves, J, Interrupted
    <2>3. Progresses(job, dec.cache, dec.module, dec.registry)
      BY <2>1, <1>5, PageFields DEF Progresses, RowIs, Lock
    <2> HIDE DEF job
    <2> QED
      BY <2>1, <2>2, <2>3, <1>0
  <1>6. ASSUME NEW j \in Job, Preview(j) PROVE Decoding'
    <2>1. PICK id \in Id :
            \/ /\ dec.registry = 0
               /\ dec' = Needs(j, id, "build")
            \/ /\ dec.registry < 0
               /\ dec' = Shows(dec, j, id, dec.registry)
            \/ /\ dec.registry = 1
               /\ dec' = IF id \in Ids THEN Shows(dec, j, id, Result(id))
                         ELSE Needs(j, id, "load")
      BY <1>6, Zenon DEF Preview
    <2>2. /\ J(j).at = "row" /\ J(j).asked /\ J(j).left > 0
          /\ id \in Message /\ id # 0 /\ id \in Int /\ ~Interrupted(J(j))
      BY <1>6, CacheAssumption, PageFields
      DEF Preview, Decodes, Message, Id, JobState, Interrupted
    <2>3. ASSUME dec.registry < 0, dec' = Shows(dec, j, id, dec.registry) PROVE Decoding'
      <3>1. dec' = Showing(j, id, dec.registry, dec.registry, dec.cache, dec.module)
        BY <2>3, ShowsIs DEF Decoding
      <3>2. dec.registry \in {-1, -2} /\ dec.registry \in Int
        BY <2>3, PageFields DEF Kept
      <3> QED
        BY <2>2, <3>1, <3>2, PageFields, RowShown DEF Holding
    <2>4. ASSUME id \in Ids, dec' = Shows(dec, j, id, Result(id)) PROVE Decoding'
      <3>1. Result(id) \in {id, -1}
        BY <2>4, PageFields DEF Ids, Cached, Result, Sound
      <3>2. dec' = Showing(j, id, Result(id), dec.registry, dec.cache, dec.module)
        BY <2>4, ShowsIs DEF Decoding
      <3>3. Result(id) \in Int
        BY <2>2, <3>1
      <3> QED
        BY <2>2, <3>1, <3>2, <3>3, PageFields, RowShown DEF Holding
    <2>5. ASSUME NEW at \in {"build", "load"},
                 dec' = Needs(j, id, at),
                 at = "build" => dec.registry = 0,
                 at = "load" => dec.registry = 1 /\ id \notin Ids
          PROVE  Decoding'
      <3> DEFINE job == [J(j) EXCEPT !.at = at, !.row = id]
      <3>1. job \in JobState /\ job.at = at /\ job.row = id /\ job.left = J(j).left
        BY <2>2, PageFields DEF JobState, Place, Holding
      <3>2. Moves(j, job)
        BY <2>5 DEF Needs, Moves, J
      <3>3. at = "load" => Absent(dec.cache, id)
        BY <2>5 DEF Absent, Ids, Cached
      <3>4. Progresses(job, dec.cache, dec.module, dec.registry)
        BY <2>2, <2>5, <3>1, <3>3 DEF Progresses
      <3> HIDE DEF job
      <3> QED
        BY <2>2, <3>1, <3>2, <3>4, <1>0 DEF Holding
    <2> QED
      BY <2>1, <2>3, <2>4, <2>5
  <1>15. ASSUME NEW j \in Job, Build(j) PROVE Decoding'
    <2>1. /\ J(j).at = "build" /\ J(j).left > 0 /\ J(j).row # 0 /\ J(j).row \in Message
          /\ dec.registry = 0 /\ dec.cache = <<>> /\ ~Interrupted(J(j))
      BY <1>15, PageFields DEF Build, Progresses, Interrupted, JobState
    <2>2. CASE dec' = [dec EXCEPT !.job[j].at = "load", !.registry = 1]
      <3> DEFINE job == [J(j) EXCEPT !.at = "load"]
      <3>1. /\ job \in JobState /\ job.at = "load" /\ job.row = J(j).row
            /\ job.left = J(j).left
        BY PageFields DEF JobState, Place, Holding
      <3>2. dec' = [dec EXCEPT !.job[j] = job, !.registry = 1, !.cache = dec.cache,
                               !.module = dec.module]
        BY <2>2 DEF J, Decoding, Dec, JobState
      <3> HIDE DEF job
      <3>3. Progresses(job, dec.cache, dec.module, 1)
        BY <2>1, <3>1 DEF Progresses, Absent
      <3>4. 1 \in Kept /\ (Broken(dec.module, 1) => Broken(dec.module, dec.registry))
        BY DEF Kept, Broken
      <3> QED
        BY <2>1, <3>1, <3>2, <3>3, <3>4, PageFields, PageSteps DEF Holding
    <2>3. CASE ~(dec' = [dec EXCEPT !.job[j].at = "load", !.registry = 1])
      <3> DEFINE failed == IF J(j).asked THEN -1 ELSE -2
      <3>1. dec' = Shows([dec EXCEPT !.registry = failed], j, J(j).row, failed)
        BY <1>15, <2>3 DEF Build
      <3>2. /\ failed \in Kept /\ failed \in Int /\ failed # 0
            /\ failed = -1 \/ (failed = -2 /\ ~J(j).asked)
            /\ Broken(dec.module, failed) => ~J(j).asked \/ Broken(dec.module, dec.registry)
        BY DEF Kept, Broken
      <3> HIDE DEF failed
      <3>3. dec' = Showing(j, J(j).row, failed, failed, dec.cache, dec.module)
        BY <3>1, ShowsRegistryIs DEF Decoding
      <3> QED
        BY <2>1, <3>2, <3>3, PageFields, RowShown DEF Holding
    <2> QED
      BY <2>2, <2>3
  <1>7. ASSUME NEW j \in Job, Load(j) PROVE Decoding'
    <2> DEFINE id == J(j).row
               kept == IF Len(dec.cache) = CacheEntries THEN Tail(dec.cache) ELSE dec.cache
    <2>1. PICK result \in {id, -1} :
            LET entry == [id |-> id, result |-> result]
            IN dec' = IF ~J(j).asked THEN Shows(dec, j, id, -2)
                      ELSE Shows([dec EXCEPT !.cache = Append(kept, entry)], j, id, result)
      BY <1>7 DEF Load
    <2>2. J(j).at = "load" /\ id \in Id /\ J(j).left > 0 /\ id # 0 /\ Absent(dec.cache, id)
          /\ id \in Message /\ id \in Int /\ dec.registry = 1
      BY <1>7, CacheAssumption, PageFields DEF Load, Id, Message, Progresses
    <2> DEFINE entry == [id |-> id, result |-> result]
               cache == Append(kept, entry)
    <2>3. entry \in Entry /\ entry.id = id /\ entry.result = result
      BY <2>2 DEF Entry
    <2> HIDE DEF entry
    <2>4. cache \in Seq(Entry) /\ Sound(cache)
      BY <2>2, <2>3, PageFields, LoadKeepsSound
    <2>5. CASE J(j).asked
      <3>1. dec' = Shows([dec EXCEPT !.cache = cache], j, id, result)
        BY <2>1, <2>5 DEF entry
      <3> HIDE DEF cache
      <3>2. dec' = Showing(j, id, result, dec.registry, cache, dec.module)
        BY <3>1, ShowsIs DEF Decoding
      <3>3. result \in Int
        BY <2>2
      <3> QED
        BY <2>2, <2>4, <3>2, <3>3, PageFields, RowShown DEF Holding
    <2>6. CASE ~J(j).asked
      <3>1. dec' = Showing(j, id, -2, dec.registry, dec.cache, dec.module)
        BY <2>1, <2>6, ShowsIs DEF Decoding
      <3> QED
        BY <2>2, <2>6, <3>1, PageFields, RowShown DEF Holding
    <2> QED
      BY <2>5, <2>6
  <1>8. ASSUME NEW j \in Job, PreviewModule(j) PROVE Decoding'
    <2>1. J(j).at = "row" /\ J(j).left > 0 /\ 0 \in Message /\ ~Interrupted(J(j))
      BY <1>8, CacheAssumption DEF PreviewModule, Decodes, Message, Interrupted
    <2>2. CASE dec.module.loaded
      <3>1. dec' = Showing(j, 0, dec.module.result, dec.registry, dec.cache, dec.module)
        BY <1>8, <2>2, ShowsIs DEF PreviewModule, Decoding
      <3>2. dec.module.result \in Int
        BY PageFields DEF Module
      <3> QED
        BY <2>1, <2>2, <3>1, <3>2, PageFields, RowShown DEF Holding
    <2>3. CASE ~dec.module.loaded
      <3> DEFINE job == [J(j) EXCEPT !.at = "load", !.row = 0]
      <3>1. job \in JobState /\ job.at = "load" /\ job.row = 0 /\ job.left = J(j).left
        BY <2>1, PageFields DEF JobState, Place, Holding
      <3>2. Moves(j, job)
        BY <1>8, <2>3 DEF PreviewModule, Needs, Moves, J
      <3>3. Progresses(job, dec.cache, dec.module, dec.registry)
        BY <2>1, <2>3, <3>1 DEF Progresses
      <3> HIDE DEF job
      <3> QED
        BY <2>1, <3>1, <3>2, <3>3, <1>0 DEF Holding
    <2> QED
      BY <2>2, <2>3
  <1>9. ASSUME NEW j \in Job, Resolve(j) PROVE Decoding'
    <2> DEFINE job == [J(j) EXCEPT !.at = "resolved", !.commit = dec.label]
               module == [dec.module EXCEPT !.commit = dec.label]
    <2>1. J(j).at = "load" /\ J(j).row = 0 /\ J(j).left > 0 /\ ~dec.module.loaded
          /\ dec.label \in 0 .. MaxCommit
      BY <1>9, PageFields DEF Resolve, Progresses, Decoding, Dec
    <2>2. /\ job \in JobState /\ job.at = "resolved" /\ job.row = 0 /\ job.commit = dec.label
          /\ job.left = J(j).left
      BY <2>1, PageFields DEF JobState, Place, Holding
    <2>3. module \in Module /\ Named(module) /\ ~module.loaded /\ module.commit = dec.label
          /\ module.result = dec.module.result
      BY <2>1, PageFields DEF Module, Named
    <2>4. dec' = [dec EXCEPT !.job[j] = job, !.registry = dec.registry, !.cache = dec.cache,
                             !.module = module]
      BY <1>9 DEF Resolve, J, Decoding, Dec, JobState, Module
    <2> HIDE DEF job, module
    <2>5. Progresses(job, dec.cache, module, dec.registry)
      BY <2>1, <2>2, <2>3 DEF Progresses
    <2>6. Broken(module, dec.registry) => Broken(dec.module, dec.registry)
      BY <2>3 DEF Broken
    <2>7. J(j).at \in Holding /\ ~Interrupted(J(j))
      BY <2>1 DEF Holding, Interrupted
    <2> QED
      BY <2>1, <2>2, <2>3, <2>4, <2>5, <2>6, <2>7, PageFields, PageSteps, Zenon
  <1>10. ASSUME NEW j \in Job, NEW result \in Int, ModuleIs(j, result),
                J(j).at \in {"load", "resolved"}, result > 0 => result = dec.module.commit,
                result = -2 => ~J(j).asked
         PROVE  Decoding'
    <2> DEFINE module == [dec.module EXCEPT !.loaded = TRUE, !.result = result]
    <2>1. module \in Module /\ Named(module) /\ module.loaded /\ module.result = result
      BY <1>10, PageFields DEF Module, Named
    <2>2. dec' = Shows([dec EXCEPT !.module = module], j, 0, result)
      BY <1>10 DEF ModuleIs, Decoding, Dec, Module
    <2> HIDE DEF module
    <2>3. dec' = Showing(j, 0, result, dec.registry, dec.cache, module)
      BY <2>2, ShowsModuleIs DEF Decoding
    <2>4. J(j).at \in Holding /\ J(j).left > 0 /\ 0 \in Message
      BY <1>10, CacheAssumption, PageFields DEF Holding, Progresses, Message
    <2>5. Broken(module, dec.registry) => ~J(j).asked \/ Broken(dec.module, dec.registry)
      BY <2>1, <1>10 DEF Broken
    <2> QED
      BY <2>1, <2>3, <2>4, <2>5, <1>10, PageFields, RowShown
  <1>11. ASSUME NEW j \in Job, Fetch(j) PROVE Decoding'
    <2>1. J(j).at = "resolved" /\ J(j).commit = dec.module.commit /\ J(j).commit \in Int
          /\ J(j).commit # -2
      BY <1>11, CacheAssumption, PageFields DEF Fetch, Progresses, JobState
    <2> QED
      BY <1>10, <1>11, <2>1 DEF Fetch
  <1>12. ASSUME NEW j \in Job, ModuleFails(j) PROVE Decoding'
    <2> DEFINE result == IF J(j).asked THEN -1 ELSE -2
    <2>1. result \in Int /\ ~(result > 0) /\ (result = -2 => ~J(j).asked)
      OBVIOUS
    <2>2. ModuleIs(j, result) /\ J(j).at \in {"load", "resolved"}
      BY <1>12 DEF ModuleFails
    <2> HIDE DEF result
    <2> QED
      BY <1>10, <2>1, <2>2
  <1>13. ASSUME MoveLabel PROVE Decoding'
    <2>1. dec.label + 1 \in 1 .. MaxCommit
      BY <1>13, CacheAssumption DEF MoveLabel, Decoding, Dec
    <2>2. dec' \in Dec /\ dec'.job = dec.job /\ dec'.cache = dec.cache
          /\ dec'.module = dec.module /\ dec'.registry = dec.registry
      BY <1>13, <2>1 DEF MoveLabel, Decoding, Dec
    <2> QED
      BY <2>2 DEF Decoding, Alone, J
  <1>14. ASSUME UNCHANGED dec PROVE Decoding'
    BY <1>14 DEF Decoding, Alone, J
  <1> QED
    BY <1>1, <1>2, <1>3, <1>4, <1>5, <1>6, <1>7, <1>8, <1>9, <1>11, <1>12, <1>13, <1>14,
       <1>15, <1>16
    DEF Next, Done

-----------------------------------------------------------------------------
(* The pages of all *)

all == <<part, scan, log, shard, listing, rel, dec, walk>>

(* A step is one of the part that the behavior is of.                      *)
LEMMA OnePartMoves ==
    ASSUME [PagesNext]_all
    PROVE  /\ part' = part
           /\ [Next]_dec
           /\ part = "nats" => [NatsStream!Next]_scan
           /\ part = "bounds" => Bounds!Next \/ walk' = walk
  BY DEF PagesNext, OfNats, OfKafka, OfDynamoDb, OfListing, OfPostgres, OfDecoding, Walks, all

(* The decoders make their own steps, and meanwhile none.                  *)
LEMMA PagesDecode == PagesSpec => Spec
  <1>1. PagesInit => Init
    BY DEF PagesInit
  <1> QED
    BY <1>1, OnePartMoves, PTL DEF PagesSpec, Spec, all

(* The invariant holds always.                                             *)
LEMMA DecodingAlways == PagesSpec => []Decoding
  <1>1. Spec => []Decoding
    BY InitDecodes, StepDecodes, PTL DEF Spec
  <1> QED
    BY <1>1, PagesDecode, PTL

-----------------------------------------------------------------------------
(* The pages, the cache and the label keep their types, and the cache its  *)
(* size, however many pages are cancelled.                                 *)
THEOREM CacheTyped == PagesSpec => []TypeOK
  <1>1. Decoding => TypeOK
    BY DEF Decoding, Dec, Sound, TypeOK, J, JobState, Place, Holding, Kept
  <1> QED
    BY <1>1, DecodingAlways, PTL

(* For every size of the cache and any number of schemas: an id is kept    *)
(* once and with its own schema, a row that is shown was decoded with the  *)
(* schema that its message names, and only a page that is given up leaves  *)
(* an interruption behind, of the registry's client or of the module       *)
(* (Registry::preview, Entry::registry, Entry::load, Cache::apply).        *)
THEOREM RowsHaveTheirSchema == PagesSpec => []DecodedByOwnSchema
  <1>1. Decoding => DecodedByOwnSchema
    <2> SUFFICES ASSUME Decoding PROVE DecodedByOwnSchema
      OBVIOUS
    <2>1. Cardinality(Ids) = Len(dec.cache)
      BY IdsCounted DEF Decoding
    <2>2. Cardinality(Holders) <= 1
      <3>1. CASE Holders = {}
        BY <3>1, FS_EmptySet
      <3>2. ASSUME NEW j \in Holders PROVE Holders = {j}
        BY DEF Decoding, Alone, Holders
      <3>3. ASSUME NEW j \in Holders PROVE Cardinality(Holders) = 1
        BY <3>2, FS_Singleton
      <3> QED
        BY <3>1, <3>3
    <2>3. \A i \in Cached : dec.cache[i].result \in {dec.cache[i].id, -1}
      BY DEF Decoding, Sound, Cached
    <2>4. dec.module.result > 0 => dec.module.result = dec.module.commit
      BY DEF Decoding, Named
    <2>5. \A j \in Job : J(j).at = "row" /\ J(j).row # 0 =>
            \/ J(j).result \in {J(j).row, -1}
            \/ J(j).result = -2 /\ (~J(j).asked \/ dec.registry = -2)
      BY DEF Decoding, Progresses, RowIs
    <2>6. \A j \in Job : J(j).at = "row" /\ J(j).row = 0 /\ J(j).result # 0 =>
            J(j).result = dec.module.result
      BY DEF Decoding, Progresses, RowIs
    <2>7. dec.registry = -2 \/ dec.module.result = -2 => \E j \in Job : Interrupted(J(j))
      BY DEF Decoding, Broken
    <2> QED
      BY <2>1, <2>2, <2>3, <2>4, <2>5, <2>6, <2>7 DEF DecodedByOwnSchema
  <1> QED
    BY <1>1, DecodingAlways, PTL

-----------------------------------------------------------------------------
(* The walk of a message *)

Frames == {"one", "fields", "elements", "variants", "array", "map", "message", "group"}
FrameState == [kind : Frames, left : Nat, pick : Int, real : BOOLEAN]
WalkState == {"walking", "accepted", "refused", "raw"}
WalkRecord ==
    [mode : Bounds!Mode, state : WalkState, stack : Seq(FrameState), nodes : Nat, names : Nat,
     rest : Nat, built : Nat, named : Nat, deep : Nat, output : Nat]

(* What is built was charged before, and what was charged is affordable; a *)
(* group always has the body below it in which it goes on.                 *)
Charged ==
    /\ walk \in WalkRecord
    /\ walk.built <= walk.nodes /\ walk.nodes <= MaxNodes
    /\ walk.named <= walk.names /\ walk.names <= MaxNames
    /\ walk.deep <= MaxDepth /\ walk.output <= MaxOutput
    /\ walk.state \in {"accepted", "raw"} => walk.rest = 0
    /\ Len(walk.stack) > 0 => walk.stack[1].kind # "group"

(* What a node may be: nothing is built of it that is not charged.         *)
NodeState ==
    [cost : Nat, names : Nat, bytes : Nat, count : Nat, built : Nat, below : {0, 1}, taken : Nat]

BodyFrames == {<<>>} \union {<<f>> : f \in FrameState}

LEMMA BoundsNaturals ==
    MaxNodes \in Nat \ {0} /\ MaxDepth \in Nat /\ MaxNames \in Nat /\ MaxBytes \in Nat
    /\ MaxOutput \in Nat
  BY PagesAssumption

(* The top of a stack that is not empty, and what is below it.             *)
LEMMA TopFrame ==
    ASSUME Charged, walk.stack # <<>>
    PROVE  /\ Len(walk.stack) \in Nat \ {0}
           /\ Bounds!Top \in FrameState /\ Bounds!Top = walk.stack[Len(walk.stack)]
           /\ Bounds!Below(walk.stack) \in Seq(FrameState)
           /\ Len(Bounds!Below(walk.stack)) = Len(walk.stack) - 1
           /\ \A i \in 1 .. Len(walk.stack) - 1 : Bounds!Below(walk.stack)[i] = walk.stack[i]
  <1> DEFINE s == walk.stack
  <1>1. s \in Seq(FrameState) /\ s # <<>>
    BY DEF Charged, WalkRecord
  <1> HIDE DEF s
  <1>2. Len(s) \in Nat \ {0} /\ s[Len(s)] \in FrameState
    BY <1>1
  <1>3. SubSeq(s, 1, Len(s) - 1) \in Seq(FrameState)
        /\ Len(SubSeq(s, 1, Len(s) - 1)) = Len(s) - 1
        /\ \A i \in 1 .. Len(s) - 1 : SubSeq(s, 1, Len(s) - 1)[i] = s[i]
    <2> DEFINE n == Len(s) - 1
    <2>1. /\ 1 \in Int /\ n \in Nat /\ n - 1 + 1 = n /\ n <= Len(s)
          /\ \A i \in 1 .. n : s[i] \in FrameState
          /\ \A k \in 1 .. n : 1 + k - 1 = k
      BY <1>1, <1>2
    <2> HIDE DEF n
    <2>2. /\ SubSeq(s, 1, n) \in Seq(FrameState)
          /\ Len(SubSeq(s, 1, n)) = IF 1 <= n THEN n - 1 + 1 ELSE 0
          /\ \A i \in 1 .. n - 1 + 1 : SubSeq(s, 1, n)[i] = s[1 + i - 1]
      BY <2>1, SubSeqProperties
    <2>3. Len(SubSeq(s, 1, n)) = n /\ \A i \in 1 .. n : SubSeq(s, 1, n)[i] = s[i]
      BY <2>1, <2>2
    <2> QED
      BY <2>2, <2>3 DEF n
  <1> QED
    BY <1>2, <1>3 DEF s, Bounds!Top, Bounds!Below

LEMMA RefusedStays ==
    ASSUME Charged, walk.state = "walking", Bounds!Refuse
    PROVE  Charged'
  BY DEF Charged, WalkRecord, WalkState, Bounds!Refuse

(* A stack whose top is replaced, with or without a frame above it.        *)
LEMMA StackReplaced ==
    ASSUME Charged, walk.stack # <<>>, NEW top \in FrameState, top.kind = Bounds!Top.kind,
           NEW frames \in BodyFrames
    PROVE  LET s == Append(Bounds!Below(walk.stack), top) \o frames IN
           s \in Seq(FrameState) /\ Len(s) > 0 /\ s[1].kind # "group"
  <1> DEFINE front == Bounds!Below(walk.stack)
             s == Append(front, top)
             n == Len(walk.stack)
  <1>1. /\ n \in Nat \ {0} /\ front \in Seq(FrameState) /\ Len(front) = n - 1
        /\ \A i \in 1 .. n - 1 : front[i] = walk.stack[i]
        /\ Bounds!Top = walk.stack[n] /\ walk.stack[1].kind # "group"
    BY TopFrame DEF Charged
  <1> HIDE DEF front, n
  <1>2. s \in Seq(FrameState) /\ Len(s) = n /\ s[n] = top
        /\ \A i \in 1 .. n - 1 : s[i] = front[i]
    BY <1>1
  <1>3. s[1].kind # "group"
    <2>1. CASE n = 1
      BY <2>1, <1>1, <1>2
    <2>2. CASE n # 1
      BY <2>2, <1>1, <1>2
    <2> QED
      BY <2>1, <2>2
  <1> HIDE DEF s
  <1>4. CASE frames = <<>>
    BY <1>1, <1>2, <1>3, <1>4 DEF s, front
  <1>5. ASSUME NEW f \in FrameState, frames = <<f>>
        PROVE  s \o frames \in Seq(FrameState) /\ Len(s \o frames) > 0
               /\ (s \o frames)[1] = s[1]
    BY <1>1, <1>2, <1>5
  <1> QED
    BY <1>3, <1>4, <1>5 DEF BodyFrames, s, front

(* A node is walked: what the budget has left pays for it.                 *)
LEMMA VisitStays ==
    ASSUME Charged, walk.state = "walking", walk.stack # <<>>,
           NEW node \in NodeState, node.built <= node.cost, node.taken <= Bounds!Top.left,
           NEW frames \in BodyFrames, Bounds!Visit(node, frames)
    PROVE  Charged'
  <1>1. CASE ~Bounds!Affordable(node)
    BY <1>1, RefusedStays DEF Bounds!Visit
  <1>2. CASE Bounds!Affordable(node)
    <2> DEFINE top == [Bounds!Top EXCEPT !.left = @ - node.taken]
               stack == Append(Bounds!Below(walk.stack), top) \o frames
               built == walk.built + (IF Bounds!Real THEN node.built ELSE 0)
               named == walk.named + (IF Bounds!Real THEN node.names ELSE 0)
               deep == IF Bounds!Real THEN Bounds!Max({walk.deep, Bounds!Depth + node.below})
                       ELSE walk.deep
    <2>1. /\ Bounds!Depth + node.below <= MaxDepth /\ walk.nodes + node.cost <= MaxNodes
          /\ walk.names + node.names <= MaxNames /\ node.bytes <= walk.rest
      BY <1>2 DEF Bounds!Affordable
    <2>2. top \in FrameState /\ top.kind = Bounds!Top.kind
      <3> DEFINE t == Bounds!Top
      <3>1. t \in FrameState /\ node.taken \in Nat
        BY TopFrame DEF NodeState
      <3> HIDE DEF t
      <3>2. t.left - node.taken \in Nat
        BY <3>1 DEF FrameState, t
      <3>3. [t EXCEPT !.left = t.left - node.taken] \in FrameState
            /\ [t EXCEPT !.left = t.left - node.taken].kind = t.kind
        BY <3>1, <3>2 DEF FrameState
      <3> QED
        BY <3>3 DEF t
    <2>3. stack \in Seq(FrameState) /\ Len(stack) > 0 /\ stack[1].kind # "group"
      BY <2>2, StackReplaced
    <2>4. Bounds!Depth \in Nat
      BY TopFrame DEF Bounds!Depth
    <2>5. deep \in Nat /\ deep <= MaxDepth
      <3>1. walk.deep \in Nat /\ walk.deep <= MaxDepth /\ node.below \in Nat
        BY SMTT(20) DEF Charged, WalkRecord, NodeState
      <3>2. ASSUME NEW a \in Nat, NEW b \in Nat PROVE Bounds!Max({a, b}) \in {a, b}
        <4>1. \E x \in {a, b} : \A y \in {a, b} : x >= y
          BY <3>2
        <4> QED
          BY <4>1 DEF Bounds!Max
      <3> QED
        BY <2>1, <2>4, <3>1, <3>2
    <2>6. walk' = [walk EXCEPT !.nodes = walk.nodes + node.cost,
                               !.names = walk.names + node.names, !.rest = walk.rest - node.bytes,
                               !.built = built, !.named = named, !.deep = deep, !.stack = stack]
      BY <1>2 DEF Bounds!Visit, Charged, WalkRecord, Bounds!Below
    <2>7. /\ built \in Nat /\ built <= walk.nodes + node.cost
          /\ named \in Nat /\ named <= walk.names + node.names
      <3>1. /\ {walk.nodes, walk.names, walk.built, walk.named} \subseteq Nat
            /\ {node.cost, node.names, node.built} \subseteq Nat
            /\ walk.built <= walk.nodes /\ walk.named <= walk.names
        BY DEF Charged, WalkRecord, NodeState
      <3>2. built \in Nat /\ built <= walk.nodes + node.cost
        BY <3>1
      <3>3. named \in Nat /\ named <= walk.names + node.names
        BY <3>1
      <3> QED
        BY <3>2, <3>3
    <2>8. /\ walk.nodes + node.cost \in Nat /\ walk.names + node.names \in Nat
          /\ walk.rest - node.bytes \in Nat
      <3>1. walk.nodes \in Nat /\ walk.names \in Nat /\ walk.rest \in Nat
        BY DEF Charged, WalkRecord
      <3>2. node.cost \in Nat /\ node.names \in Nat /\ node.bytes \in Nat
        BY DEF NodeState
      <3>3. node.bytes <= walk.rest
        BY <2>1
      <3> QED
        BY <3>1, <3>2, <3>3, SMTT(30)
    <2> HIDE DEF built, named, deep, stack, top
    <2>9. walk' \in WalkRecord
      BY <2>3, <2>5, <2>6, <2>7, <2>8 DEF Charged, WalkRecord
    <2>10. /\ walk'.nodes = walk.nodes + node.cost /\ walk'.names = walk.names + node.names
           /\ walk'.built = built /\ walk'.named = named /\ walk'.deep = deep
           /\ walk'.stack = stack /\ walk'.output = walk.output /\ walk'.state = "walking"
      BY <2>6 DEF Charged, WalkRecord
    <2> QED
      BY <2>1, <2>3, <2>5, <2>7, <2>9, <2>10 DEF Charged
  <1> QED
    BY <1>1, <1>2

-----------------------------------------------------------------------------
(* The steps of the walk *)

(* A node of one value, or of a value with its key or its default, is paid *)
(* for before it is built.                                                 *)
Payable(node) == node \in NodeState /\ node.built <= node.cost /\ node.taken = 1

LEMMA FrameOpens ==
    ASSUME Charged, walk.stack # <<>>, NEW kind \in Frames, NEW left \in Nat
    PROVE  Bounds!Frame(kind, left) \in FrameState
  <1>1. Bounds!Real \in BOOLEAN
    BY TopFrame DEF Bounds!Real, FrameState
  <1> HIDE DEF Bounds!Real
  <1> QED
    BY <1>1 DEF Bounds!Frame, FrameState

LEMMA NodePayable == Payable(Bounds!Node) /\ Bounds!Node.cost = 1
  BY DEF Payable, NodeState, Bounds!Node

LEMMA FieldsPayable ==
    ASSUME NEW a \in Nat, NEW b \in Nat
    PROVE  /\ Payable([Bounds!Node EXCEPT !.bytes = a, !.names = b])
           /\ Payable([Bounds!Node EXCEPT !.names = a, !.count = b])
           /\ Payable([Bounds!Node EXCEPT !.count = a, !.names = b])
           /\ b <= 1 => Payable([Bounds!Node EXCEPT !.bytes = a, !.built = b])
  <1> DEFINE n == Bounds!Node
  <1>1. n \in NodeState /\ n.cost = 1 /\ n.built <= n.cost /\ n.taken = 1
    BY NodePayable DEF Payable
  <1> HIDE DEF n
  <1>2. /\ [n EXCEPT !.bytes = a, !.names = b] \in NodeState
        /\ [n EXCEPT !.names = a, !.count = b] \in NodeState
        /\ [n EXCEPT !.count = a, !.names = b] \in NodeState
        /\ [n EXCEPT !.bytes = a, !.built = b] \in NodeState
    BY <1>1 DEF NodeState
  <1>3. /\ Payable([n EXCEPT !.bytes = a, !.names = b])
        /\ Payable([n EXCEPT !.names = a, !.count = b])
        /\ Payable([n EXCEPT !.count = a, !.names = b])
    BY <1>1, <1>2 DEF Payable, NodeState
  <1>4. b <= 1 => Payable([n EXCEPT !.bytes = a, !.built = b])
    BY <1>1, <1>2 DEF Payable, NodeState
  <1> QED
    BY <1>3, <1>4 DEF n

LEMMA KeyedPayable ==
    ASSUME Charged, walk.stack # <<>>, NEW node, Payable(node)
    PROVE  Payable(Bounds!Keyed(node))
  <1> DEFINE keyed == [node EXCEPT !.cost = @ + 1, !.bytes = @ + 1, !.built = @ + 1]
  <1>1. /\ {node.cost, node.bytes, node.built} \subseteq Nat /\ node \in NodeState
        /\ node.built <= node.cost /\ node.taken = 1
    BY DEF Payable, NodeState
  <1>2. keyed = [node EXCEPT !.cost = node.cost + 1, !.bytes = node.bytes + 1,
                             !.built = node.built + 1]
    BY <1>1 DEF NodeState
  <1>3. /\ node.cost + 1 \in Nat /\ node.bytes + 1 \in Nat /\ node.built + 1 \in Nat
        /\ node.built + 1 <= node.cost + 1
    BY <1>1
  <1> HIDE DEF keyed
  <1>4. /\ keyed \in NodeState /\ keyed.taken = 1
        /\ keyed.built = node.built + 1 /\ keyed.cost = node.cost + 1
    BY <1>1, <1>2, <1>3 DEF NodeState
  <1> QED
    BY <1>3, <1>4 DEF Payable, Bounds!Keyed, keyed

LEMMA DefaultPayable ==
    ASSUME NEW node, Payable(node), NEW missing \in BOOLEAN
    PROVE  Payable(Bounds!Default(node, missing))
  <1> DEFINE late == [node EXCEPT !.cost = @ + 1, !.built = @ + 1]
  <1>1. /\ {node.cost, node.built} \subseteq Nat /\ node \in NodeState
        /\ node.built <= node.cost /\ node.taken = 1
    BY DEF Payable, NodeState
  <1>2. late = [node EXCEPT !.cost = node.cost + 1, !.built = node.built + 1]
    BY <1>1 DEF NodeState
  <1>3. node.cost + 1 \in Nat /\ node.built + 1 \in Nat /\ node.built + 1 <= node.cost + 1
    BY <1>1
  <1> HIDE DEF late
  <1>4. /\ late \in NodeState /\ late.taken = 1
        /\ late.built = node.built + 1 /\ late.cost = node.cost + 1
    BY <1>1, <1>2, <1>3 DEF NodeState
  <1> QED
    BY <1>3, <1>4 DEF Payable, Bounds!Default, late

LEMMA PayableVisit ==
    ASSUME Charged, walk.state = "walking", walk.stack # <<>>, Bounds!Top.left > 0,
           NEW node, Payable(node), NEW frames \in BodyFrames, Bounds!Visit(node, frames)
    PROVE  Charged'
  <1>1. node \in NodeState /\ node.built <= node.cost /\ node.taken <= Bounds!Top.left
    BY TopFrame DEF Payable, FrameState
  <1> QED
    BY <1>1, VisitStays

LEMMA NoFrame == <<>> \in BodyFrames
  BY DEF BodyFrames

LEMMA OneFrame ==
    ASSUME Charged, walk.stack # <<>>, NEW kind \in Frames, NEW left \in Nat
    PROVE  <<Bounds!Frame(kind, left)>> \in BodyFrames
  BY FrameOpens DEF BodyFrames

(* The JSON of a schema, and a decoded value under a reader's schema.      *)
LEMMA SchemaStays ==
    ASSUME Charged, Bounds!SchemaScalar \/ Bounds!SchemaContainer
    PROVE  Charged'
  <1>1. CASE Bounds!SchemaScalar
    <2>1. Bounds!Walking("schema") /\ Bounds!Top.left > 0 /\ Bounds!Visit(Bounds!Node, <<>>)
      BY <1>1 DEF Bounds!SchemaScalar
    <2>2. Payable(Bounds!Node)
      BY NodePayable DEF Payable, NodeState
    <2> QED
      BY <2>1, <2>2, NoFrame, PayableVisit DEF Bounds!Walking
  <1>2. CASE Bounds!SchemaContainer
    <2>1. Bounds!Walking("schema") /\ Bounds!Top.left > 0
      BY <1>2, Zenon DEF Bounds!SchemaContainer
    <2>2. PICK count \in 0 .. MaxNodes, named \in BOOLEAN :
             Bounds!Visit([Bounds!Node EXCEPT !.count = count,
                                              !.names = IF named THEN count ELSE 0],
                          <<Bounds!Frame("fields", count)>>)
      BY <1>2, Zenon DEF Bounds!SchemaContainer
    <2>3. Payable([Bounds!Node EXCEPT !.count = count, !.names = IF named THEN count ELSE 0])
      <3> DEFINE names == IF named THEN count ELSE 0
      <3>1. count \in Nat /\ names \in Nat
        OBVIOUS
      <3> HIDE DEF names
      <3>2. Payable([Bounds!Node EXCEPT !.count = count, !.names = names])
        BY <3>1, FieldsPayable, Zenon
      <3> QED
        BY <3>2 DEF names
    <2>4. <<Bounds!Frame("fields", count)>> \in BodyFrames
      BY <2>1, OneFrame DEF Bounds!Walking, Frames
    <2> QED
      BY <2>1, <2>2, <2>3, <2>4, PayableVisit DEF Bounds!Walking
  <1> QED
    BY <1>1, <1>2

LEMMA ReaderStays ==
    ASSUME Charged, Bounds!ReaderScalar \/ Bounds!ReaderRecord \/ Bounds!ReaderElements
                    \/ Bounds!ReaderWrapped \/ Bounds!ReaderUnion
    PROVE  Charged'
  <1>1. Bounds!Walking("reader") /\ Bounds!Top.left > 0
    BY Zenon DEF Bounds!ReaderScalar, Bounds!ReaderRecord, Bounds!ReaderElements,
           Bounds!ReaderWrapped, Bounds!ReaderUnion
  <1>2. walk.state = "walking" /\ walk.stack # <<>>
    BY <1>1 DEF Bounds!Walking
  <1>3. CASE Bounds!ReaderScalar
    <2>1. PICK named \in {0, 1}, missing \in {FALSE, Bounds!Top.kind = "fields"} :
             Bounds!Visit(Bounds!Default([Bounds!Node EXCEPT !.names = named], missing), <<>>)
      BY <1>3 DEF Bounds!ReaderScalar
    <2>2. Payable([Bounds!Node EXCEPT !.names = named])
      BY NodePayable DEF Payable, NodeState
    <2> QED
      BY <1>1, <1>2, <2>1, <2>2, DefaultPayable, NoFrame, PayableVisit
  <1>4. CASE Bounds!ReaderRecord
    <2>1. PICK count \in 0 .. MaxNodes, missing \in {FALSE, Bounds!Top.kind = "fields"} :
             Bounds!Visit(Bounds!Default([Bounds!Node EXCEPT !.names = count, !.count = count],
                                         missing),
                          <<Bounds!Frame("fields", count)>>)
      BY <1>4, Zenon DEF Bounds!ReaderRecord
    <2>2. Payable([Bounds!Node EXCEPT !.names = count, !.count = count])
      <3>1. count \in Nat
        OBVIOUS
      <3> QED
        BY <3>1, FieldsPayable, Zenon
    <2>3. <<Bounds!Frame("fields", count)>> \in BodyFrames
      BY <1>2, OneFrame DEF Frames
    <2> QED
      BY <1>1, <1>2, <2>1, <2>2, <2>3, DefaultPayable, PayableVisit
  <1>5. CASE Bounds!ReaderElements
    <2>1. PICK count \in 0 .. MaxNodes, keys \in BOOLEAN,
               missing \in {FALSE, Bounds!Top.kind = "fields"} :
             Bounds!Visit(Bounds!Default([Bounds!Node EXCEPT
                                             !.names = IF keys THEN count ELSE 0,
                                             !.count = count], missing),
                          <<Bounds!Frame("elements", count)>>)
      BY <1>5, Zenon DEF Bounds!ReaderElements
    <2>2. Payable([Bounds!Node EXCEPT !.names = IF keys THEN count ELSE 0, !.count = count])
      <3> DEFINE names == IF keys THEN count ELSE 0
      <3>1. count \in Nat /\ names \in Nat
        OBVIOUS
      <3> HIDE DEF names
      <3>2. Payable([Bounds!Node EXCEPT !.names = names, !.count = count])
        BY <3>1, FieldsPayable, Zenon
      <3> QED
        BY <3>2 DEF names
    <2>3. <<Bounds!Frame("elements", count)>> \in BodyFrames
      BY <1>2, OneFrame DEF Frames
    <2> QED
      BY <1>1, <1>2, <2>1, <2>2, <2>3, DefaultPayable, PayableVisit
  <1>6. CASE Bounds!ReaderWrapped
    <2>1. PICK union \in {0, 1} : Bounds!Visit([Bounds!Node EXCEPT !.built = union],
                                               <<Bounds!Frame("one", 1)>>)
      BY <1>6 DEF Bounds!ReaderWrapped
    <2>2. Payable([Bounds!Node EXCEPT !.built = union])
      BY NodePayable DEF Payable, NodeState
    <2>3. <<Bounds!Frame("one", 1)>> \in BodyFrames
      BY <1>2, OneFrame DEF Frames
    <2> QED
      BY <1>1, <1>2, <2>1, <2>2, <2>3, PayableVisit
  <1>7. CASE Bounds!ReaderUnion
    <2>1. PICK count \in 1 .. 2, missing \in {FALSE, Bounds!Top.kind = "fields"} :
             \E pick \in 1 .. count :
                Bounds!Visit(Bounds!Default(Bounds!Node, missing),
                             <<[Bounds!Frame("variants", count) EXCEPT !.pick = pick]>>)
      BY <1>7 DEF Bounds!ReaderUnion
    <2>2. PICK pick \in 1 .. count :
             Bounds!Visit(Bounds!Default(Bounds!Node, missing),
                          <<[Bounds!Frame("variants", count) EXCEPT !.pick = pick]>>)
      BY <2>1
    <2>3. Payable(Bounds!Node)
      BY NodePayable DEF Payable, NodeState
    <2>4. <<[Bounds!Frame("variants", count) EXCEPT !.pick = pick]>> \in BodyFrames
      <3> DEFINE f == Bounds!Frame("variants", count)
      <3>1. f \in FrameState
        BY <1>2, FrameOpens DEF Frames
      <3> HIDE DEF f
      <3>2. [f EXCEPT !.pick = pick] \in FrameState
        BY <3>1 DEF FrameState
      <3> QED
        BY <3>2 DEF BodyFrames, f
    <2> QED
      BY <1>1, <1>2, <2>2, <2>3, <2>4, DefaultPayable, PayableVisit
  <1> QED
    BY <1>3, <1>4, <1>5, <1>6, <1>7

(* An Avro message.                                                        *)
LEMMA DatumStays ==
    ASSUME Charged, Bounds!DatumScalar \/ Bounds!DatumUnion \/ Bounds!DatumRecord
                    \/ Bounds!DatumBlocks
    PROVE  Charged'
  <1>1. Bounds!Walking("datum") /\ Bounds!Top.left > 0
    BY Zenon DEF Bounds!DatumScalar, Bounds!DatumUnion, Bounds!DatumRecord, Bounds!DatumBlocks
  <1>2. walk.state = "walking" /\ walk.stack # <<>>
    BY <1>1 DEF Bounds!Walking
  <1>3. CASE Bounds!DatumScalar
    <2>1. PICK width \in {0, 1}, named \in {0, 1} :
             Bounds!Visit(Bounds!Keyed([Bounds!Node EXCEPT !.bytes = width, !.names = named]),
                          <<>>)
      BY <1>3, Zenon DEF Bounds!DatumScalar
    <2>2. Payable([Bounds!Node EXCEPT !.bytes = width, !.names = named])
      BY FieldsPayable, Zenon
    <2> QED
      BY <1>1, <1>2, <2>1, <2>2, KeyedPayable, NoFrame, PayableVisit
  <1>4. CASE Bounds!DatumUnion
    <2>1. PICK union \in {0, 1} :
             Bounds!Visit(Bounds!Keyed([Bounds!Node EXCEPT !.bytes = union, !.built = union]),
                          <<Bounds!Frame("one", 1)>>)
      BY <1>4 DEF Bounds!DatumUnion
    <2>2. Payable([Bounds!Node EXCEPT !.bytes = union, !.built = union])
      <3>1. union \in Nat /\ union <= 1
        OBVIOUS
      <3> QED
        BY <3>1, FieldsPayable, Zenon
    <2>3. <<Bounds!Frame("one", 1)>> \in BodyFrames
      BY <1>2, OneFrame DEF Frames
    <2> QED
      BY <1>1, <1>2, <2>1, <2>2, <2>3, KeyedPayable, PayableVisit
  <1>5. CASE Bounds!DatumRecord
    <2>1. PICK count \in 0 .. MaxNodes :
             Bounds!Visit(Bounds!Keyed([Bounds!Node EXCEPT !.names = count, !.count = count]),
                          <<Bounds!Frame("fields", count)>>)
      BY <1>5, Zenon DEF Bounds!DatumRecord
    <2>2. Payable([Bounds!Node EXCEPT !.names = count, !.count = count])
      <3>1. count \in Nat
        OBVIOUS
      <3> QED
        BY <3>1, FieldsPayable, Zenon
    <2>3. <<Bounds!Frame("fields", count)>> \in BodyFrames
      BY <1>2, OneFrame DEF Frames
    <2> QED
      BY <1>1, <1>2, <2>1, <2>2, <2>3, KeyedPayable, PayableVisit
  <1>6. CASE Bounds!DatumBlocks
    <2>1. PICK kind \in {"array", "map"} :
             Bounds!Visit(Bounds!Keyed(Bounds!Node), <<Bounds!Frame(kind, 0)>>)
      BY <1>6 DEF Bounds!DatumBlocks
    <2>2. Payable(Bounds!Node)
      BY NodePayable DEF Payable, NodeState
    <2>3. <<Bounds!Frame(kind, 0)>> \in BodyFrames
      BY <1>2, OneFrame DEF Frames
    <2> QED
      BY <1>1, <1>2, <2>1, <2>2, <2>3, KeyedPayable, PayableVisit
  <1> QED
    BY <1>3, <1>4, <1>5, <1>6

(* The stack changes, and of the budget only bytes are taken.              *)
LEMMA StackStays ==
    ASSUME Charged, walk.state = "walking", NEW stack \in Seq(FrameState),
           Len(stack) > 0 => stack[1].kind # "group", NEW rest \in Nat,
           walk' = [walk EXCEPT !.rest = rest, !.stack = stack]
    PROVE  Charged'
  <1>1. walk' \in WalkRecord
    BY DEF Charged, WalkRecord
  <1>2. /\ walk'.nodes = walk.nodes /\ walk'.names = walk.names /\ walk'.built = walk.built
        /\ walk'.named = walk.named /\ walk'.deep = walk.deep /\ walk'.stack = stack
        /\ walk'.output = walk.output /\ walk'.state = "walking"
    BY DEF Charged, WalkRecord
  <1> QED
    BY <1>1, <1>2 DEF Charged

LEMMA FrontStays ==
    ASSUME Charged, walk.stack # <<>>
    PROVE  /\ Bounds!Below(walk.stack) \in Seq(FrameState)
           /\ Len(Bounds!Below(walk.stack)) > 0
                => Bounds!Below(walk.stack)[1].kind # "group"
  BY TopFrame DEF Charged

(* The blocks of an array or a map.                                        *)
LEMMA BlockStays ==
    ASSUME Charged, Bounds!DatumBlock \/ Bounds!DatumBlocksEnd \/ Bounds!DatumInvalid
    PROVE  Charged'
  <1>1. walk.state = "walking" /\ walk.stack # <<>>
    BY Zenon DEF Bounds!DatumBlock, Bounds!DatumBlocksEnd, Bounds!DatumInvalid, Bounds!Walking
  <1>2. CASE Bounds!DatumBlock
    <2>1. PICK count \in 1 .. MaxNodes + 1 :
             IF walk.rest < 1 \/ ~Bounds!Collection(count, 0) THEN Bounds!Refuse
             ELSE walk' = [walk EXCEPT
                !.rest = @ - 1,
                !.stack = Append(Bounds!Below(@), [Bounds!Top EXCEPT !.left = count])]
      BY <1>2, Zenon DEF Bounds!DatumBlock
    <2>2. CASE Bounds!Refuse
      BY <1>1, <2>2, RefusedStays
    <2>3. CASE ~(walk.rest < 1)
               /\ walk' = [walk EXCEPT
                    !.rest = @ - 1,
                    !.stack = Append(Bounds!Below(@), [Bounds!Top EXCEPT !.left = count])]
      <3> DEFINE top == [Bounds!Top EXCEPT !.left = count]
                 stack == Append(Bounds!Below(walk.stack), top)
                 rest == walk.rest - 1
      <3>1. walk' = [walk EXCEPT !.rest = rest, !.stack = stack]
        BY <2>3 DEF Charged, WalkRecord
      <3>2. top \in FrameState /\ top.kind = Bounds!Top.kind
        <4>1. count \in Nat /\ Bounds!Top \in FrameState
          BY <1>1, TopFrame
        <4> HIDE DEF Bounds!Top
        <4> QED
          BY <4>1 DEF FrameState
      <3>3. rest \in Nat
        BY <2>3 DEF Charged, WalkRecord
      <3> HIDE DEF top
      <3>4. stack \o <<>> \in Seq(FrameState) /\ (stack \o <<>>)[1].kind # "group"
        BY <1>1, <3>2, NoFrame, StackReplaced
      <3>5. stack \o <<>> = stack
        <4>1. stack \in Seq(FrameState)
          BY <1>1, <3>2, TopFrame
        <4> HIDE DEF stack
        <4> QED
          BY <4>1
      <3> HIDE DEF stack, rest
      <3> QED
        BY <1>1, <3>1, <3>3, <3>4, <3>5, StackStays, Zenon
    <2> QED
      BY <2>1, <2>2, <2>3
  <1>3. CASE Bounds!DatumBlocksEnd
    <2>1. CASE Bounds!Refuse
      BY <1>1, <2>1, RefusedStays
    <2>2. CASE ~(walk.rest < 1)
               /\ walk' = [walk EXCEPT !.rest = @ - 1, !.stack = Bounds!Below(@)]
      <3> DEFINE stack == Bounds!Below(walk.stack)
                 rest == walk.rest - 1
      <3>1. walk' = [walk EXCEPT !.rest = rest, !.stack = stack]
        BY <2>2 DEF Charged, WalkRecord
      <3>2. rest \in Nat
        BY <2>2 DEF Charged, WalkRecord
      <3>3. stack \in Seq(FrameState) /\ (Len(stack) > 0 => stack[1].kind # "group")
        BY <1>1, FrontStays
      <3> HIDE DEF stack, rest
      <3> QED
        BY <1>1, <3>1, <3>2, <3>3, StackStays, Zenon
    <2> QED
      BY <1>3, <2>1, <2>2 DEF Bounds!DatumBlocksEnd
  <1>4. CASE Bounds!DatumInvalid
    BY <1>1, <1>4, RefusedStays DEF Bounds!DatumInvalid
  <1> QED
    BY <1>2, <1>3, <1>4

(* A Protobuf message: no more of the body is taken than it has.           *)
Takes(node, bytes) == node \in NodeState /\ node.built <= node.cost /\ node.taken = bytes

LEMMA WireTakes ==
    ASSUME NEW length \in Nat
    PROVE  /\ Takes([Bounds!Node EXCEPT !.taken = length], length)
           /\ Takes([Bounds!Node EXCEPT !.taken = length, !.cost = 2, !.below = 1], length)
           /\ Takes(Bounds!Packed(length), 1 + length)
  <1> DEFINE n == Bounds!Node
             below == IF length > 0 THEN 1 ELSE 0
             taken == 1 + length
  <1>1. n \in NodeState /\ n.cost = 1 /\ n.built <= n.cost /\ n.taken = 1
    BY NodePayable DEF Payable
  <1>2. below \in {0, 1} /\ taken \in Nat
    OBVIOUS
  <1>3. Bounds!Packed(length) = [n EXCEPT !.taken = taken, !.cost = taken, !.built = taken,
                                          !.below = below]
    BY DEF Bounds!Packed
  <1> HIDE DEF n, below, taken
  <1>4. /\ [n EXCEPT !.taken = length] \in NodeState
        /\ [n EXCEPT !.taken = length, !.cost = 2, !.below = 1] \in NodeState
    BY <1>1 DEF NodeState
  <1>5. [n EXCEPT !.taken = taken, !.cost = taken, !.built = taken, !.below = below]
          \in NodeState
    BY <1>1, <1>2 DEF NodeState
  <1>6. /\ Takes([n EXCEPT !.taken = length], length)
        /\ Takes([n EXCEPT !.taken = length, !.cost = 2, !.below = 1], length)
    BY <1>1, <1>4 DEF Takes, NodeState
  <1>7. Takes([n EXCEPT !.taken = taken, !.cost = taken, !.built = taken, !.below = below],
              taken)
    BY <1>1, <1>2, <1>5 DEF Takes, NodeState
  <1> QED
    BY <1>3, <1>6, <1>7 DEF n, taken

LEMMA WireVisit ==
    ASSUME Charged, walk.state = "walking", walk.stack # <<>>, NEW frames \in BodyFrames,
           NEW bytes \in Nat, bytes <= Bounds!Top.left, NEW node, Takes(node, bytes),
           Bounds!Visit(node, frames)
    PROVE  Charged'
  BY VisitStays DEF Takes

LEMMA WireStays ==
    ASSUME Charged, Bounds!WireScalar \/ Bounds!WirePacked \/ Bounds!WireMessage
                    \/ Bounds!WireGroup
    PROVE  Charged'
  <1>1. walk.state = "walking" /\ walk.stack # <<>> /\ Bounds!Top.left > 0
    BY Zenon DEF Bounds!WireScalar, Bounds!WirePacked, Bounds!WireMessage, Bounds!WireGroup,
           Bounds!Walking
  <1>2. Bounds!Top.left \in Nat
    BY <1>1, TopFrame DEF FrameState
  <1> DEFINE left == Bounds!Top.left
  <1>3. CASE Bounds!WireScalar
    <2>1. PICK length \in 0 .. left - 1 :
             Bounds!Visit([Bounds!Node EXCEPT !.taken = 1 + length], <<>>)
      BY <1>3 DEF Bounds!WireScalar
    <2>2. 1 + length \in Nat /\ 1 + length <= left
      BY <1>2
    <2>3. Takes([Bounds!Node EXCEPT !.taken = 1 + length], 1 + length)
      BY <2>2, WireTakes, Zenon
    <2> QED
      BY <1>1, <2>1, <2>2, <2>3, NoFrame, WireVisit
  <1>4. CASE Bounds!WirePacked
    <2>1. PICK length \in 0 .. left - 1 : Bounds!Visit(Bounds!Packed(length), <<>>)
      BY <1>4 DEF Bounds!WirePacked
    <2>2. length \in Nat /\ 1 + length \in Nat /\ 1 + length <= left
      BY <1>2
    <2>3. Takes(Bounds!Packed(length), 1 + length)
      BY <2>2, WireTakes, Zenon
    <2> QED
      BY <1>1, <2>1, <2>2, <2>3, NoFrame, WireVisit
  <1>5. CASE Bounds!WireMessage
    <2>1. PICK length \in 0 .. left - 1 :
             Bounds!Visit([Bounds!Node EXCEPT !.taken = 1 + length, !.cost = 2, !.below = 1],
                          <<Bounds!Frame("message", length)>>)
      BY <1>5, Zenon DEF Bounds!WireMessage
    <2>3. length \in Nat /\ 1 + length \in Nat /\ 1 + length <= left
      BY <1>2
    <2>2. Takes([Bounds!Node EXCEPT !.taken = 1 + length, !.cost = 2, !.below = 1], 1 + length)
      BY <2>3, WireTakes, Zenon
    <2>4. <<Bounds!Frame("message", length)>> \in BodyFrames
      BY <1>1, <2>3, OneFrame DEF Frames
    <2> QED
      BY <1>1, <2>1, <2>2, <2>3, <2>4, WireVisit
  <1>6. CASE Bounds!WireGroup
    <2>1. Bounds!Visit([Bounds!Node EXCEPT !.taken = left, !.cost = 2, !.below = 1],
                       <<Bounds!Frame("group", left - 1)>>)
      BY <1>6 DEF Bounds!WireGroup
    <2>2. Takes([Bounds!Node EXCEPT !.taken = left, !.cost = 2, !.below = 1], left)
      BY <1>2, WireTakes, Zenon
    <2>3. left - 1 \in Nat
      BY <1>1, <1>2
    <2>4. <<Bounds!Frame("group", left - 1)>> \in BodyFrames
      BY <1>1, <2>3, OneFrame DEF Frames
    <2> QED
      BY <1>1, <1>2, <2>1, <2>2, <2>4, WireVisit
  <1> QED
    BY <1>3, <1>4, <1>5, <1>6

(* The end of a group: its body goes on in the frame below.                *)
LEMMA GroupStays ==
    ASSUME Charged, Bounds!WireGroupEnd \/ Bounds!WireInvalid
    PROVE  Charged'
  <1>1. walk.state = "walking" /\ walk.stack # <<>>
    BY DEF Bounds!WireGroupEnd, Bounds!WireInvalid, Bounds!Walking
  <1>2. CASE Bounds!WireInvalid
    BY <1>1, <1>2, RefusedStays DEF Bounds!WireInvalid
  <1>3. CASE Bounds!WireGroupEnd
    <2>1. CASE Bounds!Top.kind # "group"
      BY <1>1, <1>3, <2>1, RefusedStays DEF Bounds!WireGroupEnd
    <2>2. CASE Bounds!Top.kind = "group"
      <3> DEFINE n == Len(walk.stack)
                 front == Bounds!Below(walk.stack)
                 base == Bounds!Below(front)
                 below == walk.stack[n - 1]
                 left == Bounds!Top.left - 1
                 top == [below EXCEPT !.left = left]
                 stack == Append(base, top)
      <3>1. /\ n \in Nat \ {0} /\ front \in Seq(FrameState) /\ Len(front) = n - 1
            /\ \A i \in 1 .. n - 1 : front[i] = walk.stack[i]
            /\ Bounds!Top = walk.stack[n] /\ Bounds!Top \in FrameState
            /\ walk.stack[1].kind # "group" /\ walk.stack \in Seq(FrameState)
        BY <1>1, TopFrame DEF Charged, WalkRecord
      <3>2. walk' = [walk EXCEPT !.stack = stack]
        BY <1>3, <2>2 DEF Bounds!WireGroupEnd, Charged, WalkRecord
      <3>3. left \in Nat
        BY <1>3, <3>1, SMTT(20) DEF Bounds!WireGroupEnd, FrameState
      <3> HIDE DEF left
      <3>4. n - 1 \in Nat \ {0} /\ below \in FrameState /\ (n - 1 = 1 => below.kind # "group")
        BY <2>2, <3>1
      <3> HIDE DEF below, n
      <3>5. top \in FrameState /\ top.kind = below.kind
        BY <3>3, <3>4 DEF FrameState
      <3> HIDE DEF top
      <3>6. /\ base \in Seq(FrameState) /\ Len(base) = n - 2
            /\ \A i \in 1 .. n - 2 : base[i] = front[i]
        <4> HIDE DEF front
        <4>1. /\ 1 \in Int /\ n - 2 \in Int /\ n - 2 - 1 + 1 = n - 2 /\ n - 1 - 1 = n - 2
              /\ n - 2 <= Len(front) /\ n - 2 >= 0
              /\ \A i \in 1 .. n - 2 : front[i] \in FrameState
              /\ \A k \in 1 .. n - 2 : 1 + k - 1 = k
          BY <3>1, <3>4
        <4> DEFINE m == n - 2
        <4> HIDE DEF m
        <4>2. /\ 1 \in Int /\ m \in Int /\ m - 1 + 1 = m /\ m >= 0
              /\ \A i \in 1 .. m : front[i] \in FrameState
              /\ \A k \in 1 .. m : 1 + k - 1 = k
          BY <4>1 DEF m
        <4>3. /\ SubSeq(front, 1, m) \in Seq(FrameState)
              /\ Len(SubSeq(front, 1, m)) = IF 1 <= m THEN m - 1 + 1 ELSE 0
              /\ \A i \in 1 .. m - 1 + 1 : SubSeq(front, 1, m)[i] = front[1 + i - 1]
          BY <4>2, <3>1, <4>1, SubSeqProperties, SMTT(20) DEF m
        <4>4. Len(SubSeq(front, 1, m)) = m /\ \A i \in 1 .. m : SubSeq(front, 1, m)[i] = front[i]
          BY <4>2, <4>3
        <4>5. base = SubSeq(front, 1, m)
          BY <3>1, <4>1 DEF Bounds!Below, m
        <4> QED
          BY <4>3, <4>4, <4>5 DEF m
      <3> HIDE DEF base, front
      <3>7. stack \in Seq(FrameState) /\ Len(stack) = n - 1 /\ stack[n - 1] = top
            /\ \A i \in 1 .. n - 2 : stack[i] = base[i]
        BY <3>1, <3>4, <3>5, <3>6
      <3>8. stack[1].kind # "group"
        <4>1. CASE n - 1 = 1
          BY <3>4, <3>5, <3>7, <4>1
        <4>2. CASE n - 1 # 1
          <5>1. 1 \in 1 .. n - 2 /\ 1 \in 1 .. n - 1
            BY <3>1, <3>4, <4>2
          <5> QED
            BY <3>1, <3>6, <3>7, <5>1
        <4> QED
          BY <4>1, <4>2
      <3> HIDE DEF stack
      <3>9. walk' = [walk EXCEPT !.rest = walk.rest, !.stack = stack] /\ walk.rest \in Nat
        BY <3>2 DEF Charged, WalkRecord
      <3> QED
        BY <1>1, <3>7, <3>8, <3>9, StackStays, Zenon
    <2> QED
      BY <2>1, <2>2
  <1> QED
    BY <1>2, <1>3

(* The end of a frame and of the walk, and the JSON that is written.       *)
LEMMA EndStays ==
    ASSUME Charged, Bounds!Return \/ Bounds!Finish \/ Bounds!Write \/ Bounds!Done
    PROVE  Charged'
  <1>1. CASE Bounds!Return
    <2> DEFINE stack == Bounds!Below(walk.stack)
    <2>1. walk.state = "walking" /\ walk.stack # <<>>
      BY <1>1 DEF Bounds!Return
    <2>2. walk' = [walk EXCEPT !.rest = walk.rest, !.stack = stack] /\ walk.rest \in Nat
      BY <1>1 DEF Bounds!Return, Charged, WalkRecord
    <2>3. stack \in Seq(FrameState) /\ (Len(stack) > 0 => stack[1].kind # "group")
      BY <2>1, FrontStays
    <2> HIDE DEF stack
    <2> QED
      BY <2>1, <2>2, <2>3, StackStays, Zenon
  <1>2. CASE Bounds!Finish
    <2> DEFINE state == IF walk.rest = 0 THEN "accepted" ELSE "refused"
    <2>1. walk' = [walk EXCEPT !.state = state]
      BY <1>2 DEF Bounds!Finish
    <2>2. state \in WalkState /\ (state \in {"accepted", "raw"} => walk.rest = 0)
      BY DEF WalkState
    <2> HIDE DEF state
    <2>3. walk' \in WalkRecord
      BY <2>1, <2>2 DEF Charged, WalkRecord
    <2>4. /\ walk'.nodes = walk.nodes /\ walk'.names = walk.names /\ walk'.built = walk.built
          /\ walk'.named = walk.named /\ walk'.deep = walk.deep /\ walk'.stack = walk.stack
          /\ walk'.output = walk.output /\ walk'.rest = walk.rest /\ walk'.state = state
      BY <2>1 DEF Charged, WalkRecord
    <2> QED
      BY <2>2, <2>3, <2>4 DEF Charged
  <1>3. CASE Bounds!Write
    <2>1. PICK bytes \in 1 .. 2 :
             walk' = IF bytes > MaxOutput - walk.output THEN [walk EXCEPT !.state = "raw"]
                     ELSE [walk EXCEPT !.output = @ + bytes]
      BY <1>3 DEF Bounds!Write
    <2>2. walk.state = "accepted" /\ walk.rest = 0
      BY <1>3 DEF Bounds!Write, Charged
    <2>3. CASE walk' = [walk EXCEPT !.state = "raw"]
      BY <2>2, <2>3 DEF Charged, WalkRecord, WalkState
    <2>4. CASE ~(bytes > MaxOutput - walk.output)
               /\ walk' = [walk EXCEPT !.output = @ + bytes]
      <3> DEFINE output == walk.output + bytes
      <3>1. output \in Nat /\ output <= MaxOutput
        BY <2>4, BoundsNaturals, SMTT(20) DEF Charged, WalkRecord
      <3>2. walk' = [walk EXCEPT !.output = output]
        BY <2>4 DEF Charged, WalkRecord
      <3> HIDE DEF output
      <3>3. walk' \in WalkRecord
        BY <3>1, <3>2 DEF Charged, WalkRecord
      <3>4. /\ walk'.nodes = walk.nodes /\ walk'.names = walk.names /\ walk'.built = walk.built
            /\ walk'.named = walk.named /\ walk'.deep = walk.deep /\ walk'.stack = walk.stack
            /\ walk'.output = output /\ walk'.rest = walk.rest
        BY <3>2 DEF Charged, WalkRecord
      <3> QED
        BY <2>2, <3>1, <3>3, <3>4 DEF Charged
    <2> QED
      BY <2>1, <2>3, <2>4
  <1>4. CASE Bounds!Done
    BY <1>4 DEF Bounds!Done, Charged
  <1> QED
    BY <1>1, <1>2, <1>3, <1>4

LEMMA WalkStep ==
    ASSUME Charged, Bounds!Next
    PROVE  Charged'
  BY SchemaStays, DatumStays, BlockStays, ReaderStays, WireStays, GroupStays, EndStays
  DEF Bounds!Next

LEMMA WalkStart ==
    ASSUME Bounds!Init
    PROVE  Charged
  <1>1. ASSUME NEW mode \in Bounds!Mode, NEW rest \in Nat, NEW kind \in {"one", "message"},
               NEW left \in Nat, NEW nodes \in {0, 1},
               walk = Bounds!Start(mode, rest, Bounds!Root(kind, left), nodes)
        PROVE  Charged
    <2> DEFINE f == [kind |-> kind, left |-> left, pick |-> 0, real |-> TRUE]
    <2>1. f \in FrameState /\ f.kind # "group"
      BY DEF FrameState, Frames
    <2> HIDE DEF f
    <2>2. <<f>> \in Seq(FrameState) /\ Len(<<f>>) = 1 /\ <<f>>[1] = f
      BY <2>1
    <2>3. nodes \in Nat /\ nodes <= MaxNodes
      BY BoundsNaturals
    <2>4. walk = [mode |-> mode, state |-> "walking", stack |-> <<f>>, nodes |-> nodes,
                  names |-> 0, rest |-> rest, built |-> nodes, named |-> 0, deep |-> 0,
                  output |-> 0]
      BY <1>1 DEF Bounds!Start, Bounds!Root, f
    <2>5. walk \in WalkRecord
      BY <2>2, <2>3, <2>4 DEF WalkRecord, WalkState
    <2> QED
      BY <2>1, <2>2, <2>3, <2>4, <2>5, BoundsNaturals DEF Charged
  <1>2. CASE \E texts \in 1 .. 2 :
               walk = Bounds!Start("schema", 0, Bounds!Root("one", texts), 0)
    BY <1>1, <1>2 DEF Bounds!Mode
  <1>3. CASE \E bytes \in 0 .. MaxBytes :
               walk = Bounds!Start("datum", bytes, Bounds!Root("one", 1), 0)
    BY <1>1, <1>3 DEF Bounds!Mode
  <1>4. CASE walk = Bounds!Start("reader", 0, Bounds!Root("one", 1), 0)
    BY <1>1, <1>4 DEF Bounds!Mode
  <1>5. CASE \E bytes \in 0 .. MaxBytes :
               walk = Bounds!Start("wire", 0, Bounds!Root("message", bytes), 1)
    BY <1>1, <1>5 DEF Bounds!Mode
  <1> QED
    BY <1>2, <1>3, <1>4, <1>5 DEF Bounds!Init

-----------------------------------------------------------------------------
(* Whatever a message and its schema make of each other, what is built of  *)
(* it has no more values, names, levels or bytes of JSON than the limits   *)
(* allow, and no byte of what is accepted was left out (bounds.rs of       *)
(* crates/avro and crates/protobuf).                                       *)
THEOREM DecodersAreBounded == PagesSpec => []DecodingIsBounded
  <1> DEFINE Inv == part = "bounds" => Charged
  <1>1. PagesInit => Inv
    BY WalkStart DEF PagesInit
  <1>2. Inv /\ [PagesNext]_all => Inv'
    <2> SUFFICES ASSUME Inv, [PagesNext]_all, part' = "bounds" PROVE Charged'
      OBVIOUS
    <2>1. Charged /\ (Bounds!Next \/ walk' = walk)
      BY OnePartMoves
    <2>2. CASE Bounds!Next
      BY <2>1, <2>2, WalkStep
    <2>3. CASE walk' = walk
      BY <2>1, <2>3 DEF Charged
    <2> QED
      BY <2>1, <2>2, <2>3
  <1>3. Inv => DecodingIsBounded
    BY BoundsNaturals DEF DecodingIsBounded, Bounds!DecodingIsBounded, Charged, WalkRecord
  <1> QED
    BY <1>1, <1>2, <1>3, PTL DEF PagesSpec, all

-----------------------------------------------------------------------------
(* NATS: a stream read by its sequences *)

StreamKind == {"plain", "live", "replay", "object"}
ScanCursor == [on : BOOLEAN, created : Nat, next : Nat, end : Nat, rows : Nat]
StreamState ==
    [created : Nat, last : 0 .. MaxSeq, kept : SUBSET NatsStream!MessageSeq,
     match : SUBSET NatsStream!MessageSeq, recent : SUBSET NatsStream!MessageSeq]
ScanRecord ==
    [stream : StreamState, kind : StreamKind \union {"list"}, replay : NatsStream!Replay,
     chunks : Nat, list : Seq(NatsStream!MessageSeq),
     at : {"idle", "info", "scan", "full", "list"}, cursor : ScanCursor, work : ScanCursor,
     rows : Seq(NatsStream!MessageSeq), scanned : Nat, from : Nat,
     shown : Seq(NatsStream!MessageSeq), ended : BOOLEAN, changes : Nat]

End == scan.stream.last + 1

(* What is still kept, and was before a place of the view.                 *)
Passed(next) ==
    {m \in scan.stream.kept \intersect scan.stream.match :
        /\ m >= scan.from /\ m < next
        /\ scan.kind = "replay" => m \in scan.stream.recent}

(* A cursor of the stream that is there, or of one that was.               *)
Placing(cursor) ==
    /\ cursor.next <= cursor.end /\ cursor.created <= scan.stream.created
    /\ cursor.created = scan.stream.created => cursor.end <= End

(* The page that is read goes on where the pages shown end.                *)
Batched ==
    /\ Placing(scan.work) /\ scan.work.on
    /\ scan.work.rows = Len(scan.shown) + Len(scan.rows)
    /\ scan.work.next >= scan.cursor.next
    /\ Ascends(scan.rows) /\ Climbs(scan.rows, Len(scan.shown))
    /\ \A i \in 1 .. Len(scan.rows) :
          scan.rows[i] >= scan.cursor.next /\ scan.rows[i] < scan.work.next
    /\ scan.work.created = scan.stream.created =>
          Passed(scan.work.next) \subseteq Elements(scan.shown) \union Elements(scan.rows)

StreamShown ==
    /\ Placing(scan.cursor) /\ scan.cursor.rows = Len(scan.shown)
    /\ \A i \in 1 .. Len(scan.shown) : scan.shown[i] < scan.cursor.next
    /\ ~scan.cursor.on => scan.shown = <<>> /\ scan.cursor.next = 0
    /\ scan.cursor.created = scan.stream.created =>
          Passed(scan.cursor.next) \subseteq Elements(scan.shown)
    /\ scan.ended => /\ scan.cursor.next = scan.cursor.end /\ scan.at = "idle"
                     /\ scan.kind = "object" => Len(scan.shown) = scan.chunks
    /\ scan.at # "list"
    /\ scan.at = "info" => scan.work = scan.cursor
    /\ scan.at \in {"idle", "info"} => scan.rows = <<>>
    /\ scan.at \in {"scan", "full"} => Batched

(* What comes after the offset of a list comes after all that was shown.   *)
ListShown ==
    /\ scan.at \in {"idle", "list"} /\ scan.rows = <<>>
    /\ Ascends(scan.list) /\ Climbs(scan.list, 0) /\ scan.cursor.next = Len(scan.shown)
    /\ \A i \in 1 .. Len(scan.list), k \in 1 .. Len(scan.shown) :
          i > scan.cursor.next => scan.list[i] > scan.shown[k]
    /\ scan.changes = 0 =>
          /\ Len(scan.shown) <= Len(scan.list)
          /\ \A k \in 1 .. Len(scan.shown) : scan.shown[k] = scan.list[k]
          /\ scan.ended => Len(scan.list) <= scan.cursor.next

Scanned ==
    /\ scan \in ScanRecord
    /\ scan.stream.created <= scan.changes /\ scan.changes <= StreamChanges
    /\ Ascends(scan.shown) /\ Climbs(scan.shown, 0)
    /\ scan.kind \in StreamKind => StreamShown
    /\ scan.kind = "list" => ListShown

LEMMA ScanNaturals ==
    /\ MaxSeq \in Nat \ {0} /\ PageSize \in Nat \ {0} /\ StreamChanges \in Nat
    /\ NatsStream!MessageSeq \in SUBSET Nat /\ \A m \in NatsStream!MessageSeq : m >= 1 /\ m <= MaxSeq
  BY PagesAssumption DEF NatsStream!MessageSeq

LEMMA LeastMessage ==
    ASSUME NEW S \in SUBSET Nat, S # {}
    PROVE  NatsStream!Min(S) \in S /\ \A y \in S : NatsStream!Min(S) <= y
  BY LeastOf DEF NatsStream!Min

(* Shorter and longer names of the same things.                            *)
LEMMA ScanNames ==
    /\ NatsStream!End = End
    /\ NatsStream!Streaming <=> scan.kind # "list"
    /\ \A place : NatsStream!At(place) <=> scan.at = place
    /\ NatsStream!Due = Passed(scan.cursor.next)
    /\ NatsStream!NoCursor \in ScanCursor /\ ~NatsStream!NoCursor.on
    /\ NatsStream!NoCursor.next = 0
  BY DEF NatsStream!End, End, NatsStream!Streaming, NatsStream!At, NatsStream!Due, Passed,
         NatsStream!NoCursor, ScanCursor

(* A page ends without one, and the reader keeps what it had.              *)
LEMMA ScanFails ==
    ASSUME Scanned, NatsStream!Fails, ~scan.ended \/ scan.kind = "list"
    PROVE  Scanned'
  <1> DEFINE none == NatsStream!NoCursor
  <1>1. scan' = [scan EXCEPT !.at = "idle", !.work = none, !.rows = <<>>] /\ none \in ScanCursor
    BY ScanNames DEF NatsStream!Fails
  <1> HIDE DEF none
  <1>2. scan \in ScanRecord
    BY DEF Scanned
  <1>3. <<>> \in Seq(NatsStream!MessageSeq) /\ "idle" \in {"idle", "info", "scan", "full", "list"}
    OBVIOUS
  <1>4. scan' \in ScanRecord
    BY <1>1, <1>2, <1>3 DEF ScanRecord
  <1>5. /\ scan'.at = "idle" /\ scan'.rows = <<>> /\ scan'.cursor = scan.cursor
        /\ scan'.stream = scan.stream /\ scan'.kind = scan.kind /\ scan'.list = scan.list
        /\ scan'.shown = scan.shown /\ scan'.from = scan.from /\ scan'.changes = scan.changes
        /\ scan'.chunks = scan.chunks /\ (scan'.ended <=> scan.ended)
    BY <1>1, <1>2 DEF ScanRecord
  <1>6. scan.kind \in StreamKind => StreamShown'
    BY <1>5 DEF Scanned, StreamShown, Placing, Passed, End
  <1>7. scan.kind = "list" => ListShown'
    BY <1>5 DEF Scanned, ListShown
  <1> QED
    BY <1>4, <1>5, <1>6, <1>7 DEF Scanned

LEMMA ScanAsks ==
    ASSUME Scanned, NatsStream!Ask
    PROVE  Scanned'
  <1> DEFINE at == IF NatsStream!Streaming THEN "info" ELSE "list"
             cursor == scan.cursor
  <1>1. scan' = [scan EXCEPT !.at = at, !.work = cursor, !.rows = <<>>, !.scanned = 0]
    BY DEF NatsStream!Ask
  <1>2. at \in {"info", "list"} /\ (at = "list" <=> scan.kind = "list")
        /\ scan.at = "idle" /\ ~scan.ended
    BY ScanNames DEF NatsStream!Ask
  <1>3. scan \in ScanRecord /\ cursor = scan.cursor /\ cursor \in ScanCursor
    BY DEF Scanned, ScanRecord
  <1> HIDE DEF at, cursor
  <1>4. <<>> \in Seq(NatsStream!MessageSeq) /\ at \in {"idle", "info", "scan", "full", "list"}
    BY <1>2
  <1>5. scan' \in ScanRecord
    BY <1>1, <1>3, <1>4 DEF ScanRecord
  <1>6. /\ scan'.at = at /\ scan'.rows = <<>> /\ scan'.cursor = scan.cursor
        /\ scan'.work = cursor
        /\ scan'.stream = scan.stream /\ scan'.kind = scan.kind /\ scan'.list = scan.list
        /\ scan'.shown = scan.shown /\ scan'.from = scan.from /\ scan'.changes = scan.changes
        /\ scan'.chunks = scan.chunks /\ (scan'.ended <=> scan.ended)
    BY <1>1, <1>3 DEF ScanRecord
  <1>7. scan.kind \in StreamKind => StreamShown'
    BY <1>2, <1>3, <1>6 DEF Scanned, StreamShown, Placing, Passed, End, StreamKind
  <1>8. scan.kind = "list" => ListShown'
    BY <1>2, <1>3, <1>6 DEF Scanned, ListShown
  <1> QED
    BY <1>5, <1>6, <1>7, <1>8 DEF Scanned

(* The first page begins at the end, at a start that is kept, or with the  *)
(* first message; the others where the last one ended.                     *)
LEMMA PlacedIn ==
    ASSUME Scanned, NatsStream!StartRetained
    PROVE  LET p == NatsStream!Placed IN
           /\ p \in ScanCursor /\ p.on /\ p.created = scan.stream.created /\ p.rows = 0
           /\ Placing(p)
  <1> DEFINE kept == scan.stream.kept \union {End}
  <1>1. /\ scan.stream.last \in 0 .. MaxSeq /\ scan.stream.kept \in SUBSET NatsStream!MessageSeq
        /\ scan.replay.start \in Nat /\ scan.replay.end \in Nat /\ scan.stream.created \in Nat
    BY ScanNaturals DEF Scanned, ScanRecord, StreamState, NatsStream!Replay
  <1>2. End \in Nat
    BY <1>1, ScanNaturals DEF End
  <1>3. kept \in SUBSET Nat /\ kept # {}
    BY <1>1, <1>2, ScanNaturals
  <1>4. NatsStream!First \in Nat
    BY <1>3, LeastMessage, ScanNames DEF NatsStream!First
  <1>5. ASSUME NEW a \in Nat, NEW b \in Nat
        PROVE  /\ NatsStream!Min({a, b}) \in Nat /\ NatsStream!Min({a, b}) <= b
               /\ NatsStream!Max({a, b}) \in {a, b} /\ b <= NatsStream!Max({a, b})
    <2>1. NatsStream!Min({a, b}) \in {a, b} /\ \A y \in {a, b} : NatsStream!Min({a, b}) <= y
      BY LeastMessage
    <2>2. \E x \in {a, b} : \A y \in {a, b} : x >= y
      OBVIOUS
    <2>3. NatsStream!Max({a, b}) \in {a, b} /\ \A y \in {a, b} : NatsStream!Max({a, b}) >= y
      BY <2>2 DEF NatsStream!Max
    <2> QED
      BY <2>1, <2>3
  <1> DEFINE next == IF NatsStream!Live THEN NatsStream!End
                     ELSE IF scan.kind = "replay" /\ scan.replay.start # 0
                          THEN scan.replay.start
                     ELSE NatsStream!Min({NatsStream!First, NatsStream!End})
             asked == IF scan.kind = "replay" /\ scan.replay.end # 0 THEN scan.replay.end
                      ELSE NatsStream!End
             end == NatsStream!Max({NatsStream!Min({asked, NatsStream!End}), next})
  <1>6. next \in Nat /\ next <= End
    <2>1. CASE NatsStream!Live
      BY <1>2, <2>1, ScanNames
    <2>2. CASE ~NatsStream!Live /\ scan.kind = "replay" /\ scan.replay.start # 0
      <3>1. scan.replay.start \in NatsStream!First .. End
        BY <2>2, ScanNames DEF NatsStream!StartRetained
      <3> QED
        BY <1>1, <1>2, <1>4, <2>2, <3>1
    <2>3. CASE ~NatsStream!Live /\ ~(scan.kind = "replay" /\ scan.replay.start # 0)
      BY <1>2, <1>4, <1>5, <2>3, ScanNames
    <2> QED
      BY <2>1, <2>2, <2>3
  <1>7. asked \in Nat
    BY <1>1, <1>2, ScanNames
  <1> HIDE DEF next, asked
  <1>8. NatsStream!Min({asked, NatsStream!End}) \in Nat
        /\ NatsStream!Min({asked, NatsStream!End}) <= End
    BY <1>2, <1>5, <1>7, ScanNames
  <1>9. end \in Nat /\ next <= end /\ end <= End
    BY <1>2, <1>5, <1>6, <1>8
  <1> HIDE DEF end
  <1>10. NatsStream!Placed = [on |-> TRUE, created |-> scan.stream.created, next |-> next,
                              rows |-> 0, end |-> end]
    BY DEF NatsStream!Placed, next, asked, end
  <1> QED
    BY <1>1, <1>6, <1>9, <1>10 DEF ScanCursor, Placing

(* What reading a page leaves alone.                                       *)
Reading ==
    /\ scan' \in ScanRecord /\ scan'.at \in {"scan", "full"}
    /\ scan'.stream = scan.stream /\ scan'.kind = scan.kind /\ scan'.cursor = scan.cursor
    /\ scan'.shown = scan.shown /\ scan'.changes = scan.changes /\ scan'.chunks = scan.chunks
    /\ (scan'.ended <=> scan.ended)

LEMMA ScanReads ==
    ASSUME Scanned, scan.kind \in StreamKind, ~scan.ended, Reading, Batched',
           scan'.from = scan.from \/ ~scan.cursor.on
    PROVE  Scanned'
  <1>1. (scan.cursor.created = scan.stream.created =>
            Passed(scan.cursor.next) \subseteq Elements(scan.shown))'
    <2>1. CASE scan'.from = scan.from
      BY <2>1 DEF Reading, Scanned, StreamShown, Passed
    <2>2. CASE ~scan.cursor.on
      <3>1. scan'.cursor.next = 0 /\ scan'.from \in Nat
        BY <2>2 DEF Reading, Scanned, StreamShown, ScanRecord
      <3>2. \A m \in NatsStream!MessageSeq : ~(m < 0)
        BY ScanNaturals
      <3>3. scan'.stream.kept \in SUBSET NatsStream!MessageSeq
        BY DEF Reading, ScanRecord, StreamState
      <3> QED
        BY <3>1, <3>2, <3>3 DEF Passed
    <2> QED
      BY <2>1, <2>2
  <1>2. StreamShown'
    BY <1>1 DEF Reading, Scanned, StreamShown, Placing, End
  <1> QED
    BY <1>2 DEF Reading, Scanned, StreamKind

(* The fields of what is read.                                             *)
LEMMA ScanFields ==
    ASSUME Scanned
    PROVE  /\ scan \in ScanRecord /\ scan.cursor \in ScanCursor /\ scan.work \in ScanCursor
           /\ scan.work.next \in Nat /\ scan.work.end \in Nat /\ scan.work.rows \in Nat
           /\ scan.work.created \in Nat /\ scan.cursor.next \in Nat /\ scan.cursor.end \in Nat
           /\ scan.cursor.created \in Nat /\ scan.cursor.rows \in Nat
           /\ scan.stream \in StreamState /\ scan.stream.created \in Nat
           /\ scan.stream.last \in 0 .. MaxSeq /\ scan.stream.last \in Nat
           /\ scan.stream.kept \in SUBSET NatsStream!MessageSeq
           /\ scan.stream.match \in SUBSET NatsStream!MessageSeq
           /\ scan.stream.recent \in SUBSET NatsStream!MessageSeq
           /\ scan.rows \in Seq(NatsStream!MessageSeq)
           /\ scan.shown \in Seq(NatsStream!MessageSeq)
           /\ scan.list \in Seq(NatsStream!MessageSeq)
           /\ scan.scanned \in Nat /\ scan.from \in Nat /\ scan.changes \in Nat
           /\ scan.chunks \in Nat /\ End \in Nat
  <1>1. /\ scan \in ScanRecord /\ scan.cursor \in ScanCursor /\ scan.work \in ScanCursor
        /\ scan.stream \in StreamState
        /\ scan.rows \in Seq(NatsStream!MessageSeq)
        /\ scan.shown \in Seq(NatsStream!MessageSeq)
        /\ scan.list \in Seq(NatsStream!MessageSeq)
        /\ scan.scanned \in Nat /\ scan.from \in Nat /\ scan.changes \in Nat
        /\ scan.chunks \in Nat
    BY DEF Scanned, ScanRecord
  <1>2. /\ scan.work.next \in Nat /\ scan.work.end \in Nat /\ scan.work.rows \in Nat
        /\ scan.work.created \in Nat /\ scan.cursor.next \in Nat /\ scan.cursor.end \in Nat
        /\ scan.cursor.created \in Nat /\ scan.cursor.rows \in Nat
    BY <1>1 DEF ScanCursor
  <1>3. /\ scan.stream.created \in Nat
        /\ scan.stream.last \in 0 .. MaxSeq
        /\ scan.stream.kept \in SUBSET NatsStream!MessageSeq
        /\ scan.stream.match \in SUBSET NatsStream!MessageSeq
        /\ scan.stream.recent \in SUBSET NatsStream!MessageSeq
    BY <1>1 DEF StreamState
  <1>4. scan.stream.last \in Nat
    BY <1>3, ScanNaturals
  <1>5. End \in Nat
    BY <1>4 DEF End
  <1> QED
    BY <1>1, <1>2, <1>3, <1>4, <1>5

LEMMA ScanKinds ==
    ASSUME Scanned
    PROVE  /\ scan.kind \in StreamKind \/ scan.kind = "list"
           /\ scan.at \in {"info", "scan", "full"} =>
                 scan.kind \in StreamKind /\ ~scan.ended
           /\ scan.at = "list" => scan.kind = "list"
  BY DEF Scanned, ScanRecord, StreamShown, ListShown

LEMMA InfoScans ==
    ASSUME Scanned, NatsStream!Info
    PROVE  Scanned'
  <1>1. scan.at = "info" /\ scan.kind \in StreamKind /\ ~scan.ended
    BY ScanKinds, ScanNames DEF NatsStream!Info
  <1>2. scan.rows = <<>> /\ scan.work = scan.cursor /\ Placing(scan.cursor)
        /\ scan.cursor.rows = Len(scan.shown) /\ StreamShown
    BY <1>1 DEF Scanned, StreamShown
  <1>3. /\ Ascends(scan.rows) /\ Climbs(scan.rows, Len(scan.shown)) /\ Len(scan.rows) = 0
        /\ Elements(scan.rows) = {} /\ Len(scan.shown) \in Nat
    BY <1>2, ScanFields DEF Ascends, Climbs, Elements
  <1>4. CASE /\ ~scan.cursor.on /\ NatsStream!StartRetained
             /\ scan' = [scan EXCEPT !.at = "scan", !.work = NatsStream!Placed,
                                     !.from = NatsStream!Placed.next]
    <2> DEFINE work == NatsStream!Placed
    <2>1. /\ work \in ScanCursor /\ work.on /\ work.created = scan.stream.created
          /\ work.rows = 0 /\ Placing(work)
      BY <1>4, PlacedIn
    <2>2. scan' = [scan EXCEPT !.at = "scan", !.work = work, !.from = work.next]
      BY <1>4
    <2> HIDE DEF work
    <2>3. work.next \in Nat /\ "scan" \in {"idle", "info", "scan", "full", "list"}
      BY <2>1 DEF ScanCursor
    <2>4. scan' \in ScanRecord
      BY <2>1, <2>2, <2>3, ScanFields DEF ScanRecord
    <2>5. /\ scan'.at = "scan" /\ scan'.work = work /\ scan'.from = work.next
          /\ scan'.stream = scan.stream /\ scan'.kind = scan.kind /\ scan'.cursor = scan.cursor
          /\ scan'.shown = scan.shown /\ scan'.changes = scan.changes
          /\ scan'.chunks = scan.chunks /\ scan'.rows = scan.rows
          /\ (scan'.ended <=> scan.ended)
      BY <2>2, ScanFields DEF ScanRecord
    <2>6. Reading
      BY <2>4, <2>5 DEF Reading
    <2>7. scan.shown = <<>> /\ scan.cursor.next = 0
      BY <1>2, <1>4 DEF StreamShown
    <2>8. Passed(scan.work.next)' = {}
      <3>1. \A m \in NatsStream!MessageSeq : ~(m >= work.next /\ m < work.next)
        BY <2>3, ScanNaturals
      <3> QED
        BY <2>5, <3>1, ScanFields DEF Passed
    <2>9. Batched'
      BY <1>2, <1>3, <2>1, <2>3, <2>5, <2>7, <2>8 DEF Batched, Placing, End
    <2> QED
      BY <1>1, <1>4, <2>6, <2>9, ScanReads
  <1>5. CASE /\ scan.cursor.on /\ ~NatsStream!Unavailable(scan.cursor)
             /\ scan' = [scan EXCEPT !.at = "scan",
                                     !.work.end = IF NatsStream!Live THEN NatsStream!End ELSE @]
    <2> DEFINE end == IF NatsStream!Live THEN End ELSE scan.work.end
               work == [scan.work EXCEPT !.end = end]
    <2>1. scan' = [scan EXCEPT !.at = "scan", !.work = work]
      BY <1>5, ScanNames
    <2>2. scan.cursor.next <= End /\ scan.cursor.end <= End
          /\ scan.cursor.created = scan.stream.created
      <3>1. /\ scan.cursor.created = scan.stream.created
            /\ ~(scan.cursor.next > NatsStream!End) /\ ~(scan.cursor.end > NatsStream!End)
        BY <1>5 DEF NatsStream!Unavailable
      <3>2. NatsStream!End = End /\ End \in Nat /\ scan.cursor.next \in Nat
            /\ scan.cursor.end \in Nat
        BY ScanFields, ScanNames
      <3> QED
        BY <3>1, <3>2
    <2>3. end \in Nat /\ end <= End /\ scan.work.next <= end
      BY <1>2, <2>2, ScanFields DEF Placing
    <2>4. /\ work \in ScanCursor /\ work.end = end /\ work.next = scan.cursor.next
          /\ (work.on <=> scan.cursor.on) /\ work.rows = scan.cursor.rows
          /\ work.created = scan.cursor.created
      BY <1>2, <2>3, ScanFields DEF ScanCursor
    <2> HIDE DEF end, work
    <2>5. "scan" \in {"idle", "info", "scan", "full", "list"}
      OBVIOUS
    <2>6. scan' \in ScanRecord
      BY <2>1, <2>4, <2>5, ScanFields DEF ScanRecord
    <2>7. /\ scan'.at = "scan" /\ scan'.work = work /\ scan'.from = scan.from
          /\ scan'.stream = scan.stream /\ scan'.kind = scan.kind /\ scan'.cursor = scan.cursor
          /\ scan'.shown = scan.shown /\ scan'.changes = scan.changes
          /\ scan'.chunks = scan.chunks /\ scan'.rows = scan.rows
          /\ (scan'.ended <=> scan.ended)
      BY <2>1, ScanFields DEF ScanRecord
    <2>8. Reading
      BY <2>6, <2>7 DEF Reading
    <2>9. (Passed(scan.work.next) \subseteq Elements(scan.shown) \union Elements(scan.rows))'
      <3>1. Passed(scan.cursor.next) \subseteq Elements(scan.shown)
        BY <1>2, <2>2 DEF StreamShown
      <3> QED
        BY <2>4, <2>7, <3>1 DEF Passed
    <2>10. Placing(scan.work)'
      BY <2>2, <2>3, <2>4, <2>7, ScanFields, <1>2 DEF Placing, End
    <2>11. Batched'
      <3>1. /\ work.on /\ work.next = scan.cursor.next /\ work.rows = scan.cursor.rows
            /\ scan.rows = <<>> /\ scan.cursor.rows = Len(scan.shown) /\ Len(scan.shown) \in Nat
            /\ Len(scan.rows) = 0 /\ scan.cursor.next \in Nat
        BY <1>2, <1>3, <1>5, <2>4, ScanFields
      <3>2. scan'.work.rows = Len(scan'.shown) + Len(scan'.rows)
            /\ scan'.work.next >= scan'.cursor.next
            /\ \A i \in 1 .. Len(scan'.rows) :
                  scan'.rows[i] >= scan'.cursor.next /\ scan'.rows[i] < scan'.work.next
        BY <2>7, <3>1
      <3>3. Ascends(scan'.rows) /\ Climbs(scan'.rows, Len(scan'.shown)) /\ scan'.work.on
        BY <1>3, <2>7, <3>1
      <3> QED
        BY <2>9, <2>10, <3>2, <3>3 DEF Batched
    <2> QED
      BY <1>1, <2>7, <2>8, <2>11, ScanReads
  <1>6. CASE NatsStream!Fails
    BY <1>1, <1>6, ScanFails
  <1> QED
    BY <1>4, <1>5, <1>6, Zenon DEF NatsStream!Info

(* What is counted.                                                        *)
LEMMA ScanNumbers ==
    ASSUME Scanned
    PROVE  /\ scan.work.next \in Nat /\ scan.work.end \in Nat /\ scan.work.rows \in Nat
           /\ scan.cursor.next \in Nat /\ scan.cursor.end \in Nat /\ scan.cursor.rows \in Nat
           /\ End \in Nat /\ Len(scan.rows) \in Nat /\ Len(scan.shown) \in Nat
           /\ \A m \in scan.stream.kept : m \in Nat
           /\ \A i \in 1 .. Len(scan.rows) : scan.rows[i] \in Nat
           /\ \A i \in 1 .. Len(scan.shown) : scan.shown[i] \in Nat
  <1>1. \A m \in scan.stream.kept : m \in Nat
    BY ScanFields, ScanNaturals
  <1>2. /\ \A i \in 1 .. Len(scan.rows) : scan.rows[i] \in Nat
        /\ \A i \in 1 .. Len(scan.shown) : scan.shown[i] \in Nat
    BY ScanFields, ScanNaturals, NaturalElements
  <1>3. Len(scan.rows) \in Nat /\ Len(scan.shown) \in Nat
    <2>1. scan.rows \in Seq(NatsStream!MessageSeq) /\ scan.shown \in Seq(NatsStream!MessageSeq)
      BY ScanFields
    <2> QED
      BY <2>1
  <1> QED
    BY <1>1, <1>2, <1>3, ScanFields

(* The next message that matches is the first that the page has not read.  *)
LEMMA NextMessage ==
    ASSUME Scanned, NatsStream!Later # {}
    PROVE  LET m == NatsStream!Min(NatsStream!Later) IN
           /\ m \in NatsStream!MessageSeq /\ m \in Nat /\ m >= 1
           /\ m \in scan.stream.kept /\ m \in scan.stream.match
           /\ scan.work.next <= m /\ m < scan.work.end
           /\ \A k \in scan.stream.kept \intersect scan.stream.match :
                 k < m + 1 => k < scan.work.next \/ k = m
  <1> DEFINE m == NatsStream!Min(NatsStream!Later)
  <1>1. NatsStream!Later \in SUBSET Nat /\ NatsStream!Later \subseteq NatsStream!MessageSeq
    BY ScanFields, ScanNaturals DEF NatsStream!Later
  <1>2. m \in NatsStream!Later /\ \A y \in NatsStream!Later : m <= y
    BY <1>1, LeastMessage
  <1> HIDE DEF m
  <1>3. /\ m \in NatsStream!MessageSeq /\ m \in Nat /\ m >= 1
        /\ m \in scan.stream.kept /\ m \in scan.stream.match
        /\ scan.work.next <= m /\ m < scan.work.end
    BY <1>1, <1>2, ScanFields, ScanNaturals DEF NatsStream!Later
  <1>4. ASSUME NEW k \in scan.stream.kept \intersect scan.stream.match, k < m + 1,
               ~(k < scan.work.next)
        PROVE  k = m
    <2>1. k \in Nat /\ scan.work.next \in Nat /\ scan.work.end \in Nat
      BY ScanFields, ScanNaturals
    <2>2. k \in NatsStream!Later
      BY <1>3, <1>4, <2>1 DEF NatsStream!Later
    <2> QED
      BY <1>2, <1>3, <1>4, <2>1, <2>2
  <1> QED
    BY <1>3, <1>4 DEF m

LEMMA ScanningIs ==
    ASSUME Scanned, NatsStream!Scanning
    PROVE  /\ scan.at = "scan" /\ scan.work.next < scan.work.end
           /\ scan.kind \in StreamKind /\ ~scan.ended /\ Batched /\ StreamShown
  BY ScanKinds, ScanNames DEF NatsStream!Scanning, Scanned, StreamShown

LEMMA ScanExhausted ==
    ASSUME Scanned, NatsStream!Exhausted
    PROVE  Scanned'
  <1> DEFINE work == [scan.work EXCEPT !.next = scan.work.end]
  <1>1. NatsStream!Later = {} /\ scan' = [scan EXCEPT !.work = work]
        /\ NatsStream!Scanning
    BY DEF NatsStream!Exhausted
  <1>2. /\ work \in ScanCursor /\ (work.on <=> scan.work.on) /\ work.next = scan.work.end
        /\ work.end = scan.work.end /\ work.rows = scan.work.rows
        /\ work.created = scan.work.created
    BY ScanFields DEF ScanCursor
  <1> HIDE DEF work
  <1>3. scan' \in ScanRecord
    BY <1>1, <1>2, ScanFields DEF ScanRecord
  <1>4. /\ scan'.at = scan.at /\ scan'.work = work /\ scan'.from = scan.from
        /\ scan'.stream = scan.stream /\ scan'.kind = scan.kind /\ scan'.cursor = scan.cursor
        /\ scan'.shown = scan.shown /\ scan'.changes = scan.changes
        /\ scan'.chunks = scan.chunks /\ scan'.rows = scan.rows
        /\ (scan'.ended <=> scan.ended)
    BY <1>1, ScanFields DEF ScanRecord
  <1>5. Reading
    BY <1>1, <1>3, <1>4, ScanningIs DEF Reading
  <1>6. \A m \in scan.stream.kept \intersect scan.stream.match :
           m < scan.work.end => m < scan.work.next
    <2> SUFFICES ASSUME NEW m \in scan.stream.kept \intersect scan.stream.match,
                        m < scan.work.end
                 PROVE  m < scan.work.next
      OBVIOUS
    <2>1. m \in Nat /\ scan.work.next \in Nat /\ m \notin NatsStream!Later
      BY <1>1, ScanFields, ScanNaturals
    <2> QED
      BY <2>1 DEF NatsStream!Later
  <1>7. (Passed(scan.work.next) \subseteq Passed(scan.work.end))
        /\ Passed(scan.work.end) \subseteq Passed(scan.work.next)
    <2>1. \A m \in scan.stream.kept : m < scan.work.next => m < scan.work.end
      <3>1. scan.work.next < scan.work.end
        BY <1>1, ScanningIs
      <3> QED
        BY <3>1, ScanNumbers, SMTT(20)
    <2> QED
      BY <1>6, <2>1 DEF Passed
  <1>8. (Passed(scan.work.next) \subseteq Elements(scan.shown) \union Elements(scan.rows))'
        \/ scan.work.created # scan.stream.created
    <2>1. Passed(scan.work.next)' = Passed(scan.work.end)
      BY <1>2, <1>4 DEF Passed
    <2>2. Batched
      BY <1>1, ScanningIs
    <2> QED
      BY <1>4, <1>7, <2>1, <2>2 DEF Batched
  <1>9. Placing(scan.work)'
    <2>1. Placing(scan.work)
      BY <1>1, ScanningIs DEF Batched
    <2>2. scan.work.end <= scan.work.end
      BY ScanNumbers
    <2> QED
      BY <1>2, <1>4, <2>1, <2>2 DEF Placing, End
  <1>10. \A i \in 1 .. Len(scan.rows) :
            scan.rows[i] >= scan.cursor.next /\ scan.rows[i] < scan.work.end
    <2>1. scan.work.next < scan.work.end /\ Batched
      BY <1>1, ScanningIs
    <2>2. \A i \in 1 .. Len(scan.rows) :
             scan.rows[i] >= scan.cursor.next /\ scan.rows[i] < scan.work.next
      BY <2>1 DEF Batched
    <2> QED
      BY <2>1, <2>2, ScanNumbers
  <1>11. scan.work.end >= scan.cursor.next
    <2>1. scan.work.next < scan.work.end /\ scan.work.next >= scan.cursor.next
      BY <1>1, ScanningIs DEF Batched
    <2>2. scan.work.next \in Nat /\ scan.work.end \in Nat /\ scan.cursor.next \in Nat
      BY ScanNumbers
    <2> QED
      BY <2>1, <2>2
  <1>12. Batched
    BY <1>1, ScanningIs
  <1>13. Batched'
    BY <1>2, <1>4, <1>8, <1>9, <1>10, <1>11, <1>12 DEF Batched
  <1> QED
    BY <1>1, <1>4, <1>5, <1>13, ScanningIs, ScanReads

LEMMA ScanTooOld ==
    ASSUME Scanned, NatsStream!TooOld
    PROVE  Scanned'
  <1> DEFINE m == NatsStream!Min(NatsStream!Later)
             work == [scan.work EXCEPT !.next = m + 1]
             scanned == scan.scanned + 1
  <1>1. scan' = [scan EXCEPT !.work = work, !.scanned = scanned]
        /\ NatsStream!Scanning /\ scan.kind = "replay" /\ m \notin scan.stream.recent
    BY DEF NatsStream!TooOld
  <1>2. /\ m \in Nat /\ scan.work.next <= m /\ m < scan.work.end
        /\ \A k \in scan.stream.kept \intersect scan.stream.match :
              k < m + 1 => k < scan.work.next \/ k = m
    BY NextMessage DEF NatsStream!TooOld
  <1> HIDE DEF m
  <1>3. /\ work \in ScanCursor /\ (work.on <=> scan.work.on) /\ work.next = m + 1
        /\ work.end = scan.work.end /\ work.rows = scan.work.rows
        /\ work.created = scan.work.created
    <2>1. m + 1 \in Nat /\ scan.work \in ScanCursor
      BY <1>2, ScanFields
    <2> QED
      BY <2>1 DEF ScanCursor
  <1>0. scanned \in Nat
    <2>1. scan.scanned \in Nat
      BY ScanFields
    <2> QED
      BY <2>1
  <1> HIDE DEF work, scanned
  <1>4. scan' \in ScanRecord
    BY <1>0, <1>1, <1>3, ScanFields DEF ScanRecord
  <1>5. /\ scan'.at = scan.at /\ scan'.work = work /\ scan'.from = scan.from
        /\ scan'.stream = scan.stream /\ scan'.kind = scan.kind /\ scan'.cursor = scan.cursor
        /\ scan'.shown = scan.shown /\ scan'.changes = scan.changes
        /\ scan'.chunks = scan.chunks /\ scan'.rows = scan.rows
        /\ (scan'.ended <=> scan.ended)
    BY <1>1, ScanFields DEF ScanRecord
  <1>6. Reading
    BY <1>1, <1>4, <1>5, ScanningIs DEF Reading
  <1>7. Batched
    BY <1>1, ScanningIs
  <1>8. (Passed(scan.work.next) \subseteq Elements(scan.shown) \union Elements(scan.rows))'
        \/ scan.work.created # scan.stream.created
    <2>1. Passed(m + 1) \subseteq Passed(scan.work.next)
      BY <1>1, <1>2 DEF Passed
    <2>2. Passed(scan.work.next)' = Passed(m + 1)
      BY <1>3, <1>5 DEF Passed
    <2> QED
      BY <1>5, <1>7, <2>1, <2>2 DEF Batched
  <1>9. Placing(scan.work)'
    <2>1. m + 1 <= scan.work.end
      <3>1. m \in Nat /\ m < scan.work.end /\ scan.work.end \in Nat
        BY <1>2, ScanNumbers
      <3> QED
        BY <3>1
    <2>2. Placing(scan.work)
      BY <1>7 DEF Batched
    <2> QED
      BY <1>3, <1>5, <2>1, <2>2 DEF Placing, End
  <1>10. \A i \in 1 .. Len(scan.rows) :
            scan.rows[i] >= scan.cursor.next /\ scan.rows[i] < m + 1
    <2>1. \A i \in 1 .. Len(scan.rows) :
             scan.rows[i] >= scan.cursor.next /\ scan.rows[i] < scan.work.next
      BY <1>7 DEF Batched
    <2> QED
      BY <1>2, <2>1, ScanNumbers, SMTT(20)
  <1>11. m + 1 >= scan.cursor.next
    <2>1. scan.work.next >= scan.cursor.next
      BY <1>7 DEF Batched
    <2> QED
      BY <1>2, <2>1, ScanNumbers, SMTT(20)
  <1>12. Batched'
    BY <1>3, <1>5, <1>7, <1>8, <1>9, <1>10, <1>11 DEF Batched
  <1> QED
    BY <1>1, <1>5, <1>6, <1>12, ScanningIs, ScanReads

LEMMA OneMore ==
    ASSUME NEW a \in Nat, NEW b \in Nat, NEW x \in Nat, NEW y \in Nat, x >= a + b, x < y
    PROVE  y >= a + b + 1
  OBVIOUS

(* A message that is taken comes after all that the page has.              *)
LEMMA ScanFetches ==
    ASSUME Scanned, NatsStream!Fetch
    PROVE  Scanned'
  <1> DEFINE m == NatsStream!Min(NatsStream!Later)
             work == [scan.work EXCEPT !.next = m + 1, !.rows = @ + 1]
             scanned == scan.scanned + 1
             rows == Append(scan.rows, m)
  <1>1. /\ scan' = [scan EXCEPT !.work.next = m + 1, !.work.rows = @ + 1, !.scanned = @ + 1,
                                !.rows = Append(@, m)]
        /\ NatsStream!Scanning /\ NatsStream!Later # {}
        /\ scan.kind = "replay" => m \in scan.stream.recent
    BY DEF NatsStream!Fetch, NatsStream!Wanted, NatsStream!Taken
  <1>2. /\ m \in NatsStream!MessageSeq /\ m \in Nat /\ m >= 1 /\ m \in scan.stream.kept
        /\ scan.work.next <= m /\ m < scan.work.end
        /\ \A k \in scan.stream.kept \intersect scan.stream.match :
              k < m + 1 => k < scan.work.next \/ k = m
    BY <1>1, NextMessage
  <1> HIDE DEF m
  <1>3. scan' = [scan EXCEPT !.work = work, !.scanned = scanned, !.rows = rows]
    BY <1>1, ScanFields DEF ScanRecord, ScanCursor
  <1>6. Batched
    BY <1>1, ScanningIs
  <1>7. /\ \A i \in 1 .. Len(scan.rows) :
              scan.rows[i] >= scan.cursor.next /\ scan.rows[i] < scan.work.next
        /\ scan.work.next >= scan.cursor.next /\ Ascends(scan.rows)
        /\ Climbs(scan.rows, Len(scan.shown))
        /\ scan.work.rows = Len(scan.shown) + Len(scan.rows)
    BY <1>6 DEF Batched
  <1>0. /\ m \in Nat /\ m >= 1 /\ scan.work.next <= m /\ m \in NatsStream!MessageSeq
         /\ Len(scan.rows) \in Nat /\ Len(scan.shown) \in Nat
         /\ scan.work.next \in Nat /\ scan.cursor.next \in Nat /\ scan.work.rows \in Nat
         /\ scan.work.next >= scan.cursor.next
    BY <1>2, <1>7, ScanNumbers
  <1>4. /\ work \in ScanCursor /\ (work.on <=> scan.work.on) /\ work.next = m + 1
        /\ work.end = scan.work.end /\ work.rows = scan.work.rows + 1
        /\ work.created = scan.work.created
    <2>1. m + 1 \in Nat /\ scan.work.rows + 1 \in Nat /\ scan.work \in ScanCursor
      <3>1. m \in Nat /\ scan.work.rows \in Nat /\ scan.work \in ScanCursor
        BY <1>0, ScanFields
      <3> QED
        BY <3>1
    <2> QED
      <3> DEFINE n == m + 1
                 r == scan.work.rows + 1
      <3>1. n \in Nat /\ r \in Nat /\ scan.work \in ScanCursor
        BY <2>1
      <3>2. work = [scan.work EXCEPT !.next = n, !.rows = r]
        OBVIOUS
      <3> HIDE DEF n, r, work
      <3>3. /\ work \in ScanCursor /\ (work.on <=> scan.work.on) /\ work.next = n
            /\ work.end = scan.work.end /\ work.rows = r /\ work.created = scan.work.created
        <4> DEFINE c == scan.work
        <4>1. c \in ScanCursor /\ work = [c EXCEPT !.next = n, !.rows = r]
          BY <3>1, <3>2
        <4> HIDE DEF c
        <4>2. /\ work \in ScanCursor /\ (work.on <=> c.on) /\ work.next = n
              /\ work.end = c.end /\ work.rows = r /\ work.created = c.created
          BY <3>1, <4>1 DEF ScanCursor
        <4> QED
          BY <4>2 DEF c
      <3> QED
        BY <3>3 DEF n, r
  <1>5. scanned \in Nat
    <2>1. scan.scanned \in Nat
      BY ScanFields
    <2> QED
      BY <2>1
  <1> DEFINE read == Len(scan.rows)
             past == Len(scan.shown)
  <1>n. m \in Nat /\ read \in Nat /\ past \in Nat
    BY <1>0
  <1>2n. m + 1 >= scan.cursor.next
    BY <1>0
  <1>8. \A i \in 1 .. Len(scan.rows) : scan.rows[i] < m
    BY <1>7, <1>0, ScanNumbers
  <1>9. /\ rows \in Seq(NatsStream!MessageSeq) /\ Len(rows) = Len(scan.rows) + 1
        /\ Ascends(rows) /\ Elements(rows) = Elements(scan.rows) \union {m}
        /\ \A i \in 1 .. Len(scan.rows) : rows[i] = scan.rows[i]
        /\ rows[Len(scan.rows) + 1] = m
    <2>1. /\ NatsStream!MessageSeq \in SUBSET Nat /\ m \in NatsStream!MessageSeq
          /\ scan.rows \in Seq(NatsStream!MessageSeq) /\ Ascends(scan.rows)
      BY <1>7, <1>0, ScanFields, ScanNaturals
    <2> QED
      BY <1>8, <2>1, AppendAscends
  <1> HIDE DEF work, scanned, rows
  <1>10. m >= Len(scan.shown) + Len(scan.rows) + 1
    <2>1. CASE Len(scan.rows) > 0
      <3>1. Len(scan.rows) \in 1 .. Len(scan.rows)
        BY <2>1, ScanNumbers
      <3>2. scan.rows[Len(scan.rows)] >= Len(scan.shown) + Len(scan.rows)
        BY <1>7, <3>1 DEF Climbs
      <3>3. scan.rows[Len(scan.rows)] < m /\ scan.rows[Len(scan.rows)] \in Nat
        BY <1>8, <3>1, ScanNumbers
      <3> QED
        BY <1>0, <3>2, <3>3, OneMore
    <2>2. CASE Len(scan.rows) = 0 /\ Len(scan.shown) > 0
      <3>1. Len(scan.shown) \in 1 .. Len(scan.shown)
        BY <2>2, ScanNumbers
      <3>2. scan.shown[Len(scan.shown)] >= 0 + Len(scan.shown)
        BY <3>1 DEF Scanned, Climbs
      <3>3. scan.shown[Len(scan.shown)] < scan.cursor.next
        BY <1>1, <3>1, ScanningIs DEF StreamShown
      <3>4. scan.shown[Len(scan.shown)] \in Nat
        BY <3>1, ScanNumbers
      <3> QED
        BY <1>0, <2>2, <3>2, <3>3, <3>4
    <2>3. CASE Len(scan.rows) = 0 /\ Len(scan.shown) = 0
      BY <1>0, <2>3
    <2>4. Len(scan.rows) > 0 \/ (Len(scan.rows) = 0 /\ Len(scan.shown) > 0)
          \/ (Len(scan.rows) = 0 /\ Len(scan.shown) = 0)
      BY <1>n
    <2> QED
      BY <2>1, <2>2, <2>3, <2>4, Zenon
  <1>11. Climbs(rows, Len(scan.shown))
    <2> SUFFICES ASSUME NEW i \in 1 .. Len(scan.rows) + 1
                 PROVE  rows[i] >= Len(scan.shown) + i
      BY <1>9 DEF Climbs
    <2>1. CASE i \in 1 .. Len(scan.rows)
      BY <1>7, <1>9, <2>1 DEF Climbs
    <2>2. CASE i = Len(scan.rows) + 1
      <3>1. past + i = past + read + 1
        <4>1. i = read + 1
          BY <2>2
        <4> HIDE DEF read, past
        <4> QED
          BY <1>n, <4>1
      <3>2. rows[i] = m
        BY <1>9, <2>2
      <3> QED
        BY <1>10, <3>1, <3>2
    <2> QED
      BY <1>0, <2>1, <2>2
  <1>12. \A i \in 1 .. Len(rows) : rows[i] >= scan.cursor.next /\ rows[i] < m + 1
    <2> SUFFICES ASSUME NEW i \in 1 .. Len(scan.rows) + 1
                 PROVE  rows[i] >= scan.cursor.next /\ rows[i] < m + 1
      BY <1>9
    <2>1. CASE i \in 1 .. Len(scan.rows)
      <3>1. rows[i] = scan.rows[i] /\ scan.rows[i] \in Nat /\ scan.rows[i] < m
            /\ scan.rows[i] >= scan.cursor.next
        BY <1>7, <1>8, <1>9, <2>1, ScanNumbers
      <3> QED
        BY <1>2, <3>1
    <2>2. CASE i = Len(scan.rows) + 1
      BY <1>9, <1>0, <2>2
    <2> QED
      BY <1>0, <2>1, <2>2, SMTT(20)
  <1>13. scan' \in ScanRecord
    BY <1>3, <1>4, <1>5, <1>9, ScanFields DEF ScanRecord
  <1>14. /\ scan'.at = scan.at /\ scan'.work = work /\ scan'.from = scan.from
         /\ scan'.stream = scan.stream /\ scan'.kind = scan.kind /\ scan'.cursor = scan.cursor
         /\ scan'.shown = scan.shown /\ scan'.changes = scan.changes
         /\ scan'.chunks = scan.chunks /\ scan'.rows = rows
         /\ (scan'.ended <=> scan.ended)
    BY <1>3, ScanFields DEF ScanRecord
  <1>15. Reading
    BY <1>1, <1>13, <1>14, ScanningIs DEF Reading
  <1>16. (Passed(scan.work.next) \subseteq Elements(scan.shown) \union Elements(scan.rows))'
         \/ scan.work.created # scan.stream.created
    <2>1. Passed(m + 1) \subseteq Passed(scan.work.next) \union {m}
      BY <1>2 DEF Passed
    <2>2. Passed(scan.work.next)' = Passed(m + 1)
      BY <1>4, <1>14 DEF Passed
    <2> QED
      BY <1>6, <1>9, <1>14, <2>1, <2>2 DEF Batched
  <1>17. Placing(scan.work)'
    <2>1. m + 1 <= scan.work.end
      <3>1. m \in Nat /\ m < scan.work.end /\ scan.work.end \in Nat
        BY <1>2, ScanNumbers
      <3> QED
        BY <3>1
    <2>2. Placing(scan.work)
      BY <1>6 DEF Batched
    <2> QED
      BY <1>4, <1>14, <2>1, <2>2 DEF Placing, End
  <1>18. scan'.work.rows = Len(scan'.shown) + Len(scan'.rows)
         /\ scan'.work.next >= scan'.cursor.next /\ scan'.work.on
    <2>1. scan.work.on
      BY <1>6 DEF Batched
    <2> QED
      <3>1. /\ scan'.work.rows = scan.work.rows + 1 /\ Len(scan'.rows) = Len(scan.rows) + 1
            /\ Len(scan'.shown) = Len(scan.shown) /\ scan'.work.next = m + 1
            /\ scan'.cursor.next = scan.cursor.next /\ (scan'.work.on <=> scan.work.on)
            /\ scan.work.rows = Len(scan.shown) + Len(scan.rows)
        BY <1>4, <1>7, <1>9, <1>14
      <3> QED
        <4>1. scan.work.rows + 1 = past + (read + 1)
          <5>1. scan.work.rows = past + read
            BY <1>7
          <5> HIDE DEF past, read
          <5> QED
            BY <1>n, <5>1
        <4>2. scan'.work.rows = Len(scan'.shown) + Len(scan'.rows)
          BY <3>1, <4>1, Zenon
        <4>3. scan'.work.on
          BY <2>1, <3>1
        <4> QED
          BY <4>2, <4>3, <3>1, <1>2n
  <1>19. Batched'
    BY <1>4, <1>9, <1>11, <1>12, <1>14, <1>16, <1>17, <1>18 DEF Batched
  <1> QED
    BY <1>1, <1>14, <1>15, <1>19, ScanningIs, ScanReads

LEMMA ScanFull ==
    ASSUME Scanned, NatsStream!Full
    PROVE  Scanned'
  <1>1. scan' = [scan EXCEPT !.at = "full"] /\ NatsStream!Scanning
    BY DEF NatsStream!Full, NatsStream!Wanted
  <1>2. "full" \in {"idle", "info", "scan", "full", "list"}
    OBVIOUS
  <1>3. scan' \in ScanRecord
    BY <1>1, <1>2, ScanFields DEF ScanRecord
  <1>4. /\ scan'.at = "full" /\ scan'.work = scan.work /\ scan'.from = scan.from
        /\ scan'.stream = scan.stream /\ scan'.kind = scan.kind /\ scan'.cursor = scan.cursor
        /\ scan'.shown = scan.shown /\ scan'.changes = scan.changes
        /\ scan'.chunks = scan.chunks /\ scan'.rows = scan.rows
        /\ (scan'.ended <=> scan.ended)
    BY <1>1, ScanFields DEF ScanRecord
  <1>5. Reading
    BY <1>3, <1>4 DEF Reading
  <1>6. Batched'
    BY <1>1, <1>4, ScanningIs DEF Batched, Placing, Passed, End
  <1> QED
    BY <1>1, <1>4, <1>5, <1>6, ScanningIs, ScanReads

LEMMA ScanPageFails ==
    ASSUME Scanned, NatsStream!PageFails
    PROVE  Scanned'
  <1>1. scan.at # "idle" /\ NatsStream!Fails
    BY ScanNames DEF NatsStream!PageFails
  <1>2. scan.at \in {"idle", "info", "scan", "full", "list"}
    BY ScanFields DEF ScanRecord
  <1>3. ~scan.ended \/ scan.kind = "list"
    BY <1>1, <1>2, ScanKinds
  <1> QED
    BY <1>1, <1>3, ScanFails

(* What a page has read follows what the pages before have shown.          *)
LEMMA PageFollows ==
    ASSUME Scanned, StreamShown, Batched
    PROVE  LET shown == scan.shown \o scan.rows IN
           /\ shown \in Seq(NatsStream!MessageSeq)
           /\ Len(shown) = scan.work.rows
           /\ Ascends(shown) /\ Climbs(shown, 0)
           /\ Elements(shown) = Elements(scan.shown) \union Elements(scan.rows)
           /\ \A i \in 1 .. Len(shown) : shown[i] < scan.work.next
  <1> DEFINE shown == scan.shown \o scan.rows
  <1>1. /\ NatsStream!MessageSeq \in SUBSET Nat /\ scan.shown \in Seq(NatsStream!MessageSeq)
        /\ scan.rows \in Seq(NatsStream!MessageSeq)
    BY ScanFields, ScanNaturals
  <1>2. /\ Ascends(scan.shown) /\ Climbs(scan.shown, 0)
        /\ Ascends(scan.rows) /\ Climbs(scan.rows, Len(scan.shown))
        /\ scan.work.rows = Len(scan.shown) + Len(scan.rows)
        /\ scan.work.next >= scan.cursor.next
        /\ \A i \in 1 .. Len(scan.shown) : scan.shown[i] < scan.cursor.next
        /\ \A i \in 1 .. Len(scan.rows) :
              scan.rows[i] >= scan.cursor.next /\ scan.rows[i] < scan.work.next
    BY DEF Scanned, StreamShown, Batched
  <1>3. \A i \in 1 .. Len(scan.shown), j \in 1 .. Len(scan.rows) : scan.shown[i] < scan.rows[j]
    <2> SUFFICES ASSUME NEW i \in 1 .. Len(scan.shown), NEW j \in 1 .. Len(scan.rows)
                 PROVE  scan.shown[i] < scan.rows[j]
      OBVIOUS
    <2>1. scan.shown[i] < scan.cursor.next /\ scan.cursor.next <= scan.rows[j]
      BY <1>2, ScanNumbers
    <2>2. scan.shown[i] \in Nat /\ scan.rows[j] \in Nat /\ scan.cursor.next \in Nat
      BY ScanNumbers
    <2> QED
      BY <2>1, <2>2
  <1>4. Ascends(shown)
    BY <1>1, <1>2, <1>3, JoinAscends
  <1>5. Climbs(shown, 0)
    BY <1>1, <1>2, JoinClimbs
  <1>6. /\ shown \in Seq(NatsStream!MessageSeq) /\ Len(shown) = Len(scan.shown) + Len(scan.rows)
        /\ Elements(shown) = Elements(scan.shown) \union Elements(scan.rows)
    BY <1>1, JoinElements
  <1>7. \A i \in 1 .. Len(shown) : shown[i] < scan.work.next
    <2> SUFFICES ASSUME NEW i \in 1 .. Len(shown) PROVE shown[i] < scan.work.next
      OBVIOUS
    <2>1. shown[i] \in Elements(shown)
      <3>1. shown \in Seq(NatsStream!MessageSeq)
        BY <1>6
      <3> HIDE DEF shown
      <3>2. i \in DOMAIN shown
        BY <3>1
      <3> QED
        BY <3>2 DEF Elements
    <2>2. PICK x : x = shown[i] /\ (x \in Elements(scan.shown) \/ x \in Elements(scan.rows))
      BY <1>6, <2>1
    <2>3. CASE x \in Elements(scan.shown)
      <3>1. PICK k \in 1 .. Len(scan.shown) : x = scan.shown[k]
        BY <1>1, <2>3 DEF Elements
      <3>2. x < scan.cursor.next /\ x \in Nat
        BY <1>2, <3>1, ScanNumbers
      <3>3. scan.cursor.next \in Nat /\ scan.work.next \in Nat
        BY ScanNumbers
      <3> QED
        BY <1>2, <2>2, <3>2, <3>3, SMTT(20)
    <2>4. CASE x \in Elements(scan.rows)
      <3>1. PICK k \in 1 .. Len(scan.rows) : x = scan.rows[k]
        BY <1>1, <2>4 DEF Elements
      <3> QED
        BY <1>2, <2>2, <3>1
    <2> QED
      BY <2>2, <2>3, <2>4
  <1> QED
    BY <1>2, <1>4, <1>5, <1>6, <1>7

LEMMA ScanPageEnds ==
    ASSUME Scanned, NatsStream!PageEnds
    PROVE  Scanned'
  <1> DEFINE more == scan.work.next < scan.work.end
             shown == scan.shown \o scan.rows
             none == NatsStream!NoCursor
             ended == ~more /\ ~NatsStream!Live
             work == scan.work
  <1>1. scan.at \in {"full", "scan"}
    BY ScanNames DEF NatsStream!PageEnds
  <1>2. scan.kind \in StreamKind /\ ~scan.ended /\ StreamShown /\ Batched
    BY <1>1, ScanKinds DEF Scanned, StreamShown
  <1>3. CASE ~more /\ ~NatsStream!Whole /\ NatsStream!Fails
    BY <1>2, <1>3, ScanFails
  <1>4. CASE /\ more \/ NatsStream!Whole
             /\ scan' = [scan EXCEPT !.at = "idle", !.cursor = work, !.rows = <<>>,
                                     !.work = none, !.shown = shown, !.ended = ended]
    <2>1. /\ shown \in Seq(NatsStream!MessageSeq)
          /\ Len(shown) = work.rows /\ Ascends(shown) /\ Climbs(shown, 0)
          /\ Elements(shown) = Elements(scan.shown) \union Elements(scan.rows)
          /\ \A i \in 1 .. Len(shown) : shown[i] < work.next
      BY <1>2, PageFollows
    <2>2. /\ none \in ScanCursor /\ work \in ScanCursor /\ ended \in BOOLEAN
          /\ <<>> \in Seq(NatsStream!MessageSeq)
          /\ "idle" \in {"idle", "info", "scan", "full", "list"}
      BY ScanFields, ScanNames
    <2>3. /\ Placing(work) /\ work.on
          /\ work.created = scan.stream.created =>
                Passed(work.next) \subseteq Elements(shown)
      BY <1>2, <2>1 DEF Batched
    <2>4. ended => work.next = work.end /\ (scan.kind = "object" => work.rows = scan.chunks)
      <3>1. work.next \in Nat /\ work.end \in Nat /\ work.next <= work.end
        BY <2>3, ScanNumbers DEF Placing
      <3> QED
        BY <1>4, <3>1 DEF NatsStream!Whole
    <2>5. /\ scan' = [scan EXCEPT !.at = "idle", !.cursor = work, !.rows = <<>>,
                                  !.work = none, !.shown = shown, !.ended = ended]
          /\ work = scan.work
      BY <1>4
    <2> HIDE DEF shown, none, ended, work
    <2>6. scan' \in ScanRecord
      BY <2>1, <2>2, <2>5, ScanFields DEF ScanRecord
    <2>7. /\ scan'.at = "idle" /\ scan'.cursor = work /\ scan'.rows = <<>>
          /\ scan'.shown = shown /\ (scan'.ended <=> ended)
          /\ scan'.from = scan.from /\ scan'.stream = scan.stream /\ scan'.kind = scan.kind
          /\ scan'.changes = scan.changes /\ scan'.chunks = scan.chunks
      BY <2>5, ScanFields DEF ScanRecord
    <2>8. StreamShown'
      <3>1. (scan.cursor.created = scan.stream.created =>
                Passed(scan.cursor.next) \subseteq Elements(scan.shown))'
        BY <2>3, <2>7 DEF Passed
      <3>2. Placing(scan.cursor)' /\ scan'.cursor.rows = Len(scan'.shown) /\ scan'.cursor.on
        BY <2>1, <2>3, <2>7 DEF Placing, End
      <3>3. scan'.ended => /\ scan'.cursor.next = scan'.cursor.end /\ scan'.at = "idle"
                           /\ scan'.kind = "object" => Len(scan'.shown) = scan'.chunks
        BY <2>1, <2>4, <2>7
      <3> QED
        BY <2>1, <2>7, <3>1, <3>2, <3>3 DEF StreamShown
    <2> QED
      BY <1>2, <2>1, <2>6, <2>7, <2>8 DEF Scanned, StreamKind
  <1> QED
    BY <1>3, <1>4, Zenon DEF NatsStream!PageEnds

(* The stream changes, and the pages do not.                               *)
Waiting ==
    /\ scan' \in ScanRecord /\ scan'.changes = scan.changes + 1
    /\ scan'.kind = scan.kind /\ scan'.cursor = scan.cursor /\ scan'.work = scan.work
    /\ scan'.at = scan.at /\ scan'.rows = scan.rows /\ scan'.shown = scan.shown
    /\ scan'.from = scan.from /\ scan'.chunks = scan.chunks /\ (scan'.ended <=> scan.ended)

LEMMA ScanWaits ==
    ASSUME Scanned, Waiting, NatsStream!Changing,
           scan'.stream.created \in {scan.stream.created, scan.stream.created + 1},
           scan.kind \in StreamKind /\ scan'.stream.created = scan.stream.created =>
              /\ End <= End'
              /\ \A next \in Nat : next <= End => Passed(next)' \subseteq Passed(next),
           scan.kind = "list" => ListShown'
    PROVE  Scanned'
  <1>1. scan'.stream.created <= scan'.changes /\ scan'.changes <= StreamChanges
    <2>1. scan.stream.created \in Nat /\ scan.changes \in Nat
          /\ scan.stream.created <= scan.changes
      BY ScanFields DEF Scanned
    <2> QED
      BY <2>1, ScanNaturals DEF Waiting, NatsStream!Changing
  <1>2. ASSUME scan.kind \in StreamKind PROVE StreamShown'
    <2>1. StreamShown
      BY <1>2 DEF Scanned
    <2>2. ASSUME NEW c \in ScanCursor, Placing(c)
          PROVE  /\ c.next <= c.end /\ c.created <= scan'.stream.created
                 /\ c.created = scan'.stream.created =>
                       /\ c.end <= End' /\ c.created = scan.stream.created
                       /\ Passed(c.next)' \subseteq Passed(c.next)
      <3>1. /\ c.next \in Nat /\ c.end \in Nat /\ c.created \in Nat /\ End \in Nat
            /\ scan.stream.created \in Nat
        BY ScanFields DEF ScanCursor
      <3>2. End' \in Int
        <4>1. scan'.stream \in StreamState
          BY DEF Waiting, ScanRecord
        <4>2. scan'.stream.last \in 0 .. MaxSeq
          BY <4>1 DEF StreamState
        <4> QED
          BY <4>2, ScanNaturals DEF End
      <3>3. /\ c.next <= c.end /\ c.created <= scan.stream.created
            /\ c.created = scan.stream.created => c.end <= End
        BY <2>2 DEF Placing
      <3>4. c.created <= scan'.stream.created
            /\ (c.created = scan'.stream.created => scan'.stream.created = scan.stream.created)
        BY <3>1, <3>3
      <3>5. ASSUME scan'.stream.created = scan.stream.created, c.created = scan.stream.created
            PROVE  c.end <= End' /\ Passed(c.next)' \subseteq Passed(c.next)
        <4>1. c.next <= End /\ c.end <= End'
          BY <1>2, <3>1, <3>2, <3>3, <3>5
        <4> QED
          BY <1>2, <3>1, <3>5, <4>1
      <3> QED
        BY <3>3, <3>4, <3>5
    <2>3. Placing(scan.cursor)' /\
          (scan.cursor.created = scan.stream.created =>
              Passed(scan.cursor.next) \subseteq Elements(scan.shown))'
      <3>1. scan.cursor \in ScanCursor /\ Placing(scan.cursor)
            /\ (scan.cursor.created = scan.stream.created =>
                   Passed(scan.cursor.next) \subseteq Elements(scan.shown))
        BY <2>1, ScanFields DEF StreamShown
      <3> QED
        BY <2>2, <3>1 DEF Waiting, Placing
    <2>4. scan.at \in {"scan", "full"} => Batched'
      <3> SUFFICES ASSUME Batched PROVE Batched'
        BY <2>1 DEF StreamShown
      <3>1. Placing(scan.work)' /\
            (scan.work.created = scan.stream.created =>
                Passed(scan.work.next) \subseteq Elements(scan.shown) \union Elements(scan.rows))'
        <4>1. scan.work \in ScanCursor /\ Placing(scan.work)
              /\ (scan.work.created = scan.stream.created =>
                     Passed(scan.work.next) \subseteq Elements(scan.shown)
                                                         \union Elements(scan.rows))
          BY ScanFields DEF Batched
        <4> QED
          BY <2>2, <4>1 DEF Waiting, Placing
      <3> QED
        BY <3>1 DEF Batched, Waiting
    <2> QED
      BY <2>1, <2>3, <2>4 DEF StreamShown, Waiting
  <1> QED
    BY <1>1, <1>2 DEF Scanned, Waiting

LEMMA ScanStores ==
    ASSUME Scanned, NatsStream!Store
    PROVE  Scanned'
  <1>1. PICK match \in BOOLEAN, recent \in BOOLEAN :
           scan' = [NatsStream!Changed EXCEPT
                      !.stream.last = NatsStream!End, !.stream.kept = @ \union {NatsStream!End},
                      !.stream.match = IF match THEN @ \union {NatsStream!End} ELSE @,
                      !.stream.recent = IF recent THEN @ \union {NatsStream!End} ELSE @]
    BY Zenon DEF NatsStream!Store
  <1>2. /\ NatsStream!Changing /\ scan.kind # "list" /\ End \in NatsStream!MessageSeq
        /\ NatsStream!End = End
    BY ScanNames DEF NatsStream!Store
  <1> DEFINE e == End
             kept == scan.stream.kept \union {e}
             matches == IF match THEN scan.stream.match \union {e} ELSE scan.stream.match
             recents == IF recent THEN scan.stream.recent \union {e} ELSE scan.stream.recent
             stream == [scan.stream EXCEPT !.last = e, !.kept = kept, !.match = matches,
                                           !.recent = recents]
             changes == scan.changes + 1
  <1>3. e \in 0 .. MaxSeq /\ e \in Nat /\ e \in NatsStream!MessageSeq /\ e = scan.stream.last + 1
    BY <1>2, ScanNaturals, ScanFields, SMTT(20) DEF NatsStream!MessageSeq, End
  <1>4. scan' = [scan EXCEPT !.stream = stream, !.changes = changes]
    BY <1>1, <1>2, ScanFields, ZenonT(30) DEF NatsStream!Changed, ScanRecord, StreamState
  <1>5. /\ kept \in SUBSET NatsStream!MessageSeq /\ matches \in SUBSET NatsStream!MessageSeq
        /\ recents \in SUBSET NatsStream!MessageSeq /\ changes \in Nat
    <2>1. /\ scan.stream.kept \in SUBSET NatsStream!MessageSeq
          /\ scan.stream.match \in SUBSET NatsStream!MessageSeq
          /\ scan.stream.recent \in SUBSET NatsStream!MessageSeq
      BY ScanFields
    <2>2. changes \in Nat
      <3>1. scan.changes \in Nat
        BY ScanFields
      <3> QED
        BY <3>1
    <2> HIDE DEF e
    <2> QED
      BY <1>3, <2>1, <2>2
  <1>6. /\ \A m \in kept : m # e => m \in scan.stream.kept
        /\ \A m \in matches : m # e => m \in scan.stream.match
        /\ \A m \in recents : m # e => m \in scan.stream.recent
    OBVIOUS
  <1> HIDE DEF e, kept, matches, recents
  <1>7. /\ stream \in StreamState /\ stream.created = scan.stream.created /\ stream.last = e
        /\ stream.kept = kept /\ stream.match = matches /\ stream.recent = recents
    BY <1>3, <1>5, ScanFields DEF StreamState
  <1> HIDE DEF stream, changes
  <1>8. scan' \in ScanRecord
    BY <1>4, <1>5, <1>7, ScanFields DEF ScanRecord
  <1>9. /\ scan'.changes = changes /\ scan'.stream = stream
        /\ scan'.kind = scan.kind /\ scan'.cursor = scan.cursor /\ scan'.work = scan.work
        /\ scan'.at = scan.at /\ scan'.rows = scan.rows /\ scan'.shown = scan.shown
        /\ scan'.from = scan.from /\ scan'.chunks = scan.chunks /\ (scan'.ended <=> scan.ended)
    BY <1>4, ScanFields DEF ScanRecord
  <1>10. Waiting
    BY <1>8, <1>9 DEF Waiting, changes
  <1>11. End <= End'
    BY <1>3, <1>7, <1>9 DEF End, e
  <1>12. ASSUME NEW next \in Nat, next <= End PROVE Passed(next)' \subseteq Passed(next)
    <2>1. ~(e < next)
      BY <1>3, <1>12 DEF e
    <2>2. \A m \in stream.kept \intersect stream.match : m < next =>
             /\ m \in scan.stream.kept \intersect scan.stream.match
             /\ m \in stream.recent => m \in scan.stream.recent
      BY <1>6, <1>7, <2>1
    <2> QED
      BY <1>9, <2>2 DEF Passed
  <1> QED
    BY <1>2, <1>7, <1>9, <1>10, <1>11, <1>12, ScanWaits

LEMMA ScanDiscards ==
    ASSUME Scanned, NatsStream!Discard
    PROVE  Scanned'
  <1>1. PICK m \in scan.stream.kept :
           scan' = [NatsStream!Changed EXCEPT !.stream.kept = @ \ {m}]
    BY Zenon DEF NatsStream!Discard
  <1>2. NatsStream!Changing /\ scan.kind # "list"
    BY ScanNames DEF NatsStream!Discard
  <1> DEFINE kept == scan.stream.kept \ {m}
             stream == [scan.stream EXCEPT !.kept = kept]
             changes == scan.changes + 1
  <1>3. scan' = [scan EXCEPT !.stream = stream, !.changes = changes]
    BY <1>1, ScanFields DEF NatsStream!Changed, ScanRecord, StreamState
  <1>4. kept \in SUBSET NatsStream!MessageSeq /\ changes \in Nat
        /\ kept \subseteq scan.stream.kept
    <2>1. scan.stream.kept \in SUBSET NatsStream!MessageSeq /\ scan.changes \in Nat
      BY ScanFields
    <2> QED
      BY <2>1
  <1> HIDE DEF kept
  <1>5. /\ stream \in StreamState /\ stream.created = scan.stream.created
        /\ stream.last = scan.stream.last /\ stream.kept = kept
        /\ stream.match = scan.stream.match /\ stream.recent = scan.stream.recent
    BY <1>4, ScanFields DEF StreamState
  <1> HIDE DEF stream, changes
  <1>6. scan' \in ScanRecord
    BY <1>3, <1>4, <1>5, ScanFields DEF ScanRecord
  <1>7. /\ scan'.changes = changes /\ scan'.stream = stream
        /\ scan'.kind = scan.kind /\ scan'.cursor = scan.cursor /\ scan'.work = scan.work
        /\ scan'.at = scan.at /\ scan'.rows = scan.rows /\ scan'.shown = scan.shown
        /\ scan'.from = scan.from /\ scan'.chunks = scan.chunks /\ (scan'.ended <=> scan.ended)
    BY <1>3, ScanFields DEF ScanRecord
  <1>8. Waiting
    BY <1>6, <1>7 DEF Waiting, changes
  <1>9. End' = End /\ End \in Nat
    BY <1>5, <1>7, ScanFields DEF End
  <1>10. ASSUME NEW next \in Nat PROVE Passed(next)' \subseteq Passed(next)
    BY <1>4, <1>5, <1>7 DEF Passed
  <1> QED
    BY <1>2, <1>5, <1>7, <1>8, <1>9, <1>10, ScanWaits

(* The list stays, whatever else changes.                                  *)
LEMMA ListStays ==
    ASSUME Scanned, Waiting, scan.kind = "list", scan'.list = scan.list
    PROVE  ListShown'
  <1>1. scan'.changes # 0
    BY ScanFields DEF Waiting
  <1> QED
    BY <1>1 DEF Scanned, Waiting, ListShown

LEMMA ScanRecreates ==
    ASSUME Scanned, NatsStream!Recreate
    PROVE  Scanned'
  <1> DEFINE created == scan.stream.created + 1
             stream == [scan.stream EXCEPT !.created = created, !.last = 0, !.kept = {},
                                           !.match = {}, !.recent = {}]
             changes == scan.changes + 1
  <1>1. NatsStream!Changing
    BY DEF NatsStream!Recreate
  <1>2. scan' = [NatsStream!Changed EXCEPT !.stream.created = @ + 1, !.stream.last = 0,
                     !.stream.kept = {}, !.stream.match = {}, !.stream.recent = {}]
    BY DEF NatsStream!Recreate
  <1>3. scan' = [scan EXCEPT !.stream = stream, !.changes = changes]
    BY <1>2, ScanFields, ZenonT(30) DEF NatsStream!Changed, ScanRecord, StreamState
  <1>4. /\ created \in Nat /\ changes \in Nat /\ created # scan.stream.created
        /\ 0 \in 0 .. MaxSeq /\ {} \in SUBSET NatsStream!MessageSeq
    <2>1. scan.stream.created \in Nat /\ scan.changes \in Nat /\ MaxSeq \in Nat
      BY ScanFields, ScanNaturals
    <2> QED
      BY <2>1
  <1>5. created = scan.stream.created + 1
    OBVIOUS
  <1> HIDE DEF created
  <1>6. stream \in StreamState /\ stream.created = created
    BY <1>4, ScanFields DEF StreamState
  <1> HIDE DEF stream, changes
  <1>7. scan' \in ScanRecord
    BY <1>3, <1>4, <1>6, ScanFields DEF ScanRecord
  <1>8. /\ scan'.changes = changes /\ scan'.stream = stream
        /\ scan'.kind = scan.kind /\ scan'.cursor = scan.cursor /\ scan'.work = scan.work
        /\ scan'.at = scan.at /\ scan'.rows = scan.rows /\ scan'.shown = scan.shown
        /\ scan'.from = scan.from /\ scan'.chunks = scan.chunks /\ (scan'.ended <=> scan.ended)
        /\ scan'.list = scan.list
    BY <1>3, ScanFields DEF ScanRecord
  <1>9. Waiting
    BY <1>7, <1>8 DEF Waiting, changes
  <1>10. scan'.stream.created # scan.stream.created
         /\ scan'.stream.created \in {scan.stream.created, scan.stream.created + 1}
    BY <1>4, <1>5, <1>6, <1>8
  <1> QED
    BY <1>1, <1>8, <1>9, <1>10, ListStays, ScanWaits

(* An entry less: those behind it come one place before.                   *)
LEMMA OneLess ==
    ASSUME NEW S \in SUBSET Nat, NEW s \in Seq(S), NEW i \in 1 .. Len(s), Ascends(s), Climbs(s, 0)
    PROVE  LET t == NatsStream!Without(s, i) IN
           /\ t \in Seq(S) /\ Ascends(t) /\ Climbs(t, 0)
           /\ \A k \in 1 .. Len(t) : \E j \in 1 .. Len(s) : j >= k /\ t[k] = s[j]
  <1> DEFINE t == NatsStream!Without(s, i)
             a == SubSeq(s, 1, i - 1)
             b == SubSeq(s, i + 1, Len(s))
             place(k) == IF k < i THEN k ELSE k + 1
  <1>1. t = a \o b
    BY DEF NatsStream!Without
  <1>2. /\ Len(s) \in Nat /\ i \in Nat /\ i >= 1 /\ i <= Len(s)
    OBVIOUS
  <1>3. /\ a \in Seq(S) /\ Len(a) = i - 1 /\ \A k \in 1 .. i - 1 : a[k] = s[k]
    BY <1>2, SubSeqProperties
  <1>4. /\ b \in Seq(S) /\ Len(b) = Len(s) - i
        /\ \A k \in 1 .. Len(s) - i : b[k] = s[i + k]
    BY <1>2, SubSeqProperties
  <1> HIDE DEF a, b
  <1>5. /\ t \in Seq(S) /\ Len(t) = Len(s) - 1
    BY <1>1, <1>2, <1>3, <1>4
  <1>6. ASSUME NEW k \in 1 .. Len(s) - 1
        PROVE  place(k) \in 1 .. Len(s) /\ place(k) >= k /\ t[k] = s[place(k)]
    <2>1. CASE k < i
      <3>1. k \in 1 .. Len(a) /\ place(k) = k
        BY <1>2, <1>3, <2>1
      <3> QED
        BY <1>1, <1>2, <1>3, <1>4, <3>1
    <2>2. CASE k >= i
      <3>1. k - Len(a) \in 1 .. Len(b) /\ k - Len(a) = k - i + 1 /\ k \in Len(a) + 1 .. Len(a) + Len(b)
        BY <1>2, <1>3, <1>4, <2>2
      <3>2. t[k] = b[k - Len(a)]
        BY <1>1, <1>3, <1>4, <3>1
      <3>3. b[k - Len(a)] = s[i + (k - i + 1)] /\ i + (k - i + 1) = k + 1
        <4> DEFINE d == k - Len(a)
        <4>1. d \in 1 .. Len(s) - i /\ d = k - i + 1
          BY <1>2, <1>4, <3>1
        <4> HIDE DEF d
        <4>2. b[d] = s[i + d]
          BY <1>4, <4>1
        <4>3. i + d = k + 1
          BY <1>2, <4>1
        <4> QED
          BY <4>1, <4>2, <4>3 DEF d
      <3> QED
        BY <1>2, <2>2, <3>2, <3>3
    <2> QED
      BY <1>2, <2>1, <2>2
  <1>7. \A j \in 1 .. Len(s) : s[j] \in Nat
    BY NaturalElements
  <1>8. ASSUME NEW k \in 1 .. Len(s) - 1, NEW l \in 1 .. Len(s) - 1, k < l
        PROVE  place(k) < place(l)
    BY <1>2, <1>8
  <1> HIDE DEF t, place
  <1>9. Ascends(t)
    <2> SUFFICES ASSUME NEW k \in 1 .. Len(s) - 1, NEW l \in 1 .. Len(s) - 1, k < l
                 PROVE  t[k] < t[l]
      BY <1>5 DEF Ascends
    <2>1. s[place(k)] < s[place(l)]
      BY <1>6, <1>8 DEF Ascends
    <2> QED
      BY <1>6, <2>1
  <1>10. Climbs(t, 0)
    <2> SUFFICES ASSUME NEW k \in 1 .. Len(s) - 1 PROVE t[k] >= 0 + k
      BY <1>5 DEF Climbs
    <2>1. s[place(k)] >= 0 + place(k) /\ place(k) \in 1 .. Len(s) /\ place(k) >= k
          /\ t[k] = s[place(k)]
      BY <1>6 DEF Climbs
    <2>2. s[place(k)] \in Nat
      BY <1>7, <2>1
    <2> QED
      BY <1>2, <2>1, <2>2
  <1>11. \A k \in 1 .. Len(t) : \E j \in 1 .. Len(s) : j >= k /\ t[k] = s[j]
    BY <1>5, <1>6
  <1> QED
    BY <1>5, <1>9, <1>10, <1>11 DEF t

LEMMA ScanShifts ==
    ASSUME Scanned, NatsStream!Shift
    PROVE  Scanned'
  <1>1. PICK i \in 1 .. Len(scan.list) :
           scan' = [NatsStream!Changed EXCEPT !.list = NatsStream!Without(@, i)]
    BY Zenon DEF NatsStream!Shift
  <1>2. NatsStream!Changing /\ scan.kind = "list" /\ ListShown
    BY ScanNames DEF NatsStream!Shift, Scanned
  <1> DEFINE list == NatsStream!Without(scan.list, i)
             changes == scan.changes + 1
  <1>3. scan' = [scan EXCEPT !.list = list, !.changes = changes]
    BY <1>1, ScanFields DEF NatsStream!Changed, ScanRecord
  <1>4. /\ list \in Seq(NatsStream!MessageSeq) /\ Ascends(list) /\ Climbs(list, 0)
        /\ \A k \in 1 .. Len(list) :
              \E j \in 1 .. Len(scan.list) : j >= k /\ list[k] = scan.list[j]
    <2>1. /\ NatsStream!MessageSeq \in SUBSET Nat /\ scan.list \in Seq(NatsStream!MessageSeq)
          /\ Ascends(scan.list) /\ Climbs(scan.list, 0)
      BY <1>2, ScanFields, ScanNaturals DEF ListShown
    <2> QED
      BY <2>1, OneLess
  <1>5. changes \in Nat /\ changes # 0
    <2>1. scan.changes \in Nat
      BY ScanFields
    <2> QED
      BY <2>1
  <1> HIDE DEF list
  <1>6. scan' \in ScanRecord
    BY <1>3, <1>4, <1>5, ScanFields DEF ScanRecord
  <1>7. /\ scan'.changes = changes /\ scan'.stream = scan.stream
        /\ scan'.kind = scan.kind /\ scan'.cursor = scan.cursor /\ scan'.work = scan.work
        /\ scan'.at = scan.at /\ scan'.rows = scan.rows /\ scan'.shown = scan.shown
        /\ scan'.from = scan.from /\ scan'.chunks = scan.chunks /\ (scan'.ended <=> scan.ended)
        /\ scan'.list = list
    BY <1>3, ScanFields DEF ScanRecord
  <1>8. Waiting
    BY <1>6, <1>7 DEF Waiting
  <1>9. \A k \in 1 .. Len(list), l \in 1 .. Len(scan.shown) :
           k > scan.cursor.next => list[k] > scan.shown[l]
    <2> SUFFICES ASSUME NEW k \in 1 .. Len(list), NEW l \in 1 .. Len(scan.shown),
                        k > scan.cursor.next
                 PROVE  list[k] > scan.shown[l]
      OBVIOUS
    <2>1. PICK j \in 1 .. Len(scan.list) : j >= k /\ list[k] = scan.list[j]
      BY <1>4
    <2>2. k \in Nat /\ j \in Nat /\ scan.cursor.next \in Nat
      BY <1>4, ScanNumbers
    <2>3. j > scan.cursor.next
      BY <2>1, <2>2
    <2> QED
      BY <1>2, <2>1, <2>3 DEF ListShown
  <1>10. ListShown'
    BY <1>2, <1>4, <1>5, <1>7, <1>9 DEF ListShown
  <1>11. scan.kind \notin StreamKind
    BY <1>2 DEF StreamKind
  <1> QED
    BY <1>2, <1>7, <1>8, <1>10, <1>11, ScanWaits

(* What is cut from a list from an offset on.                              *)
Cut(s, from, batch) == SubSeq(s, from + 1, NatsStream!Min({from + batch, Len(s)}))

(* It is the part of the list behind that offset.                          *)
PartOf(e, s, S, from) ==
    /\ e \in Seq(S) /\ Ascends(e) /\ Climbs(e, from)
    /\ \A k \in 1 .. Len(e) : from + k \in 1 .. Len(s) /\ e[k] = s[from + k]

LEMMA Entries ==
    ASSUME NEW S \in SUBSET Nat, NEW s \in Seq(S), Ascends(s), Climbs(s, 0), NEW from \in Nat,
           NEW batch \in Nat \ {0}
    PROVE  PartOf(Cut(s, from, batch), s, S, from)
  <1> DEFINE last == NatsStream!Min({from + batch, Len(s)})
             e == SubSeq(s, from + 1, last)
  <1>1. last \in Nat /\ last <= Len(s)
    <2>1. {from + batch, Len(s)} \in SUBSET Nat /\ {from + batch, Len(s)} # {}
      OBVIOUS
    <2> QED
      BY <2>1, LeastMessage
  <1> HIDE DEF last
  <1>2. CASE from + 1 <= last
    <2> DEFINE n == last - from
    <2>1. /\ e \in Seq(S) /\ Len(e) = n /\ n \in Nat
          /\ \A k \in 1 .. n : e[k] = s[from + k]
      <3>1. /\ e \in Seq(S) /\ Len(e) = last - (from + 1) + 1
            /\ \A k \in 1 .. last - (from + 1) + 1 : e[k] = s[from + 1 + k - 1]
        BY <1>1, <1>2, SubSeqProperties
      <3>2. last - (from + 1) + 1 = n /\ \A k \in 1 .. n : from + 1 + k - 1 = from + k
        BY <1>1
      <3> QED
        BY <1>1, <1>2, <3>1, <3>2
    <2>2. \A k \in 1 .. n : from + k \in 1 .. Len(s) /\ s[from + k] \in Nat
      <3>1. \A k \in 1 .. n : from + k \in 1 .. Len(s)
        BY <1>1, <1>2
      <3> QED
        BY <3>1, NaturalElements
    <2> HIDE DEF e, n
    <2>3. Ascends(e)
      <3> SUFFICES ASSUME NEW k \in 1 .. n, NEW l \in 1 .. n, k < l PROVE e[k] < e[l]
        BY <2>1 DEF Ascends
      <3>1. from + k < from + l
        BY <2>1
      <3> QED
        BY <2>1, <2>2, <3>1 DEF Ascends
    <2>4. Climbs(e, from)
      <3> SUFFICES ASSUME NEW k \in 1 .. n PROVE e[k] >= from + k
        BY <2>1 DEF Climbs
      <3>1. s[from + k] >= 0 + (from + k)
        BY <2>2 DEF Climbs
      <3> QED
        BY <2>1, <3>1
    <2> QED
      BY <2>1, <2>2, <2>3, <2>4 DEF e, last, Cut, PartOf
  <1>3. CASE ~(from + 1 <= last)
    <2>1. e = <<>>
      BY <1>1, <1>3, SubSeqProperties
    <2>2. <<>> \in Seq(S) /\ Ascends(<<>>) /\ Climbs(<<>>, from) /\ Len(<<>>) = 0
      BY DEF Ascends, Climbs
    <2> HIDE DEF e
    <2>3. Len(e) = 0
      BY <2>1, <2>2
    <2>4. \A k \in 1 .. Len(e) : FALSE
      BY <2>3
    <2> QED
      BY <2>1, <2>2, <2>4 DEF e, last, Cut, PartOf
  <1> QED
    BY <1>2, <1>3

(* A page of a list goes on behind all that was shown.                     *)
LEMMA ScanLists ==
    ASSUME Scanned, NatsStream!ListPage
    PROVE  Scanned'
  <1> DEFINE from == scan.cursor.next
  <1>1. scan.at = "list" /\ scan.kind = "list" /\ ListShown /\ scan.kind \notin StreamKind
    BY ScanNames, ScanKinds DEF NatsStream!ListPage, Scanned, StreamKind
  <1>2. PICK batch \in 1 .. PageSize :
           scan' = NatsStream!Advance(SubSeq(scan.list, scan.cursor.next + 1,
                      NatsStream!Min({scan.cursor.next + batch, Len(scan.list)})))
    BY Zenon DEF NatsStream!ListPage
  <1> DEFINE entries == SubSeq(scan.list, from + 1,
                               NatsStream!Min({from + batch, Len(scan.list)}))
  <1>3. /\ entries \in Seq(NatsStream!MessageSeq) /\ Ascends(entries) /\ Climbs(entries, from)
        /\ \A k \in 1 .. Len(entries) :
              from + k \in 1 .. Len(scan.list) /\ entries[k] = scan.list[from + k]
    <2>1. /\ NatsStream!MessageSeq \in SUBSET Nat /\ scan.list \in Seq(NatsStream!MessageSeq)
          /\ Ascends(scan.list) /\ Climbs(scan.list, 0) /\ from \in Nat
          /\ batch \in Nat \ {0}
      <3>1. Ascends(scan.list) /\ Climbs(scan.list, 0)
        BY <1>1 DEF ListShown
      <3>2. scan.list \in Seq(NatsStream!MessageSeq) /\ from \in Nat
        BY ScanFields
      <3>3. NatsStream!MessageSeq \in SUBSET Nat /\ batch \in Nat \ {0}
        BY ScanNaturals
      <3> QED
        BY <3>1, <3>2, <3>3
    <2> HIDE DEF from
    <2>2. PartOf(Cut(scan.list, from, batch), scan.list, NatsStream!MessageSeq, from)
      BY <2>1, Entries, Zenon
    <2> QED
      BY <2>2, Zenon DEF Cut, PartOf
  <1>4. scan' = NatsStream!Advance(entries)
    BY <1>2
  <1> HIDE DEF entries
  <1> DEFINE next == from + Len(entries)
             none == NatsStream!NoCursor
             cursor == [none EXCEPT !.on = TRUE, !.created = scan.stream.created, !.next = next]
             shown == scan.shown \o entries
             ended == next >= Len(scan.list)
  <1>5. scan' = [scan EXCEPT !.at = "idle", !.work = none, !.cursor = cursor,
                             !.shown = shown, !.ended = ended]
    BY <1>4 DEF NatsStream!Advance
  <1>6. from \in Nat /\ Len(entries) \in Nat /\ next \in Nat /\ from = Len(scan.shown)
        /\ Len(scan.shown) \in Nat /\ Len(scan.list) \in Nat
    <2>1. from \in Nat /\ from = Len(scan.shown) /\ Len(scan.shown) \in Nat
      <3>1. scan.cursor.next = Len(scan.shown)
        BY <1>1 DEF ListShown
      <3> QED
        BY <3>1, ScanNumbers
    <2>2. Len(entries) \in Nat /\ Len(scan.list) \in Nat
      <3>1. scan.list \in Seq(NatsStream!MessageSeq)
        BY ScanFields
      <3> QED
        BY <1>3, <3>1
    <2> HIDE DEF from
    <2> QED
      BY <2>1, <2>2
  <1>7. cursor \in ScanCursor /\ cursor.next = next /\ none \in ScanCursor
    <2>1. none \in ScanCursor /\ scan.stream.created \in Nat
      BY ScanNames, ScanFields
    <2> HIDE DEF none, next
    <2> QED
      BY <1>6, <2>1 DEF ScanCursor
  <1>8. \A i \in 1 .. Len(scan.shown), j \in 1 .. Len(entries) : scan.shown[i] < entries[j]
    <2> SUFFICES ASSUME NEW i \in 1 .. Len(scan.shown), NEW j \in 1 .. Len(entries)
                 PROVE  scan.shown[i] < entries[j]
      OBVIOUS
    <2>1. from + j \in 1 .. Len(scan.list) /\ entries[j] = scan.list[from + j] /\ from + j > from
      BY <1>3, <1>6
    <2>2. scan.list[from + j] > scan.shown[i]
      BY <1>1, <2>1 DEF ListShown
    <2>3. scan.shown[i] \in Nat /\ entries[j] \in Nat
      <3>1. entries[j] \in NatsStream!MessageSeq
        BY <1>3
      <3> QED
        BY <3>1, ScanNaturals, ScanNumbers
    <2> QED
      BY <2>1, <2>2, <2>3
  <1>9. /\ shown \in Seq(NatsStream!MessageSeq) /\ Len(shown) = next
        /\ Ascends(shown) /\ Climbs(shown, 0)
    <2>1. /\ NatsStream!MessageSeq \in SUBSET Nat /\ scan.shown \in Seq(NatsStream!MessageSeq)
          /\ Ascends(scan.shown) /\ Climbs(scan.shown, 0) /\ Climbs(entries, Len(scan.shown))
      BY <1>3, <1>6, ScanNaturals, ScanFields DEF Scanned
    <2>2. Ascends(shown)
      BY <1>3, <1>8, <2>1, JoinAscends
    <2>3. Climbs(shown, 0)
      BY <1>3, <2>1, JoinClimbs
    <2>4. shown \in Seq(NatsStream!MessageSeq) /\ Len(shown) = Len(scan.shown) + Len(entries)
      BY <1>3, <2>1, JoinElements
    <2> QED
      BY <1>6, <2>2, <2>3, <2>4
  <1>10. \A k \in 1 .. next :
            \/ k \in 1 .. Len(scan.shown) /\ shown[k] = scan.shown[k]
            \/ /\ k \in 1 .. Len(scan.list) /\ k > from /\ shown[k] = scan.list[k]
    <2> SUFFICES ASSUME NEW k \in 1 .. next
                 PROVE  \/ k \in 1 .. Len(scan.shown) /\ shown[k] = scan.shown[k]
                        \/ k \in 1 .. Len(scan.list) /\ k > from /\ shown[k] = scan.list[k]
      OBVIOUS
    <2>1. CASE k <= from
      <3>1. k \in 1 .. Len(scan.shown)
        BY <1>6, <2>1
      <3>2. shown[k] = scan.shown[k]
        BY <1>3, <3>1, ScanFields
      <3> QED
        BY <3>1, <3>2
    <2>2. CASE k > from
      <3> DEFINE d == k - Len(scan.shown)
      <3>1. d \in 1 .. Len(entries) /\ from + d = k
            /\ k \in Len(scan.shown) + 1 .. Len(scan.shown) + Len(entries)
        BY <1>6, <2>2
      <3>2. shown[k] = entries[d]
        BY <1>3, <3>1, ScanFields
      <3> HIDE DEF d
      <3>3. entries[d] = scan.list[from + d] /\ from + d \in 1 .. Len(scan.list)
        BY <1>3, <3>1
      <3> QED
        BY <2>2, <3>1, <3>2, <3>3
    <2> QED
      BY <1>6, <2>1, <2>2
  <1>11. next <= Len(scan.list) \/ Len(entries) = 0
    <2>1. Len(entries) > 0 => Len(entries) \in 1 .. Len(entries)
      BY <1>6
    <2>2. Len(entries) > 0 => next <= Len(scan.list)
      BY <1>3, <1>6, <2>1
    <2> QED
      BY <1>6, <2>2
  <1>12. next >= from /\ ended \in BOOLEAN
         /\ "idle" \in {"idle", "info", "scan", "full", "list"}
    BY <1>6
  <1>13. ended <=> next >= Len(scan.list)
    OBVIOUS
  <1>14. Len(entries) = 0 => next = from
    BY <1>6
  <1>15. from = scan.cursor.next
    OBVIOUS
  <1> HIDE DEF none, cursor, shown, ended, next, from
  <1>16. scan' \in ScanRecord
    BY <1>5, <1>7, <1>9, <1>12, ScanFields DEF ScanRecord
  <1>17. /\ scan'.at = "idle" /\ scan'.rows = scan.rows /\ scan'.list = scan.list
         /\ scan'.cursor = cursor /\ scan'.shown = shown /\ (scan'.ended <=> ended)
         /\ scan'.kind = scan.kind /\ scan'.stream = scan.stream /\ scan'.changes = scan.changes
    BY <1>5, ScanFields DEF ScanRecord
  <1>18. \A i \in 1 .. Len(scan.list), k \in 1 .. next : i > next => scan.list[i] > shown[k]
    <2> SUFFICES ASSUME NEW i \in 1 .. Len(scan.list), NEW k \in 1 .. next, i > next
                 PROVE  scan.list[i] > shown[k]
      OBVIOUS
    <2>1. CASE k \in 1 .. Len(scan.shown) /\ shown[k] = scan.shown[k]
      <3>1. i > scan.cursor.next
        BY <1>6, <1>12, <1>15
      <3> QED
        BY <1>1, <2>1, <3>1 DEF ListShown
    <2>2. CASE k \in 1 .. Len(scan.list) /\ shown[k] = scan.list[k]
      <3>1. k < i /\ Ascends(scan.list)
        BY <1>1, <1>6 DEF ListShown
      <3>2. scan.list[k] < scan.list[i] /\ scan.list[k] \in Nat /\ scan.list[i] \in Nat
        BY <2>2, <3>1, ScanFields, ScanNaturals, NaturalElements DEF Ascends
      <3> QED
        BY <2>2, <3>2
    <2> QED
      BY <1>10, <2>1, <2>2
  <1>19. scan.changes = 0 =>
            /\ next <= Len(scan.list)
            /\ \A k \in 1 .. next : shown[k] = scan.list[k]
    BY <1>1, <1>6, <1>10, <1>11, <1>14 DEF ListShown
  <1>20. ListShown'
    <2>1. scan'.cursor.next = Len(scan'.shown) /\ Len(scan'.shown) = next
      BY <1>7, <1>9, <1>17
    <2>2. Ascends(scan.list) /\ Climbs(scan.list, 0) /\ scan.rows = <<>>
      BY <1>1 DEF ListShown
    <2>3. (scan'.ended => Len(scan'.list) <= scan'.cursor.next)
      BY <1>6, <1>13, <1>17, <2>1
    <2> QED
      BY <1>17, <1>18, <1>19, <2>1, <2>2, <2>3 DEF ListShown
  <1> QED
    BY <1>1, <1>9, <1>16, <1>17, <1>20 DEF Scanned

LEMMA ScanBegins ==
    ASSUME NatsStream!Init
    PROVE  Scanned
  <1>1. PICK kept, match, recent \in SUBSET NatsStream!MessageSeq,
             kind \in {"plain", "live", "replay", "object", "list"},
             replay \in NatsStream!Replays, last \in MaxSeq - 1 .. MaxSeq :
           /\ match \subseteq kept /\ recent \subseteq kept /\ kept \subseteq 1 .. last
           /\ kind # "replay" => replay = [start |-> 0, end |-> 0] /\ recent = {}
           /\ kind = "list" => kept = {}
           /\ scan = [stream |-> [created |-> 0, last |-> last, kept |-> kept, match |-> match,
                                  recent |-> recent],
                      kind |-> kind, replay |-> replay, chunks |-> NatsStream!Cardinality(match),
                      list |-> IF kind = "list" THEN [i \in 1 .. MaxSeq |-> i] ELSE <<>>,
                      at |-> "idle", cursor |-> NatsStream!NoCursor,
                      work |-> NatsStream!NoCursor, rows |-> <<>>,
                      scanned |-> 0, from |-> 0, shown |-> <<>>, ended |-> FALSE, changes |-> 0]
    BY Zenon DEF NatsStream!Init
  <1> DEFINE none == NatsStream!NoCursor
             stream == [created |-> 0, last |-> last, kept |-> kept, match |-> match,
                        recent |-> recent]
             chunks == NatsStream!Cardinality(match)
             list == IF kind = "list" THEN [i \in 1 .. MaxSeq |-> i] ELSE <<>>
  <1>2. none \in ScanCursor /\ ~none.on /\ none.next = 0 /\ none.end = 0 /\ none.created = 0
        /\ none.rows = 0
    BY ScanNames DEF NatsStream!NoCursor
  <1>3. last \in 0 .. MaxSeq /\ last \in Nat
    BY ScanNaturals
  <1>4. stream \in StreamState /\ stream.created = 0 /\ stream.last = last /\ stream.kept = kept
    BY <1>3 DEF StreamState
  <1>5. chunks \in Nat
    <2>1. IsFiniteSet(NatsStream!MessageSeq)
      BY ScanNaturals, FS_Interval DEF NatsStream!MessageSeq
    <2>2. IsFiniteSet(match)
      BY <2>1, FS_Subset
    <2>3. NatsStream!Cardinality(match) = Cardinality(match)
      BY DEF NatsStream!Cardinality, Cardinality
    <2> QED
      BY <2>2, <2>3, FS_CardinalityType
  <1>6. /\ list \in Seq(NatsStream!MessageSeq) /\ Ascends(list) /\ Climbs(list, 0)
        /\ Len(list) \in Nat
    <2>1. CASE kind = "list"
      <3> DEFINE all1 == [i \in 1 .. MaxSeq |-> i]
      <3>1. all1 \in Seq(NatsStream!MessageSeq) /\ Len(all1) = MaxSeq
            /\ \A i \in 1 .. MaxSeq : all1[i] = i
        BY ScanNaturals DEF NatsStream!MessageSeq
      <3>2. list = all1
        BY <2>1
      <3> HIDE DEF all1, list
      <3>3. Ascends(all1) /\ Climbs(all1, 0)
        BY <3>1, ScanNaturals DEF Ascends, Climbs
      <3> QED
        BY <3>1, <3>2, <3>3
    <2>2. CASE kind # "list"
      BY <2>2 DEF Ascends, Climbs
    <2> QED
      BY <2>1, <2>2
  <1>7. /\ kind \in StreamKind \union {"list"} /\ replay \in NatsStream!Replay
        /\ "idle" \in {"idle", "info", "scan", "full", "list"}
        /\ <<>> \in Seq(NatsStream!MessageSeq)
    BY DEF StreamKind, NatsStream!Replays
  <1>8. scan = [stream |-> stream, kind |-> kind, replay |-> replay, chunks |-> chunks,
                list |-> list, at |-> "idle", cursor |-> none, work |-> none, rows |-> <<>>,
                scanned |-> 0, from |-> 0, shown |-> <<>>, ended |-> FALSE, changes |-> 0]
    BY <1>1
  <1> HIDE DEF none, stream, chunks, list
  <1>9. scan \in ScanRecord
    BY <1>2, <1>4, <1>5, <1>6, <1>7, <1>8 DEF ScanRecord
  <1>10. /\ scan.stream = stream /\ scan.kind = kind /\ scan.list = list /\ scan.at = "idle"
         /\ scan.cursor = none /\ scan.rows = <<>> /\ scan.from = 0 /\ scan.shown = <<>>
         /\ ~scan.ended /\ scan.changes = 0
    BY <1>8
  <1>11. Len(<<>>) = 0 /\ Ascends(<<>>) /\ Climbs(<<>>, 0)
    BY DEF Ascends, Climbs
  <1>12. scan.kind \in StreamKind => StreamShown
    <2>1. Placing(scan.cursor)
      BY <1>2, <1>3, <1>4, <1>10 DEF Placing, End
    <2>2. Passed(scan.cursor.next) = {}
      <3>1. \A m \in kept : ~(m < 0)
        BY ScanNaturals
      <3> QED
        BY <1>2, <1>4, <1>10, <3>1 DEF Passed
    <2> QED
      BY <1>2, <1>10, <1>11, <2>1, <2>2 DEF StreamShown
  <1>13. scan.kind = "list" => ListShown
    BY <1>2, <1>6, <1>10, <1>11 DEF ListShown
  <1> QED
    BY <1>4, <1>9, <1>10, <1>11, <1>12, <1>13, ScanNaturals DEF Scanned

LEMMA ScanSteps ==
    ASSUME Scanned, [NatsStream!Next]_scan
    PROVE  Scanned'
  <1>1. CASE scan' = scan
    BY <1>1 DEF Scanned, ScanRecord, StreamShown, ListShown, Batched, Placing, Passed, End
  <1>2. CASE NatsStream!Done
    BY <1>1, <1>2 DEF NatsStream!Done
  <1> QED
    BY <1>1, <1>2, ScanAsks, InfoScans, ScanExhausted, ScanTooOld, ScanFetches, ScanFull,
       ScanPageFails, ScanPageEnds, ScanLists, ScanStores, ScanDiscards, ScanRecreates,
       ScanShifts, Zenon
    DEF NatsStream!Next

(* The invariant is what the properties say.                               *)
LEMMA ScanTyped ==
    ASSUME Scanned
    PROVE  NatsStream!TypeOK
  <1>1. scan.stream \in NatsStream!Stream
    <2>1. scan.stream \in StreamState /\ scan.stream.created \in 0 .. StreamChanges
      <3>1. /\ scan.stream.created \in Nat /\ scan.changes \in Nat
            /\ scan.stream.created <= scan.changes /\ scan.changes <= StreamChanges
        BY ScanFields DEF Scanned
      <3> QED
        <4>1. StreamChanges \in Nat /\ scan.stream \in StreamState
          BY ScanFields, ScanNaturals
        <4> QED
          BY <3>1, <4>1
    <2> QED
      BY <2>1 DEF StreamState, NatsStream!Stream
  <1>2. Len(scan.shown) <= MaxSeq
    <2> DEFINE n == Len(scan.shown)
    <2>1. CASE n = 0
      BY <2>1, ScanNaturals
    <2>2. CASE n > 0
      <3>1. n \in 1 .. n
        BY <2>2, ScanNumbers
      <3>2. scan.shown[n] >= 0 + n
        BY <3>1 DEF Scanned, Climbs
      <3>3. scan.shown[n] \in NatsStream!MessageSeq
        BY <3>1, ScanFields
      <3>4. scan.shown[n] \in Nat /\ scan.shown[n] <= MaxSeq
        BY <3>3, ScanNaturals
      <3>5. n \in Nat
        BY ScanNumbers
      <3> HIDE DEF n
      <3>6. n <= MaxSeq
        BY <3>2, <3>4, <3>5, ScanNaturals
      <3> QED
        BY <3>6 DEF n
    <2> QED
      BY <2>1, <2>2, ScanNumbers
  <1>3. scan.at \in {"idle", "info", "scan", "full", "list"}
    BY ScanFields DEF ScanRecord
  <1> QED
    BY <1>1, <1>2, <1>3, ScanFields DEF NatsStream!TypeOK

LEMMA ScanComplete ==
    ASSUME Scanned
    PROVE  NatsStream!PagesComplete
  <1>1. \A i, j \in 1 .. Len(scan.shown) : i < j => scan.shown[i] < scan.shown[j]
    BY DEF Scanned, Ascends
  <1>2. NatsStream!Range(scan.shown) = Elements(scan.shown)
    BY DEF NatsStream!Range, Elements
  <1>3. CASE scan.kind \in StreamKind
    <2>1. StreamShown /\ scan.kind # "list"
      BY <1>3 DEF Scanned, StreamKind
    <2>2. NatsStream!Streaming
      BY <2>1, ScanNames
    <2>3. scan.cursor.created = scan.stream.created =>
             NatsStream!Due \subseteq NatsStream!Range(scan.shown)
      BY <1>2, <2>1, ScanNames DEF StreamShown
    <2>4. scan.ended => /\ scan.cursor.next = scan.cursor.end
                        /\ scan.kind = "object" => Len(scan.shown) = scan.chunks
      BY <2>1 DEF StreamShown
    <2> QED
      BY <1>1, <2>1, <2>3, <2>4 DEF NatsStream!PagesComplete
  <1>4. CASE scan.kind = "list"
    <2>1. ListShown /\ ~NatsStream!Streaming
      BY <1>4, ScanNames DEF Scanned
    <2>2. ASSUME scan.ended, scan.changes = 0 PROVE scan.shown = scan.list
      <3>1. /\ Len(scan.shown) <= Len(scan.list) /\ Len(scan.list) <= scan.cursor.next
            /\ scan.cursor.next = Len(scan.shown)
            /\ \A k \in 1 .. Len(scan.shown) : scan.shown[k] = scan.list[k]
        BY <2>1, <2>2 DEF ListShown
      <3>2. /\ scan.shown \in Seq(NatsStream!MessageSeq)
            /\ scan.list \in Seq(NatsStream!MessageSeq)
            /\ Len(scan.shown) \in Nat /\ Len(scan.list) \in Nat
        <4>1. /\ scan.shown \in Seq(NatsStream!MessageSeq)
              /\ scan.list \in Seq(NatsStream!MessageSeq)
          BY ScanFields
        <4> QED
          BY <4>1
      <3>3. Len(scan.shown) = Len(scan.list)
        BY <3>1, <3>2
      <3> QED
        BY <3>1, <3>2, <3>3, SeqEqual
    <2> QED
      BY <1>1, <1>4, <2>1, <2>2 DEF NatsStream!PagesComplete
  <1> QED
    BY <1>3, <1>4, ScanKinds

-----------------------------------------------------------------------------
(* For a stream of any length, pages of any size, and any number of        *)
(* changes: the pages of a NATS stream, object or replay show what is kept *)
(* from beginning to end once and in order, an object that ends is whole,  *)
(* and a list that did not change is shown as it is (browse.rs, replay.rs  *)
(* and metadata.rs of crates/nats).                                        *)
THEOREM StreamPagesComplete ==
    PagesSpec => [](part = "nats" => NatsStream!TypeOK /\ NatsStream!PagesComplete)
  <1> DEFINE Inv == part = "nats" => Scanned
  <1>1. PagesInit => Inv
    BY ScanBegins DEF PagesInit
  <1>2. Inv /\ [PagesNext]_all => Inv'
    BY OnePartMoves, ScanSteps
  <1>3. Inv => (part = "nats" => NatsStream!TypeOK /\ NatsStream!PagesComplete)
    BY ScanTyped, ScanComplete
  <1> QED
    BY <1>1, <1>2, <1>3, PTL DEF PagesSpec, all

=============================================================================
