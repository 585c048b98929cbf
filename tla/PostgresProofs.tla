--------------------------- MODULE PostgresProofs ---------------------------
(***************************************************************************)
(* For any number of sessions and statements, a PostgreSQL session that    *)
(* waits for a request has nothing left of earlier ones but what functions *)
(* of browsed views have set, until the next query or statement, and the   *)
(* reports of statements keep the contract of WriteOutcome.tla.            *)
(***************************************************************************)
EXTENDS Postgres, FiniteSetTheorems, TLAPS

(* Where an operation can be, by its kind, and when it has a result.       *)
Places ==
    /\ op.kind = "shutdown" <=> op.at = "shut"
    /\ op.at \in {"work", "recover"} => op.kind \in Reads
    /\ op.at \in {"prepare", "execute", "clean"} => op.kind = "write"
    /\ op.kind = "write" => op.write \in Write
    /\ op.at \in {"lease", "connect", "configure", "prepare", "execute"}
          => op.result = "none"
    /\ op.kind = "write" /\ op.at \in {"clean", "discard", "close"}
          => op.result # "none"

(* A session is clean from the moment it is connected or given back until  *)
(* something runs on it, and of the reads that do not reset it only the    *)
(* browsing of rows adds to what there is.                                 *)
Leftovers ==
    /\ \A s \in Session : client[s] = "unused" => left[s] = {}
    /\ op.at \in {"connect", "close", "shut"} => session = 0
    /\ session # 0 /\ op.at \in {"idle", "lease", "configure", "prepare"}
          => left[session] \subseteq {"rows"}
    /\ op.at = "work" /\ op.kind # "query" => left[session] \subseteq {"rows", "running"}

Current(w) == op.kind = "write" /\ op.write = w

(* What WriteOutcome lets a report say.                                    *)
Truthful(w, outcome) ==
    /\ outcome = "error" => ~sent[w]
    /\ outcome = "Applied" => ran[w] = "applied"
    /\ outcome = "Rejected" => ran[w] = "failed"

(* The result of the operation in progress is as truthful as the reports,  *)
(* and a statement that was sent without a report is the one in progress.  *)
Reports ==
    \A w \in Write :
        /\ sent[w] <=> ran[w] # "no"
        /\ Truthful(w, report[w])
        /\ Current(w) =>
              /\ report[w] = "none"
              /\ Truthful(w, op.result)
              /\ op.at \in {"lease", "connect", "configure", "prepare"} => ~sent[w]
        /\ sent[w] /\ report[w] = "none" /\ ~closed => Current(w)

Honest == TypeOK /\ Places /\ Leftovers /\ Reports

-----------------------------------------------------------------------------
(* Operations *)

Place == {"idle", "lease", "connect", "configure", "work", "recover",
          "prepare", "execute", "clean", "discard", "close", "shut"}

Kind == Reads \cup {"none", "write", "shutdown"}

(* The kinds of reads and the traces by name.                              *)
LEMMA Names ==
    /\ {"none", "write", "shutdown"} \cap Reads = {}
    /\ {"catalog", "rows", "query"} \subseteq Reads
    /\ {"running", "cancelled", "rows", "query", "write"} \subseteq Trace
  BY DEF Reads, Trace

(* What the proofs need to know of the next operation.                     *)
OpIs(kind, write, at, result) ==
    /\ op' \in Operation
    /\ op'.kind = kind
    /\ op'.write = write
    /\ op'.at = at
    /\ op'.result = result

(* The fields of an operation.                                             *)
LEMMA OperationFields ==
    ASSUME NEW o \in Operation
    PROVE  /\ o.kind \in Kind
           /\ o.write \in {0} \union Write
           /\ o.at \in Place
           /\ o.result \in {"none"} \union Outcome
           /\ o.cancel \in BOOLEAN
           /\ o.retire \in {0} \union Session
  BY DEF Operation, Place, Kind

(* Moving an operation to another place.                                   *)
LEMMA OpMoves ==
    ASSUME op \in Operation, NEW p \in Place, op' = [op EXCEPT !.at = p]
    PROVE  OpIs(op.kind, op.write, p, op.result)
  BY DEF Operation, Place, OpIs

LEMMA OpMovesCancel ==
    ASSUME op \in Operation, NEW p \in Place, NEW c \in BOOLEAN,
           op' = [op EXCEPT !.at = p, !.cancel = c]
    PROVE  OpIs(op.kind, op.write, p, op.result)
  BY DEF Operation, Place, OpIs

LEMMA OpMovesRetire ==
    ASSUME op \in Operation, NEW p \in Place, NEW s \in {0} \union Session,
           op' = [op EXCEPT !.at = p, !.retire = s]
    PROVE  OpIs(op.kind, op.write, p, op.result)
  BY DEF Operation, Place, OpIs

LEMMA OpMovesResult ==
    ASSUME op \in Operation, NEW p \in Place, NEW r \in {"none"} \union Outcome,
           op' = [op EXCEPT !.at = p, !.result = r]
    PROVE  OpIs(op.kind, op.write, p, r)
  BY DEF Operation, Place, OpIs

LEMMA OpMovesBoth ==
    ASSUME op \in Operation, NEW p \in Place, NEW r \in {"none"} \union Outcome,
           NEW c \in BOOLEAN,
           op' = [op EXCEPT !.at = p, !.result = r, !.cancel = c]
    PROVE  OpIs(op.kind, op.write, p, r)
  BY DEF Operation, Place, OpIs

LEMMA OpEnds ==
    ASSUME op' = NoOp
    PROVE  OpIs("none", 0, "idle", "none")
  BY DEF Operation, OpIs, NoOp

LEMMA OpStarts ==
    ASSUME NEW k \in Kind, NEW w \in {0} \union Write, NEW p \in Place,
           NEW s \in {0} \union Session,
           \/ op' = [NoOp EXCEPT !.kind = k, !.at = p] /\ w = 0
           \/ op' = [NoOp EXCEPT !.kind = k, !.write = w, !.at = p]
           \/ op' = [NoOp EXCEPT !.kind = k, !.at = p, !.retire = s] /\ w = 0
    PROVE  OpIs(k, w, p, "none")
  BY DEF Operation, Place, Kind, OpIs, NoOp

LEMMA OpStays ==
    ASSUME op \in Operation, op' = op
    PROVE  OpIs(op.kind, op.write, op.at, op.result)
  BY DEF OpIs

LEMMA ResultTyped ==
    ASSUME TypeOK, NEW rejected \in BOOLEAN
    PROVE  Result(rejected) \in {"none"} \union Outcome /\ Result(rejected) # "none"
  BY DEF Result, Outcome

LEMMA NoZero == 0 \notin Session /\ 0 \notin Write
  BY DEF Session, Write

-----------------------------------------------------------------------------
(* Every step keeps the session in order and the reports truthful. *)

LEMMA HonestStep == Honest /\ [Next]_vars => Honest'
<1> SUFFICES ASSUME Honest, [Next]_vars PROVE Honest'
  OBVIOUS
<1>a. /\ TypeOK /\ Places /\ Leftovers /\ Reports
      /\ op \in Operation
      /\ op.kind \in Kind /\ op.at \in Place
      /\ op.result \in {"none"} \union Outcome /\ op.write \in {0} \union Write
      /\ {"none", "write", "shutdown"} \cap Reads = {}
      /\ {"catalog", "rows", "query"} \subseteq Reads
      /\ {"running", "cancelled", "rows", "query", "write"} \subseteq Trace
  BY OperationFields, Names DEF Honest, TypeOK
<1>1. ASSUME NEW kind \in Reads, Read(kind) PROVE Honest'
  <2>1. OpIs(kind, 0, "lease", "none")
    BY <1>a, <1>1, OpStarts, OperationFields DEF Read, Idle, Kind, Place, TypeOK
  <2>2. TypeOK'
    BY <1>a, <1>1, <2>1, NoZero DEF TypeOK, Read, Idle, OpIs, Status, Outcome
  <2>3. Places'
    BY <1>a, <1>1, <2>1, NoZero DEF TypeOK, Places, Read, Idle, OpIs
  <2>4. Leftovers'
    BY <1>a, <1>1, <2>1, <2>2, NoZero
       DEF TypeOK, Places, Leftovers, Read, Idle, OpIs
  <2>5. Reports'
    BY <1>a, <1>1, <2>1, NoZero
       DEF TypeOK, Places, Reports, Current, Truthful, Read, Idle, OpIs,
           Kind
  <2> QED BY <2>2, <2>3, <2>4, <2>5 DEF Honest
<1>2. ASSUME NEW w \in Write, Execute(w) PROVE Honest'
  <2>1. OpIs("write", w, "lease", "none")
    BY <1>a, <1>2, OpStarts DEF Execute, Idle, Kind, Place, TypeOK
  <2>2. TypeOK'
    BY <1>a, <1>2, <2>1, NoZero DEF TypeOK, Execute, Idle, OpIs, Status, Outcome
  <2>3. Places'
    BY <1>a, <1>2, <2>1, NoZero DEF TypeOK, Places, Execute, Idle, OpIs
  <2>4. Leftovers'
    BY <1>a, <1>2, <2>1, <2>2, NoZero
       DEF TypeOK, Places, Leftovers, Execute, Idle, OpIs
  <2>5. Reports'
    BY <1>a, <1>2, <2>1, NoZero
       DEF TypeOK, Places, Reports, Current, Truthful, Execute, Idle, OpIs
  <2> QED BY <2>2, <2>3, <2>4, <2>5 DEF Honest
<1>3. CASE Reap
  <2>1. OpIs(op.kind, op.write, op.at, op.result)
    BY <1>a, <1>3, OpStays DEF Reap, At, TypeOK
  <2>2. TypeOK'
    BY <1>a, <1>3, <2>1, NoZero
       DEF TypeOK, Reap, At, OpIs, Idle, Status, Outcome
  <2>3. Places'
    BY <1>a, <1>3, <2>1, NoZero DEF TypeOK, Places, Reap, At, OpIs, Idle
  <2>4. Leftovers'
    BY <1>a, <1>3, <2>1, <2>2, NoZero
       DEF TypeOK, Places, Leftovers, Reap, At, OpIs, Idle
  <2>5. Reports'
    BY <1>a, <1>3, <2>1, NoZero
       DEF TypeOK, Places, Reports, Current, Truthful, Reap, At, OpIs,
           Idle
  <2> QED BY <2>2, <2>3, <2>4, <2>5 DEF Honest
<1>4. CASE Lease
  <2>1. OpIs(op.kind, op.write, IF session = 0 THEN "connect" ELSE "configure", op.result)
    BY <1>a, <1>4, OpMoves DEF Lease, At, Goto, Place, TypeOK
  <2>2. TypeOK'
    BY <1>a, <1>4, <2>1, NoZero
       DEF TypeOK, Lease, At, Goto, OpIs, Idle, Status, Outcome
  <2>3. Places'
    BY <1>a, <1>4, <2>1, NoZero
       DEF TypeOK, Places, Lease, At, Goto, OpIs, Idle, Kind
  <2>4. Leftovers'
    BY <1>a, <1>4, <2>1, <2>2, NoZero
       DEF TypeOK, Places, Leftovers, Lease, At, Goto, OpIs, Idle
  <2>5. Reports'
    BY <1>a, <1>4, <2>1, NoZero
       DEF TypeOK, Places, Reports, Current, Truthful, Lease, At, Goto,
           OpIs, Idle
  <2> QED BY <2>2, <2>3, <2>4, <2>5 DEF Honest
<1>5. CASE Connect
  <2>1. OpIs(op.kind, op.write, "configure", op.result)
    BY <1>a, <1>5, OpMoves DEF Connect, At, Goto, Place, TypeOK
  <2>2. TypeOK'
    BY <1>a, <1>5, <2>1, NoZero
       DEF TypeOK, Connect, At, Goto, OpIs, Idle, Status, Outcome
  <2>3. Places'
    BY <1>a, <1>5, <2>1, NoZero
       DEF TypeOK, Places, Connect, At, Goto, OpIs, Idle
  <2>4. Leftovers'
    BY <1>a, <1>5, <2>1, <2>2, NoZero
       DEF TypeOK, Places, Leftovers, Connect, At, Goto, OpIs, Idle
  <2>5. Reports'
    BY <1>a, <1>5, <2>1, NoZero
       DEF TypeOK, Places, Reports, Current, Truthful, Connect, At, Goto,
           OpIs, Idle
  <2> QED BY <2>2, <2>3, <2>4, <2>5 DEF Honest
<1>6. CASE Configure
  <2>1. OpIs(op.kind, op.write, IF Writing THEN "prepare" ELSE "work", op.result)
    BY <1>a, <1>6, OpMoves DEF Configure, At, Goto, Open, Writing, Place, TypeOK
  <2>2. TypeOK'
    BY <1>a, <1>6, <2>1, NoZero
       DEF TypeOK, Configure, At, Goto, Open, Writing, OpIs, Idle, Status,
           Outcome
  <2>3. Places'
    BY <1>a, <1>6, <2>1, NoZero
       DEF TypeOK, Places, Configure, At, Goto, Open, Writing, OpIs, Idle,
           Kind
  <2>4. Leftovers'
    BY <1>a, <1>6, <2>1, <2>2, NoZero
       DEF TypeOK, Places, Leftovers, Configure, At, Goto, Open, Writing,
           OpIs, Idle
  <2>5. Reports'
    BY <1>a, <1>6, <2>1, NoZero
       DEF TypeOK, Places, Reports, Current, Truthful, Configure, At,
           Goto, Open, Writing, OpIs, Idle
  <2> QED BY <2>2, <2>3, <2>4, <2>5 DEF Honest
<1>7. CASE ReadEnds
  <2>1. OpIs("none", 0, "idle", "none")
    BY <1>a, <1>7, OpEnds DEF ReadEnds, At, Open, Return, Writing, TypeOK
  <2>2. TypeOK'
    BY <1>a, <1>7, <2>1, NoZero
       DEF TypeOK, ReadEnds, At, Open, Return, Writing, OpIs, Idle,
           Status, Outcome
  <2>3. Places'
    BY <1>a, <1>7, <2>1, NoZero
       DEF TypeOK, Places, ReadEnds, At, Open, Return, Writing, OpIs, Idle
  <2>4. Leftovers'
    BY <1>a, <1>7, <2>1, <2>2, NoZero
       DEF TypeOK, Places, Leftovers, ReadEnds, At, Open, Return, Writing,
           OpIs, Idle
  <2>5. Reports'
    BY <1>a, <1>7, <2>1, NoZero
       DEF TypeOK, Places, Reports, Current, Truthful, ReadEnds, At, Open,
           Return, Writing, OpIs, Idle
  <2> QED BY <2>2, <2>3, <2>4, <2>5 DEF Honest
<1>8. CASE ReadFails
  <2>1. OpIs(op.kind, op.write, IF session = 0 THEN "discard" ELSE "recover", op.result)
    BY <1>a, <1>8, OpMoves, OpMovesCancel DEF ReadFails, Goto, Place, TypeOK
  <2>2. TypeOK'
    BY <1>a, <1>8, <2>1, NoZero
       DEF TypeOK, ReadFails, Reading, Goto, OpIs, Idle, Status, Outcome
  <2>3. Places'
    BY <1>a, <1>8, <2>1, NoZero
       DEF TypeOK, Places, ReadFails, Reading, Goto, OpIs, Idle, Kind
  <2>4. Leftovers'
    BY <1>a, <1>8, <2>1, <2>2, NoZero
       DEF TypeOK, Places, Leftovers, ReadFails, Goto, OpIs, Idle
  <2>5. Reports'
    BY <1>a, <1>8, <2>1, NoZero
       DEF TypeOK, Places, Reports, Current, Truthful, ReadFails, Goto,
           OpIs, Idle
  <2> QED BY <2>2, <2>3, <2>4, <2>5 DEF Honest
<1>9. CASE Recover
  <2>1. OpIs("none", 0, "idle", "none")
    BY <1>a, <1>9, OpEnds DEF Recover, At, Open, Return, Writing, TypeOK
  <2>2. TypeOK'
    BY <1>a, <1>9, <2>1, NoZero
       DEF TypeOK, Recover, At, Open, Return, Writing, OpIs, Idle, Status,
           Outcome
  <2>3. Places'
    BY <1>a, <1>9, <2>1, NoZero
       DEF TypeOK, Places, Recover, At, Open, Return, Writing, OpIs, Idle
  <2>4. Leftovers'
    BY <1>a, <1>9, <2>1, <2>2, NoZero
       DEF TypeOK, Places, Leftovers, Recover, At, Open, Return, Writing,
           OpIs, Idle
  <2>5. Reports'
    BY <1>a, <1>9, <2>1, NoZero
       DEF TypeOK, Places, Reports, Current, Truthful, Recover, At, Open,
           Return, Writing, OpIs, Idle
  <2> QED BY <2>2, <2>3, <2>4, <2>5 DEF Honest
<1>10. CASE RecoverFails
  <2>1. OpIs(op.kind, op.write, "discard", op.result)
    BY <1>a, <1>10, OpMovesCancel DEF RecoverFails, At, Place, TypeOK
  <2>2. TypeOK'
    BY <1>a, <1>10, <2>1, NoZero
       DEF TypeOK, RecoverFails, At, OpIs, Idle, Status, Outcome
  <2>3. Places'
    BY <1>a, <1>10, <2>1, NoZero
       DEF TypeOK, Places, RecoverFails, At, OpIs, Idle
  <2>4. Leftovers'
    BY <1>a, <1>10, <2>1, <2>2, NoZero
       DEF TypeOK, Places, Leftovers, RecoverFails, At, OpIs, Idle
  <2>5. Reports'
    BY <1>a, <1>10, <2>1, NoZero
       DEF TypeOK, Places, Reports, Current, Truthful, RecoverFails, At,
           OpIs, Idle
  <2> QED BY <2>2, <2>3, <2>4, <2>5 DEF Honest
<1>11. CASE Dispatch
  <2>1. OpIs(op.kind, op.write, "execute", op.result)
    BY <1>a, <1>11, OpMoves DEF Dispatch, At, Open, Goto, Place, TypeOK
  <2>2. TypeOK'
    BY <1>a, <1>11, <2>1, NoZero
       DEF TypeOK, Dispatch, At, Open, Goto, OpIs, Idle, Status, Outcome
  <2>3. Places'
    BY <1>a, <1>11, <2>1, NoZero
       DEF TypeOK, Places, Dispatch, At, Open, Goto, OpIs, Idle
  <2>4. Leftovers'
    BY <1>a, <1>11, <2>1, <2>2, NoZero
       DEF TypeOK, Places, Leftovers, Dispatch, At, Open, Goto, OpIs, Idle
  <2>5. Reports'
    BY <1>a, <1>11, <2>1, NoZero
       DEF TypeOK, Places, Reports, Current, Truthful, Dispatch, At, Open,
           Goto, OpIs, Idle
  <2> QED BY <2>2, <2>3, <2>4, <2>5 DEF Honest
<1>12. CASE Unprepared
  <2>1. OpIs(op.kind, op.write, "clean", Result(TRUE))
    BY <1>a, <1>12, OpMovesResult, ResultTyped
       DEF Unprepared, At, Open, Place, TypeOK
  <2>2. TypeOK'
    BY <1>a, <1>12, <2>1, NoZero
       DEF TypeOK, Unprepared, At, Open, OpIs, Idle, Status, Outcome
  <2>3. Places'
    BY <1>a, <1>12, <2>1, NoZero, ResultTyped
       DEF TypeOK, Places, Unprepared, At, Open, OpIs, Idle
  <2>4. Leftovers'
    BY <1>a, <1>12, <2>1, <2>2, NoZero
       DEF TypeOK, Places, Leftovers, Unprepared, At, Open, OpIs, Idle
  <2>5. Reports'
    BY <1>a, <1>12, <2>1, NoZero
       DEF TypeOK, Places, Reports, Current, Truthful, Unprepared, At,
           Open, OpIs, Idle, Result
  <2> QED BY <2>2, <2>3, <2>4, <2>5 DEF Honest
<1>13. CASE Answered
  <2>1. OpIs(op.kind, op.write, "clean", IF ran[op.write] = "applied" THEN "Applied" ELSE Result(TRUE))
    BY <1>a, <1>13, OpMovesResult, ResultTyped
       DEF Answered, At, Open, Place, Outcome, TypeOK
  <2>2. TypeOK'
    BY <1>a, <1>13, <2>1, NoZero
       DEF TypeOK, Answered, At, Open, OpIs, Idle, Status, Outcome
  <2>3. Places'
    <3>1. op'.result # "none"
      BY <2>1, ResultTyped, <1>a DEF OpIs
    <3> QED
      BY <1>a, <1>13, <2>1, <3>1, NoZero
         DEF TypeOK, Places, Answered, At, OpIs, Idle
  <2>4. Leftovers'
    BY <1>a, <1>13, <2>1, <2>2, NoZero
       DEF TypeOK, Places, Leftovers, Answered, At, Open, OpIs, Idle
  <2>5. Reports'
    BY <1>a, <1>13, <2>1, NoZero
       DEF TypeOK, Places, Reports, Current, Truthful, Answered, At, Open,
           OpIs, Idle, Result
  <2> QED BY <2>2, <2>3, <2>4, <2>5 DEF Honest
<1>14. CASE StatementFails
  <2>1. OpIs(op.kind, op.write, "discard", Result(FALSE))
    BY <1>a, <1>14, OpMovesBoth, ResultTyped
       DEF StatementFails, Writing, Place, Places, TypeOK
  <2>2. TypeOK'
    BY <1>a, <1>14, <2>1, NoZero
       DEF TypeOK, StatementFails, Writing, OpIs, Idle, Status, Outcome
  <2>3. Places'
    BY <1>a, <1>14, <2>1, NoZero, ResultTyped
       DEF TypeOK, Places, StatementFails, Writing, OpIs, Idle
  <2>4. Leftovers'
    BY <1>a, <1>14, <2>1, <2>2, NoZero
       DEF TypeOK, Places, Leftovers, StatementFails, Writing, OpIs, Idle
  <2>5. Reports'
    BY <1>a, <1>14, <2>1, NoZero
       DEF TypeOK, Places, Reports, Current, Truthful, StatementFails,
           Writing, OpIs, Idle, Result
  <2> QED BY <2>2, <2>3, <2>4, <2>5 DEF Honest
<1>15. CASE Clean
  <2>1. OpIs("none", 0, "idle", "none")
    BY <1>a, <1>15, OpEnds DEF Clean, At, Open, Return, Writing, TypeOK
  <2>2. TypeOK'
    BY <1>a, <1>15, <2>1, NoZero
       DEF TypeOK, Clean, At, Open, Return, Writing, OpIs, Idle, Status,
           Outcome
  <2>3. Places'
    BY <1>a, <1>15, <2>1, NoZero
       DEF TypeOK, Places, Clean, At, Open, Return, Writing, OpIs, Idle
  <2>4. Leftovers'
    BY <1>a, <1>15, <2>1, <2>2, NoZero
       DEF TypeOK, Places, Leftovers, Clean, At, Open, Return, Writing,
           OpIs, Idle
  <2>5. Reports'
    BY <1>a, <1>15, <2>1, NoZero
       DEF TypeOK, Places, Reports, Current, Truthful, Clean, At, Open,
           Return, Writing, OpIs, Idle
  <2> QED BY <2>2, <2>3, <2>4, <2>5 DEF Honest
<1>16. CASE CleanFails
  <2>1. OpIs(op.kind, op.write, "discard", op.result)
    BY <1>a, <1>16, OpMoves DEF CleanFails, At, Place, TypeOK
  <2>2. TypeOK'
    BY <1>a, <1>16, <2>1, NoZero
       DEF TypeOK, CleanFails, At, OpIs, Idle, Status, Outcome
  <2>3. Places'
    BY <1>a, <1>16, <2>1, NoZero DEF TypeOK, Places, CleanFails, At, OpIs, Idle
  <2>4. Leftovers'
    BY <1>a, <1>16, <2>1, <2>2, NoZero
       DEF TypeOK, Places, Leftovers, CleanFails, At, OpIs, Idle
  <2>5. Reports'
    BY <1>a, <1>16, <2>1, NoZero, SMTT(30)
       DEF TypeOK, Places, Reports, Current, Truthful, CleanFails, At,
           OpIs, Idle
  <2> QED BY <2>2, <2>3, <2>4, <2>5 DEF Honest
<1>17. CASE Interrupt
  <2>1. OpIs(op.kind, op.write, "discard", IF Writing THEN Result(FALSE) ELSE op.result)
    BY <1>a, <1>17, OpMovesCancel, OpMovesBoth, ResultTyped, ZenonT(60)
       DEF Interrupt, Reading, Writing, Idle, Place, Places, TypeOK
  <2>2. TypeOK'
    BY <1>a, <1>17, <2>1, NoZero
       DEF TypeOK, Interrupt, Reading, Writing, Idle, OpIs, Status, Outcome
  <2>3. Places'
    BY <1>a, <1>17, <2>1, NoZero, ResultTyped
       DEF TypeOK, Places, Interrupt, Reading, Writing, Idle, OpIs, Kind
  <2>4. Leftovers'
    BY <1>a, <1>17, <2>1, <2>2, NoZero
       DEF TypeOK, Places, Leftovers, Interrupt, Reading, Writing, Idle, OpIs
  <2>5. Reports'
    BY <1>a, <1>17, <2>1, NoZero
       DEF TypeOK, Places, Reports, Current, Truthful, Interrupt, Reading, Writing,
           Idle, OpIs, Result, Kind
  <2> QED BY <2>2, <2>3, <2>4, <2>5 DEF Honest
<1>18. CASE InterruptEarly
  <2>1. OpIs("none", 0, "idle", "none")
    BY <1>a, <1>18, OpEnds DEF InterruptEarly, At, Writing, TypeOK
  <2>2. TypeOK'
    BY <1>a, <1>18, <2>1, NoZero
       DEF TypeOK, InterruptEarly, At, Writing, OpIs, Idle, Status,
           Outcome
  <2>3. Places'
    BY <1>a, <1>18, <2>1, NoZero
       DEF TypeOK, Places, InterruptEarly, At, Writing, OpIs, Idle
  <2>4. Leftovers'
    BY <1>a, <1>18, <2>1, <2>2, NoZero
       DEF TypeOK, Places, Leftovers, InterruptEarly, At, Writing, OpIs,
           Idle
  <2>5. Reports'
    BY <1>a, <1>18, <2>1, NoZero
       DEF TypeOK, Places, Reports, Current, Truthful, InterruptEarly, At,
           Writing, OpIs, Idle
  <2> QED BY <2>2, <2>3, <2>4, <2>5 DEF Honest
<1>19. CASE Discard
  <2>1. OpIs(op.kind, op.write, "close", op.result)
    BY <1>a, <1>19, OpMovesRetire DEF Discard, At, Dropped, Place, TypeOK
  <2>2. TypeOK'
    BY <1>a, <1>19, <2>1, NoZero
       DEF TypeOK, Discard, At, Dropped, OpIs, Idle, Status, Outcome
  <2>3. Places'
    BY <1>a, <1>19, <2>1, NoZero
       DEF TypeOK, Places, Discard, At, Dropped, OpIs, Idle
  <2>4. Leftovers'
    BY <1>a, <1>19, <2>1, <2>2, NoZero
       DEF TypeOK, Places, Leftovers, Discard, At, Dropped, OpIs, Idle
  <2>5. Reports'
    BY <1>a, <1>19, <2>1, NoZero
       DEF TypeOK, Places, Reports, Current, Truthful, Discard, At,
           Dropped, OpIs, Idle
  <2> QED BY <2>2, <2>3, <2>4, <2>5 DEF Honest
<1>20. CASE Close
  <2>1. OpIs("none", 0, "idle", "none")
    BY <1>a, <1>20, OpEnds DEF Close, At, Return, Writing, TypeOK
  <2>2. TypeOK'
    BY <1>a, <1>20, <2>1, NoZero
       DEF TypeOK, Close, At, Return, Writing, OpIs, Idle, Status, Outcome
  <2>3. Places'
    BY <1>a, <1>20, <2>1, NoZero
       DEF TypeOK, Places, Close, At, Return, Writing, OpIs, Idle
  <2>4. Leftovers'
    BY <1>a, <1>20, <2>1, <2>2, NoZero
       DEF TypeOK, Places, Leftovers, Close, At, Return, Writing, OpIs,
           Idle
  <2>5. Reports'
    BY <1>a, <1>20, <2>1, NoZero
       DEF TypeOK, Places, Reports, Current, Truthful, Close, At, Return,
           Writing, OpIs, Idle
  <2> QED BY <2>2, <2>3, <2>4, <2>5 DEF Honest
<1>21. CASE CloseTimesOut
  <2>1. OpIs("none", 0, "idle", "none")
    BY <1>a, <1>21, OpEnds DEF CloseTimesOut, At, Return, Writing, TypeOK
  <2>2. TypeOK'
    BY <1>a, <1>21, <2>1, NoZero
       DEF TypeOK, CloseTimesOut, At, Return, Writing, OpIs, Idle, Status,
           Outcome
  <2>3. Places'
    BY <1>a, <1>21, <2>1, NoZero
       DEF TypeOK, Places, CloseTimesOut, At, Return, Writing, OpIs, Idle
  <2>4. Leftovers'
    BY <1>a, <1>21, <2>1, <2>2, NoZero
       DEF TypeOK, Places, Leftovers, CloseTimesOut, At, Return, Writing,
           OpIs, Idle
  <2>5. Reports'
    BY <1>a, <1>21, <2>1, NoZero
       DEF TypeOK, Places, Reports, Current, Truthful, CloseTimesOut, At,
           Return, Writing, OpIs, Idle
  <2> QED BY <2>2, <2>3, <2>4, <2>5 DEF Honest
<1>22. CASE Shutdown
  <2>1. OpIs("shutdown", 0, "shut", "none")
    BY <1>a, <1>22, OpStarts DEF Shutdown, Idle, Dropped, Kind, Place, TypeOK
  <2>2. TypeOK'
    BY <1>a, <1>22, <2>1, NoZero
       DEF TypeOK, Shutdown, Idle, Dropped, OpIs, Status, Outcome
  <2>3. Places'
    BY <1>a, <1>22, <2>1, NoZero
       DEF TypeOK, Places, Shutdown, Idle, Dropped, OpIs
  <2>4. Leftovers'
    BY <1>a, <1>22, <2>1, <2>2, NoZero
       DEF TypeOK, Places, Leftovers, Shutdown, Idle, Dropped, OpIs
  <2>5. Reports'
    BY <1>a, <1>22, <2>1, NoZero
       DEF TypeOK, Places, Reports, Current, Truthful, Shutdown, Idle,
           Dropped, OpIs
  <2> QED BY <2>2, <2>3, <2>4, <2>5 DEF Honest
<1>23. CASE ShutdownEnds
  <2>1. OpIs("none", 0, "idle", "none")
    BY <1>a, <1>23, OpEnds DEF ShutdownEnds, At, TypeOK
  <2>2. TypeOK'
    BY <1>a, <1>23, <2>1, NoZero
       DEF TypeOK, ShutdownEnds, At, OpIs, Idle, Status, Outcome
  <2>3. Places'
    BY <1>a, <1>23, <2>1, NoZero
       DEF TypeOK, Places, ShutdownEnds, At, OpIs, Idle
  <2>4. Leftovers'
    BY <1>a, <1>23, <2>1, <2>2, NoZero
       DEF TypeOK, Places, Leftovers, ShutdownEnds, At, OpIs, Idle
  <2>5. Reports'
    BY <1>a, <1>23, <2>1, NoZero
       DEF TypeOK, Places, Reports, Current, Truthful, ShutdownEnds, At,
           OpIs, Idle
  <2> QED BY <2>2, <2>3, <2>4, <2>5 DEF Honest
<1>24. CASE Abort
  <2>1. OpIs("none", 0, "idle", "none")
    BY <1>a, <1>24, OpEnds DEF Abort, Idle, TypeOK
  <2>2. TypeOK'
    BY <1>a, <1>24, <2>1, NoZero DEF TypeOK, Abort, Idle, OpIs, Status, Outcome
  <2>3. Places'
    BY <1>a, <1>24, <2>1, NoZero DEF TypeOK, Places, Abort, Idle, OpIs
  <2>4. Leftovers'
    BY <1>a, <1>24, <2>1, <2>2, NoZero
       DEF TypeOK, Places, Leftovers, Abort, Idle, OpIs
  <2>5. Reports'
    BY <1>a, <1>24, <2>1, NoZero
       DEF TypeOK, Places, Reports, Current, Truthful, Abort, Idle, OpIs
  <2> QED BY <2>2, <2>3, <2>4, <2>5 DEF Honest
<1>25. ASSUME NEW s \in Session, LoseConnection(s) PROVE Honest'
  <2>1. OpIs(op.kind, op.write, op.at, op.result)
    BY <1>a, <1>25, OpStays DEF LoseConnection, TypeOK
  <2>2. TypeOK'
    BY <1>a, <1>25, <2>1, NoZero
       DEF TypeOK, LoseConnection, OpIs, Idle, Status, Outcome
  <2>3. Places'
    BY <1>a, <1>25, <2>1, NoZero DEF TypeOK, Places, LoseConnection, OpIs, Idle
  <2>4. Leftovers'
    BY <1>a, <1>25, <2>1, <2>2, NoZero
       DEF TypeOK, Places, Leftovers, LoseConnection, OpIs, Idle
  <2>5. Reports'
    BY <1>a, <1>25, <2>1, NoZero
       DEF TypeOK, Places, Reports, Current, Truthful, LoseConnection,
           OpIs, Idle
  <2> QED BY <2>2, <2>3, <2>4, <2>5 DEF Honest
<1>26. ASSUME NEW s \in Session, LetGo(s) PROVE Honest'
  <2>1. OpIs(op.kind, op.write, op.at, op.result)
    BY <1>a, <1>26, OpStays DEF LetGo, TypeOK
  <2>2. TypeOK'
    BY <1>a, <1>26, <2>1, NoZero DEF TypeOK, LetGo, OpIs, Idle, Status, Outcome
  <2>3. Places'
    BY <1>a, <1>26, <2>1, NoZero DEF TypeOK, Places, LetGo, OpIs, Idle
  <2>4. Leftovers'
    BY <1>a, <1>26, <2>1, <2>2, NoZero
       DEF TypeOK, Places, Leftovers, LetGo, OpIs, Idle
  <2>5. Reports'
    BY <1>a, <1>26, <2>1, NoZero
       DEF TypeOK, Places, Reports, Current, Truthful, LetGo, OpIs, Idle
  <2> QED BY <2>2, <2>3, <2>4, <2>5 DEF Honest
<1>27. ASSUME NEW s \in Session, DriverEnds(s) PROVE Honest'
  <2>1. OpIs(op.kind, op.write, op.at, op.result)
    BY <1>a, <1>27, OpStays DEF DriverEnds, TypeOK
  <2>2. TypeOK'
    BY <1>a, <1>27, <2>1, NoZero
       DEF TypeOK, DriverEnds, OpIs, Idle, Status, Outcome
  <2>3. Places'
    BY <1>a, <1>27, <2>1, NoZero DEF TypeOK, Places, DriverEnds, OpIs, Idle
  <2>4. Leftovers'
    BY <1>a, <1>27, <2>1, <2>2, NoZero
       DEF TypeOK, Places, Leftovers, DriverEnds, OpIs, Idle
  <2>5. Reports'
    BY <1>a, <1>27, <2>1, NoZero
       DEF TypeOK, Places, Reports, Current, Truthful, DriverEnds, OpIs,
           Idle
  <2> QED BY <2>2, <2>3, <2>4, <2>5 DEF Honest
<1>28. ASSUME NEW w \in Write, Decide(w) PROVE Honest'
  <2>1. OpIs(op.kind, op.write, op.at, op.result)
    BY <1>a, <1>28, OpStays DEF Decide, TypeOK
  <2>2. TypeOK'
    BY <1>a, <1>28, <2>1, NoZero DEF TypeOK, Decide, OpIs, Idle, Status, Outcome
  <2>3. Places'
    BY <1>a, <1>28, <2>1, NoZero DEF TypeOK, Places, Decide, OpIs, Idle
  <2>4. Leftovers'
    BY <1>a, <1>28, <2>1, <2>2, NoZero
       DEF TypeOK, Places, Leftovers, Decide, OpIs, Idle
  <2>5. Reports'
    BY <1>a, <1>28, <2>1, NoZero
       DEF TypeOK, Places, Reports, Current, Truthful, Decide, OpIs, Idle
  <2> QED BY <2>2, <2>3, <2>4, <2>5 DEF Honest
<1>29. CASE Ended
  <2>1. OpIs(op.kind, op.write, op.at, op.result)
    BY <1>a, <1>29, OpStays DEF Ended, Idle, vars, TypeOK
  <2>2. TypeOK'
    BY <1>a, <1>29, <2>1, NoZero
       DEF TypeOK, Ended, Idle, vars, OpIs, Status, Outcome
  <2>3. Places'
    BY <1>a, <1>29, <2>1, NoZero DEF TypeOK, Places, Ended, Idle, vars, OpIs
  <2>4. Leftovers'
    BY <1>a, <1>29, <2>1, <2>2, NoZero
       DEF TypeOK, Places, Leftovers, Ended, Idle, vars, OpIs
  <2>5. Reports'
    BY <1>a, <1>29, <2>1, NoZero
       DEF TypeOK, Places, Reports, Current, Truthful, Ended, Idle, vars,
           OpIs
  <2> QED BY <2>2, <2>3, <2>4, <2>5 DEF Honest
<1>31. CASE SetsState
  <2>1. OpIs(op.kind, op.write, op.at, op.result)
    BY <1>a, <1>31, OpStays DEF SetsState, TypeOK
  <2>2. TypeOK'
    BY <1>a, <1>31, <2>1, NoZero
       DEF TypeOK, Places, SetsState, At, Open, OpIs, Idle, Status, Outcome
  <2>3. Places'
    BY <1>a, <1>31, <2>1, NoZero DEF TypeOK, Places, SetsState, OpIs, Idle
  <2>4. Leftovers'
    BY <1>a, <1>31, <2>1, <2>2, NoZero
       DEF TypeOK, Places, Leftovers, SetsState, At, Open, OpIs, Idle
  <2>5. Reports'
    BY <1>a, <1>31, <2>1, NoZero
       DEF TypeOK, Places, Reports, Current, Truthful, SetsState, OpIs, Idle
  <2> QED BY <2>2, <2>3, <2>4, <2>5 DEF Honest
<1>30. CASE UNCHANGED vars
  <2>1. OpIs(op.kind, op.write, op.at, op.result)
    BY <1>a, <1>30, OpStays DEF vars, TypeOK
  <2>2. TypeOK'
    BY <1>a, <1>30, <2>1, NoZero DEF TypeOK, vars, OpIs, Idle, Status, Outcome
  <2>3. Places'
    BY <1>a, <1>30, <2>1, NoZero DEF TypeOK, Places, vars, OpIs, Idle
  <2>4. Leftovers'
    BY <1>a, <1>30, <2>1, <2>2, NoZero
       DEF TypeOK, Places, Leftovers, vars, OpIs, Idle
  <2>5. Reports'
    BY <1>a, <1>30, <2>1, NoZero
       DEF TypeOK, Places, Reports, Current, Truthful, vars, OpIs, Idle
  <2> QED BY <2>2, <2>3, <2>4, <2>5 DEF Honest
<1> QED
  BY <1>1, <1>2, <1>3, <1>4, <1>5, <1>6, <1>7, <1>8, <1>9, <1>10, <1>11,
     <1>12, <1>13, <1>14, <1>15, <1>16, <1>17, <1>18, <1>19, <1>20, <1>21,
     <1>22, <1>23, <1>24, <1>25, <1>26, <1>27, <1>28, <1>29, <1>30, <1>31
     DEF Next, Progress

-----------------------------------------------------------------------------
LEMMA HonestInit == Init => Honest
<1> SUFFICES ASSUME Init PROVE Honest
  OBVIOUS
<1>1. op \in Operation /\ op = NoOp
  BY DEF Init, NoOp, Operation
<1>2. op.at = "idle" /\ op.kind = "none"
  BY <1>1 DEF NoOp
<1>3. TypeOK
  <2>1. /\ client \in [Session -> {"unused", "open", "lost", "dropped"}]
        /\ driver \in [Session -> {"unused", "running", "ending", "done"}]
        /\ left \in [Session -> SUBSET Trace]
    BY DEF Init
  <2>2. /\ sent \in [Write -> BOOLEAN]
        /\ ran \in [Write -> {"no", "running", "applied", "failed"}]
        /\ report \in [Write -> {"none"} \union Outcome]
    BY DEF Init
  <2> QED
    BY <1>1, <1>2, <2>1, <2>2 DEF Init, TypeOK, Idle, Status
<1>4. Places /\ Leftovers
  BY <1>1 DEF Init, Places, Leftovers, NoOp
<1>5. Reports
  BY <1>1 DEF Init, Reports, Current, Truthful, NoOp
<1> QED
  BY <1>3, <1>4, <1>5 DEF Honest

LEMMA HonestAlways == Spec => []Honest
  BY HonestInit, HonestStep, PTL DEF Spec

(* Every variable of the executor keeps its type: the operation, the       *)
(* session in its slot, and what became of the others.                     *)
THEOREM TypeCorrect == Spec => []TypeOK
<1>1. Honest => TypeOK
  BY DEF Honest
<1> QED
  BY HonestAlways, <1>1, PTL

(* A query that ends, a statement that is over and a read that recovers    *)
(* give the session back as clean as it was connected.                     *)
LEMMA ResetStep == Honest /\ [Next]_vars => ResetsClear
<1> SUFFICES ASSUME Honest, [Next]_vars, Idle', session' # 0,
                    At("recover") \/ (op.kind \in {"query", "write"} /\ ~At("lease"))
             PROVE  left'[session'] = {}
  BY DEF ResetsClear
<1>a. /\ TypeOK /\ Places /\ Leftovers /\ op \in Operation
      /\ op.kind \notin {"none", "shutdown"} /\ op.at \notin {"idle", "lease", "shut"}
      /\ op.kind # "none" /\ op'.kind = "none"
  BY Names DEF Honest, TypeOK, Places, Idle, At
<1>1. ReadEnds \/ Recover \/ Clean \/ Close \/ CloseTimesOut \/ Abort
  <2>1. op' # op
    BY <1>a
  <2>2. ~(ReadFails \/ RecoverFails \/ Unprepared \/ Answered \/ StatementFails
          \/ CleanFails \/ Interrupt \/ Discard \/ Connect \/ Configure \/ Dispatch)
    BY <1>a DEF ReadFails, RecoverFails, Unprepared, Answered, StatementFails, CleanFails,
                Interrupt, Discard, Connect, Configure, Dispatch, Goto, Operation
  <2> QED
    BY <1>a, <2>1, <2>2
       DEF Next, Progress, Read, Execute, Reap, Lease, ShutdownEnds, InterruptEarly, Shutdown,
           LoseConnection, LetGo, DriverEnds, Decide, SetsState, Ended, vars, At, Idle
<1>2. CASE ReadEnds
  BY <1>a, <1>2, Names DEF ReadEnds, At, Open, Places, TypeOK
<1>3. CASE Recover \/ Clean
  BY <1>3 DEF Recover, Clean, Open, Honest, TypeOK
<1>4. CASE Close \/ CloseTimesOut \/ Abort
  BY <1>a, <1>4 DEF Close, CloseTimesOut, Abort, At, Leftovers
<1> QED
  BY <1>1, <1>2, <1>3, <1>4

(* A session that waits for a request has nothing of an earlier one left   *)
(* at the server, however reads and statements ended before it, except     *)
(* what functions of browsed views have set, and that is gone once a query *)
(* or a statement is over or a read failed (Lease, query::fetch,           *)
(* execute_query, read).                                                   *)
THEOREM SessionsAreClean == Spec => NothingLeft
<1>1. Honest => WaitsClean
  BY DEF Honest, TypeOK, Leftovers, WaitsClean, Idle
<1>2. Honest' => WaitsClean'
  BY <1>1, PTL
<1>3. Honest /\ Honest' /\ [Next]_vars => [WaitsClean' /\ ResetsClear]_vars
  BY <1>2, ResetStep
<1> QED
  BY HonestAlways, <1>3, PTL DEF Spec, NothingLeft

-----------------------------------------------------------------------------
(* The contract of reports *)

Effect == [w \in Write |-> ran[w] = "applied"]

(* A step that leaves the statements and their reports alone.              *)
LEMMA NoReport ==
    ASSUME UNCHANGED <<sent, ran, report>>
    PROVE  UNCHANGED Statements!vars
  BY DEF Statements!vars

(* The operation in progress tells its result.                             *)
LEMMA ResultReported ==
    ASSUME Honest, op.kind = "write", op.at \in {"clean", "discard", "close"},
           report' = [report EXCEPT ![op.write] = op.result],
           UNCHANGED <<sent, ran>>
    PROVE  Statements!Next
<1>1. /\ op.write \in Write
      /\ op.result \in {"error", "Applied", "Rejected", "Unknown"}
  <2>1. op.result \in {"none"} \union Outcome
    BY OperationFields DEF Honest, TypeOK
  <2> QED
    BY <2>1 DEF Honest, Places, Outcome
<1>2. Statements!Report(op.write, op.result)
  BY <1>1, ZenonT(60) DEF Honest, TypeOK, Reports, Current, Truthful, Statements!Report
<1> QED
  BY <1>1, <1>2 DEF Statements!Next

LEMMA StatementInit == Init => Statements!Init
  BY DEF Init, Statements!Init

LEMMA StatementStep == Honest /\ [Next]_vars => [Statements!Next]_(Statements!vars)
<1> SUFFICES ASSUME Honest, [Next]_vars
             PROVE  Statements!Next \/ UNCHANGED Statements!vars
  OBVIOUS
<1>a. op \in Operation /\ op.kind \in Kind
  BY OperationFields DEF Honest, TypeOK
<1>1. ASSUME NEW kind \in Reads, Read(kind)
      PROVE  Statements!Next \/ UNCHANGED Statements!vars
  BY <1>1, NoReport DEF Read
<1>2. ASSUME NEW w \in Write, Execute(w)
      PROVE  Statements!Next \/ UNCHANGED Statements!vars
  BY <1>2, NoReport DEF Execute
<1>3. CASE Reap
  BY <1>3, NoReport DEF Reap
<1>4. CASE Lease
  BY <1>4, NoReport DEF Lease
<1>5. CASE Connect
  BY <1>5, NoReport DEF Connect
<1>6. CASE Configure
  BY <1>6, NoReport DEF Configure
<1>7. CASE ReadFails
  BY <1>7, NoReport DEF ReadFails
<1>8. CASE RecoverFails
  BY <1>8, NoReport DEF RecoverFails
<1>9. CASE Unprepared
  BY <1>9, NoReport DEF Unprepared
<1>10. CASE Answered
  BY <1>10, NoReport DEF Answered
<1>11. CASE StatementFails
  BY <1>11, NoReport DEF StatementFails
<1>12. CASE CleanFails
  BY <1>12, NoReport DEF CleanFails
<1>13. CASE Interrupt
  BY <1>13, NoReport DEF Interrupt
<1>14. CASE Discard
  BY <1>14, NoReport DEF Discard
<1>15. CASE Shutdown
  BY <1>15, NoReport DEF Shutdown
<1>16. CASE ShutdownEnds
  BY <1>16, NoReport DEF ShutdownEnds
<1>17. CASE Abort
  BY <1>17, NoReport DEF Abort
<1>18. ASSUME NEW s \in Session, LoseConnection(s)
      PROVE  Statements!Next \/ UNCHANGED Statements!vars
  BY <1>18, NoReport DEF LoseConnection
<1>19. ASSUME NEW s \in Session, LetGo(s)
      PROVE  Statements!Next \/ UNCHANGED Statements!vars
  BY <1>19, NoReport DEF LetGo
<1>20. ASSUME NEW s \in Session, DriverEnds(s)
      PROVE  Statements!Next \/ UNCHANGED Statements!vars
  BY <1>20, NoReport DEF DriverEnds
<1>21. CASE ReadEnds
  BY <1>21, <1>a, NoReport, Names DEF ReadEnds, At, Return, Writing, Honest, Places
<1>22. CASE Recover
  BY <1>22, <1>a, NoReport, Names DEF Recover, At, Return, Writing, Honest, Places
<1>23. CASE Clean
  BY <1>23, <1>a, NoReport, ResultReported DEF Clean, At, Return, Writing
<1>24. CASE Close
  BY <1>24, <1>a, NoReport, ResultReported DEF Close, At, Return, Writing
<1>25. CASE CloseTimesOut
  BY <1>25, <1>a, NoReport, ResultReported
     DEF CloseTimesOut, At, Return, Writing
<1>26. CASE InterruptEarly
  <2>1. CASE Writing
    <3>1. op.write \in Write
      BY <2>1 DEF Honest, Places, Writing
    <3>2. Statements!Report(op.write, "error")
      BY <1>26, <2>1, <3>1
         DEF InterruptEarly, At, Writing, Honest, TypeOK, Reports,
             Current, Statements!Report
    <3> QED
      BY <3>1, <3>2 DEF Statements!Next
  <2>2. CASE ~Writing
    BY <1>26, <2>2, NoReport DEF InterruptEarly
  <2> QED BY <2>1, <2>2
<1>27. CASE Dispatch
  <2>1. op.write \in Write
    BY <1>27 DEF Dispatch, At, Honest, Places
  <2>2. /\ report[op.write] = "none" /\ ~sent[op.write] /\ ran[op.write] = "no"
    BY <1>27, <2>1 DEF Dispatch, At, Honest, Places, Reports, Current, TypeOK
  <2>3. Effect' = Effect
    BY <1>27, <2>1, <2>2 DEF Dispatch, Effect, Honest, TypeOK
  <2>4. Statements!Send(op.write)
    BY <1>27, <2>2, <2>3 DEF Dispatch, Effect, Statements!Send
  <2> QED
    BY <2>1, <2>4 DEF Statements!Next
<1>28. ASSUME NEW w \in Write, Decide(w)
      PROVE  Statements!Next \/ UNCHANGED Statements!vars
  <2>1. /\ sent[w] /\ ran[w] = "running"
        /\ report[w] \in {"none", "Unknown"}
    BY <1>28 DEF Decide, Honest, TypeOK, Reports, Truthful, Outcome
  <2>2. CASE ran' = [ran EXCEPT ![w] = "applied"]
    <3>1. Effect' = [Effect EXCEPT ![w] = TRUE] /\ ~Effect[w]
      BY <2>1, <2>2 DEF Effect, Honest, TypeOK
    <3>2. Statements!TakeEffect(w)
      BY <1>28, <2>1, <3>1 DEF Decide, Effect, Statements!TakeEffect
    <3> QED
      BY <3>2 DEF Statements!Next
  <2>3. CASE ran' = [ran EXCEPT ![w] = "failed"]
    <3>1. Effect' = Effect
      BY <2>1, <2>3 DEF Effect, Honest, TypeOK
    <3> QED
      BY <1>28, <3>1 DEF Decide, Effect, Statements!vars
  <2> QED
    BY <1>28, <2>2, <2>3 DEF Decide
<1>29. CASE Ended
  BY <1>29, NoReport DEF Ended, vars
<1>30. CASE UNCHANGED vars
  BY <1>30, NoReport DEF vars
<1>31. CASE SetsState
  BY <1>31, NoReport DEF SetsState
<1> QED
  BY <1>1, <1>2, <1>3, <1>4, <1>5, <1>6, <1>7, <1>8, <1>9, <1>10, <1>11,
     <1>12, <1>13, <1>14, <1>15, <1>16, <1>17, <1>18, <1>19, <1>20, <1>21,
     <1>22, <1>23, <1>24, <1>25, <1>26, <1>27, <1>28, <1>29, <1>30, <1>31
     DEF Next, Progress

(* The reports of statements keep the contract of WriteOutcome: an error   *)
(* only if nothing was sent, applied only with the effect, rejected only   *)
(* if it never comes.                                                      *)
THEOREM OutcomesImplemented == Spec => ImplementsWriteOutcome
  BY StatementInit, StatementStep, HonestAlways, PTL
     DEF Spec, ImplementsWriteOutcome, Statements!Spec

-----------------------------------------------------------------------------
(* The status and the connections *)

(* A connection is that of the session in the slot, or that of the session *)
(* that the operation waits for, or it is over.                            *)
Linked ==
    /\ \A s \in Session :
          /\ client[s] = "unused" <=> driver[s] = "unused"
          /\ client[s] = "open" => s = session /\ driver[s] = "running"
          /\ client[s] = "lost" => \/ driver[s] = "done"
                                   \/ s = session /\ driver[s] = "ending"
          /\ client[s] = "dropped" => driver[s] = "done" \/ s = op.retire
    /\ op.retire # 0 => op.at \in {"close", "shut"} /\ client[op.retire] = "dropped"
    /\ op.at \in {"configure", "work", "recover", "prepare", "execute", "clean"} => session # 0

(* While a session is looked for or used the status is that of its         *)
(* connection, and only an executor that was shut down is closing.         *)
Shown ==
    /\ closed => op.at \in {"idle", "shut"}
    /\ op.at = "shut" => closed
    /\ ~closed =>
          /\ status \notin {"Closing", "Closed"}
          /\ op.at \in {"idle", "lease"} /\ session = 0 => status \in {"Configured", "Disconnected"}
          /\ op.at \notin {"connect", "discard", "close", "shut"} =>
                /\ Open => status = "Connected"
                /\ session # 0 /\ driver[session] = "done" => status = "Disconnected"

Connected == Linked /\ Shown

(* Nothing is connected at first.                                          *)
LEMMA ConnectedInit == Init => Connected
  BY NoZero DEF Init, NoOp, Connected, Linked, Shown, Open

(* Every step keeps the connections and the status in order.               *)
LEMMA ConnectedStep == Honest /\ Connected /\ [Next]_vars => Connected'
<1> SUFFICES ASSUME Honest, Connected, [Next]_vars PROVE Connected'
  OBVIOUS
<1>t. /\ TypeOK /\ op \in Operation /\ Linked /\ Shown
      /\ op.at \in {"connect", "close", "shut"} => session = 0
      /\ op.kind = "none" <=> op.at = "idle"
  BY DEF Honest, TypeOK, Leftovers, Connected, Idle
<1>1. CASE \E kind \in Reads : Read(kind)
  BY <1>1, <1>t, NoZero
     DEF Read, Goto, Return, NoOp, At, Idle, Open, Dropped, Connected, Linked, Shown, TypeOK,
         Operation, Status
<1>2. CASE \E w \in Write : Execute(w)
  BY <1>2, <1>t, NoZero
     DEF Execute, Goto, Return, NoOp, At, Idle, Open, Dropped, Connected, Linked, Shown, TypeOK,
         Operation, Status
<1>3. CASE Reap
  BY <1>3, <1>t, NoZero
     DEF Reap, Goto, Return, NoOp, At, Idle, Open, Dropped, Connected, Linked, Shown, TypeOK,
         Operation, Status
<1>4. CASE Lease
  BY <1>4, <1>t, NoZero
     DEF Lease, Goto, Return, NoOp, At, Idle, Open, Dropped, Connected, Linked, Shown, TypeOK,
         Operation, Status
<1>5. CASE RecoverFails
  BY <1>5, <1>t, NoZero
     DEF RecoverFails, Goto, Return, NoOp, At, Idle, Open, Dropped, Connected, Linked, Shown, TypeOK,
         Operation, Status
<1>6. CASE CleanFails
  BY <1>6, <1>t, NoZero
     DEF CleanFails, Goto, Return, NoOp, At, Idle, Open, Dropped, Connected, Linked, Shown, TypeOK,
         Operation, Status
<1>7. CASE Interrupt
  <2>1. /\ op'.at = "discard" /\ op'.retire = op.retire
        /\ op.at \notin {"idle", "lease", "shut", "close", "discard"}
        /\ session' = session /\ client' = client /\ driver' = driver /\ status' = status
        /\ closed' = closed
    BY <1>7, <1>t DEF Interrupt, Operation, Idle
  <2> QED BY <2>1, <1>t, NoZero DEF Connected, Linked, Shown, Open, TypeOK
<1>8. CASE Discard
  BY <1>8, <1>t, NoZero
     DEF Discard, Goto, Return, NoOp, At, Idle, Open, Dropped, Connected, Linked, Shown, TypeOK,
         Operation, Status
<1>9. CASE Close
  BY <1>9, <1>t, NoZero
     DEF Close, Goto, Return, NoOp, At, Idle, Open, Dropped, Connected, Linked, Shown, TypeOK,
         Operation, Status
<1>10. CASE CloseTimesOut
  <2>1. /\ op'.at = "idle" /\ op'.retire = 0 /\ op.at = "close" /\ session = 0
        /\ driver' = [driver EXCEPT ![op.retire] = "done"] /\ op.retire \in Session
        /\ session' = session /\ client' = client /\ status' = "Disconnected"
        /\ closed' = closed /\ ~closed
    BY <1>10, <1>t DEF CloseTimesOut, Return, NoOp, Operation, At, Shown
  <2>2. Linked'
    BY <2>1, <1>t, NoZero DEF Linked, TypeOK
  <2>3. Shown'
    BY <2>1, <1>t DEF Shown, Open
  <2> QED BY <2>2, <2>3 DEF Connected
<1>11. CASE ShutdownEnds
  <2>1. /\ op'.at = "idle" /\ op'.retire = 0 /\ op.at = "shut" /\ session = 0
        /\ driver' = IF op.retire = 0 THEN driver ELSE [driver EXCEPT ![op.retire] = "done"]
        /\ op.retire = 0 \/ op.retire \in Session
        /\ session' = session /\ client' = client /\ status' = "Closed" /\ closed' = closed
    BY <1>11, <1>t DEF ShutdownEnds, NoOp, Operation, At
  <2>2. closed
    BY <1>t, <2>1 DEF Honest, Connected, Shown
  <2>3. Linked'
    BY <2>1, <1>t, NoZero DEF Linked, TypeOK
  <2>4. Shown'
    BY <2>1, <2>2, <1>t DEF Shown, Open
  <2> QED BY <2>3, <2>4 DEF Connected
<1>12. CASE Connect
  BY <1>12, <1>t, NoZero
     DEF Connect, Goto, Return, NoOp, At, Idle, Open, Dropped, Connected, Linked, Shown, TypeOK,
         Operation, Status
<1>13. CASE Configure
  BY <1>13, <1>t, NoZero
     DEF Configure, Goto, Return, NoOp, At, Idle, Open, Dropped, Connected, Linked, Shown, TypeOK,
         Operation, Status
<1>14. CASE ReadEnds
  BY <1>14, <1>t, NoZero
     DEF ReadEnds, Goto, Return, NoOp, At, Idle, Open, Dropped, Connected, Linked, Shown, TypeOK,
         Operation, Status
<1>15. CASE ReadFails
  <2>1. /\ op'.at \in {"discard", "recover"} /\ op'.retire = op.retire
        /\ op'.at = "recover" => session # 0 /\ op.at # "connect"
        /\ op.at \notin {"idle", "lease", "shut", "close", "discard"}
        /\ session' = session /\ client' = client /\ driver' = driver /\ status' = status
        /\ closed' = closed
    BY <1>15, <1>t DEF ReadFails, Goto, Operation, Idle
  <2> QED BY <2>1, <1>t, NoZero DEF Connected, Linked, Shown, Open, TypeOK
<1>16. CASE Recover
  BY <1>16, <1>t, NoZero
     DEF Recover, Goto, Return, NoOp, At, Idle, Open, Dropped, Connected, Linked, Shown, TypeOK,
         Operation, Status
<1>17. CASE Dispatch
  BY <1>17, <1>t, NoZero
     DEF Dispatch, Goto, Return, NoOp, At, Idle, Open, Dropped, Connected, Linked, Shown, TypeOK,
         Operation, Status
<1>18. CASE Unprepared
  BY <1>18, <1>t, NoZero
     DEF Unprepared, Goto, Return, NoOp, At, Idle, Open, Dropped, Connected, Linked, Shown, TypeOK,
         Operation, Status
<1>19. CASE Answered
  BY <1>19, <1>t, NoZero
     DEF Answered, Goto, Return, NoOp, At, Idle, Open, Dropped, Connected, Linked, Shown, TypeOK,
         Operation, Status
<1>20. CASE StatementFails
  BY <1>20, <1>t, NoZero
     DEF StatementFails, Goto, Return, NoOp, At, Idle, Open, Dropped, Connected, Linked, Shown, TypeOK,
         Operation, Status
<1>21. CASE Clean
  BY <1>21, <1>t, NoZero
     DEF Clean, Goto, Return, NoOp, At, Idle, Open, Dropped, Connected, Linked, Shown, TypeOK,
         Operation, Status
<1>22. CASE InterruptEarly
  BY <1>22, <1>t, NoZero
     DEF InterruptEarly, Goto, Return, NoOp, At, Idle, Open, Dropped, Connected, Linked, Shown, TypeOK,
         Operation, Status
<1>23. CASE Shutdown
  BY <1>23, <1>t, NoZero
     DEF Shutdown, Goto, Return, NoOp, At, Idle, Open, Dropped, Connected, Linked, Shown, TypeOK,
         Operation, Status
<1>24. CASE Abort
  BY <1>24, <1>t, NoZero
     DEF Abort, Goto, Return, NoOp, At, Idle, Open, Dropped, Connected, Linked, Shown, TypeOK,
         Operation, Status
<1>25. ASSUME NEW s \in Session, LoseConnection(s) PROVE Connected'
  BY <1>25, <1>t, NoZero
     DEF LoseConnection, At, Idle, Open, Connected, Linked, Shown, TypeOK, Status
<1>26. ASSUME NEW s \in Session, LetGo(s) PROVE Connected'
  BY <1>26, <1>t, NoZero
     DEF LetGo, At, Idle, Open, Connected, Linked, Shown, TypeOK, Status
<1>27. ASSUME NEW s \in Session, DriverEnds(s) PROVE Connected'
  BY <1>27, <1>t, NoZero
     DEF DriverEnds, At, Idle, Open, Connected, Linked, Shown, TypeOK, Status
<1>28. CASE (\E w \in Write : Decide(w)) \/ SetsState \/ UNCHANGED vars
  <2>1. /\ session' = session /\ client' = client /\ driver' = driver /\ status' = status
        /\ closed' = closed /\ op' = op
    BY <1>28 DEF Decide, SetsState, vars
  <2> QED BY <2>1 DEF Connected, Linked, Shown, Open
<1> QED BY <1>1, <1>2, <1>3, <1>4, <1>5, <1>6, <1>7, <1>8, <1>9, <1>10, <1>11, <1>12, <1>13, <1>14, <1>15, <1>16, <1>17, <1>18, <1>19, <1>20, <1>21, <1>22, <1>23, <1>24, <1>25, <1>26, <1>27, <1>28 DEF Next, Progress, Ended

(* The connections and the status are in order always.                     *)
LEMMA ConnectedAlways == Spec => [](Honest /\ Connected)
<1>1. Init => Honest /\ Connected
  BY HonestInit, ConnectedInit
<1>2. Honest /\ Connected /\ [Next]_vars => (Honest /\ Connected)'
  BY HonestStep, ConnectedStep
<1> QED BY <1>1, <1>2, PTL DEF Spec

(* What the invariant says of the status between operations, and that one  *)
(* connection runs at most.                                                *)
LEMMA ConnectedFits == Honest /\ Connected => StatusFits /\ OneConnection
<1> SUFFICES ASSUME Honest, Connected PROVE StatusFits /\ OneConnection
  OBVIOUS
<1>1. StatusFits
  BY DEF Honest, TypeOK, Connected, Shown, StatusFits, Idle
<1>2. OneConnection
  <2> DEFINE running == {s \in Session : driver[s] = "running"}
             last == IF session = 0 THEN op.retire ELSE session
  <2>1. \A s \in running : s = last
    <3> SUFFICES ASSUME NEW s \in Session, driver[s] = "running" PROVE s = last
      OBVIOUS
    <3>1. \/ client[s] = "open" /\ s = session
          \/ client[s] = "dropped" /\ s = op.retire
      <4>1. client[s] \in {"unused", "open", "lost", "dropped"}
        BY DEF Honest, TypeOK
      <4> QED BY <4>1 DEF Connected, Linked
    <3>2. op.retire # 0 => session = 0
      BY DEF Honest, Leftovers, Connected, Linked
    <3> QED BY <3>1, <3>2, NoZero
  <2> HIDE DEF last
  <2>2. running \subseteq {last}
    BY <2>1
  <2> HIDE DEF running
  <2>3. IsFiniteSet({last}) /\ Cardinality({last}) = 1
    BY FS_Singleton
  <2>4. Cardinality(running) <= 1
    BY <2>2, <2>3, FS_Subset
  <2> QED BY <2>4 DEF OneConnection, running
<1> QED BY <1>1, <1>2

(* What is closing stays so until it is closed.                            *)
LEMMA ClosingStep ==
    Honest /\ Connected /\ [Next]_vars =>
       /\ status = "Closing" => status' \in {"Closing", "Closed"}
       /\ status = "Closed" => status' = "Closed"
<1> SUFFICES ASSUME Honest, Connected, [Next]_vars, status \in {"Closing", "Closed"},
                    status' # status
             PROVE  status' = "Closed" /\ status = "Closing"
  OBVIOUS
<1>1. closed /\ op.at \in {"idle", "shut"}
  BY DEF Connected, Shown
<1>2. ShutdownEnds \/ \E s \in Session : DriverEnds(s)
  BY <1>1 DEF Next, Progress, Read, Execute, Reap, Lease, RecoverFails, CleanFails, Interrupt,
              Discard, Close, CloseTimesOut, Connect, Configure, ReadEnds, ReadFails, Recover,
              Dispatch, Unprepared, Answered, StatementFails, Clean, InterruptEarly, Shutdown,
              Abort, LoseConnection, LetGo, Decide, SetsState, Ended, vars, At
<1> QED BY <1>2 DEF ShutdownEnds, DriverEnds

(* The status says whether there is a session, one connection is open at   *)
(* most, and a driver that ends late overwrites neither the status of the  *)
(* next session nor that of a shutdown (PostgresExecutor::connect, close). *)
THEOREM StatusIsTruthful == Spec => StatusTruthful
<1>1. Honest /\ Connected => StatusFits /\ OneConnection
  BY ConnectedFits
<1>2. Honest /\ Connected /\ [Next]_vars =>
         [/\ status = "Closing" => status' \in {"Closing", "Closed"}
          /\ status = "Closed" => status' = "Closed"]_vars
  BY ClosingStep
<1> QED BY <1>1, <1>2, ConnectedAlways, PTL DEF Spec, StatusTruthful, ClosingCloses

=============================================================================
