------------------------------ MODULE History -------------------------------
(***************************************************************************)
(* The query history of onetui (crates/tui/src/history.rs and its use in   *)
(* crates/tui/src/app.rs): submitted texts are recorded with their         *)
(* connection, bounded, saved whole to a file beside the configuration,    *)
(* loaded by the next start, and recalled in the editor one by one.        *)
(*                                                                         *)
(* The file may be damaged or replaced by another process, a save may      *)
(* fail, and the process may be killed at any time.                        *)
(***************************************************************************)
EXTENDS Integers, Sequences

CONSTANTS
    Alias,      \* connections
    Line,       \* query texts
    Limit,      \* LIMIT, 100 in the code
    MaxLog      \* bound: submissions of one process

VARIABLE his

-----------------------------------------------------------------------------
(* Data *)

(* log: everything loaded and recorded since the start, which the code     *)
(* does not keep; typed: what the user typed before recalling anything.    *)
Entry == Alias \X Line
NoLine == {}
Running == [entries : Seq(Entry), saves : BOOLEAN, alias : Alias,
            editor : {NoLine} \cup {{l} : l \in Line}, position : Nat,
            current : {NoLine} \cup {{l} : l \in Line},
            log : Seq(Entry), typed : {NoLine} \cup {{l} : l \in Line}]

(* own: nobody else changed the file since this process used it.           *)
File == {"missing", "damaged", "entries"}

Last(s) == s[Len(s)]
NewestOf(s) == IF Len(s) <= Limit THEN s ELSE SubSeq(s, Len(s) - Limit + 1, Len(s))

-----------------------------------------------------------------------------
(* Starting and ending *)

(* history::load and App::new: a damaged file is reported and never        *)
(* written again; without the option there is no path.                     *)
Start ==
    /\ ~his.on
    /\ \E alias \in Alias, persists \in BOOLEAN :
          LET loaded == IF persists /\ his.file = "entries" THEN NewestOf(his.stored) ELSE <<>>
          IN his' = [his EXCEPT !.on = TRUE, !.own = persists /\ his.file # "damaged",
                        !.run = [entries |-> loaded,
                                 saves |-> persists /\ his.file # "damaged",
                                 alias |-> alias, editor |-> NoLine, position |-> 0,
                                 current |-> NoLine, log |-> loaded, typed |-> NoLine]]

Stop == his.on /\ his' = [his EXCEPT !.on = FALSE]

(* Another process replaces or damages the file.                           *)
Disturbed ==
    \/ his' = [his EXCEPT !.file = "damaged", !.stored = <<>>, !.own = FALSE]
    \/ \E e \in Entry : his' = [his EXCEPT !.file = "entries", !.stored = <<e>>, !.own = FALSE]

-----------------------------------------------------------------------------
(* The editor *)

Set(run) == his' = [his EXCEPT !.run = run]

(* open_query_editor; close_query and a result that replaces the editor.   *)
OpenEditor ==
    /\ his.on /\ his.run.editor = NoLine
    /\ \E l \in Line : Set([his.run EXCEPT !.editor = {l}, !.typed = {l},
                                           !.position = 0, !.current = NoLine])

CloseEditor ==
    /\ his.on /\ his.run.editor # NoLine
    /\ Set([his.run EXCEPT !.editor = NoLine, !.position = 0, !.current = NoLine, !.typed = NoLine])

Type ==
    /\ his.on /\ his.run.editor # NoLine
    /\ \E l \in Line : Set([his.run EXCEPT !.editor = {l},
                                           !.typed = IF his.run.position = 0 THEN {l} ELSE @])

OtherConnection ==
    /\ his.on /\ his.run.editor = NoLine
    /\ \E alias \in Alias : Set([his.run EXCEPT !.alias = alias])

(* The entries of the connection, by position in the whole history.        *)
Own(run) == {i \in 1 .. Len(run.entries) : run.entries[i][1] = run.alias}

Nearest(run, previous) ==
    IF previous
    THEN {i \in Own(run) : /\ run.position # 0 => i < run.position
                           /\ \A j \in Own(run) : j > i => run.position # 0 /\ j >= run.position}
    ELSE {i \in Own(run) : /\ run.position # 0 /\ i > run.position
                           /\ \A j \in Own(run) : j > run.position => j >= i}

(* browse_query_history: Ctrl-P walks to the older entry, Ctrl-N to the    *)
(* newer one and after the newest back to what was typed.                  *)
Recall(previous) ==
    LET run == his.run
        found == Nearest(run, previous)
        kept == IF run.position = 0 THEN run.editor ELSE run.current
    IN /\ his.on /\ run.editor # NoLine
       /\ \/ \E i \in found :
                Set([run EXCEPT !.position = i, !.current = kept, !.editor = {run.entries[i][2]}])
          \/ /\ found = {} /\ ~previous /\ run.position # 0
             /\ Set([run EXCEPT !.position = 0, !.current = NoLine,
                                !.editor = IF run.current = NoLine THEN @ ELSE run.current])

-----------------------------------------------------------------------------
(* Submitting *)

(* The oldest entry makes room for the new one.                            *)
Recorded(run, entry) ==
    [run EXCEPT !.entries = Append(IF Len(@) = Limit THEN Tail(@) ELSE @, entry),
                !.log = Append(@, entry)]

(* submit_query: recorded unless the last entry is the same, and saved     *)
(* whole, which may fail; the walk through the history ends.               *)
Submit ==
    /\ his.on /\ his.run.editor # NoLine
    /\ \E line \in his.run.editor :
          LET entry == <<his.run.alias, line>>
              same == his.run.entries # <<>> /\ Last(his.run.entries) = entry
              run == [(IF same THEN his.run ELSE Recorded(his.run, entry))
                         EXCEPT !.position = 0, !.current = NoLine, !.typed = {line}]
          IN /\ same \/ Len(his.run.log) < MaxLog
             /\ \/ Set(run)
                \/ /\ ~same /\ run.saves
                   /\ his' = [his EXCEPT !.run = run, !.file = "entries", !.stored = run.entries,
                                         !.own = TRUE]

-----------------------------------------------------------------------------
Init ==
    his = [on |-> FALSE, file |-> "missing", stored |-> <<>>, own |-> TRUE,
           run |-> [entries |-> <<>>, saves |-> FALSE, alias |-> CHOOSE a \in Alias : TRUE,
                    editor |-> NoLine, position |-> 0, current |-> NoLine,
                    log |-> <<>>, typed |-> NoLine]]

Next ==
    \/ Start \/ Stop \/ Disturbed
    \/ OpenEditor \/ CloseEditor \/ Type \/ OtherConnection
    \/ \E previous \in BOOLEAN : Recall(previous)
    \/ Submit

Spec == Init /\ [][Next]_his

-----------------------------------------------------------------------------
(* Properties *)

TypeOK ==
    /\ his.on \in BOOLEAN /\ his.own \in BOOLEAN /\ his.file \in File /\ his.stored \in Seq(Entry)
    /\ his.run \in Running
    /\ Len(his.run.entries) <= Limit

(* The process shows the newest entries of all it loaded and recorded, in  *)
(* their order, whatever was dropped for the limit; the file it owns is    *)
(* what it showed at some time, whichever saves failed.                    *)
HistoryIsNewest ==
    his.on =>
        /\ his.run.entries = NewestOf(his.run.log)
        /\ his.own /\ his.file = "entries" =>
              \E n \in 0 .. Len(his.run.log) : his.stored = NewestOf(SubSeq(his.run.log, 1, n))

(* While an old entry is shown, it is one of this connection and the text  *)
(* typed before is kept; back at the end of the walk the editor shows it.  *)
DraftReturns ==
    LET run == his.run
    IN his.on /\ run.editor # NoLine =>
         IF run.position = 0 THEN run.editor = run.typed
         ELSE run.position \in Own(run) /\ run.current = run.typed

=============================================================================
