----------------------------- MODULE ConfigFile -----------------------------
(***************************************************************************)
(* The configuration file of onetui (crates/core/src/config.rs) and the    *)
(* connection form that appends to it (crates/tui/src/connection.rs and    *)
(* App::save_connection). Config::add_connection compares the file with    *)
(* what it read, writes a temporary file, compares again and renames; any  *)
(* number of onetui processes and editors work on the same file, and a     *)
(* process may be killed between any two of these steps.                   *)
(*                                                                         *)
(* A text is the set of connections it declares and its layout: tables can *)
(* be appended to, inline connections cannot, a broken text does not       *)
(* parse. The 1 MiB limit is MaxNames connections.                         *)
(***************************************************************************)
EXTENDS Integers, FiniteSets

CONSTANTS
    Process,    \* onetui processes
    Alias,      \* connection names
    MaxNames,   \* connections that fit a configuration file
    MaxEdits    \* bound: changes made by editors

VARIABLE conf

-----------------------------------------------------------------------------
(* Data *)

Text == [names : SUBSET Alias, layout : {"tables", "inline", "broken"}]
Empty == [names |-> {}, layout |-> "tables"]

(* original is the text a process knows the file by, {} when it was        *)
(* missing; sure says that the file was the same ever since it compared.   *)
Proc == [pc : {"off", "ready", "compare", "write", "again", "rename"},
         original : SUBSET Text, connections : SUBSET Alias,
         adding : SUBSET Alias, error : BOOLEAN, sure : BOOLEAN]
Off == [pc |-> "off", original |-> {}, connections |-> {}, adding |-> {},
        error |-> FALSE, sure |-> FALSE]

(* file: the text, if the file is there; plain: a regular writable file.   *)
(* lost: connections of a comparison that a rename dropped.                *)
Conf == [proc : [Process -> Proc], file : SUBSET Text, plain : BOOLEAN,
         edits : 0 .. MaxEdits, lost : SUBSET Alias]

TextOf(file) == IF file = {} THEN Empty ELSE CHOOSE t \in file : TRUE

Parses(t) == t.layout # "broken"
Fits(t) == Cardinality(t.names) <= MaxNames

(* read_config: a file beyond the limit is an error.                       *)
Readable(file) == Fits(TextOf(file))

(* The new entry is a table after the text.                                *)
Appended(t, alias) == [t EXCEPT !.names = @ \cup {alias},
                                !.layout = IF @ = "inline" THEN "broken" ELSE @]

(* Whoever changes the file, no process can be sure of it any longer.      *)
Changed(proc) == [q \in Process |-> [proc[q] EXCEPT !.sure = FALSE]]

-----------------------------------------------------------------------------
(* A process *)

(* Config::load_for_startup: a missing file is only accepted for the       *)
(* default path; everything in the file must parse.                        *)
Start(p, allowMissing) ==
    /\ conf.proc[p].pc = "off"
    /\ conf.file = {} => allowMissing
    /\ Readable(conf.file) /\ Parses(TextOf(conf.file))
    /\ conf' = [conf EXCEPT !.proc[p] =
                  [Off EXCEPT !.pc = "ready", !.original = conf.file,
                              !.connections = TextOf(conf.file).names]]

(* Otherwise the process reports the error and exits.                      *)
StartFails(p) ==
    /\ conf.proc[p].pc = "off"
    /\ conf.file = {} \/ ~Readable(conf.file) \/ ~Parses(TextOf(conf.file))
    /\ UNCHANGED conf

(* The form is saved: a name that is free, options the provider accepts,   *)
(* and a whole text that fits and parses, all before the disk is touched.  *)
Add(p, alias) ==
    LET me == conf.proc[p]
        text == Appended(TextOf(me.original), alias)
    IN /\ me.pc = "ready"
       /\ conf' = [conf EXCEPT !.proc[p] =
                     IF alias \notin me.connections /\ Fits(text) /\ Parses(text)
                     THEN [me EXCEPT !.pc = "compare", !.adding = {alias}, !.error = FALSE]
                     ELSE [me EXCEPT !.error = TRUE]]

(* Any step on the way may fail: the form shows the error and the file     *)
(* stays as it is.                                                         *)
Fail(me) == [me EXCEPT !.pc = "ready", !.adding = {}, !.error = TRUE]

Same(p) == Readable(conf.file) /\ conf.file = conf.proc[p].original

(* The first comparison, with the kind of an existing file.                *)
Compare(p) ==
    /\ conf.proc[p].pc = "compare"
    /\ conf' = [conf EXCEPT !.proc[p] =
                  IF Same(p) /\ (conf.file # {} => conf.plain)
                  THEN [@ EXCEPT !.pc = "write"] ELSE Fail(@)]

(* create_dir_all, the temporary file, its permissions, write and sync.    *)
Write(p) ==
    /\ conf.proc[p].pc = "write"
    /\ \/ conf' = [conf EXCEPT !.proc[p].pc = "again"]
       \/ conf' = [conf EXCEPT !.proc[p] = Fail(@)]

(* Mutation: the second comparison is left out.                            *)
CompareOnce(p) ==
    /\ conf.proc[p].pc = "again"
    /\ conf' = [conf EXCEPT !.proc[p] = [@ EXCEPT !.pc = "rename", !.sure = TRUE]]

CompareAgain(p) ==
    /\ conf.proc[p].pc = "again"
    /\ conf' = [conf EXCEPT !.proc[p] =
                  IF Same(p) THEN [@ EXCEPT !.pc = "rename", !.sure = TRUE] ELSE Fail(@)]

(* persist replaces whatever is there; persist_noclobber, for a file that  *)
(* was missing, fails when one has appeared. The process then knows the    *)
(* file by the text it wrote.                                              *)
Rename(p) ==
    LET me == conf.proc[p]
        text == CHOOSE t \in {Appended(TextOf(me.original), a) : a \in me.adding} : TRUE
    IN /\ me.pc = "rename"
       /\ \/ /\ me.original = {} => conf.file = {}
             /\ conf' = [conf EXCEPT
                  !.proc = [Changed(conf.proc) EXCEPT ![p] =
                              [me EXCEPT !.pc = "ready", !.original = {text}, !.adding = {},
                                         !.connections = text.names, !.sure = FALSE]],
                  !.file = {text}, !.plain = TRUE,
                  !.lost = @ \cup (IF me.sure THEN TextOf(conf.file).names \ text.names ELSE {})]
          \/ conf' = [conf EXCEPT !.proc[p] = Fail([me EXCEPT !.sure = FALSE])]

(* A process ends or is killed; the temporary file is not the file.        *)
Stop(p) ==
    /\ conf.proc[p].pc # "off"
    /\ conf' = [conf EXCEPT !.proc[p] = Off]

-----------------------------------------------------------------------------
(* Editors *)

Edit ==
    /\ conf.edits < MaxEdits
    /\ \E file \in {{}} \cup {{t} : t \in Text}, plain \in BOOLEAN :
          /\ file # conf.file \/ plain # conf.plain
          /\ conf' = [conf EXCEPT !.file = file, !.plain = plain, !.edits = @ + 1,
                                  !.proc = Changed(@)]

(* Nobody has started yet.                                                 *)
Starts ==
    {[proc |-> [p \in Process |-> Off], file |-> file, plain |-> TRUE, edits |-> 0,
      lost |-> {}] : file \in {{}, {Empty}}}

Init == conf \in Starts

Next ==
    \/ \E p \in Process, allowMissing \in BOOLEAN : Start(p, allowMissing)
    \/ \E p \in Process, alias \in Alias : Add(p, alias)
    \/ \E p \in Process : StartFails(p) \/ Compare(p) \/ Write(p) \/ CompareAgain(p) \/ Rename(p) \/ Stop(p)
    \/ Edit

Spec == Init /\ [][Next]_conf

-----------------------------------------------------------------------------
(* Properties *)

TypeOK == conf \in Conf

(* Saving a connection drops none that another process or an editor had    *)
(* put into the file before the second comparison: only a change in the    *)
(* instant between that comparison and the rename can be replaced.         *)
NothingOverwritten == conf.lost = {}

(* Whatever a process saves can be loaded again, and holds all the         *)
(* connections the process shows: its list and its file never disagree.    *)
SavedConfigLoads ==
    \A p \in Process :
        LET me == conf.proc[p]
        IN me.pc # "off" =>
             /\ Fits(TextOf(me.original)) /\ Parses(TextOf(me.original))
             /\ me.connections = TextOf(me.original).names
             /\ Cardinality(me.adding) <= 1

=============================================================================
