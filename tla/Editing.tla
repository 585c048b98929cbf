-------------------------------- MODULE Editing --------------------------------
(***************************************************************************)
(* The text that the user types: the query editor, of several lines        *)
(* (crates/tui/src/query.rs), and the connection form, of a provider to    *)
(* choose and a text of one line for each of its fields (connection.rs).   *)
(* The caret is a position between two characters; the keys move it by     *)
(* graphemes, of which a character that combines is a part.                *)
(***************************************************************************)
EXTENDS Integers, Sequences, FiniteSetsExt, Ordering

CONSTANTS
    MaxText,        \* QUERY_BYTES, and the 16 KiB of a form; a character counts 1
    Fields,         \* bound: fields of the form
    Providers       \* bound: providers to choose from

VARIABLE ed

-----------------------------------------------------------------------------
(* Data *)

(* A letter, one that combines with the one before, and a new line.        *)
Letter == "a"
Combining == "m"
NewLine == "n"
Tab == "t"
Control == "c"

(* What is typed or pasted.                                                *)
Input == {<<Letter>>, <<Combining>>, <<NewLine>>, <<Tab>>, <<Control>>, <<Letter, NewLine>>}

Text == ed.texts[ed.field]
Cursor == ed.cursors[ed.field]
Is(kind) == ed.kind = kind /\ ~ed.choosing

(* A grapheme begins there, in whatever part of the text it is looked for. *)
Boundary(text, k) == k = 0 \/ k = Len(text) \/ text[k + 1] # Combining \/ text[k] = NewLine

Previous == IF Cursor = 0 THEN 0 ELSE Max({k \in 0 .. Cursor - 1 : Boundary(Text, k)})
Following ==
    IF Cursor = Len(Text) THEN Cursor ELSE Min({k \in Cursor + 1 .. Len(Text) : Boundary(Text, k)})

LineStart(k) == Max({0} \union {i \in 1 .. k : Text[i] = NewLine})
LineEnd(k) == Min({Len(Text)} \union {i - 1 : i \in {j \in k + 1 .. Len(Text) : Text[j] = NewLine}})

(* The graphemes of a part of the text, each by where it ends.             *)
Graphemes(first, last) ==
    InOrder({k \in first + 1 .. last : k = last \/ Boundary(Text, k)}, <)

Column == Len(Graphemes(LineStart(Cursor), Cursor))

-----------------------------------------------------------------------------
(* Edits *)

Move(cursor) == ed' = [ed EXCEPT !.cursors[ed.field] = cursor]

Replace(first, last, insert) ==
    ed' = [ed EXCEPT
             !.texts[ed.field] = SubSeq(@, 1, first) \o insert \o SubSeq(@, last + 1, Len(@)),
             !.cursors[ed.field] = first + Len(insert)]

(* A tab is four spaces, here two letters.                                 *)
Normalized(input) == IF input = <<Tab>> THEN <<Letter, Letter>> ELSE input

Held == SumFunction([f \in DOMAIN ed.texts |-> Len(ed.texts[f])])

(* "Query input contains a control character", "Query exceeds 16 KiB": the *)
(* text stays as it was.                                                   *)
Insert(input) ==
    LET insert == Normalized(input) IN
    IF Control \in Range(input) \/ Held + Len(insert) > MaxText THEN UNCHANGED ed
    ELSE Replace(Cursor, Cursor, insert)

QueryTypes == Is("query") /\ \E input \in Input : Insert(input)

Left == Move(Previous)
Right == Move(Following)
Home == Move(LineStart(Cursor))
End == Move(LineEnd(Cursor))
TextHome == Move(0)
TextEnd == Move(Len(Text))
Clear == Replace(0, Len(Text), <<>>)
Backspace == Replace(Previous, Cursor, <<>>)
Delete == Replace(Cursor, Following, <<>>)

EditKeys ==
    \/ Left \/ Right \/ Home \/ End \/ TextHome \/ TextEnd \/ Clear \/ Backspace \/ Delete

QueryKey == Is("query") /\ EditKeys

(* Mutation: the column is counted in characters.                          *)
LineMoveByCharacters(start, end) ==
    Move(Min({end, start + Cursor - LineStart(Cursor)}))

(* To the column that the caret has, or to the end of a shorter line.      *)
LineMove(start, end) ==
    LET line == Graphemes(start, end) IN
    Move(IF Column = 0 \/ line = <<>> THEN start ELSE line[Min({Column, Len(line)})])

Up ==
    /\ Is("query")
    /\ LET start == LineStart(Cursor) IN
       IF start = 0 THEN UNCHANGED ed ELSE LineMove(LineStart(start - 1), start - 1)

Down ==
    /\ Is("query")
    /\ LET end == LineEnd(Cursor) IN
       IF end = Len(Text) THEN UNCHANGED ed ELSE LineMove(end + 1, LineEnd(end + 1))

-----------------------------------------------------------------------------
(* The connection form *)

Choose ==
    /\ ed.kind = "form" /\ ed.choosing
    /\ \/ \E selected \in {Max({1, ed.selected - 1}), Min({Providers, ed.selected + 1})} :
            ed' = [ed EXCEPT !.selected = selected]
       \/ ed' = [ed EXCEPT !.choosing = FALSE]

(* Its fields take no new line either.                                     *)
FormTypes ==
    /\ Is("form")
    /\ \E input \in Input :
          IF {NewLine, Tab, Control} \intersect Range(input) # {} THEN UNCHANGED ed
          ELSE Insert(input)

FormKey ==
    /\ Is("form")
    /\ \/ EditKeys
       \/ ed' = [ed EXCEPT !.field = (@ % Fields) + 1]
       \/ ed' = [ed EXCEPT !.field = ((@ + Fields - 2) % Fields) + 1]
       \/ ed' = [ed EXCEPT !.save = TRUE]

-----------------------------------------------------------------------------
Editor(kind, fields, choosing) ==
    [kind |-> kind, texts |-> [f \in 1 .. fields |-> <<>>], cursors |-> [f \in 1 .. fields |-> 0],
     field |-> 1, choosing |-> choosing, selected |-> 1, save |-> FALSE]

Init == ed \in {Editor("query", 1, FALSE), Editor("form", Fields, TRUE)}

Next == QueryTypes \/ QueryKey \/ Up \/ Down \/ Choose \/ FormTypes \/ FormKey

Spec == Init /\ [][Next]_ed

-----------------------------------------------------------------------------
(* Properties *)

(* The caret is in its text, and a form has texts of one line.             *)
CaretInText ==
    /\ ed.field \in DOMAIN ed.texts /\ ed.selected \in 1 .. Providers /\ Held <= MaxText
    /\ \A f \in DOMAIN ed.texts :
          /\ ed.cursors[f] \in 0 .. Len(ed.texts[f])
          /\ ed.kind = "form" => NewLine \notin Range(ed.texts[f])

Before(text, count) == SubSeq(text, 1, count)
Behind(text, count) == SubSeq(text, Len(text) - count + 1, Len(text))

LineNumber == Len(SelectSeq(SubSeq(Text, 1, Cursor), LAMBDA char : char = NewLine))

(* A key changes the text at the caret and nowhere else, whatever letters  *)
(* combine there. The caret moves to a line next to its own only to the    *)
(* column that it had, or to the end of a line that is shorter.            *)
EditsAtCaret ==
    [][/\ (Text' # Text /\ ed'.field = ed.field /\ Text' # <<>>) =>
             LET first == Min({Cursor, Cursor'})
                 behind == Len(Text') - Cursor'
             IN /\ Before(Text', first) = Before(Text, first)
                /\ behind <= Len(Text)
                /\ Behind(Text', behind) = Behind(Text, behind)
       /\ (Up \/ Down) =>
             \/ LineNumber' = LineNumber
             \/ Column' = Column
             \/ Column' < Column /\ Cursor' = LineEnd(Cursor)']_ed

=============================================================================
