--------------------------------- MODULE Layout ---------------------------------
(***************************************************************************)
(* How the terminal cuts what it shows to the room that there is: the      *)
(* widths of the columns, the lines of a preview and of a value, the       *)
(* chunks of a long value, the memory of the previews, and the rows of a   *)
(* page (crates/tui/src/ui.rs, value.rs, row_value.rs and app.rs). A       *)
(* behavior is one of these loops, a step one turn of it, for any input    *)
(* within the bounds.                                                      *)
(***************************************************************************)
EXTENDS Integers, Sequences, FiniteSetsExt

CONSTANTS
    Columns,        \* bound: columns, at most 4 side by side in the code
    MaxWidth,       \* bound: width that the columns share
    MaxText,        \* bound: graphemes of a text
    LineWidth,      \* bound: width of a line
    Chunk,          \* TEXT_CHUNK, 4096 in the code
    Budget,         \* PAGE_BYTES, 1 MiB in the code
    MaxRows,        \* bound: rows of a table
    Height          \* bound: lines of a table

VARIABLE drawn

Is(kind) == drawn.kind = kind

-----------------------------------------------------------------------------
(* The widths of the columns *)

(* Mutation: a column gets all that is left.                               *)
ShareAll == drawn.remaining

(* The columns that need least come first: each has its part of what is    *)
(* left, so that what it does not need is left for the others.             *)
Share == drawn.remaining \div Cardinality(drawn.waiting)

Allot ==
    /\ Is("widths") /\ drawn.waiting # {}
    /\ LET least == {c \in drawn.waiting : \A d \in drawn.waiting : drawn.needs[c] <= drawn.needs[d]}
           column == Min(least)
           width == Min({drawn.needs[column], Share})
       IN drawn' = [drawn EXCEPT !.waiting = @ \ {column}, !.widths[column] = width,
                                 !.remaining = @ - width]

-----------------------------------------------------------------------------
(* The lines of a text *)

(* A grapheme of some width, the first of its word or not, or a new line.  *)
Glyph == [width : {1, 2}, word : BOOLEAN] \union {[width |-> 0, word |-> TRUE]}
NewLine == [width |-> 0, word |-> TRUE]

WidthOf(line) == SumFunction([k \in DOMAIN line |-> drawn.text[line[k]].width])

(* The rest of the word that begins at a position.                         *)
WordEnd(first) ==
    Max({k \in first .. Len(drawn.text) : \A m \in first + 1 .. k : ~drawn.text[m].word})

WordWidth(first) == WidthOf([k \in 1 .. WordEnd(first) - first + 1 |-> first + k - 1])

LastLine(state) == state.lines[Len(state.lines)]

Used(state) == WidthOf(LastLine(state))

(* The last line keeps what leaves room for the mark that it was cut.      *)
Cut(state) ==
    LET line == LastLine(state)
        kept == {k \in 0 .. Len(line) : WidthOf(SubSeq(line, 1, k)) < drawn.width}
    IN [state EXCEPT !.cut = TRUE, !.at = Len(drawn.text) + 1,
                     !.lines[Len(state.lines)] = SubSeq(line, 1, Max(kept))]

(* A preview has no fourth line.                                           *)
Broken(state) ==
    IF Is("preview") /\ Len(state.lines) = 3 THEN Cut(state)
    ELSE [state EXCEPT !.lines = Append(@, <<>>)]

(* What does not fit behind something begins a line.                       *)
Fitted(state, width) ==
    IF ~state.cut /\ Used(state) > 0 /\ Used(state) + width > drawn.width
    THEN Broken(state) ELSE state

Put(state) ==
    IF state.cut THEN state
    ELSE [state EXCEPT !.at = @ + 1, !.lines[Len(state.lines)] = Append(@, drawn.at)]

Wrapping == drawn.kind \in {"preview", "value"} /\ drawn.at <= Len(drawn.text)

BreakLine ==
    /\ Wrapping /\ drawn.text[drawn.at] = NewLine
    /\ LET broken == Broken(drawn) IN
       drawn' = IF broken.cut THEN broken ELSE [broken EXCEPT !.at = @ + 1]

(* A word goes to a line of its own before one of its graphemes does. A    *)
(* preview ends at a grapheme that is wider than a line.                   *)
PutGlyph ==
    /\ Wrapping /\ drawn.text[drawn.at] # NewLine
    /\ LET glyph == drawn.text[drawn.at]
           line == IF glyph.word THEN Fitted(drawn, WordWidth(drawn.at)) ELSE drawn
       IN drawn' = IF Is("preview") /\ glyph.width > drawn.width /\ ~line.cut THEN Cut(line)
                   ELSE Put(Fitted(line, glyph.width))

-----------------------------------------------------------------------------
(* The chunks of a long value: the text is what each grapheme has of       *)
(* characters *)

Split ==
    /\ Is("chunks") /\ drawn.at <= Len(drawn.text)
    /\ LET chars == drawn.text[drawn.at].width
           full == drawn.used > 0 /\ drawn.used + chars > Chunk
       IN drawn' = [drawn EXCEPT
            !.at = @ + 1,
            !.used = IF full THEN chars ELSE @ + chars,
            !.lines = IF full THEN Append(@, <<drawn.at>>)
                      ELSE [@ EXCEPT ![Len(@)] = Append(LastLine(drawn), drawn.at)]]

(* The detail view goes from chunk to chunk, within those there are.       *)
TurnChunk ==
    /\ Is("chunks") /\ drawn.at > Len(drawn.text)
    /\ \E shown \in {drawn.shown - 1, drawn.shown + 1} :
          drawn' = [drawn EXCEPT !.shown = Max({1, Min({shown, Len(drawn.lines)})})]

-----------------------------------------------------------------------------
(* The memory of the previews; the mark of a cut takes three bytes *)

Mark == 3

Prefix(length) == Min({length, Max({0, drawn.remaining - Mark})})

Preview ==
    /\ Is("previews") /\ drawn.used < MaxRows
    /\ \E length \in 0 .. Budget :
          drawn' = IF drawn.remaining < Mark
                   THEN [drawn EXCEPT !.used = @ + 1, !.limited = TRUE,
                                      !.missing = @ \/ length > 0]
                   ELSE LET kept == Prefix(length)
                            size == kept + (IF kept < length THEN Mark ELSE 0) IN
                        [drawn EXCEPT !.used = @ + 1, !.held = @ + size,
                                      !.remaining = Max({0, @ - size}),
                                      !.limited = @ \/ kept < length,
                                      !.missing = @ \/ kept < length]

-----------------------------------------------------------------------------
(* The rows of a table; the table is drawn from its first row, scrolled as *)
(* far as shows the selected row *)

LinesOf(first, last) == SumFunctionOnSet(drawn.heights, first .. last)

Window(selected) ==
    LET first == Min({f \in 1 .. selected : f = selected \/ LinesOf(f, selected) <= Height})
    IN IF first > 1 THEN first .. selected
       ELSE {row \in 1 .. MaxRows : row <= selected \/ LinesOf(1, row) <= Height}

(* As many rows from the selected one on as fill the table.                *)
PageStep(down) ==
    LET Lines(n) == IF down THEN LinesOf(drawn.selected, drawn.selected + n - 1)
                    ELSE LinesOf(drawn.selected - n + 1, drawn.selected)
        most == IF down THEN MaxRows - drawn.selected + 1 ELSE drawn.selected
    IN Min({n \in 1 .. most : n = most \/ Lines(n) >= Height})

Turn(down) ==
    /\ Is("rows")
    /\ LET selected == IF down THEN Min({MaxRows, drawn.selected + PageStep(TRUE)})
                       ELSE Max({1, drawn.selected - PageStep(FALSE)})
       IN drawn' = [drawn EXCEPT !.selected = selected, !.seen = @ \union Window(selected)]

PageDown == Turn(TRUE)
PageUp == Turn(FALSE)

-----------------------------------------------------------------------------
(* The lines of a value in its row, scrolled before the fields are turned; *)
(* the terminal may become higher or lower in between *)

(* What is drawn begins no later than fills the room.                      *)
Begin(state) == Min({state.scroll, Max({0, state.lines - state.room})})

DrawnFrom(state) ==
    LET begin == Begin(state) IN
    [state EXCEPT !.seen = @ \union (begin + 1 .. Min({begin + state.room, state.lines}))]

Scroll(down, half) ==
    LET step == IF half THEN Max({1, drawn.room \div 2}) ELSE drawn.room IN
    Min({IF down THEN drawn.scroll + step ELSE Max({0, drawn.scroll - step}),
         drawn.lines - drawn.room})

ScrollValue ==
    /\ Is("scroll") /\ drawn.lines > drawn.room
    /\ \E down, half \in BOOLEAN :
          drawn' = DrawnFrom([drawn EXCEPT !.scroll = Scroll(down, half)])

Resize ==
    /\ Is("scroll")
    /\ \E room \in 1 .. Height + 1 : drawn' = DrawnFrom([drawn EXCEPT !.room = room])

-----------------------------------------------------------------------------
Texts == UNION {[1 .. n -> Glyph] : n \in 0 .. MaxText}

Init ==
    \/ \E available \in 0 .. MaxWidth, needs \in [1 .. Columns -> 0 .. MaxWidth] :
          /\ \A c \in 1 .. Columns : needs[c] <= available
          /\ drawn = [kind |-> "widths", needs |-> needs, waiting |-> 1 .. Columns,
                      widths |-> [c \in 1 .. Columns |-> 0], available |-> available,
                      remaining |-> available]
    \/ \E kind \in {"preview", "value"}, text \in Texts, width \in 1 .. LineWidth :
          drawn = [kind |-> kind, text |-> text, width |-> width, at |-> 1, lines |-> <<<<>>>>,
                   cut |-> FALSE]
    \/ \E text \in Texts :
          /\ \A i \in DOMAIN text : text[i].width > 0 /\ text[i].word
          /\ drawn = [kind |-> "chunks", text |-> text, at |-> 1, lines |-> <<<<>>>>, used |-> 0,
                      shown |-> 1]
    \/ drawn = [kind |-> "previews", used |-> 0, held |-> 0, remaining |-> Budget,
                limited |-> FALSE, missing |-> FALSE]
    \/ \E heights \in [1 .. MaxRows -> 1 .. 2] :
          drawn = [kind |-> "rows", heights |-> heights, selected |-> 1, seen |-> {}]
    \/ \E lines \in 0 .. MaxRows, room \in 1 .. Height + 1 :
          drawn = DrawnFrom([kind |-> "scroll", lines |-> lines, room |-> room, scroll |-> 0,
                             seen |-> {}])

Done ==
    /\ \/ Is("widths") /\ drawn.waiting = {}
       \/ drawn.kind \in {"preview", "value"} /\ ~Wrapping
       \/ Is("previews") /\ drawn.used = MaxRows
    /\ UNCHANGED drawn

Next ==
    \/ Allot \/ BreakLine \/ PutGlyph \/ Split \/ TurnChunk \/ Preview \/ PageDown \/ PageUp
    \/ ScrollValue \/ Resize
    \/ Done

Spec == Init /\ [][Next]_drawn

-----------------------------------------------------------------------------
(* Properties *)

(* The columns never take more than there is; one that gets less than it   *)
(* needs gets as much as any other, but for the cell that does not divide, *)
(* and then nothing is left over.                                          *)
WidthsFair ==
    Is("widths") /\ drawn.waiting = {} =>
        LET total == SumFunction(drawn.widths) IN
        /\ total <= drawn.available
        /\ \A c \in 1 .. Columns : drawn.widths[c] < drawn.needs[c] =>
              /\ \A d \in 1 .. Columns : drawn.widths[d] <= drawn.widths[c] + 1
              /\ total = drawn.available

(* The positions that lines have, and that these rise through them.        *)
Shown(lines) == UNION {Range(lines[k]) : k \in DOMAIN lines}

Rising(lines) ==
    \A k, l \in DOMAIN lines : \A i \in DOMAIN lines[k], j \in DOMAIN lines[l] :
       k < l \/ (k = l /\ i < j) => lines[k][i] < lines[l][j]

(* The lines of a text are no wider than the room, and have its graphemes  *)
(* in their order, up to the mark where a preview of three lines was cut.  *)
LinesFit ==
    drawn.kind \in {"preview", "value"} =>
        LET shown == Shown(drawn.lines)
            glyphs == {i \in DOMAIN drawn.text : drawn.text[i] # NewLine}
            mark(k) == IF drawn.cut /\ k = Len(drawn.lines) THEN 1 ELSE 0
        IN /\ Is("preview") => Len(drawn.lines) <= 3
           /\ \A k \in DOMAIN drawn.lines :
                 \/ WidthOf(drawn.lines[k]) + mark(k) <= drawn.width
                 \/ Is("value") /\ Len(drawn.lines[k]) = 1
           /\ Rising(drawn.lines) /\ shown \subseteq glyphs
           /\ \A i \in shown, j \in glyphs : j < i => j \in shown
           /\ ~Wrapping /\ ~drawn.cut => shown = glyphs

(* The chunks of a value have all of it in order, none more than fits, and *)
(* the one that is shown exists.                                           *)
ChunksFit ==
    Is("chunks") =>
        /\ Rising(drawn.lines) /\ Shown(drawn.lines) = 1 .. drawn.at - 1
        /\ \A k \in DOMAIN drawn.lines :
              WidthOf(drawn.lines[k]) <= Chunk \/ Len(drawn.lines[k]) = 1
        /\ drawn.shown \in DOMAIN drawn.lines

(* The previews of a page hold no more than their budget, and a page that  *)
(* lacks some of a text says so.                                           *)
PreviewsFit ==
    Is("previews") => drawn.held <= Budget /\ (drawn.missing => drawn.limited)

(* Paging through rows of one line each shows all of them.                 *)
RowsSeen ==
    Is("rows") /\ (\A row \in 1 .. MaxRows : drawn.heights[row] = 1) /\ drawn.seen # {} =>
        1 .. drawn.selected \ Window(1) \subseteq drawn.seen

(* What precedes the lines of a value that are drawn was drawn before, and *)
(* no line of the room is left blank while there are enough.               *)
ValueSeen ==
    Is("scroll") =>
        /\ 1 .. Min({drawn.lines, Begin(drawn) + drawn.room}) \subseteq drawn.seen
        /\ drawn.lines >= drawn.room => Begin(drawn) + drawn.room <= drawn.lines

ShownAsPromised ==
    WidthsFair /\ LinesFit /\ ChunksFit /\ PreviewsFit /\ RowsSeen /\ ValueSeen

=============================================================================
