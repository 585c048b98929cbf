------------------------------- MODULE Terminal -------------------------------
(***************************************************************************)
(* What the terminal keeps besides its requests, which Session.tla has:    *)
(* the window of live records, the columns of the views, the modes that    *)
(* own a key press and the text that is typed in them, how what is shown   *)
(* is cut to the room there is, the modes of the terminal itself, and the  *)
(* two files it writes, the configuration and the query history. They meet *)
(* only in the awaited request, which each module has in the detail it     *)
(* needs, so a behavior is one of one part.                                *)
(***************************************************************************)
EXTENDS Follow

CONSTANTS
    Query, NoQuery, Shape, DescriptorColumns, BookmarkLimit, Followable, MaxOffset,
    MaxDepth,           \* those of Paging.tla; MaxDepth of Modes.tla too
    MaxRows, HistoryLimit,                      \* those of Modes.tla
    Process, Alias, MaxNames, MaxEdits,         \* those of ConfigFile.tla
    Asked, Line, Limit, MaxLog,                 \* those of History.tla, Asked its Alias
    QueryBytes, Fields, Providers,              \* those of Editing.tla
    Columns, MaxWidth, MaxGraphemes, LineWidth, Chunk, Budget, TableRows, Height
                                                \* those of Layout.tla

ASSUME TerminalAssumption ==
    /\ NoQuery \notin Query
    /\ \A s \in Shape : s \in Seq(UNION {Range(t) : t \in Shape})
    /\ {DescriptorColumns, MaxRows, Limit} \subseteq Nat \ {0}
    /\ {BookmarkLimit, MaxOffset, MaxDepth, HistoryLimit, MaxNames, MaxEdits} \subseteq Nat
    /\ Followable \in BOOLEAN
    /\ Asked # {}

ASSUME LayoutAssumption ==
    /\ TableRows \in Nat \ {0}
    /\ {Columns, MaxWidth, MaxGraphemes, LineWidth, Chunk, Budget, Height} \subseteq Nat

ASSUME EditorAssumption == Fields \in Nat \ {0} /\ Providers \in Nat \ {0} /\ QueryBytes \in Nat

VARIABLES part, pview, pparents, prequest, pfollowing, popening, pediting, ui, conf, his,
          ed, drawn, scr

Views == INSTANCE Paging WITH
    view <- pview, parents <- pparents, request <- prequest, following <- pfollowing,
    opening <- popening, editing <- pediting

Keys == INSTANCE Modes

Configuration == INSTANCE ConfigFile

Recorded == INSTANCE History WITH Alias <- Asked

Typed == INSTANCE Editing WITH MaxText <- QueryBytes

Drawn == INSTANCE Layout WITH MaxText <- MaxGraphemes, MaxRows <- TableRows

ScreenModes == INSTANCE Screen

-----------------------------------------------------------------------------
Part == {"follow", "views", "keys", "configuration", "history", "editing", "layout", "screen"}
Off == [kind |-> "off"]

TerminalInit ==
    /\ part \in Part
    /\ Init /\ Views!Init /\ Keys!Init /\ Recorded!Init
    /\ IF part = "configuration" THEN Configuration!Init
       ELSE conf = (CHOOSE c \in Configuration!Starts : TRUE)
    /\ IF part = "editing" THEN Typed!Init ELSE ed = Typed!Editor("query", 1, FALSE)
    /\ IF part = "layout" THEN Drawn!Init ELSE drawn = Off
    /\ IF part = "screen" THEN ScreenModes!Init ELSE scr = Off

pviews == <<pview, pparents, prequest, pfollowing, popening, pediting>>

Follows ==
    /\ part = "follow" /\ Next
    /\ UNCHANGED <<part, pviews, ui, conf, his, ed, drawn, scr>>

Pages ==
    /\ part = "views" /\ Views!Next
    /\ UNCHANGED <<part, vars, ui, conf, his, ed, drawn, scr>>

Presses ==
    /\ part = "keys" /\ Keys!Next
    /\ UNCHANGED <<part, vars, pviews, conf, his, ed, drawn, scr>>

Saves ==
    /\ part = "configuration" /\ Configuration!Next
    /\ UNCHANGED <<part, vars, pviews, ui, his, ed, drawn, scr>>

Records ==
    /\ part = "history" /\ Recorded!Next
    /\ UNCHANGED <<part, vars, pviews, ui, conf, ed, drawn, scr>>

Types ==
    /\ part = "editing" /\ Typed!Next
    /\ UNCHANGED <<part, vars, pviews, ui, conf, his, drawn, scr>>

Draws ==
    /\ part = "layout" /\ Drawn!Next
    /\ UNCHANGED <<part, vars, pviews, ui, conf, his, ed, scr>>

Switches ==
    /\ part = "screen" /\ ScreenModes!Next
    /\ UNCHANGED <<part, vars, pviews, ui, conf, his, ed, drawn>>

TerminalNext ==
    \/ Follows \/ Pages \/ Presses \/ Saves \/ Records \/ Types \/ Draws \/ Switches

TerminalSpec ==
    TerminalInit
    /\ [][TerminalNext]_<<vars, part, pviews, ui, conf, his, ed, drawn, scr>>

-----------------------------------------------------------------------------
(* Properties; TypeOK, NewestRecords, DisplayFitsRows and WindowSlides are *)
(* those of Follow.tla.                                                    *)

(* The types of the other parts.                                           *)
PartsTypeOK ==
    /\ part \in Part
    /\ Views!TypeOK /\ Keys!TypeOK /\ Configuration!TypeOK /\ Recorded!TypeOK

(* Records of other columns are never appended to the followed ones.       *)
LiveColumnsStable == Views!LiveColumnsStable

(* A handler finds the row, the scope or the entry that it expects.        *)
HandlersFindTheirData == Keys!HandlersFindTheirData

(* A popup or a menu only covers the request underneath.                   *)
PopupsKeepRequest == Keys!PopupsKeepRequest

(* What was saved is not lost: the connections of a configuration that     *)
(* other processes and editors change as well, the newest queries of the   *)
(* history, and the text typed before an old query was recalled.           *)
SavedIsKept ==
    /\ Configuration!NothingOverwritten /\ Configuration!SavedConfigLoads
    /\ Recorded!HistoryIsNewest /\ Recorded!DraftReturns

(* A key edits the text at its caret, which stays in the text; up and down *)
(* keep the column.                                                        *)
EditsAtCaret == []Typed!CaretInText /\ Typed!EditsAtCaret

(* What is cut or scrolled is nowhere lost, overdrawn or over its budget.  *)
ShownAsPromised == part = "layout" => Drawn!ShownAsPromised

(* The terminal is left as it was found.                                   *)
ScreenRestored == part = "screen" => ScreenModes!ScreenRestored

=============================================================================
