------------------------------- MODULE Modes --------------------------------
(***************************************************************************)
(* Who owns a key press in onetui (crates/tui/src/app.rs): the popups and  *)
(* menus, the query editor, the filter and command lines, the row and      *)
(* field details, and the handlers that expect a row, a query scope or a   *)
(* history entry to be there ("expect" in the code). Requests are awaited  *)
(* and answered underneath, whatever is open.                              *)
(*                                                                         *)
(* The state is one record, as in the code, and a handler is a function    *)
(* of it. A view keeps how many rows it has and how many the filter shows; *)
(* cell contents, scrolling and the text being typed are left out, and     *)
(* paging, which Paging.tla models, is reduced to reloading a view.        *)
(***************************************************************************)
EXTENDS Integers, Sequences

CONSTANTS
    MaxRows,        \* bound: rows of a page
    MaxDepth,       \* bound: views behind the current one
    HistoryLimit    \* bound: recorded queries of the connection

VARIABLE ui

-----------------------------------------------------------------------------
(* Data *)

Popup == {"quit", "query", "connect", "form", "editor", "history", "display", "theme"}

(* The order in which modal_available and act ask who owns the input.      *)
Priority == <<"quit", "query", "connect", "form", "editor", "history", "display", "theme">>
Owner(u) ==
    IF u.open = {} THEN "view"
    ELSE Priority[CHOOSE i \in DOMAIN Priority :
            /\ Priority[i] \in u.open
            /\ \A j \in 1 .. (i - 1) : Priority[j] \notin u.open]

Rows == 0 .. MaxRows

(* hits rows of the page pass the filter; leaf rows have no target; scope: *)
(* the resource itself can be queried; query: the view shows results.      *)
View == [list : BOOLEAN, rows : Rows, hits : Rows, columns : 1 .. 2, leaf : BOOLEAN,
         scope : BOOLEAN, query : BOOLEAN, filter : BOOLEAN]

NewView(leaf, scope) ==
    [list |-> FALSE, rows |-> 0, hits |-> 0, columns |-> 2, leaf |-> leaf,
     scope |-> scope, query |-> FALSE, filter |-> FALSE]
Connections ==
    [list |-> TRUE, rows |-> 1, hits |-> 1, columns |-> 2, leaf |-> TRUE,
     scope |-> FALSE, query |-> FALSE, filter |-> FALSE]

(* restore: what leaving the filter line restores, {} if none.             *)
Ui == [view : View, parents : Seq(View), open : SUBSET Popup, help : BOOLEAN,
       detail : BOOLEAN, rowDetail : BOOLEAN, command : BOOLEAN, filtering : BOOLEAN,
       restore : SUBSET BOOLEAN, loading : BOOLEAN, following : BOOLEAN,
       opening : BOOLEAN, asked : {"page", "query", "follow"}, recorded : 0 .. HistoryLimit,
       entry : Nat, quit : BOOLEAN]

QueryTarget(v) == ~v.list /\ (v.scope \/ (v.hits > 0 /\ ~v.leaf))

SingleValue(v) == ~v.list /\ v.columns = 1 /\ v.rows = 1 /\ v.leaf /\ v.hits > 0

-----------------------------------------------------------------------------
(* What an action may do where, and the functions the handlers are made of *)

Closing == {"Open", "Back", "Cancel"}

(* What the owner of the input allows; the view decides for itself.        *)
ModalAvailable(owner, a) ==
    \/ owner \in {"quit", "query", "connect"} /\ a \in Closing
    \/ owner \in {"form", "editor"} /\ a \in {"Back", "Cancel"}
    \/ owner \in {"history", "theme"} /\ a \in Closing \cup {"Up", "Down"}
    \/ owner = "display" /\ a \in Closing \cup {"Up", "Down", "Help"}

Available(u, a) ==
    LET busy == u.loading /\ ~u.following
        inRow == u.detail \/ u.rowDetail
        plain == ~u.help /\ ~inRow
    IN IF u.open # {} THEN ModalAvailable(Owner(u), a)
       ELSE /\ a = "Add" => plain /\ u.view.list
            /\ a = "Follow" => ~busy /\ plain /\ ~u.view.query /\ ~u.view.list /\ u.view.scope
            /\ a = "Query" => ~busy /\ QueryTarget(u.view)
            /\ a = "History" => ~busy /\ plain /\ QueryTarget(u.view)
            /\ a \in {"Filter", "Sort"} => ~inRow
            /\ a = "Columns" => ~busy /\ ~inRow /\ ~u.view.list /\ ~u.view.leaf /\ u.view.hits > 0
            /\ a = "Back" => u.help \/ inRow \/ u.parents # <<>>
            /\ a = "Open" => ~busy /\ u.view.hits > 0
            /\ a = "Refresh" => ~u.view.query
            /\ a \in {"Up", "Down"} => u.help \/ u.view.hits > 0

Invalidate(u) ==
    [u EXCEPT !.following = FALSE, !.loading = FALSE, !.opening = FALSE,
              !.open = @ \ {"query"}]

(* Mutation: a reload keeps the row detail open over the page it replaces. *)
LoadKeepsRow(u, asked) == [Invalidate(u) EXCEPT !.loading = TRUE, !.asked = asked]

Load(u, asked) ==
    [Invalidate(u) EXCEPT !.rowDetail = FALSE, !.loading = TRUE, !.asked = asked]

ToConnections(u) ==
    [Invalidate(u) EXCEPT !.open = @ \ {"editor"}, !.parents = <<>>, !.view = Connections,
                          !.help = FALSE, !.detail = FALSE, !.rowDetail = FALSE,
                          !.filtering = FALSE, !.restore = {}]

(* Every row shows without a filter; with one, the choice is the text's.   *)
Shows(v, hits) == hits \in 0 .. v.rows /\ (~v.filter => hits = v.rows)

RestoreFilter(u, hits) ==
    IF u.restore = {} THEN [u EXCEPT !.filtering = FALSE]
    ELSE [u EXCEPT !.filtering = FALSE, !.restore = {},
                   !.view.filter = TRUE \in u.restore, !.view.hits = hits]

OpenEditor(u) ==
    [u EXCEPT !.open = @ \cup {"editor"}, !.help = FALSE, !.detail = FALSE, !.rowDetail = FALSE]

CloseQuery(u) == [Invalidate(u) EXCEPT !.open = @ \ {"editor"}]

SubmitQuery(u) ==
    Load([u EXCEPT !.recorded = IF @ = HistoryLimit THEN @ ELSE @ + 1], "query")

GoBack(u) ==
    LET leave == [Invalidate(u) EXCEPT !.view = u.parents[Len(u.parents)],
                                       !.parents = SubSeq(u.parents, 1, Len(u.parents) - 1)]
        field == [u EXCEPT !.detail = FALSE]
    IN IF u.help THEN [u EXCEPT !.help = FALSE]
       ELSE IF u.detail THEN IF ~u.rowDetail /\ SingleValue(u.view) /\ u.parents # <<>>
                             THEN [leave EXCEPT !.detail = FALSE]
                             ELSE field
       ELSE IF u.rowDetail THEN [u EXCEPT !.rowDetail = FALSE]
       ELSE IF u.parents # <<>> THEN leave
       ELSE u

-----------------------------------------------------------------------------
(* App::act: the popups first, then what following does, then the view     *)

(* act_modal, act_history_menu, act_display_menu and act_theme_menu.       *)
ActQuit(u, a) ==
    \/ a = "Open" /\ ui' = [Invalidate(u) EXCEPT !.quit = TRUE]
    \/ a \in {"Back", "Cancel"} /\ ui' = [u EXCEPT !.open = @ \ {"quit"}]

ActConfirmation(u, a) ==
    \/ a = "Open" /\ ui' = SubmitQuery([u EXCEPT !.open = @ \ {"query"}])
    \/ a \in {"Back", "Cancel"} /\ ui' = [u EXCEPT !.open = @ \ {"query"}]

ActConnectError(u, a) == a \in Closing /\ ui' = [u EXCEPT !.open = @ \ {"connect"}]

ActForm(u, a) == a \in {"Back", "Cancel"} /\ ui' = [u EXCEPT !.open = @ \ {"form"}]

ActEditor(u, a) == a \in {"Back", "Cancel"} /\ ui' = CloseQuery(u)

(* Opening an entry closes the menu and then acts as Query does, which     *)
(* must be available.                                                      *)
ActHistory(u, a) ==
    LET closed == [u EXCEPT !.open = @ \ {"history"}, !.entry = 0]
    IN \/ a = "Up" /\ u.entry > 0 /\ ui' = [u EXCEPT !.entry = @ - 1]
       \/ a = "Down" /\ u.entry + 1 < u.recorded /\ ui' = [u EXCEPT !.entry = @ + 1]
       \/ a = "Open" /\ ui' = OpenEditor(closed)
       \/ a \in {"Back", "Cancel"} /\ ui' = closed

ActDisplay(u, a) ==
    \/ a = "Help" /\ ui' = [u EXCEPT !.help = ~@]
    \/ a \in {"Back", "Cancel"} /\ ui' = [u EXCEPT !.open = @ \ {"display"}, !.help = FALSE]

(* Mutation: leaving the theme menu with Ctrl-C also cancels the request.  *)
ActThemeCancels(u, a) ==
    a \in Closing /\ ui' = LET closed == [u EXCEPT !.open = @ \ {"theme"}]
                           IN IF a = "Cancel" THEN Invalidate(closed) ELSE closed

(* Up and Down preview a theme, Back restores the one before: no request   *)
(* is touched, and the colours are left out.                               *)
ActTheme(u, a) == a \in Closing /\ ui' = [u EXCEPT !.open = @ \ {"theme"}]

(* Opening a connection, the target of a row, or the detail of a row.      *)
OpenSelected(u) ==
    /\ ~u.help /\ ~u.detail
    /\ \/ /\ u.view.list \/ ~u.view.leaf
          /\ Len(u.parents) < MaxDepth
          /\ \E leaf, scope \in BOOLEAN :
                ui' = [Load([u EXCEPT !.parents = Append(@, u.view),
                                      !.view = NewView(leaf, scope)], "page")
                          EXCEPT !.opening = u.view.list]
       \/ /\ ~u.view.list /\ u.view.leaf
          /\ ui' = IF u.rowDetail \/ u.view.columns = 1
                   THEN [u EXCEPT !.detail = TRUE]
                   ELSE [u EXCEPT !.rowDetail = TRUE]

OpenColumns(u) ==
    /\ Len(u.parents) < MaxDepth
    /\ ui' = Load([u EXCEPT !.help = FALSE, !.parents = Append(@, u.view),
                            !.view = NewView(TRUE, FALSE)], "page")

(* The connection list is made again, under the filter it had.             *)
Refresh(u) ==
    \/ /\ u.view.list
       /\ \E hits \in 0 .. 1 :
             /\ Shows([Connections EXCEPT !.filter = u.view.filter], hits)
             /\ ui' = [ToConnections(u) EXCEPT !.view.filter = u.view.filter, !.view.hits = hits]
    \/ ~u.view.list /\ ui' = Load([u EXCEPT !.detail = FALSE], "page")

ActView(u, a) ==
    \/ a = "Follow" /\ ui' = [Invalidate(u) EXCEPT !.following = TRUE, !.loading = TRUE,
                                                    !.asked = "follow"]
    \/ a = "Query" /\ ui' = OpenEditor(u)
    \/ a = "History" /\ u.recorded > 0 /\ ui' = [u EXCEPT !.open = @ \cup {"history"}]
    \/ a = "Display" /\ ui' = [u EXCEPT !.open = @ \cup {"display"}, !.help = FALSE]
    \/ a = "Add" /\ ui' = [u EXCEPT !.open = @ \cup {"form"}]
    \/ a = "Themes" /\ ui' = [u EXCEPT !.open = @ \cup {"theme"}]
    \/ a = "Filter" /\ ui' = [u EXCEPT !.help = FALSE, !.filtering = TRUE, !.restore = {u.view.filter}]
    \/ a = "Sort" /\ ui' = [u EXCEPT !.help = FALSE]
    \/ a = "Columns" /\ OpenColumns(u)
    \/ a = "Open" /\ OpenSelected(u)
    \/ a = "Back" /\ ui' = GoBack(u)
    \/ a = "Connections" /\ ui' = ToConnections(u)
    \/ a = "Refresh" /\ Refresh(u)
    \/ a = "Help" /\ ui' = [u EXCEPT !.help = ~@]
    \/ a = "Quit" /\ ui' = [u EXCEPT !.open = @ \cup {"quit"}]
    \/ a = "Cancel" /\ ui' = IF u.loading THEN Invalidate(u) ELSE [u EXCEPT !.quit = TRUE]

Action == {"Follow", "Query", "History", "Display", "Add", "Themes", "Filter", "Sort",
           "Columns", "Open", "Back", "Connections", "Refresh", "Help", "Quit", "Cancel",
           "Up", "Down"}

(* Anything but quitting stops following first, and following or           *)
(* cancelling does nothing else.                                           *)
Act(u, a) ==
    /\ Available(u, a)
    /\ LET owner == Owner(u)
           stops == u.following /\ a # "Quit"
           v == IF stops THEN Invalidate(u) ELSE u
       IN \/ owner = "quit" /\ ActQuit(u, a)
          \/ owner = "query" /\ ActConfirmation(u, a)
          \/ owner = "connect" /\ ActConnectError(u, a)
          \/ owner = "form" /\ ActForm(u, a)
          \/ owner = "editor" /\ ActEditor(u, a)
          \/ owner = "history" /\ ActHistory(u, a)
          \/ stops /\ owner \in {"display", "theme", "view"} /\ a \in {"Follow", "Cancel"} /\ ui' = v
          \/ ~(stops /\ a \in {"Follow", "Cancel"}) /\
                \/ owner = "display" /\ ActDisplay(v, a)
                \/ owner = "theme" /\ ActTheme(v, a)
                \/ owner = "view" /\ ActView(v, a)

-----------------------------------------------------------------------------
(* App::key: who receives a key                                            *)

Capturing == {"quit", "query", "connect", "form", "editor"}

(* key_modal: Enter, Esc and Ctrl-C for the popups.                        *)
KeyModal ==
    /\ Owner(ui) \in {"quit", "query", "connect", "form"}
    /\ \E a \in Closing : Act(ui, a)

(* F2 in the form: ui::run saves the connection and shows the list.        *)
SaveConnection ==
    /\ Owner(ui) = "form"
    /\ ui' = ToConnections([ui EXCEPT !.open = @ \ {"form"}])

(* key_query_editor: leaving, or executing the text when nothing is        *)
(* awaited, which asks for a confirmation if the configuration says so.    *)
KeyEditor ==
    /\ Owner(ui) = "editor"
    /\ \/ ui' = CloseQuery(ui)
       \/ ~ui.loading /\ ui' = [ui EXCEPT !.open = @ \cup {"query"}]
       \/ ~ui.loading /\ ui' = SubmitQuery(ui)

(* Ctrl-C anywhere else leaves the command and filter lines and cancels.   *)
KeyCancel ==
    /\ Owner(ui) \notin Capturing
    /\ \E hits \in Rows :
          /\ IF ui.restore = {} THEN hits = ui.view.hits
             ELSE Shows([ui.view EXCEPT !.filter = TRUE \in ui.restore], hits)
          /\ Act(RestoreFilter([ui EXCEPT !.command = FALSE], hits), "Cancel")

KeyFilter ==
    /\ Owner(ui) \notin Capturing /\ ui.filtering
    /\ \/ \E hits \in Rows :        \* Esc
             /\ IF ui.restore = {} THEN hits = ui.view.hits
                ELSE Shows([ui.view EXCEPT !.filter = TRUE \in ui.restore], hits)
             /\ ui' = RestoreFilter(ui, hits)
       \/ ui' = [ui EXCEPT !.filtering = FALSE, !.restore = {}]     \* Enter
       \/ \E filter \in BOOLEAN, hits \in Rows :                        \* text
             /\ Shows([ui.view EXCEPT !.filter = filter], hits)
             /\ ui' = [ui EXCEPT !.view.filter = filter, !.view.hits = hits]

KeyCommand ==
    /\ Owner(ui) \notin Capturing /\ ~ui.filtering /\ ui.command
    /\ \/ ui' = [ui EXCEPT !.command = FALSE]
       \/ \E a \in Action : Act([ui EXCEPT !.command = FALSE], a)

KeyColon ==
    /\ Owner(ui) = "view" /\ ~ui.filtering /\ ~ui.command
    /\ ui' = [(IF ui.following THEN Invalidate(ui) ELSE ui) EXCEPT !.command = TRUE]

KeyBinding ==
    /\ Owner(ui) \notin Capturing /\ ~ui.filtering /\ ~ui.command
    /\ \E a \in Action \ {"Cancel"} : Act(ui, a)

(* The interrupt signal reaches act directly.                              *)
Interrupted == Act(ui, "Cancel")

Key ==
    /\ ~ui.quit
    /\ \/ KeyModal \/ SaveConnection \/ KeyEditor \/ KeyCancel \/ KeyFilter
       \/ KeyCommand \/ KeyColon \/ KeyBinding \/ Interrupted

-----------------------------------------------------------------------------
(* The awaited request ends underneath                                     *)

(* complete_page with a page: a query's first result is a view of its own; *)
(* a single value opens its detail.                                        *)
PageArrives ==
    /\ ui.loading /\ ~ui.following
    /\ \E rows \in Rows, hits \in Rows, columns \in 1 .. 2 :
          LET results == ui.asked = "query" /\ ~ui.view.query
              base == IF results THEN [NewView(TRUE, ui.view.scope) EXCEPT !.query = TRUE] ELSE ui.view
              shown == [base EXCEPT !.rows = rows, !.hits = hits, !.columns = columns]
          IN /\ Shows([base EXCEPT !.rows = rows], hits)
             /\ results => Len(ui.parents) < MaxDepth
             /\ ui' = [ui EXCEPT !.loading = FALSE, !.opening = FALSE,
                                 !.open = @ \ {"editor"},
                                 !.parents = IF results THEN Append(@, ui.view) ELSE @,
                                 !.view = shown,
                                 !.detail = @ \/ (/\ SingleValue(shown) /\ ~shown.query
                                                  /\ ~ui.filtering)]

(* complete_page with an error: a connection that never produced a page    *)
(* goes back to the list.                                                  *)
PageFails ==
    /\ ui.loading /\ ~ui.following
    /\ ui' = IF ui.opening
             THEN [ToConnections(ui) EXCEPT !.open = @ \cup {"connect"}]
             ELSE [ui EXCEPT !.loading = FALSE, !.opening = FALSE]

(* complete_follow: the first batch replaces the page and its filter, the  *)
(* next ones add to it and push as many old rows out as the limits say,    *)
(* also more than they bring; or following ends.                           *)
BatchArrives ==
    /\ ui.loading /\ ui.following
    /\ \/ \E rows \in Rows, hits \in Rows :
             LET first == ui.asked = "follow"
                 shown == [ui.view EXCEPT !.rows = rows, !.filter = @ /\ ~first]
             IN /\ Shows(shown, hits)
                /\ ui' = [ui EXCEPT !.view = [shown EXCEPT !.hits = hits],
                                    !.loading = FALSE, !.asked = "page"]
       \/ ui' = [ui EXCEPT !.following = FALSE, !.loading = FALSE]

FollowTick ==
    /\ ui.following /\ ~ui.loading /\ ~ui.quit
    /\ ui' = [ui EXCEPT !.loading = TRUE]

Start ==
    [view |-> Connections, parents |-> <<>>, open |-> {}, help |-> FALSE, detail |-> FALSE,
     rowDetail |-> FALSE, command |-> FALSE, filtering |-> FALSE, restore |-> {},
     loading |-> FALSE, following |-> FALSE, opening |-> FALSE, asked |-> "page",
     recorded |-> 0, entry |-> 0, quit |-> FALSE]

Init == ui = Start

Quits == ui.quit /\ UNCHANGED ui

Next == Key \/ PageArrives \/ PageFails \/ BatchArrives \/ FollowTick \/ Quits

Spec == Init /\ [][Next]_ui

-----------------------------------------------------------------------------
(* Properties *)

TypeOK == ui \in Ui

(* A handler finds what it expects, whatever arrived or was filtered while *)
(* the mode was open: a selected row behind a detail, a scope behind the   *)
(* editor, an entry behind the history menu, the list behind the form, a   *)
(* datasource behind a request (the expect calls of app.rs).               *)
HandlersFindTheirData ==
    /\ ui.detail \/ ui.rowDetail => ui.view.hits > 0 /\ ~ui.view.list
    /\ {"editor", "query", "history"} \cap ui.open # {} => QueryTarget(ui.view)
    /\ "query" \in ui.open => "editor" \in ui.open
    /\ "history" \in ui.open => ui.entry < ui.recorded
    /\ "form" \in ui.open => ui.view.list
    /\ ui.loading => ~ui.view.list
    /\ ui.filtering => ui.restore # {}

(* A popup or a menu only covers the request underneath: nothing but the   *)
(* result, a confirmed quit or the editor's own cancellation ends it       *)
(* (src/schema.rs: Esc or Ctrl-C restores the previous theme without       *)
(* cancelling requests).                                                   *)
PopupsKeepRequest ==
    [][ ui.open # {} /\ ui.loading /\ ~ui'.loading
        => PageArrives \/ PageFails \/ BatchArrives \/ ui'.quit \/ Owner(ui) = "editor" ]_ui

=============================================================================
