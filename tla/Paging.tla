------------------------------- MODULE Paging -------------------------------
(***************************************************************************)
(* The views of onetui and their page bookmarks (crates/tui/src/app.rs and *)
(* app/follow.rs): what opening, paging, querying, following, refreshing   *)
(* and going back do to the current view and to the views behind it, and   *)
(* what a completed request does to them.                                  *)
(*                                                                         *)
(* Session.tla models who executes a request and shows that only the       *)
(* result of the awaited request reaches the view; here the awaited        *)
(* request is "request", and a reply is a page or an error.                *)
(*                                                                         *)
(* A scan is abstracted to its continuation tokens: token k leads to the   *)
(* k-th page from the start, 0 is no token (the first page), Live is the   *)
(* cursor of a followed resource. The rows of a page, its selection and    *)
(* its filter are left out; its columns are kept, as the local sort and    *)
(* the selected column index them. Columns count from 1, 0 is no sort.     *)
(***************************************************************************)
EXTENDS Integers, Sequences, Functions

CONSTANTS
    Query,              \* query texts
    NoQuery,            \* view.query = None
    Shape,              \* column names a page may have, as sequences
    DescriptorColumns,  \* columns a resource declares for a page without any
    BookmarkLimit,      \* BOOKMARK_LIMIT, 4096 in the code
    Followable,         \* whether the provider follows this resource
    MaxOffset,          \* bound: the last page of a scan
    MaxDepth            \* bound: views behind the current one

ASSUME PagingAssumption ==
    /\ NoQuery \notin Query
    /\ \A s \in Shape : s \in Seq(UNION {Range(t) : t \in Shape})
    /\ DescriptorColumns \in Nat \ {0}
    /\ BookmarkLimit \in Nat
    /\ Followable \in BOOLEAN
    /\ MaxOffset \in Nat
    /\ MaxDepth \in Nat

VARIABLES
    view,       \* the current view
    parents,    \* the views behind it, the connection list first
    request,    \* the awaited request, or NoRequest when nothing is loading
    following,  \* live records are being followed
    opening,    \* the first page of the connection is awaited
    editing     \* the query editor is open

vars == <<view, parents, request, following, opening, editing>>

-----------------------------------------------------------------------------
(* Data *)

Live == -1
Token == Live .. MaxOffset
Offset == 0 .. MaxOffset

(* "from" is the token the page was fetched with.                          *)
Page == [from : Token, columns : Shape \cup {<<>>}, next : BOOLEAN]
Blank == [from |-> 0, columns |-> <<>>, next |-> FALSE]

Continuation(page) ==
    IF page.from = Live THEN Live
    ELSE IF page.next THEN page.from + 1 ELSE 0

(* A bookmark keeps its page only while it is one of the newest two.       *)
Bookmark == [offset : Offset, position : Token, cached : BOOLEAN, page : Page]

View == [list : BOOLEAN, query : Query \cup {NoQuery}, live : BOOLEAN,
         page : Page, offset : Offset, position : Token,
         column : Nat, sort : Nat, previous : Seq(Bookmark)]

NewView(query) == [list |-> FALSE, query |-> query, live |-> FALSE,
                   page |-> Blank, offset |-> 0, position |-> 0,
                   column |-> 1, sort |-> 0, previous |-> <<>>]
List == [NewView(NoQuery) EXCEPT !.list = TRUE]

Request == [follow : BOOLEAN, query : Query \cup {NoQuery}, offset : Offset,
            token : Token, reset : BOOLEAN]
NoRequest == [follow |-> FALSE, query |-> NoQuery, offset |-> -1,
              token |-> 0, reset |-> FALSE]

Loading == request # NoRequest

ColumnCount(page) ==
    IF page.columns = <<>> THEN DescriptorColumns ELSE Len(page.columns)

(* columns.get(column): the name at an index, or nothing.                  *)
NameAt(page, column) ==
    IF column \in DOMAIN page.columns THEN {page.columns[column]} ELSE {}

SmallerOf(m, n) == IF m < n THEN m ELSE n

(* Bookmarks and views lie on each other: the last one, and what is below. *)
Top(stack) == stack[Len(stack)]
Below(stack) == SubSeq(stack, 1, Len(stack) - 1)

-----------------------------------------------------------------------------
(* Asking for pages *)

(* The request "load" queues for a view.                                   *)
LoadFrom(v, offset, reset) ==
    [follow |-> FALSE, query |-> v.query, offset |-> offset, reset |-> reset,
     token |-> IF reset THEN 0
               ELSE IF offset < v.offset THEN Top(v.previous).position
               ELSE Continuation(v.page)]

FollowFrom(v, reset) ==
    [follow |-> TRUE, query |-> NoQuery, offset |-> 0, reset |-> reset,
     token |-> IF reset THEN 0 ELSE Continuation(v.page)]

(* load: any earlier request and following end; the view stays.            *)
Load(v, offset, reset) ==
    /\ request' = LoadFrom(v, offset, reset)
    /\ following' = FALSE

Invalidate ==
    /\ request' = NoRequest
    /\ following' = FALSE
    /\ opening' = FALSE

(* Actions of a browsing view are offered when no editor owns the keys;    *)
(* most of them only while nothing is loading. A follow in progress does   *)
(* not count: the action ends it.                                          *)
Idle == ~editing /\ (following \/ ~Loading)

(* Enter on a connection.                                                  *)
OpenConnection ==
    /\ Idle
    /\ view.list
    /\ view' = NewView(NoQuery)
    /\ parents' = Append(parents, view)
    /\ Load(view', 0, TRUE)
    /\ opening' = TRUE
    /\ UNCHANGED editing

(* Enter on a row with a target, or the columns of a resource. The results *)
(* of queries have neither.                                                *)
OpenResource ==
    /\ Idle
    /\ ~view.list
    /\ view.query = NoQuery
    /\ Len(parents) < MaxDepth
    /\ view' = NewView(NoQuery)
    /\ parents' = Append(parents, view)
    /\ Load(view', 0, TRUE)
    /\ opening' = FALSE
    /\ UNCHANGED editing

(* Offered while loading too.                                              *)
Refresh ==
    /\ ~editing
    /\ ~view.list
    /\ view.query = NoQuery
    /\ Load(view, 0, TRUE)
    /\ opening' = FALSE
    /\ UNCHANGED <<view, parents, editing>>

EditQuery ==
    /\ Idle
    /\ ~view.list
    /\ editing' = TRUE
    /\ IF following THEN Invalidate ELSE UNCHANGED <<request, following, opening>>
    /\ UNCHANGED <<view, parents>>

SubmitQuery ==
    /\ editing
    /\ ~Loading
    /\ Query # {}
    /\ \E text \in Query :
          request' = [LoadFrom(view, 0, TRUE) EXCEPT !.query = text]
    /\ following' = FALSE
    /\ opening' = FALSE
    /\ UNCHANGED <<view, parents, editing>>

(* Closing the editor cancels its query.                                   *)
CloseQuery ==
    /\ editing
    /\ editing' = FALSE
    /\ Invalidate
    /\ UNCHANGED <<view, parents>>

Pages == Idle /\ ~view.list /\ ~view.live /\ ~following

(* Refused at the bookmark limit, where only the error changes.            *)
NextPage ==
    /\ Pages
    /\ view.page.next
    /\ Len(view.previous) < BookmarkLimit
    /\ Load(view, view.offset + 1, FALSE)
    /\ opening' = FALSE
    /\ UNCHANGED <<view, parents, editing>>

(* A cached page is shown at once, an older one is fetched again.          *)
PreviousPage ==
    /\ Pages
    /\ view.previous # <<>>
    /\ LET bookmark == Top(view.previous) IN
       IF bookmark.cached
       THEN /\ view' = [view EXCEPT !.previous = Below(@),
                                    !.offset = bookmark.offset,
                                    !.position = bookmark.position,
                                    !.page = bookmark.page]
            /\ Invalidate
       ELSE /\ Load(view, bookmark.offset, FALSE)
            /\ opening' = FALSE
            /\ UNCHANGED view
    /\ UNCHANGED <<parents, editing>>

(* Mutant of GoBack: the request of the view that is left stays awaited.   *)
GoBackKeepsRequest ==
    /\ ~editing
    /\ parents # <<>>
    /\ view' = Top(parents)
    /\ parents' = Below(parents)
    /\ UNCHANGED <<request, following, opening, editing>>

GoBack ==
    /\ ~editing
    /\ parents # <<>>
    /\ view' = Top(parents)
    /\ parents' = Below(parents)
    /\ Invalidate
    /\ UNCHANGED editing

ShowConnections ==
    /\ ~editing
    /\ view' = List
    /\ parents' = <<>>
    /\ Invalidate
    /\ UNCHANGED editing

(* Ctrl-C on a loading request, or anything that only stops following.     *)
Cancel ==
    /\ ~editing
    /\ Loading \/ following
    /\ Invalidate
    /\ UNCHANGED <<view, parents, editing>>

StartFollow ==
    /\ Idle
    /\ Followable
    /\ ~view.list
    /\ ~following
    /\ view.query = NoQuery
    /\ request' = FollowFrom(view, TRUE)
    /\ following' = TRUE
    /\ opening' = FALSE
    /\ UNCHANGED <<view, parents, editing>>

(* The next batch starts at the continuation of the last one.              *)
FollowTick ==
    /\ following
    /\ ~Loading
    /\ request' = FollowFrom(view, FALSE)
    /\ UNCHANGED <<view, parents, following, opening, editing>>

(* Left, Right and the local sort of the selected column: ascending,       *)
(* descending (not told apart here), off. Both stop following first.       *)
StopFollowing ==
    IF following THEN Invalidate ELSE UNCHANGED <<request, following, opening>>

MoveColumn ==
    /\ ~editing
    /\ ~view.list
    /\ \E column \in {view.column - 1, view.column + 1} :
          /\ column \in 1 .. ColumnCount(view.page)
          /\ view' = [view EXCEPT !.column = column]
    /\ StopFollowing
    /\ UNCHANGED <<parents, editing>>

Sort ==
    /\ ~editing
    /\ ~view.list
    /\ \E column \in {0, view.column} :
          /\ column = 0 => view.sort = view.column
          /\ view' = [view EXCEPT !.sort = column]
    /\ StopFollowing
    /\ UNCHANGED <<parents, editing>>

-----------------------------------------------------------------------------
(* Replies: complete_page and complete_follow *)

(* Mutant of Pushed: the bookmark is the page before the displayed one.    *)
PushedBefore(v) ==
    Append(v.previous, [offset |-> v.offset - 1, position |-> v.position,
                        cached |-> FALSE, page |-> Blank])

(* The displayed page becomes a bookmark; only the newest two keep theirs. *)
Pushed(v) ==
    LET all == Append(v.previous, [offset |-> v.offset,
                                   position |-> v.position,
                                   cached |-> TRUE, page |-> v.page])
        third == Len(all) - 2
    IN  IF third < 1 THEN all
        ELSE [all EXCEPT ![third].cached = FALSE, ![third].page = Blank]

(* Mutant of Shown: paging back keeps the bookmark it went to.             *)
ShownKeepsBookmark(v, page) ==
    [v EXCEPT !.live = FALSE, !.page = page,
              !.previous = IF request.reset THEN <<>>
                           ELSE IF request.offset < v.offset THEN @
                           ELSE Pushed(v),
              !.offset = request.offset, !.position = request.token]

(* The view after a page arrived: bookmarks, position, and a sort and a    *)
(* column that the new columns have.                                       *)
Shown(v, page) ==
    LET sort == IF NameAt(v.page, v.sort) = NameAt(page, v.sort)
                THEN v.sort ELSE 0
    IN  [v EXCEPT
            !.live = FALSE,
            !.page = page,
            !.previous = IF request.reset THEN <<>>
                         ELSE IF request.offset < v.offset THEN Below(@)
                         ELSE Pushed(v),
            !.offset = request.offset,
            !.position = request.token,
            !.column = SmallerOf(@, ColumnCount(page)),
            !.sort = IF sort > ColumnCount(page) THEN 0 ELSE sort]

(* The result of another query replaces the view; the view it was asked    *)
(* from is kept behind it unless it showed a query itself.                 *)
Behind(fresh) ==
    IF fresh /\ view.query = NoQuery THEN Append(parents, view) ELSE parents

PageArrives ==
    /\ Loading
    /\ ~request.follow
    /\ \E columns \in Shape, next \in BOOLEAN :
          LET page == [from |-> request.token, columns |-> columns,
                       next |-> next]
              fresh == request.query # view.query
          IN  /\ next => request.offset < MaxOffset
              /\ view' = Shown(IF fresh THEN NewView(request.query) ELSE view,
                               page)
              /\ parents' = Behind(fresh)
    /\ editing' = FALSE
    /\ request' = NoRequest
    /\ opening' = FALSE
    /\ UNCHANGED following

(* An error, or a page that exceeds its limits. The first page of a        *)
(* connection returns to the list, any other leaves the view alone.        *)
PageFails ==
    /\ Loading
    /\ ~request.follow
    /\ request' = NoRequest
    /\ IF opening
       THEN /\ view' = List
            /\ parents' = <<>>
            /\ following' = FALSE
            /\ editing' = FALSE
       ELSE UNCHANGED <<view, parents, following, editing>>
    /\ opening' = FALSE

(* Mutant of Extends: records of any columns are appended.                 *)
ExtendsAny(columns) == TRUE

Extends(columns) == request.reset \/ columns = view.page.columns

(* The first batch replaces the view's page and bookmarks; a later one     *)
(* extends the page, unless its columns changed.                           *)
BatchArrives ==
    /\ Loading
    /\ request.follow
    /\ \E columns \in Shape :
          IF Extends(columns)
          THEN /\ view' = [view EXCEPT
                              !.live = TRUE,
                              !.page = [from |-> Live, columns |-> columns,
                                        next |-> FALSE],
                              !.previous = IF request.reset THEN <<>> ELSE @,
                              !.position = IF request.reset THEN 0 ELSE @,
                              !.offset = IF request.reset THEN 0 ELSE @,
                              !.sort = IF request.reset THEN 0 ELSE @]
               /\ UNCHANGED following
          ELSE /\ following' = FALSE
               /\ UNCHANGED view
    /\ request' = NoRequest
    /\ UNCHANGED <<parents, opening, editing>>

BatchFails ==
    /\ Loading
    /\ request.follow
    /\ request' = NoRequest
    /\ following' = FALSE
    /\ UNCHANGED <<view, parents, opening, editing>>

-----------------------------------------------------------------------------
Init ==
    /\ view = List
    /\ parents = <<>>
    /\ request = NoRequest
    /\ following = FALSE
    /\ opening = FALSE
    /\ editing = FALSE

Next ==
    \/ OpenConnection
    \/ OpenResource
    \/ Refresh
    \/ EditQuery
    \/ SubmitQuery
    \/ CloseQuery
    \/ NextPage
    \/ PreviousPage
    \/ GoBack
    \/ ShowConnections
    \/ Cancel
    \/ StartFollow
    \/ FollowTick
    \/ MoveColumn
    \/ Sort
    \/ PageArrives
    \/ PageFails
    \/ BatchArrives
    \/ BatchFails

Spec == Init /\ [][Next]_vars

-----------------------------------------------------------------------------
(* Safety *)

TypeOK ==
    /\ view \in View
    /\ parents \in Seq(View)
    /\ request \in Request \cup {NoRequest}
    /\ following \in BOOLEAN
    /\ opening \in BOOLEAN
    /\ editing \in BOOLEAN

(* The bookmarks of a view lead back page by page to the first one, and    *)
(* the view's own offset and token are those of the page it shows. A live  *)
(* view has no way back.                                                   *)
Trail(v) ==
    IF v.live
    THEN v.previous = <<>> /\ v.offset = 0 /\ v.position = 0
    ELSE /\ v.page.from = v.offset
         /\ v.position = v.offset
         /\ Len(v.previous) = v.offset
         /\ \A i \in DOMAIN v.previous :
               LET b == v.previous[i] IN
               /\ b.offset = i - 1
               /\ b.position = i - 1
               /\ b.cached => b.page.from = i - 1

(* Whatever was cancelled, refused, followed or queried in between, paging *)
(* back lands on the pages that were there, in this view and in every view *)
(* one can go back to.                                                     *)
PagesLeadBack == Trail(view) /\ \A i \in DOMAIN parents : Trail(parents[i])

(* A request that is awaited belongs to the view it will change: it        *)
(* restarts it, or asks for the page right after or right before the one   *)
(* shown with that page's own token, and then the bookmark it pops exists. *)
RequestFitsView ==
    Loading /\ ~request.follow =>
        /\ ~view.list
        /\ request.token = request.offset
        /\ request.reset => request.offset = 0
        /\ request.query # view.query => editing /\ request.reset
        /\ ~request.reset =>
              /\ ~view.live
              /\ request.query = view.query
              /\ request.offset \in {view.offset - 1, view.offset + 1}
              /\ request.offset < view.offset =>
                    view.previous # <<>> /\ ~Top(view.previous).cached

(* The cursors of a follow and the tokens of a scan are never mixed up.    *)
FollowCursorsSeparate ==
    Loading =>
        IF request.follow
        THEN following /\ request.token = IF request.reset THEN 0 ELSE Live
        ELSE ~following /\ request.token # Live

(* Memory stays bounded: the displayed page and at most the two before it. *)
AtMostTwoCached ==
    \A v \in {view} \cup Range(parents) : \A i \in DOMAIN v.previous :
        v.previous[i].cached => i >= Len(v.previous) - 1

BookmarksBounded ==
    \A v \in {view} \cup Range(parents) : Len(v.previous) <= BookmarkLimit

(* What is awaited fits what is shown, and what is kept keeps its limits.  *)
ViewsInOrder ==
    RequestFitsView /\ FollowCursorsSeparate /\ AtMostTwoCached /\ BookmarksBounded

(* The result of a query never takes away the view it was asked from, and  *)
(* queries do not pile up behind it: going back from a query shows the     *)
(* browsing view.                                                          *)
QueryReturnsToBrowsing ==
    /\ view.query # NoQuery => parents # <<>> /\ ~Top(parents).list
    /\ \A i \in DOMAIN parents : parents[i].query = NoQuery

(* Going back, by a page or from a query, shows what was there.            *)
WaysBack == PagesLeadBack /\ QueryReturnsToBrowsing

(* Records of other columns are never appended to the followed ones: the   *)
(* columns of a live view change only when following starts afresh.        *)
LiveColumnsStable ==
    [][view.live /\ view'.live /\ view'.page.columns # view.page.columns
        => request.reset \/ parents' # parents]_vars

(* "Panics if a confirmation is pending without its query, which the       *)
(* confirmation state prevents" is the only panic App::act documents, and  *)
(* complete_page gives up a sort and a column the new page does not have.  *)
(* prepare_row_value, prepare_detail and reindex index rows by both.       *)
ColumnsExist ==
    view.column <= ColumnCount(view.page) /\ view.sort <= ColumnCount(view.page)

=============================================================================
