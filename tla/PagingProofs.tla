----------------------------- MODULE PagingProofs -----------------------------
(***************************************************************************)
(* For any number of pages and bookmarks, any queries and any depth: the   *)
(* request that is awaited fits the view it will change, and going back    *)
(* shows what was there.                                                   *)
(***************************************************************************)
EXTENDS Paging, TLAPS

(* The bookmarks of the n-th page: those of all pages before it, in order, *)
(* of which the newest two may have their page.                            *)
Bookmarks(previous, n) ==
    /\ previous \in Seq(Bookmark)
    /\ Len(previous) = n /\ n <= BookmarkLimit
    /\ \A i \in 1 .. n :
          /\ previous[i].offset = i - 1 /\ previous[i].position = i - 1
          /\ previous[i].cached =>
                /\ previous[i].page.from = i - 1 /\ i >= n - 1
                /\ previous[i].page.next => i - 1 < MaxOffset

(* A view shows a page of its scan, or live records.                       *)
Sound(v) ==
    /\ v \in View
    /\ v.list => v.query = NoQuery
    /\ v.live => /\ v.page.from = Live /\ ~v.page.next
                 /\ v.offset = 0 /\ v.position = 0 /\ v.previous = <<>>
    /\ ~v.live => /\ v.page.from = v.offset /\ v.position = v.offset
                  /\ v.page.next => v.offset < MaxOffset
                  /\ Bookmarks(v.previous, v.offset)

(* Behind the view of a query lies one that can be queried.                *)
Stacked ==
    /\ Sound(view)
    /\ parents \in Seq(View)
    /\ \A i \in 1 .. Len(parents) : Sound(parents[i]) /\ parents[i].query = NoQuery
    /\ view.query # NoQuery => parents # <<>> /\ ~parents[Len(parents)].list

(* A page is asked for from the view that will show it.                    *)
PageAsked ==
    /\ ~following
    /\ request.token = request.offset
    /\ request.reset => request.offset = 0
    /\ request.query # view.query => editing /\ request.reset /\ request.query \in Query
    /\ ~request.reset =>
          /\ ~view.live
          /\ \/ request.offset = view.offset + 1 /\ Len(view.previous) < BookmarkLimit
             \/ /\ request.offset = view.offset - 1
                /\ view.previous # <<>> /\ ~view.previous[Len(view.previous)].cached

BatchAsked ==
    /\ following
    /\ request.reset => request.token = 0
    /\ ~request.reset => request.token = Live /\ view.live

Awaited ==
    /\ following \in BOOLEAN /\ opening \in BOOLEAN /\ editing \in BOOLEAN
    /\ request \in Request \union {NoRequest}
    /\ Loading \/ following \/ editing => ~view.list
    /\ following /\ ~Loading => view.live
    /\ Loading => IF request.follow THEN BatchAsked ELSE PageAsked

Orderly == Stacked /\ Awaited

-----------------------------------------------------------------------------
(* Views *)

(* A page that was not fetched is one all the same.                        *)
LEMMA BlankTyped == Blank \in Page
  BY PagingAssumption DEF Blank, Page, Token, Live

(* A new view is on its first page.                                        *)
LEMMA NewViewSound ==
    ASSUME NEW query \in Query \union {NoQuery}
    PROVE  /\ Sound(NewView(query))
           /\ NewView(query).query = query /\ ~NewView(query).list /\ ~NewView(query).live
           /\ NewView(query).previous = <<>> /\ NewView(query).offset = 0
  <1>1. NewView(query) \in View
    BY BlankTyped, PagingAssumption DEF NewView, View, Offset, Token, Live
  <1>2. Bookmarks(<<>>, 0)
    BY PagingAssumption DEF Bookmarks
  <1> QED
    BY <1>1, <1>2, PagingAssumption DEF NewView, Sound, Blank

(* So is the list of connections.                                          *)
LEMMA ListSound == Sound(List) /\ List.list /\ List.query = NoQuery /\ ~List.live
  <1> DEFINE v == NewView(NoQuery)
  <1>1. Sound(v) /\ v \in View /\ v.query = NoQuery /\ ~v.live
    BY NewViewSound DEF Sound
  <1> HIDE DEF v
  <1>2. List = [v EXCEPT !.list = TRUE]
    BY DEF List, v
  <1>3. List \in View /\ List.list /\ List.query = NoQuery /\ ~List.live
        /\ List.page = v.page /\ List.offset = v.offset /\ List.position = v.position
        /\ List.previous = v.previous
    BY <1>1, <1>2 DEF View
  <1> QED
    BY <1>1, <1>3 DEF Sound

(* A page takes the view with the bookmarks that lead to it.               *)
LEMMA PageTakesView ==
    ASSUME NEW v, Sound(v), ~v.list, NEW page \in Page, NEW n \in Offset, page.from = n,
           page.next => n < MaxOffset, NEW previous, Bookmarks(previous, n),
           NEW column \in Nat, NEW sort \in Nat
    PROVE  Sound([v EXCEPT !.live = FALSE, !.page = page, !.previous = previous,
                           !.offset = n, !.position = n, !.column = column, !.sort = sort])
  <1> DEFINE w == [v EXCEPT !.live = FALSE, !.page = page, !.previous = previous,
                            !.offset = n, !.position = n, !.column = column, !.sort = sort]
  <1>1. n \in Token
    BY PagingAssumption DEF Offset, Token, Live
  <1>2. w \in View /\ ~w.live /\ w.page = page /\ w.offset = n /\ w.position = n
        /\ w.previous = previous /\ ~w.list
    BY <1>1 DEF Sound, View, Bookmarks
  <1> HIDE DEF w
  <1>3. Sound(w)
    BY <1>2 DEF Sound
  <1> QED
    BY <1>3 DEF w

(* All but the last element, in place.                                     *)
LEMMA FrontKeeps ==
    ASSUME NEW S, NEW n \in Nat, NEW s \in Seq(S), Len(s) = n, n # 0
    PROVE  /\ Below(s) \in Seq(S)
           /\ Len(Below(s)) = n - 1
           /\ \A i \in 1 .. n - 1 : Below(s)[i] = s[i]
  BY DEF Below

(* Without its newest bookmark a view is on the page before.               *)
LEMMA BookmarksDropped ==
    ASSUME NEW n \in Nat, NEW previous, Bookmarks(previous, n), n # 0
    PROVE  Bookmarks(Below(previous), n - 1)
  <1>1. Below(previous) \in Seq(Bookmark) /\ Len(Below(previous)) = n - 1
        /\ \A i \in 1 .. n - 1 : Below(previous)[i] = previous[i]
    BY FrontKeeps DEF Bookmarks
  <1> QED
    BY <1>1, PagingAssumption DEF Bookmarks

(* The page that is left becomes the newest bookmark, and the third newest *)
(* loses its page.                                                         *)
LEMMA BookmarksPushed ==
    ASSUME NEW v, Sound(v), ~v.live, Len(v.previous) < BookmarkLimit
    PROVE  Bookmarks(Pushed(v), v.offset + 1)
  <1> DEFINE n == v.offset
             newest == [offset |-> v.offset, position |-> v.position, cached |-> TRUE,
                        page |-> v.page]
             all == Append(v.previous, newest)
             third == Len(all) - 2
  <1>1. n \in Nat /\ newest \in Bookmark
    BY DEF Sound, View, Bookmark, Offset
  <1>2. all \in Seq(Bookmark) /\ Len(all) = n + 1 /\ all[n + 1] = newest
        /\ \A i \in 1 .. n : all[i] = v.previous[i]
    BY <1>1 DEF Sound, Bookmarks
  <1>3. newest.cached /\ newest.offset = n /\ newest.position = n /\ newest.page.from = n
        /\ (newest.page.next => n < MaxOffset)
    BY DEF Sound
  <1>4. Pushed(v) = IF third < 1 THEN all
                    ELSE [all EXCEPT ![third].cached = FALSE, ![third].page = Blank]
    BY DEF Pushed
  <1>5. third = n - 1
    BY <1>1, <1>2
  <1>6. n + 1 <= BookmarkLimit
    BY <1>1, PagingAssumption DEF Sound, Bookmarks
  <1> HIDE DEF third, all, newest
  <1>7. CASE third < 1
    <2>1. Pushed(v) = all
      BY <1>7, <1>4
    <2>2. n <= 1
      BY <1>1, <1>7, <1>5
    <2>3. ASSUME NEW i \in 1 .. n + 1
          PROVE  /\ all[i].offset = i - 1 /\ all[i].position = i - 1
                 /\ all[i].cached => /\ all[i].page.from = i - 1
                                     /\ all[i].page.next => i - 1 < MaxOffset
      <3>1. CASE i = n + 1
        <4>1. all[i] = newest /\ i - 1 = n
          BY <1>1, <1>2, <3>1
        <4> QED
          BY <1>3, <4>1
      <3>2. CASE i # n + 1
        <4>1. i \in 1 .. n
          BY <1>1, <3>2
        <4> QED
          BY <1>2, <4>1 DEF Sound, Bookmarks
      <3> QED
        BY <3>1, <3>2
    <2>4. \A i \in 1 .. n + 1 : i >= n
      BY <1>1, <2>2
    <2> QED
      BY <1>1, <1>2, <1>6, <2>1, <2>3, <2>4 DEF Bookmarks
  <1>8. CASE ~(third < 1)
    <2> DEFINE bare == [all[third] EXCEPT !.cached = FALSE, !.page = Blank]
    <2>1. third \in 1 .. n /\ third = n - 1
      BY <1>1, <1>8, <1>5
    <2>2. all[third] \in Bookmark
      BY <1>1, <1>2, <2>1
    <2>3. bare \in Bookmark /\ bare.offset = all[third].offset
          /\ bare.position = all[third].position /\ ~bare.cached
      BY <2>2, BlankTyped DEF Bookmark
    <2>4. Pushed(v) = [all EXCEPT ![third] = bare]
      BY <1>2, <1>8, <1>4, <2>1, <2>2 DEF Bookmark
    <2> HIDE DEF bare
    <2>5. Pushed(v) \in Seq(Bookmark) /\ Len(Pushed(v)) = n + 1
          /\ \A i \in 1 .. n + 1 : Pushed(v)[i] = IF i = third THEN bare ELSE all[i]
      BY <1>1, <1>2, <2>1, <2>3, <2>4
    <2>6. ASSUME NEW i \in 1 .. n + 1
          PROVE  LET b == Pushed(v)[i] IN
                 /\ b.offset = i - 1 /\ b.position = i - 1
                 /\ b.cached => /\ b.page.from = i - 1 /\ i >= n
                                /\ b.page.next => i - 1 < MaxOffset
      <3>1. CASE i = n + 1
        <4>1. Pushed(v)[i] = newest
          BY <1>1, <1>2, <2>1, <2>5, <3>1
        <4>2. i - 1 = n /\ i >= n
          BY <1>1, <3>1
        <4> QED
          BY <1>3, <4>1, <4>2
      <3>2. CASE i # n + 1
        <4>1. i \in 1 .. n
          BY <1>1, <3>2
        <4>2. /\ all[i].offset = i - 1 /\ all[i].position = i - 1
              /\ all[i].cached => /\ all[i].page.from = i - 1 /\ i >= n - 1
                                  /\ all[i].page.next => i - 1 < MaxOffset
          BY <1>2, <4>1 DEF Sound, Bookmarks
        <4> QED
          BY <1>1, <2>1, <2>3, <2>5, <4>1, <4>2
      <3> QED
        BY <3>1, <3>2
    <2> QED
      BY <1>1, <1>6, <2>5, <2>6 DEF Bookmarks
  <1> QED
    BY <1>7, <1>8

(* The page shown holds what the reply brought.                            *)
LEMMA ColumnsCounted ==
    ASSUME NEW columns \in Shape, NEW from, NEW next
    PROVE  ColumnCount([from |-> from, columns |-> columns, next |-> next]) \in Nat
  <1>1. columns \in Seq(UNION {Range(t) : t \in Shape})
    BY PagingAssumption
  <1>2. Len(columns) \in Nat
    BY <1>1
  <1> QED
    BY <1>2, PagingAssumption DEF ColumnCount

(* The newest bookmark of a view that has one.                             *)
LEMMA Newest ==
    ASSUME NEW v, Sound(v), ~v.live, v.previous # <<>>
    PROVE  /\ v.offset \in Nat /\ v.offset # 0 /\ v.offset - 1 \in Offset
           /\ Len(v.previous) = v.offset
           /\ Top(v.previous) = v.previous[v.offset]
           /\ Top(v.previous) \in Bookmark
           /\ Top(v.previous).offset = v.offset - 1
           /\ Top(v.previous).position = v.offset - 1
           /\ Top(v.previous).cached =>
                 /\ Top(v.previous).page.from = v.offset - 1
                 /\ Top(v.previous).page.next => v.offset - 1 < MaxOffset
  <1>1. v.offset \in Offset /\ v.offset \in Nat /\ v.previous \in Seq(Bookmark)
        /\ Len(v.previous) = v.offset
    BY DEF Sound, Bookmarks, View, Offset
  <1>2. v.offset # 0
    BY <1>1
  <1>3. Top(v.previous) = v.previous[v.offset] /\ v.offset \in 1 .. v.offset
    BY <1>1, <1>2 DEF Top
  <1>4. v.offset - 1 \in Offset
    BY <1>1, <1>2, PagingAssumption DEF Offset
  <1> QED
    BY <1>1, <1>2, <1>3, <1>4 DEF Sound, Bookmarks

(* A view that is restarted asks for its first page.                       *)
LEMMA FirstPageAsked ==
    ASSUME NEW v, v.query \in Query \cup {NoQuery}
    PROVE  LET r == LoadFrom(v, 0, TRUE) IN
           /\ r \in Request /\ r # NoRequest /\ ~r.follow /\ r.query = v.query
           /\ r.offset = 0 /\ r.token = 0 /\ r.reset
  BY PagingAssumption DEF LoadFrom, Request, NoRequest, Offset, Token, Live

(* What can be opened is opened from a browsing view, which is then the    *)
(* one behind the new view.                                                *)
LEMMA BrowsingStacked ==
    ASSUME Stacked, view.query = NoQuery, view' = NewView(NoQuery),
           parents' = Append(parents, view)
    PROVE  Stacked'
  <1>1. Sound(view') /\ view'.query = NoQuery
    BY NewViewSound
  <1>2. parents' \in Seq(View) /\ Len(parents') = Len(parents) + 1
        /\ parents'[Len(parents) + 1] = view
        /\ \A i \in 1 .. Len(parents) : parents'[i] = parents[i]
    BY DEF Stacked, Sound
  <1>3. ASSUME NEW i \in 1 .. Len(parents')
        PROVE  Sound(parents'[i]) /\ parents'[i].query = NoQuery
    <2>1. CASE i = Len(parents) + 1
      BY <1>2, <2>1 DEF Stacked
    <2>2. CASE i # Len(parents) + 1
      <3>1. i \in 1 .. Len(parents)
        BY <1>2, <2>2 DEF Stacked
      <3> QED
        BY <1>2, <3>1 DEF Stacked
    <2> QED
      BY <2>1, <2>2
  <1> QED
    BY <1>1, <1>2, <1>3 DEF Stacked

(* A step that changes no view keeps their order.                          *)
LEMMA StackKept ==
    ASSUME Stacked, UNCHANGED <<view, parents>>
    PROVE  Stacked'
  BY DEF Stacked

(* Nothing is awaited after a cancellation.                                *)
LEMMA AwaitsNothing ==
    ASSUME Invalidate, editing' \in BOOLEAN, editing' => ~view'.list
    PROVE  Awaited'
  BY DEF Invalidate, Awaited, Loading

(* A view that is queried for its first page awaits just that.             *)
LEMMA AwaitsFirst ==
    ASSUME Load(view', 0, TRUE), view'.query \in Query \cup {NoQuery}, ~view'.list,
           opening' \in BOOLEAN, editing' \in BOOLEAN
    PROVE  Awaited'
  <1>1. request' = LoadFrom(view', 0, TRUE) /\ following' = FALSE
    BY DEF Load
  <1> QED
    BY <1>1, FirstPageAsked DEF Awaited, Loading, PageAsked

-----------------------------------------------------------------------------
(* Steps *)

(* The program starts at the list, with nothing awaited.                   *)
LEMMA InitOrderly == Init => Orderly
  <1> SUFFICES ASSUME Init PROVE Orderly
    OBVIOUS
  <1>1. Stacked
    BY ListSound DEF Init, Stacked
  <1>2. Awaited
    BY DEF Init, Awaited, Loading
  <1> QED
    BY <1>1, <1>2 DEF Orderly

(* What is opened awaits its first page.                                   *)
LEMMA OpeningOrderly ==
    ASSUME Orderly, OpenConnection \/ OpenResource
    PROVE  Orderly'
  <1>1. view.query = NoQuery /\ view' = NewView(NoQuery) /\ parents' = Append(parents, view)
        /\ Load(view', 0, TRUE) /\ opening' \in BOOLEAN /\ editing' \in BOOLEAN
    BY DEF Orderly, Stacked, Sound, Awaited, OpenConnection, OpenResource
  <1>2. view'.query = NoQuery /\ ~view'.list
    BY <1>1, NewViewSound
  <1>3. Stacked'
    BY <1>1, BrowsingStacked DEF Orderly
  <1>4. Awaited'
    BY <1>1, <1>2, AwaitsFirst
  <1> QED
    BY <1>3, <1>4 DEF Orderly

(* So does what is refreshed.                                              *)
LEMMA RefreshOrderly ==
    ASSUME Orderly, Refresh
    PROVE  Orderly'
  <1>1. view' = view /\ Load(view', 0, TRUE) /\ ~view'.list /\ opening' \in BOOLEAN
        /\ editing' \in BOOLEAN /\ view'.query \in Query \cup {NoQuery}
    BY DEF Orderly, Awaited, Stacked, Sound, View, Refresh
  <1>2. Awaited'
    BY <1>1, AwaitsFirst
  <1>3. Stacked'
    BY StackKept DEF Orderly, Refresh
  <1> QED
    BY <1>2, <1>3 DEF Orderly

(* Opening and closing the editor and cancelling change no view.           *)
LEMMA EditorOrderly ==
    ASSUME Orderly, EditQuery \/ CloseQuery \/ Cancel
    PROVE  Orderly'
  <1>1. Stacked'
    BY StackKept DEF Orderly, EditQuery, CloseQuery, Cancel
  <1>2. CASE Invalidate
    <2>1. editing' \in BOOLEAN /\ (editing' => ~view'.list)
      BY DEF Orderly, Awaited, EditQuery, CloseQuery, Cancel
    <2>2. Awaited'
      BY <1>2, <2>1, AwaitsNothing
    <2> QED
      BY <1>1, <2>2 DEF Orderly
  <1>3. CASE ~Invalidate
    <2>1. EditQuery /\ ~Loading /\ ~following /\ UNCHANGED <<request, following, opening>>
      BY <1>3 DEF EditQuery, CloseQuery, Cancel, Idle
    <2>2. Awaited'
      BY <2>1 DEF Orderly, Awaited, EditQuery, Loading
    <2> QED
      BY <1>1, <2>2 DEF Orderly
  <1> QED
    BY <1>2, <1>3

(* A query asks for the first page of its result.                          *)
LEMMA SubmitOrderly ==
    ASSUME Orderly, SubmitQuery
    PROVE  Orderly'
  <1>1. Stacked'
    BY StackKept DEF Orderly, SubmitQuery
  <1>2. PICK text \in Query : request' = [LoadFrom(view, 0, TRUE) EXCEPT !.query = text]
    BY DEF SubmitQuery
  <1>3. request' = [follow |-> FALSE, query |-> text, offset |-> 0, token |-> 0,
                    reset |-> TRUE]
    BY <1>2 DEF LoadFrom
  <1>4. request' \in Request /\ request' # NoRequest
    BY <1>3, PagingAssumption DEF Request, NoRequest, Offset, Token, Live
  <1>5. Awaited'
    BY <1>3, <1>4 DEF Orderly, Awaited, SubmitQuery, Loading, PageAsked
  <1> QED
    BY <1>1, <1>5 DEF Orderly

(* The page after the one shown is asked for with its token.               *)
LEMMA NextPageOrderly ==
    ASSUME Orderly, NextPage
    PROVE  Orderly'
  <1>1. Stacked'
    BY StackKept DEF Orderly, NextPage
  <1>2. Sound(view) /\ ~view.live /\ ~view.list /\ view.page.next /\ ~editing
        /\ Len(view.previous) < BookmarkLimit /\ view' = view /\ editing' = editing
        /\ request' = LoadFrom(view, view.offset + 1, FALSE) /\ following' = FALSE
        /\ opening' = FALSE /\ editing' \in BOOLEAN
    BY DEF Orderly, Stacked, Awaited, NextPage, Pages, Idle, Load
  <1>3. view.offset \in Nat /\ view.offset + 1 \in Offset /\ view.page.from = view.offset
        /\ view.query \in Query \cup {NoQuery} /\ view.page.next
    BY <1>2, PagingAssumption DEF Sound, View, Offset
  <1>4. Continuation(view.page) = view.offset + 1
    BY <1>2, <1>3 DEF Continuation, Live
  <1>5. request' = [follow |-> FALSE, query |-> view.query, offset |-> view.offset + 1,
                    token |-> view.offset + 1, reset |-> FALSE]
    <2>1. ~(view.offset + 1 < view.offset)
      BY <1>3
    <2>2. LoadFrom(view, view.offset + 1, FALSE).token = view.offset + 1
      BY <1>4, <2>1 DEF LoadFrom
    <2> QED
      BY <1>2, <2>2 DEF LoadFrom
  <1>6. request' \in Request /\ request' # NoRequest
    BY <1>3, <1>5 DEF Request, NoRequest, Offset, Token, Live
  <1>7. request'.query = view.query /\ request'.offset = view.offset + 1
        /\ request'.token = view.offset + 1 /\ ~request'.reset /\ ~request'.follow
    BY <1>5
  <1>8. PageAsked'
    BY <1>2, <1>3, <1>7 DEF PageAsked
  <1>9. Awaited'
    BY <1>2, <1>6, <1>8, <1>7 DEF Awaited, Loading
  <1> QED
    BY <1>1, <1>9 DEF Orderly

(* Back to a page that is kept, or to one that is asked for again.         *)
LEMMA PreviousPageOrderly ==
    ASSUME Orderly, PreviousPage
    PROVE  Orderly'
  <1> DEFINE n == view.offset
             bookmark == Top(view.previous)
  <1>1. Sound(view) /\ ~view.live /\ ~view.list /\ view.previous # <<>> /\ ~editing
        /\ parents' = parents /\ editing' = editing /\ editing' \in BOOLEAN
    BY DEF Orderly, Stacked, Awaited, PreviousPage, Pages, Idle
  <1>2. /\ n \in Nat /\ n # 0 /\ n - 1 \in Offset /\ Len(view.previous) = n
        /\ bookmark = view.previous[n] /\ bookmark \in Bookmark
        /\ bookmark.offset = n - 1 /\ bookmark.position = n - 1
        /\ bookmark.cached => /\ bookmark.page.from = n - 1
                              /\ bookmark.page.next => n - 1 < MaxOffset
    BY <1>1, Newest
  <1> HIDE DEF bookmark
  <1>3. CASE bookmark.cached
    <2>1. Invalidate /\ view' = [view EXCEPT !.previous = Below(@), !.offset = bookmark.offset,
                                !.position = bookmark.position, !.page = bookmark.page]
      BY <1>3 DEF PreviousPage, bookmark
    <2>2. Bookmarks(view.previous, n)
      BY <1>1 DEF Sound
    <2>3. Bookmarks(Below(view.previous), n - 1)
      BY <1>2, <2>2, BookmarksDropped
    <2>4. view' \in View /\ ~view'.live /\ ~view'.list /\ view'.query = view.query
          /\ view'.previous = Below(view.previous) /\ view'.offset = n - 1
          /\ view'.position = n - 1 /\ view'.page = bookmark.page
      BY <1>1, <1>2, <2>1, <2>3 DEF Sound, Bookmarks, View, Bookmark
    <2>5. Sound(view')
      BY <1>2, <1>3, <2>3, <2>4 DEF Sound
    <2>6. Stacked'
      BY <1>1, <2>4, <2>5 DEF Orderly, Stacked
    <2>7. Awaited'
      BY <1>1, <2>1, <2>4, AwaitsNothing
    <2> QED
      BY <2>6, <2>7 DEF Orderly
  <1>4. CASE ~bookmark.cached
    <2>1. Load(view, bookmark.offset, FALSE) /\ opening' = FALSE /\ view' = view
      BY <1>4 DEF PreviousPage, bookmark
    <2>2. Stacked'
      BY <1>1, <2>1, StackKept DEF Orderly
    <2>3. request' = [follow |-> FALSE, query |-> view.query, offset |-> n - 1,
                      token |-> n - 1, reset |-> FALSE] /\ following' = FALSE
      <3>1. n - 1 < n /\ Top(view.previous).position = n - 1 /\ bookmark.offset = n - 1
        BY <1>2 DEF bookmark
      <3> QED
        BY <2>1, <3>1 DEF Load, LoadFrom
    <2>4. request' \in Request /\ request' # NoRequest
      BY <1>1, <1>2, <2>3 DEF Sound, View, Request, NoRequest, Offset, Token, Live
    <2>5. PageAsked'
      BY <1>1, <1>2, <1>4, <2>1, <2>3 DEF PageAsked
    <2>6. Awaited'
      BY <1>1, <2>1, <2>3, <2>4, <2>5 DEF Awaited, Loading
    <2> QED
      BY <2>2, <2>6 DEF Orderly
  <1> QED
    BY <1>3, <1>4

(* Going back shows a view that was kept, or the list.                     *)
LEMMA BackOrderly ==
    ASSUME Orderly, GoBack \/ ShowConnections
    PROVE  Orderly'
  <1>1. CASE GoBack
    <2>1. parents \in Seq(View) /\ parents # <<>> /\ Len(parents) \in 1 .. Len(parents)
          /\ view' = parents[Len(parents)] /\ parents' = Below(parents) /\ Invalidate
          /\ ~editing /\ editing' = editing /\ editing' \in BOOLEAN
      BY <1>1 DEF GoBack, Orderly, Stacked, Awaited, Top
    <2>2. Below(parents) \in Seq(View) /\ Len(Below(parents)) = Len(parents) - 1
          /\ \A i \in 1 .. Len(Below(parents)) :
                i \in 1 .. Len(parents) /\ Below(parents)[i] = parents[i]
      BY <2>1, FrontKeeps
    <2>3. Stacked'
      BY <2>1, <2>2 DEF Orderly, Stacked
    <2>4. Awaited'
      BY <2>1, AwaitsNothing
    <2> QED
      BY <2>3, <2>4 DEF Orderly
  <1>2. CASE ShowConnections
    <2>1. view' = List /\ parents' = <<>> /\ Invalidate /\ ~editing /\ editing' = editing
          /\ editing' \in BOOLEAN
      BY <1>2 DEF ShowConnections, Orderly, Awaited
    <2>2. Stacked'
      BY <2>1, ListSound DEF Stacked
    <2>3. Awaited'
      BY <2>1, AwaitsNothing
    <2> QED
      BY <2>2, <2>3 DEF Orderly
  <1> QED
    BY <1>1, <1>2

(* Following starts afresh, or goes on where the records shown end.        *)
LEMMA FollowOrderly ==
    ASSUME Orderly, StartFollow \/ FollowTick
    PROVE  Orderly'
  <1>1. Stacked'
    BY StackKept DEF Orderly, StartFollow, FollowTick
  <1>2. ~view.list /\ view' = view /\ following' = TRUE /\ opening' \in BOOLEAN
        /\ editing' = editing /\ editing \in BOOLEAN
    BY DEF Orderly, Awaited, StartFollow, FollowTick
  <1>3. CASE StartFollow
    <2>1. request' = [follow |-> TRUE, query |-> NoQuery, offset |-> 0, reset |-> TRUE,
                      token |-> 0]
      BY <1>3 DEF StartFollow, FollowFrom
    <2>2. request' \in Request /\ request' # NoRequest
      BY <2>1, PagingAssumption DEF Request, NoRequest, Offset, Token, Live
    <2>3. Awaited'
      BY <1>2, <2>1, <2>2 DEF Awaited, Loading, BatchAsked
    <2> QED
      BY <1>1, <2>3 DEF Orderly
  <1>4. CASE FollowTick
    <2>1. view.live /\ view.page.from = Live
      BY <1>4 DEF FollowTick, Orderly, Awaited, Stacked, Sound
    <2>2. request' = [follow |-> TRUE, query |-> NoQuery, offset |-> 0, reset |-> FALSE,
                      token |-> Live]
      BY <1>4, <2>1 DEF FollowTick, FollowFrom, Continuation
    <2>3. request' \in Request /\ request' # NoRequest
      BY <2>2, PagingAssumption DEF Request, NoRequest, Offset, Token, Live
    <2>4. Awaited'
      BY <1>2, <2>1, <2>2, <2>3 DEF Awaited, Loading, BatchAsked
    <2> QED
      BY <1>1, <2>4 DEF Orderly
  <1> QED
    BY <1>3, <1>4

(* A column and a sort leave everything else where it was.                 *)
LEMMA ColumnOrderly ==
    ASSUME Orderly, MoveColumn \/ Sort
    PROVE  Orderly'
  <1>1. PICK column \in Nat, sort \in Nat :
            view' = [view EXCEPT !.column = column, !.sort = sort]
    <2>1. view \in View /\ view.column \in Nat /\ view.sort \in Nat
      BY DEF Orderly, Stacked, Sound, View
    <2>2. CASE MoveColumn
      <3>1. PICK column \in {view.column - 1, view.column + 1} :
                column \in 1 .. ColumnCount(view.page) /\ view' = [view EXCEPT !.column = column]
        BY <2>2 DEF MoveColumn
      <3>2. column \in Nat
        BY <2>1, <3>1
      <3>3. view' = [view EXCEPT !.column = column, !.sort = view.sort]
        BY <2>1, <3>1 DEF View
      <3> QED
        BY <2>1, <3>2, <3>3
    <2>3. CASE Sort
      <3>1. PICK sort \in {0, view.column} : view' = [view EXCEPT !.sort = sort]
        BY <2>3 DEF Sort
      <3>2. view' = [view EXCEPT !.column = view.column, !.sort = sort]
        BY <2>1, <3>1 DEF View
      <3> QED
        BY <2>1, <3>1, <3>2
    <2> QED
      BY <2>2, <2>3
  <1>2. view' \in View /\ view'.list = view.list /\ view'.query = view.query
        /\ view'.live = view.live /\ view'.page = view.page /\ view'.offset = view.offset
        /\ view'.position = view.position /\ view'.previous = view.previous
    BY <1>1 DEF Orderly, Stacked, Sound, View
  <1>3. ~editing /\ ~view.list /\ parents' = parents /\ editing' = editing
        /\ editing' \in BOOLEAN
    BY DEF MoveColumn, Sort, Orderly, Awaited
  <1>4. Sound(view')
    BY <1>2 DEF Orderly, Stacked, Sound
  <1>5. Stacked'
    BY <1>2, <1>3, <1>4 DEF Orderly, Stacked
  <1>6. CASE following
    <2>1. Invalidate
      BY <1>6 DEF MoveColumn, Sort, StopFollowing
    <2>2. Awaited'
      BY <1>2, <1>3, <2>1, AwaitsNothing
    <2> QED
      BY <1>5, <2>2 DEF Orderly
  <1>7. CASE ~following
    <2>1. request' = request /\ following' = following /\ opening' = opening
      BY <1>7 DEF MoveColumn, Sort, StopFollowing
    <2>2. Loading => ~request.follow /\ PageAsked
      BY <1>7 DEF Orderly, Awaited, BatchAsked
    <2>3. Loading' = Loading
      BY <2>1 DEF Loading
    <2>4. PageAsked => PageAsked'
      BY <1>2, <1>3, <2>1 DEF PageAsked
    <2>5. Awaited'
      BY <1>2, <1>3, <1>7, <2>1, <2>2, <2>3, <2>4 DEF Orderly, Awaited
    <2> QED
      BY <1>5, <2>5 DEF Orderly
  <1> QED
    BY <1>6, <1>7

-----------------------------------------------------------------------------
(* Replies *)

(* Nothing is awaited after a reply.                                       *)
LEMMA AnsweredAwaitsNothing ==
    ASSUME request' = NoRequest, following' \in BOOLEAN, opening' \in BOOLEAN,
           editing' \in BOOLEAN, following' \/ editing' => ~view'.list,
           following' => view'.live
    PROVE  Awaited'
  BY DEF Awaited, Loading

(* What a page of the awaited request leaves of the view it is for: the    *)
(* bookmarks of the page it brings.                                        *)
LEMMA PageShown ==
    ASSUME NEW v, Sound(v), ~v.list, v.query = request.query,
           request \in Request, request.token = request.offset,
           request.reset => request.offset = 0,
           ~request.reset =>
              /\ ~v.live
              /\ \/ request.offset = v.offset + 1 /\ Len(v.previous) < BookmarkLimit
                 \/ request.offset = v.offset - 1 /\ v.previous # <<>>,
           NEW columns \in Shape, NEW next \in BOOLEAN,
           next => request.offset < MaxOffset
    PROVE  LET page == [from |-> request.token, columns |-> columns, next |-> next] IN
           /\ Sound(Shown(v, page)) /\ Shown(v, page).query = v.query
           /\ ~Shown(v, page).list /\ ~Shown(v, page).live
  <1> DEFINE n == request.offset
             page == [from |-> request.token, columns |-> columns, next |-> next]
             previous == IF request.reset THEN <<>>
                         ELSE IF request.offset < v.offset THEN Below(v.previous) ELSE Pushed(v)
             kept == IF NameAt(v.page, v.sort) = NameAt(page, v.sort) THEN v.sort ELSE 0
             column == SmallerOf(v.column, ColumnCount(page))
             sort == IF kept > ColumnCount(page) THEN 0 ELSE kept
  <1>1. v \in View /\ v.column \in Nat /\ v.sort \in Nat /\ v.offset \in Nat
        /\ request.offset \in Offset /\ request.offset \in Nat /\ request.token \in Token
    BY DEF Sound, View, Request, Offset
  <1>2. page \in Page /\ page.from = n /\ (page.next => n < MaxOffset)
    BY <1>1 DEF Page
  <1>3. column \in Nat
    BY <1>1, ColumnsCounted DEF SmallerOf
  <1>4. sort \in Nat
    BY <1>1
  <1>5. Bookmarks(previous, n)
    <2>1. CASE request.reset
      BY <2>1, PagingAssumption DEF Bookmarks
    <2>2. CASE ~request.reset /\ n < v.offset
      <3>1. n = v.offset - 1 /\ v.previous # <<>> /\ previous = Below(v.previous)
        BY <1>1, <2>2
      <3>2. v.offset # 0 /\ Bookmarks(v.previous, v.offset)
        BY <1>1, <2>2 DEF Sound
      <3> QED
        BY <1>1, <3>1, <3>2, BookmarksDropped
    <2>3. CASE ~request.reset /\ ~(n < v.offset)
      <3>1. n = v.offset + 1 /\ Len(v.previous) < BookmarkLimit /\ previous = Pushed(v)
        BY <1>1, <2>3
      <3> QED
        BY <2>3, <3>1, BookmarksPushed
    <2> QED
      BY <2>1, <2>2, <2>3
  <1>6. Shown(v, page) = [v EXCEPT !.live = FALSE, !.page = page, !.previous = previous,
                                   !.offset = n, !.position = request.token,
                                   !.column = column, !.sort = sort]
    BY <1>1 DEF Shown, View
  <1> HIDE DEF page, previous, column, sort, kept
  <1> DEFINE w == [v EXCEPT !.live = FALSE, !.page = page, !.previous = previous,
                            !.offset = n, !.position = n, !.column = column, !.sort = sort]
  <1>7. Sound(w)
    BY <1>1, <1>2, <1>3, <1>4, <1>5, PageTakesView
  <1>8. w.query = v.query /\ w.list = v.list /\ ~w.live
    BY <1>1 DEF View
  <1> QED
    BY <1>6, <1>7, <1>8 DEF page

(* A page changes the view it was asked from, or puts its own before it.   *)
LEMMA PageArrivesOrderly ==
    ASSUME Orderly, PageArrives
    PROVE  Orderly'
  <1> DEFINE fresh == request.query # view.query
             v == IF fresh THEN NewView(request.query) ELSE view
  <1>1. PICK columns \in Shape, next \in BOOLEAN :
            /\ next => request.offset < MaxOffset
            /\ view' = Shown(v, [from |-> request.token, columns |-> columns,
                                 next |-> next])
            /\ parents' = Behind(fresh)
    BY DEF PageArrives
  <1>2. Sound(view) /\ ~view.list /\ request \in Request /\ PageAsked
        /\ following' = FALSE /\ editing' = FALSE /\ request' = NoRequest /\ opening' = FALSE
    BY DEF PageArrives, Orderly, Stacked, Awaited, Loading, PageAsked
  <1>3. request.query \in Query \cup {NoQuery} /\ (fresh => request.reset)
        /\ (fresh => request.query # NoQuery)
    BY <1>2, PagingAssumption DEF Request, PageAsked
  <1>4. Sound(v) /\ ~v.list /\ v.query = request.query
    BY <1>2, <1>3, NewViewSound
  <1>5. ~request.reset => v = view
    BY <1>3
  <1>6. request.token = request.offset /\ (request.reset => request.offset = 0)
    BY <1>2 DEF PageAsked
  <1>7. ~request.reset =>
              /\ ~v.live
              /\ \/ request.offset = v.offset + 1 /\ Len(v.previous) < BookmarkLimit
                 \/ request.offset = v.offset - 1 /\ v.previous # <<>>
    BY <1>2, <1>5 DEF PageAsked
  <1> HIDE DEF v
  <1>8. Sound(view') /\ view'.query = request.query /\ ~view'.list /\ ~view'.live
    BY <1>1, <1>2, <1>4, <1>6, <1>7, PageShown
  <1>9. Stacked'
    <2>1. CASE fresh /\ view.query = NoQuery
      <3>1. parents' = Append(parents, view)
        BY <1>1, <2>1 DEF Behind
      <3>2. parents' \in Seq(View) /\ Len(parents') = Len(parents) + 1
            /\ parents'[Len(parents) + 1] = view
            /\ \A i \in 1 .. Len(parents) : parents'[i] = parents[i]
        BY <1>2, <3>1 DEF Orderly, Stacked, Sound
      <3>3. ASSUME NEW i \in 1 .. Len(parents')
            PROVE  Sound(parents'[i]) /\ parents'[i].query = NoQuery
        <4>1. CASE i = Len(parents) + 1
          BY <1>2, <2>1, <3>2, <4>1
        <4>2. CASE i # Len(parents) + 1
          <5>1. i \in 1 .. Len(parents)
            BY <3>2, <4>2 DEF Orderly, Stacked
          <5> QED
            BY <3>2, <5>1 DEF Orderly, Stacked
        <4> QED
          BY <4>1, <4>2
      <3>4. parents' # <<>> /\ ~parents'[Len(parents')].list
        BY <1>2, <3>2 DEF Orderly, Stacked
      <3> QED
        BY <1>8, <3>2, <3>3, <3>4 DEF Stacked
    <2>2. CASE ~(fresh /\ view.query = NoQuery)
      <3>1. parents' = parents
        BY <1>1, <2>2 DEF Behind
      <3>2. view'.query # NoQuery => view.query # NoQuery
        BY <1>8, <2>2
      <3> QED
        BY <1>8, <3>1, <3>2 DEF Orderly, Stacked
    <2> QED
      BY <2>1, <2>2
  <1>10. Awaited'
    BY <1>2, AnsweredAwaitsNothing
  <1> QED
    BY <1>9, <1>10 DEF Orderly

(* An error changes nothing, or ends the connection.                       *)
LEMMA PageFailsOrderly ==
    ASSUME Orderly, PageFails
    PROVE  Orderly'
  <1>1. request' = NoRequest /\ opening' = FALSE /\ ~following /\ ~view.list
        /\ editing \in BOOLEAN
    BY DEF PageFails, Orderly, Awaited, PageAsked
  <1>2. CASE opening
    <2>1. view' = List /\ parents' = <<>> /\ following' = FALSE /\ editing' = FALSE
      BY <1>2 DEF PageFails
    <2>2. Stacked'
      BY <2>1, ListSound DEF Stacked
    <2>3. Awaited'
      BY <1>1, <2>1, AnsweredAwaitsNothing
    <2> QED
      BY <2>2, <2>3 DEF Orderly
  <1>3. CASE ~opening
    <2>1. view' = view /\ parents' = parents /\ following' = following /\ editing' = editing
      BY <1>3 DEF PageFails
    <2>2. Stacked'
      BY <2>1, StackKept DEF Orderly
    <2>3. Awaited'
      BY <1>1, <2>1 DEF Orderly, Awaited, Loading
    <2> QED
      BY <2>2, <2>3 DEF Orderly
  <1> QED
    BY <1>2, <1>3

(* A view of live records has no way back.                                 *)
LEMMA BatchOrderly ==
    ASSUME Orderly, BatchArrives \/ BatchFails
    PROVE  Orderly'
  <1>1. request' = NoRequest /\ ~view.list /\ parents' = parents /\ opening' = opening
        /\ editing' = editing /\ editing \in BOOLEAN /\ opening \in BOOLEAN
        /\ following = TRUE /\ (~request.reset => view.live)
    BY DEF BatchArrives, BatchFails, Orderly, Awaited, BatchAsked
  <1> DEFINE ends == BatchFails \/ (view' = view /\ following' = FALSE)
  <1>2. CASE ends
    <2>1. view' = view /\ following' = FALSE
      BY <1>2 DEF BatchFails
    <2>2. Stacked'
      BY <1>1, <2>1, StackKept DEF Orderly
    <2>3. Awaited'
      BY <1>1, <2>1, AnsweredAwaitsNothing
    <2> QED
      BY <2>2, <2>3 DEF Orderly
  <1>3. CASE ~ends
    <2>1. PICK columns \in Shape :
              view' = [view EXCEPT
                          !.live = TRUE,
                          !.page = [from |-> Live, columns |-> columns, next |-> FALSE],
                          !.previous = IF request.reset THEN <<>> ELSE @,
                          !.position = IF request.reset THEN 0 ELSE @,
                          !.offset = IF request.reset THEN 0 ELSE @,
                          !.sort = IF request.reset THEN 0 ELSE @]
              /\ following' = following
      BY <1>3 DEF BatchArrives
    <2>2. view \in View /\ Sound(view)
      BY DEF Orderly, Stacked, Sound
    <2>3. view'.list = view.list /\ view'.query = view.query /\ view'.live
          /\ view'.page.from = Live /\ ~view'.page.next
      BY <2>1, <2>2 DEF View
    <2>4. view'.offset = 0 /\ view'.position = 0 /\ view'.previous = <<>>
      BY <1>1, <2>1, <2>2 DEF View, Sound
    <2>5. view' \in View
      <3>1. [from |-> Live, columns |-> columns, next |-> FALSE] \in Page
        BY PagingAssumption DEF Page, Token, Live
      <3>2. 0 \in Token /\ 0 \in Offset /\ 0 \in Nat /\ <<>> \in Seq(Bookmark)
        BY PagingAssumption DEF Token, Offset, Live
      <3> QED
        BY <2>1, <2>2, <3>1, <3>2 DEF View
    <2>6. Sound(view')
      BY <2>2, <2>3, <2>4, <2>5 DEF Sound
    <2>7. Stacked'
      BY <1>1, <2>3, <2>6 DEF Orderly, Stacked
    <2>8. Awaited'
      BY <1>1, <2>1, <2>3, AnsweredAwaitsNothing
    <2> QED
      BY <2>7, <2>8 DEF Orderly
  <1> QED
    BY <1>2, <1>3

-----------------------------------------------------------------------------
(* A step of the rest of the program changes nothing.                      *)
LEMMA StutterOrderly ==
    ASSUME Orderly, UNCHANGED vars
    PROVE  Orderly'
  BY DEF vars, Orderly, Stacked, Awaited, Loading, BatchAsked, PageAsked

(* Every step keeps the order.                                             *)
LEMMA StepOrderly ==
    ASSUME Orderly, [Next]_vars
    PROVE  Orderly'
  BY OpeningOrderly, RefreshOrderly, EditorOrderly, SubmitOrderly, NextPageOrderly,
     PreviousPageOrderly, BackOrderly, FollowOrderly, ColumnOrderly, PageArrivesOrderly,
     PageFailsOrderly, BatchOrderly, StutterOrderly DEF Next

(* Views stay in order and what is awaited fits them.                      *)
LEMMA AlwaysOrderly == Spec => []Orderly
  BY InitOrderly, StepOrderly, PTL DEF Spec

-----------------------------------------------------------------------------
(* Results *)

(* The variables keep their types.                                         *)
THEOREM ViewsTyped == Spec => []TypeOK
  <1>1. Orderly => TypeOK
    BY DEF Orderly, Stacked, Awaited, Sound, TypeOK
  <1> QED
    BY <1>1, AlwaysOrderly, PTL

(* A view in order, as the runs see it.                                    *)
LEMMA SoundTrail ==
    ASSUME NEW v, Sound(v)
    PROVE  /\ Trail(v)
           /\ Len(v.previous) <= BookmarkLimit
           /\ \A i \in DOMAIN v.previous :
                 v.previous[i].cached => i >= Len(v.previous) - 1
  <1>1. CASE v.live
    BY <1>1, PagingAssumption DEF Sound, Trail
  <1>2. CASE ~v.live
    <2>1. v.offset \in Nat /\ v.previous \in Seq(Bookmark) /\ Len(v.previous) = v.offset
          /\ DOMAIN v.previous = 1 .. v.offset
      BY <1>2 DEF Sound, Bookmarks, View, Offset
    <2> QED
      BY <1>2, <2>1 DEF Sound, Bookmarks, Trail
  <1> QED
    BY <1>1, <1>2

(* Whatever was cancelled, refused, followed or queried in between, going  *)
(* back by a page or from a query shows what was there (App::previous,     *)
(* App::back).                                                             *)
THEOREM BackShowsWhatWas == Spec => []WaysBack
  <1>1. ASSUME Orderly PROVE WaysBack
    <2>1. PagesLeadBack
      <3>1. DOMAIN parents = 1 .. Len(parents)
        BY <1>1 DEF Orderly, Stacked
      <3> QED
        BY <1>1, <3>1, SoundTrail DEF Orderly, Stacked, PagesLeadBack
    <2>2. QueryReturnsToBrowsing
      <3>1. DOMAIN parents = 1 .. Len(parents) /\ Top(parents) = parents[Len(parents)]
        BY <1>1 DEF Orderly, Stacked, Top
      <3> QED
        BY <1>1, <3>1 DEF Orderly, Stacked, QueryReturnsToBrowsing
    <2> QED
      BY <2>1, <2>2 DEF WaysBack
  <1> QED
    BY <1>1, AlwaysOrderly, PTL

(* What is awaited fits what is shown, a cursor of live records is never   *)
(* taken for a token of a scan, and what is kept keeps its limits          *)
(* (App::load, complete_page, push_bookmark).                              *)
THEOREM AwaitedFitsShown == Spec => []ViewsInOrder
  <1>1. ASSUME Orderly PROVE ViewsInOrder
    <2>1. RequestFitsView
      <3> SUFFICES ASSUME Loading, ~request.follow
                   PROVE  /\ ~view.list
                          /\ request.token = request.offset
                          /\ request.reset => request.offset = 0
                          /\ request.query # view.query => editing /\ request.reset
                          /\ ~request.reset =>
                                /\ ~view.live
                                /\ request.query = view.query
                                /\ request.offset \in {view.offset - 1, view.offset + 1}
                                /\ request.offset < view.offset =>
                                      view.previous # <<>> /\ ~Top(view.previous).cached
        BY DEF RequestFitsView
      <3>1. PageAsked /\ ~view.list /\ Sound(view)
        BY <1>1 DEF Orderly, Awaited, Stacked
      <3>2. view.offset \in Nat
        BY <3>1 DEF Sound, View, Offset
      <3>3. view.previous # <<>> => Top(view.previous) = view.previous[Len(view.previous)]
        BY DEF Top
      <3> QED
        BY <3>1, <3>2, <3>3 DEF PageAsked
    <2>2. FollowCursorsSeparate
      BY <1>1 DEF Orderly, Awaited, BatchAsked, PageAsked, FollowCursorsSeparate, Loading,
                  Request, Offset, Live
    <2>3. ASSUME NEW v \in {view} \cup Range(parents) PROVE Sound(v)
      BY <1>1 DEF Orderly, Stacked, Range
    <2>4. AtMostTwoCached /\ BookmarksBounded
      BY <2>3, SoundTrail DEF AtMostTwoCached, BookmarksBounded
    <2> QED
      BY <2>1, <2>2, <2>4 DEF ViewsInOrder
  <1> QED
    BY <1>1, AlwaysOrderly, PTL

(* What lies below is shorter.                                             *)
LEMMA FrontDiffers ==
    ASSUME NEW S, NEW s \in Seq(S), s # <<>>
    PROVE  Below(s) # s
  <1>1. Len(s) \in Nat /\ Len(s) # 0
    OBVIOUS
  <1>2. Len(Below(s)) = Len(s) - 1
    BY <1>1, FrontKeeps
  <1> QED
    BY <1>1, <1>2

(* A batch leaves the columns of a live view, or starts it afresh.         *)
LEMMA BatchKeepsColumns ==
    ASSUME Orderly, BatchArrives, view.live
    PROVE  view'.page.columns = view.page.columns \/ request.reset
  <1> DEFINE Extended(columns) ==
                 [view EXCEPT !.live = TRUE,
                              !.page = [from |-> Live, columns |-> columns, next |-> FALSE],
                              !.previous = IF request.reset THEN <<>> ELSE @,
                              !.position = IF request.reset THEN 0 ELSE @,
                              !.offset = IF request.reset THEN 0 ELSE @,
                              !.sort = IF request.reset THEN 0 ELSE @]
  <1>1. PICK columns \in Shape :
            IF Extends(columns)
            THEN /\ view' = Extended(columns)
                 /\ UNCHANGED following
            ELSE /\ following' = FALSE
                 /\ UNCHANGED view
    BY Zenon DEF BatchArrives
  <1>2. view \in View
    BY DEF Orderly, Stacked, Sound
  <1>3. Extended(columns).page.columns = columns
    BY <1>2 DEF View
  <1> HIDE DEF Extended
  <1> QED
    BY <1>1, <1>3 DEF Extends

(* Another step leaves them too, unless it shows another view.             *)
LEMMA StepKeepsColumns ==
    ASSUME Orderly, Next, view.live, view'.live, view'.page.columns # view.page.columns
    PROVE  request.reset \/ parents' # parents
  <1>1. view \in View /\ view' # view /\ parents \in Seq(View)
    BY DEF Orderly, Stacked, Sound
  <1>2. CASE OpenConnection \/ OpenResource
    BY <1>2, NewViewSound DEF OpenConnection, OpenResource
  <1>3. CASE Refresh \/ EditQuery \/ SubmitQuery \/ CloseQuery \/ NextPage \/ Cancel
              \/ StartFollow \/ FollowTick \/ BatchFails
    BY <1>1, <1>3 DEF Refresh, EditQuery, SubmitQuery, CloseQuery, NextPage, Cancel,
                     StartFollow, FollowTick, BatchFails
  <1>4. CASE PreviousPage
    BY <1>4 DEF PreviousPage, Pages
  <1>5. CASE GoBack
    BY <1>1, <1>5, FrontDiffers DEF GoBack
  <1>6. CASE ShowConnections
    BY <1>6, ListSound DEF ShowConnections
  <1>7. CASE MoveColumn \/ Sort
    <2>1. view'.page = view.page
      BY <1>1, <1>7 DEF MoveColumn, Sort, View
    <2> QED
      BY <2>1
  <1>8. CASE PageArrives
    <2> DEFINE v == IF request.query # view.query THEN NewView(request.query) ELSE view
    <2>1. PICK page : view' = Shown(v, page)
      BY <1>8 DEF PageArrives
    <2>2. request \in Request
      BY <1>8 DEF PageArrives, Loading, Orderly, Awaited
    <2>3. v \in View
      BY <1>1, <2>2, NewViewSound DEF Request, Sound
    <2> HIDE DEF v
    <2>4. ~view'.live
      BY <2>1, <2>3 DEF Shown, View
    <2> QED
      BY <2>4
  <1>9. CASE PageFails
    BY <1>1, <1>9, ListSound DEF PageFails
  <1>10. CASE BatchArrives
    BY <1>10, BatchKeepsColumns
  <1> QED
    BY <1>2, <1>3, <1>4, <1>5, <1>6, <1>7, <1>8, <1>9, <1>10 DEF Next

(* Records of other columns are never appended to the followed ones: the   *)
(* columns of a live view change only when following starts afresh, or     *)
(* another view is shown (complete_follow, App::back).                     *)
THEOREM FollowedColumnsStay == Spec => LiveColumnsStable
  <1> DEFINE Stays == view.live /\ view'.live /\ view'.page.columns # view.page.columns
                        => request.reset \/ parents' # parents
  <1>1. ASSUME Orderly, [Next]_vars PROVE [Stays]_vars
    BY <1>1, StepKeepsColumns
  <1> QED
    BY <1>1, AlwaysOrderly, PTL DEF Spec, LiveColumnsStable

=============================================================================
