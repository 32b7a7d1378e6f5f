---------------------------- MODULE SwitcherRows ----------------------------
(***************************************************************************)
(* The rows of the page switcher (browser_chrome_core::switcher), shared   *)
(* by all three front ends: what they are for a query, what activating one *)
(* means, and where the arrow keys go.  A row is its kind and the page or  *)
(* URL it stands for; titles, domains and colours are left out.            *)
(***************************************************************************)
EXTENDS VecFilter, Functions

CONSTANT NoRow    (* no row: None *)

Row(kind, of) == [kind |-> kind, of |-> of]
Header(label) == Row("header", label)

(* The URLs of `found' that no earlier group shows, once each, in order.   *)
FirstPlaces(found, shown) ==
  {i \in 1..Len(found) : found[i] \notin shown /\ \A j \in 1 .. i - 1 : found[j] # found[i]}
Unseen(found, shown) == EntriesAt(found, FirstPlaces(found, shown))

(* A group has a header if it has rows.                                    *)
Group(label, kind, of) ==
  IF of = <<>> THEN <<>>
  ELSE <<Header(label)>> \o [i \in 1..Len(of) |-> Row(kind, of[i])]

(* build_switcher_rows: pages that match, the tile that adds one, and, for *)
(* a query, what the history, the bookmarks and the similarity search find *)
(* and nothing before them shows.  openUrls are the URLs of all pages.     *)
BuildSwitcherRows(matching, openUrls, anyQuery, history, bookmarks, similar) ==
  LET pages     == Group("Open Pages", "open", matching) \o <<Row("add", NoRow)>>
      visited   == Unseen(history, openUrls)
      marked    == Unseen(bookmarks, openUrls \cup Range(visited))
      alike     == Unseen(similar, openUrls \cup Range(visited) \cup Range(marked))
  IN IF anyQuery
     THEN pages \o Group("History", "history", visited)
                \o Group("Bookmarks", "bookmark", marked)
                \o Group("Similar", "similar", alike)
     ELSE pages

IsActivatable(row) == row.kind # "header"

(* activate_row: the page to switch to or the URL to open, if any.         *)
ActivateRow(rows, i, startPage) ==
  IF i \notin 1..Len(rows) THEN NoRow
  ELSE CASE rows[i].kind = "open"   -> Row("switch", rows[i].of)
         [] rows[i].kind = "add"    -> Row("new", startPage)
         [] rows[i].kind = "header" -> NoRow
         [] OTHER                   -> Row("new", rows[i].of)

(* next_activatable_row; 0 stands for None, as the row left and the result.*)
NextDown(rows, from) ==
  LET at == {i \in from + 1 .. Len(rows) : IsActivatable(rows[i])}
  IN IF at = {} THEN 0 ELSE CHOOSE i \in at : \A j \in at : i <= j
NextUp(rows, from) ==
  LET at == {i \in 1 .. IF from = 0 THEN Len(rows) ELSE from - 1 : IsActivatable(rows[i])}
  IN IF at = {} THEN 0 ELSE CHOOSE i \in at : \A j \in at : i >= j
(* It indexes rows without looking at their length: from a row more than   *)
(* one past the end, Up panics.                                            *)
UpFromBeyond(rows, from, direction) == direction = "up" /\ from > Len(rows) + 1
NextActivatableRow(rows, from, direction) ==
  IF direction = "down" THEN NextDown(rows, from) ELSE NextUp(rows, from)
=============================================================================
