---------------------------- MODULE ProductPages ---------------------------
(***************************************************************************)
(* The catalog read page by page: ListProducts of the two repositories,    *)
(* and the two ways to walk them.  The gateway's client goes on after the  *)
(* cursor of the last edge while hasNextPage holds; a client of the        *)
(* catalog itself goes on with next_page_token while there is one.         *)
(* Nothing in the code adds or removes a product, and stock plays no part. *)
(* A product is named after its place in the order of the ids.             *)
(***************************************************************************)
EXTENDS Naturals, Sequences, FiniteSets

CONSTANTS
  NumProducts,  \* how many products there are
  PageSizes,    \* the page sizes that clients ask for; 0 stands for any <= 0
  DefaultSize   \* the limit that replaces those, 10 in the code

ASSUME PagesAssumption ==
  /\ NumProducts \in Nat
  /\ PageSizes \subseteq Nat /\ DefaultSize \in Nat \ {0}

VARIABLES
  walk,         \* who scrolls, over which repository, with which page size
  cursor,       \* where the next page starts; 0 is the empty cursor
  shown,        \* the pages so far, each with the cursor it came after
  scrolling

pagesVars == <<walk, cursor, shown, scrolling>>

Walks == [client : {"gateway", "token"}, repository : {"postgres", "memory"}, size : PageSizes]
Catalogue == 1..NumProducts

PagesInit ==
  /\ walk \in Walks
  /\ cursor = 0 /\ shown = << >>
  /\ scrolling \in BOOLEAN

First(ids) == CHOOSE p \in ids : \A q \in ids : p <= q
Last(ids) == CHOOSE p \in ids : \A q \in ids : q <= p
Limit == IF walk.size = 0 THEN DefaultSize ELSE walk.size

(* Mutant of Following: the cursor is part of the page.                    *)
FollowingInclusive == {p \in Catalogue : p >= cursor}
Following == {p \in Catalogue : p > cursor}
Page == {p \in Following : p <= cursor + Limit}
Full(size) == Page # {} /\ Cardinality(Page) = size

(* Postgres hands out the last product of a full page, the in-memory       *)
(* repository the first one that did not fit.                              *)
NextPageToken ==
  IF walk.repository = "postgres"
  THEN IF Full(Limit) THEN Last(Page) ELSE 0
  ELSE IF Following \ Page # {} THEN First(Following \ Page) ELSE 0

(* hasNextPage and endCursor, from the size that was asked for.            *)
EndCursor == IF Full(walk.size) THEN Last(Page) ELSE 0

TurnPage ==
  /\ scrolling
  /\ shown' = Append(shown, [after |-> cursor, products |-> Page])
  /\ cursor' = IF walk.client = "gateway" THEN EndCursor ELSE NextPageToken
  /\ scrolling' = (cursor' # 0)
  /\ UNCHANGED walk

PagesSpec == PagesInit /\ [][TurnPage]_pagesVars

-----------------------------------------------------------------------------
(* The in-memory token leaves its product out of both pages; a gateway     *)
(* client that asks for no size is told that the first page was the last.  *)
Skips == walk.client = "token" /\ walk.repository = "memory"
Stops == walk.client = "gateway" /\ walk.size = 0
Scrolled == ~ scrolling /\ shown # << >>

Seen == UNION {shown[n].products : n \in DOMAIN shown}
Tokens == {shown[n].after : n \in DOMAIN shown}

(* Scrolling shows the products in order, none twice, and, but for those   *)
(* two cases, none is left out.  The first case leaves out exactly the     *)
(* products that its tokens name, one between two pages; in the second,    *)
(* the first page is all.                                                  *)
EveryProductOnce ==
  /\ \A m, n \in DOMAIN shown :
       m < n => \A p \in shown[m].products, q \in shown[n].products : p < q
  /\ Scrolled => Seen = CASE Stops -> {p \in Catalogue : p <= DefaultSize}
                          [] Skips -> Catalogue \ Tokens
                          [] OTHER -> Catalogue
=============================================================================
