-------------------------- MODULE ApiGatewayProofs -------------------------
(***************************************************************************)
(* The gateway keeps what its parts keep: a behaviour of the whole is one  *)
(* of Customers, one of MemoryAddresses and one of ProductPages.  The      *)
(* products come first, for any number of them and any page sizes: each    *)
(* page is an interval that starts after the cursor, so what was seen is   *)
(* all that comes before the cursor but for the tokens that are skipped.   *)
(***************************************************************************)
EXTENDS ApiGateway, CustomersProofs, FiniteSetTheorems

-----------------------------------------------------------------------------
(* The products, page by page.  While a client scrolls it has seen all     *)
(* that comes before the cursor but for the tokens that are skipped.       *)

PagesTypeOK ==
  /\ walk \in Walks /\ cursor \in 0..NumProducts /\ scrolling \in BOOLEAN
  /\ shown \in Seq([after : 0..NumProducts, products : SUBSET Catalogue])

LeftOut == IF Skips THEN Tokens \cup {cursor} ELSE {}
SoFar ==
  /\ Stops => shown = << >> /\ cursor = 0
  /\ Seen = (1..cursor) \ LeftOut
  /\ \A t \in Tokens : t <= cursor

PagesInv == PagesTypeOK /\ EveryProductOnce /\ (scrolling => SoFar)

LEMMA EndsOfInterval ==
  ASSUME NEW a \in Nat, NEW b \in Nat, a <= b
  PROVE  First(a..b) = a /\ Last(a..b) = b
<1>1. First(a..b) \in a..b /\ \A q \in a..b : First(a..b) <= q
  <2>1. \E p \in a..b : \A q \in a..b : p <= q
    OBVIOUS
  <2> QED BY <2>1 DEF First
<1>2. Last(a..b) \in a..b /\ \A q \in a..b : q <= Last(a..b)
  <2>1. \E p \in a..b : \A q \in a..b : q <= p
    OBVIOUS
  <2> QED BY <2>1 DEF Last
<1> HIDE DEF First, Last
<1> QED BY <1>1, <1>2

LEMMA LimitType == walk \in Walks => Limit \in Nat \ {0}
  BY PagesAssumption DEF Walks, Limit

(* The next page starts after the cursor and is full while products last.  *)
LEMMA PageIs ==
  ASSUME PagesTypeOK
  PROVE  /\ Limit \in Nat \ {0}
         /\ Page = (cursor + 1)..(IF cursor + Limit <= NumProducts THEN cursor + Limit ELSE NumProducts)
         /\ Following \ Page = (cursor + Limit + 1)..NumProducts
<1>1. Limit \in Nat \ {0} /\ cursor \in Nat /\ cursor <= NumProducts /\ NumProducts \in Nat
  BY LimitType, PagesAssumption DEF PagesTypeOK
<1>2. \A p : p \in Following <=> p \in 1..NumProducts /\ p > cursor
  BY DEF Following, Catalogue
<1>3. \A p : p \in Page <=> p \in Following /\ p <= cursor + Limit
  BY DEF Page
<1>4. Page = (cursor + 1)..(IF cursor + Limit <= NumProducts THEN cursor + Limit ELSE NumProducts)
  <2> HIDE DEF Limit, Page, Following
  <2>1. CASE cursor + Limit <= NumProducts
    <3>1. \A p : p \in Page <=> p \in (cursor + 1)..(cursor + Limit)
      BY <1>1, <1>2, <1>3, <2>1
    <3> QED BY <2>1, <3>1
  <2>2. CASE ~ (cursor + Limit <= NumProducts)
    <3>1. \A p : p \in Page <=> p \in (cursor + 1)..NumProducts
      BY <1>1, <1>2, <1>3, <2>2
    <3> QED BY <2>2, <3>1
  <2> QED BY <2>1, <2>2
<1>5. Following \ Page = (cursor + Limit + 1)..NumProducts
  <2> HIDE DEF Limit, Page, Following
  <2>1. \A p : p \in Following \ Page <=> p \in (cursor + Limit + 1)..NumProducts
    BY <1>1, <1>2, <1>3
  <2> QED BY <2>1
<1> QED BY <1>1, <1>4, <1>5

LEMMA FullPage ==
  ASSUME PagesTypeOK
  PROVE  /\ Full(Limit) <=> cursor + Limit <= NumProducts
         /\ cursor + Limit <= NumProducts => Last(Page) = cursor + Limit
<1> DEFINE last == IF cursor + Limit <= NumProducts THEN cursor + Limit ELSE NumProducts
<1>1. /\ Limit \in Nat \ {0} /\ cursor \in Nat /\ cursor <= NumProducts /\ NumProducts \in Nat
      /\ Page = (cursor + 1)..last
  BY PageIs, PagesAssumption DEF PagesTypeOK
<1> HIDE DEF Limit, Page
<1>2. last \in Nat
  BY <1>1
<1>3. Cardinality(Page) = IF cursor + 1 > last THEN 0 ELSE last - (cursor + 1) + 1
  BY <1>1, <1>2, FS_Interval
<1>4. Page = {} <=> cursor + 1 > last
  BY <1>1, <1>2
<1>5. Full(Limit) <=> cursor + Limit <= NumProducts
  <2>1. CASE cursor + Limit <= NumProducts
    <3>1. last = cursor + Limit /\ cursor + 1 <= last
      BY <1>1, <2>1
    <3>2. Page # {} /\ Cardinality(Page) = Limit
      <4> HIDE DEF last
      <4> QED BY <1>1, <1>2, <1>3, <1>4, <3>1
    <3> QED BY <2>1, <3>2 DEF Full
  <2>2. CASE ~ (cursor + Limit <= NumProducts)
    <3>1. last = NumProducts /\ last - cursor < Limit
      BY <1>1, <2>2
    <3>2. Page = {} \/ Cardinality(Page) # Limit
      <4> HIDE DEF last
      <4> QED BY <1>1, <1>2, <1>3, <1>4, <3>1
    <3> QED BY <2>2, <3>2 DEF Full
  <2> QED BY <2>1, <2>2
<1>6. cursor + Limit <= NumProducts => Last(Page) = cursor + Limit
  BY <1>1, EndsOfInterval
<1> QED BY <1>5, <1>6

(* Where the client goes on.                                               *)
LEMMA NextCursor ==
  ASSUME PagesTypeOK, TurnPage
  PROVE  IF Stops THEN cursor' = 0
         ELSE IF Skips
         THEN cursor' = IF cursor + Limit < NumProducts THEN cursor + Limit + 1 ELSE 0
         ELSE cursor' = IF cursor + Limit <= NumProducts THEN cursor + Limit ELSE 0
<1>1. /\ Limit \in Nat \ {0} /\ cursor \in Nat /\ NumProducts \in Nat
      /\ Following \ Page = (cursor + Limit + 1)..NumProducts
  BY PageIs, PagesAssumption DEF PagesTypeOK
<1>2. CASE walk.client = "gateway"
  <2>1. cursor' = EndCursor /\ ~ Skips
    BY <1>2 DEF TurnPage, Skips
  <2>2. CASE walk.size = 0
    <3>1. Page = {} \/ Cardinality(Page) # 0
      <4>1. IsFiniteSet(Page)
        BY <1>1, PageIs, FS_Interval DEF PagesTypeOK
      <4> QED BY <4>1, FS_EmptySet
    <3> QED BY <1>2, <2>1, <2>2, <3>1 DEF Stops, EndCursor, Full
  <2>3. CASE walk.size # 0
    <3>1. Limit = walk.size /\ ~ Stops
      BY <2>3 DEF Limit, Stops
    <3> QED BY <2>1, <3>1, FullPage DEF EndCursor
  <2> QED BY <2>2, <2>3
<1>3. CASE walk.client = "token" /\ walk.repository = "postgres"
  <2>1. cursor' = (IF Full(Limit) THEN Last(Page) ELSE 0) /\ ~ Skips /\ ~ Stops
    BY <1>3 DEF TurnPage, NextPageToken, Skips, Stops
  <2> QED BY <2>1, FullPage
<1>4. CASE walk.client = "token" /\ walk.repository = "memory"
  <2>1. /\ cursor' = IF Following \ Page # {} THEN First(Following \ Page) ELSE 0
        /\ Skips /\ ~ Stops
    BY <1>4 DEF TurnPage, NextPageToken, Skips, Stops
  <2>2. CASE cursor + Limit < NumProducts
    <3>1. cursor + Limit + 1 \in Nat /\ cursor + Limit + 1 <= NumProducts
      BY <1>1, <2>2
    <3>2. First((cursor + Limit + 1)..NumProducts) = cursor + Limit + 1
      BY <1>1, <3>1, EndsOfInterval
    <3>3. cursor + Limit + 1 \in Following \ Page
      BY <1>1, <3>1
    <3> QED BY <1>1, <2>1, <2>2, <3>2, <3>3
  <2>3. CASE ~ (cursor + Limit < NumProducts)
    <3>1. Following \ Page = {}
      BY <1>1, <2>3
    <3> QED BY <2>1, <2>3, <3>1
  <2> QED BY <2>2, <2>3
<1> QED BY <1>2, <1>3, <1>4 DEF PagesTypeOK, Walks

(* What a page adds to what was seen.                                      *)
LEMMA PageAdded ==
  ASSUME PagesTypeOK, TurnPage
  PROVE  /\ Seen' = Seen \cup Page
         /\ Tokens' = Tokens \cup {cursor}
         /\ DOMAIN shown' = DOMAIN shown \cup {Len(shown) + 1}
         /\ \A n \in DOMAIN shown : shown'[n] = shown[n] /\ n < Len(shown) + 1
         /\ shown'[Len(shown) + 1] = [after |-> cursor, products |-> Page]
         /\ UNCHANGED walk
         /\ PagesTypeOK'
<1> DEFINE page == [after |-> cursor, products |-> Page]
           Pages == [after : 0..NumProducts, products : SUBSET Catalogue]
<1>1. shown' = Append(shown, page) /\ shown \in Seq(Pages) /\ page \in Pages
  BY DEF TurnPage, PagesTypeOK, Page, Following
<1>2. /\ DOMAIN shown' = DOMAIN shown \cup {Len(shown) + 1}
      /\ \A n \in DOMAIN shown : shown'[n] = shown[n] /\ n < Len(shown) + 1
      /\ shown'[Len(shown) + 1] = page
      /\ shown' \in Seq(Pages)
  <2> HIDE DEF page, Pages
  <2> QED BY <1>1
<1>3. Seen' = Seen \cup Page
  BY <1>2 DEF Seen
<1>4. Tokens' = Tokens \cup {cursor}
  BY <1>2 DEF Tokens
<1>5. cursor' \in 0..NumProducts
  BY NextCursor, PageIs, PagesAssumption DEF PagesTypeOK
<1> QED BY <1>2, <1>3, <1>4, <1>5 DEF TurnPage, PagesTypeOK

LEMMA PagesInitOK == PagesInit => PagesInv
<1> SUFFICES ASSUME PagesInit PROVE PagesInv
  OBVIOUS
<1>1. PagesTypeOK
  BY PagesAssumption DEF PagesInit, PagesTypeOK
<1>2. shown = << >> /\ cursor = 0 /\ Seen = {} /\ Tokens = {}
  BY DEF PagesInit, Seen, Tokens
<1> QED BY <1>1, <1>2 DEF PagesInv, EveryProductOnce, Scrolled, SoFar

LEMMA TokensAreCursors == PagesTypeOK => Tokens \subseteq 0..NumProducts
<1> SUFFICES ASSUME PagesTypeOK, NEW n \in DOMAIN shown PROVE shown[n].after \in 0..NumProducts
  BY DEF Tokens
<1> DEFINE Pages == [after : 0..NumProducts, products : SUBSET Catalogue]
<1>1. shown \in Seq(Pages)
  BY DEF PagesTypeOK
<1>2. shown[n] \in Pages
  <2> HIDE DEF Pages
  <2> QED BY <1>1
<1> QED BY <1>2

LEMMA TurnPageOK ==
  ASSUME PagesInv, TurnPage
  PROVE  PagesInv'
<1>1. PagesTypeOK /\ scrolling /\ SoFar /\ EveryProductOnce
  BY DEF PagesInv, TurnPage
<1>2. /\ Limit \in Nat \ {0} /\ cursor \in Nat /\ cursor <= NumProducts /\ NumProducts \in Nat
      /\ Page = (cursor + 1)..(IF cursor + Limit <= NumProducts THEN cursor + Limit ELSE NumProducts)
  BY <1>1, PageIs, PagesAssumption DEF PagesTypeOK
<1>3. PagesTypeOK' /\ Seen' = Seen \cup Page /\ Tokens' = Tokens \cup {cursor}
  BY <1>1, PageAdded
<1>0. Tokens \subseteq 0..NumProducts
  BY <1>1, TokensAreCursors
<1>4. (Skips' <=> Skips) /\ (Stops' <=> Stops) /\ ~ (Skips /\ Stops)
  BY DEF TurnPage, Skips, Stops
<1> HIDE DEF Limit, Page
<1>5. ASSUME NEW m \in DOMAIN shown', NEW n \in DOMAIN shown', m < n,
             NEW p \in shown'[m].products, NEW q \in shown'[n].products
      PROVE  p < q
  <2>1. /\ DOMAIN shown' = DOMAIN shown \cup {Len(shown) + 1}
        /\ \A i \in DOMAIN shown : shown'[i] = shown[i] /\ i < Len(shown) + 1
        /\ shown'[Len(shown) + 1] = [after |-> cursor, products |-> Page]
    BY <1>1, PageAdded
  <2>2. Len(shown) \in Nat /\ DOMAIN shown = 1..Len(shown)
    BY <1>1 DEF PagesTypeOK
  <2>3. m \in DOMAIN shown
    BY <1>5, <2>1, <2>2
  <2>4. CASE n \in DOMAIN shown
    BY <1>1, <1>5, <2>1, <2>3, <2>4 DEF EveryProductOnce
  <2>5. CASE n = Len(shown) + 1
    <3>1. q \in Page
      BY <1>5, <2>1, <2>5
    <3>2. p \in Seen
      BY <1>5, <2>1, <2>3 DEF Seen
    <3> QED BY <1>1, <1>2, <3>1, <3>2 DEF SoFar
  <2> QED BY <2>1, <2>4, <2>5
<1>6. CASE Stops
  <2>1. cursor' = 0 /\ ~ scrolling'
    BY <1>1, <1>6, NextCursor DEF TurnPage
  <2>2. Seen' = Page /\ cursor = 0 /\ Limit = DefaultSize
    BY <1>1, <1>3, <1>6 DEF SoFar, Stops, Seen, Limit
  <2>3. Page = {p \in Catalogue : p <= DefaultSize}
    BY <1>2, <2>2 DEF Catalogue
  <2> QED BY <1>3, <1>4, <1>5, <1>6, <2>1, <2>2, <2>3 DEF PagesInv, EveryProductOnce
<1>7. CASE Skips
  <2>1. /\ cursor' = IF cursor + Limit < NumProducts THEN cursor + Limit + 1 ELSE 0
        /\ scrolling' = (cursor' # 0)
    BY <1>1, <1>4, <1>7, NextCursor DEF TurnPage
  <2>2. Seen = (1..cursor) \ (Tokens \cup {cursor}) /\ \A t \in Tokens : t <= cursor
    BY <1>1, <1>7 DEF SoFar, LeftOut
  <2>3. CASE cursor + Limit < NumProducts
    <3>0. cursor' = cursor + Limit + 1 /\ cursor' \in Nat /\ cursor' # 0 /\ cursor < cursor'
      BY <1>2, <2>1, <2>3
    <3>1. cursor' = cursor + Limit + 1 /\ cursor' \in Nat /\ scrolling' /\ cursor < cursor'
      BY <2>1, <3>0
    <3>2. \A t \in Tokens' : t <= cursor'
      BY <1>0, <1>2, <1>3, <2>2, <3>1
    <3>3. \A p : p \in Page <=> p \in Nat /\ cursor < p /\ p < cursor'
      BY <1>2, <2>3, <3>1
    <3>4. \A p : p \in Seen' <=> p \in (1..cursor') \ (Tokens' \cup {cursor'})
      BY <1>0, <1>2, <1>3, <2>2, <3>1, <3>3
    <3>5. Seen' = (1..cursor') \ (Tokens' \cup {cursor'})
      BY <3>4
    <3> QED BY <1>3, <1>4, <1>5, <1>7, <3>1, <3>2, <3>5
            DEF PagesInv, EveryProductOnce, Scrolled, SoFar, LeftOut
  <2>4. CASE ~ (cursor + Limit < NumProducts)
    <3>1. \A p : p \in Page <=> p \in Nat /\ cursor < p /\ p <= NumProducts
      BY <1>2, <2>4
    <3>2. \A p : p \in Seen' <=> p \in (1..NumProducts) \ Tokens'
      BY <1>0, <1>2, <1>3, <2>2, <3>1
    <3>3. Seen' = Catalogue \ Tokens' /\ ~ scrolling'
      BY <2>1, <2>4, <3>2 DEF Catalogue
    <3> QED BY <1>3, <1>4, <1>5, <1>7, <3>3 DEF PagesInv, EveryProductOnce
  <2> QED BY <2>3, <2>4
<1>8. CASE ~ Stops /\ ~ Skips
  <2>1. /\ cursor' = IF cursor + Limit <= NumProducts THEN cursor + Limit ELSE 0
        /\ scrolling' = (cursor' # 0)
    BY <1>1, <1>8, NextCursor DEF TurnPage
  <2>2. Seen = 1..cursor /\ \A t \in Tokens : t <= cursor
    BY <1>1, <1>8 DEF SoFar, LeftOut
  <2>3. CASE cursor + Limit <= NumProducts
    <3>0. cursor' = cursor + Limit /\ cursor' \in Nat /\ cursor' # 0 /\ cursor < cursor'
      BY <1>2, <2>1, <2>3
    <3>1. cursor' = cursor + Limit /\ cursor' \in Nat /\ scrolling' /\ cursor < cursor'
      BY <2>1, <3>0
    <3>2. \A t \in Tokens' : t <= cursor'
      BY <1>0, <1>2, <1>3, <2>2, <3>1
    <3>3. Page = (cursor + 1)..cursor'
      BY <1>2, <2>3, <3>1
    <3>4. \A p : p \in Seen' <=> p \in 1..cursor'
      BY <1>2, <1>3, <2>2, <3>1, <3>3
    <3>5. Seen' = 1..cursor'
      BY <3>4
    <3> QED BY <1>3, <1>4, <1>5, <1>8, <3>1, <3>2, <3>5
            DEF PagesInv, EveryProductOnce, Scrolled, SoFar, LeftOut
  <2>4. CASE ~ (cursor + Limit <= NumProducts)
    <3>1. Page = (cursor + 1)..NumProducts
      BY <1>2, <2>4
    <3>2. \A p : p \in Seen' <=> p \in 1..NumProducts
      BY <1>2, <1>3, <2>2, <3>1
    <3>3. Seen' = Catalogue /\ ~ scrolling'
      BY <2>1, <2>4, <3>2 DEF Catalogue
    <3> QED BY <1>3, <1>4, <1>5, <1>8, <3>3 DEF PagesInv, EveryProductOnce
  <2> QED BY <2>3, <2>4
<1> QED BY <1>6, <1>7, <1>8

(* Products, ListProducts: whoever scrolls sees the products in order and  *)
(* none twice, and all of them but for the two cases named, for any number *)
(* of products and any page size.                                          *)
THEOREM PagesShowEveryProduct == PagesSpec => []EveryProductOnce
<1>1. PagesInv /\ [TurnPage]_pagesVars => PagesInv'
  <2> SUFFICES ASSUME PagesInv, UNCHANGED pagesVars PROVE PagesInv'
    BY TurnPageOK
  <2>1. UNCHANGED <<walk, cursor, shown, scrolling>>
    BY DEF pagesVars
  <2>2. UNCHANGED <<Stops, Skips, Seen, Tokens, Scrolled>>
    BY <2>1 DEF Stops, Skips, Seen, Tokens, Scrolled
  <2>3. PagesTypeOK'
    BY <2>1 DEF PagesInv, PagesTypeOK
  <2>4. EveryProductOnce'
    BY <2>1, <2>2 DEF PagesInv, EveryProductOnce
  <2>5. (scrolling => SoFar)'
    BY <2>1, <2>2 DEF PagesInv, SoFar, LeftOut
  <2> QED BY <2>3, <2>4, <2>5 DEF PagesInv
<1>2. PagesInv => EveryProductOnce
  BY DEF PagesInv
<1> QED BY <1>1, <1>2, PagesInitOK, PTL DEF PagesSpec

-----------------------------------------------------------------------------
(* A behaviour of the gateway is a behaviour of each of its parts.         *)
LEMMA GatewayIsCustomers == GatewaySpec => Spec
<1>1. GatewayInit => Init
  BY DEF GatewayInit
<1>2. [GatewayNext]_<<vars, storeVars, pagesVars>> => [Next]_vars
  BY DEF GatewayNext
<1> QED BY <1>1, <1>2, PTL DEF GatewaySpec, Spec

LEMMA GatewayIsStore == GatewaySpec => StoreSpec
<1>1. GatewayInit => \E arrivals \in SUBSET Calls : StoreInit(arrivals)
  <2> SUFFICES ASSUME NEW arrivals \in Arrivals, StoreInit(OnAddresses(arrivals))
               PROVE  \E starters \in SUBSET Calls : StoreInit(starters)
    BY DEF GatewayInit
  <2>1. OnAddresses(arrivals) \in SUBSET Calls
    BY CustomersAssumption DEF OnAddresses
  <2> QED BY <2>1
<1>2. [GatewayNext]_<<vars, storeVars, pagesVars>> => [StoreNext]_storeVars
  BY DEF GatewayNext
<1> QED BY <1>1, <1>2, PTL DEF GatewaySpec, StoreSpec

LEMMA GatewayIsPages == GatewaySpec => PagesSpec
<1>1. GatewayInit => PagesInit
  BY DEF GatewayInit
<1>2. [GatewayNext]_<<vars, storeVars, pagesVars>> => [TurnPage]_pagesVars
  BY DEF GatewayNext
<1> QED BY <1>1, <1>2, PTL DEF GatewaySpec, PagesSpec

(* The resolvers of the gateway, over the account service and over its     *)
(* in-memory addresses: each call keeps accounts, profiles and defaults    *)
(* right, whatever the others do.                                          *)
THEOREM GatewaySafe ==
  GatewaySpec => [](TypeOK /\ OwnAccount /\ FieldsKept /\ OneDefault /\ OneChosen /\ EveryProductOnce)
<1>1. GatewaySpec => []TypeOK /\ []OwnAccount /\ []FieldsKept /\ []OneDefault
  BY GatewayIsCustomers, TypeCorrect, Accounts, ProfilesKept, Defaults
<1>2. GatewaySpec => []OneChosen /\ []EveryProductOnce
  BY GatewayIsStore, ChosenOnce, GatewayIsPages, PagesShowEveryProduct
<1> QED BY <1>1, <1>2, PTL

(* A user who has a default address keeps one, in both repositories.       *)
THEOREM GatewayKeepsDefaults == GatewaySpec => DefaultKept /\ ChosenKept
BY GatewayIsCustomers, GatewayIsStore, DefaultsKept, ChosenStays

(* Nor do its calls block one another for good.                            *)
THEOREM GatewayNeverHalts == IsFiniteSet(Calls) => (GatewaySpec => []SomeCallMoves)
BY GatewayIsCustomers, CustomersNeverHalt
=============================================================================
