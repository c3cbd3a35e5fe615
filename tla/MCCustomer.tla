----------------------------- MODULE MCCustomer -----------------------------
(* The two sides of the counter for TLC: a behaviour is one of the public    *)
(* pages as the server renders them, the menu page, the checkout and the     *)
(* tracker of a customer and the restaurant's order board, list of orders    *)
(* and notices, and the others rest.                                         *)
EXTENDS Shopping, Checkout, Tracker

CONSTANTS burger, cheese, bacon, plain

(* The bounds of the parts that are instances.                               *)
CONSTANTS MaxOrders, BoardPage, InUse, Opened, MaxBoardLosses,      \* the board
          ListPage, MaxEntries, MaxPageEvents,                      \* the list
          MaxVisible, MaxNotices, MaxMoves,                         \* the notices
          SiteStarts, MaxVersion, MaxRequests, MaxSiteEvents        \* the site

VARIABLES at,   \* the page of this behaviour
          kitchen, watch, noticed, arrivals, drawer, details, confirming, sent, lapses, barred,
          stream, entries, onList, reading, pageEvents,
          items, nextId, held, effect, timer, pointer, focus, moves,
          site, asked, sockets, memo, parts, since, requests, siteEvents

boardVars == <<kitchen, watch, noticed, arrivals, drawer, details, confirming, sent, lapses, barred>>
pageVars == <<stream, entries, onList, reading, pageEvents>>
noticeVars == <<items, nextId, held, effect, timer, pointer, focus, moves>>
siteVars == <<site, asked, sockets, memo, parts, since, requests, siteEvents>>
roomVars == <<boardVars, pageVars, noticeVars>>
browserVars == <<shoppingVars, checkoutVars, trackerVars>>
customerVars == <<browserVars, roomVars, siteVars, at>>

Board == INSTANCE OrderDesk WITH NoData <- Nothing, PageSize <- BoardPage

List == INSTANCE Pages WITH PageSize <- ListPage

Region == INSTANCE Notices

(* Up with a menu on its page and with none, never published, and suspended. *)
Site(active, version, menuOnIt, ordering) ==
    [active |-> active, version |-> version, menu |-> menuOnIt, ordering |-> ordering]
SmallSites == {Site(TRUE, 1, TRUE, "on"), Site(TRUE, 1, FALSE, "off"),
               Site(TRUE, 0, FALSE, "paused"), Site(FALSE, 1, TRUE, "on")}

Rendered == INSTANCE SiteRender

ASSUME CounterConstants == Board!OrderDeskConstants /\ Rendered!SiteConstants
ASSUME RoomConstants == List!PageConstants /\ Region!NoticeConstants

Choose(lo, hi, all, open) == [min |-> lo, max |-> hi, options |-> all, open |-> open]

Facts(available, price, groups) ==
    [visible |-> TRUE, available |-> available, price |-> price,
     delta |-> [o \in Options |-> IF o = cheese THEN 1 ELSE 0], groups |-> groups]

Selling(facts) == {[i \in {burger} |-> f] : f \in facts}

(* One and several groups, required and optional, bounded and not, with      *)
(* options that are sold out; and an item that is.                           *)
SmallMenus == Selling({
    Facts(TRUE, 1, {Choose(1, 1, {cheese, bacon}, {cheese, bacon})}),
    Facts(TRUE, 2, {Choose(1, 0, {cheese}, {cheese}), Choose(0, 2, {bacon}, {bacon})}),
    Facts(TRUE, 1, {Choose(0, 1, {cheese, bacon}, {cheese, bacon})}),
    Facts(FALSE, 1, {Choose(1, 1, {cheese, bacon}, {cheese, bacon})}),
    Facts(TRUE, 1, {Choose(2, 0, {cheese, bacon}, {cheese})})})

(* Two prices, and sold out.                                                 *)
PricesOnly == Selling({Facts(TRUE, 1, {}), Facts(TRUE, 2, {}), Facts(FALSE, 1, {})})

NoDialog ==
    /\ menu = (CHOOSE m \in Menus : TRUE) /\ shown = menu
    /\ storage = EmptyCart

NoForm ==
    /\ shop.catalog = (CHOOSE m \in SaleMenus : TRUE)
    /\ shop.asap /\ stored = EmptyCart

Followed ==
    /\ status = "completed" /\ visible = TRUE
    /\ view = "completed" /\ polling = FALSE /\ cancelling = FALSE /\ tooLate = FALSE
    /\ flights = << >> /\ closings = 0 /\ losses = 0 /\ calm = FALSE

CustomerInit ==
    /\ at \in {"menu", "checkout", "track", "board", "list", "notices", "site"}
    /\ ShoppingInit /\ (at = "menu" \/ NoDialog)
    /\ CheckoutInit /\ (at = "checkout" \/ NoForm)
    /\ IF at = "track" THEN TrackerInit ELSE Followed
    /\ Board!OrderDeskInit /\ (at = "board" \/ \A o \in Board!Tickets : kitchen[o] = "absent")
    /\ List!PageInit /\ (at = "list" \/ (stream = "orders" /\ entries = << >>))
    /\ Region!NoticeInit
    /\ Rendered!SiteInit /\ (at = "site" \/ site = Site(TRUE, 1, TRUE, "on"))

Browsing == UNCHANGED <<roomVars, siteVars, at>>
Shops == at = "menu" /\ ShoppingNext /\ UNCHANGED <<checkoutVars, trackerVars>> /\ Browsing
ChecksOut == at = "checkout" /\ CheckoutNext /\ UNCHANGED <<shoppingVars, trackerVars>> /\ Browsing
Tracks == at = "track" /\ TrackerNext /\ UNCHANGED <<shoppingVars, checkoutVars>> /\ Browsing
OnBoard(action) ==
    at = "board" /\ action /\ UNCHANGED <<browserVars, pageVars, noticeVars, siteVars, at>>
Lists == at = "list" /\ List!PageNext /\ UNCHANGED <<browserVars, boardVars, noticeVars, siteVars, at>>
OnNotices(action) ==
    at = "notices" /\ action /\ UNCHANGED <<browserVars, boardVars, pageVars, siteVars, at>>
OnServer(action) == at = "site" /\ action /\ UNCHANGED <<browserVars, roomVars, at>>

CustomerNext ==
    \/ Shops \/ ChecksOut \/ Tracks \/ OnBoard(Board!OrderDeskNext) \/ Lists
    \/ OnNotices(Region!NoticeNext) \/ OnServer(Rendered!SiteNext)

(* Nothing that a page of the customer is bound to do is enabled while it    *)
(* rests; the board's intervals tick while it is the page.                   *)
BoardFairness ==
    /\ WF_customerVars(OnBoard(Board!PollWatch))
    /\ WF_customerVars(OnBoard(Board!PollDetail))
    /\ WF_customerVars(OnBoard(Board!LandWatch))
    /\ \A o \in Board!Tickets : WF_customerVars(OnBoard(Board!LandDetail(o)))

(* React runs an effect, and a timeout fires that is not cleared; a read is  *)
(* made when a part comes to it. The backend need not answer.                *)
TimerFairness ==
    WF_customerVars(OnNotices(Region!RunEffect \/ Region!FireTimer)
                    \/ OnServer(Rendered!Reads \/ Rendered!Times \/ Rendered!Renders))

CustomerSpec ==
    /\ CustomerInit /\ [][CustomerNext]_customerVars
    /\ CheckoutFairness /\ TrackerFairness /\ BoardFairness /\ TimerFairness

CustomerTypeOK ==
    ShoppingTypeOK /\ CheckoutTypeOK /\ TrackerTypeOK /\ Board!OrderDeskTypeOK /\ List!PageTypeOK
    /\ (at = "notices" => Region!NoticeTypeOK) /\ (at = "site" => Rendered!SiteTypeOK)

(* The properties of the order board (OrderDesk), which hold of it at rest.  *)
(* A refused command is not offered again on the word of an older answer,    *)
(* and the alert counts an order once.                                       *)
BoardStaysTrue == Board!RefusedStaysRefused /\ Board!CountedOnce
(* A submitted order is in the end noticed, whatever is on screen, and an    *)
(* open drawer ends with the status that the order has.                      *)
BoardCatchesUp == (at = "board" => Board!NewOrderIsNoticed) /\ Board!DrawerCatchesUp
(* The pages of the list, read one after another, make one list (Pages).     *)
PagesAreOneList == List!PagesAreOneList

(* With answers in the order of asking, a tracker ends with the order's      *)
(* status; in any order, one that goes on polling does (Tracker).            *)
TrackerCatchesUp == TrackerSettles /\ TrackerFollows

(* A notice goes when its own time is over, when it is evicted or dismissed, *)
(* and goes in the end while nothing holds the region (Notices).             *)
OneGoesForAReason == Region!OneGoesForAReason
NoticesGo == Region!NoticesGo

(* A page is of one version, and nothing on it, nor its 404, is of a time    *)
(* before its request (SiteRender).                                          *)
PageIsOneOfItsTime == Rendered!PageIsOneOfItsTime
(* A request is answered whether or not the backend is (SiteRender).         *)
RequestIsAnswered == Rendered!RequestIsAnswered

=============================================================================
