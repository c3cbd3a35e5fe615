------------------------------ MODULE SiteRender ------------------------------
(***************************************************************************)
(* One request after another to the public site of a host: the layout, the  *)
(* metadata and the body of a page render side by side, each from reads of  *)
(* the backend that are made when it comes to them and answered later, while *)
(* the restaurant publishes, pauses, or is suspended. A read has a deadline  *)
(* for all of its answer, and its result is kept for the request.            *)
(***************************************************************************)
EXTENDS Naturals, FiniteSets

CONSTANTS
    SiteStarts,     \* how the restaurant is to begin with
    MaxVersion,     \* bound: versions ever published
    MaxRequests,    \* bound: requests
    MaxSiteEvents   \* bound: changes of the restaurant, reads that fail

VARIABLES
    site,           \* the restaurant as the backend has it
    asked,          \* the page that is asked for
    sockets,        \* the transport of each read: the request, its answer, its timer
    memo,           \* the result of each read, for this request
    parts,          \* what each part of the document became
    since,          \* how the restaurant has been since the request came
    requests, siteEvents

siteVars == <<site, asked, sockets, memo, parts, since, requests, siteEvents>>

-----------------------------------------------------------------------------
(* The restaurant, and what the backend answers.                           *)

NoVersion == 0
Sites == [active : BOOLEAN, version : 0 .. MaxVersion, menu : BOOLEAN, ordering : {"off", "on", "paused"}]
SiteConstants ==
    /\ MaxVersion \in Nat /\ MaxRequests \in Nat /\ MaxSiteEvents \in Nat
    /\ SiteStarts \subseteq Sites

Loaders == {"storefront", "menu", "availability"}

\* What the client makes of an answer, and of a request that came to none.
NoStatus == 0
Success(data) == [ok |-> TRUE, data |-> data]
Failure(status) == [ok |-> FALSE, status |-> status]

\* Of a host that was resolved: the published version, with a section for the
\* menu or without, the menu, and what is taken of orders.
PublishedStorefront ==
    IF site.version = NoVersion THEN Failure(404) ELSE Success([version |-> site.version, menu |-> site.menu])
PublicAvailability == Success(site.ordering)
AnswerTo(l) ==
    CASE l = "storefront" -> PublishedStorefront
      [] l = "menu" -> Success("menu")
      [] l = "availability" -> PublicAvailability

\* The three outcomes that a page tells apart.
NotFound == [kind |-> "not-found"]
Unavailable == [kind |-> "unavailable"]
Ok(data) == [kind |-> "ok", data |-> data]

\* Mutant: whatever is no answer is nothing found.
NothingFound(result) == IF result.ok THEN Ok(result.data) ELSE NotFound

ToStorefrontResult(result) ==
    CASE result.ok -> Ok(result.data)
      [] ~result.ok /\ result.status = 404 -> NotFound
      [] OTHER -> Unavailable

-----------------------------------------------------------------------------
(* A read. It is kept by its loader, whichever part asks.                  *)

Pages == {"home", "menu", "order", "track"}
Files == {"robots", "sitemap"}
NoRequest == [page |-> "none", host |-> FALSE]
Rendering == asked # NoRequest
Parts == {"layout", "metadata", "body"}
ToRender == IF asked.page \in Pages THEN Parts ELSE IF Rendering THEN {"body"} ELSE {}

Cells == {<<l, who>> : l \in Loaders, who \in {"all", "metadata"}}

\* Mutant: the metadata takes the loader that is not cached.
KeyOfPart(l, part) == <<l, IF part = "metadata" THEN part ELSE "all">>
Key(l, part) == <<l, "all">>

Unasked == [phase |-> "none"]
Awaited == [kind |-> "awaited"]
Known(key) == key \in DOMAIN memo /\ memo[key] # Awaited

Waiting == [kind |-> "waiting"]
Became(kind) == [kind |-> kind]

\* What a part still reads: the storefront first, and the body then what the page
\* is composed of.
Storefront(part) == memo[Key("storefront", part)]
HomeReads == IF Storefront("body").data.menu THEN {"menu", "availability"} ELSE {"availability"}
Alongside ==
    CASE asked.page = "home" -> HomeReads
      [] asked.page = "menu" -> {"menu", "availability"}
      [] asked.page = "order" -> {"availability"}
      [] OTHER -> {}
Needs(part) ==
    IF part \notin ToRender \/ parts[part] # Waiting THEN {}
    ELSE IF part = "body" /\ Known(Key("storefront", part)) /\ Storefront(part).kind = "ok"
         THEN Alongside ELSE {"storefront"}

\* A request without a host finds nothing and asks nobody.
Read(part, l) ==
    LET key == Key(l, part) IN
    /\ l \in Needs(part) /\ key \notin DOMAIN memo
    /\ IF asked.host
       THEN /\ memo' = [k \in DOMAIN memo \cup {key} |-> IF k = key THEN Awaited ELSE memo[k]]
            /\ sockets' = [sockets EXCEPT ![key] = [phase |-> "sent", timer |-> TRUE]]
       ELSE /\ memo' = [k \in DOMAIN memo \cup {key} |-> IF k = key THEN NotFound ELSE memo[k]]
            /\ UNCHANGED sockets
    /\ UNCHANGED <<site, asked, parts, since, requests, siteEvents>>

Settle(key, result) ==
    /\ memo' = [memo EXCEPT ![key] = ToStorefrontResult(result)]
    /\ sockets' = [sockets EXCEPT ![key] = Unasked]
    /\ UNCHANGED <<site, asked, parts, since, requests>>

Events == siteEvents < MaxSiteEvents /\ siteEvents' = siteEvents + 1

Answer(key, answer, hasTimer) ==
    /\ sockets' = [sockets EXCEPT ![key] = [phase |-> "answered", timer |-> hasTimer, answer |-> answer]]
    /\ UNCHANGED <<site, asked, memo, parts, since, requests, siteEvents>>

\* The backend looks the active restaurant of the host up, and then reads.
Resolve(key) ==
    /\ sockets[key].phase = "sent"
    /\ IF site.active
       THEN /\ sockets' = [sockets EXCEPT ![key].phase = "resolved"]
            /\ UNCHANGED <<site, asked, memo, parts, since, requests, siteEvents>>
       ELSE Answer(key, Failure(404), TRUE)

\* Mutant: the deadline is for the headers.
HeadersInTime(key) == sockets[key].phase = "resolved" /\ Answer(key, AnswerTo(key[1]), FALSE)

BackendAnswers(key) == sockets[key].phase = "resolved" /\ Answer(key, AnswerTo(key[1]), TRUE)

\* The answer has come to its end.
EndAnswer(key) ==
    /\ sockets[key].phase = "answered" /\ Settle(key, sockets[key].answer)
    /\ UNCHANGED siteEvents

\* A connection or a stream fails, or the backend answers an error of its own.
FailRead(key) ==
    /\ sockets[key] # Unasked /\ Events
    /\ \E status \in {NoStatus, 500} : Settle(key, Failure(status))

Timeout(key) ==
    /\ sockets[key] # Unasked /\ sockets[key].timer /\ Settle(key, Failure(NoStatus))
    /\ UNCHANGED siteEvents

-----------------------------------------------------------------------------
(* The document.                                                           *)

SiteInit ==
    /\ site \in SiteStarts
    /\ asked = NoRequest /\ sockets = [key \in Cells |-> Unasked] /\ memo = [key \in {} |-> Awaited]
    /\ parts = [p \in Parts |-> Waiting] /\ since = {}
    /\ requests = 0 /\ siteEvents = 0

Ask(page, host) ==
    /\ ~Rendering /\ requests < MaxRequests /\ requests' = requests + 1
    /\ asked' = [page |-> page, host |-> host]
    /\ since' = {site} /\ parts' = [p \in Parts |-> Waiting]
    /\ memo' = [key \in {} |-> Awaited]
    /\ UNCHANGED <<site, sockets, siteEvents>>

\* The layout and the metadata do without a storefront; the body does not.
RenderAround(part) ==
    /\ part \in ToRender \ {"body"} /\ parts[part] = Waiting /\ Known(Key("storefront", part))
    /\ parts' = [parts EXCEPT ![part] =
                    IF Storefront(part).kind = "ok"
                    THEN [kind |-> "shown", version |-> Storefront(part).data.version] ELSE Became("plain")]
    /\ UNCHANGED <<site, asked, sockets, memo, since, requests, siteEvents>>

\* The first read that fails decides which of the two other documents a page is.
GiveUpBody ==
    /\ asked.page \in Pages /\ Needs("body") # {}
    /\ \E l \in Needs("body") :
        /\ Known(Key(l, "body")) /\ memo[Key(l, "body")].kind # "ok"
        /\ parts' = [parts EXCEPT !.body = memo[Key(l, "body")]]
    /\ UNCHANGED <<site, asked, sockets, memo, since, requests, siteEvents>>

\* What each page is of what it read: whether orders are taken decides on the way
\* to the cart, and on the order page, which is none without and says a pause.
Offers(ordering) == IF ordering = "off" THEN "off" ELSE "on"
Shown(ordering) == [kind |-> "shown", version |-> Storefront("body").data.version, ordering |-> ordering]
OrderPage(ordering) == IF ordering = "off" THEN NotFound ELSE Shown(ordering)
RenderBody ==
    /\ asked.page \in Pages /\ parts.body = Waiting
    /\ Known(Key("storefront", "body")) /\ Storefront("body").kind = "ok"
    /\ \A l \in Alongside : Known(Key(l, "body")) /\ memo[Key(l, "body")].kind = "ok"
    /\ LET ordering == memo[Key("availability", "body")].data IN
        parts' = [parts EXCEPT !.body =
                    CASE asked.page \in {"home", "menu"} -> Shown(Offers(ordering))
                      [] asked.page = "order" -> OrderPage(ordering)
                      [] asked.page = "track" -> Shown("untold")]
    /\ UNCHANGED <<site, asked, sockets, memo, since, requests, siteEvents>>

\* The files for crawlers: an outage is one, to be tried again; where nothing is
\* published everything is disallowed, and there is no sitemap.
RobotsTxt(result) ==
    CASE result.kind = "unavailable" -> Unavailable
      [] result.kind = "ok" -> Shown("untold")
      [] result.kind = "not-found" -> Became("plain")
Sitemap(result) ==
    CASE result.kind = "unavailable" -> Unavailable
      [] result.kind = "ok" -> Shown("untold")
      [] result.kind = "not-found" -> NotFound
RenderFile ==
    /\ asked.page \in Files /\ parts.body = Waiting /\ Known(Key("storefront", "body"))
    /\ parts' = [parts EXCEPT !.body =
                    IF asked.page = "robots" THEN RobotsTxt(Storefront("body")) ELSE Sitemap(Storefront("body"))]
    /\ UNCHANGED <<site, asked, sockets, memo, since, requests, siteEvents>>

Done == Rendering /\ \A p \in ToRender : parts[p] # Waiting
\* The reads that a document did not wait for go their way.
Deliver ==
    /\ Done /\ asked' = NoRequest
    /\ sockets' = [key \in Cells |-> Unasked]
    /\ UNCHANGED <<site, memo, parts, since, requests, siteEvents>>

(* The restaurant: it publishes, is suspended or active again, and orders    *)
(* are let, paused or stopped.                                               *)
Changes(new) ==
    /\ Events /\ site' = new /\ since' = since \cup {new}
    /\ UNCHANGED <<asked, sockets, memo, parts, requests>>
Publish ==
    /\ site.version < MaxVersion
    /\ \E m \in BOOLEAN : Changes([site EXCEPT !.version = @ + 1, !.menu = m])
Transition == Changes([site EXCEPT !.active = ~@])
LetOrders == \E o \in {"off", "on", "paused"} \ {site.ordering} : Changes([site EXCEPT !.ordering = o])
Change == Publish \/ Transition \/ LetOrders

Reads == \E p \in Parts, l \in Loaders : Read(p, l)
Times == \E key \in Cells : Timeout(key)
Renders == (\E p \in Parts : RenderAround(p)) \/ GiveUpBody \/ RenderBody \/ RenderFile \/ Deliver

SiteNext ==
    \/ \E page \in Pages \cup Files, host \in BOOLEAN : Ask(page, host)
    \/ Reads \/ Times \/ Renders \/ Change
    \/ \E key \in Cells : Resolve(key) \/ BackendAnswers(key) \/ EndAnswer(key) \/ FailRead(key)

(* Nothing is asked of the backend but that its answers may come: a timeout  *)
(* fires unless it is cleared, and a render goes on.                         *)
SiteSpec ==
    /\ SiteInit /\ [][SiteNext]_siteVars
    /\ WF_siteVars(Reads) /\ WF_siteVars(Times) /\ WF_siteVars(Renders)

-----------------------------------------------------------------------------

Data(l) ==
    CASE l = "storefront" -> [version : 1 .. MaxVersion, menu : BOOLEAN]
      [] l = "menu" -> {"menu"}
      [] l = "availability" -> {"off", "on", "paused"}
Results(l) == {NotFound, Unavailable, Awaited} \cup {Ok(d) : d \in Data(l)}

SiteTypeOK ==
    /\ site \in Sites /\ since \subseteq Sites
    /\ asked = NoRequest \/ asked \in [page : Pages \cup Files, host : BOOLEAN]
    /\ DOMAIN sockets = Cells /\ \A key \in Cells : sockets[key].phase \in {"none", "sent", "resolved", "answered"}
    /\ DOMAIN memo \subseteq Cells /\ \A key \in DOMAIN memo : memo[key] \in Results(key[1])
    /\ \A p \in Parts : parts[p].kind \in {"waiting", "shown", "plain", "not-found", "unavailable"}
    /\ \A key \in DOMAIN memo : Rendering => (memo[key] = Awaited) = (sockets[key].phase # "none")
    /\ requests \in 0 .. MaxRequests /\ siteEvents \in 0 .. MaxSiteEvents

(* A page is of one version, whatever is published while it renders: theme,  *)
(* title and sections are the same version's (React.cache, layout.tsx).      *)
PageIsOneVersion ==
    Done /\ asked.page \in Pages /\ parts.body.kind = "shown" =>
        parts.layout = [kind |-> "shown", version |-> parts.body.version]
        /\ parts.metadata = parts.layout

(* Nothing of a page is older than the request for it: at some time since,   *)
(* the site was up, the version was the published one, and ordering was as    *)
(* it says. A neutral 404, or a file that keeps crawlers out, is never made of  *)
(* an outage: at some time since, the restaurant was hidden, or took no orders. *)
PageIsOfItsTime ==
    Done =>
        /\ parts.body.kind = "shown" =>
            /\ \E s \in since : s.active
            /\ \E s \in since : s.version = parts.body.version
            /\ asked.page = "order" => \E s \in since : s.ordering = parts.body.ordering
            /\ asked.page \in {"home", "menu"} =>
                \E s \in since : (s.ordering = "off") = (parts.body.ordering = "off")
        /\ parts.body.kind \in {"not-found", "plain"} /\ asked.host =>
            \E s \in since : ~s.active \/ s.version = NoVersion \/ (asked.page = "order" /\ s.ordering = "off")

(* A page is of one version, and nothing on it is older than its request.    *)
PageIsOneOfItsTime == PageIsOneVersion /\ PageIsOfItsTime

(* A request is answered, whether or not the backend is ("Total deadline for *)
(* connect + headers + body").                                               *)
RequestIsAnswered == Rendering ~> ~Rendering

=============================================================================
