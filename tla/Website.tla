------------------------------- MODULE Website -------------------------------
(***************************************************************************)
(* A visitor's browser at the website: what it asks, what the proxy        *)
(* answers under LocaleRouting, and when the language cookie is written.   *)
(* Cookies are read when a request is sent and written when its answer     *)
(* arrives; permanent redirects are followed from the browser's cache from *)
(* then on, without a request; the pages on screen fetch others in the     *)
(* background.  The site visited is one that TranslationEvidence builds.   *)
(*                                                                         *)
(* The browser is external: it is modelled as far as proxy.ts, the header  *)
(* and the notice rely on it.  A page's copy of pages fetched earlier is   *)
(* left out: it goes with the document, as long as which the cookie is     *)
(* changed only by another tab.                                            *)
(***************************************************************************)
EXTENDS LocaleRouting, TranslationEvidence

CONSTANTS Registries,   \* sequences of evidence records that may be deployed
          Typed,        \* addresses that may be typed, bookmarked or linked to
          NoNav, NoView,
          MaxBackground \* bound: background requests at once

ASSUME VisitAssumption ==
    /\ Typed \subseteq URL
    /\ NoNav \notin [asked : URL, url : URL, document : BOOLEAN, saved : Codes \cup {NoLocale},
                      hops : Nat, answered : Nat]
    /\ NoView \notin [page : Pages, locale : Locales]

ASSUME RegistriesAreSequences == \A r \in Registries : DOMAIN r = 1..Len(r)

VARIABLES
    cookie,     \* threethai_locale
    cached,     \* permanent redirects the browser remembers
    nav,        \* the navigation under way, with the address it began with,
                \* its redirects so far and how many of them the proxy answered
    background, \* requests of the page on screen: address and cookie sent
    view,       \* the page on screen
    chosen,     \* the language of the visitor's last choice, while it binds
    site        \* the deployed build

vars == <<cookie, cached, nav, background, view, chosen, site>>

Sites == {SiteOf(r) : r \in {x \in Registries : Builds(x)}}

Init ==
    /\ cookie \in Codes \cup {NoLocale}
    /\ cached = {}
    /\ nav = NoNav
    /\ background = {}
    /\ view = NoView
    /\ chosen = NoLocale
    /\ site \in Sites

-----------------------------------------------------------------------------
(* The browser. *)

\* A cached redirect is followed at once; what it leads to is requested.
Load(asked, url, documentRequest, hops, answered, jar) ==
    LET known == {c \in cached : c.from = url}
        sent  == IF known = {} THEN url ELSE (CHOOSE c \in known : TRUE).to
    IN  nav' = [asked |-> asked, url |-> sent, document |-> documentRequest, saved |-> jar,
                hops |-> hops + Cardinality(known), answered |-> answered]

\* A navigation begins.
Ask(url, documentRequest) == Load(url, url, documentRequest, 0, 0, cookie)

\* persistLocale.
Stored(persist) == IF persist = NoLocale THEN cookie ELSE persist

\* A page exists without a prefix and under one prefix; the rest is not found,
\* on a page that has neither links nor a picker.
Exists(path) == path = <<>> \/ (Len(path) = 1 /\ Head(path) \in Prefixed)

OnPage == view # NoView

\* The language an address states: its hint, its prefix or the alias; an
\* address that states none leaves the choice that was answered.  A hint before
\* several prefixes states none: the proxy takes one off, and the next decides.
Stated(url) ==
    CASE url.hint \in Locales /\ Len(url.path) <= 1 -> url.hint
      [] url.hint \notin Locales /\ Exists(url.path) /\ url.path # <<>> -> Head(url.path)
      [] url.hint \notin Locales /\ url.path = <<English>> -> English
      [] url.hint \notin Locales /\ url.path = <<>> /\ nav = NoNav -> chosen
      [] OTHER -> NoLocale

Type(url) ==
    /\ chosen' = Stated(url)
    /\ Ask(url, TRUE)
    /\ UNCHANGED <<cookie, cached, background, view, site>>

\* switchHref: English by its alias, the others by their prefix.
SwitchHref(page, target) == At(<<target>>, page)

\* A click in the picker, or on the notice that offers a language; on the
\* page's own language it does nothing.
Pick(l) ==
    /\ OnPage /\ l # view.locale
    /\ chosen' = l
    /\ Ask(SwitchHref(view.page, l), TRUE)
    /\ UNCHANGED <<cookie, cached, background, view, site>>

LinkTo(page) == At(LocalePath(<<>>, view.locale), page)

\* An in-site link: the page fetches what it needs.
Follow(page) ==
    /\ OnPage /\ nav = NoNav
    /\ Ask(LinkTo(page), FALSE)
    /\ UNCHANGED <<cookie, cached, background, view, chosen, site>>

Prefetch(page) ==
    /\ OnPage /\ Cardinality(background) < MaxBackground
    /\ background' = background \cup {[url |-> LinkTo(page), saved |-> cookie]}
    /\ UNCHANGED <<cookie, cached, nav, view, chosen, site>>

\* The visitor goes back: an earlier page, as it was, without a request.
Back ==
    /\ OnPage /\ nav = NoNav
    /\ view' \in [page : Pages, locale : Locales]
    /\ chosen' = NoLocale /\ background' = {}
    /\ UNCHANGED <<cookie, cached, nav, site>>

\* Another tab of the browser shares the cookie.
OtherTab(l) ==
    /\ cookie' = l /\ chosen' = NoLocale
    /\ UNCHANGED <<cached, nav, background, view, site>>

-----------------------------------------------------------------------------
(* The proxy's answers. *)

Decision == RouteFor(nav.url, nav.saved, nav.document)

AnswerRedirect ==
    /\ nav # NoNav /\ Decision.redirect
    /\ cookie' = Stored(Decision.persist)
    /\ cached' = IF Decision.permanent
                 THEN cached \cup {[from |-> nav.url, to |-> Decision.url]} ELSE cached
    /\ Load(nav.asked, Decision.url, nav.document, nav.hops + 1, nav.answered + 1, cookie')
    /\ UNCHANGED <<background, view, chosen, site>>

AnswerPage ==
    /\ nav # NoNav /\ ~Decision.redirect
    /\ ~nav.document => Decision.locale = view.locale
    /\ cookie' = Stored(Decision.persist)
    /\ view' = IF Exists(nav.url.path)
               THEN [page |-> nav.url.page, locale |-> Decision.locale] ELSE NoView
    /\ background' = IF nav.document THEN {} ELSE background
    /\ nav' = NoNav
    /\ UNCHANGED <<cached, chosen, site>>

\* Another locale has a root layout of its own: the browser loads the document.
AnswerOtherLayout ==
    /\ nav # NoNav /\ ~Decision.redirect
    /\ ~nav.document /\ Decision.locale # view.locale
    /\ cookie' = Stored(Decision.persist)
    /\ Load(nav.asked, nav.url, TRUE, nav.hops, nav.answered, cookie')
    /\ UNCHANGED <<cached, background, view, chosen, site>>

\* A background request is answered, after whatever happened meanwhile.
AnswerBackground(r) ==
    LET decision == RouteFor(r.url, r.saved, FALSE)
    IN  /\ cookie' = Stored(decision.persist)
        /\ background' = (background \ {r})
               \cup IF decision.redirect THEN {[url |-> decision.url, saved |-> cookie']} ELSE {}
        /\ UNCHANGED <<cached, nav, view, chosen, site>>

Next ==
    \/ \E url \in Typed : Type(url)
    \/ \E l \in Locales : Pick(l) \/ OtherTab(l)
    \/ \E page \in Pages : Follow(page) \/ Prefetch(page)
    \/ \E r \in background : AnswerBackground(r)
    \/ Back \/ AnswerRedirect \/ AnswerPage \/ AnswerOtherLayout

Spec == Init /\ [][Next]_vars
-----------------------------------------------------------------------------
(* Properties. *)

TypeOK ==
    /\ cookie \in Codes \cup {NoLocale}
    /\ cached \subseteq [from : URL, to : URL]
    /\ nav \in [asked : URL, url : URL, document : BOOLEAN, saved : Codes \cup {NoLocale},
                hops : Nat, answered : Nat] \cup {NoNav}
    /\ background \subseteq [url : URL, saved : Codes \cup {NoLocale}]
    /\ view \in [page : Pages, locale : Locales] \cup {NoView}
    /\ chosen \in Locales \cup {NoLocale}
    /\ site \in Sites

\* A visitor who chose a language stays in it, until the next choice, going back
\* or another tab: on every page and by every link, whatever is cached and
\* whichever background answers come late (proxy.ts:35-38, locale-routing.ts:235-243).
PickHolds ==
    nav = NoNav /\ OnPage /\ chosen # NoLocale => view.locale = chosen

\* `_locale=en` with a live prefix before the alias or a retired one: the proxy
\* takes the live prefix off, and what it hid is another request's.
HidesPrefix(url) ==
    /\ url.hint = English
    /\ \E i \in 1..(Len(url.path) - 1) :
          /\ \A j \in 1..(i - 1) : url.path[j] \notin Prefixed
          /\ url.path[i] \in Prefixed /\ url.path[i + 1] \notin Prefixed

\* No chain of redirects: the proxy sends a navigation on once, however many
\* prefixes the address put together (locale-routing.ts:153-156 "in a single hop",
\* 242-256), and twice only where rule 1 took off one prefix that hid another
\* (211-221); with a hop from the browser's cache there are never more than two.
RedirectsEnd ==
    nav # NoNav =>
        /\ nav.answered <= IF HidesPrefix(nav.asked) THEN 2 ELSE 1
        /\ nav.hops <= 2

\* Every address the site declares, as canonical, hreflang, x-default or in the
\* sitemap, is served in place to a request without cookie, and what it shows is
\* whole in the language declared (availability.ts:21-29, proxy.ts with locale-routing.ts:15-18).
ClaimsHonoured ==
    \A page \in Pages, locale \in Locales :
        LET owner    == site.owner[page][locale]
            declared == At(LocalePath(<<>>, owner), page)
            answer   == RouteFor(declared, NoLocale, TRUE)
        IN  /\ ~answer.redirect /\ answer.locale = owner
            /\ site.shown[page][owner] = {owner}
=============================================================================
