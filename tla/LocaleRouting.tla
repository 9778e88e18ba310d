---------------------------- MODULE LocaleRouting ----------------------------
(***************************************************************************)
(* The website's locale routing policy (content/locale-routing.ts): which  *)
(* locale serves a request, at which address, and whether the answer may   *)
(* record the visitor's language.                                          *)
(*                                                                         *)
(* An address is the locale segments its path begins with, the page they   *)
(* lead to, and the value of its `_locale` parameter.                      *)
(***************************************************************************)
EXTENDS SiteLocales, Integers, FiniteSetsExt

CONSTANTS Retired, \* codes that were locales once
          NoLocale \* no hint, no cookie, nothing to record

Codes == Locales \cup Retired

ASSUME RoutingAssumption == Locales \cap Retired = {} /\ NoLocale \notin Codes

URL == [path : Seq(Codes), page : Pages, hint : Codes \cup {NoLocale}]

At(path, page) == [path |-> path, page |-> page, hint |-> NoLocale]

-----------------------------------------------------------------------------
(* Paths. *)

LocaleFromPathname(path) ==
    IF path # <<>> /\ Head(path) \in Prefixed THEN Head(path) ELSE NoLocale

WithoutLocalePrefix(path) ==
    IF LocaleFromPathname(path) = NoLocale THEN path ELSE Tail(path)

\* `/en` and the retired prefixes own no page ...
NeedsEnglishConsolidation(path) ==
    path # <<>> /\ Head(path) \in {English} \cup Retired

\* Mutant: one is dropped, the next request drops the next.
EnglishOwnerOfOnce(path) == IF NeedsEnglishConsolidation(path) THEN Tail(path) ELSE path

\* ... and however many lead a path, they are dropped at once.
EnglishOwnerOf(path) ==
    LET prefixes == {i \in DOMAIN path : path[i] \in Prefixed}
    IN  IF prefixes = {} THEN <<>> ELSE SubSeq(path, Min(prefixes), Len(path))

IsEnglishAlias(path) == path # <<>> /\ Head(path) = English

\* Mutant: what the cookie says is taken for a locale.
SavedAsIs(saved) == saved

\* The locale a saved preference stands for: a retired code is none.
SavedLocale(saved) == IF saved \in Locales THEN saved ELSE English

-----------------------------------------------------------------------------
(* Decisions. *)

Serve(url, locale, persist) ==
    [redirect |-> FALSE, url |-> url, locale |-> locale, persist |-> persist,
     permanent |-> FALSE]

\* A redirect takes the `_locale` parameter off, or leaves it.
Redirect(url, path, locale, strip, permanent) ==
    [redirect |-> TRUE, locale |-> locale, persist |-> locale, permanent |-> permanent,
     url |-> [url EXCEPT !.path = path, !.hint = IF strip THEN NoLocale ELSE @]]

\* decideRoute: the six rules in their order.
DecideRoute(url, saved) ==
    LET path  == url.path
        owner == EnglishOwnerOf(path)
        own   == LocaleFromPathname(path)
    IN  IF url.hint \in Locales THEN
            Redirect(url,
                     LocalePath(WithoutLocalePrefix(
                         IF NeedsEnglishConsolidation(path) THEN owner ELSE path), url.hint),
                     url.hint, TRUE, FALSE)
        ELSE IF NeedsEnglishConsolidation(path) THEN
            Redirect(url, owner, English, url.hint \in Retired, ~IsEnglishAlias(path))
        ELSE IF url.hint \in Retired THEN
            LET locale == IF own = NoLocale THEN SavedLocale(saved) ELSE own
            IN  Redirect(url, LocalePath(WithoutLocalePrefix(path), locale), locale, TRUE, FALSE)
        ELSE IF own # NoLocale THEN
            Serve(url, own, IF saved = own THEN NoLocale ELSE own)
        ELSE IF SavedLocale(saved) # English THEN
            Redirect(url, LocalePath(path, SavedLocale(saved)), SavedLocale(saved), FALSE, FALSE)
        ELSE Serve(url, English, IF saved = English THEN NoLocale ELSE English)

\* Mutant: a request the page made for itself records the language as well.
RouteForAnyone(url, saved, documentRequest) == DecideRoute(url, saved)

\* routeFor: a request the page made for itself records nothing.
RouteFor(url, saved, documentRequest) ==
    LET decision == DecideRoute(url, saved)
    IN  IF documentRequest THEN decision ELSE [decision EXCEPT !.persist = NoLocale]
=============================================================================
