---------------------------- MODULE WebsiteProofs ----------------------------
(***************************************************************************)
(* Proofs about Website, for any languages, pages, addresses typed,        *)
(* evidence and number of background requests.                             *)
(*                                                                         *)
(* What carries them: only consolidations of retired prefixes are cached,  *)
(* no redirect leads back to one, a redirect to an address that states no  *)
(* language has written the cookie first, and a request the page made for  *)
(* itself writes none.                                                     *)
(***************************************************************************)
EXTENDS Website, FiniteSetTheorems, SequenceTheorems, WellFoundedInduction, TLAPS

Cookies == Codes \cup {NoLocale}

\* Paths the policy serves or sends on by the cookie, never consolidates.
Plain(path) == path = <<>> \/ Head(path) \in Prefixed

\* Addresses at which only the cookie can redirect, and those it serves.
Final(url)         == url.hint = NoLocale /\ Plain(url.path)
Served(url, saved) == Final(url) /\ (url.path # <<>> \/ SavedLocale(saved) = English)

\* The addresses answered permanently, and where they lead.
Permanent(url)    == url.hint \notin Locales /\ url.path # <<>> /\ Head(url.path) \in Retired
Consolidated(url) == [url EXCEPT !.path = EnglishOwnerOf(url.path), !.hint = NoLocale]

\* The browser remembers consolidations only.
Remembers ==
    \A c \in cached : c.from \in URL /\ Permanent(c.from) /\ c.to = Consolidated(c.from)

\* How far a navigation has come, by how many redirects and the proxy's answers.
Way(asked, url, saved, document, hops, answered) ==
    /\ ~document => Final(url) /\ (hops = 0 \/ (hops = 1 /\ answered = 1 /\ url.path # <<>>))
    /\ \/ hops = 0 /\ answered = 0 /\ url = asked
       \/ hops = 1 /\ answered = 0 /\ Final(url)
       \/ hops = 1 /\ answered = 1 /\ Served(url, saved)
       \/ hops = 1 /\ answered = 1 /\ document /\ url.hint = NoLocale
          /\ NeedsEnglishConsolidation(url.path) /\ HidesPrefix(asked)
       \/ hops = 2 /\ answered = 1 /\ Served(url, saved)
       \/ hops = 2 /\ answered = 2 /\ Served(url, saved) /\ HidesPrefix(asked)

OnItsWay ==
    nav # NoNav => Way(nav.asked, nav.url, nav.saved, nav.document, nav.hops, nav.answered)

\* An address that leads to a language, with the cookie sent along.
Leads(url, saved, document, l) ==
    \/ url.hint = l /\ document /\ Len(url.path) <= 1
    \/ url.hint \notin Locales /\ url.path = <<l>> /\ l \in Prefixed
    \/ url.hint \notin Locales /\ url.path = <<English>> /\ l = English /\ document
    \/ url.hint \notin Locales /\ url.path = <<>> /\ SavedLocale(saved) = l

\* A choice that binds is in the cookie, or on its way there.
Bound ==
    chosen # NoLocale =>
        /\ nav = NoNav => SavedLocale(cookie) = chosen
        /\ nav # NoNav =>
              /\ nav.saved = cookie
              /\ Leads(nav.url, nav.saved, nav.document, chosen)
              /\ ~nav.document => SavedLocale(cookie) = chosen /\ OnPage /\ view.locale = chosen

\* The inductive invariant.
IInv == TypeOK /\ Remembers /\ OnItsWay /\ Bound /\ PickHolds

-----------------------------------------------------------------------------
(* Languages and paths. *)

\* English, the prefixed and the retired languages are told apart.
LEMMA Languages ==
    /\ English \in Locales /\ English \notin Prefixed /\ Prefixed \subseteq Locales
    /\ Locales \subseteq Codes /\ Retired \subseteq Codes /\ Locales = {English} \cup Prefixed
    /\ Locales \cap Retired = {} /\ NoLocale \notin Codes /\ NoLocale \notin Locales
    /\ NoLocale \notin Retired /\ Codes = {English} \cup Prefixed \cup Retired
  BY LocalesDistinct, RoutingAssumption DEF Locales, Prefixed, Codes

\* A path is empty or begins with a code.
LEMMA Paths ==
    ASSUME NEW path \in Seq(Codes)
    PROVE  /\ path = <<>> \/ Head(path) \in Codes
           /\ path # <<>> => path = <<Head(path)>> \o Tail(path) /\ Tail(path) \in Seq(Codes)
           /\ Len(path) = 1 => path = <<Head(path)>> /\ path # <<>>
           /\ Len(path) <= 1 => path = <<>> \/ Len(path) = 1
  OBVIOUS

\* A path that is not consolidated is plain.
LEMMA NotConsolidated ==
    ASSUME NEW path \in Seq(Codes), ~NeedsEnglishConsolidation(path)
    PROVE  Plain(path)
  BY Paths, Languages DEF NeedsEnglishConsolidation, Plain

\* A cookie always stands for a locale.
LEMMA SavedLocaleType == \A saved : SavedLocale(saved) \in Locales
  BY Languages DEF SavedLocale

\* The least of some numbers is one of them.
LEMMA LeastIsThere ==
    ASSUME NEW S \in SUBSET Nat, S # {}
    PROVE  Min(S) \in S /\ \A y \in S : Min(S) <= y
<1> DEFINE T == {0..x : x \in S}
<1>1. T \subseteq FiniteSubsetsOf(Nat)
  <2> SUFFICES ASSUME NEW x \in S PROVE 0..x \in FiniteSubsetsOf(Nat)
    OBVIOUS
  <2>1. IsFiniteSet(0..x)
    BY FS_Interval
  <2> QED BY <2>1 DEF FiniteSubsetsOf
<1>2. IsWellFoundedOn(StrictSubsetOrdering(Nat), FiniteSubsetsOf(Nat))
  BY FS_StrictSubsetOrderingWellFounded
<1>0. T # {}
  OBVIOUS
<1> HIDE DEF T
<1>3. PICK t \in T : \A u \in T : ~(<<u, t>> \in StrictSubsetOrdering(Nat))
  BY <1>0, <1>1, <1>2, WFMin
<1>4. PICK x \in S : t = 0..x
  BY DEF T
<1>5. \A y \in S : x <= y
  <2> SUFFICES ASSUME NEW y \in S, y < x PROVE FALSE
    OBVIOUS
  <2>1. 0..y \in T /\ ~(<<0..y, 0..x>> \in StrictSubsetOrdering(Nat))
    BY <1>3, <1>4 DEF T
  <2>2. x \in 0..x /\ x \notin 0..y /\ 0..y \subseteq 0..x /\ 0..y \in SUBSET Nat /\ 0..x \in SUBSET Nat
    OBVIOUS
  <2>3. 0..y # 0..x
    BY <2>2
  <2> QED BY <2>1, <2>2, <2>3 DEF StrictSubsetOrdering
<1> QED BY <1>5 DEF Min

\* The English owner of a path is a plain one.
LEMMA OwnerIsPlain ==
    ASSUME NEW path \in Seq(Codes)
    PROVE  /\ EnglishOwnerOf(path) \in Seq(Codes) /\ Plain(EnglishOwnerOf(path))
           /\ (Len(path) = 1 /\ Head(path) \notin Prefixed) => EnglishOwnerOf(path) = <<>>
<1> DEFINE prefixes == {i \in DOMAIN path : path[i] \in Prefixed}
<1>1. CASE prefixes = {}
  <2>1. EnglishOwnerOf(path) = <<>>
    BY <1>1 DEF EnglishOwnerOf
  <2> QED BY <2>1 DEF Plain
<1>2. CASE prefixes # {}
  <2>1. prefixes \in SUBSET Nat
    OBVIOUS
  <2>2. Min(prefixes) \in prefixes
    BY <1>2, <2>1, LeastIsThere
  <2>3. EnglishOwnerOf(path) = SubSeq(path, Min(prefixes), Len(path))
    BY <1>2 DEF EnglishOwnerOf
  <2> DEFINE m == Min(prefixes)
  <2>4. m \in 1..Len(path) /\ path[m] \in Prefixed
    BY <2>2
  <2> HIDE DEF m, prefixes
  <2>5. SubSeq(path, m, Len(path)) \in Seq(Codes)
    BY <2>4
  <2>6. Head(SubSeq(path, m, Len(path))) = path[m]
    BY <2>4, HeadTailOfSubSeq
  <2>7. Len(path) = 1 => Head(path) \in Prefixed
    BY <2>4
  <2> QED BY <2>3, <2>4, <2>5, <2>6, <2>7 DEF Plain, m
<1> QED BY <1>1, <1>2

\* ... the path from its first live prefix on.
LEMMA OwnerIsTheRest ==
    ASSUME NEW path \in Seq(Codes), EnglishOwnerOf(path) # <<>>
    PROVE  \E m \in 1..Len(path) :
              /\ path[m] \in Prefixed /\ \A j \in 1..(m - 1) : path[j] \notin Prefixed
              /\ EnglishOwnerOf(path) = SubSeq(path, m, Len(path))
<1> DEFINE prefixes == {i \in DOMAIN path : path[i] \in Prefixed}
<1>1. prefixes # {} /\ prefixes \in SUBSET Nat
  BY DEF EnglishOwnerOf
<1>2. Min(prefixes) \in prefixes /\ \A y \in prefixes : Min(prefixes) <= y
  BY <1>1, LeastIsThere
<1>3. EnglishOwnerOf(path) = SubSeq(path, Min(prefixes), Len(path))
  BY <1>1 DEF EnglishOwnerOf
<1>4. PICK m \in prefixes : m = Min(prefixes)
  BY <1>2
<1>5. m \in 1..Len(path) /\ path[m] \in Prefixed
  OBVIOUS
<1>6. \A j \in 1..(m - 1) : path[j] \notin Prefixed
  <2> SUFFICES ASSUME NEW j \in 1..(m - 1), path[j] \in Prefixed PROVE FALSE
    OBVIOUS
  <2>1. j \in prefixes
    BY <1>5
  <2>2. m <= j
    BY <1>2, <1>4, <2>1
  <2> HIDE DEF prefixes
  <2> QED BY <1>5, <2>2
<1> QED BY <1>3, <1>4, <1>5, <1>6

\* A plain path that hides a prefix behind its own: what is left once that is off.
LEMMA HiddenBehind ==
    ASSUME NEW path \in Seq(Codes), NEW m \in 1..Len(path),
           path[m] \in Prefixed, \A j \in 1..(m - 1) : path[j] \notin Prefixed,
           NeedsEnglishConsolidation(Tail(SubSeq(path, m, Len(path))))
    PROVE  \E i \in 1..(Len(path) - 1) :
              /\ \A j \in 1..(i - 1) : path[j] \notin Prefixed
              /\ path[i] \in Prefixed /\ path[i + 1] \notin Prefixed
<1>1. Tail(SubSeq(path, m, Len(path))) = SubSeq(path, m + 1, Len(path))
  BY HeadTailOfSubSeq
<1>2. SubSeq(path, m + 1, Len(path)) # <<>>
  BY <1>1 DEF NeedsEnglishConsolidation
<1>3. m \in 1..(Len(path) - 1)
  <2> SUFFICES ASSUME m = Len(path) PROVE FALSE
    OBVIOUS
  <2>1. SubSeq(path, m + 1, Len(path)) = <<>>
    OBVIOUS
  <2> QED BY <1>2, <2>1
<1>4. Head(SubSeq(path, m + 1, Len(path))) = path[m + 1]
  BY <1>3, HeadTailOfSubSeq
<1>5. path[m + 1] \notin Prefixed
  BY <1>1, <1>4, Languages DEF NeedsEnglishConsolidation
<1> QED BY <1>3, <1>5

\* What taking off and putting on a prefix yields.
LEMMA PrefixTypes ==
    ASSUME NEW path \in Seq(Codes), NEW l \in Locales
    PROVE  /\ LocaleFromPathname(path) \in Prefixed \cup {NoLocale}
           /\ WithoutLocalePrefix(path) \in Seq(Codes)
           /\ LocalePath(path, l) \in Seq(Codes)
           /\ l # English => LocalePath(path, l) # <<>> /\ Head(LocalePath(path, l)) = l
           /\ l = English => LocalePath(path, l) = path
           /\ LocalePath(<<>>, l) = IF l = English THEN <<>> ELSE <<l>>
<1>1. LocaleFromPathname(path) \in Prefixed \cup {NoLocale}
  BY DEF LocaleFromPathname
<1>2. WithoutLocalePrefix(path) \in Seq(Codes)
  BY Languages DEF WithoutLocalePrefix, LocaleFromPathname
<1>3. l \in Codes /\ <<l>> \o path \in Seq(Codes) /\ <<l>> \o path # <<>> /\ Head(<<l>> \o path) = l
  BY Languages
<1>4. <<l>> \o <<>> = <<l>>
  OBVIOUS
<1> QED BY <1>1, <1>2, <1>3, <1>4 DEF LocalePath

-----------------------------------------------------------------------------
(* The policy, rule by rule. *)

\* What an answer says, part by part.
Says(decision, redirect, locale, persist, permanent, url) ==
    /\ decision.redirect = redirect /\ decision.locale = locale
    /\ decision.persist = persist /\ decision.permanent = permanent
    /\ decision.url = url

\* An address with another path and hint.
LEMMA Addresses ==
    ASSUME NEW url \in URL, NEW path, NEW hint
    PROVE  [url EXCEPT !.path = path, !.hint = hint] = [path |-> path, page |-> url.page, hint |-> hint]
<1> DEFINE moved == [url EXCEPT !.path = path, !.hint = hint]
<1>1. moved \in [path : {path}, page : Pages, hint : {hint}] /\ moved.page = url.page
  BY DEF URL
<1> HIDE DEF moved
<1>2. moved = [path |-> path, page |-> url.page, hint |-> hint]
  BY <1>1
<1> QED BY <1>2 DEF moved

\* A redirect of rule 1: to the language hinted at, which is recorded.
LEMMA Hinted ==
    ASSUME NEW url \in URL, NEW saved, NEW document \in BOOLEAN, url.hint \in Locales
    PROVE  \E path \in Seq(Codes) :
              /\ Len(url.path) <= 1 => path = LocalePath(<<>>, url.hint)
              /\ \/ url.hint # English /\ path # <<>> /\ Head(path) = url.hint
                 \/ url.hint = English
              /\ url.hint = English /\ NeedsEnglishConsolidation(path) => HidesPrefix(url)
              /\ Says(RouteFor(url, saved, document), TRUE, url.hint,
                      IF document THEN url.hint ELSE NoLocale, FALSE, At(path, url.page))
<1> DEFINE rest == IF NeedsEnglishConsolidation(url.path) THEN EnglishOwnerOf(url.path) ELSE url.path
           own == WithoutLocalePrefix(rest)
           path == LocalePath(own, url.hint)
<1>1. url.path \in Seq(Codes) /\ EnglishOwnerOf(url.path) \in Seq(Codes)
  BY OwnerIsPlain DEF URL
<1>2. own \in Seq(Codes) /\ path \in Seq(Codes)
  BY <1>1, PrefixTypes
<1>3. url.hint # English => path # <<>> /\ Head(path) = url.hint
  BY <1>2, PrefixTypes
<1>4. ASSUME Len(url.path) <= 1 PROVE own = <<>>
  <2>1. CASE url.path = <<>>
    BY <2>1 DEF NeedsEnglishConsolidation, WithoutLocalePrefix, LocaleFromPathname
  <2>2. CASE Len(url.path) = 1 /\ Head(url.path) \in Prefixed
    <3>1. url.path # <<>> /\ Tail(url.path) = <<>>
      <4>1. url.path = <<Head(url.path)>>
        BY <1>1, <2>2, Paths
      <4>2. Tail(<<Head(url.path)>>) = <<>> /\ <<Head(url.path)>> # <<>>
        OBVIOUS
      <4> QED BY <4>1, <4>2
    <3>3. Head(url.path) \notin {English} \cup Retired
      BY <2>2, Languages
    <3> QED BY <2>2, <3>1, <3>3, Languages DEF NeedsEnglishConsolidation, WithoutLocalePrefix, LocaleFromPathname
  <2>3. CASE Len(url.path) = 1 /\ Head(url.path) \notin Prefixed
    <3>1. url.path # <<>> /\ Head(url.path) \in {English} \cup Retired
      BY <1>1, <2>3, Languages, Paths
    <3>2. EnglishOwnerOf(url.path) = <<>>
      BY <1>1, <2>3, OwnerIsPlain
    <3> QED BY <3>1, <3>2 DEF NeedsEnglishConsolidation, WithoutLocalePrefix, LocaleFromPathname
  <2> QED BY <1>1, <1>4, <2>1, <2>2, <2>3, Paths
<1>5. Says(RouteFor(url, saved, document), TRUE, url.hint,
           IF document THEN url.hint ELSE NoLocale, FALSE, At(path, url.page))
  <2>1. DecideRoute(url, saved) = Redirect(url, path, url.hint, TRUE, FALSE)
    BY DEF DecideRoute
  <2>2. [url EXCEPT !.path = path, !.hint = NoLocale] = At(path, url.page)
    BY Addresses DEF At
  <2> HIDE DEF path
  <2> QED BY <2>1, <2>2 DEF RouteFor, Redirect, Says
<1>6. ASSUME url.hint = English, NeedsEnglishConsolidation(path) PROVE HidesPrefix(url)
  <2>1. path = own
    BY <1>2, <1>6, PrefixTypes
  <2>2. rest \in Seq(Codes) /\ Plain(rest)
    BY <1>1, OwnerIsPlain, NotConsolidated
  <2>3. rest # <<>> /\ own = Tail(rest) /\ Head(rest) \in Prefixed
    <3> HIDE DEF rest
    <3>1. rest # <<>>
      BY <1>6, <2>1 DEF NeedsEnglishConsolidation, WithoutLocalePrefix, LocaleFromPathname
    <3>2. Head(rest) \in Prefixed
      BY <2>2, <3>1 DEF Plain
    <3> QED BY <3>1, <3>2, Languages DEF WithoutLocalePrefix, LocaleFromPathname
  <2>4. PICK m \in 1..Len(url.path) :
           /\ url.path[m] \in Prefixed /\ \A j \in 1..(m - 1) : url.path[j] \notin Prefixed
           /\ rest = SubSeq(url.path, m, Len(url.path))
    <3>1. CASE NeedsEnglishConsolidation(url.path)
      <4>1. rest = EnglishOwnerOf(url.path)
        BY <3>1
      <4> HIDE DEF rest
      <4> QED BY <1>1, <2>3, <4>1, OwnerIsTheRest
    <3>2. CASE ~NeedsEnglishConsolidation(url.path)
      <4>1. rest = url.path
        BY <3>2
      <4> HIDE DEF rest
      <4>2. 1 \in 1..Len(url.path) /\ url.path[1] = Head(url.path)
            /\ url.path = SubSeq(url.path, 1, Len(url.path))
        BY <1>1, <2>3, <4>1
      <4> QED BY <2>3, <4>1, <4>2
    <3> QED BY <3>1, <3>2
  <2> HIDE DEF own, rest, path
  <2>5. NeedsEnglishConsolidation(Tail(SubSeq(url.path, m, Len(url.path))))
    BY <1>6, <2>1, <2>3, <2>4
  <2> QED BY <1>1, <1>6, <2>4, <2>5, HiddenBehind DEF HidesPrefix
<1> QED BY <1>2, <1>3, <1>4, <1>5, <1>6

\* Rule 2: consolidation, permanent for a retired prefix; English is recorded.
LEMMA Consolidates ==
    ASSUME NEW url \in URL, NEW saved, NEW document \in BOOLEAN, url.hint \notin Locales,
           NeedsEnglishConsolidation(url.path)
    PROVE  Says(RouteFor(url, saved, document), TRUE, English,
                IF document THEN English ELSE NoLocale, Head(url.path) \in Retired, Consolidated(url))
<1>1. Head(url.path) \in {English} \cup Retired /\ url.path # <<>>
  BY DEF NeedsEnglishConsolidation
<1>2. (~IsEnglishAlias(url.path)) = (Head(url.path) \in Retired)
  BY <1>1, Languages DEF IsEnglishAlias
<1>3. DecideRoute(url, saved) =
         Redirect(url, EnglishOwnerOf(url.path), English, url.hint \in Retired, ~IsEnglishAlias(url.path))
  BY DEF DecideRoute
<1>4. [url EXCEPT !.path = EnglishOwnerOf(url.path), !.hint = IF url.hint \in Retired THEN NoLocale ELSE @]
         = Consolidated(url)
  BY Languages DEF Consolidated, URL
<1> QED BY <1>2, <1>3, <1>4 DEF RouteFor, Redirect, Says

\* The language a plain path and a cookie select.
Selected(path, saved) == IF path = <<>> THEN SavedLocale(saved) ELSE Head(path)

\* Rule 3: a retired hint is taken off a plain path.
LEMMA Strips ==
    ASSUME NEW url \in URL, NEW saved, NEW document \in BOOLEAN, url.hint \in Retired,
           ~NeedsEnglishConsolidation(url.path)
    PROVE  LET l == Selected(url.path, saved)
               path == IF url.path = <<>> THEN LocalePath(<<>>, l) ELSE url.path
           IN  /\ l \in Locales
               /\ Says(RouteFor(url, saved, document), TRUE, l,
                       IF document THEN l ELSE NoLocale, FALSE, At(path, url.page))
<1> DEFINE l == Selected(url.path, saved)
           path == IF url.path = <<>> THEN LocalePath(<<>>, l) ELSE url.path
<1>1. url.path \in Seq(Codes) /\ Plain(url.path)
  BY NotConsolidated DEF URL
<1>2. l \in Locales
  BY <1>1, Languages, SavedLocaleType DEF Plain, Selected
<1>3. l = IF LocaleFromPathname(url.path) = NoLocale THEN SavedLocale(saved)
          ELSE LocaleFromPathname(url.path)
  BY <1>1, Languages DEF Plain, Selected, LocaleFromPathname
<1>4. path = LocalePath(WithoutLocalePrefix(url.path), l)
  <2>1. CASE url.path = <<>>
    BY <2>1 DEF WithoutLocalePrefix, LocaleFromPathname
  <2>2. CASE url.path # <<>>
    <3>1. l = Head(url.path) /\ l # English /\ LocaleFromPathname(url.path) = l /\ l # NoLocale
      BY <1>1, <2>2, Languages DEF Plain, Selected, LocaleFromPathname
    <3>2. url.path = <<Head(url.path)>> \o Tail(url.path)
      BY <1>1, <2>2, Paths
    <3> QED BY <2>2, <3>1, <3>2 DEF LocalePath, WithoutLocalePrefix
  <2> QED BY <2>1, <2>2
<1>5. DecideRoute(url, saved) = Redirect(url, path, l, TRUE, FALSE)
  BY <1>3, <1>4, Languages DEF DecideRoute
<1>6. [url EXCEPT !.path = path, !.hint = NoLocale] = At(path, url.page)
  BY Addresses DEF At
<1>7. Says(RouteFor(url, saved, document), TRUE, l,
           IF document THEN l ELSE NoLocale, FALSE, At(path, url.page))
  <2> HIDE DEF path, l
  <2> QED BY <1>5, <1>6 DEF RouteFor, Redirect, Says
<1> QED BY <1>2, <1>7

\* Rules 4 to 6: a final address is served, unless it states no language and
\* the cookie another one than English.
LEMMA Selects ==
    ASSUME NEW url \in URL, NEW saved \in Cookies, NEW document \in BOOLEAN, Final(url)
    PROVE  LET l == Selected(url.path, saved)
           IN  /\ l \in Locales
               /\ Served(url, saved) =>
                    /\ (url.path = <<>> => l = English)
                    /\ Says(RouteFor(url, saved, document), FALSE, l,
                            IF document /\ saved # l THEN l ELSE NoLocale, FALSE, url)
               /\ ~Served(url, saved) =>
                    /\ url.path = <<>> /\ l \in Prefixed /\ saved = l
                    /\ Says(RouteFor(url, saved, document), TRUE, l,
                            IF document THEN l ELSE NoLocale, FALSE, At(<<l>>, url.page))
<1> DEFINE l == Selected(url.path, saved)
<1>1. url.path \in Seq(Codes) /\ Plain(url.path) /\ url.hint \notin Locales /\ url.hint \notin Retired
  BY Languages DEF URL, Final
<1>2. l \in Locales /\ (url.path # <<>> => l \in Prefixed)
  BY <1>1, Languages, SavedLocaleType DEF Plain, Selected
<1>3. ~NeedsEnglishConsolidation(url.path)
  BY <1>1, Languages DEF NeedsEnglishConsolidation, Plain
<1>4. LocaleFromPathname(url.path) = IF url.path = <<>> THEN NoLocale ELSE l
  BY <1>1, <1>2 DEF LocaleFromPathname, Plain, Selected
<1>5. CASE url.path # <<>>
  <2>1. DecideRoute(url, saved) = Serve(url, l, IF saved = l THEN NoLocale ELSE l)
    BY <1>1, <1>2, <1>3, <1>4, <1>5, Languages DEF DecideRoute
  <2>2. Served(url, saved)
    BY <1>5 DEF Served
  <2>3. Says(RouteFor(url, saved, document), FALSE, l,
             IF document /\ saved # l THEN l ELSE NoLocale, FALSE, url)
    <3> HIDE DEF l
    <3> QED BY <2>1 DEF RouteFor, Serve, Says
  <2> QED BY <1>2, <1>5, <2>2, <2>3
<1>6. CASE url.path = <<>> /\ SavedLocale(saved) = English
  <2>1. DecideRoute(url, saved) = Serve(url, English, IF saved = English THEN NoLocale ELSE English)
    BY <1>1, <1>3, <1>4, <1>6 DEF DecideRoute
  <2>2. Served(url, saved) /\ l = English
    BY <1>6 DEF Served, Selected
  <2>3. Says(RouteFor(url, saved, document), FALSE, l,
             IF document /\ saved # l THEN l ELSE NoLocale, FALSE, url)
    <3> HIDE DEF l
    <3> QED BY <2>1, <2>2 DEF RouteFor, Serve, Says
  <2> QED BY <1>2, <1>6, <2>2, <2>3
<1>7. CASE url.path = <<>> /\ SavedLocale(saved) # English
  <2>1. l = SavedLocale(saved) /\ l \in Prefixed /\ saved = l
    BY <1>7, Languages DEF Selected, SavedLocale
  <2>2. ~Served(url, saved)
    BY <1>7 DEF Served
  <2>3. DecideRoute(url, saved) = Redirect(url, LocalePath(<<>>, l), l, FALSE, FALSE)
    BY <1>1, <1>3, <1>4, <1>7, <2>1 DEF DecideRoute
  <2>4. LocalePath(<<>>, l) = <<l>>
    BY <2>1, Languages, PrefixTypes, EmptySeq
  <2>5. Redirect(url, LocalePath(<<>>, l), l, FALSE, FALSE).url = At(<<l>>, url.page)
    <3> HIDE DEF l
    <3>1. [url EXCEPT !.path = <<l>>, !.hint = url.hint] = At(<<l>>, url.page)
      BY Addresses DEF At, Final
    <3>2. [url EXCEPT !.path = <<l>>, !.hint = IF FALSE THEN NoLocale ELSE @]
             = [url EXCEPT !.path = <<l>>, !.hint = url.hint]
      BY DEF URL
    <3> QED BY <2>4, <3>1, <3>2 DEF Redirect
  <2>6. Says(RouteFor(url, saved, document), TRUE, l,
             IF document THEN l ELSE NoLocale, FALSE, At(<<l>>, url.page))
    <3> HIDE DEF l
    <3> QED BY <2>3, <2>4, <2>5 DEF RouteFor, Redirect, Says
  <2> QED BY <1>2, <1>7, <2>1, <2>2, <2>6
<1> QED BY <1>5, <1>6, <1>7

\* One of the rules above applies to every address.
LEMMA EveryRule ==
    ASSUME NEW url \in URL
    PROVE  \/ url.hint \in Locales
           \/ url.hint \notin Locales /\ NeedsEnglishConsolidation(url.path)
           \/ url.hint \in Retired /\ ~NeedsEnglishConsolidation(url.path)
           \/ Final(url)
<1>1. url.hint \in Locales \cup Retired \cup {NoLocale} /\ url.path \in Seq(Codes)
  BY DEF URL, Codes
<1> QED BY <1>1, NotConsolidated DEF Final

\* Plain addresses.
LEMMA PlainAt ==
    ASSUME NEW l \in Locales, NEW page \in Pages
    PROVE  /\ LocalePath(<<>>, l) \in Seq(Codes) /\ Plain(LocalePath(<<>>, l))
           /\ At(LocalePath(<<>>, l), page) \in URL /\ Final(At(LocalePath(<<>>, l), page))
           /\ l \in Prefixed => LocalePath(<<>>, l) = <<l>>
           /\ At(<<l>>, page) \in URL
           /\ l \in Prefixed => Final(At(<<l>>, page)) /\ At(<<l>>, page).path # <<>>
<1>1. <<>> \in Seq(Codes) /\ <<l>> \in Seq(Codes) /\ Head(<<l>>) = l /\ <<l>> # <<>>
  BY Languages
<1>2. LocalePath(<<>>, l) = IF l = English THEN <<>> ELSE <<l>>
  BY <1>1, PrefixTypes
<1>3. Plain(LocalePath(<<>>, l)) /\ (l \in Prefixed => Plain(<<l>>))
  BY <1>1, <1>2, Languages DEF Plain
<1> QED BY <1>1, <1>2, <1>3, Languages DEF At, URL, Final

\* A consolidation leads to a final address.
LEMMA ConsolidatedIsFinal ==
    ASSUME NEW url \in URL
    PROVE  Consolidated(url) \in URL /\ Final(Consolidated(url))
<1>1. url.path \in Seq(Codes)
  BY DEF URL
<1>2. EnglishOwnerOf(url.path) \in Seq(Codes) /\ Plain(EnglishOwnerOf(url.path))
  BY <1>1, OwnerIsPlain
<1>3. Consolidated(url) = [path |-> EnglishOwnerOf(url.path), page |-> url.page, hint |-> NoLocale]
  BY Addresses DEF Consolidated
<1> QED BY <1>2, <1>3 DEF Final, URL

\* Final addresses are not consolidated.
LEMMA FinalStays ==
    ASSUME NEW url \in URL, Final(url)
    PROVE  ~Permanent(url) /\ ~NeedsEnglishConsolidation(url.path)
  BY Languages DEF Final, Plain, Permanent, NeedsEnglishConsolidation

\* The types of an answer; only consolidations are permanent; a request the page
\* made for itself records nothing.
LEMMA Answers ==
    ASSUME NEW url \in URL, NEW saved \in Cookies, NEW document \in BOOLEAN
    PROVE  LET d == RouteFor(url, saved, document)
           IN  /\ d.redirect \in BOOLEAN /\ d.url \in URL /\ d.locale \in Locales
               /\ d.persist \in Locales \cup {NoLocale} /\ d.permanent \in BOOLEAN
               /\ d.permanent => Permanent(url) /\ d.url = Consolidated(url)
               /\ ~document => d.persist = NoLocale
<1> DEFINE d == RouteFor(url, saved, document)
<1>0. url.page \in Pages /\ url.path \in Seq(Codes)
  BY DEF URL
<1>1. CASE url.hint \in Locales
  <2>1. PICK path \in Seq(Codes) :
           Says(d, TRUE, url.hint, IF document THEN url.hint ELSE NoLocale, FALSE, At(path, url.page))
    BY <1>1, Hinted
  <2>2. At(path, url.page) \in URL
    BY <1>0 DEF At, URL
  <2> HIDE DEF d
  <2>3. /\ d.redirect \in BOOLEAN /\ d.url \in URL /\ d.locale \in Locales
        /\ d.persist \in Locales \cup {NoLocale} /\ d.permanent \in BOOLEAN
        /\ ~d.permanent /\ (~document => d.persist = NoLocale)
    BY <1>1, <2>1, <2>2 DEF Says
  <2> QED BY <2>3 DEF d
<1>2. CASE url.hint \notin Locales /\ NeedsEnglishConsolidation(url.path)
  <2>1. Says(d, TRUE, English, IF document THEN English ELSE NoLocale,
             Head(url.path) \in Retired, Consolidated(url))
    BY <1>2, Consolidates
  <2>2. Consolidated(url) \in URL
    BY ConsolidatedIsFinal
  <2>3. url.path # <<>>
    BY <1>2 DEF NeedsEnglishConsolidation
  <2> HIDE DEF d
  <2>4. /\ d.redirect \in BOOLEAN /\ d.url \in URL /\ d.locale \in Locales
        /\ d.persist \in Locales \cup {NoLocale} /\ (~document => d.persist = NoLocale)
        /\ d.url = Consolidated(url)
    BY <2>1, <2>2, Languages DEF Says
  <2>5. d.permanent = (Head(url.path) \in Retired)
    BY <2>1 DEF Says
  <2>6. d.permanent \in BOOLEAN
    <3>1. CASE Head(url.path) \in Retired
      <4>1. (Head(url.path) \in Retired) = TRUE
        BY <3>1, Zenon
      <4>2. d.permanent = TRUE
        BY <2>5, <4>1, Zenon
      <4> QED BY <4>2
    <3>2. CASE Head(url.path) \notin Retired
      <4>1. (Head(url.path) \in Retired) = FALSE
        BY <3>2, SMT
      <4>2. d.permanent = FALSE
        BY <2>5, <4>1, Zenon
      <4> QED BY <4>2
    <3> QED BY <3>1, <3>2
  <2>7. d.permanent => Permanent(url)
    BY <1>2, <2>3, <2>5, Zenon DEF Permanent
  <2> QED BY <2>4, <2>6, <2>7 DEF d
<1>3. CASE url.hint \in Retired /\ ~NeedsEnglishConsolidation(url.path)
  <2> DEFINE l == Selected(url.path, saved)
             path == IF url.path = <<>> THEN LocalePath(<<>>, l) ELSE url.path
  <2>1. l \in Locales /\ Says(d, TRUE, l, IF document THEN l ELSE NoLocale, FALSE, At(path, url.page))
    BY <1>3, Strips
  <2>2. At(path, url.page) \in URL
    <3> HIDE DEF l
    <3> QED BY <1>0, <2>1, PlainAt DEF At, URL
  <2> HIDE DEF d, l, path
  <2>3. /\ d.redirect \in BOOLEAN /\ d.url \in URL /\ d.locale \in Locales
        /\ d.persist \in Locales \cup {NoLocale} /\ d.permanent \in BOOLEAN
        /\ ~d.permanent /\ (~document => d.persist = NoLocale)
    BY <2>1, <2>2 DEF Says
  <2> QED BY <2>3 DEF d
<1>4. CASE Final(url)
  <2> DEFINE l == Selected(url.path, saved)
  <2>1. /\ l \in Locales
        /\ Served(url, saved) =>
              Says(d, FALSE, l, IF document /\ saved # l THEN l ELSE NoLocale, FALSE, url)
        /\ ~Served(url, saved) =>
              Says(d, TRUE, l, IF document THEN l ELSE NoLocale, FALSE, At(<<l>>, url.page))
    BY <1>4, Selects
  <2>2. At(<<l>>, url.page) \in URL
    <3> HIDE DEF l
    <3> QED BY <1>0, <2>1, PlainAt
  <2> HIDE DEF d, l
  <2>3. /\ d.redirect \in BOOLEAN /\ d.url \in URL /\ d.locale \in Locales
        /\ d.persist \in Locales \cup {NoLocale} /\ d.permanent \in BOOLEAN
        /\ ~d.permanent /\ (~document => d.persist = NoLocale)
    BY <2>1, <2>2 DEF Says
  <2> QED BY <2>3 DEF d
<1> QED BY <1>1, <1>2, <1>3, <1>4, EveryRule

-----------------------------------------------------------------------------
(* Redirects. *)

\* The browser's cache sends a navigation on once, and only where the proxy
\* would consolidate.
LEMMA Loading ==
    ASSUME TypeOK, Remembers, NEW asked, NEW url \in URL, NEW document, NEW hops \in Nat,
           NEW answered, NEW jar, Load(asked, url, document, hops, answered, jar)
    PROVE  \/ /\ Permanent(url)
              /\ nav' = [asked |-> asked, url |-> Consolidated(url), document |-> document,
                         saved |-> jar, hops |-> hops + 1, answered |-> answered]
           \/ nav' = [asked |-> asked, url |-> url, document |-> document, saved |-> jar,
                      hops |-> hops, answered |-> answered]
<1> DEFINE known == {c \in cached : c.from = url}
           sent  == IF known = {} THEN url ELSE (CHOOSE c \in known : TRUE).to
<1>1. nav' = [asked |-> asked, url |-> sent, document |-> document, saved |-> jar,
              hops |-> hops + Cardinality(known), answered |-> answered]
  BY DEF Load
<1>2. CASE known = {}
  <2>1. Cardinality(known) = 0
    BY <1>2, FS_EmptySet
  <2> QED BY <1>1, <1>2, <2>1
<1>3. CASE known # {}
  <2>1. PICK c : c \in known
    BY <1>3
  <2>2. \A d \in known : d = [from |-> url, to |-> Consolidated(url)] /\ Permanent(url)
    <3> SUFFICES ASSUME NEW d \in known
                 PROVE  d = [from |-> url, to |-> Consolidated(url)] /\ Permanent(url)
      OBVIOUS
    <3>1. d \in [from : URL, to : URL] /\ d.from = url /\ d.to = Consolidated(d.from) /\ Permanent(d.from)
      BY DEF TypeOK, Remembers
    <3> QED BY <3>1
  <2>3. known = {c}
    BY <2>1, <2>2
  <2> HIDE DEF known
  <2>4. Cardinality(known) = 1 /\ (CHOOSE d \in known : TRUE) = c
    BY <2>3, FS_Singleton
  <2> QED BY <1>1, <1>3, <2>1, <2>2, <2>4
<1> QED BY <1>2, <1>3

\* What the browser sends with the request a redirect leads to.
Kept(persist, saved) == IF persist = NoLocale THEN saved ELSE persist

\* A redirect comes closer to an address that is served: the second leads there.
LEMMA Closer ==
    ASSUME NEW asked \in URL, NEW url \in URL, NEW saved \in Cookies, NEW document \in BOOLEAN,
           NEW hops \in Nat, NEW answered \in Nat, NEW cookies \in Cookies,
           Way(asked, url, saved, document, hops, answered),
           RouteFor(url, saved, document).redirect
    PROVE  LET d == RouteFor(url, saved, document)
               jar == Kept(d.persist, cookies)
           IN  /\ Way(asked, d.url, jar, document, hops + 1, answered + 1)
               /\ Permanent(d.url) => Way(asked, Consolidated(d.url), jar, document, hops + 2, answered + 1)
<1> DEFINE d == RouteFor(url, saved, document)
           jar == Kept(d.persist, cookies)
<1>0. url.page \in Pages /\ url.path \in Seq(Codes) /\ d.url \in URL
  BY Answers DEF URL
<1>1. CASE url.hint \in Locales
  <2>1. PICK path \in Seq(Codes) :
           /\ \/ url.hint # English /\ path # <<>> /\ Head(path) = url.hint
              \/ url.hint = English
           /\ url.hint = English /\ NeedsEnglishConsolidation(path) => HidesPrefix(url)
           /\ Says(d, TRUE, url.hint, IF document THEN url.hint ELSE NoLocale, FALSE, At(path, url.page))
    BY <1>1, Hinted
  <2>2. ~Final(url) /\ ~Served(url, saved) /\ url.hint # NoLocale
    BY <1>1, Languages DEF Final, Served
  <2>3. hops = 0 /\ answered = 0 /\ document /\ url = asked
    BY <2>2 DEF Way
  <2>4. d.url = At(path, url.page) /\ d.url.hint = NoLocale /\ d.url.path = path
    BY <2>1 DEF Says, At
  <2>5. jar = url.hint
    BY <1>1, <2>1, <2>3, Languages DEF Says, Kept
  <2>6. CASE NeedsEnglishConsolidation(d.url.path)
    <3>1. url.hint = English
      BY <1>1, <2>1, <2>4, <2>6, Languages DEF NeedsEnglishConsolidation
    <3>2. HidesPrefix(asked)
      BY <2>1, <2>3, <2>4, <2>6, <3>1
    <3>3. Served(Consolidated(d.url), jar)
      BY <1>0, <2>5, <3>1, ConsolidatedIsFinal, Languages DEF Served, SavedLocale
    <3>4. /\ Way(asked, d.url, jar, document, hops + 1, answered + 1)
          /\ Way(asked, Consolidated(d.url), jar, document, hops + 2, answered + 1)
      <4> HIDE DEF d, jar
      <4> QED BY <2>3, <2>4, <2>6, <3>2, <3>3 DEF Way
    <3> QED BY <3>4
  <2>7. CASE ~NeedsEnglishConsolidation(d.url.path)
    <3>1. Final(d.url)
      BY <2>4, <2>7, NotConsolidated DEF Final
    <3>2. url.hint # English => path # <<>>
      BY <2>1
    <3>3. Served(d.url, jar)
      BY <2>4, <2>5, <3>1, <3>2, Languages DEF Served, SavedLocale
    <3>4. ~Permanent(d.url)
      BY <1>0, <3>1, FinalStays
    <3>5. Way(asked, d.url, jar, document, hops + 1, answered + 1)
      <4> HIDE DEF d, jar
      <4> QED BY <2>3, <3>3 DEF Way
    <3> QED BY <3>4, <3>5
  <2> QED BY <2>6, <2>7
<1>2. CASE url.hint \notin Locales /\ NeedsEnglishConsolidation(url.path)
  <2>1. Says(d, TRUE, English, IF document THEN English ELSE NoLocale,
             Head(url.path) \in Retired, Consolidated(url))
    BY <1>2, Consolidates
  <2>2. ~Final(url) /\ ~Served(url, saved)
    BY <1>2, FinalStays DEF Served
  <2>3. /\ document
        /\ \/ hops = 0 /\ answered = 0
           \/ hops = 1 /\ answered = 1 /\ HidesPrefix(asked)
    BY <2>2 DEF Way
  <2>4. jar = English /\ d.url = Consolidated(url)
    BY <2>1, <2>3, Languages DEF Says, Kept
  <2>5. Final(d.url) /\ Served(d.url, jar)
    BY <2>4, ConsolidatedIsFinal, Languages DEF Served, SavedLocale
  <2>6. ~Permanent(d.url)
    BY <1>0, <2>5, FinalStays
  <2>7. Way(asked, d.url, jar, document, hops + 1, answered + 1)
    <3> HIDE DEF d, jar
    <3> QED BY <2>3, <2>5 DEF Way
  <2> QED BY <2>6, <2>7
<1>3. CASE url.hint \in Retired /\ ~NeedsEnglishConsolidation(url.path)
  <2> DEFINE l == Selected(url.path, saved)
             path == IF url.path = <<>> THEN LocalePath(<<>>, l) ELSE url.path
  <2>1. l \in Locales /\ Says(d, TRUE, l, IF document THEN l ELSE NoLocale, FALSE, At(path, url.page))
    BY <1>3, Strips
  <2>2. Plain(path)
    BY <1>0, <1>3, <2>1, NotConsolidated, PlainAt
  <2>3. d.url = At(path, url.page)
    BY <2>1 DEF Says
  <2> HIDE DEF path
  <2>4. Final(d.url)
    BY <2>2, <2>3 DEF Final, At
  <2>5. ~Permanent(d.url)
    BY <1>0, <2>4, FinalStays
  <2>6. ~Final(url) /\ url.hint # NoLocale
    BY <1>3, Languages DEF Final
  <2>7. document /\ hops = 0 /\ answered = 0
    BY <2>6 DEF Way, Served
  <2>8. jar = l
    <3> HIDE DEF l
    <3> QED BY <2>1, <2>7, Languages DEF Says, Kept
  <2>9. Served(d.url, jar)
    <3>1. CASE url.path = <<>>
      <4>1. path = IF l = English THEN <<>> ELSE <<l>>
        BY <2>1, <3>1, PrefixTypes, EmptySeq DEF path
      <4> HIDE DEF l
      <4> QED BY <2>1, <2>3, <2>4, <2>8, <4>1, Languages DEF Served, SavedLocale, At
    <3>2. CASE url.path # <<>>
      BY <2>3, <2>4, <3>2 DEF Served, At, path
    <3> QED BY <3>1, <3>2
  <2>10. Way(asked, d.url, jar, document, hops + 1, answered + 1)
    <3> HIDE DEF d, jar
    <3> QED BY <2>7, <2>9 DEF Way
  <2> QED BY <2>5, <2>10
<1>4. CASE Final(url)
  <2> DEFINE l == Selected(url.path, saved)
  <2>1. ~Served(url, saved)
    BY <1>4, Selects DEF Says
  <2>2. url.path = <<>> /\ l \in Prefixed /\ d.url = At(<<l>>, url.page)
    BY <1>4, <2>1, Selects DEF Says
  <2>3. Final(d.url) /\ d.url.path # <<>> /\ Served(d.url, jar)
    <3> HIDE DEF l
    <3> QED BY <1>0, <2>2, PlainAt, Languages DEF Served
  <2>4. ~Permanent(d.url)
    BY <1>0, <2>3, FinalStays
  <2>5. answered = 0 /\ (hops = 0 \/ (hops = 1 /\ document))
    BY <1>4, <2>1, <2>2, FinalStays DEF Way
  <2>6. Way(asked, d.url, jar, document, hops + 1, answered + 1)
    <3> HIDE DEF d, jar
    <3> QED BY <2>3, <2>5 DEF Way
  <2> QED BY <2>4, <2>6
<1> QED BY <1>1, <1>2, <1>3, <1>4, EveryRule

\* An address that leads to a language is not answered permanently, and the
\* page it leads to is in it, with the cookie saying so.
LEMMA LeadsOn ==
    ASSUME NEW url \in URL, NEW saved \in Cookies, NEW document \in BOOLEAN, NEW l \in Locales,
           Leads(url, saved, document, l), ~document => SavedLocale(saved) = l
    PROVE  LET d == RouteFor(url, saved, document)
               jar == Kept(d.persist, saved)
           IN  /\ d.redirect => Leads(d.url, jar, document, l)
               /\ ~d.redirect => d.locale = l /\ SavedLocale(jar) = l
<1> DEFINE d == RouteFor(url, saved, document)
           jar == Kept(d.persist, saved)
<1>0. url.page \in Pages /\ url.path \in Seq(Codes) /\ l # NoLocale /\ SavedLocale(l) = l
  BY Languages DEF URL, SavedLocale
<1>a. ASSUME document, d.persist = l PROVE SavedLocale(jar) = l
  BY <1>0, <1>a DEF Kept
<1>b. ASSUME ~document PROVE SavedLocale(jar) = l
  BY <1>b, Answers DEF Kept
<1>c. Leads(At(LocalePath(<<>>, l), url.page), l, document, l)
  <2>1. LocalePath(<<>>, l) = IF l = English THEN <<>> ELSE <<l>>
    BY PrefixTypes, EmptySeq
  <2> QED BY <1>0, <2>1, Languages DEF Leads, At
<1>1. CASE url.hint \in Locales
  <2>1. url.hint = l /\ document /\ Len(url.path) <= 1
    BY <1>1 DEF Leads
  <2>2. Says(d, TRUE, l, l, FALSE, At(LocalePath(<<>>, l), url.page))
    BY <1>1, <2>1, Hinted
  <2>3. jar = l /\ d.redirect /\ d.url = At(LocalePath(<<>>, l), url.page)
    BY <1>0, <2>2 DEF Says, Kept
  <2> QED BY <1>c, <2>3
<1>2. CASE url.hint \notin Locales /\ NeedsEnglishConsolidation(url.path)
  <2>1. url.path = <<English>> /\ l = English /\ document
    BY <1>2, Languages DEF Leads, NeedsEnglishConsolidation
  <2>2. Says(d, TRUE, English, English, Head(url.path) \in Retired, Consolidated(url))
    BY <1>2, <2>1, Consolidates
  <2>3. EnglishOwnerOf(url.path) = <<>>
    <3>1. Len(<<English>>) = 1 /\ Head(<<English>>) = English
      OBVIOUS
    <3> QED BY <1>0, <2>1, <3>1, OwnerIsPlain, Languages
  <2>4. d.redirect /\ jar = l /\ d.url.path = <<>> /\ d.url.hint = NoLocale
    BY <1>0, <2>1, <2>2, <2>3 DEF Says, Kept, Consolidated, URL
  <2> QED BY <1>0, <2>4, Languages DEF Leads
<1>3. CASE url.hint \in Retired /\ ~NeedsEnglishConsolidation(url.path)
  <2>1. \/ url.path = <<l>> /\ l \in Prefixed
        \/ url.path = <<>> /\ SavedLocale(saved) = l
    BY <1>3, Languages DEF Leads, NeedsEnglishConsolidation
  <2>2. l = Selected(url.path, saved)
    BY <2>1 DEF Selected
  <2>3. (IF url.path = <<>> THEN LocalePath(<<>>, l) ELSE url.path) = LocalePath(<<>>, l)
    BY <1>0, <2>1, PlainAt
  <2>4. Says(d, TRUE, l, IF document THEN l ELSE NoLocale, FALSE, At(LocalePath(<<>>, l), url.page))
    BY <1>3, <2>2, <2>3, Strips
  <2>5. d.redirect /\ d.url = At(LocalePath(<<>>, l), url.page) /\ (document => d.persist = l)
    BY <2>4 DEF Says
  <2>6. SavedLocale(jar) = l
    BY <1>a, <1>b, <2>5
  <2>7. LocalePath(<<>>, l) = IF l = English THEN <<>> ELSE <<l>>
    BY PrefixTypes, EmptySeq
  <2>8. Leads(d.url, jar, document, l)
    <3> HIDE DEF jar, d
    <3> QED BY <1>0, <2>5, <2>6, <2>7, Languages DEF Leads, At
  <2> QED BY <2>5, <2>8
<1>4. CASE Final(url)
  <2>0. url.hint \notin Locales
    BY <1>4, Languages DEF Final
  <2>1. \/ url.path = <<l>> /\ l \in Prefixed
        \/ url.path = <<>> /\ SavedLocale(saved) = l
    BY <1>4, <2>0, Languages DEF Leads, Final, Plain
  <2>2. l = Selected(url.path, saved)
    BY <2>1 DEF Selected
  <2>3. CASE Served(url, saved)
    <3>1. Says(d, FALSE, l, IF document /\ saved # l THEN l ELSE NoLocale, FALSE, url)
      BY <1>4, <2>2, <2>3, Selects
    <3>2. ~d.redirect /\ d.locale = l /\ (document => jar = l)
      BY <1>0, <3>1 DEF Says, Kept
    <3>3. SavedLocale(jar) = l
      BY <1>0, <1>b, <3>2
    <3> QED BY <3>2, <3>3
  <2>4. CASE ~Served(url, saved)
    <3>1. l \in Prefixed
          /\ Says(d, TRUE, l, IF document THEN l ELSE NoLocale, FALSE, At(<<l>>, url.page))
      BY <1>4, <2>2, <2>4, Selects
    <3>2. d.redirect /\ d.url = At(<<l>>, url.page)
      BY <3>1 DEF Says
    <3>3. Leads(d.url, jar, document, l)
      <4> HIDE DEF jar, d
      <4> QED BY <1>0, <3>1, <3>2, Languages DEF Leads, At
    <3> QED BY <3>2, <3>3
  <2> QED BY <2>3, <2>4
<1> QED BY <1>1, <1>2, <1>3, <1>4, EveryRule

\* Nor is it answered permanently.
LEMMA LeadsAreKept ==
    ASSUME NEW url \in URL, NEW saved, NEW document, NEW l \in Locales, Leads(url, saved, document, l)
    PROVE  ~Permanent(url)
  BY Languages DEF Leads, Permanent

-----------------------------------------------------------------------------
(* The steps. *)

NavType ==
    [asked : URL, url : URL, document : BOOLEAN, saved : Cookies, hops : Nat, answered : Nat]

\* A navigation and a page are records; none is not.
LEMMA NavFields ==
    ASSUME TypeOK
    PROVE  /\ nav # NoNav => /\ nav \in NavType /\ nav.url \in URL /\ nav.document \in BOOLEAN
                             /\ nav.saved \in Cookies /\ nav.hops \in Nat
                             /\ nav.asked \in URL /\ nav.answered \in Nat
           /\ OnPage => view.page \in Pages /\ view.locale \in Locales
  BY DEF TypeOK, NavType, Cookies, OnPage

\* What a navigation begun or sent on keeps to.
LEMMA Loaded ==
    ASSUME TypeOK, Remembers, NEW asked \in URL, NEW url \in URL, NEW document \in BOOLEAN,
           NEW hops \in Nat, NEW answered \in Nat, NEW jar \in Cookies,
           Load(asked, url, document, hops, answered, jar),
           Way(asked, url, jar, document, hops, answered),
           Permanent(url) => Way(asked, Consolidated(url), jar, document, hops + 1, answered)
    PROVE  /\ nav' \in NavType /\ nav' # NoNav /\ OnItsWay'
           /\ nav'.saved = jar /\ nav'.document = document
           /\ \A l \in Locales :
                 Leads(url, jar, document, l) => Leads(nav'.url, nav'.saved, nav'.document, l)
<1>1. CASE /\ Permanent(url)
           /\ nav' = [asked |-> asked, url |-> Consolidated(url), document |-> document,
                      saved |-> jar, hops |-> hops + 1, answered |-> answered]
  <2>1. /\ nav'.asked = asked /\ nav'.url = Consolidated(url)
        /\ nav'.hops = hops + 1 /\ nav'.answered = answered
        /\ nav'.saved = jar /\ nav'.document = document
    BY <1>1
  <2>2. nav' \in NavType
    BY <1>1, ConsolidatedIsFinal DEF NavType
  <2>3. nav' # NoNav
    BY <2>2, VisitAssumption DEF NavType, Cookies
  <2>4. OnItsWay'
    BY <1>1, <2>1 DEF OnItsWay
  <2>5. \A l \in Locales : ~Leads(url, jar, document, l)
    BY <1>1, LeadsAreKept
  <2> QED BY <2>1, <2>2, <2>3, <2>4, <2>5
<1>2. CASE nav' = [asked |-> asked, url |-> url, document |-> document, saved |-> jar,
                   hops |-> hops, answered |-> answered]
  <2>1. /\ nav'.asked = asked /\ nav'.url = url /\ nav'.hops = hops
        /\ nav'.answered = answered /\ nav'.saved = jar /\ nav'.document = document
    BY <1>2
  <2>2. nav' \in NavType
    BY <1>2 DEF NavType
  <2>3. nav' # NoNav
    BY <2>2, VisitAssumption DEF NavType, Cookies
  <2>4. OnItsWay'
    BY <2>1 DEF OnItsWay
  <2> QED BY <2>1, <2>2, <2>3, <2>4
<1> QED BY <1>1, <1>2, Loading

\* A navigation begins: any address for a document, a plain one for a page's own.
LEMMA Begins ==
    ASSUME TypeOK, Remembers, NEW url \in URL, NEW document \in BOOLEAN, NEW jar \in Cookies,
           document \/ Final(url)
    PROVE  /\ Way(url, url, jar, document, 0, 0)
           /\ Permanent(url) => Way(url, Consolidated(url), jar, document, 0 + 1, 0)
<1>1. Way(url, url, jar, document, 0, 0)
  BY DEF Way
<1>2. ASSUME Permanent(url) PROVE Way(url, Consolidated(url), jar, document, 0 + 1, 0)
  <2>1. document /\ Final(Consolidated(url)) /\ 0 + 1 = 1
    BY <1>2, FinalStays, ConsolidatedIsFinal
  <2> QED BY <2>1 DEF Way
<1> QED BY <1>1, <1>2

\* The first state.
LEMMA InitIInv == Init => IInv
  BY Languages DEF Init, IInv, TypeOK, Remembers, OnItsWay, Bound, PickHolds, OnPage, Cookies

\* A typed address.
LEMMA TypeStep ==
    ASSUME IInv, NEW url \in Typed, Type(url)
    PROVE  IInv'
<1>1. url \in URL /\ cookie \in Cookies /\ TypeOK /\ Remembers
  BY VisitAssumption DEF IInv, TypeOK, Cookies
<1>2. /\ chosen' = Stated(url) /\ Load(url, url, TRUE, 0, 0, cookie)
      /\ UNCHANGED <<cookie, cached, background, view, site>>
  BY DEF Type, Ask
<1>3. /\ nav' \in NavType /\ nav' # NoNav /\ OnItsWay'
      /\ nav'.saved = cookie /\ nav'.document = TRUE
      /\ \A l \in Locales :
            Leads(url, cookie, TRUE, l) => Leads(nav'.url, nav'.saved, nav'.document, l)
  BY <1>1, <1>2, Begins, Loaded
<1>4. /\ chosen' \in Locales \cup {NoLocale}
      /\ chosen' # NoLocale => Leads(url, cookie, TRUE, chosen')
  <2>0. url.path \in Seq(Codes)
    BY <1>1 DEF URL
  <2>1. CASE url.hint \in Locales /\ Len(url.path) <= 1
    BY <1>2, <2>1 DEF Stated, Leads
  <2>2. CASE url.hint \notin Locales /\ Exists(url.path) /\ url.path # <<>>
    <3>1. Head(url.path) \in Prefixed /\ url.path = <<Head(url.path)>>
      BY <2>0, <2>2, Paths DEF Exists
    <3>2. chosen' = Head(url.path)
      BY <1>2, <2>2 DEF Stated
    <3> QED BY <2>2, <3>1, <3>2, Languages DEF Leads
  <2>3. CASE url.hint \notin Locales /\ url.path = <<English>>
    <3>1. Head(<<English>>) = English /\ <<English>> # <<>> /\ ~Exists(<<English>>)
      BY Languages DEF Exists
    <3>2. chosen' = English
      BY <1>2, <2>3, <3>1 DEF Stated
    <3> QED BY <2>3, <3>2, Languages DEF Leads
  <2>4. CASE url.hint \notin Locales /\ url.path = <<>> /\ nav = NoNav
    <3>1. chosen' = chosen
      BY <1>2, <2>4 DEF Stated
    <3>2. chosen # NoLocale => SavedLocale(cookie) = chosen
      BY <2>4 DEF IInv, Bound
    <3> QED BY <2>4, <3>1, <3>2 DEF Leads, IInv, TypeOK
  <2>5. CASE /\ ~(url.hint \in Locales /\ Len(url.path) <= 1)
             /\ ~(url.hint \notin Locales /\ Exists(url.path) /\ url.path # <<>>)
             /\ ~(url.hint \notin Locales /\ url.path = <<English>>)
             /\ ~(url.hint \notin Locales /\ url.path = <<>> /\ nav = NoNav)
    BY <1>2, <2>5 DEF Stated
  <2> QED BY <2>1, <2>2, <2>3, <2>4, <2>5
<1>5. TypeOK'
  BY <1>2, <1>3, <1>4 DEF IInv, TypeOK, NavType, Cookies
<1>6. Remembers'
  BY <1>2 DEF IInv, Remembers
<1>7. Bound'
  BY <1>2, <1>3, <1>4, <1>5, Languages DEF Bound, TypeOK
<1>8. PickHolds'
  BY <1>3 DEF PickHolds
<1> QED BY <1>3, <1>5, <1>6, <1>7, <1>8 DEF IInv

\* A pick.
LEMMA PickStep ==
    ASSUME IInv, NEW l \in Locales, Pick(l)
    PROVE  IInv'
<1> DEFINE url == At(<<l>>, view.page)
<1>1. cookie \in Cookies /\ TypeOK /\ Remembers
  BY DEF IInv, TypeOK, Cookies
<1>2. /\ OnPage /\ chosen' = l /\ Load(url, url, TRUE, 0, 0, cookie)
      /\ UNCHANGED <<cookie, cached, background, view, site>>
  BY DEF Pick, SwitchHref, Ask
<1>3. url \in URL
  BY <1>1, <1>2, NavFields, PlainAt
<1>4. Leads(url, cookie, TRUE, l)
  BY Languages DEF Leads, At
<1> HIDE DEF url
<1>5. /\ nav' \in NavType /\ nav' # NoNav /\ OnItsWay'
      /\ nav'.saved = cookie /\ nav'.document = TRUE
      /\ Leads(nav'.url, nav'.saved, nav'.document, l)
  BY <1>1, <1>2, <1>3, <1>4, Begins, Loaded
<1>6. TypeOK'
  BY <1>2, <1>5 DEF IInv, TypeOK, NavType, Cookies
<1>7. Remembers'
  BY <1>2 DEF IInv, Remembers
<1>8. Bound'
  BY <1>2, <1>5 DEF Bound
<1>9. PickHolds'
  BY <1>5 DEF PickHolds
<1> QED BY <1>5, <1>6, <1>7, <1>8, <1>9 DEF IInv

\* A link of the page on screen.
LEMMA FollowStep ==
    ASSUME IInv, NEW page \in Pages, Follow(page)
    PROVE  IInv'
<1> DEFINE url == LinkTo(page)
<1>1. cookie \in Cookies /\ TypeOK /\ Remembers
  BY DEF IInv, TypeOK, Cookies
<1>2. /\ OnPage /\ nav = NoNav /\ Load(url, url, FALSE, 0, 0, cookie)
      /\ UNCHANGED <<cookie, cached, background, view, chosen, site>>
  BY DEF Follow, Ask
<1>3. view.locale \in Locales
  BY <1>1, <1>2, NavFields
<1>4. url \in URL /\ Final(url)
  BY <1>3, PlainAt DEF LinkTo
<1>5. ASSUME chosen # NoLocale
      PROVE  /\ SavedLocale(cookie) = chosen /\ view.locale = chosen /\ chosen \in Locales
             /\ Leads(url, cookie, FALSE, chosen)
  <2>1. SavedLocale(cookie) = chosen /\ view.locale = chosen /\ chosen \in Locales
    BY <1>2, <1>5 DEF IInv, Bound, PickHolds, TypeOK
  <2>2. LocalePath(<<>>, chosen) = IF chosen = English THEN <<>> ELSE <<chosen>>
    BY <2>1, PrefixTypes, EmptySeq
  <2> QED BY <2>1, <2>2, Languages DEF Leads, LinkTo, At
<1> HIDE DEF url
<1>6. /\ nav' \in NavType /\ nav' # NoNav /\ OnItsWay'
      /\ nav'.saved = cookie /\ nav'.document = FALSE
      /\ \A l \in Locales :
            Leads(url, cookie, FALSE, l) => Leads(nav'.url, nav'.saved, nav'.document, l)
  BY <1>1, <1>2, <1>4, Begins, Loaded
<1>7. TypeOK'
  BY <1>2, <1>6 DEF IInv, TypeOK, NavType, Cookies
<1>8. Remembers'
  BY <1>2 DEF IInv, Remembers
<1>9. Bound'
  BY <1>2, <1>5, <1>6 DEF Bound, OnPage
<1>10. PickHolds'
  BY <1>6 DEF PickHolds
<1> QED BY <1>6, <1>7, <1>8, <1>9, <1>10 DEF IInv

\* Requests in the background write no cookie.
LEMMA BackgroundSteps ==
    ASSUME IInv, \/ \E page \in Pages : Prefetch(page)
                 \/ \E r \in background : AnswerBackground(r)
    PROVE  IInv'
<1>1. /\ UNCHANGED <<cookie, cached, nav, view, chosen, site>>
      /\ background' \subseteq [url : URL, saved : Cookies]
  <2>0. cookie \in Cookies /\ background \subseteq [url : URL, saved : Cookies] /\ TypeOK
    BY DEF IInv, TypeOK, Cookies
  <2>1. ASSUME NEW page \in Pages, Prefetch(page)
        PROVE  /\ UNCHANGED <<cookie, cached, nav, view, chosen, site>>
               /\ background' \subseteq [url : URL, saved : Cookies]
    <3>1. LinkTo(page) \in URL
      BY <2>0, <2>1, NavFields, PlainAt DEF Prefetch, LinkTo
    <3> QED BY <2>0, <2>1, <3>1 DEF Prefetch
  <2>2. ASSUME NEW r \in background, AnswerBackground(r)
        PROVE  /\ UNCHANGED <<cookie, cached, nav, view, chosen, site>>
               /\ background' \subseteq [url : URL, saved : Cookies]
    <3> DEFINE d == RouteFor(r.url, r.saved, FALSE)
    <3>1. d.persist = NoLocale /\ d.url \in URL
      BY <2>0, Answers
    <3>2. /\ cookie' = Stored(d.persist)
          /\ background' = (background \ {r})
                 \cup IF d.redirect THEN {[url |-> d.url, saved |-> cookie']} ELSE {}
          /\ UNCHANGED <<cached, nav, view, chosen, site>>
      BY <2>2 DEF AnswerBackground
    <3> HIDE DEF d
    <3>3. cookie' = cookie
      BY <3>1, <3>2 DEF Stored
    <3> QED BY <2>0, <3>1, <3>2, <3>3
  <2> QED BY <2>1, <2>2
<1>2. TypeOK'
  BY <1>1 DEF IInv, TypeOK, Cookies
<1>3. Remembers' /\ OnItsWay' /\ Bound' /\ PickHolds'
  BY <1>1 DEF IInv, Remembers, OnItsWay, Bound, PickHolds, OnPage
<1> QED BY <1>2, <1>3 DEF IInv

\* Going back, and another tab: no choice binds.
LEMMA UnbindingSteps ==
    ASSUME IInv, Back \/ \E l \in Locales : OtherTab(l)
    PROVE  IInv'
<1>1. /\ UNCHANGED <<cached, nav, site>> /\ chosen' = NoLocale /\ cookie' \in Cookies
      /\ background' \subseteq background
      /\ view' \in [page : Pages, locale : Locales] \cup {NoView}
  BY Languages DEF IInv, TypeOK, Back, OtherTab, Cookies
<1>2. TypeOK'
  BY <1>1 DEF IInv, TypeOK, Cookies
<1>3. Remembers' /\ OnItsWay' /\ Bound' /\ PickHolds'
  BY <1>1 DEF IInv, Remembers, OnItsWay, Bound, PickHolds
<1> QED BY <1>2, <1>3 DEF IInv

\* What the proxy's answer leaves in the cookie.
LEMMA Answered ==
    ASSUME IInv, nav # NoNav, cookie' = Stored(Decision.persist)
    PROVE  /\ nav \in NavType /\ nav.url \in URL /\ nav.document \in BOOLEAN
           /\ nav.saved \in Cookies /\ nav.hops \in Nat
           /\ nav.asked \in URL /\ nav.answered \in Nat
           /\ cookie' \in Cookies /\ cookie' = Kept(Decision.persist, cookie)
           /\ ~nav.document => cookie' = cookie
           /\ Way(nav.asked, nav.url, nav.saved, nav.document, nav.hops, nav.answered)
           /\ Decision.url \in URL /\ Decision.locale \in Locales
           /\ chosen # NoLocale =>
                 /\ chosen \in Locales
                 /\ Decision.redirect => Leads(Decision.url, cookie', nav.document, chosen)
                 /\ ~Decision.redirect => Decision.locale = chosen /\ SavedLocale(cookie') = chosen
                 /\ ~nav.document => SavedLocale(cookie) = chosen /\ OnPage /\ view.locale = chosen
<1>1. /\ nav \in NavType /\ nav.url \in URL /\ nav.document \in BOOLEAN
      /\ nav.saved \in Cookies /\ nav.hops \in Nat /\ cookie \in Cookies
      /\ nav.asked \in URL /\ nav.answered \in Nat
      /\ chosen \in Locales \cup {NoLocale}
  BY NavFields DEF IInv, TypeOK, Cookies
<1>2. /\ Decision.url \in URL /\ Decision.locale \in Locales
      /\ Decision.persist \in Locales \cup {NoLocale}
      /\ ~nav.document => Decision.persist = NoLocale
  BY <1>1, Answers DEF Decision
<1>3. cookie' = Kept(Decision.persist, cookie) /\ cookie' \in Cookies
  BY <1>1, <1>2, Languages DEF Stored, Kept, Cookies
<1>4. ~nav.document => cookie' = cookie
  BY <1>2, <1>3 DEF Kept
<1>5. ASSUME chosen # NoLocale
      PROVE  /\ chosen \in Locales
             /\ Decision.redirect => Leads(Decision.url, cookie', nav.document, chosen)
             /\ ~Decision.redirect => Decision.locale = chosen /\ SavedLocale(cookie') = chosen
             /\ ~nav.document => SavedLocale(cookie) = chosen /\ OnPage /\ view.locale = chosen
  <2>1. /\ nav.saved = cookie /\ Leads(nav.url, nav.saved, nav.document, chosen)
        /\ ~nav.document => SavedLocale(cookie) = chosen /\ OnPage /\ view.locale = chosen
    BY <1>5 DEF IInv, Bound
  <2>2. /\ Decision.redirect =>
              Leads(Decision.url, Kept(Decision.persist, nav.saved), nav.document, chosen)
        /\ ~Decision.redirect => /\ Decision.locale = chosen
                                 /\ SavedLocale(Kept(Decision.persist, nav.saved)) = chosen
    BY <1>1, <1>5, <2>1, LeadsOn DEF Decision
  <2> QED BY <1>1, <1>3, <1>5, <2>1, <2>2
<1>6. Way(nav.asked, nav.url, nav.saved, nav.document, nav.hops, nav.answered)
  BY DEF IInv, OnItsWay
<1> QED BY <1>1, <1>2, <1>3, <1>4, <1>5, <1>6

\* A redirect is followed.
LEMMA AnswerRedirectStep ==
    ASSUME IInv, AnswerRedirect
    PROVE  IInv'
<1>1. /\ nav # NoNav /\ Decision.redirect /\ cookie' = Stored(Decision.persist)
      /\ cached' = IF Decision.permanent
                   THEN cached \cup {[from |-> nav.url, to |-> Decision.url]} ELSE cached
      /\ Load(nav.asked, Decision.url, nav.document, nav.hops + 1, nav.answered + 1, cookie')
      /\ UNCHANGED <<background, view, chosen, site>>
  BY DEF AnswerRedirect
<1>2. /\ nav.url \in URL /\ nav.document \in BOOLEAN /\ nav.saved \in Cookies /\ nav.hops \in Nat
      /\ nav.asked \in URL /\ nav.answered \in Nat
      /\ cookie' \in Cookies /\ cookie' = Kept(Decision.persist, cookie)
      /\ ~nav.document => cookie' = cookie
      /\ Way(nav.asked, nav.url, nav.saved, nav.document, nav.hops, nav.answered) /\ Decision.url \in URL
      /\ chosen # NoLocale =>
            /\ chosen \in Locales
            /\ Leads(Decision.url, cookie', nav.document, chosen)
            /\ ~nav.document => SavedLocale(cookie) = chosen /\ OnPage /\ view.locale = chosen
  BY <1>1, Answered
<1>3. cookie \in Cookies /\ TypeOK /\ Remembers
  BY DEF IInv, TypeOK, Cookies
<1>4. /\ Way(nav.asked, Decision.url, cookie', nav.document, nav.hops + 1, nav.answered + 1)
      /\ Permanent(Decision.url) =>
            Way(nav.asked, Consolidated(Decision.url), cookie', nav.document,
                nav.hops + 2, nav.answered + 1)
  BY <1>1, <1>2, <1>3, Closer DEF Decision
<1>5. nav.hops + 1 \in Nat /\ (nav.hops + 1) + 1 = nav.hops + 2 /\ nav.answered + 1 \in Nat
  BY <1>2
<1>6. /\ nav' \in NavType /\ nav' # NoNav /\ OnItsWay'
      /\ nav'.saved = cookie' /\ nav'.document = nav.document
      /\ \A l \in Locales : Leads(Decision.url, cookie', nav.document, l)
                               => Leads(nav'.url, nav'.saved, nav'.document, l)
  BY <1>1, <1>2, <1>3, <1>4, <1>5, Loaded
<1>7. Decision.permanent => Permanent(nav.url) /\ Decision.url = Consolidated(nav.url)
  BY <1>2, Answers DEF Decision
<1>8. TypeOK'
  BY <1>1, <1>2, <1>6 DEF IInv, TypeOK, NavType, Cookies
<1>9. Remembers'
  BY <1>1, <1>2, <1>7 DEF IInv, Remembers
<1>10. Bound'
  BY <1>1, <1>2, <1>6 DEF Bound, OnPage
<1>11. PickHolds'
  BY <1>6 DEF PickHolds
<1> QED BY <1>6, <1>8, <1>9, <1>10, <1>11 DEF IInv

\* A page is shown.
LEMMA AnswerPageStep ==
    ASSUME IInv, AnswerPage
    PROVE  IInv'
<1>1. /\ nav # NoNav /\ ~Decision.redirect /\ cookie' = Stored(Decision.persist)
      /\ view' = IF Exists(nav.url.path)
                 THEN [page |-> nav.url.page, locale |-> Decision.locale] ELSE NoView
      /\ background' = IF nav.document THEN {} ELSE background
      /\ nav' = NoNav
      /\ UNCHANGED <<cached, chosen, site>>
  BY DEF AnswerPage
<1>2. /\ nav.url.page \in Pages /\ cookie' \in Cookies /\ Decision.locale \in Locales
      /\ chosen # NoLocale => Decision.locale = chosen /\ SavedLocale(cookie') = chosen
  BY <1>1, Answered DEF URL
<1>3. TypeOK'
  BY <1>1, <1>2 DEF IInv, TypeOK, Cookies
<1>4. Remembers' /\ OnItsWay' /\ Bound'
  BY <1>1, <1>2 DEF IInv, Remembers, OnItsWay, Bound
<1>5. PickHolds'
  BY <1>1, <1>2 DEF PickHolds, OnPage
<1> QED BY <1>3, <1>4, <1>5 DEF IInv

\* The document is loaded instead: the page's language was not the chosen one.
LEMMA AnswerOtherLayoutStep ==
    ASSUME IInv, AnswerOtherLayout
    PROVE  IInv'
<1>1. /\ nav # NoNav /\ ~Decision.redirect /\ cookie' = Stored(Decision.persist)
      /\ ~nav.document /\ Decision.locale # view.locale
      /\ Load(nav.asked, nav.url, TRUE, nav.hops, nav.answered, cookie')
      /\ UNCHANGED <<cached, background, view, chosen, site>>
  BY DEF AnswerOtherLayout
<1>2. /\ nav.url \in URL /\ nav.hops \in Nat /\ cookie' \in Cookies
      /\ nav.asked \in URL /\ nav.answered \in Nat
      /\ Way(nav.asked, nav.url, nav.saved, nav.document, nav.hops, nav.answered)
      /\ chosen # NoLocale => Decision.locale = chosen /\ view.locale = chosen
  BY <1>1, Answered
<1>3. chosen = NoLocale
  BY <1>1, <1>2
<1>4. /\ Final(nav.url)
      /\ \/ nav.hops = 0 /\ nav.answered = 0 /\ nav.url = nav.asked
         \/ nav.hops = 1 /\ nav.answered = 1 /\ nav.url.path # <<>>
  BY <1>1, <1>2 DEF Way
<1>5. Way(nav.asked, nav.url, cookie', TRUE, nav.hops, nav.answered) /\ ~Permanent(nav.url)
  BY <1>2, <1>4, FinalStays DEF Way, Served
<1>6. TypeOK /\ Remembers
  BY DEF IInv
<1>7. nav' \in NavType /\ nav' # NoNav /\ OnItsWay'
  BY <1>1, <1>2, <1>5, <1>6, Loaded
<1>8. TypeOK'
  BY <1>1, <1>2, <1>7 DEF IInv, TypeOK, NavType, Cookies
<1>9. Remembers' /\ Bound' /\ PickHolds'
  BY <1>1, <1>3 DEF IInv, Remembers, Bound, PickHolds
<1> QED BY <1>7, <1>8, <1>9 DEF IInv

\* Every step keeps the invariant.
LEMMA NextIInv == IInv /\ [Next]_vars => IInv'
<1> SUFFICES ASSUME IInv, [Next]_vars PROVE IInv'
  OBVIOUS
<1>1. CASE UNCHANGED vars
  BY <1>1 DEF vars, IInv, TypeOK, Remembers, OnItsWay, Bound, PickHolds, OnPage
<1>2. ASSUME NEW url \in Typed, Type(url) PROVE IInv'
  BY <1>2, TypeStep
<1>3. ASSUME NEW l \in Locales, Pick(l) \/ OtherTab(l) PROVE IInv'
  BY <1>3, PickStep, UnbindingSteps
<1>4. ASSUME NEW page \in Pages, Follow(page) \/ Prefetch(page) PROVE IInv'
  BY <1>4, FollowStep, BackgroundSteps
<1>5. ASSUME NEW r \in background, AnswerBackground(r) PROVE IInv'
  BY <1>5, BackgroundSteps
<1>6. CASE Back
  BY <1>6, UnbindingSteps
<1>7. CASE AnswerRedirect \/ AnswerPage \/ AnswerOtherLayout
  BY <1>7, AnswerRedirectStep, AnswerPageStep, AnswerOtherLayoutStep
<1> QED BY <1>1, <1>2, <1>3, <1>4, <1>5, <1>6, <1>7 DEF Next

-----------------------------------------------------------------------------
(* The claims. *)

\* An approved record is the only one of its page and language.
LEMMA ApprovedAlone ==
    ASSUME NEW registry \in Registries,
           NEW r \in ApprovedPromotions(registry), NEW other \in Range(registry),
           other.page = r.page, other.locale = r.locale
    PROVE  other = r
<1> DEFINE twins == Twins(r, registry)
<1>1. ~(Cardinality(twins) > 1)
  <2>1. Reasons(r, registry) = {}
    BY DEF ApprovedPromotions
  <2>2. ~Faults(r, registry)["duplicate_evidence"]
    <3>1. "duplicate_evidence" \in DOMAIN Faults(r, registry)
      BY DEF Faults
    <3> QED BY <2>1, <3>1 DEF Reasons
  <2>3. Faults(r, registry)["duplicate_evidence"] = (Cardinality(twins) > 1)
    BY DEF Faults
  <2> QED BY <2>2, <2>3
<1>2. PICK i \in DOMAIN registry, j \in DOMAIN registry : r = registry[i] /\ other = registry[j]
  BY DEF ApprovedPromotions, Range
<1>3. i \in twins /\ j \in twins
  BY <1>2 DEF Twins
<1>4. IsFiniteSet(twins)
  <2>1. IsFiniteSet(DOMAIN registry)
    <3>1. DOMAIN registry = 1..Len(registry)
      BY RegistriesAreSequences
    <3> QED BY <3>1, FS_Interval
  <2> QED BY <2>1, FS_Subset DEF Twins
<1> HIDE DEF twins
<1>5. i = j
  <2> SUFFICES ASSUME i # j PROVE FALSE
    OBVIOUS
  <2>1. IsFiniteSet({i}) /\ Cardinality({i}) = 1
    BY FS_Singleton
  <2>2. IsFiniteSet({i, j}) /\ Cardinality({i, j}) = 2
    <3>1. {i, j} = {i} \cup {j} /\ j \notin {i}
      OBVIOUS
    <3>2. IsFiniteSet({i} \cup {j}) /\ Cardinality({i} \cup {j}) = 1 + 1
      BY <2>1, <3>1, FS_AddElement
    <3> QED BY <3>1, <3>2
  <2>3. Cardinality({i, j}) <= Cardinality(twins) /\ Cardinality(twins) \in Nat
    BY <1>3, <1>4, FS_Subset, FS_CardinalityType
  <2> QED BY <1>1, <2>2, <2>3
<1> QED BY <1>2, <1>5

\* The address a build declares is its owner's, and the page is whole in it.
LEMMA ClaimHolds ==
    ASSUME NEW registry \in Registries, Builds(registry), NEW page \in Pages, NEW locale \in Locales
    PROVE  LET owner    == CanonicalLocaleFor(page, locale, ApprovedPromotions(registry))
               declared == At(LocalePath(<<>>, owner), page)
               answer   == RouteFor(declared, NoLocale, TRUE)
           IN  /\ ~answer.redirect /\ answer.locale = owner
               /\ PageCopyFor(page, owner, DisplayPromotions(registry)) = {owner}
<1> DEFINE owner == CanonicalLocaleFor(page, locale, ApprovedPromotions(registry))
           declared == At(LocalePath(<<>>, owner), page)
           answer == RouteFor(declared, NoLocale, TRUE)
<1>1. owner \in Locales
  BY Languages DEF CanonicalLocaleFor
<1>2. ~answer.redirect /\ answer.locale = owner
  <2> HIDE DEF owner
  <2>1. declared \in URL /\ Final(declared) /\ declared.path = LocalePath(<<>>, owner)
    BY <1>1, PlainAt DEF At
  <2>2. LocalePath(<<>>, owner) = IF owner = English THEN <<>> ELSE <<owner>>
    BY <1>1, PrefixTypes, EmptySeq
  <2>3. SavedLocale(NoLocale) = English /\ NoLocale \in Cookies /\ TRUE \in BOOLEAN
    BY Languages DEF SavedLocale, Cookies
  <2>4. Served(declared, NoLocale)
    BY <2>1, <2>3 DEF Served
  <2>5. Selected(declared.path, NoLocale) = owner
    BY <2>1, <2>2, <2>3 DEF Selected
  <2> HIDE DEF declared
  <2>6. Says(answer, FALSE, owner, IF TRUE /\ NoLocale # owner THEN owner ELSE NoLocale, FALSE, declared)
    BY <2>1, <2>3, <2>4, <2>5, Selects
  <2> QED BY <2>6 DEF Says
<1>3. PageCopyFor(page, owner, DisplayPromotions(registry)) = {owner}
  <2>1. CASE owner \notin Promotable
    <3>1. ContentLocaleOf(owner) = owner
      BY <1>1, <2>1 DEF ContentLocaleOf, Locales, Prefixed
    <3> QED BY <2>1, <3>1 DEF PageCopyFor
  <2>2. CASE owner \in Promotable
    <3>1. owner = locale /\ IsLocalizedAt(page, owner, ApprovedPromotions(registry))
      BY <2>2, LocalesDistinct DEF CanonicalLocaleFor
    <3> HIDE DEF owner
    <3>2. ContentLocaleOf(owner) # owner
      BY <2>2, LocalesDistinct DEF ContentLocaleOf
    <3>3. PICK r : r \in TranslatedPagesFor(page, owner, ApprovedPromotions(registry))
      BY <3>1, <3>2 DEF IsLocalizedAt, ResolvedContentLocaleOf
    <3>4. /\ r \in ApprovedPromotions(registry) /\ r \in DisplayPromotions(registry)
          /\ IsGenuineTranslation(r) /\ r.page = page /\ r.locale = owner
      BY <3>3 DEF TranslatedPagesFor, ApprovedPromotions, DisplayPromotions
    <3>5. TranslatedPagesFor(page, owner, DisplayPromotions(registry)) = {r}
      <4>1. r \in TranslatedPagesFor(page, owner, DisplayPromotions(registry))
        BY <3>4 DEF TranslatedPagesFor
      <4>2. ASSUME NEW other \in TranslatedPagesFor(page, owner, DisplayPromotions(registry))
            PROVE  other = r
        <5>1. other \in Range(registry) /\ other.page = r.page /\ other.locale = r.locale
          BY <3>4, <4>2 DEF TranslatedPagesFor, DisplayPromotions
        <5> QED BY <3>4, <5>1, ApprovedAlone
      <4> QED BY <4>1, <4>2
    <3>6. page \in Entities /\ Body[page] # {}
      BY <3>4, EvidenceAssumption DEF IsGenuineTranslation
    <3>7. Body[page] \subseteq DOMAIN r.content
      BY <1>1, <2>2, <3>5 DEF Builds, PageCopyThrows
    <3>8. \A f \in Body[page] : f \in DOMAIN r.content /\ r.content[f] = "own"
      BY <3>4, <3>7 DEF IsGenuineTranslation
    <3> HIDE DEF owner
    <3>9. PageCopyFor(page, owner, DisplayPromotions(registry))
             = {IF f \in DOMAIN x.content /\ x.content[f] = "own" THEN owner ELSE English
                   : x \in {r}, f \in Body[page]}
      BY <2>2, <3>5 DEF PageCopyFor
    <3> QED BY <3>6, <3>8, <3>9
  <2> QED BY <2>1, <2>2
<1> QED BY <1>2, <1>3

\* So it is of every site that is deployed.
LEMMA DeployedClaims == TypeOK => ClaimsHonoured
<1> SUFFICES ASSUME TypeOK, NEW page \in Pages, NEW locale \in Locales
             PROVE  LET owner    == site.owner[page][locale]
                        declared == At(LocalePath(<<>>, owner), page)
                        answer   == RouteFor(declared, NoLocale, TRUE)
                    IN  /\ ~answer.redirect /\ answer.locale = owner
                        /\ site.shown[page][owner] = {owner}
  BY DEF ClaimsHonoured
<1>1. PICK registry \in Registries : Builds(registry) /\ site = SiteOf(registry)
  BY DEF TypeOK, Sites
<1> DEFINE owner == CanonicalLocaleFor(page, locale, ApprovedPromotions(registry))
<1>2. owner \in Locales
  BY Languages DEF CanonicalLocaleFor
<1>3. /\ site.owner[page][locale] = owner
      /\ site.shown[page][owner] = PageCopyFor(page, owner, DisplayPromotions(registry))
  <2> HIDE DEF owner
  <2>1. site.shown[page][owner] = PageCopyFor(page, owner, DisplayPromotions(registry))
    BY <1>1, <1>2 DEF SiteOf
  <2>2. site.owner[page][locale] = CanonicalLocaleFor(page, locale, ApprovedPromotions(registry))
    BY <1>1 DEF SiteOf
  <2> QED BY <2>1, <2>2 DEF owner
<1> QED BY <1>1, <1>3, ClaimHolds

-----------------------------------------------------------------------------
(* The theorems. *)

\* However addresses, links, cached redirects, other tabs and late answers come
\* together, the invariant holds (proxy.ts, locale-routing.ts, site-header.tsx).
THEOREM Invariance == Spec => []IInv
<1> QED BY InitIInv, NextIInv, PTL DEF Spec

\* Every variable keeps its type: the cookie holds a code or nothing, a page on
\* screen is in a locale the site has (locale-routing.ts:63-67).
THEOREM TypeCorrect == Spec => []TypeOK
<1>1. IInv => TypeOK
  BY DEF IInv
<1> QED BY <1>1, Invariance, PTL

\* A visitor who chose a language stays in it (proxy.ts:35-38, locale-routing.ts:235-243).
THEOREM PicksHold == Spec => []PickHolds
<1>1. IInv => PickHolds
  BY DEF IInv
<1> QED BY <1>1, Invariance, PTL

\* No chain of redirects, with any addresses typed: the proxy sends a navigation on
\* once, or twice where rule 1 uncovers a hidden prefix (locale-routing.ts:153-156, 211-256).
THEOREM RedirectsAlwaysEnd == Spec => []RedirectsEnd
<1>1. IInv => RedirectsEnd
  <2> SUFFICES ASSUME IInv, nav # NoNav
               PROVE  /\ nav.answered <= IF HidesPrefix(nav.asked) THEN 2 ELSE 1
                      /\ nav.hops <= 2
    BY DEF RedirectsEnd
  <2> QED BY DEF IInv, OnItsWay, Way
<1> QED BY <1>1, Invariance, PTL

\* Whatever evidence is deployed, an address declared is served in place, whole in
\* the language declared (availability.ts:21-29, translation-evidence.ts, proxy.ts).
THEOREM ClaimsAlwaysHonoured == Spec => []ClaimsHonoured
<1>1. IInv => ClaimsHonoured
  BY DeployedClaims DEF IInv
<1> QED BY <1>1, Invariance, PTL
=============================================================================
