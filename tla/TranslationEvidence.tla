------------------------- MODULE TranslationEvidence -------------------------
(***************************************************************************)
(* Which page is shown, and which may be claimed, in which language:       *)
(* evidence records and their gate (content/translation-evidence.ts), the  *)
(* copy a page renders (translation-availability.ts) and the policy behind *)
(* canonical, hreflang and sitemap (availability.ts).                      *)
(*                                                                         *)
(* A record is written for one page and one locale.  Of a translated text  *)
(* only its kind counts: the locale's own, the English again, or blank.    *)
(***************************************************************************)
EXTENDS SiteLocales, Integers, FiniteSets, Functions

CONSTANTS Entities, \* pages whose body is an entity's record
          Body,     \* body fields each page renders
          NoName    \* a blank name

ASSUME EvidenceAssumption ==
    /\ Entities \subseteq Pages
    /\ \A page \in Entities : Body[page] # {}

-----------------------------------------------------------------------------
(* The gate. *)

\* isGenuineTranslation, for entity pages: no section declares its surface.
IsGenuineTranslation(record) ==
    /\ record.page \in Entities
    /\ record.source # {}
    /\ DOMAIN record.content = record.source
    /\ \A f \in record.source : record.content[f] = "own"

\* The reasons that name a reviewer rather than the copy.
ApprovalOnlyReasons == {"status: draft", "no reviewer", "no review date"}

\* Records written for the same page and language.
Twins(record, registry) ==
    {i \in DOMAIN registry :
        registry[i].page = record.page /\ registry[i].locale = record.locale}

\* evidenceDecisionFor: the reasons that concern the copy and who vouches for it ...
Faults(record, registry) ==
    LET required == Range(record.requiredFields)
    IN  [locale_not_promotable |-> record.locale \notin Promotable,
         path_not_entity       |-> record.page \notin Entities,
         no_translator         |-> record.translatedBy = NoName,
         no_source_revision    |-> ~record.sourceRevision,
         review_date_malformed |-> record.reviewedOn = "malformed",
         self_approved         |-> record.translatedBy # NoName
                                   /\ record.translatedBy = record.reviewedBy,
         no_required_fields    |-> record.requiredFields = <<>>,
         required_twice        |-> ~IsInjective(record.requiredFields),
         content_not_required  |-> DOMAIN record.content # required,
         source_not_required   |-> record.source # required,
         duplicate_evidence    |-> Cardinality(Twins(record, registry)) > 1,
         copy_not_translated   |-> record.locale \in Promotable
                                   /\ record.page \in Entities
                                   /\ ~IsGenuineTranslation(record)]

\* ... and every reason to refuse a record of the registry.
Reasons(record, registry) ==
    LET faults == Faults(record, registry)
    IN  {f \in DOMAIN faults : faults[f]}
        \cup (IF record.status = "approved" THEN {} ELSE {"status: " \o record.status})
        \cup (IF record.reviewedBy = NoName THEN {"no reviewer"} ELSE {})
        \cup (IF record.reviewedOn = "blank" THEN {"no review date"} ELSE {})

\* Approved records move the claims ...
ApprovedPromotions(registry) ==
    {r \in Range(registry) : Reasons(r, registry) = {}}

\* ... complete ones that only wait for a signature are shown as well.
DisplayPromotions(registry) ==
    {r \in Range(registry) : Reasons(r, registry) \subseteq ApprovalOnlyReasons}

-----------------------------------------------------------------------------
(* Rendering and claims. *)

TranslatedPagesFor(page, locale, promotions) ==
    {r \in promotions : IsGenuineTranslation(r) /\ r.page = page /\ r.locale = locale}

ResolvedContentLocaleOf(page, locale, promotions) ==
    IF TranslatedPagesFor(page, locale, promotions) # {} THEN locale
    ELSE ContentLocaleOf(locale)

IsLocalizedAt(page, locale, promotions) ==
    ResolvedContentLocaleOf(page, locale, promotions) = locale

\* canonical, x-default and the sitemap's entries name the owner's address.
CanonicalLocaleFor(page, locale, promotions) ==
    IF IsLocalizedAt(page, locale, promotions) THEN locale ELSE English

\* Mutant: a field the promotion lacks is left as it is.
PageCopyNeverThrows(page, locale, promotions) == FALSE

\* pageCopyFor throws, and the build stops, when a promotion lacks a field.
PageCopyThrows(page, locale, promotions) ==
    \E r \in TranslatedPagesFor(page, locale, promotions) :
        locale \in Promotable /\ ~(Body[page] \subseteq DOMAIN r.content)

\* The languages of the body text a page shows.
PageCopyFor(page, locale, promotions) ==
    LET translated == TranslatedPagesFor(page, locale, promotions)
        Shown(r, f) == IF f \in DOMAIN r.content /\ r.content[f] = "own" THEN locale ELSE English
    IN  IF locale \in Promotable /\ translated # {}
        THEN {Shown(r, f) : r \in translated, f \in Body[page]}
        ELSE {ContentLocaleOf(locale)}

Builds(registry) ==
    \A page \in Pages, locale \in Locales :
        ~PageCopyThrows(page, locale, DisplayPromotions(registry))

\* What the deployed site claims, and what it shows.
SiteOf(registry) ==
    [owner |-> [page \in Pages |-> [locale \in Locales |->
                    CanonicalLocaleFor(page, locale, ApprovedPromotions(registry))]],
     shown |-> [page \in Pages |-> [locale \in Locales |->
                    PageCopyFor(page, locale, DisplayPromotions(registry))]]]
=============================================================================
