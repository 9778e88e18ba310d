------------------------------ MODULE MCWebsite ------------------------------
(* An instance of Website for TLC: zh has the content model's copy, de and *)
(* es need evidence.                                                       *)
EXTENDS Website

CONSTANTS en, zh, de, es, pt, product, about, headline, faqs, translator, signer

BodyOf == [page \in Pages |-> {headline, faqs}]

\* Plain addresses, the alias, a retired prefix, hints, and what goes wrong when
\* prefixes and hints are put together by hand.
Addresses ==
    {[path |-> p, page |-> product, hint |-> h] :
        p \in {<<>>, <<de>>, <<pt>>}, h \in {NoLocale, pt}}
    \cup {[path |-> p, page |-> product, hint |-> h] : p \in {<<pt>>, <<zh>>}, h \in {en, de}}
    \cup {At(p, product) : p \in {<<zh>>, <<en>>, <<pt, de>>, <<en, pt>>, <<de, en>>}}
    \cup {[path |-> <<en>>, page |-> product, hint |-> pt]}
    \cup {[path |-> p, page |-> product, hint |-> en] : p \in {<<de, en>>, <<pt, de, pt>>, <<pt, en>>}}

Record(page, locale, status, reviewer, date, required, source, content) ==
    [page |-> page, locale |-> locale, status |-> status, requiredFields |-> required,
     source |-> source, content |-> content, translatedBy |-> translator,
     reviewedBy |-> reviewer, sourceRevision |-> TRUE, reviewedOn |-> date]

Contents == UNION {[fs -> {"own", "english", "blank"}] : fs \in SUBSET {headline, faqs}}

Records ==
    {Record(page, locale, status, reviewer, date, required, source, content) :
        page \in {product, about}, locale \in {zh, de, es}, status \in {"draft", "approved"},
        reviewer \in {signer, translator, NoName}, date \in {"iso", "blank"},
        required \in {<<>>, <<headline>>, <<headline, faqs>>, <<faqs, headline, faqs>>},
        source \in SUBSET {headline, faqs}, content \in Contents}

\* A record as the repository assembles it, once signed.
Signed ==
    Record(product, de, "approved", signer, "iso", <<headline, faqs>>, {headline, faqs},
           [f \in {headline, faqs} |-> "own"])

\* No record, any one, and any one beside a signed one.
Evidence == {<<>>} \cup {<<r>> : r \in Records} \cup {<<r, Signed>> : r \in Records}

\* No action reads the site: visits are explored on one build, the claims of
\* the others are checked before the first request.
Unpromoted == SiteOf(<<>>)

VisitsOneSite == site = Unpromoted \/ (nav = NoNav /\ view = NoView)
=============================================================================
