SPECIFICATION Spec
CONSTANTS
    en = en
    zh = zh
    de = de
    es = es
    pt = pt
    product = product
    about = about
    headline = headline
    faqs = faqs
    translator = translator
    signer = signer
    English = en
    Retired = {pt}
    NoLocale = NoLocale
    Pages = {product, about}
    Modelled = {zh}
    Promotable = {de, es}
    Entities = {product}
    Body <- BodyOf
    NoName = NoName
    Registries <- Evidence
    Typed <- Addresses
    NoNav = NoNav
    NoView = NoView
    MaxBackground = 1
CONSTRAINT VisitsOneSite
INVARIANTS
    TypeOK
    PickHolds
    RedirectsEnd
    ClaimsHonoured
