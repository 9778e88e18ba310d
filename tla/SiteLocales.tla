----------------------------- MODULE SiteLocales -----------------------------
(***************************************************************************)
(* The website's languages (content/company.ts): English, whose addresses  *)
(* carry no prefix, languages the content model holds on every page, and   *)
(* languages that need evidence page by page.                              *)
(***************************************************************************)
EXTENDS Sequences

CONSTANTS English,
          Modelled,   \* other locales the content model carries on every page
          Promotable, \* locales that need evidence
          Pages

ASSUME LocalesDistinct ==
    English \notin Modelled \cup Promotable /\ Modelled \cap Promotable = {}

\* The locales whose addresses carry them as a prefix.
Prefixed == Modelled \cup Promotable

Locales == {English} \cup Prefixed

ContentLocaleOf(locale) == IF locale \in Modelled THEN locale ELSE English

LocalePath(path, locale) == IF locale = English THEN path ELSE <<locale>> \o path
=============================================================================
