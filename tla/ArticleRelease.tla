---------------------------- MODULE ArticleRelease ----------------------------
(***************************************************************************)
(* From published articles to a candidate of the whole website             *)
(* (console/article_preview.py, website_candidate.py, article_delivery.py, *)
(* the release stores and locale_admin.py).                                *)
(*                                                                         *)
(* A build reads the site, its languages and its articles in three queries *)
(* of their own; people go on writing articles and changing languages      *)
(* between them.  A preview stages the snapshot it read and records it; a  *)
(* candidate reads a snapshot of its own and must find what was reviewed.  *)
(* Left out: previews of a single article, the base tree and the images.   *)
(***************************************************************************)
EXTENDS Naturals, FiniteSets

CONSTANTS
    Language,  \* languages the product supports
    Original,  \* the site's first language
    Story,     \* content keys: what the translations of an article share
    Text,      \* what an article may say
    Build,     \* builds that people start
    NoBuild

ASSUME OriginalAssumption == Original \in Language
ASSUME BuildAssumption == NoBuild \notin Build

VARIABLES
    site,   \* default_locale; rows of site_locale: known, enabled, is_default
    page,   \* articles by language and story
    asked,  \* languages whose creation passed its form: <<source, target>>
    build   \* every build and, once recorded, its release row

releaseVars == <<site, page, asked, build>>
-----------------------------------------------------------------------------
Page == [text : Text, public : BOOLEAN]
NoPage == [public |-> FALSE]
Frozen == [default : Language, languages : SUBSET Language,
           pages : SUBSET (Language \X Story \X Text)]
BuildStep == {"idle", "opened", "languages", "read", "staged", "recorded", "failed"}

ReleaseTypeOK ==
    /\ site \in [default : Language, known : SUBSET Language, enabled : SUBSET Language,
                 flagged : SUBSET Language]
    /\ page \in [Language \X Story -> Page \cup {NoPage}]
    /\ asked \subseteq Language \X Language
    /\ build \in [Build -> [step : BuildStep, reviews : Build \cup {NoBuild}, frozen : Frozen]]

NothingFrozen == [default |-> Original, languages |-> {}, pages |-> {}]
Unbuilt == [step |-> "idle", reviews |-> NoBuild, frozen |-> NothingFrozen]

ReleaseInit ==
    /\ site = [default |-> Original, known |-> {Original}, enabled |-> {Original},
               flagged |-> {Original}]
    /\ page = [at \in Language \X Story |-> NoPage]
    /\ asked = {}
    /\ build = [b \in Build |-> Unbuilt]
-----------------------------------------------------------------------------
\* People write, publish and withdraw articles of the site's languages.
Write(l, s, p) ==
    /\ l \in site.known
    /\ page' = [page EXCEPT ![<<l, s>>] = p]
    /\ UNCHANGED <<site, asked, build>>

\* The form of a new language offers those the site does not have yet.
AskLanguage(source, target) ==
    /\ source \in site.enabled /\ target \notin site.known
    /\ asked' = asked \cup {<<source, target>>}
    /\ UNCHANGED <<site, page, build>>

\* Every article of the source is cloned over the target's, published ones as
\* published; the row is made or overwritten: enabled and not the default.
CreateLanguage(source, target) ==
    /\ <<source, target>> \in asked
    /\ asked' = asked \ {<<source, target>>}
    /\ IF source \in site.enabled
       THEN /\ site' = [site EXCEPT !.known = @ \cup {target}, !.enabled = @ \cup {target},
                                    !.flagged = @ \ {target}]
            /\ page' = [at \in Language \X Story |->
                  IF at[1] = target /\ page[<<source, at[2]>>] # NoPage
                  THEN page[<<source, at[2]>>] ELSE page[at]]
       ELSE UNCHANGED <<site, page>>
    /\ UNCHANGED build

MakeDefault(l) ==
    /\ l \in site.known
    /\ site' = [site EXCEPT !.default = l, !.enabled = @ \cup {l}, !.flagged = {l}]
    /\ UNCHANGED <<page, asked, build>>

EnableLanguage(l) ==
    /\ l \in site.known \ site.enabled
    /\ site' = [site EXCEPT !.enabled = @ \cup {l}]
    /\ UNCHANGED <<page, asked, build>>

DisableLanguage(l) ==
    /\ l \in site.enabled \ site.flagged
    /\ Cardinality(site.enabled) > 1
    /\ site' = [site EXCEPT !.enabled = @ \ {l}]
    /\ UNCHANGED <<page, asked, build>>
-----------------------------------------------------------------------------
\* Stories that lack one of the languages.
Untranslated(f) ==
    {s \in Story : (\E p \in f.pages : p[2] = s) /\ (\E l \in f.languages :
                       \A p \in f.pages : ~(p[1] = l /\ p[2] = s))}

\* build_article_release accepts the snapshot.
Deliverable(f) ==
    /\ f.default \in f.languages
    /\ \A p \in f.pages : p[1] \in f.languages

\* Mutant of Acceptable: the record shows that somebody has looked at it.
AcceptableMutant(b, f) == build[b].reviews # NoBuild => Untranslated(f) = {}

\* A candidate needs the very snapshot that was reviewed, wholly translated.
Acceptable(b, f) ==
    build[b].reviews # NoBuild
        => f = build[build[b].reviews].frozen /\ Untranslated(f) = {}

IsPreview(b) == build[b].step = "recorded" /\ build[b].reviews = NoBuild

\* The request has its site; a candidate has found the preview it names.
OpenBuild(b, reviews) ==
    /\ build[b].step = "idle"
    /\ reviews # NoBuild => IsPreview(reviews)
    /\ build' = [build EXCEPT ![b] = [step |-> "opened", reviews |-> reviews,
                                      frozen |-> [NothingFrozen EXCEPT !.default = site.default]]]
    /\ UNCHANGED <<site, page, asked>>

ReadLanguages(b) ==
    /\ build[b].step = "opened"
    /\ build' = [build EXCEPT ![b].step = "languages", ![b].frozen.languages = site.enabled]
    /\ UNCHANGED <<site, page, asked>>

PublishedPages ==
    {p \in site.enabled \X Story \X Text :
        page[<<p[1], p[2]>>].public /\ page[<<p[1], p[2]>>].text = p[3]}

ReadPages(b) ==
    /\ build[b].step = "languages"
    /\ LET f == [build[b].frozen EXCEPT !.pages = PublishedPages]
       IN  build' = [build EXCEPT ![b].frozen = f,
               ![b].step = IF Deliverable(f) /\ Acceptable(b, f) THEN "read" ELSE "failed"]
    /\ UNCHANGED <<site, page, asked>>

\* The store keeps the version under the digest of what is in it.
Stage(b) ==
    /\ build[b].step = "read"
    /\ build' = [build EXCEPT ![b].step = "staged"]
    /\ UNCHANGED <<site, page, asked>>

RecordBuild(b) ==
    /\ build[b].step = "staged"
    /\ build' = [build EXCEPT ![b].step = "recorded"]
    /\ UNCHANGED <<site, page, asked>>

\* An error of the store, or the end of the process.
FailBuild(b) ==
    /\ build[b].step \in {"opened", "languages", "read", "staged"}
    /\ build' = [build EXCEPT ![b] = [Unbuilt EXCEPT !.step = "failed"]]
    /\ UNCHANGED <<site, page, asked>>

ReleaseNext ==
    \/ \E l \in Language :
          \/ \E s \in Story, p \in Page : Write(l, s, p)
          \/ \E target \in Language : AskLanguage(l, target) \/ CreateLanguage(l, target)
          \/ MakeDefault(l) \/ EnableLanguage(l) \/ DisableLanguage(l)
    \/ \E b \in Build :
          \/ \E r \in Build \cup {NoBuild} : OpenBuild(b, r)
          \/ ReadLanguages(b) \/ ReadPages(b) \/ Stage(b) \/ RecordBuild(b) \/ FailBuild(b)

ReleaseSpec == ReleaseInit /\ [][ReleaseNext]_releaseVars
-----------------------------------------------------------------------------
\* What a recorded candidate of the website holds is exactly what the preview it
\* names showed; it serves the default language and lacks no translation, however
\* articles and languages change while it is read (_build_website_candidate).
CandidateIsReviewed ==
    \A b \in Build : build[b].step = "recorded" /\ build[b].reviews # NoBuild =>
        LET f == build[b].frozen IN
        /\ IsPreview(build[b].reviews) /\ build[build[b].reviews].frozen = f
        /\ f.default \in f.languages /\ Untranslated(f) = {}
=============================================================================
