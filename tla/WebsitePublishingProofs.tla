---------------------- MODULE WebsitePublishingProofs -----------------------
(***************************************************************************)
(* Proofs about WebsitePublishing, that is about ContentAuthoring,         *)
(* ArticleRelease, PreviewBuild and WebsiteDeployment, one after the       *)
(* other, and that the composition keeps what is proved of each.           *)
(***************************************************************************)
EXTENDS WebsitePublishing, SequenceTheorems, TLAPS
-----------------------------------------------------------------------------
(***************************************************************************)
(* Articles, for any articles, identities and authors                      *)
(* (ArticleEditorForm.save, content_access.py, commit_authorization.py).   *)
(* Inside a transaction an author keeps the rights that were asked for     *)
(* (RightsInv), and the identity about to be given is nobody else's        *)
(* (NamesInv); a request that is still fresh has seen the row as it is     *)
(* (ViewsInv). A row that does not exist has no identity (RowsInv), which  *)
(* a new article needs: it is compared by its absence alone.               *)
(***************************************************************************)
RowsInv == \A a \in Article : article[a].status = "none" => article[a] = NoRow

ViewOf(u) ==
    draft[u].step # "idle" =>
        /\ WellFormed(draft[u].seen, draft[u].wants)
        /\ draft[u].seen.status = "none" => draft[u].seen = NoRow
        /\ draft[u].fresh => draft[u].seen = article[draft[u].on]
ViewsInv == \A u \in Author : ViewOf(u)

RightsInv == \A u \in Author : InTransaction(u) => Needed(draft[u]) \subseteq authority[u]

NameOf(u) ==
    draft[u].step = "named" =>
        /\ GivesIdentity(draft[u])
        /\ Holders(draft[u].wants.identity) \subseteq {draft[u].on}
NamesInv ==
    /\ \A u \in Author : NameOf(u)
    /\ \A u, v \in Author :
          draft[u].step = "named" /\ draft[v].step = "named"
             /\ draft[u].wants.identity = draft[v].wants.identity => u = v

ContentInv == /\ ContentTypeOK /\ RowsInv /\ ViewsInv /\ RightsInv /\ NamesInv
        /\ OneArticlePerIdentity
-----------------------------------------------------------------------------
LEMMA IdleDraft == NoDraft \in Draft /\ NoDraft.step = "idle"
<1>1. (CHOOSE b \in Article : TRUE) \in Article
  BY ArticleAssumption
<1> QED BY <1>1 DEF NoDraft, Draft, NoRow, Row

LEMMA EmptyRow == NoRow \in Row /\ NoRow.status = "none" /\ NoRow.identity = NoIdentity
  BY DEF NoRow, Row

LEMMA InitContentInv == ContentInit => ContentInv
<1> SUFFICES ASSUME ContentInit PROVE ContentInv
  OBVIOUS
<1>1. \A a \in Article : article[a] = NoRow
  BY DEF ContentInit
<1>2. \A u \in Author : draft[u].step = "idle"
  BY IdleDraft DEF ContentInit
<1>3. ContentTypeOK
  BY IdleDraft, EmptyRow DEF ContentInit, ContentTypeOK
<1>4. RowsInv /\ OneArticlePerIdentity
  BY <1>1, EmptyRow DEF RowsInv, OneArticlePerIdentity
<1>5. ViewsInv /\ RightsInv /\ NamesInv
  BY <1>2 DEF ViewsInv, ViewOf, RightsInv, InTransaction, NamesInv, NameOf
<1> QED BY <1>3, <1>4, <1>5 DEF ContentInv

-----------------------------------------------------------------------------
\* One request moves and no article changes: what is said of the others stays.
LEMMA OneRequestMoves ==
  ASSUME ContentInv, NEW u \in Author, NEW d \in Draft, draft' = [draft EXCEPT ![u] = d],
         UNCHANGED <<article, authority>>,
         ViewOf(u)', InTransaction(u)' => Needed(d) \subseteq authority[u], NameOf(u)',
         d.step = "named" => \A v \in Author \ {u} :
             ~(draft[v].step = "named" /\ draft[v].wants.identity = d.wants.identity)
  PROVE  ContentInv'
<1>1. draft'[u] = d /\ \A v \in Author \ {u} : draft'[v] = draft[v]
  BY DEF ContentInv, ContentTypeOK
<1>2. ContentTypeOK'
  BY DEF ContentInv, ContentTypeOK
<1>3. RowsInv' /\ OneArticlePerIdentity'
  BY DEF ContentInv, RowsInv, OneArticlePerIdentity
<1>4. ViewsInv'
  BY <1>1 DEF ContentInv, ViewsInv, ViewOf
<1>5. RightsInv'
  BY <1>1 DEF ContentInv, RightsInv, InTransaction
<1>6. \A v \in Author : NameOf(v)'
  BY <1>1 DEF ContentInv, NamesInv, NameOf, Holders, GivesIdentity
<1>7. NamesInv'
  BY <1>1, <1>6 DEF ContentInv, NamesInv
<1> QED BY <1>2, <1>3, <1>4, <1>5, <1>7 DEF ContentInv

LEMMA CheckKeeps ==
  ASSUME ContentInv, NEW u \in Author, NEW a \in Article, NEW wants \in Row, CheckForm(u, a, wants)
  PROVE  ContentInv'
<1> DEFINE new == [step |-> "checked", on |-> a, seen |-> article[a], wants |-> wants,
                   fresh |-> TRUE]
<1>1. new \in Draft
  BY DEF ContentInv, ContentTypeOK, Draft
<1>2. WellFormed(article[a], wants) /\ draft' = [draft EXCEPT ![u] = new]
      /\ UNCHANGED <<article, authority>>
  BY DEF CheckForm
<1>3. draft'[u] = new
  BY <1>2 DEF ContentInv, ContentTypeOK
<1>4. ViewOf(u)'
  BY <1>2, <1>3 DEF ViewOf, ContentInv, RowsInv
<1>5. ~InTransaction(u)' /\ NameOf(u)'
  BY <1>3 DEF InTransaction, NameOf
<1>6. new.step # "named"
  OBVIOUS
<1> HIDE DEF new
<1> QED BY <1>1, <1>2, <1>4, <1>5, <1>6, OneRequestMoves

LEMMA AuthoriseKeeps ==
  ASSUME ContentInv, NEW u \in Author, Authorise(u)
  PROVE  ContentInv'
<1> DEFINE new == [draft[u] EXCEPT !.step = "authorised"]
<1>1. draft[u] \in Draft /\ new \in Draft
  BY DEF ContentInv, ContentTypeOK, Draft
<1>2. draft[u].step = "checked" /\ draft' = [draft EXCEPT ![u] = new]
      /\ UNCHANGED <<article, authority>> /\ Needed(draft[u]) \subseteq authority[u]
  BY DEF Authorise, Allows
<1>3. /\ draft'[u] = new /\ new.step = "authorised" /\ new.seen = draft[u].seen
      /\ new.wants = draft[u].wants /\ new.on = draft[u].on /\ new.fresh = draft[u].fresh
  BY <1>1, <1>2 DEF ContentInv, ContentTypeOK, Draft
<1> HIDE DEF new
<1>4. ViewOf(u)' /\ NameOf(u)'
  BY <1>2, <1>3 DEF ViewOf, ContentInv, ViewsInv, NameOf
<1>5. Needed(new) \subseteq authority[u]
  BY <1>2, <1>3 DEF Needed
<1> QED BY <1>1, <1>2, <1>3, <1>4, <1>5, OneRequestMoves

LEMMA NameKeeps ==
  ASSUME ContentInv, NEW u \in Author, NameArticle(u)
  PROVE  ContentInv'
<1> DEFINE new == [draft[u] EXCEPT !.step = "named"]
<1>1. draft[u] \in Draft /\ new \in Draft
  BY DEF ContentInv, ContentTypeOK, Draft
<1>2. draft[u].step = "authorised" /\ draft' = [draft EXCEPT ![u] = new]
      /\ UNCHANGED <<article, authority>> /\ GivesIdentity(draft[u]) /\ IdentityFree(u)
      /\ Holders(draft[u].wants.identity) \subseteq {draft[u].on}
  BY DEF NameArticle
<1>3. /\ draft'[u] = new /\ new.step = "named" /\ new.seen = draft[u].seen
      /\ new.wants = draft[u].wants /\ new.on = draft[u].on /\ new.fresh = draft[u].fresh
  BY <1>1, <1>2 DEF ContentInv, ContentTypeOK, Draft
<1> HIDE DEF new
<1>4. ViewOf(u)'
  BY <1>2, <1>3 DEF ViewOf, ContentInv, ViewsInv
<1>5. NameOf(u)'
  BY <1>2, <1>3 DEF NameOf, GivesIdentity, Holders
<1>6. Needed(new) \subseteq authority[u]
  BY <1>2, <1>3 DEF ContentInv, RightsInv, InTransaction, Needed
<1>7. \A v \in Author \ {u} :
         ~(draft[v].step = "named" /\ draft[v].wants.identity = new.wants.identity)
  BY <1>2, <1>3 DEF IdentityFree
<1> QED BY <1>1, <1>2, <1>4, <1>5, <1>6, <1>7, OneRequestMoves

LEMMA AbandonKeeps ==
  ASSUME ContentInv, NEW u \in Author, Abandon(u)
  PROVE  ContentInv'
<1>1. draft' = [draft EXCEPT ![u] = NoDraft] /\ UNCHANGED <<article, authority>>
  BY DEF Abandon
<1>2. draft'[u].step = "idle"
  BY <1>1, IdleDraft DEF ContentInv, ContentTypeOK
<1>3. ViewOf(u)' /\ ~InTransaction(u)' /\ NameOf(u)'
  BY <1>2 DEF ViewOf, InTransaction, NameOf
<1> QED BY <1>1, <1>3, IdleDraft, OneRequestMoves

LEMMA AuthorityKeeps ==
  ASSUME ContentInv, NEW u \in Author, NEW rights \in SUBSET Right, ChangeAuthority(u, rights)
  PROVE  ContentInv'
<1>1. /\ InTransaction(u) => authority[u] \subseteq rights
      /\ authority' = [authority EXCEPT ![u] = rights]
      /\ UNCHANGED <<article, draft>>
  BY DEF ChangeAuthority
<1>2. ContentTypeOK'
  BY <1>1 DEF ContentInv, ContentTypeOK
<1>3. RightsInv'
  BY <1>1 DEF ContentInv, ContentTypeOK, RightsInv, InTransaction
<1>4. RowsInv' /\ OneArticlePerIdentity' /\ ViewsInv'
  BY <1>1 DEF ContentInv, RowsInv, OneArticlePerIdentity, ViewsInv, ViewOf
<1>5. NamesInv'
  BY <1>1 DEF ContentInv, NamesInv, NameOf, Holders
<1> QED BY <1>2, <1>3, <1>4, <1>5 DEF ContentInv

-----------------------------------------------------------------------------
\* What a save finds: the row is the one that was seen, by somebody who may
\* write it.
LEMMA SaveFacts ==
  ASSUME ContentInv, NEW u \in Author, Save(u)
  PROVE  /\ draft[u].step \in {"authorised", "named"} /\ draft[u] \in Draft
         /\ draft[u].seen = article[draft[u].on]
         /\ WellFormed(draft[u].seen, draft[u].wants)
         /\ Needed(draft[u]) \subseteq authority[u]
         /\ article' = [article EXCEPT ![draft[u].on] = draft[u].wants]
         /\ draft'[u].step = "idle" /\ authority' = authority
<1>1. draft[u].step \in {"authorised", "named"} /\ draft[u] \in Draft /\ draft[u].on \in Article
  BY DEF Save, ContentInv, ContentTypeOK, Draft
<1>2. ViewOf(u) /\ Needed(draft[u]) \subseteq authority[u]
  BY <1>1 DEF ContentInv, ViewsInv, RightsInv, InTransaction
<1>3. draft[u].seen = article[draft[u].on]
  BY <1>1, <1>2, EmptyRow DEF Save, StillAsSeen, ViewOf, ContentInv, RowsInv
<1>4. WellFormed(draft[u].seen, draft[u].wants)
  BY <1>1, <1>2 DEF ViewOf
<1>5. draft'[u].step = "idle"
  BY IdleDraft DEF Save
<1> QED BY <1>1, <1>2, <1>3, <1>4, <1>5 DEF Save

\* Whoever else has a request keeps it, no longer fresh if it is about this row.
LEMMA SaveOthers ==
  ASSUME ContentInv, NEW u \in Author, Save(u), NEW v \in Author \ {u}
  PROVE  /\ draft'[v] \in Draft
         /\ draft'[v].step = draft[v].step /\ draft'[v].on = draft[v].on
         /\ draft'[v].seen = draft[v].seen /\ draft'[v].wants = draft[v].wants
         /\ draft'[v].fresh => draft[v].fresh /\ draft[v].on # draft[u].on
<1>1. draft'[v] = [draft[v] EXCEPT !.fresh = draft[v].fresh /\ draft[v].on # draft[u].on]
  BY DEF Save
<1>2. draft[v] \in Draft
  BY DEF ContentInv, ContentTypeOK
<1> QED BY <1>1, <1>2 DEF Draft

\* The identity that is saved was the article's before, or is nobody else's.
LEMMA SavedIdentity ==
  ASSUME ContentInv, NEW u \in Author, Save(u), draft[u].wants.identity # NoIdentity,
         NEW a \in Article, article[a].identity = draft[u].wants.identity
  PROVE  a = draft[u].on
<1>1. CASE draft[u].step = "named"
  BY <1>1 DEF ContentInv, NamesInv, NameOf, Holders
<1>2. CASE draft[u].step # "named"
  <2>1. draft[u].seen.identity # NoIdentity
    BY <1>2 DEF Save, GivesIdentity
  <2>2. article[draft[u].on].identity = draft[u].wants.identity
    BY <2>1, SaveFacts DEF WellFormed
  <2> QED BY <2>1, <2>2, SaveFacts DEF ContentInv, OneArticlePerIdentity, Draft
<1> QED BY <1>1, <1>2

LEMMA SaveKeeps ==
  ASSUME ContentInv, NEW u \in Author, Save(u)
  PROVE  ContentInv'
<1>1. ContentTypeOK'
  <2>1. \A v \in Author : draft'[v] \in Draft
    BY SaveOthers, IdleDraft DEF Save
  <2>2. article' \in [Article -> Row]
    BY SaveFacts DEF ContentInv, ContentTypeOK, Draft
  <2>3. draft' = [v \in Author |-> draft'[v]]
    BY DEF Save
  <2> QED BY <2>1, <2>2, <2>3 DEF Save, ContentInv, ContentTypeOK
<1>2. /\ article'[draft[u].on] = draft[u].wants
      /\ \A a \in Article \ {draft[u].on} : article'[a] = article[a]
  BY SaveFacts DEF ContentInv, ContentTypeOK, Draft
<1>3. RowsInv'
  BY <1>2, SaveFacts DEF ContentInv, RowsInv, WellFormed
<1>4. OneArticlePerIdentity'
  <2> SUFFICES ASSUME NEW a \in Article, NEW b \in Article, a # b,
                      article'[a].identity # NoIdentity,
                      article'[a].identity = article'[b].identity
               PROVE  FALSE
    BY DEF OneArticlePerIdentity
  <2>1. CASE a = draft[u].on
    BY <1>2, <2>1, SavedIdentity
  <2>2. CASE b = draft[u].on
    BY <1>2, <2>2, SavedIdentity
  <2>3. CASE a # draft[u].on /\ b # draft[u].on
    BY <1>2, <2>3 DEF ContentInv, OneArticlePerIdentity
  <2> QED BY <2>1, <2>2, <2>3
<1>5. ViewsInv'
  <2> SUFFICES ASSUME NEW v \in Author, draft'[v].step # "idle" PROVE ViewOf(v)'
    BY DEF ViewsInv, ViewOf
  <2>1. v # u
    BY SaveFacts
  <2>2. draft[v].step # "idle" /\ draft[v] \in Draft
    BY <2>1, SaveOthers DEF ContentInv, ContentTypeOK
  <2>3. draft'[v].fresh => draft[v].seen = article'[draft[v].on]
    BY <1>2, <2>1, <2>2, SaveOthers DEF ContentInv, ViewsInv, ViewOf, Draft
  <2> QED BY <2>1, <2>2, <2>3, SaveOthers DEF ContentInv, ViewsInv, ViewOf
<1>6. RightsInv'
  <2> SUFFICES ASSUME NEW v \in Author, InTransaction(v)' PROVE Needed(draft'[v]) \subseteq authority'[v]
    BY DEF RightsInv
  <2>1. v # u
    BY SaveFacts DEF InTransaction
  <2> QED BY <2>1, SaveOthers, SaveFacts DEF ContentInv, RightsInv, InTransaction, Needed
<1>7. \A v \in Author : NameOf(v)'
  <2> SUFFICES ASSUME NEW v \in Author, draft'[v].step = "named" PROVE NameOf(v)'
    BY DEF NameOf
  <2>1. v # u
    BY SaveFacts
  <2>2. draft[v].step = "named" /\ GivesIdentity(draft[v])
        /\ Holders(draft[v].wants.identity) \subseteq {draft[v].on}
    BY <2>1, SaveOthers DEF ContentInv, NamesInv, NameOf
  <2>3. GivesIdentity(draft'[v])
    BY <2>1, <2>2, SaveOthers DEF GivesIdentity
  <2>4. ASSUME NEW a \in Article, article'[a].identity = draft[v].wants.identity
        PROVE  a = draft[v].on
    <3>1. CASE a # draft[u].on
      BY <1>2, <2>2, <2>4, <3>1 DEF Holders
    <3>2. CASE a = draft[u].on /\ draft[u].step = "named"
      BY <1>2, <2>1, <2>2, <2>4, <3>2 DEF ContentInv, NamesInv
    <3>3. CASE a = draft[u].on /\ draft[u].step # "named"
      <4>1. draft[u].wants.identity = draft[v].wants.identity /\ draft[u].wants.identity # NoIdentity
        BY <1>2, <2>2, <2>4, <3>3 DEF GivesIdentity
      <4>2. article[a].identity = draft[u].wants.identity
        BY <3>3, <4>1, SaveFacts DEF Save, GivesIdentity, WellFormed
      <4> QED BY <2>2, <4>1, <4>2 DEF Holders
    <3> QED BY <3>1, <3>2, <3>3
  <2> QED BY <2>1, <2>3, <2>4, SaveOthers DEF NameOf, Holders
<1>8. NamesInv'
  <2> SUFFICES ASSUME NEW v \in Author, NEW w \in Author, draft'[v].step = "named",
                      draft'[w].step = "named",
                      draft'[v].wants.identity = draft'[w].wants.identity
               PROVE  v = w
    BY <1>7 DEF NamesInv
  <2>1. v # u /\ w # u
    BY SaveFacts
  <2> QED BY <2>1, SaveOthers DEF ContentInv, NamesInv
<1> QED BY <1>1, <1>3, <1>4, <1>5, <1>6, <1>8 DEF ContentInv
-----------------------------------------------------------------------------
LEMMA NextContentInv == ContentInv /\ [ContentNext]_contentVars => ContentInv'
<1> SUFFICES ASSUME ContentInv, [ContentNext]_contentVars PROVE ContentInv'
  OBVIOUS
<1>1. CASE ContentNext
  BY <1>1, CheckKeeps, AuthoriseKeeps, NameKeeps, SaveKeeps, AbandonKeeps, AuthorityKeeps
     DEF ContentNext
<1>2. CASE UNCHANGED contentVars
  BY <1>2 DEF contentVars, ContentInv, ContentTypeOK, RowsInv, ViewsInv, ViewOf, RightsInv,
     InTransaction, NamesInv, NameOf, Holders, OneArticlePerIdentity
<1> QED BY <1>1, <1>2

\* The invariant holds of every behaviour.
THEOREM ContentInvariant == ContentSpec => []ContentInv
  BY InitContentInv, NextContentInv, PTL DEF ContentSpec

\* The variables have their types, for any articles and authors.
THEOREM ContentTypesHold == ContentSpec => []ContentTypeOK
<1>1. ContentInv => ContentTypeOK
  BY DEF ContentInv
<1> QED BY <1>1, ContentInvariant, PTL

\* However many authors and importers save at once, two articles of a language
\* never get one identity (the advisory lock of ArticleEditorForm.save).
THEOREM IdentitiesStayApart == ContentSpec => []OneArticlePerIdentity
<1>1. ContentInv => OneArticlePerIdentity
  BY DEF ContentInv
<1> QED BY <1>1, ContentInvariant, PTL
-----------------------------------------------------------------------------
\* Only a save changes an article.
LEMMA OnlySavesWrite ==
  ASSUME ContentInv, ContentNext, article' # article
  PROVE  \E u \in Author : Save(u)
  BY DEF ContentNext, CheckForm, Authorise, NameArticle, Abandon, ChangeAuthority

Written(a) ==
    article'[a] # article[a] =>
        \E u \in Author :
            /\ draft[u].on = a /\ article'[a] = draft[u].wants
            /\ "write" \in authority[u]
            /\ "published" \in {article[a].status, article'[a].status}
                  => "publish" \in authority[u]

\* Whoever changes an article may do so when it changes, whatever happens to
\* their session and grants after the form was checked (_authorize_article_commit).
THEOREM WritesAreAllowed == ContentSpec => WritersAreAuthorised
<1>1. ContentInv /\ [ContentNext]_contentVars => [\A a \in Article : Written(a)]_contentVars
  <2> SUFFICES ASSUME ContentInv, ContentNext, NEW a \in Article, article'[a] # article[a]
               PROVE  Written(a)
    BY DEF Written
  <2>1. PICK u \in Author : Save(u)
    BY OnlySavesWrite
  <2>2. draft[u].on = a /\ article'[a] = draft[u].wants
    BY <2>1, SaveFacts DEF ContentInv, ContentTypeOK, Draft
  <2>3. draft[u].seen = article[a] /\ Needed(draft[u]) \subseteq authority[u]
    BY <2>1, <2>2, SaveFacts
  <2> QED BY <2>2, <2>3 DEF Written, Needed
<1>2. [][\A a \in Article : Written(a)]_contentVars <=> WritersAreAuthorised
  BY PTL DEF WritersAreAuthorised, Written
<1> QED BY <1>1, <1>2, ContentInvariant, PTL DEF ContentSpec

\* A request that saves has seen the row it replaces (validate_current_content_write).
THEOREM NothingIsLost == ContentSpec => NothingOverwritten
<1> DEFINE Kept == \A u \in Author :
             draft[u].step # "idle" /\ article' # article /\ draft'[u].step = "idle"
                => draft[u].seen = article[draft[u].on]
<1>1. ContentInv /\ [ContentNext]_contentVars => [Kept]_contentVars
  <2> SUFFICES ASSUME ContentInv, ContentNext, NEW u \in Author, draft[u].step # "idle",
                      article' # article, draft'[u].step = "idle"
               PROVE  draft[u].seen = article[draft[u].on]
    OBVIOUS
  <2>1. PICK v \in Author : Save(v)
    BY OnlySavesWrite
  <2>2. u = v
    BY <2>1, SaveOthers
  <2> QED BY <2>1, <2>2, SaveFacts
<1>2. [][Kept]_contentVars <=> NothingOverwritten
  BY PTL DEF NothingOverwritten
<1> QED BY <1>1, <1>2, ContentInvariant, PTL DEF ContentSpec

\* Both: an article is written by somebody who may, over what they have read.
THEOREM ArticlesAreSafe == ContentSpec => SavesAreSound
<1>1. WritersAreAuthorised /\ NothingOverwritten => SavesAreSound
  BY DEF SavesAreSound
<1> QED BY <1>1, WritesAreAllowed, NothingIsLost, PTL
-----------------------------------------------------------------------------
(***************************************************************************)
(* Candidates of the website, for any languages, sources and builds. Once  *)
(* the build of a candidate has accepted what the preview holds, both stay *)
(* as they are until the candidate is recorded (CandidateInv).             *)
(***************************************************************************)
Accepted == {"read", "staged", "recorded"}

\* A candidate has found the preview it names, and once it was accepted it is
\* what that preview holds.
CandidateInv(b) ==
    LET of == build[b].reviews IN
    of # NoBuild =>
        /\ build[b].step \in {"opened", "languages"} \cup Accepted => IsPreview(of)
        /\ build[b].step \in Accepted =>
              /\ build[of].frozen = build[b].frozen
              /\ build[b].frozen.default \in build[b].frozen.languages
              /\ Untranslated(build[b].frozen) = {}

ReleaseInv == ReleaseTypeOK /\ \A b \in Build : CandidateInv(b)

BuildRecord == [step : BuildStep, reviews : Build \cup {NoBuild}, frozen : Frozen]

LEMMA UnbuiltIs == NothingFrozen \in Frozen /\ Unbuilt \in BuildRecord
BY OriginalAssumption DEF NothingFrozen, Frozen, Unbuilt, BuildRecord, BuildStep

LEMMA InitReleaseInv == ReleaseInit => ReleaseInv
<1> SUFFICES ASSUME ReleaseInit PROVE ReleaseInv
    OBVIOUS
<1>1. ReleaseTypeOK
  BY UnbuiltIs, OriginalAssumption DEF ReleaseInit, ReleaseTypeOK, BuildRecord
<1>2. \A b \in Build : build[b].reviews = NoBuild
  BY DEF ReleaseInit, Unbuilt
<1> QED BY <1>1, <1>2 DEF ReleaseInv, CandidateInv

\* What is recorded stays, so that a step needs to be looked at for its own
\* build alone.
LEMMA BuildMoves ==
  ASSUME ReleaseInv, NEW b \in Build, build[b].step # "recorded",
         NEW row \in BuildRecord, build' = [build EXCEPT ![b] = row],
         UNCHANGED <<site, page, asked>>, CandidateInv(b)'
  PROVE  ReleaseInv'
<1>1. ReleaseTypeOK'
  BY DEF ReleaseInv, ReleaseTypeOK, BuildRecord
<1>2. \A c \in Build : c # b => build'[c] = build[c]
  BY DEF ReleaseInv, ReleaseTypeOK
<1>3. ASSUME NEW c \in Build PROVE CandidateInv(c)'
  <2>1. CASE c = b
    BY <2>1
  <2>2. CASE c # b
    <3>1. build'[c] = build[c] /\ CandidateInv(c) /\ build[c].reviews \in Build \cup {NoBuild}
      BY <1>2, <2>2 DEF ReleaseInv, ReleaseTypeOK
    <3>2. ASSUME build[c].reviews # NoBuild, IsPreview(build[c].reviews)
          PROVE  build'[build[c].reviews] = build[build[c].reviews]
      BY <1>2, <3>1, <3>2 DEF IsPreview
    <3> QED BY <3>1, <3>2 DEF CandidateInv, IsPreview, Accepted, Untranslated
  <2> QED BY <2>1, <2>2
<1> QED BY <1>1, <1>3 DEF ReleaseInv

LEMMA OpenBuildReleaseInv ==
  ASSUME ReleaseInv, NEW b \in Build, NEW r \in Build \cup {NoBuild}, OpenBuild(b, r)
  PROVE  ReleaseInv'
<1> DEFINE row == [step |-> "opened", reviews |-> r,
                   frozen |-> [NothingFrozen EXCEPT !.default = site.default]]
<1>1. /\ build[b].step = "idle" /\ build' = [build EXCEPT ![b] = row]
      /\ UNCHANGED <<site, page, asked>> /\ (r # NoBuild => IsPreview(r))
  BY DEF OpenBuild
<1>2. row \in BuildRecord
  BY UnbuiltIs DEF BuildRecord, BuildStep, Frozen, ReleaseInv, ReleaseTypeOK
<1>3. build'[b] = row
  BY <1>1 DEF ReleaseInv, ReleaseTypeOK
<1>4. r # NoBuild => IsPreview(r)'
  BY <1>1 DEF IsPreview, ReleaseInv, ReleaseTypeOK
<1>5. CandidateInv(b)'
  BY <1>3, <1>4 DEF CandidateInv, Accepted
<1> QED BY <1>1, <1>2, <1>5, BuildMoves

LEMMA PreviewStays ==
  ASSUME ReleaseInv, NEW b \in Build, build[b].step # "recorded",
         \A c \in Build : c # b => build'[c] = build[c],
         NEW c \in Build, IsPreview(c)
  PROVE  IsPreview(c)' /\ build'[c] = build[c]
BY DEF IsPreview

LEMMA ReadLanguagesReleaseInv ==
  ASSUME ReleaseInv, NEW b \in Build, ReadLanguages(b) PROVE ReleaseInv'
<1> DEFINE row == [build[b] EXCEPT !.step = "languages",
                                   !.frozen = [@ EXCEPT !.languages = site.enabled]]
<1>1. build[b].step = "opened" /\ UNCHANGED <<site, page, asked>>
  BY DEF ReadLanguages
<1>2. build[b] \in BuildRecord
  BY DEF BuildRecord, ReleaseInv, ReleaseTypeOK
<1>3. row \in BuildRecord /\ row.step = "languages" /\ row.reviews = build[b].reviews
  BY <1>2 DEF BuildRecord, BuildStep, Frozen, ReleaseInv, ReleaseTypeOK
<1>4. build' = [build EXCEPT ![b] = row]
  BY <1>2 DEF ReadLanguages, BuildRecord, Frozen, ReleaseInv, ReleaseTypeOK
<1>5. build'[b] = row
  BY <1>4 DEF ReleaseInv, ReleaseTypeOK
<1>6. ASSUME NEW of \in Build, of = build[b].reviews PROVE IsPreview(of)'
  <2>1. \A c \in Build : c # b => build'[c] = build[c]
    BY <1>4 DEF ReleaseInv, ReleaseTypeOK
  <2>3. IsPreview(of)
    BY <1>1, <1>6, BuildAssumption DEF ReleaseInv, CandidateInv
  <2> QED BY <1>1, <2>1, <2>3, PreviewStays
<1>7. CandidateInv(b)'
  BY <1>2, <1>3, <1>5, <1>6 DEF CandidateInv, Accepted, BuildRecord
<1> QED BY <1>1, <1>3, <1>4, <1>7, BuildMoves

LEMMA ReadPagesReleaseInv ==
  ASSUME ReleaseInv, NEW b \in Build, ReadPages(b) PROVE ReleaseInv'
<1> DEFINE f == [build[b].frozen EXCEPT !.pages = PublishedPages]
           step == IF Deliverable(f) /\ Acceptable(b, f) THEN "read" ELSE "failed"
           row == [build[b] EXCEPT !.step = step, !.frozen = f]
<1>1. build[b].step = "languages" /\ UNCHANGED <<site, page, asked>>
  BY DEF ReadPages
<1>2. build[b] \in BuildRecord
  BY DEF BuildRecord, ReleaseInv, ReleaseTypeOK
<1>3. PublishedPages \subseteq Language \X Story \X Text
  BY DEF PublishedPages, ReleaseInv, ReleaseTypeOK
<1>4. f \in Frozen
  BY <1>2, <1>3 DEF Frozen, BuildRecord
<1>5. row \in BuildRecord /\ row.step = step /\ row.reviews = build[b].reviews /\ row.frozen = f
  <2> HIDE DEF f
  <2>1. step \in BuildStep
    BY DEF BuildStep
  <2> QED BY <1>2, <1>4, <2>1 DEF BuildRecord
<1>6. build' = [build EXCEPT ![b] = row]
  <2>1. build' = [build EXCEPT ![b].frozen = f, ![b].step = step]
    BY DEF ReadPages
  <2> HIDE DEF f, step
  <2> QED BY <1>2, <2>1 DEF BuildRecord, ReleaseInv, ReleaseTypeOK
<1> HIDE DEF row
<1>7. build'[b] = row
  BY <1>6 DEF ReleaseInv, ReleaseTypeOK
<1>8. ASSUME NEW of \in Build, of = build[b].reviews
      PROVE  IsPreview(of)' /\ build'[of] = build[of]
  <2>1. \A c \in Build : c # b => build'[c] = build[c]
    BY <1>6 DEF ReleaseInv, ReleaseTypeOK
  <2>2. IsPreview(of)
    BY <1>1, <1>8, BuildAssumption DEF ReleaseInv, CandidateInv
  <2>3. build[b].step # "recorded"
    BY <1>1
  <2> QED BY <2>1, <2>2, <2>3, PreviewStays
<1>9. ASSUME build[b].reviews # NoBuild, step = "read"
      PROVE  /\ f = build[build[b].reviews].frozen /\ Untranslated(f) = {}
             /\ f.default \in f.languages
  BY <1>9 DEF Acceptable, Deliverable
<1> HIDE DEF f
<1>10. step \in {"read", "failed"}
  OBVIOUS
<1> HIDE DEF step
<1>11. CandidateInv(b)'
  BY <1>2, <1>5, <1>7, <1>8, <1>9, <1>10 DEF CandidateInv, Accepted, Untranslated, BuildRecord
<1> QED BY <1>1, <1>5, <1>6, <1>11, BuildMoves

\* The steps that follow change nothing of what was accepted.
LEMMA StoredReleaseInv ==
  ASSUME ReleaseInv, NEW b \in Build, Stage(b) \/ RecordBuild(b) PROVE ReleaseInv'
<1>1. PICK step \in {"staged", "recorded"} : build' = [build EXCEPT ![b].step = step]
  BY DEF Stage, RecordBuild
<1>2. build[b].step \in {"read", "staged"} /\ UNCHANGED <<site, page, asked>>
  BY DEF Stage, RecordBuild
<1> DEFINE row == [build[b] EXCEPT !.step = step]
<1>3. build[b] \in BuildRecord
  BY DEF BuildRecord, ReleaseInv, ReleaseTypeOK
<1>4. /\ row \in BuildRecord /\ row.step \in Accepted
      /\ row.reviews = build[b].reviews /\ row.frozen = build[b].frozen
  BY <1>3 DEF BuildRecord, BuildStep, Accepted
<1>5. build' = [build EXCEPT ![b] = row]
  BY <1>1, <1>3 DEF BuildRecord, ReleaseInv, ReleaseTypeOK
<1> HIDE DEF row
<1>6. build'[b] = row
  BY <1>5 DEF ReleaseInv, ReleaseTypeOK
<1>7. ASSUME NEW of \in Build, of = build[b].reviews
      PROVE  IsPreview(of)' /\ build'[of] = build[of]
  <2>1. \A c \in Build : c # b => build'[c] = build[c]
    BY <1>5 DEF ReleaseInv, ReleaseTypeOK
  <2>2. IsPreview(of)
    BY <1>2, <1>7, BuildAssumption DEF ReleaseInv, CandidateInv, Accepted
  <2>3. build[b].step # "recorded"
    BY <1>2
  <2> QED BY <2>1, <2>2, <2>3, PreviewStays
<1>8. CandidateInv(b)'
  BY <1>2, <1>3, <1>4, <1>6, <1>7 DEF ReleaseInv, CandidateInv, Accepted, Untranslated, BuildRecord
<1> QED BY <1>2, <1>4, <1>5, <1>8, BuildMoves

LEMMA FailBuildReleaseInv ==
  ASSUME ReleaseInv, NEW b \in Build, FailBuild(b) PROVE ReleaseInv'
<1> DEFINE row == [Unbuilt EXCEPT !.step = "failed"]
<1>1. row \in BuildRecord /\ row.reviews = NoBuild
  BY UnbuiltIs DEF BuildRecord, BuildStep, Unbuilt
<1>2. /\ build[b].step # "recorded" /\ build' = [build EXCEPT ![b] = row]
      /\ UNCHANGED <<site, page, asked>>
  BY DEF FailBuild
<1>3. build'[b] = row
  BY <1>2 DEF ReleaseInv, ReleaseTypeOK
<1> HIDE DEF row
<1>4. CandidateInv(b)'
  BY <1>1, <1>3 DEF CandidateInv
<1> QED BY <1>1, <1>2, <1>4, BuildMoves

\* What people do to articles and languages reaches no build that was read.
LEMMA PeopleReleaseInv ==
  ASSUME ReleaseInv, ReleaseTypeOK', build' = build PROVE ReleaseInv'
BY DEF ReleaseInv, CandidateInv, IsPreview, Accepted, Untranslated

LEMMA PeopleKeepTypes ==
  ASSUME ReleaseTypeOK, NEW l \in Language,
         \/ \E s \in Story, p \in Page : Write(l, s, p)
         \/ \E target \in Language : AskLanguage(l, target) \/ CreateLanguage(l, target)
         \/ MakeDefault(l) \/ EnableLanguage(l) \/ DisableLanguage(l)
  PROVE  ReleaseTypeOK' /\ build' = build
<1>1. ASSUME NEW s \in Story, NEW p \in Page, Write(l, s, p)
      PROVE  ReleaseTypeOK' /\ build' = build
  BY <1>1 DEF Write, ReleaseTypeOK
<1>2. ASSUME NEW target \in Language, AskLanguage(l, target)
      PROVE  ReleaseTypeOK' /\ build' = build
  BY <1>2 DEF AskLanguage, ReleaseTypeOK
<1>3. ASSUME NEW target \in Language, CreateLanguage(l, target)
      PROVE  ReleaseTypeOK' /\ build' = build
  <2>1. asked' \subseteq Language \X Language /\ build' = build
    BY <1>3 DEF CreateLanguage, ReleaseTypeOK
  <2>2. CASE l \in site.enabled
    <3>1. site' \in [default : Language, known : SUBSET Language,
                     enabled : SUBSET Language, flagged : SUBSET Language]
      <4>1. site' = [site EXCEPT !.known = @ \cup {target}, !.enabled = @ \cup {target},
                                 !.flagged = @ \ {target}]
        BY <1>3, <2>2 DEF CreateLanguage
      <4> QED BY <4>1 DEF ReleaseTypeOK
    <3>2. \A at \in Language \X Story : page[<<l, at[2]>>] \in Page \cup {NoPage}
      BY DEF ReleaseTypeOK
    <3>3. page' \in [Language \X Story -> Page \cup {NoPage}]
      BY <1>3, <2>2, <3>2 DEF CreateLanguage, ReleaseTypeOK
    <3> QED BY <2>1, <3>1, <3>3 DEF ReleaseTypeOK
  <2>3. CASE l \notin site.enabled
    BY <1>3, <2>1, <2>3 DEF CreateLanguage, ReleaseTypeOK
  <2> QED BY <2>2, <2>3
<1>4. CASE MakeDefault(l)
  BY <1>4 DEF MakeDefault, ReleaseTypeOK
<1>5. CASE EnableLanguage(l)
  BY <1>5 DEF EnableLanguage, ReleaseTypeOK
<1>6. CASE DisableLanguage(l)
  BY <1>6 DEF DisableLanguage, ReleaseTypeOK
<1> QED BY <1>1, <1>2, <1>3, <1>4, <1>5, <1>6

LEMMA NextReleaseInv == ReleaseInv /\ [ReleaseNext]_releaseVars => ReleaseInv'
<1> SUFFICES ASSUME ReleaseInv, [ReleaseNext]_releaseVars PROVE ReleaseInv'
    OBVIOUS
<1>1. CASE UNCHANGED releaseVars
  BY <1>1, PeopleReleaseInv DEF releaseVars, ReleaseInv, ReleaseTypeOK
<1>2. ASSUME NEW l \in Language,
             \/ \E s \in Story, p \in Page : Write(l, s, p)
             \/ \E target \in Language : AskLanguage(l, target) \/ CreateLanguage(l, target)
             \/ MakeDefault(l) \/ EnableLanguage(l) \/ DisableLanguage(l)
      PROVE  ReleaseInv'
  BY <1>2, PeopleKeepTypes, PeopleReleaseInv DEF ReleaseInv
<1>3. ASSUME NEW b \in Build,
             \/ \E r \in Build \cup {NoBuild} : OpenBuild(b, r)
             \/ ReadLanguages(b) \/ ReadPages(b) \/ Stage(b) \/ RecordBuild(b) \/ FailBuild(b)
      PROVE  ReleaseInv'
  BY <1>3, OpenBuildReleaseInv, ReadLanguagesReleaseInv, ReadPagesReleaseInv,
     StoredReleaseInv, FailBuildReleaseInv
<1> QED BY <1>1, <1>2, <1>3 DEF ReleaseNext

\* The inductive invariant of the builds.
LEMMA ReleaseInvariantHolds == ReleaseSpec => []ReleaseInv
BY InitReleaseInv, NextReleaseInv, PTL DEF ReleaseSpec

\* A recorded candidate holds exactly what the preview it names showed, serves the
\* default language and lacks no translation, however articles and languages change
\* meanwhile (_build_website_candidate).
THEOREM CandidatesAreReviewed == ReleaseSpec => []CandidateIsReviewed
<1>1. ReleaseInv => CandidateIsReviewed
  BY DEF ReleaseInv, CandidateInv, CandidateIsReviewed, Accepted
<1> QED BY ReleaseInvariantHolds, <1>1, PTL
-----------------------------------------------------------------------------
(***************************************************************************)
(* The local preview, for any builds, articles and images. One build at    *)
(* most is at work, and what it has written under the names it read is     *)
(* still its own, whatever lies beside it (BuildInv).                      *)
(***************************************************************************)
Underway == {"claimed", "writing", "exported", "copying", "astro", "made"}
Complete == {"exported", "copying", "astro", "made"}

\* Everything the build has read and written is still in the snapshot.
SnapshotInv(b) ==
    /\ preview[b].step = "writing" =>
          \A n \in preview[b].names \ preview[b].todo : snapshot[n] = b
    /\ preview[b].step = "writing" \/ preview[b].step \in Complete =>
          "index" \in preview[b].names
    /\ preview[b].step \in Complete =>
          release = "exported" /\ \A n \in preview[b].names : snapshot[n] = b

\* Every image it has copied is still there.
ImageInv(b) ==
    /\ preview[b].step = "copying" =>
          \A i \in Active(preview[b].images) \ preview[b].todo :
              public[i] = preview[b].images[i]
    /\ preview[b].step \in {"astro", "made"} =>
          \A i \in Active(preview[b].images) : public[i] = preview[b].images[i]

BuildInv(b) ==
    /\ preview[b].step \in Underway => b \in running
    /\ SnapshotInv(b) /\ ImageInv(b)
    /\ preview[b].step = "made" => Whole(b)

\* The build that is marked as built has ended, and no other has run Astro since.
BuiltInv == release = "built" =>
    \E b \in Preview : preview[b].step = "finished" /\ Whole(b)

PreviewInv ==
    /\ PreviewTypeOK /\ BuiltInv
    /\ \A b, c \in running : b = c
    /\ \A b \in Preview : BuildInv(b)

\* A build's record, field by field.
LEMMA PreviewFields ==
  ASSUME PreviewTypeOK, NEW b \in Preview
  PROVE  /\ preview[b] \in PreviewRecord
         /\ preview[b].names \subseteq File /\ preview[b].images \in Images
BY DEF PreviewTypeOK, PreviewRecord

LEMMA NothingThere == NoImages \in Images /\ Empty \in Snapshots
BY DEF NoImages, Images, Empty, Snapshots

LEMMA InitPreviewInv == PreviewInit => PreviewInv
<1> SUFFICES ASSUME PreviewInit PROVE PreviewInv
  OBVIOUS
<1>1. [step |-> "idle", todo |-> {}, names |-> {}, images |-> NoImages] \in PreviewRecord
  BY NothingThere DEF PreviewRecord, PreviewStep
<1>2. PreviewTypeOK
  BY <1>1, NothingThere DEF PreviewInit, PreviewTypeOK, Status
<1>3. running = {} /\ release = "none" /\ \A b \in Preview : preview[b].step = "idle"
  BY DEF PreviewInit
<1>4. \A b \in Preview : BuildInv(b)
  BY <1>3 DEF BuildInv, SnapshotInv, ImageInv, Underway, Complete
<1> QED BY <1>2, <1>3, <1>4 DEF PreviewInv, BuiltInv

LEMMA MoveToIs ==
  ASSUME PreviewInv, NEW b \in Preview, NEW step \in PreviewStep, MoveTo(b, step)
  PROVE  /\ preview' \in [Preview -> PreviewRecord]
         /\ preview'[b].step = step /\ preview'[b].todo = preview[b].todo
         /\ preview'[b].names = preview[b].names /\ preview'[b].images = preview[b].images
         /\ \A c \in Preview : c # b => preview'[c] = preview[c]
BY DEF PreviewInv, PreviewTypeOK, PreviewRecord, MoveTo

LEMMA OneAtWork ==
  ASSUME PreviewInv, NEW b \in Preview, preview[b].step \in Underway
  PROVE  /\ running = {b} /\ preview[b].step # "finished"
         /\ \A c \in Preview : c # b => preview[c].step \notin Underway
BY DEF PreviewInv, BuildInv, Underway

\* Of the others none is at work, so a step needs to be looked at for its own
\* build alone.
LEMMA OneMoves ==
  ASSUME PreviewInv, NEW b \in Preview, running \subseteq {b}, running' \subseteq {b},
         \A c \in Preview : c # b =>
             preview[c].step \notin Underway /\ preview'[c] = preview[c],
         PreviewTypeOK', BuiltInv', BuildInv(b)'
  PROVE  PreviewInv'
<1>1. ASSUME NEW c \in Preview PROVE BuildInv(c)'
  <2>1. CASE c = b
    BY <2>1
  <2>2. CASE c # b
    <3>1. preview[c].step \notin Underway /\ preview'[c] = preview[c]
      BY <2>2
    <3> QED BY <3>1 DEF BuildInv, SnapshotInv, ImageInv, Underway, Complete
  <2> QED BY <2>1, <2>2
<1>2. \A c, d \in running' : c = d
  OBVIOUS
<1> QED BY <1>1, <1>2 DEF PreviewInv

\* A preview marked as built stays whole while another build is not yet in Astro.
LEMMA BuiltStays ==
  ASSUME PreviewInv, NEW b \in Preview, preview[b].step # "finished",
         UNCHANGED dist, release' = "built" => release = "built",
         \A c \in Preview : c # b => preview'[c] = preview[c]
  PROVE  BuiltInv'
<1> SUFFICES ASSUME release' = "built"
             PROVE  \E c \in Preview : preview'[c].step = "finished" /\ Whole(c)'
  BY DEF BuiltInv
<1>1. PICK c \in Preview : preview[c].step = "finished" /\ Whole(c)
  BY DEF PreviewInv, BuiltInv
<1>2. preview'[c] = preview[c] /\ dist' = dist
  BY <1>1
<1> QED BY <1>1, <1>2 DEF Whole

LEMMA ClaimPreviewInv ==
  ASSUME PreviewInv, NEW b \in Preview, Claim(b) PROVE PreviewInv'
<1>1. /\ preview[b].step = "idle" /\ running = {} /\ running' = {b}
      /\ UNCHANGED <<snapshot, public, dist>>
      /\ release' = IF release = "none" THEN "draft" ELSE release
  BY DEF Claim, At, SiteFree
<1>2. MoveTo(b, "claimed") /\ "claimed" \in PreviewStep
  BY DEF Claim, PreviewStep
<1>3. \A c \in Preview : preview[c].step \notin Underway
  BY <1>1 DEF PreviewInv, BuildInv
<1>4. PreviewTypeOK'
  BY <1>1, <1>2, MoveToIs DEF PreviewInv, PreviewTypeOK, Status
<1>5. BuiltInv'
  BY <1>1, <1>2, MoveToIs, BuiltStays
<1>6. BuildInv(b)'
  BY <1>1, <1>2, MoveToIs DEF BuildInv, SnapshotInv, ImageInv, Complete
<1> QED BY <1>1, <1>2, <1>3, <1>4, <1>5, <1>6, MoveToIs, OneMoves

LEMMA ReadContentPreviewInv ==
  ASSUME PreviewInv, NEW b \in Preview, ReadContent(b) PROVE PreviewInv'
<1>1. preview[b].step = "claimed" /\ UNCHANGED <<release, running, snapshot, public, dist>>
  BY DEF ReadContent, At
<1>2. PICK names \in SUBSET File :
         /\ "index" \in names
         /\ preview' = [preview EXCEPT ![b] = [step |-> "writing", todo |-> names,
                                              names |-> names, images |-> NoImages]]
  <2>1. PICK slugs \in SUBSET Slug :
           preview' = [preview EXCEPT ![b] =
               [step |-> "writing", todo |-> {"index", "manifest"} \cup slugs,
                names |-> {"index", "manifest"} \cup slugs, images |-> NoImages]]
    BY DEF ReadContent
  <2>2. {"index", "manifest"} \cup slugs \subseteq File
    BY DEF File
  <2> QED BY <2>1, <2>2
<1>3. [step |-> "writing", todo |-> names, names |-> names, images |-> NoImages]
         \in PreviewRecord
  BY <1>2, NothingThere DEF PreviewRecord, PreviewStep
<1>4. /\ preview' \in [Preview -> PreviewRecord] /\ preview'[b].step = "writing"
      /\ preview'[b].names = names /\ preview'[b].todo = names
      /\ \A c \in Preview : c # b => preview'[c] = preview[c]
  BY <1>2, <1>3 DEF PreviewInv, PreviewTypeOK
<1>5. running = {b} /\ \A c \in Preview : c # b => preview[c].step \notin Underway
  BY <1>1, OneAtWork DEF Underway
<1>6. PreviewTypeOK'
  BY <1>1, <1>4 DEF PreviewInv, PreviewTypeOK
<1>7. BuiltInv'
  BY <1>1, <1>4, BuiltStays
<1>8. BuildInv(b)'
  BY <1>1, <1>2, <1>4, <1>5 DEF BuildInv, SnapshotInv, ImageInv, Complete
<1> QED BY <1>1, <1>4, <1>5, <1>6, <1>7, <1>8, OneMoves

LEMMA WriteFilePreviewInv ==
  ASSUME PreviewInv, NEW b \in Preview, WriteFile(b) PROVE PreviewInv'
<1>1. PICK n \in preview[b].todo :
         /\ preview[b].step = "writing"
         /\ preview' = [preview EXCEPT ![b].todo = @ \ {n}]
         /\ snapshot' = [snapshot EXCEPT ![n] = b]
         /\ UNCHANGED <<release, running, public, dist>>
  BY DEF WriteFile, At
<1>2. /\ preview' \in [Preview -> PreviewRecord] /\ preview'[b].step = "writing"
      /\ preview'[b].names = preview[b].names
      /\ preview'[b].todo = preview[b].todo \ {n}
      /\ \A c \in Preview : c # b => preview'[c] = preview[c]
  BY <1>1 DEF PreviewInv, PreviewTypeOK, PreviewRecord
<1>3. /\ snapshot' \in Snapshots
      /\ n \in File => snapshot'[n] = b
      /\ \A m \in File : m # n => snapshot'[m] = snapshot[m]
  BY <1>1 DEF PreviewInv, PreviewTypeOK, Snapshots
<1>4. running = {b} /\ \A c \in Preview : c # b => preview[c].step \notin Underway
  BY <1>1, OneAtWork DEF Underway
<1>5. PreviewTypeOK'
  BY <1>1, <1>2, <1>3 DEF PreviewInv, PreviewTypeOK
<1>6. BuiltInv'
  BY <1>1, <1>2, BuiltStays
<1>7. \A m \in preview'[b].names \ preview'[b].todo : snapshot'[m] = b
  <2>1. preview[b].names \subseteq File
    BY PreviewFields DEF PreviewInv
  <2>2. \A m \in preview[b].names \ preview[b].todo : snapshot[m] = b
    BY <1>1 DEF PreviewInv, BuildInv, SnapshotInv
  <2> QED BY <1>2, <1>3, <2>1, <2>2
<1>8. "index" \in preview'[b].names
  BY <1>1, <1>2 DEF PreviewInv, BuildInv, SnapshotInv
<1>9. BuildInv(b)'
  BY <1>1, <1>2, <1>4, <1>7, <1>8 DEF BuildInv, SnapshotInv, ImageInv, Complete
<1> QED BY <1>1, <1>2, <1>4, <1>5, <1>6, <1>9, OneMoves

LEMMA EndExportPreviewInv ==
  ASSUME PreviewInv, NEW b \in Preview, EndExport(b) PROVE PreviewInv'
<1>1. /\ preview[b].step = "writing" /\ preview[b].todo = {}
      /\ UNCHANGED <<running, snapshot, public, dist>> /\ release' = "exported"
  BY DEF EndExport, At
<1>2. MoveTo(b, "exported") /\ "exported" \in PreviewStep
  BY DEF EndExport, PreviewStep
<1>3. running = {b} /\ \A c \in Preview : c # b => preview[c].step \notin Underway
  BY <1>1, OneAtWork DEF Underway
<1>4. "index" \in preview[b].names /\ \A n \in preview[b].names : snapshot[n] = b
  BY <1>1 DEF PreviewInv, BuildInv, SnapshotInv
<1>5. BuildInv(b)'
  BY <1>1, <1>2, <1>3, <1>4, MoveToIs DEF BuildInv, SnapshotInv, ImageInv
<1>6. PreviewTypeOK'
  BY <1>1, <1>2, MoveToIs DEF PreviewInv, PreviewTypeOK, Status
<1>7. BuiltInv'
  BY <1>1 DEF BuiltInv
<1> QED BY <1>1, <1>2, <1>3, <1>5, <1>6, <1>7, MoveToIs, OneMoves

LEMMA CheckAssetsPreviewInv ==
  ASSUME PreviewInv, NEW b \in Preview, CheckAssets(b) PROVE PreviewInv'
<1>1. preview[b].step = "exported" /\ UNCHANGED <<release, running, snapshot, public, dist>>
  BY DEF CheckAssets, At
<1>2. PICK images \in Images :
         preview' = [preview EXCEPT ![b] =
             [step |-> "copying", todo |-> Active(images),
              names |-> preview[b].names, images |-> images]]
  BY DEF CheckAssets
<1>3. [step |-> "copying", todo |-> Active(images), names |-> preview[b].names,
       images |-> images] \in PreviewRecord
  <2>1. Active(images) \subseteq Image /\ preview[b].names \subseteq File
    BY PreviewFields DEF PreviewInv, Active
  <2> QED BY <2>1 DEF PreviewRecord, PreviewStep
<1>4. /\ preview' \in [Preview -> PreviewRecord] /\ preview'[b].step = "copying"
      /\ preview'[b].names = preview[b].names
      /\ preview'[b].todo = Active(images) /\ preview'[b].images = images
      /\ \A c \in Preview : c # b => preview'[c] = preview[c]
  BY <1>2, <1>3 DEF PreviewInv, PreviewTypeOK
<1>5. running = {b} /\ \A c \in Preview : c # b => preview[c].step \notin Underway
  BY <1>1, OneAtWork DEF Underway
<1>6. SnapshotInv(b)'
  BY <1>1, <1>4 DEF PreviewInv, BuildInv, SnapshotInv, Complete
<1>7. BuildInv(b)'
  BY <1>1, <1>4, <1>5, <1>6 DEF BuildInv, ImageInv
<1>8. PreviewTypeOK'
  BY <1>1, <1>4 DEF PreviewInv, PreviewTypeOK
<1>9. BuiltInv'
  BY <1>1, <1>4, BuiltStays
<1> QED BY <1>1, <1>4, <1>5, <1>7, <1>8, <1>9, OneMoves

LEMMA CopyAssetPreviewInv ==
  ASSUME PreviewInv, NEW b \in Preview, CopyAsset(b) PROVE PreviewInv'
<1>1. PICK i \in preview[b].todo :
         /\ preview[b].step = "copying"
         /\ preview' = [preview EXCEPT ![b].todo = @ \ {i}]
         /\ public' = [public EXCEPT ![i] = preview[b].images[i]]
         /\ UNCHANGED <<release, running, snapshot, dist>>
  BY DEF CopyAsset, At, Copied
<1>2. /\ preview' \in [Preview -> PreviewRecord] /\ preview'[b].step = "copying"
      /\ preview'[b].names = preview[b].names /\ preview'[b].images = preview[b].images
      /\ preview'[b].todo = preview[b].todo \ {i}
      /\ \A c \in Preview : c # b => preview'[c] = preview[c]
  BY <1>1 DEF PreviewInv, PreviewTypeOK, PreviewRecord
<1>3. public \in Images /\ preview[b].images \in Images
  BY PreviewFields DEF PreviewInv, PreviewTypeOK
<1>4. /\ public' \in Images
      /\ \A j \in Image : public'[j] = IF j = i THEN preview[b].images[i] ELSE public[j]
  BY <1>1, <1>3 DEF Images
<1>5. running = {b} /\ \A c \in Preview : c # b => preview[c].step \notin Underway
  BY <1>1, OneAtWork DEF Underway
<1>6. SnapshotInv(b)'
  BY <1>1, <1>2 DEF PreviewInv, BuildInv, SnapshotInv, Complete
<1>7. ImageInv(b)'
  <2>1. \A j \in Active(preview[b].images) \ preview[b].todo : public[j] = preview[b].images[j]
    BY <1>1 DEF PreviewInv, BuildInv, ImageInv
  <2>2. Active(preview[b].images) \subseteq Image
    BY DEF Active
  <2>3. \A j \in Active(preview[b].images) \ preview'[b].todo :
           public'[j] = preview[b].images[j]
    BY <1>2, <1>4, <2>1, <2>2
  <2> QED BY <1>2, <2>3 DEF ImageInv, Active
<1>8. BuildInv(b)'
  BY <1>1, <1>2, <1>5, <1>6, <1>7 DEF BuildInv
<1>9. PreviewTypeOK'
  BY <1>1, <1>2, <1>4 DEF PreviewInv, PreviewTypeOK
<1>10. BuiltInv'
  BY <1>1, <1>2, BuiltStays
<1> QED BY <1>1, <1>2, <1>5, <1>8, <1>9, <1>10, OneMoves

LEMMA StartAstroPreviewInv ==
  ASSUME PreviewInv, NEW b \in Preview, StartAstro(b) PROVE PreviewInv'
<1>1. /\ preview[b].step = "copying" /\ preview[b].todo = {}
      /\ UNCHANGED <<release, running, snapshot, public>>
      /\ dist' = [files |-> Empty, images |-> NoImages]
  BY DEF StartAstro, At
<1>2. MoveTo(b, "astro") /\ "astro" \in PreviewStep
  BY DEF StartAstro, PreviewStep
<1>3. running = {b} /\ \A c \in Preview : c # b => preview[c].step \notin Underway
  BY <1>1, OneAtWork DEF Underway
<1>4. release = "exported" /\ SnapshotInv(b)'
  BY <1>1, <1>2, MoveToIs DEF PreviewInv, BuildInv, SnapshotInv, Complete
<1>5. ImageInv(b)'
  <2>1. \A i \in Active(preview[b].images) : public[i] = preview[b].images[i]
    BY <1>1 DEF PreviewInv, BuildInv, ImageInv
  <2> QED BY <1>1, <1>2, <2>1, MoveToIs DEF ImageInv, Active
<1>6. BuildInv(b)'
  BY <1>1, <1>2, <1>3, <1>4, <1>5, MoveToIs DEF BuildInv
<1>7. PreviewTypeOK'
  BY <1>1, <1>2, MoveToIs, NothingThere DEF PreviewInv, PreviewTypeOK
<1>8. BuiltInv'
  BY <1>1, <1>4 DEF BuiltInv
<1> QED BY <1>1, <1>2, <1>3, <1>6, <1>7, <1>8, MoveToIs, OneMoves

LEMMA EndAstroPreviewInv ==
  ASSUME PreviewInv, NEW b \in Preview, EndAstro(b) PROVE PreviewInv'
<1>1. /\ preview[b].step = "astro" /\ UNCHANGED <<release, running, snapshot, public>>
      /\ dist' = [files |-> snapshot, images |-> public]
  BY DEF EndAstro, At
<1>2. MoveTo(b, "made") /\ "made" \in PreviewStep
  BY DEF EndAstro, PreviewStep
<1>3. running = {b} /\ \A c \in Preview : c # b => preview[c].step \notin Underway
  BY <1>1, OneAtWork DEF Underway
<1>4. /\ release = "exported" /\ "index" \in preview[b].names
      /\ \A n \in preview[b].names : snapshot[n] = b
      /\ \A i \in Active(preview[b].images) : public[i] = preview[b].images[i]
  BY <1>1 DEF PreviewInv, BuildInv, SnapshotInv, ImageInv, Complete
<1>5. SnapshotInv(b)' /\ ImageInv(b)'
  BY <1>1, <1>2, <1>4, MoveToIs DEF SnapshotInv, ImageInv, Active
<1>6. Whole(b)'
  BY <1>1, <1>2, <1>4, MoveToIs DEF Whole, Active
<1>7. BuildInv(b)'
  BY <1>1, <1>2, <1>3, <1>5, <1>6, MoveToIs DEF BuildInv
<1>8. PreviewTypeOK'
  BY <1>1, <1>2, MoveToIs DEF PreviewInv, PreviewTypeOK
<1>9. BuiltInv'
  BY <1>1, <1>4 DEF BuiltInv
<1> QED BY <1>1, <1>2, <1>3, <1>7, <1>8, <1>9, MoveToIs, OneMoves

LEMMA FinishPreviewInv ==
  ASSUME PreviewInv, NEW b \in Preview, FinishPreview(b) PROVE PreviewInv'
<1>1. /\ preview[b].step = "made" /\ UNCHANGED <<snapshot, public, dist>>
      /\ release' = "built" /\ running' = running \ {b}
  BY DEF FinishPreview, At
<1>2. MoveTo(b, "finished") /\ "finished" \in PreviewStep
  BY DEF FinishPreview, PreviewStep
<1>3. running = {b} /\ \A c \in Preview : c # b => preview[c].step \notin Underway
  BY <1>1, OneAtWork DEF Underway
<1>4. Whole(b)
  BY <1>1 DEF PreviewInv, BuildInv
<1>5. BuildInv(b)'
  BY <1>2, MoveToIs DEF BuildInv, SnapshotInv, ImageInv, Underway, Complete
<1>6. PreviewTypeOK'
  BY <1>1, <1>2, MoveToIs DEF PreviewInv, PreviewTypeOK, Status
<1>7. Whole(b)'
  BY <1>1, <1>2, <1>4, MoveToIs DEF Whole, Active
<1>8. BuiltInv'
  BY <1>2, <1>7, MoveToIs DEF BuiltInv
<1> QED BY <1>1, <1>2, <1>3, <1>5, <1>6, <1>8, MoveToIs, OneMoves

\* Whatever fails, or is killed, leaves no build at work.
LEMMA EndsPreviewInv ==
  ASSUME PreviewInv, NEW b \in Preview, FailPreview(b) \/ KillPreview(b)
  PROVE  PreviewInv'
<1>1. /\ UNCHANGED <<snapshot, public, dist>> /\ preview[b].step \in Underway
      /\ \/ release' = "failed" /\ running' = running \ {b} /\ MoveTo(b, "finished")
         \/ UNCHANGED <<release, running>> /\ MoveTo(b, "dead")
  BY DEF FailPreview, KillPreview, PreviewStep, Underway
<1>2. /\ preview' \in [Preview -> PreviewRecord]
      /\ preview'[b].step \in {"finished", "dead"}
      /\ \A c \in Preview : c # b => preview'[c] = preview[c]
  <2>1. "finished" \in PreviewStep /\ "dead" \in PreviewStep
    BY DEF PreviewStep
  <2> QED BY <1>1, <2>1, MoveToIs
<1>3. /\ running = {b} /\ preview[b].step # "finished"
      /\ \A c \in Preview : c # b => preview[c].step \notin Underway
  BY <1>1, OneAtWork
<1>4. BuildInv(b)'
  BY <1>2 DEF BuildInv, SnapshotInv, ImageInv, Underway, Complete
<1>5. PreviewTypeOK'
  BY <1>1, <1>2 DEF PreviewInv, PreviewTypeOK, Status
<1>6. BuiltInv'
  <2>1. release' = "built" => release = "built"
    BY <1>1
  <2> QED BY <1>1, <1>2, <1>3, <2>1, BuiltStays
<1> QED BY <1>1, <1>2, <1>3, <1>4, <1>5, <1>6, OneMoves

LEMMA NextPreviewInv == PreviewInv /\ [PreviewNext]_previewVars => PreviewInv'
<1> SUFFICES ASSUME PreviewInv, [PreviewNext]_previewVars PROVE PreviewInv'
    OBVIOUS
<1>1. CASE UNCHANGED previewVars
  BY <1>1 DEF previewVars, PreviewInv, PreviewTypeOK, BuildInv, SnapshotInv, ImageInv,
     BuiltInv, Whole, Active
<1>2. ASSUME NEW b \in Preview, Claim(b) \/ ReadContent(b) \/ WriteFile(b) \/ EndExport(b)
      PROVE  PreviewInv'
  BY <1>2, ClaimPreviewInv, ReadContentPreviewInv, WriteFilePreviewInv, EndExportPreviewInv
<1>3. ASSUME NEW b \in Preview, CheckAssets(b) \/ CopyAsset(b) \/ StartAstro(b) \/ EndAstro(b)
      PROVE  PreviewInv'
  BY <1>3, CheckAssetsPreviewInv, CopyAssetPreviewInv, StartAstroPreviewInv, EndAstroPreviewInv
<1>4. ASSUME NEW b \in Preview, FinishPreview(b) \/ FailPreview(b) \/ KillPreview(b)
      PROVE  PreviewInv'
  BY <1>4, FinishPreviewInv, EndsPreviewInv
<1> QED BY <1>1, <1>2, <1>3, <1>4 DEF PreviewNext

\* For any builds, articles and images, a preview marked as built holds everything
\* its build read, as that build wrote it, whatever earlier builds left in the
\* directories they share (run_preview_build, export_release_snapshot).
THEOREM BuiltPreviewIsWhole == PreviewSpec => []BuiltIsWhole
<1>1. PreviewInv => BuiltIsWhole
  BY DEF PreviewInv, BuiltInv, BuiltIsWhole
<1> QED BY InitPreviewInv, NextPreviewInv, <1>1, PTL DEF PreviewSpec
-----------------------------------------------------------------------------
(***************************************************************************)
(* What is served, for any versions, requests and bounds. A prepared       *)
(* operation is the only one and names what is deployed (OnePrepared), and *)
(* a request that copies holds the lock under which it compared the        *)
(* pointer (CopyInv).                                                      *)
(***************************************************************************)
\* A prepared operation is the only one, and names the version it replaces.
OnePrepared ==
    /\ \A o, p \in Prepared : o = p
    /\ \A o \in Prepared : operations[o].previous = Deployed

\* What was compared under deploy.lock still holds while the copy is made.
CopyInv(r) == request[r].phase = "copying" => pointer = OperationOf(r).previous

LedgerIsBounded ==
    /\ Len(selections) <= MaxSelections
    /\ Len(operations) <= MaxOperations
    /\ \A i \in DOMAIN receipts : receipts[i].operation \in DOMAIN operations

DeployInv ==
    /\ TypeOK
    /\ LedgerIsBounded
    /\ OnePrepared
    /\ ReceiptsAgree
    /\ \A r, s \in holder : r = s
    /\ \A r \in Request : CopyInv(r)

RequestRow == [phase : Phase, operation : 0..MaxOperations]

LEMMA IdleIs == Idle \in RequestRow /\ Idle.phase = "idle"
BY BoundsAssumption DEF Idle, RequestRow, Phase

LEMMA DeployedIs == ASSUME TypeOK PROVE Deployed \in Served
<1>1. CASE receipts = <<>>
  BY <1>1 DEF Deployed, Served
<1>2. CASE receipts # <<>>
  <2>1. Len(receipts) \in DOMAIN receipts
    BY <1>2 DEF TypeOK
  <2>2. receipts[Len(receipts)] \in Receipt
    BY <2>1, ElementOfSeq DEF TypeOK
  <2> QED BY <1>2, <2>2 DEF Deployed, Receipt, Served
<1> QED BY <1>1, <1>2

LEMMA SelectedIs ==
  ASSUME DeployInv, Selected # Baseline
  PROVE  Selected \in Version /\ Len(selections) \in 1..MaxSelections
<1>1. selections # <<>> /\ selections \in Seq(Version)
  BY DEF Selected, DeployInv, TypeOK
<1>2. Len(selections) \in 1..Len(selections)
  BY <1>1, EmptySeq, LenProperties
<1> QED BY <1>1, <1>2, ElementOfSeq, BoundsAssumption DEF Selected, DeployInv, LedgerIsBounded

LEMMA InitDeployInv == Init => DeployInv
<1> SUFFICES ASSUME Init PROVE DeployInv
    OBVIOUS
<1>1. /\ DOMAIN operations = {} /\ DOMAIN receipts = {}
      /\ Len(operations) = 0 /\ Len(selections) = 0 /\ Len(receipts) = 0
  BY DEF Init
<1>2. \A r \in Request : request[r].phase = "idle"
  BY IdleIs DEF Init
<1>3. TypeOK
  BY <1>1, <1>2, IdleIs, BoundsAssumption DEF Init, TypeOK, RequestRow, Served
<1>4. ReceiptsAgree
  BY <1>1 DEF ReceiptsAgree, ReceiptsChain, OneReceiptPerOperation
<1> QED BY <1>1, <1>2, <1>3, <1>4, BoundsAssumption
        DEF DeployInv, LedgerIsBounded, OnePrepared, Prepared, CopyInv, Init
-----------------------------------------------------------------------------
\* A step of one request on the serving store: the ledger is as it was.
LEMMA RequestGoes ==
  ASSUME DeployInv, UNCHANGED <<ledger, losses>>, NEW r \in Request,
         request' \in [Request -> RequestRow],
         \A s \in Request : s # r => request'[s] = request[s],
         request'[r].phase # "idle" => request'[r].operation \in DOMAIN operations,
         request'[r].phase = "copying" =>
             holder = {} /\ pointer = operations[request'[r].operation].previous,
         pointer' = pointer \/ (r \in holder /\ request'[r].phase # "copying" /\ pointer' \in Served),
         holder' = IF request'[r].phase = "copying" THEN {r} ELSE holder \ {r}
  PROVE  DeployInv'
<1>1. /\ UNCHANGED <<selections, operations, receipts>>
      /\ \A s, t \in holder : s = t
      /\ holder = {s \in Request : request[s].phase = "copying"}
  BY DEF ledger, DeployInv, TypeOK
<1>2. holder' = {s \in Request : request'[s].phase = "copying"}
  <2>1. CASE request'[r].phase = "copying"
    BY <1>1, <2>1
  <2>2. CASE request'[r].phase # "copying"
    BY <1>1, <2>2
  <2> QED BY <2>1, <2>2
<1>3. TypeOK'
  BY <1>1, <1>2 DEF DeployInv, TypeOK, RequestRow
<1>4. LedgerIsBounded' /\ OnePrepared' /\ ReceiptsAgree'
  BY <1>1 DEF DeployInv, LedgerIsBounded, OnePrepared, Prepared, Deployed, ReceiptsAgree,
               ReceiptsChain, OneReceiptPerOperation
<1>5. \A s, t \in holder' : s = t
  BY <1>1
<1>6. ASSUME NEW s \in Request PROVE CopyInv(s)'
  <2>1. CASE s = r
    BY <1>1, <2>1 DEF CopyInv, OperationOf
  <2>2. CASE s # r
    <3>1. request'[s] = request[s]
      BY <2>2
    <3>2. SUFFICES ASSUME request[s].phase = "copying" PROVE pointer' = OperationOf(s).previous
      BY <1>1, <3>1 DEF CopyInv, OperationOf
    <3>3. s \in holder /\ r \notin holder
      BY <1>1, <2>2, <3>2
    <3> QED BY <3>2, <3>3 DEF DeployInv, CopyInv
  <2> QED BY <2>1, <2>2
<1> QED BY <1>3, <1>4, <1>5, <1>6 DEF DeployInv

LEMMA GoesIs ==
  ASSUME DeployInv, NEW r \in Request, NEW phase \in Phase, Goes(r, phase)
  PROVE  /\ request' \in [Request -> RequestRow]
         /\ request'[r].phase = phase /\ request'[r].operation = request[r].operation
         /\ \A s \in Request : s # r => request'[s] = request[s]
BY DEF DeployInv, TypeOK, RequestRow, Goes

LEMMA ReturnsIs ==
  ASSUME DeployInv, NEW r \in Request, Returns(r)
  PROVE  /\ request' \in [Request -> RequestRow]
         /\ request'[r] = Idle
         /\ \A s \in Request : s # r => request'[s] = request[s]
BY IdleIs DEF DeployInv, TypeOK, RequestRow, Returns

\* Not under the lock: the request only goes on to another phase.
LEMMA GoesOnDeployInv ==
  ASSUME DeployInv, NEW r \in Request, NEW phase \in Phase \ {"copying", "idle"}, Goes(r, phase),
         request[r].phase # "idle", UNCHANGED <<ledger, losses>>,
         \/ request[r].phase # "copying" /\ UNCHANGED <<pointer, holder>>
         \/ request[r].phase = "copying" /\ holder' = {} /\ pointer' \in Served
  PROVE  DeployInv'
<1>1. /\ request' \in [Request -> RequestRow]
      /\ request'[r].phase = phase /\ request'[r].operation = request[r].operation
      /\ \A s \in Request : s # r => request'[s] = request[s]
  BY GoesIs
<1>2. /\ request[r].operation \in DOMAIN operations
      /\ holder = {s \in Request : request[s].phase = "copying"}
      /\ \A s, t \in holder : s = t
  BY DEF DeployInv, TypeOK
<1>3. holder' = holder \ {r}
  BY <1>2
<1>4. pointer' = pointer \/ (r \in holder /\ pointer' \in Served)
  BY <1>2
<1> QED BY <1>1, <1>2, <1>3, <1>4, RequestGoes

LEMMA ReturnsDeployInv ==
  ASSUME DeployInv, NEW r \in Request, Returns(r), UNCHANGED <<ledger, pointer, losses>>,
         holder' = holder \ {r}
  PROVE  DeployInv'
BY ReturnsIs, IdleIs, RequestGoes
-----------------------------------------------------------------------------
LEMMA SelectDeployInv == ASSUME DeployInv, NEW v \in Version, Select(v) PROVE DeployInv'
<1>1. /\ UNCHANGED <<operations, receipts, pointer, holder, request, losses>>
      /\ selections' = Append(selections, v) /\ Len(selections) < MaxSelections
      /\ selections \in Seq(Version)
  BY DEF Select, DeployInv, TypeOK
<1>2. selections' \in Seq(Version) /\ Len(selections') <= MaxSelections
  BY <1>1, AppendProperties, LenProperties, BoundsAssumption
<1>3. TypeOK' /\ LedgerIsBounded'
  BY <1>1, <1>2 DEF DeployInv, TypeOK, LedgerIsBounded
<1> QED BY <1>1, <1>3 DEF DeployInv, OnePrepared, Prepared, Deployed, ReceiptsAgree, ReceiptsChain,
             OneReceiptPerOperation, CopyInv, OperationOf

LEMMA PrepareDeployInv == ASSUME DeployInv, NEW r \in Request, Prepare(r) PROVE DeployInv'
<1> DEFINE new == Len(operations) + 1
<1>1. /\ UNCHANGED <<selections, receipts, pointer, holder, losses>>
      /\ request[r].phase = "idle" /\ Len(operations) < MaxOperations
      /\ Prepared = {} /\ Selected # Baseline
      /\ operations' = Append(operations, NewOperation)
      /\ request' = [request EXCEPT ![r] = [phase |-> "prepared", operation |-> new]]
      /\ operations \in Seq(Operation) /\ request \in [Request -> RequestRow]
      /\ holder = {s \in Request : request[s].phase = "copying"}
  BY DEF Prepare, DeployInv, TypeOK, RequestRow
<1>2. NewOperation \in Operation /\ NewOperation.status = "prepared" /\ NewOperation.previous = Deployed
  BY <1>1, SelectedIs, DeployedIs DEF NewOperation, Operation, DeployInv
<1>3. /\ operations' \in Seq(Operation) /\ Len(operations') = new
      /\ DOMAIN operations = 1..Len(operations) /\ DOMAIN operations' = 1..new
      /\ operations'[new] = NewOperation
      /\ \A o \in DOMAIN operations : operations'[o] = operations[o]
      /\ Len(operations) \in Nat
  BY <1>1, <1>2, AppendProperties, LenProperties
<1>4. /\ new \in 1..MaxOperations /\ new \notin DOMAIN operations
      /\ DOMAIN operations' = DOMAIN operations \cup {new}
  BY <1>1, <1>3, BoundsAssumption
<1>5. /\ request' \in [Request -> RequestRow]
      /\ request'[r] = [phase |-> "prepared", operation |-> new]
      /\ \A s \in Request : s # r => request'[s] = request[s]
  BY <1>1, <1>4 DEF RequestRow, Phase
<1> HIDE DEF new
<1>6. holder' = {s \in Request : request'[s].phase = "copying"}
  BY <1>1, <1>5
<1>7. TypeOK'
  <2>1. \A s \in Request : request'[s].phase # "idle" => request'[s].operation \in DOMAIN operations'
    <3> SUFFICES ASSUME NEW s \in Request, request'[s].phase # "idle"
                 PROVE request'[s].operation \in DOMAIN operations'
      OBVIOUS
    <3>1. CASE s = r
      BY <1>4, <1>5, <3>1
    <3>2. CASE s # r
      <4>1. request'[s] = request[s]
        BY <1>5, <3>2
      <4>2. request[s].operation \in DOMAIN operations
        BY <4>1 DEF DeployInv, TypeOK
      <4> QED BY <1>4, <4>1, <4>2
    <3> QED BY <3>1, <3>2
  <2> QED BY <1>1, <1>3, <1>5, <1>6, <2>1 DEF DeployInv, TypeOK, RequestRow
<1>8. LedgerIsBounded'
  BY <1>1, <1>3, <1>4 DEF DeployInv, LedgerIsBounded
<1>9. Prepared' = {new} /\ Deployed' = Deployed
  BY <1>1, <1>2, <1>3, <1>4 DEF Prepared, Deployed
<1>10. OnePrepared'
  BY <1>2, <1>3, <1>9 DEF OnePrepared
<1>11. ReceiptsAgree'
  <2>1. ReceiptsChain'
    BY <1>1 DEF DeployInv, ReceiptsAgree, ReceiptsChain
  <2>2. \A i \in DOMAIN receipts : receipts[i].operation # new
    BY <1>4 DEF DeployInv, LedgerIsBounded
  <2>3. operations'[new].status # "activated"
    BY <1>2, <1>3
  <2>4. OneReceiptPerOperation'
    BY <1>1, <1>3, <1>4, <2>2, <2>3 DEF DeployInv, ReceiptsAgree, OneReceiptPerOperation
  <2> QED BY <2>1, <2>4 DEF ReceiptsAgree
<1>12. \A s \in Request : CopyInv(s)'
  <2> SUFFICES ASSUME NEW s \in Request, request'[s].phase = "copying"
               PROVE pointer' = OperationOf(s).previous'
    BY DEF CopyInv
  <2>1. s # r /\ request'[s] = request[s]
    BY <1>5
  <2>2. request[s].operation \in DOMAIN operations
    BY <2>1 DEF DeployInv, TypeOK
  <2> QED BY <1>1, <1>3, <2>1, <2>2 DEF DeployInv, CopyInv, OperationOf
<1> QED BY <1>1, <1>7, <1>8, <1>10, <1>11, <1>12 DEF DeployInv

LEMMA ReplayDeployInv == ASSUME DeployInv, NEW r \in Request, Replay(r) PROVE DeployInv'
<1>1. PICK o \in Prepared :
         request' = [request EXCEPT ![r] = [phase |-> "prepared", operation |-> o]]
  BY DEF Replay
<1>2. /\ request[r].phase = "idle" /\ UNCHANGED <<ledger, pointer, holder, losses>>
      /\ o \in DOMAIN operations /\ o \in 0..MaxOperations
      /\ holder = {s \in Request : request[s].phase = "copying"}
      /\ request \in [Request -> RequestRow]
  BY <1>1, LenProperties, BoundsAssumption DEF Replay, Prepared, DeployInv, TypeOK, LedgerIsBounded, RequestRow
<1>3. /\ request' \in [Request -> RequestRow]
      /\ request'[r] = [phase |-> "prepared", operation |-> o]
      /\ \A s \in Request : s # r => request'[s] = request[s]
  BY <1>1, <1>2 DEF RequestRow, Phase
<1>4. holder' = holder \ {r}
  BY <1>2
<1> QED BY <1>2, <1>3, <1>4, RequestGoes

LEMMA LockDeployInv == ASSUME DeployInv, NEW r \in Request, Lock(r) PROVE DeployInv'
<1>1. /\ request[r].phase = "deploying" /\ holder = {} /\ pointer = OperationOf(r).previous
      /\ holder' = {r} /\ Goes(r, "copying") /\ UNCHANGED <<ledger, pointer, losses>>
      /\ request[r].operation \in DOMAIN operations
      /\ "copying" \in Phase
  BY DEF Lock, Expected, DeployInv, TypeOK, Phase
<1> QED BY <1>1, GoesIs, RequestGoes DEF OperationOf

LEMMA SwitchDeployInv == ASSUME DeployInv, NEW r \in Request, Switch(r) PROVE DeployInv'
<1>1. /\ request[r].phase = "copying" /\ holder' = {} /\ Goes(r, "switched")
      /\ UNCHANGED <<ledger, losses>> /\ pointer' = OperationOf(r).version
      /\ "switched" \in Phase \ {"copying", "idle"}
  BY DEF Switch, Phase
<1>2. operations[request[r].operation] \in Operation
  BY <1>1, ElementOfSeq DEF DeployInv, TypeOK
<1>3. pointer' \in Served
  BY <1>1, <1>2 DEF OperationOf, Operation, Served
<1> QED BY <1>1, <1>3, GoesOnDeployInv

\* The status of one operation changes.
LEMMA BecomesIs ==
  ASSUME DeployInv, NEW o \in DOMAIN operations, NEW status \in {"activated", "failed"},
         Becomes(o, status)
  PROVE  /\ operations' \in Seq(Operation) /\ Len(operations') = Len(operations)
         /\ DOMAIN operations' = DOMAIN operations
         /\ operations'[o].status = status
         /\ \A p \in DOMAIN operations :
               /\ operations'[p].previous = operations[p].previous
               /\ p # o => operations'[p] = operations[p]
<1>1. operations \in Seq(Operation) /\ o \in 1..Len(operations)
  BY DEF DeployInv, TypeOK
<1>2. operations[o] \in Operation
  BY <1>1, ElementOfSeq
<1> DEFINE row == [operations[o] EXCEPT !.status = status]
<1>3. row \in Operation /\ row.status = status /\ row.previous = operations[o].previous
  BY <1>2 DEF Operation
<1>4. operations' = [operations EXCEPT ![o] = row]
  BY DEF Becomes
<1> HIDE DEF row
<1> QED BY <1>1, <1>3, <1>4, ExceptSeq, LenProperties

\* A step that ends a prepared operation, with a receipt or without.
LEMMA EndsDeployInv ==
  ASSUME DeployInv, NEW r \in Request, NEW o \in Prepared, NEW status \in {"activated", "failed"},
         Becomes(o, status), Returns(r), request[r].phase # "copying",
         UNCHANGED <<selections, pointer, holder, losses>>,
         receipts' \in Seq(Receipt),
         \A i \in DOMAIN receipts' : receipts'[i].operation \in DOMAIN operations,
         ReceiptsChain', OneReceiptPerOperation'
  PROVE  DeployInv'
<1>1. o \in DOMAIN operations
  BY DEF Prepared
<1>2. /\ operations' \in Seq(Operation) /\ Len(operations') = Len(operations)
      /\ DOMAIN operations' = DOMAIN operations
      /\ operations'[o].status = status
      /\ \A p \in DOMAIN operations :
            /\ operations'[p].previous = operations[p].previous
            /\ p # o => operations'[p] = operations[p]
  BY <1>1, BecomesIs
<1>3. /\ request' \in [Request -> RequestRow] /\ request'[r].phase = "idle"
      /\ \A s \in Request : s # r => request'[s] = request[s]
  BY ReturnsIs, IdleIs
<1>4. holder' = {s \in Request : request'[s].phase = "copying"}
  BY <1>3 DEF DeployInv, TypeOK
<1>5. TypeOK'
  BY <1>2, <1>3, <1>4 DEF DeployInv, TypeOK, RequestRow
<1>6. LedgerIsBounded'
  BY <1>2 DEF DeployInv, LedgerIsBounded
<1>7. Prepared' = {}
  BY <1>1, <1>2 DEF DeployInv, OnePrepared, Prepared
<1>8. \A s \in Request : CopyInv(s)'
  <2> SUFFICES ASSUME NEW s \in Request, request'[s].phase = "copying"
               PROVE pointer' = OperationOf(s).previous'
    BY DEF CopyInv
  <2>1. s # r /\ request'[s] = request[s]
    BY <1>3
  <2>2. request[s].operation \in DOMAIN operations
    BY <2>1 DEF DeployInv, TypeOK
  <2> QED BY <1>2, <2>1, <2>2 DEF DeployInv, CopyInv, OperationOf
<1> QED BY <1>5, <1>6, <1>7, <1>8 DEF DeployInv, OnePrepared, ReceiptsAgree

LEMMA FinalizeDeployInv == ASSUME DeployInv, NEW r \in Request, Finalize(r) PROVE DeployInv'
<1> DEFINE o == request[r].operation
           new == [operation |-> o, selection |-> operations[o].selection,
                   version |-> operations[o].version, previous |-> operations[o].previous]
           last == Len(receipts) + 1
<1>1. /\ request[r].phase = "switched" /\ operations[o].status = "prepared"
      /\ receipts' = Append(receipts, new) /\ Becomes(o, "activated") /\ Returns(r)
      /\ UNCHANGED <<selections, pointer, holder, losses>>
      /\ o \in DOMAIN operations /\ o \in 1..Len(operations)
      /\ operations \in Seq(Operation) /\ receipts \in Seq(Receipt)
  BY DEF Finalize, MayFinalize, OperationOf, DeployInv, TypeOK
<1>2. o \in Prepared /\ operations[o] \in Operation /\ o \in 1..MaxOperations
  BY <1>1, ElementOfSeq, LenProperties, BoundsAssumption DEF Prepared, DeployInv, LedgerIsBounded
<1>3. new \in Receipt /\ new.previous = Deployed /\ new.operation = o
  BY <1>2 DEF Receipt, Operation, DeployInv, OnePrepared
<1>4. /\ operations'[o].status = "activated" /\ DOMAIN operations' = DOMAIN operations
      /\ \A p \in DOMAIN operations : p # o => operations'[p] = operations[p]
  BY <1>1, BecomesIs
<1> HIDE DEF new, o
<1>5. /\ receipts' \in Seq(Receipt) /\ DOMAIN receipts = 1..Len(receipts)
      /\ DOMAIN receipts' = 1..last /\ receipts'[last] = new
      /\ \A i \in DOMAIN receipts : receipts'[i] = receipts[i]
      /\ Len(receipts) \in Nat
  BY <1>1, <1>3, AppendProperties, LenProperties
<1>6. \A i \in DOMAIN receipts' : receipts'[i].operation \in DOMAIN operations
  BY <1>1, <1>3, <1>5 DEF DeployInv, LedgerIsBounded
<1>7. ReceiptsChain'
  <2> SUFFICES ASSUME NEW i \in 1..last
               PROVE receipts'[i].previous = IF i = 1 THEN Baseline ELSE receipts'[i - 1].version
    BY <1>5 DEF ReceiptsChain
  <2>1. CASE i = last
    <3>1. CASE receipts = <<>>
      <4>1. Len(receipts) = 0
        BY <3>1
      <4> QED BY <1>3, <1>5, <2>1, <3>1, <4>1 DEF Deployed
    <3>2. CASE receipts # <<>>
      <4>1. Len(receipts) # 0
        BY <1>1, <3>2, EmptySeq
      <4>2. i - 1 = Len(receipts) /\ i # 1 /\ Len(receipts) \in DOMAIN receipts
        BY <1>5, <2>1, <4>1
      <4>3. receipts'[i - 1] = receipts[Len(receipts)]
        BY <1>5, <4>2
      <4> QED BY <1>3, <1>5, <2>1, <3>2, <4>2, <4>3 DEF Deployed
    <3> QED BY <3>1, <3>2
  <2>2. CASE i # last
    <3>1. i \in DOMAIN receipts /\ (i # 1 => i - 1 \in DOMAIN receipts)
      BY <1>5, <2>2
    <3>2. receipts'[i] = receipts[i] /\ (i # 1 => receipts'[i - 1] = receipts[i - 1])
      BY <1>5, <3>1
    <3> QED BY <3>1, <3>2 DEF DeployInv, ReceiptsAgree, ReceiptsChain
  <2> QED BY <2>1, <2>2
<1>8. OneReceiptPerOperation'
  <2>1. \A i \in DOMAIN receipts : receipts[i].operation # o
    BY <1>1, <1>2 DEF DeployInv, ReceiptsAgree, OneReceiptPerOperation
  <2>2. last \notin DOMAIN receipts /\ DOMAIN receipts' = DOMAIN receipts \cup {last}
    BY <1>5
  <2>3. receipts'[last].operation = o
    BY <1>3, <1>5
  <2> HIDE DEF last
  <2>4. SUFFICES ASSUME NEW p \in DOMAIN operations
                 PROVE LET issued == {i \in DOMAIN receipts' : receipts'[i].operation = p} IN
                       /\ operations'[p].status = "activated" <=> issued # {}
                       /\ \A i, j \in issued : i = j
    BY <1>4 DEF OneReceiptPerOperation
  <2>5. CASE p = o
    <3>1. {i \in DOMAIN receipts' : receipts'[i].operation = o} = {last}
      BY <1>5, <2>1, <2>2, <2>3
    <3> QED BY <1>4, <2>5, <3>1
  <2>6. CASE p # o
    <3>1. {i \in DOMAIN receipts' : receipts'[i].operation = p}
             = {i \in DOMAIN receipts : receipts[i].operation = p}
      BY <1>5, <2>2, <2>3, <2>6
    <3> QED BY <1>4, <2>6, <3>1 DEF DeployInv, ReceiptsAgree, OneReceiptPerOperation
  <2> QED BY <2>5, <2>6
<1> QED BY <1>1, <1>2, <1>5, <1>6, <1>7, <1>8, EndsDeployInv

LEMMA MarkFailedDeployInv == ASSUME DeployInv, NEW r \in Request, MarkFailed(r) PROVE DeployInv'
<1> DEFINE o == request[r].operation
<1>1. /\ request[r].phase = "aborting" /\ Returns(r)
      /\ UNCHANGED <<selections, receipts, pointer, holder, losses>>
      /\ o \in DOMAIN operations
      /\ holder = {s \in Request : request[s].phase = "copying"}
  BY DEF MarkFailed, DeployInv, TypeOK
<1>2. CASE operations[o].status # "prepared"
  <2>1. UNCHANGED <<ledger, pointer, losses>> /\ holder' = holder \ {r}
    BY <1>1, <1>2 DEF MarkFailed, MayFail, ledger
  <2> QED BY <1>1, <2>1, ReturnsDeployInv
<1>3. CASE operations[o].status = "prepared"
  <2>1. o \in Prepared /\ Becomes(o, "failed")
    BY <1>1, <1>3 DEF MarkFailed, MayFail, Prepared
  <2>2. /\ operations'[o].status = "failed" /\ DOMAIN operations' = DOMAIN operations
        /\ \A p \in DOMAIN operations : p # o => operations'[p] = operations[p]
    BY <1>1, <2>1, BecomesIs
  <2>3. ReceiptsChain' /\ receipts' \in Seq(Receipt)
        /\ \A i \in DOMAIN receipts' : receipts'[i].operation \in DOMAIN operations
    BY <1>1 DEF DeployInv, TypeOK, LedgerIsBounded, ReceiptsAgree, ReceiptsChain
  <2>4. OneReceiptPerOperation'
    <3> HIDE DEF o
    <3> QED BY <1>1, <1>3, <2>2 DEF DeployInv, ReceiptsAgree, OneReceiptPerOperation
  <2> QED BY <1>1, <2>1, <2>3, <2>4, EndsDeployInv
<1> QED BY <1>2, <1>3

\* The pointer is replaced while nothing is copied.
LEMMA ReplacesDeployInv ==
  ASSUME DeployInv, UNCHANGED <<ledger, holder, request>>, holder = {},
         pointer' \in Served, losses' \in 0..MaxLosses
  PROVE  DeployInv'
<1>1. \A r \in Request : request[r].phase # "copying"
  BY DEF DeployInv, TypeOK
<1>2. TypeOK'
  BY DEF DeployInv, TypeOK, ledger
<1> QED BY <1>1, <1>2 DEF DeployInv, ledger, LedgerIsBounded, OnePrepared, Prepared, Deployed, ReceiptsAgree,
             ReceiptsChain, OneReceiptPerOperation, CopyInv, OperationOf

LEMMA LoseCacheDeployInv == ASSUME DeployInv, LoseCache PROVE DeployInv'
<1>1. holder = {} /\ losses' \in 0..MaxLosses
  BY BoundsAssumption DEF LoseCache, DeployInv, TypeOK
<1> QED BY <1>1, ReplacesDeployInv DEF LoseCache, Served

LEMMA ReconcileDeployInv == ASSUME DeployInv, Reconcile PROVE DeployInv'
<1>1. pointer' \in Served /\ losses' \in 0..MaxLosses
  BY DeployedIs DEF Reconcile, DeployInv, TypeOK
<1> QED BY <1>1, ReplacesDeployInv DEF Reconcile

LEMMA NextDeployInv == DeployInv /\ [Next]_vars => DeployInv'
<1> SUFFICES ASSUME DeployInv, [Next]_vars PROVE DeployInv'
    OBVIOUS
<1>1. CASE UNCHANGED vars
  BY <1>1 DEF vars, DeployInv, TypeOK, LedgerIsBounded, OnePrepared, Prepared, Deployed, ReceiptsAgree,
              ReceiptsChain, OneReceiptPerOperation, CopyInv, OperationOf
<1>2. ASSUME NEW v \in Version, Select(v) PROVE DeployInv'
  BY <1>2, SelectDeployInv
<1>3. ASSUME NEW r \in Request,
             \/ Prepare(r) \/ Replay(r) \/ Lock(r) \/ Switch(r) \/ Finalize(r) \/ MarkFailed(r)
      PROVE  DeployInv'
  BY <1>3, PrepareDeployInv, ReplayDeployInv, LockDeployInv, SwitchDeployInv, FinalizeDeployInv, MarkFailedDeployInv
<1>4. ASSUME NEW r \in Request,
             \/ Observe(r) \/ StoreFails(r) \/ LockRefused(r) \/ CopyFails(r)
             \/ FinalizeFails(r) \/ GiveUp(r)
      PROVE  DeployInv'
  <2>1. PICK phase \in Phase \ {"copying", "idle"} : Goes(r, phase)
    BY <1>4 DEF Observe, StoreFails, LockRefused, CopyFails, FinalizeFails, GiveUp, Phase
  <2>2. /\ request[r].phase # "idle" /\ UNCHANGED <<ledger, losses>>
        /\ \/ request[r].phase # "copying" /\ UNCHANGED <<pointer, holder>>
           \/ request[r].phase = "copying" /\ holder' = {} /\ pointer' \in Served
    BY <1>4 DEF Observe, StoreFails, LockRefused, CopyFails, FinalizeFails, GiveUp, DeployInv, TypeOK
  <2> QED BY <2>1, <2>2, GoesOnDeployInv
<1>5. ASSUME NEW r \in Request,
             \/ FinalizedBefore(r) \/ KeepPrepared(r) \/ PointerUnreadable(r) \/ Crash(r)
      PROVE  DeployInv'
  <2>1. Returns(r) /\ UNCHANGED <<ledger, pointer, losses>> /\ holder' = holder \ {r}
    BY <1>5 DEF FinalizedBefore, KeepPrepared, PointerUnreadable, Crash, DeployInv, TypeOK
  <2> QED BY <2>1, ReturnsDeployInv
<1>6. CASE LoseCache \/ Reconcile
  BY <1>6, LoseCacheDeployInv, ReconcileDeployInv
<1> QED BY <1>1, <1>2, <1>3, <1>4, <1>5, <1>6 DEF Next

\* The inductive invariant of the ledger, the pointer and the requests.
THEOREM DeploymentInvariant == Spec => []DeployInv
BY InitDeployInv, NextDeployInv, PTL DEF Spec

\* The receipts form one unbroken chain, and an operation is activated exactly when
\* it has one of them, whatever requests crash, fail, repeat or resume (_finalize).
THEOREM ReceiptsFollowOperations == Spec => []ReceiptsAgree
<1>1. DeployInv => ReceiptsAgree
  BY DEF DeployInv
<1> QED BY <1>1, DeploymentInvariant, PTL

LEMMA MoveIsRecorded ==
  ASSUME DeployInv, [Next]_vars, pointer' # pointer, losses' = losses
  PROVE  \/ Prepared = {} /\ pointer' = Deployed
         \/ \E r \in Request :
               /\ request[r].phase = "copying"
               /\ pointer = OperationOf(r).previous
               /\ pointer' = OperationOf(r).version
<1>1. \/ \E r \in Request : Switch(r)
      \/ LoseCache
      \/ Reconcile
  BY DEF Next, vars, Select, Prepare, Replay, Observe, StoreFails, Lock, LockRefused, CopyFails, Finalize,
         FinalizedBefore, FinalizeFails, KeepPrepared, PointerUnreadable, GiveUp, MarkFailed, Crash
<1>2. ~LoseCache
  BY DEF LoseCache, DeployInv, TypeOK
<1> QED BY <1>1, <1>2 DEF Switch, Reconcile, DeployInv, CopyInv

\* The pointer only moves from what a request's operation replaces to its target,
\* however late the request gets to the switch, or back to what is deployed while
\* nothing is prepared (deploy.lock, reconcile_website_serving_cache).
THEOREM PointerIsMovedByTheLedger == Spec => PointerMovesAsRecorded
<1>1. DeployInv /\ [Next]_vars =>
        [pointer' # pointer /\ losses' = losses =>
         \/ Prepared = {} /\ pointer' = Deployed
         \/ \E r \in Request :
               /\ request[r].phase = "copying"
               /\ pointer = OperationOf(r).previous
               /\ pointer' = OperationOf(r).version]_vars
  BY MoveIsRecorded
<1> QED BY <1>1, DeploymentInvariant, PTL DEF Spec, PointerMovesAsRecorded
-----------------------------------------------------------------------------
LEMMA LiveStepIsAStep == [LiveNext]_liveVars => [Next]_vars
BY DEF LiveNext, liveVars, Regular, Fault, GoesOn, Next

\* A run of the four beside each other, with its bounded failures, is a run of each
\* of them, so that what is proved of the parts holds of the composition.
THEOREM SiteKeepsItsParts == SiteSpec => Spec /\ ContentSpec /\ ReleaseSpec /\ PreviewSpec
<1>1. SiteInit => Init /\ ContentInit /\ ReleaseInit /\ PreviewInit
  BY DEF SiteInit, LiveInit
<1>2. [SiteNext]_siteVars => /\ [LiveNext]_liveVars /\ [ContentNext]_contentVars
                             /\ [ReleaseNext]_releaseVars /\ [PreviewNext]_previewVars
  BY DEF SiteNext, siteVars
<1> QED BY <1>1, <1>2, LiveStepIsAStep, PTL DEF SiteSpec, Spec, ContentSpec, ReleaseSpec, PreviewSpec
=============================================================================
