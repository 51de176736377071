--------------------------- MODULE ContentAuthoring ---------------------------
(***************************************************************************)
(* Articles of one language of the site and the requests that write them   *)
(* (article_create, article_edit and article_import of console/views.py,   *)
(* ArticleEditorForm and ArticleImportZipForm, commit_authorization.py and *)
(* content_access.py).                                                     *)
(*                                                                         *)
(* A request reads the article and checks the form with the rights it had  *)
(* when it began.  Its transaction then locks the user, the session and    *)
(* the grants and asks for the rights once more; takes the advisory lock   *)
(* of the identity it wants to give; and locks the route and the article   *)
(* and compares them with what it read.  An entry of an imported archive   *)
(* goes through the same steps in a transaction of its own.                *)
(*                                                                         *)
(* Left out: moving an article to another path, covers and assets,         *)
(* cloning into a new language (ArticleRelease has it), and a session that *)
(* expires by the clock while its transaction runs.                        *)
(***************************************************************************)
EXTENDS Naturals

CONSTANTS
    Article,   \* paths an article may have
    Identity,  \* keys that tie the translations of an article together
    Author,    \* users of the console, each with one session
    NoIdentity

ASSUME ArticleAssumption == Article # {}
ASSUME IdentityAssumption == NoIdentity \notin Identity

VARIABLES
    article,    \* page_route and article
    authority,  \* what the user's session, role and grants allow now
    draft       \* the request of each author

contentVars == <<article, authority, draft>>
-----------------------------------------------------------------------------
Right == {"write", "publish"}
Row == [status : {"none", "draft", "published"}, identity : Identity \cup {NoIdentity}]
NoRow == [status |-> "none", identity |-> NoIdentity]

\* "seen" is the row the request read and "fresh" whether its updated_at
\* still is the row's.
Draft == [step : {"idle", "checked", "authorised", "named"}, on : Article,
          seen : Row, wants : Row, fresh : BOOLEAN]

ContentTypeOK ==
    /\ article \in [Article -> Row]
    /\ authority \in [Author -> SUBSET Right]
    /\ draft \in [Author -> Draft]

NoDraft == [step |-> "idle", on |-> CHOOSE a \in Article : TRUE,
            seen |-> NoRow, wants |-> NoRow, fresh |-> TRUE]

ContentInit ==
    /\ article = [a \in Article |-> NoRow]
    /\ authority = [u \in Author |-> {}]
    /\ draft = [u \in Author |-> NoDraft]
-----------------------------------------------------------------------------
InTransaction(u) == draft[u].step \in {"authorised", "named"}

Holders(i) == {a \in Article : article[a].identity = i}

\* Publishing, and changing what is published, needs the right to publish.
Needed(d) ==
    {"write"} \cup (IF "published" \in {d.seen.status, d.wants.status} THEN {"publish"} ELSE {})

\* An identity is given once; a published article has one.
WellFormed(seen, wants) ==
    /\ wants.status # "none"
    /\ seen.identity # NoIdentity => wants.identity = seen.identity
    /\ wants.status = "published" => wants.identity # NoIdentity

\* Mutant of Allows: the form's own copy of the rights would do.
AllowsMutant(u, d) == TRUE

\* current_content_actor_for_commit and the route's check ask the same.
Allows(u, d) == Needed(d) \subseteq authority[u]

\* The request's form is valid.
CheckForm(u, a, wants) ==
    /\ draft[u].step = "idle"
    /\ LET new == [step |-> "checked", on |-> a, seen |-> article[a], wants |-> wants,
                   fresh |-> TRUE]
       IN  /\ WellFormed(article[a], wants)
           /\ Needed(new) \subseteq authority[u]
           /\ wants.identity # NoIdentity => Holders(wants.identity) \subseteq {a}
           /\ draft' = [draft EXCEPT ![u] = new]
    /\ UNCHANGED <<article, authority>>

\* Locks the user, the session and the grants.
Authorise(u) ==
    /\ draft[u].step = "checked"
    /\ Allows(u, draft[u])
    /\ draft' = [draft EXCEPT ![u].step = "authorised"]
    /\ UNCHANGED <<article, authority>>

\* Mutant of IdentityFree.
IdentityFreeMutant(u) == TRUE

\* Nobody holds the advisory lock of the identity the request wants.
IdentityFree(u) ==
    \A other \in Author \ {u} :
        ~(draft[other].step = "named" /\ draft[other].wants.identity = draft[u].wants.identity)

GivesIdentity(d) == d.wants.identity # NoIdentity /\ d.seen.identity = NoIdentity

NameArticle(u) ==
    /\ draft[u].step = "authorised" /\ GivesIdentity(draft[u])
    /\ IdentityFree(u)
    /\ Holders(draft[u].wants.identity) \subseteq {draft[u].on}
    /\ draft' = [draft EXCEPT ![u].step = "named"]
    /\ UNCHANGED <<article, authority>>

\* Mutant of StillAsSeen: an article that exists may have been changed.
StillAsSeenMutant(u) ==
    (draft[u].seen.status = "none") = (article[draft[u].on].status = "none")

\* validate_current_content_write; a new article's path must still be free.
StillAsSeen(u) ==
    IF draft[u].seen.status = "none"
    THEN article[draft[u].on].status = "none"
    ELSE draft[u].fresh

\* Every save gives the row another updated_at, so no other request that read
\* it is fresh.
Save(u) ==
    /\ IF GivesIdentity(draft[u]) THEN draft[u].step = "named" ELSE draft[u].step = "authorised"
    /\ StillAsSeen(u)
    /\ article' = [article EXCEPT ![draft[u].on] = draft[u].wants]
    /\ draft' = [v \in Author |->
          IF v = u THEN NoDraft
          ELSE [draft[v] EXCEPT !.fresh = @ /\ draft[v].on # draft[u].on]]
    /\ UNCHANGED authority

\* A refusal at any step, a lost connection, a crash: the transaction is
\* rolled back.
Abandon(u) ==
    /\ draft[u].step # "idle"
    /\ draft' = [draft EXCEPT ![u] = NoDraft]
    /\ UNCHANGED <<article, authority>>

\* Mutant of ChangeAuthority.
ChangeAuthorityMutant(u, rights) ==
    /\ authority' = [authority EXCEPT ![u] = rights]
    /\ UNCHANGED <<article, draft>>

\* A grant given, disabled or deleted, a role or a password changed, a logout.
\* What takes a right away writes a row that an authorised transaction has locked;
\* what only adds one inserts a row.
ChangeAuthority(u, rights) ==
    /\ InTransaction(u) => authority[u] \subseteq rights
    /\ authority' = [authority EXCEPT ![u] = rights]
    /\ UNCHANGED <<article, draft>>

ContentNext ==
    \E u \in Author :
        \/ \E a \in Article, wants \in Row : CheckForm(u, a, wants)
        \/ Authorise(u) \/ NameArticle(u) \/ Save(u) \/ Abandon(u)
        \/ \E rights \in SUBSET Right : ChangeAuthority(u, rights)

ContentSpec == ContentInit /\ [][ContentNext]_contentVars
-----------------------------------------------------------------------------
\* Two articles of one language never share an identity, which would make
\* every later release of the site fail (clean_content_key and the advisory
\* lock of ArticleEditorForm.save).
OneArticlePerIdentity ==
    \A a, b \in Article :
        a # b /\ article[a].identity # NoIdentity => article[a].identity # article[b].identity

\* Whoever changes an article may do so at that moment, not only when the
\* request began; a published article only changes by somebody who may
\* publish (_authorize_article_commit).
WritersAreAuthorised ==
    [][\A a \in Article : article'[a] # article[a] =>
          \E u \in Author :
             /\ draft[u].on = a /\ article'[a] = draft[u].wants
             /\ "write" \in authority[u]
             /\ "published" \in {article[a].status, article'[a].status}
                  => "publish" \in authority[u]]_contentVars

\* No request writes over a row it has not read (validate_current_content_write).
NothingOverwritten ==
    [][\A u \in Author : draft[u].step # "idle" /\ article' # article /\ draft'[u].step = "idle"
          => draft[u].seen = article[draft[u].on]]_contentVars

\* An article is written by somebody who may, over what they have read.
SavesAreSound == WritersAreAuthorised /\ NothingOverwritten
=============================================================================
