--------------------------- MODULE WebsitePublishing ---------------------------
(***************************************************************************)
(* The website from the article to the server, for one run: articles and   *)
(* their writers (ContentAuthoring), candidates of the whole site          *)
(* (ArticleRelease), the local preview (PreviewBuild) and what is served   *)
(* (WebsiteDeploymentLive).  They meet where one hands an immutable        *)
(* version, or a committed article, to the next; no lock and no row that   *)
(* changes is shared, so a behaviour follows one and leaves the others as  *)
(* they began.                                                             *)
(***************************************************************************)
EXTENDS WebsiteDeploymentLive, ContentAuthoring, ArticleRelease, PreviewBuild

VARIABLE stage   \* what a behaviour follows

siteVars == <<liveVars, contentVars, releaseVars, previewVars, stage>>

SiteInit ==
    /\ stage \in {"author", "release", "preview", "serve"}
    /\ LiveInit /\ ContentInit /\ ReleaseInit /\ PreviewInit

SiteNext ==
    /\ stage' = stage
    /\ \/ /\ stage = "author" /\ ContentNext
          /\ UNCHANGED <<liveVars, releaseVars, previewVars>>
       \/ /\ stage = "release" /\ ReleaseNext
          /\ UNCHANGED <<liveVars, contentVars, previewVars>>
       \/ /\ stage = "preview" /\ PreviewNext
          /\ UNCHANGED <<liveVars, contentVars, releaseVars>>
       \/ /\ stage = "serve" /\ LiveNext
          /\ UNCHANGED <<contentVars, releaseVars, previewVars>>

SiteSpec == SiteInit /\ [][SiteNext]_siteVars /\ LiveFairness
=============================================================================
