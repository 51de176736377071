----------------------------- MODULE PreviewBuild -----------------------------
(***************************************************************************)
(* The local preview of a site (console/release_pipeline.py and the        *)
(* command export_release_snapshot it calls): a build claims the site,     *)
(* writes the snapshot of its content file by file, copies the managed     *)
(* images, runs Astro over both and marks the site's release row.  All     *)
(* builds of a site share these directories and that row, and nothing      *)
(* clears the directories: what an earlier build wrote under a name that a *)
(* later one does not have stays, and Astro finds it.  A command run by    *)
(* hand into the same directory is left out.                               *)
(***************************************************************************)
CONSTANTS
    Preview,   \* builds that people start
    Slug,      \* slugs of articles, which name their files
    Image,     \* public paths of images
    Digest,    \* contents of an image
    Nothing    \* no file

ASSUME NothingAssumption == Nothing \notin Preview \cup Digest

VARIABLES
    release,   \* the site's release row for previews
    running,   \* rows of release_build with status running
    preview,   \* what each build is doing, has still to write, and has read
    snapshot,  \* the build that wrote each file of the snapshot last
    public,    \* the images in the directory that Astro copies
    dist       \* what Astro found when it made the result

previewVars == <<release, running, preview, snapshot, public, dist>>
-----------------------------------------------------------------------------
Status == {"none", "draft", "exported", "built", "failed"}
PreviewStep == {"idle", "claimed", "writing", "exported", "copying", "astro", "made",
                "finished", "dead"}

\* Of the files every export writes, the index of the articles stands for those
\* before the articles and the manifest for those after them.
File == {"index", "manifest"} \cup Slug
Snapshots == [File -> Preview \cup {Nothing}]
Images == [Image -> Digest \cup {Nothing}]
NoImages == [i \in Image |-> Nothing]
Empty == [n \in File |-> Nothing]

PreviewRecord == [step : PreviewStep, todo : SUBSET (File \cup Image),
                  names : SUBSET File, images : Images]

PreviewTypeOK ==
    /\ release \in Status
    /\ running \subseteq Preview
    /\ preview \in [Preview -> PreviewRecord]
    /\ snapshot \in Snapshots
    /\ public \in Images
    /\ dist \in [files : Snapshots, images : Images]

PreviewInit ==
    /\ release = "none"
    /\ running = {}
    /\ preview = [b \in Preview |->
                     [step |-> "idle", todo |-> {}, names |-> {}, images |-> NoImages]]
    /\ snapshot = Empty
    /\ public = NoImages
    /\ dist = [files |-> Empty, images |-> NoImages]
-----------------------------------------------------------------------------
At(b, step) == preview[b].step = step
MoveTo(b, step) == preview' = [preview EXCEPT ![b].step = step]

\* Mutant of SiteFree: only a build that has reached Astro is in the way.
SiteFreeMutant == \A b \in running : ~At(b, "astro")

SiteFree == running = {}

\* Locks the site, looks for a running build and makes the row of this one.
Claim(b) ==
    /\ At(b, "idle") /\ SiteFree
    /\ running' = running \cup {b}
    /\ release' = IF release = "none" THEN "draft" ELSE release
    /\ MoveTo(b, "claimed")
    /\ UNCHANGED <<snapshot, public, dist>>

\* The export holds the site's lock until its last file is written.
Exporting == \E b \in Preview : At(b, "writing")

\* What is published at that moment: any articles.
ReadContent(b) ==
    /\ At(b, "claimed") /\ ~Exporting
    /\ \E slugs \in SUBSET Slug :
          LET names == {"index", "manifest"} \cup slugs IN
          preview' = [preview EXCEPT ![b] =
              [step |-> "writing", todo |-> names, names |-> names, images |-> NoImages]]
    /\ UNCHANGED <<release, running, snapshot, public, dist>>

\* Each file is replaced at once, the articles in the order of their dates.
\* Articles of two languages with one slug share a file.
WriteFile(b) == \E n \in preview[b].todo :
    /\ At(b, "writing")
    /\ "index" \in preview[b].todo => n = "index"
    /\ n = "manifest" => preview[b].todo = {"manifest"}
    /\ preview' = [preview EXCEPT ![b].todo = @ \ {n}]
    /\ snapshot' = [snapshot EXCEPT ![n] = b]
    /\ UNCHANGED <<release, running, public, dist>>

EndExport(b) ==
    /\ At(b, "writing") /\ preview[b].todo = {}
    /\ release' = "exported"
    /\ MoveTo(b, "exported")
    /\ UNCHANGED <<running, snapshot, public, dist>>

Active(images) == {i \in Image : images[i] # Nothing}

\* The images that are active now are all checked before the first is copied.
CheckAssets(b) ==
    /\ At(b, "exported")
    /\ \E images \in Images :
          preview' = [preview EXCEPT ![b] =
              [step |-> "copying", todo |-> Active(images),
               names |-> preview[b].names, images |-> images]]
    /\ UNCHANGED <<release, running, snapshot, public, dist>>

\* Mutant of Copied: a file that is there is not compared with the row.
CopiedMutant(i, digest) == IF public[i] = Nothing THEN digest ELSE public[i]

\* A file with the row's digest is skipped, any other replaced.
Copied(i, digest) == digest

CopyAsset(b) == \E i \in preview[b].todo :
    /\ At(b, "copying")
    /\ preview' = [preview EXCEPT ![b].todo = @ \ {i}]
    /\ public' = [public EXCEPT ![i] = Copied(i, preview[b].images[i])]
    /\ UNCHANGED <<release, running, snapshot, dist>>

StartAstro(b) ==
    /\ At(b, "copying") /\ preview[b].todo = {}
    /\ dist' = [files |-> Empty, images |-> NoImages]
    /\ MoveTo(b, "astro")
    /\ UNCHANGED <<release, running, snapshot, public>>

EndAstro(b) ==
    /\ At(b, "astro")
    /\ dist' = [files |-> snapshot, images |-> public]
    /\ MoveTo(b, "made")
    /\ UNCHANGED <<release, running, snapshot, public>>

FinishPreview(b) ==
    /\ At(b, "made")
    /\ release' = "built" /\ running' = running \ {b}
    /\ MoveTo(b, "finished")
    /\ UNCHANGED <<snapshot, public, dist>>

\* Any step may raise: an unsafe path, a changed image, a timeout of Astro.
FailPreview(b) ==
    /\ preview[b].step \in PreviewStep \ {"idle", "finished", "dead"}
    /\ release' = "failed" /\ running' = running \ {b}
    /\ MoveTo(b, "finished")
    /\ UNCHANGED <<snapshot, public, dist>>

\* The process is killed, or the answer cannot be saved: the row stays running
\* and nothing ever clears it. An Astro that goes on by itself makes a result
\* that nobody marks as built.
KillPreview(b) ==
    /\ preview[b].step \in PreviewStep \ {"idle", "finished", "dead"}
    /\ MoveTo(b, "dead")
    /\ UNCHANGED <<release, running, snapshot, public, dist>>

PreviewNext ==
    \E b \in Preview :
        \/ Claim(b) \/ ReadContent(b) \/ WriteFile(b) \/ EndExport(b)
        \/ CheckAssets(b) \/ CopyAsset(b) \/ StartAstro(b) \/ EndAstro(b)
        \/ FinishPreview(b) \/ FailPreview(b) \/ KillPreview(b)

PreviewSpec == PreviewInit /\ [][PreviewNext]_previewVars
-----------------------------------------------------------------------------
\* Whatever a build has read is in the result as it wrote it: the index, the file
\* of each article the index lists, and each image with the digest of its row.
Whole(b) ==
    /\ dist.files["index"] = b
    /\ \A n \in preview[b].names : dist.files[n] = b
    /\ \A i \in Active(preview[b].images) : dist.images[i] = preview[b].images[i]

\* A preview marked as built is whole, of one build and not mixed with another,
\* whatever earlier builds left in the directories, also while a later one runs
\* or after one was killed (run_preview_build). Of names the build does not have
\* it says nothing: files left under them reach the result.
BuiltIsWhole == release = "built" => \E b \in Preview : Whole(b)
=============================================================================
