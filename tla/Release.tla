------------------------------ MODULE Release ------------------------------
(***************************************************************************)
(* The release job of .github/workflows/release.yml with the packager it   *)
(* runs twice (ReleasePackage), the release page it publishes to, and the  *)
(* owner who recovers from what a failed job left.  A job that is started  *)
(* again gets a new runner; the concurrency group allows one at a time.    *)
(*                                                                         *)
(* The page addresses a release by its tag: there is none, a draft, or a   *)
(* public one.  An asset is Absent, Stuck (created, never in the state     *)
(* "uploaded"), Torn, or its content.  A call that fails may or may not    *)
(* have been carried out; it is not carried out later.                     *)
(***************************************************************************)
EXTENDS ReleasePackage

VARIABLES
    job,         \* the step the job is at
    remote,      \* the release page
    sawDraft,    \* cleanup has seen a draft
    mine,        \* history: this job created what is on the page
    unseen,      \* history: a release was there and this job's view failed
    excused,     \* history: cleanup could not do its work
    agreed       \* history: archive sets that two builds produced alike

jobVars == <<job, remote, sawDraft, mine, unseen, excused, agreed>>
vars == <<packagerVars, faults, jobVars>>

Stuck == "stuck"
Assets == Contents \cup {Stuck}
NoRelease == [state |-> "none", archives |-> Nothing, manifest |-> Nothing]

ASSUME StuckAssumption == Stuck \notin Binaries

Ended == {"idle", "succeeded", "failed", "killed"}
Trapped == {"create", "upload", "list", "download", "edit", "edited"}

Init ==
    /\ PackagerInit /\ faults = 0
    /\ job = "idle" /\ remote = NoRelease
    /\ sawDraft = FALSE /\ mine = FALSE /\ unseen = FALSE /\ excused = FALSE
    /\ agreed = {}

Goes(from, to) ==
    /\ job = from /\ job' = to
    /\ UNCHANGED <<sawDraft, mine, unseen, excused, agreed>>

-----------------------------------------------------------------------------
(* A tag is pushed, or the workflow is run again.  A dist directory in the *)
(* tagged tree counts as a fault.                                          *)
StartJob ==
    /\ job \in Ended
    /\ job' = "gate"
    /\ pc' = "off" /\ site' = "dist" /\ packaged' = {} /\ binary' = Absent
    /\ staging' = [s \in Sites |-> FALSE]
    /\ manifest' = [s \in Sites |-> Nothing]
    /\ \/ archives' = [s \in Sites |-> Nothing] /\ NoFault
       \/ archives' = [s \in Sites |-> IF s = "dist" THEN [t \in Targets |-> Torn]
                                                     ELSE Nothing] /\ Fault
    /\ sawDraft' = FALSE /\ mine' = FALSE /\ unseen' = FALSE /\ excused' = FALSE
    /\ UNCHANGED <<target, remote, agreed>>

(* The tag and its commit are checked, the tests pass.                     *)
PassGate ==
    /\ Goes("gate", "dist") /\ NoFault
    /\ Launch("dist")
    /\ UNCHANGED remote

(* Both builds of "Build and verify release artifacts".                    *)
PackagerStep ==
    /\ job \in Sites
    /\ Packager
    /\ UNCHANGED jobVars

Rebuild ==
    /\ pc = "ok" /\ NoFault
    /\ Goes("dist", "rebuild")
    /\ Launch("rebuild")
    /\ UNCHANGED remote

(* cmp of the two manifests.                                              *)
Compare ==
    /\ job = "rebuild" /\ pc = "ok" /\ NoFault
    /\ \/ /\ manifest["dist"] = manifest["rebuild"]
          /\ job' = "view"
          /\ agreed' = agreed \cup {manifest["dist"]}
       \/ /\ manifest["dist"] # manifest["rebuild"]
          /\ job' = "failed"
          /\ UNCHANGED agreed
    /\ UNCHANGED <<packagerVars, remote, sawDraft, mine, unseen, excused>>

(* A packager that fails ends the job.                                     *)
BuildFails ==
    /\ job \in Sites /\ pc = "error" /\ NoFault
    /\ Goes(job, "failed")
    /\ UNCHANGED <<packagerVars, remote>>

-----------------------------------------------------------------------------
(***************************************************************************)
(* "Publish complete release".  From "create" on the trap is set.          *)
(***************************************************************************)
(* As View below, setting the trap before the question.                    *)
ViewTrapped ==
    /\ job = "view"
    /\ \/ remote.state = "none" /\ job' = "create" /\ NoFault /\ UNCHANGED unseen
       \/ remote.state # "none" /\ job' = "cleanup" /\ NoFault /\ UNCHANGED unseen
       \/ job' = "create" /\ Fault /\ unseen' = (remote.state # "none")
    /\ UNCHANGED <<packagerVars, remote, sawDraft, mine, excused, agreed>>

(* gh release view: a failure of the call is taken for no release.         *)
View ==
    /\ job = "view"
    /\ \/ remote.state = "none" /\ job' = "create" /\ NoFault /\ UNCHANGED unseen
       \/ remote.state # "none" /\ job' = "failed" /\ NoFault /\ UNCHANGED unseen
       \/ job' = "create" /\ Fault /\ unseen' = (remote.state # "none")
    /\ UNCHANGED <<packagerVars, remote, sawDraft, mine, excused, agreed>>

(* gh release create --draft; the page refuses a second release.           *)
Create ==
    /\ job = "create"
    /\ \/ /\ remote.state = "none"
          /\ remote' = [NoRelease EXCEPT !.state = "draft"] /\ mine' = TRUE
          /\ \/ job' = "upload" /\ NoFault
             \/ job' = "cleanup" /\ Fault
       \/ remote.state # "none" /\ job' = "cleanup" /\ NoFault /\ UNCHANGED <<remote, mine>>
       \/ job' = "cleanup" /\ Fault /\ UNCHANGED <<remote, mine>>
    /\ UNCHANGED <<packagerVars, sawDraft, unseen, excused, agreed>>

(* gh release upload, one file at a time in any order.                     *)
UploadArchive(t) ==
    /\ job = "upload" /\ remote.state = "draft" /\ remote.archives[t] = Absent
    /\ \/ remote' = [remote EXCEPT !.archives[t] = archives["dist"][t]] /\ NoFault
       \/ \E bad \in {Stuck, Torn} :
             remote' = [remote EXCEPT !.archives[t] = bad] /\ Fault
    /\ UNCHANGED <<packagerVars, job, sawDraft, mine, unseen, excused, agreed>>

UploadManifest ==
    /\ job = "upload" /\ remote.state = "draft" /\ remote.manifest = Nothing
    /\ \/ remote' = [remote EXCEPT !.manifest = manifest["dist"]] /\ NoFault
       \/ \E bad \in {Stuck, Torn} :
             remote' = [remote EXCEPT !.manifest = [t \in Targets |-> bad]] /\ Fault
    /\ UNCHANGED <<packagerVars, job, sawDraft, mine, unseen, excused, agreed>>

Uploaded ==
    /\ Goes("upload", "list") /\ NoFault
    /\ remote.manifest # Nothing
    /\ \A t \in Targets : remote.archives[t] # Absent
    /\ UNCHANGED <<packagerVars, remote>>

(* The names of the uploaded assets against those of dist.                 *)
ListAssets ==
    /\ Goes("list", IF \A t \in Targets :
                          Stuck \notin {remote.archives[t], remote.manifest[t]}
                    THEN "download" ELSE "cleanup")
    /\ NoFault
    /\ UNCHANGED <<packagerVars, remote>>

(* As Download below, without sha256sum.                                   *)
DownloadManifestOnly ==
    /\ Goes("download", IF remote.manifest = manifest["dist"] THEN "edit" ELSE "cleanup")
    /\ NoFault
    /\ UNCHANGED <<packagerVars, remote>>

(* The remote manifest is the local one and the remote archives have its   *)
(* checksums.                                                              *)
Download ==
    /\ Goes("download", IF remote.manifest = manifest["dist"]
                            /\ remote.archives = remote.manifest
                        THEN "edit" ELSE "cleanup")
    /\ NoFault
    /\ UNCHANGED <<packagerVars, remote>>

(* As Edit below, without --draft=false.                                   *)
EditKeepsDraft ==
    /\ job = "edit"
    /\ \/ job' = "edited" /\ NoFault
       \/ job' = "cleanup" /\ Fault
    /\ UNCHANGED <<packagerVars, remote, sawDraft, mine, unseen, excused, agreed>>

(* gh release edit --draft=false, the last command of the script.          *)
Edit ==
    /\ job = "edit"
    /\ \/ /\ remote.state = "draft"
          /\ remote' = [remote EXCEPT !.state = "public"]
          /\ \/ job' = "edited" /\ NoFault
             \/ job' = "cleanup" /\ Fault
       \/ job' = "cleanup" /\ Fault /\ UNCHANGED remote
    /\ UNCHANGED <<packagerVars, sawDraft, mine, unseen, excused, agreed>>

ExitZero ==
    /\ Goes("edited", "succeeded") /\ NoFault
    /\ UNCHANGED <<packagerVars, remote>>

(* A command of the script before that fails otherwise.                    *)
CommandFails ==
    /\ \E from \in {"upload", "list", "download"} : Goes(from, "cleanup")
    /\ Fault
    /\ UNCHANGED <<packagerVars, remote>>

-----------------------------------------------------------------------------
(* cleanup, with a failing status: a view that fails is no draft.          *)
CleanupView ==
    /\ job = "cleanup"
    /\ job' = "delete"
    /\ \/ sawDraft' = (remote.state = "draft") /\ NoFault /\ UNCHANGED excused
       \/ sawDraft' = FALSE /\ Fault /\ excused' = TRUE
    /\ UNCHANGED <<packagerVars, remote, mine, unseen, agreed>>

(* gh release delete --yes || true.                                        *)
CleanupDelete ==
    /\ job = "delete"
    /\ job' = "failed"
    /\ \/ /\ sawDraft /\ remote' = NoRelease
          /\ NoFault /\ UNCHANGED excused
       \/ /\ ~sawDraft /\ UNCHANGED <<remote, excused>> /\ NoFault
       \/ /\ sawDraft /\ UNCHANGED remote /\ Fault /\ excused' = TRUE
    /\ UNCHANGED <<packagerVars, sawDraft, mine, unseen, agreed>>

(* As Cancel below, without the INT and TERM traps.                        *)
CancelUntrapped ==
    /\ job \notin Ended /\ Fault
    /\ job' = "failed"
    /\ UNCHANGED <<packagerVars, remote, sawDraft, mine, unseen, excused, agreed>>

(* SIGINT or SIGTERM, between two commands: the shell runs a trap after    *)
(* the command it waits for.  cleanup itself runs without traps.           *)
Cancel ==
    /\ job \notin Ended /\ Fault
    /\ job' = IF job \in Trapped THEN "cleanup" ELSE "failed"
    /\ excused' = (excused \/ job \in {"cleanup", "delete"})
    /\ UNCHANGED <<packagerVars, remote, sawDraft, mine, unseen, agreed>>

(* The runner is lost.                                                     *)
Kill ==
    /\ job \notin Ended /\ Fault
    /\ job' = "killed"
    /\ UNCHANGED <<packagerVars, remote, sawDraft, mine, unseen, excused, agreed>>

(* The owner deletes a draft that no job is working on.                    *)
DeleteDraft ==
    /\ job \in Ended /\ remote.state = "draft" /\ NoFault
    /\ remote' = NoRelease
    /\ UNCHANGED <<packagerVars, job, sawDraft, mine, unseen, excused, agreed>>

-----------------------------------------------------------------------------
Publishing ==
    \/ View \/ Create \/ \E t \in Targets : UploadArchive(t)
    \/ UploadManifest \/ Uploaded \/ ListAssets \/ Download \/ Edit \/ ExitZero
    \/ CommandFails \/ CleanupView \/ CleanupDelete

Job ==
    \/ PassGate \/ PackagerStep \/ Rebuild \/ Compare \/ BuildFails
    \/ Publishing

Next == StartJob \/ Job \/ Cancel \/ Kill \/ DeleteDraft

Spec == Init /\ [][Next]_vars

(* A job that can go on does, and the owner follows the recovery of ADR    *)
(* 0007: delete the draft, run the workflow again.                         *)
LiveSpec ==
    Spec /\ WF_vars(Job) /\ WF_vars(StartJob) /\ SF_vars(DeleteDraft)

-----------------------------------------------------------------------------
(***************************************************************************)
(* Properties.                                                             *)
(***************************************************************************)

(* The detailed job implements the atomic release: whatever fails, is      *)
(* cancelled, killed or answered wrongly at any step, the public page goes *)
(* once from nothing to a whole set that two builds agreed on, and is      *)
(* never changed or withdrawn after that (release.yml, main.go).           *)
Page ==
    IF remote.state = "public" THEN <<remote.archives, remote.manifest>> ELSE <<>>

Atomic == INSTANCE AtomicRelease WITH shown <- Page

ImplementsAtomicRelease == Atomic!Spec

(* A job that ends without having been killed leaves no draft of its own,  *)
(* unless a call of its cleanup failed or the cleanup was cancelled too    *)
(* (the traps of release.yml).                                             *)
EndedJobLeavesNoDraft ==
    job \in Ended \ {"killed"} /\ mine /\ ~excused => remote.state # "draft"

(* A job never touches a release that was there before it, unless its own  *)
(* first look at the page failed (release.yml: the trap is set after that  *)
(* look).                                                                  *)
FoundReleaseIsLeftAlone ==
    [][Job /\ ~mine /\ ~unseen /\ remote.state # "none" => remote' = remote]_vars

(* With finitely many faults the recovery suffices from whatever they left *)
(* behind: the release becomes public.                                     *)
EventuallyPublic == <>(remote.state = "public")
=============================================================================
