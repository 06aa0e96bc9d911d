---------------------------- MODULE ReleaseProofs ----------------------------
(***************************************************************************)
(* The release job implements the atomic release, leaves no draft of its   *)
(* own and leaves alone what it found, for any set of targets, any outputs *)
(* of the builds and any number of faults.                                 *)
(***************************************************************************)
EXTENDS Release, TLAPS

PackagerPCs == {"off", "prepare", "stage", "build", "write", "verify", "unstage",
                "checksum", "compare", "ok", "error"}
Jobs == Ended \cup Trapped \cup Sites \cup {"gate", "view", "cleanup", "delete"}
Releases == [state : {"none", "draft", "public"},
             archives : [Targets -> Assets], manifest : [Targets -> Assets]]

TypePackager ==
    /\ pc \in PackagerPCs /\ site \in Sites
    /\ packaged \in SUBSET Targets /\ target \in Targets
    /\ binary \in Binaries \cup {Absent}
    /\ staging \in [Sites -> BOOLEAN]
    /\ archives \in [Sites -> ArchiveSets] /\ manifest \in [Sites -> ArchiveSets]

TypeJob ==
    /\ faults \in Nat /\ job \in Jobs /\ remote \in Releases
    /\ sawDraft \in BOOLEAN /\ mine \in BOOLEAN
    /\ unseen \in BOOLEAN /\ excused \in BOOLEAN
    /\ agreed \in SUBSET [Targets -> Binaries]

TypeOK == TypePackager /\ TypeJob

(* What the packager has verified stays a binary, and its manifest is that *)
(* of its archives.                                                        *)
PackagerOK ==
    /\ pc \in {"write", "verify"} => target \notin packaged /\ binary \in Binaries
    /\ \A t \in packaged : archives[site][t] \in Binaries
    /\ pc \in {"unstage", "checksum", "compare", "ok"} => packaged = Targets
    /\ pc \in {"compare", "ok"} => manifest[site] = archives[site]

DistWhole ==
    archives["dist"] \in [Targets -> Binaries] /\ manifest["dist"] = archives["dist"]

JobOK ==
    /\ job \in Sites => site = job
    /\ job \in {"rebuild", "view"} \cup Trapped => DistWhole
    /\ job \in {"view"} \cup Trapped => manifest["dist"] \in agreed
    /\ job = "edit" => remote.manifest = manifest["dist"] /\ remote.archives = remote.manifest
    /\ job = "delete" /\ sawDraft => remote.state = "draft"
    /\ job = "edited" => remote.state = "public"

(* Whose release is on the page.                                           *)
OwnerOK ==
    /\ job \in Trapped \cup {"cleanup", "delete"} =>
          mine \/ unseen \/ remote.state = "none"
    /\ mine =>
          job \notin {"idle", "gate", "dist", "rebuild", "view", "create"}
    /\ mine /\ remote.state = "draft" /\ ~excused =>
          \/ job \in {"upload", "list", "download", "edit", "cleanup", "killed"}
          \/ job = "delete" /\ sawDraft

IInv == TypeOK /\ PackagerOK /\ JobOK /\ OwnerOK

-----------------------------------------------------------------------------
USE DEF Sites, Ended, Trapped

LEMMA NothingTyped == Nothing \in ArchiveSets /\ Nothing \in [Targets -> Assets]
BY DEF Nothing, ArchiveSets, Contents, Assets

LEMMA WholeDist ==
    ASSUME TypeOK, PackagerOK, pc = "ok"
    PROVE  archives[site] \in [Targets -> Binaries] /\ manifest[site] = archives[site]
<1>1. packaged = Targets /\ manifest[site] = archives[site]
    BY DEF PackagerOK
<1>2. \A t \in Targets : archives[site][t] \in Binaries
    BY <1>1 DEF PackagerOK
<1>3. archives[site] \in [Targets -> Contents]
    BY DEF TypeOK, TypePackager, ArchiveSets
<1> QED
    BY <1>1, <1>2, <1>3

LEMMA InitInv == Init => IInv
<1> SUFFICES ASSUME Init PROVE IInv
    OBVIOUS
<1> USE NothingTyped DEF Init, PackagerInit
<1>1. TypePackager
    BY DEF TypePackager, PackagerPCs
<1>2. remote \in Releases
    BY DEF NoRelease, Releases
<1>3. TypeJob
    BY <1>2 DEF TypeJob, Jobs
<1>4. PackagerOK /\ JobOK /\ OwnerOK
    BY DEF PackagerOK, JobOK, OwnerOK, DistWhole
<1> QED
    BY <1>1, <1>3, <1>4 DEF IInv, TypeOK

(* A step of the packager: its own types and invariant, and the other      *)
(* directory untouched.                                                    *)
LEMMA PackagerStepOK ==
    ASSUME TypePackager, PackagerOK, faults \in Nat, Packager
    PROVE  /\ TypePackager' /\ PackagerOK' /\ faults' \in Nat /\ site' = site
           /\ \A s \in Sites \ {site} :
                 archives'[s] = archives[s] /\ manifest'[s] = manifest[s]
<1> USE TargetAssumption, BinaryAssumption DEF TypePackager, PackagerOK, PackagerPCs
<1> faults' \in Nat
    BY DEF Packager, PrepareEmptyDirectory, MakeStage, BuildBinary, WriteArchive,
           WriteArchiveFails, VerifyArchive, RemoveStage, WriteChecksums,
           VerifyOutputSet, PackagerFails, Fault, NoFault
<1>1. CASE PrepareEmptyDirectory
    BY <1>1 DEF PrepareEmptyDirectory
<1>2. CASE MakeStage
    BY <1>2 DEF MakeStage
<1>3. CASE \E t \in Targets : BuildBinary(t)
    BY <1>3 DEF BuildBinary
<1>4. ASSUME WriteArchive \/ WriteArchiveFails,
             NEW c \in Contents, archives' = [archives EXCEPT ![site][target] = c]
      PROVE  /\ archives' \in [Sites -> ArchiveSets]
             /\ archives'[site] = [archives[site] EXCEPT ![target] = c]
             /\ \A s \in Sites \ {site} : archives'[s] = archives[s]
    BY <1>4 DEF ArchiveSets
<1>5. CASE WriteArchive
    <2>1. PICK c \in Contents : archives' = [archives EXCEPT ![site][target] = c]
        BY <1>5 DEF WriteArchive, Contents
    <2>2. /\ archives' \in [Sites -> ArchiveSets]
          /\ archives'[site] = [archives[site] EXCEPT ![target] = c]
          /\ \A s \in Sites \ {site} : archives'[s] = archives[s]
        BY <2>1, <1>4, <1>5
    <2>3. target \notin packaged /\ binary \in Binaries /\ pc' = "verify"
          /\ UNCHANGED <<site, packaged, target, binary, staging, manifest>>
        BY <1>5 DEF WriteArchive
    <2>4. archives[site] \in [Targets -> Contents]
        BY DEF ArchiveSets
    <2>5. \A t \in packaged : archives'[site][t] = archives[site][t]
        BY <2>2, <2>3, <2>4
    <2> QED
        BY <2>2, <2>3, <2>5
<1>6. CASE WriteArchiveFails
    <2>1. \/ archives' = archives
          \/ archives' = [archives EXCEPT ![site][target] = Torn]
        BY <1>6 DEF WriteArchiveFails
    <2>2. target \notin packaged /\ pc' = "error" /\ staging' \in [Sites -> BOOLEAN]
          /\ UNCHANGED <<site, packaged, target, binary, manifest>>
        BY <1>6 DEF WriteArchiveFails
    <2>3. archives[site] \in [Targets -> Contents]
        BY DEF ArchiveSets
    <2>4. /\ archives' \in [Sites -> ArchiveSets]
          /\ \A s \in Sites \ {site} : archives'[s] = archives[s]
          /\ \A t \in packaged : archives'[site][t] = archives[site][t]
        BY <2>1, <2>2, <2>3, <1>4, <1>6 DEF Contents
    <2> QED
        BY <2>2, <2>4
<1>7. CASE VerifyArchive
    <2>1. /\ pc = "verify" /\ binary \in Binaries /\ binary' = Absent
          /\ UNCHANGED <<site, target, archives, manifest>>
        BY <1>7 DEF VerifyArchive
    <2>2. CASE archives[site][target] = binary /\ Verified
        BY <2>1, <2>2 DEF Verified
    <2>3. CASE Rejected
        BY <2>1, <2>3 DEF Rejected
    <2> QED
        BY <1>7, <2>2, <2>3 DEF VerifyArchive
<1>8. CASE RemoveStage
    BY <1>8 DEF RemoveStage
<1>9. CASE WriteChecksums
    <2>1. [t \in Targets |-> Torn] \in ArchiveSets /\ archives[site] \in ArchiveSets
        BY DEF ArchiveSets, Contents
    <2> QED
        BY <1>9, <2>1 DEF WriteChecksums
<1>10. CASE VerifyOutputSet
    BY <1>10 DEF VerifyOutputSet
<1>11. CASE PackagerFails
    BY <1>11 DEF PackagerFails
<1> QED
    BY <1>1, <1>2, <1>3, <1>5, <1>6, <1>7, <1>8, <1>9, <1>10, <1>11 DEF Packager

-----------------------------------------------------------------------------
(* What the steps that leave the packager alone need to show.              *)
LEMMA QuietPackager ==
    ASSUME IInv, UNCHANGED packagerVars
    PROVE  TypePackager' /\ PackagerOK' /\ (DistWhole' <=> DistWhole)
BY DEF IInv, TypeOK, TypePackager, PackagerOK, DistWhole, packagerVars

LEMMA FaultsTyped ==
    ASSUME IInv, Fault \/ NoFault
    PROVE  faults' \in Nat
BY FaultAssumption DEF IInv, TypeOK, TypeJob, Fault, NoFault

(* The steps before the publication.                                       *)
LEMMA BuildingOK ==
    ASSUME IInv,
           \/ StartJob \/ PassGate \/ PackagerStep \/ Rebuild \/ Compare \/ BuildFails
    PROVE  IInv'
<1> USE DEF IInv, TypeOK
<1>1. CASE StartJob
    <2>1. [t \in Targets |-> Torn] \in ArchiveSets
        BY DEF ArchiveSets, Contents
    <2>2. TypePackager'
        BY <1>1, <2>1, NothingTyped DEF StartJob, TypePackager, PackagerPCs
    <2>3. TypeJob'
        BY <1>1, FaultsTyped DEF StartJob, TypeJob, Jobs
    <2>4. PackagerOK' /\ JobOK' /\ OwnerOK'
        BY <1>1 DEF StartJob, PackagerOK, JobOK, OwnerOK
    <2> QED
        BY <2>2, <2>3, <2>4
<1>2. CASE PassGate
    <2>1. TypePackager' /\ TypeJob'
        BY <1>2, FaultsTyped
           DEF PassGate, Goes, Launch, TypePackager, TypeJob, PackagerPCs, Jobs
    <2>2. PackagerOK' /\ JobOK' /\ OwnerOK'
        BY <1>2 DEF PassGate, Goes, Launch, PackagerOK, JobOK, OwnerOK
    <2> QED
        BY <2>1, <2>2
<1>3. CASE PackagerStep
    <2>1. /\ TypePackager' /\ PackagerOK' /\ faults' \in Nat /\ site' = site
          /\ \A s \in Sites \ {site} :
                archives'[s] = archives[s] /\ manifest'[s] = manifest[s]
        BY <1>3, PackagerStepOK DEF PackagerStep, TypeJob
    <2>2. job \in Sites /\ UNCHANGED jobVars
        BY <1>3 DEF PackagerStep
    <2>3. TypeJob' /\ OwnerOK'
        BY <2>1, <2>2 DEF TypeJob, OwnerOK, jobVars
    <2>4. JobOK'
        BY <2>1, <2>2 DEF JobOK, DistWhole, jobVars
    <2> QED
        BY <2>1, <2>3, <2>4
<1>4. CASE Rebuild
    <2>1. TypePackager' /\ TypeJob'
        BY <1>4, FaultsTyped
           DEF Rebuild, Goes, Launch, TypePackager, TypeJob, PackagerPCs, Jobs
    <2>2. DistWhole'
        BY <1>4, WholeDist DEF Rebuild, Goes, Launch, JobOK, DistWhole
    <2>3. PackagerOK' /\ JobOK' /\ OwnerOK'
        BY <1>4, <2>2 DEF Rebuild, Goes, Launch, PackagerOK, JobOK, OwnerOK
    <2> QED
        BY <2>1, <2>3
<1>5. CASE Compare
    <2>1. TypePackager' /\ PackagerOK' /\ (DistWhole' <=> DistWhole)
        BY <1>5, QuietPackager DEF Compare
    <2>2. TypeJob' /\ DistWhole
        BY <1>5, FaultsTyped DEF Compare, TypeJob, Jobs, JobOK, DistWhole
    <2>3. JobOK' /\ OwnerOK'
        BY <1>5, <2>1, <2>2 DEF Compare, packagerVars, JobOK, OwnerOK
    <2> QED
        BY <2>1, <2>2, <2>3
<1>6. CASE BuildFails
    <2>1. TypePackager' /\ PackagerOK'
        BY <1>6, QuietPackager DEF BuildFails
    <2>2. TypeJob' /\ JobOK' /\ OwnerOK'
        BY <1>6, FaultsTyped
           DEF BuildFails, Goes, packagerVars, TypeJob, Jobs, JobOK, OwnerOK
    <2> QED
        BY <2>1, <2>2
<1> QED
    BY <1>1, <1>2, <1>3, <1>4, <1>5, <1>6

(* The steps of "Publish complete release".                                *)
LEMMA PublishingOK ==
    ASSUME IInv, Publishing
    PROVE  IInv'
<1> USE DEF IInv, TypeOK
<1>1. UNCHANGED packagerVars /\ (Fault \/ NoFault)
    BY DEF Publishing, View, Create, UploadArchive, UploadManifest, Uploaded, ListAssets,
           Download, Edit, ExitZero, CommandFails, CleanupView, CleanupDelete
<1>2. /\ TypePackager' /\ PackagerOK' /\ (DistWhole' <=> DistWhole) /\ faults' \in Nat
      /\ UNCHANGED <<site, archives, manifest>>
    BY <1>1, QuietPackager, FaultsTyped DEF packagerVars
<1>3. NoRelease \in Releases /\ [NoRelease EXCEPT !.state = "draft"] \in Releases
    BY NothingTyped DEF NoRelease, Releases
<1>4. CASE View
    BY <1>2, <1>4 DEF View, TypeJob, Jobs, JobOK, OwnerOK
<1>5. CASE Create
    BY <1>2, <1>3, <1>5 DEF Create, TypeJob, Jobs, JobOK, OwnerOK, NoRelease
<1>6. CASE \E t \in Targets : UploadArchive(t)
    <2>1. PICK t \in Targets, c \in Assets :
             /\ job = "upload" /\ remote.state = "draft"
             /\ remote' = [remote EXCEPT !.archives[t] = c]
             /\ UNCHANGED <<job, sawDraft, mine, unseen, excused, agreed>>
        <3>1. PICK t \in Targets : UploadArchive(t)
            BY <1>6
        <3>2. archives["dist"][t] \in Assets /\ Stuck \in Assets /\ Torn \in Assets
            BY DEF TypePackager, ArchiveSets, Assets, Contents
        <3> QED
            BY <3>1, <3>2 DEF UploadArchive
    <2>2. remote' \in Releases /\ remote'.state = "draft"
        BY <2>1 DEF TypeJob, Releases
    <2> QED
        BY <1>2, <2>1, <2>2 DEF TypeJob, JobOK, OwnerOK
<1>7. CASE UploadManifest
    <2>1. PICK m \in [Targets -> Assets] :
             /\ job = "upload" /\ remote.state = "draft"
             /\ remote' = [remote EXCEPT !.manifest = m]
             /\ UNCHANGED <<job, sawDraft, mine, unseen, excused, agreed>>
        <3>1. manifest["dist"] \in [Targets -> Assets]
            BY DEF TypePackager, ArchiveSets, Assets
        <3>2. \A bad \in {Stuck, Torn} : [t \in Targets |-> bad] \in [Targets -> Assets]
            BY DEF Assets, Contents
        <3> QED
            BY <1>7, <3>1, <3>2 DEF UploadManifest
    <2>2. remote' \in Releases /\ remote'.state = "draft"
        BY <2>1 DEF TypeJob, Releases
    <2> QED
        BY <1>2, <2>1, <2>2 DEF TypeJob, JobOK, OwnerOK
<1>8. CASE Uploaded
    BY <1>2, <1>8 DEF Uploaded, Goes, TypeJob, Jobs, JobOK, OwnerOK
<1>9. CASE ListAssets
    BY <1>2, <1>9 DEF ListAssets, Goes, TypeJob, Jobs, JobOK, OwnerOK
<1>10. CASE Download
    BY <1>2, <1>10 DEF Download, Goes, TypeJob, Jobs, JobOK, OwnerOK
<1>11. CASE Edit
    BY <1>2, <1>11 DEF Edit, TypeJob, Jobs, JobOK, OwnerOK, Releases
<1>12. CASE ExitZero
    BY <1>2, <1>12 DEF ExitZero, Goes, TypeJob, Jobs, JobOK, OwnerOK
<1>13. CASE CommandFails
    BY <1>2, <1>13 DEF CommandFails, Goes, TypeJob, Jobs, JobOK, OwnerOK
<1>14. CASE CleanupView
    BY <1>2, <1>14 DEF CleanupView, TypeJob, Jobs, JobOK, OwnerOK
<1>15. CASE CleanupDelete
    <2>1. /\ job' = "failed" /\ UNCHANGED <<sawDraft, mine, unseen, agreed>>
          /\ excused' \in BOOLEAN /\ remote' \in Releases
        BY <1>3, <1>15 DEF CleanupDelete, TypeJob
    <2>2. mine' /\ remote'.state = "draft" => excused'
        BY <1>15 DEF CleanupDelete, OwnerOK, NoRelease
    <2> QED
        BY <1>2, <2>1, <2>2 DEF TypeJob, Jobs, JobOK, OwnerOK
<1> HIDE DEF IInv, TypeOK
<1> QED
    BY <1>4, <1>5, <1>6, <1>7, <1>8, <1>9, <1>10, <1>11, <1>12, <1>13, <1>14, <1>15
       DEF Publishing

(* Every step.                                                             *)
LEMMA NextInv == IInv /\ [Next]_vars => IInv'
<1> SUFFICES ASSUME IInv, [Next]_vars PROVE IInv'
    OBVIOUS
<1>1. CASE StartJob \/ Job
    BY <1>1, BuildingOK, PublishingOK DEF Job
<1>2. CASE Cancel
    <2>1. TypePackager' /\ PackagerOK' /\ (DistWhole' <=> DistWhole) /\ faults' \in Nat
        BY <1>2, QuietPackager, FaultsTyped DEF Cancel
    <2> QED
        BY <1>2, <2>1 DEF IInv, TypeOK, Cancel, packagerVars, TypeJob, Jobs, JobOK, OwnerOK
<1>3. CASE Kill
    <2>1. TypePackager' /\ PackagerOK' /\ (DistWhole' <=> DistWhole) /\ faults' \in Nat
        BY <1>3, QuietPackager, FaultsTyped DEF Kill
    <2> QED
        BY <1>3, <2>1 DEF IInv, TypeOK, Kill, packagerVars, TypeJob, Jobs, JobOK, OwnerOK
<1>4. CASE DeleteDraft
    <2>1. TypePackager' /\ PackagerOK' /\ (DistWhole' <=> DistWhole) /\ faults' \in Nat
        BY <1>4, QuietPackager, FaultsTyped DEF DeleteDraft
    <2>2. NoRelease \in Releases /\ NoRelease.state = "none"
        BY NothingTyped DEF NoRelease, Releases
    <2> QED
        BY <1>4, <2>1, <2>2
           DEF IInv, TypeOK, DeleteDraft, packagerVars, TypeJob, Jobs, JobOK, OwnerOK
<1>5. CASE UNCHANGED vars
    BY <1>5 DEF vars, packagerVars, jobVars, IInv, TypeOK, TypePackager, TypeJob,
                PackagerOK, JobOK, OwnerOK, DistWhole
<1> QED
    BY <1>1, <1>2, <1>3, <1>4, <1>5 DEF Next

LEMMA Invariance == Spec => []IInv
BY InitInv, NextInv, PTL DEF Spec

-----------------------------------------------------------------------------
(* Only these steps change the page, and they do so:                       *)
LEMMA PageChanges ==
    ASSUME IInv, [Next]_vars, remote' # remote
    PROVE  \/ job = "create" /\ remote.state = "none" /\ remote'.state = "draft"
           \/ /\ job \in {"upload", "edit", "delete"} /\ Job
              /\ remote.state = "draft"
              /\ remote'.state = "public" =>
                    job = "edit" /\ remote' = [remote EXCEPT !.state = "public"]
           \/ job \in Ended /\ remote.state = "draft" /\ remote' = NoRelease /\ ~Job
<1>1. CASE StartJob
    BY <1>1 DEF StartJob
<1>2. CASE PassGate \/ PackagerStep \/ Rebuild \/ Compare \/ BuildFails
    BY <1>2 DEF PassGate, PackagerStep, Rebuild, Compare, BuildFails, jobVars
<1>3. CASE Publishing
    <2> remote \in Releases /\ Job
        BY <1>3 DEF IInv, TypeOK, TypeJob, Job
    <2>1. CASE View \/ Uploaded \/ ListAssets \/ Download \/ ExitZero \/ CommandFails
               \/ CleanupView
        BY <2>1 DEF View, Uploaded, ListAssets, Download, ExitZero, CommandFails, CleanupView
    <2>2. CASE Create
        BY <2>2 DEF Create, NoRelease
    <2>3. CASE \E t \in Targets : UploadArchive(t)
        BY <2>3 DEF UploadArchive, Releases
    <2>4. CASE UploadManifest
        BY <2>4 DEF UploadManifest, Releases
    <2>5. CASE Edit
        BY <2>5 DEF Edit
    <2>6. CASE CleanupDelete
        BY <2>6 DEF CleanupDelete, NoRelease, IInv, JobOK
    <2> QED
        BY <1>3, <2>1, <2>2, <2>3, <2>4, <2>5, <2>6 DEF Publishing
<1>4. CASE Cancel \/ Kill
    BY <1>4 DEF Cancel, Kill
<1>5. CASE DeleteDraft
    <2>1. job \in Ended /\ job' = job /\ remote.state = "draft" /\ remote' = NoRelease
        BY <1>5 DEF DeleteDraft
    <2>2. ~Job
        BY <2>1 DEF Job, PassGate, PackagerStep, Rebuild, Compare, BuildFails, Publishing,
                    View, Create, UploadArchive, UploadManifest, Uploaded, ListAssets,
                    Download, Edit, ExitZero, CommandFails, CleanupView, CleanupDelete, Goes
    <2> QED
        BY <2>1, <2>2
<1>6. CASE UNCHANGED vars
    BY <1>6 DEF vars, jobVars
<1> QED
    BY <1>1, <1>2, <1>3, <1>4, <1>5, <1>6 DEF Next, Job

(* Every variable of the release job keeps its type (release.yml,          *)
(* scripts/release/main.go).                                               *)
THEOREM TypeCorrect == Spec => []TypeOK
<1>1. IInv => TypeOK
    BY DEF IInv
<1> QED
    BY <1>1, Invariance, PTL

(* A job that was not killed leaves no draft of its own (the traps of      *)
(* release.yml), but for a cleanup that failed or was cancelled.           *)
THEOREM NoDraftLeft == Spec => []EndedJobLeavesNoDraft
<1>1. IInv => EndedJobLeavesNoDraft
    BY DEF IInv, OwnerOK, EndedJobLeavesNoDraft
<1> QED
    BY <1>1, Invariance, PTL

(* What was on the page before a job is left alone, but for a job whose    *)
(* first look at it failed (release.yml).                                  *)
THEOREM FoundLeftAlone == Spec => FoundReleaseIsLeftAlone
<1>1. ASSUME IInv, [Next]_vars
      PROVE  [Job /\ ~mine /\ ~unseen /\ remote.state # "none" => remote' = remote]_vars
    <2> SUFFICES ASSUME Job, ~mine, ~unseen, remote.state # "none", remote' # remote
                 PROVE  FALSE
        OBVIOUS
    <2>1. job \in {"upload", "edit", "delete"}
        BY <1>1, PageChanges
    <2> QED
        BY <1>1, <2>1 DEF IInv, OwnerOK
<1> QED
    BY <1>1, Invariance, PTL DEF Spec, FoundReleaseIsLeftAlone

(* The job implements the atomic release: whatever fails, the page shows   *)
(* nothing, or a whole set of archives with the checksums of exactly       *)
(* these that two builds agreed on, and that for good (release.yml,        *)
(* scripts/release/main.go, ADR 0007).                                     *)
THEOREM ReleaseIsAtomic == Spec => ImplementsAtomicRelease
<1>1. Init => Atomic!Init
    BY DEF Init, Atomic!Init, Page, NoRelease
<1>2. ASSUME IInv, [Next]_vars
      PROVE  [Atomic!Next]_<<agreed, Page>>
    <2> SUFFICES ASSUME agreed' # agreed \/ Page' # Page PROVE Atomic!Next
        OBVIOUS
    <2>1. CASE remote' # remote
        <3>1. PICK r \in Releases : r = remote
            BY <1>2 DEF IInv, TypeOK, TypeJob
        <3>2. agreed' = agreed
            BY <1>2, <2>1 DEF Next, Job, StartJob, PassGate, PackagerStep, Rebuild, Compare,
               BuildFails, Publishing, View, Create, UploadArchive, UploadManifest,
               Uploaded, ListAssets, Download, Edit, ExitZero, CommandFails,
               CleanupView, CleanupDelete, Cancel, Kill, DeleteDraft, Goes, jobVars, vars
        <3>3. remote.state = "draft" /\ remote'.state = "public"
            BY <1>2, <2>1, <3>2, PageChanges DEF Page, NoRelease
        <3>4. job = "edit" /\ remote' = [remote EXCEPT !.state = "public"]
            BY <1>2, <2>1, <3>3, PageChanges DEF NoRelease
        <3>5. /\ remote.manifest \in agreed
              /\ remote.archives = remote.manifest
            BY <1>2, <3>4 DEF IInv, JobOK
        <3>6. Page = <<>> /\ Page' = <<remote.manifest, remote.manifest>>
            BY <3>1, <3>3, <3>4, <3>5 DEF Page, Releases
        <3> QED
            BY <3>2, <3>5, <3>6 DEF Atomic!Next, Atomic!Publish, Atomic!Whole
    <2>2. CASE remote' = remote
        <3>1. Page' = Page /\ agreed' # agreed
            BY <2>2 DEF Page
        <3>2. Compare
            BY <1>2, <3>1 DEF Next, Job, StartJob, PassGate, PackagerStep, Rebuild,
               BuildFails, Publishing, View, Create, UploadArchive, UploadManifest,
               Uploaded, ListAssets, Download, Edit, ExitZero, CommandFails,
               CleanupView, CleanupDelete, Cancel, Kill, DeleteDraft, Goes, jobVars, vars
        <3>3. agreed' = agreed \cup {manifest["dist"]}
              /\ manifest["dist"] \in [Targets -> Binaries]
            BY <1>2, <3>1, <3>2 DEF Compare, IInv, JobOK, DistWhole
        <3> QED
            BY <3>1, <3>3 DEF Atomic!Next, Atomic!Agree, Atomic!Archives
    <2> QED
        BY <2>1, <2>2
<1> QED
    BY <1>1, <1>2, Invariance, PTL DEF Spec, ImplementsAtomicRelease, Atomic!Spec

==============================================================================
