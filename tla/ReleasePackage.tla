--------------------------- MODULE ReleasePackage ---------------------------
(***************************************************************************)
(* scripts/release/main.go: packageRelease builds every target into a      *)
(* staging directory, archives and re-reads each binary, removes the       *)
(* staging directory, writes the checksums of what it finds and compares   *)
(* the output directory with what it meant to put there.                   *)
(*                                                                         *)
(* An archive stands for its binary: Absent, Torn, or a member of          *)
(* Binaries.  A checksum stands for the content it is the checksum of, so  *)
(* a manifest is a function like the archives'.  The order of the targets  *)
(* is left open.  Steps that go wrong count as faults, at most MaxFaults.  *)
(***************************************************************************)
EXTENDS Integers, FiniteSets

CONSTANTS
    Targets,     \* platforms: releaseTargets
    Binaries,    \* what a build can produce
    Pinned,      \* what the pinned toolchain produces from this source
    MaxFaults    \* bound: things that go wrong

Absent == "absent"
Torn == "torn"
Sites == {"dist", "rebuild"}     \* output directories

ASSUME TargetAssumption == Targets # {} /\ IsFiniteSet(Targets)
ASSUME BinaryAssumption == Pinned \in Binaries /\ {Absent, Torn} \cap Binaries = {}
ASSUME FaultAssumption == MaxFaults \in Nat

VARIABLES
    pc,         \* the packager: "off" when there is none
    site,       \* its output directory
    packaged,   \* targets it has archived and verified
    target,     \* the target it is at
    binary,     \* the binary it has built, Absent before
    staging,    \* whether .staging is in a directory
    archives,   \* archives in each directory
    manifest,   \* checksums.txt in each directory
    faults      \* how many things went wrong

packagerVars == <<pc, site, packaged, target, binary, staging, archives, manifest>>

Nothing == [t \in Targets |-> Absent]
Contents == Binaries \cup {Absent, Torn}
ArchiveSets == [Targets -> Contents]

Fault == faults < MaxFaults /\ faults' = faults + 1
NoFault == UNCHANGED faults

PackagerInit ==
    /\ pc = "off" /\ site = "dist" /\ packaged = {}
    /\ target \in Targets /\ binary = Absent
    /\ staging = [s \in Sites |-> FALSE]
    /\ archives = [s \in Sites |-> Nothing]
    /\ manifest = [s \in Sites |-> Nothing]

(* A packager is started on directory s.                                   *)
Launch(s) ==
    /\ pc' = "prepare" /\ site' = s /\ packaged' = {} /\ binary' = Absent
    /\ UNCHANGED <<target, staging, archives, manifest>>

-----------------------------------------------------------------------------
(* prepareEmptyDirectory, and the two files every archive contains.        *)
PrepareEmptyDirectory ==
    /\ pc = "prepare" /\ NoFault
    /\ pc' = IF archives[site] = Nothing /\ manifest[site] = Nothing
             THEN "stage" ELSE "error"
    /\ UNCHANGED <<site, packaged, target, binary, staging, archives, manifest>>

MakeStage ==
    /\ pc = "stage" /\ NoFault
    /\ pc' = "build"
    /\ staging' = [staging EXCEPT ![site] = TRUE]
    /\ UNCHANGED <<site, packaged, target, binary, archives, manifest>>

(* buildBinary, verifyNativeVersion and the reading of the binary.  A      *)
(* build that does not reproduce Pinned is a fault nobody notices yet.     *)
BuildBinary(t) ==
    /\ pc = "build" /\ t \notin packaged
    /\ pc' = "write" /\ target' = t
    /\ \/ binary' = Pinned /\ NoFault
       \/ binary' \in Binaries \ {Pinned} /\ Fault
    /\ UNCHANGED <<site, packaged, staging, archives, manifest>>

(* writeTarGz, writeZip: what is on the disk may not be what was written.  *)
WriteArchive ==
    /\ pc = "write"
    /\ pc' = "verify"
    /\ \/ archives' = [archives EXCEPT ![site][target] = binary] /\ NoFault
       \/ archives' = [archives EXCEPT ![site][target] = Torn] /\ Fault
    /\ UNCHANGED <<site, packaged, target, binary, staging, manifest>>

(* Their error path removes the file, or fails at that as well.            *)
WriteArchiveFails ==
    /\ pc = "write" /\ Fault
    /\ pc' = "error"
    /\ archives' \in {archives, [archives EXCEPT ![site][target] = Torn]}
    /\ staging' = [staging EXCEPT ![site] = FALSE]
    /\ UNCHANGED <<site, packaged, target, binary, manifest>>

Verified ==
    /\ packaged' = packaged \cup {target}
    /\ pc' = IF packaged' = Targets THEN "unstage" ELSE "build"
    /\ UNCHANGED staging

Rejected ==
    /\ pc' = "error"
    /\ staging' = [staging EXCEPT ![site] = FALSE]
    /\ UNCHANGED packaged

(* verifyTarGz, verifyZip: the archive read back holds what was built.     *)
VerifyArchive ==
    /\ pc = "verify" /\ NoFault
    /\ \/ archives[site][target] = binary /\ Verified
       \/ archives[site][target] # binary /\ Rejected
    /\ binary' = Absent
    /\ UNCHANGED <<site, target, archives, manifest>>

RemoveStage ==
    /\ pc = "unstage" /\ NoFault
    /\ pc' = "checksum"
    /\ staging' = [staging EXCEPT ![site] = FALSE]
    /\ UNCHANGED <<site, packaged, target, binary, archives, manifest>>

(* writeChecksums: of the archives as they are read now.                   *)
WriteChecksums ==
    /\ pc = "checksum"
    /\ \/ /\ manifest' = [manifest EXCEPT ![site] = archives[site]]
          /\ pc' = "compare" /\ NoFault
       \/ /\ manifest' = [manifest EXCEPT ![site] = [t \in Targets |-> Torn]]
          /\ pc' = "error" /\ Fault
    /\ UNCHANGED <<site, packaged, target, binary, staging, archives>>

VerifyOutputSet ==
    /\ pc = "compare" /\ NoFault
    /\ pc' = IF ~staging[site] /\ \A t \in Targets : archives[site][t] # Absent
             THEN "ok" ELSE "error"
    /\ UNCHANGED <<site, packaged, target, binary, staging, archives, manifest>>

(* Any other error of a system call or of the go command; the deferred     *)
(* RemoveAll takes the staging directory away.                             *)
PackagerFails ==
    /\ pc \in {"prepare", "stage", "build", "verify", "unstage", "checksum", "compare"}
    /\ Fault
    /\ pc' = "error"
    /\ staging' = [staging EXCEPT ![site] = FALSE]
    /\ UNCHANGED <<site, packaged, target, binary, archives, manifest>>

Packager ==
    \/ PrepareEmptyDirectory \/ MakeStage \/ \E t \in Targets : BuildBinary(t)
    \/ WriteArchive \/ WriteArchiveFails \/ VerifyArchive
    \/ RemoveStage \/ WriteChecksums \/ VerifyOutputSet \/ PackagerFails
=============================================================================
