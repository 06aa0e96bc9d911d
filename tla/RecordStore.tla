---------------------------- MODULE RecordStore -----------------------------
(***************************************************************************)
(* The record file as several runs of runprint share it: recordCommand,    *)
(* preflightRecordDestination, prepareRecordDirectory, checkCommand and    *)
(* showCommand of cmd/runprint/main.go, WriteFileWithContentID and         *)
(* ReadFileWithContentID of internal/record/record.go, at the grain of     *)
(* their system calls.  Any run may be killed between two of them, and     *)
(* another program may remove the files or put a directory in their place. *)
(*                                                                         *)
(* All runs use one path.  The file a writer creates is named after it; it *)
(* has Size parts, the last of which is the final newline, without which   *)
(* the rest still decodes but has another content id.  os.CreateTemp is    *)
(* taken to choose a name never chosen before.                             *)
(***************************************************************************)
EXTENDS Integers, FiniteSets

CONSTANTS
    Writers,      \* runs of runprint record
    Readers,      \* runs of runprint check or show
    Size,         \* parts of an encoded record
    DefaultPath,  \* TRUE: the path is .runprint/latest.json
    MaxMeddles    \* bound: interventions of other programs

Old == "old"      \* a record written long ago
None == "none"    \* nothing at the path
Directory == "directory"

ASSUME WritersAssumption == Writers \cap {Old, None, Directory, "nothing"} = {}
ASSUME SizeAssumption == Size \in Nat /\ Size >= 2
ASSUME PathAssumption == DefaultPath \in BOOLEAN /\ MaxMeddles \in Nat

Files == Writers \cup {Old}

VARIABLES
    entry,      \* what the path names: a file, None or Directory
    dirMode,    \* the record's directory: "absent", "open" or "private"
    temps,      \* writers whose temporary file has its name
    probes,     \* writers whose preflight file exists
    written,    \* parts written to each file
    pc,         \* where each writer is
    created,    \* prepareRecordDirectory found no directory
    published,  \* history: writers whose rename was done
    stuck,      \* history: writers whose deferred os.Remove left the file
    rpc, opened, parts,   \* where each reader is, its file, parts read
    meddles

vars == <<entry, dirMode, temps, probes, written, pc, created, published,
          stuck, rpc, opened, parts, meddles>>
readVars == <<rpc, opened, parts>>

Init ==
    /\ entry \in {Old, None, Directory}
    /\ dirMode \in {"absent", "open", "private"}
    /\ dirMode = "absent" => entry = None
    /\ temps = {} /\ probes = {} /\ published = {} /\ stuck = {}
    /\ written = [f \in Files |-> IF f = Old THEN Size ELSE 0]
    /\ pc = [w \in Writers |-> "preflight"]
    /\ created = [w \in Writers |-> FALSE]
    /\ rpc = [r \in Readers |-> "open"]
    /\ opened = [r \in Readers |-> None]
    /\ parts = [r \in Readers |-> 0]
    /\ meddles = 0

Goes(w, from, to) == pc[w] = from /\ pc' = [pc EXCEPT ![w] = to]

-----------------------------------------------------------------------------
(***************************************************************************)
(* recordCommand.  A system call may also fail for reasons of its own (no  *)
(* permission, no space): Fails, or WriteFails once there is a file.       *)
(***************************************************************************)

(* preflightRecordDestination: a directory at the path ends the run; a     *)
(* probe is created in the nearest directory there is.                     *)
Preflight(w) ==
    /\ entry # Directory
    /\ Goes(w, "preflight", "probed")
    /\ probes' = probes \cup {w}
    /\ UNCHANGED <<entry, dirMode, temps, written, created, published, stuck,
                   readVars, meddles>>

(* It is removed again before the command starts.                          *)
RemoveProbe(w) ==
    /\ w \in probes
    /\ Goes(w, "probed", "command")
    /\ probes' = probes \ {w}
    /\ UNCHANGED <<entry, dirMode, temps, written, created, published, stuck,
                   readVars, meddles>>

(* As ProbeFails below, taking a probe that cannot be removed for a probe  *)
(* that was.                                                               *)
ProbeFailsIgnored(w) ==
    /\ Goes(w, "probed", "command")
    /\ UNCHANGED <<entry, dirMode, temps, probes, written, created, published,
                   stuck, readVars, meddles>>

(* Chmod, Close or os.Remove fails: the run does, after the deferred       *)
(* os.Remove.                                                              *)
ProbeFails(w) ==
    /\ Goes(w, "probed", "unprobe")
    /\ UNCHANGED <<entry, dirMode, temps, probes, written, created, published,
                   stuck, readVars, meddles>>

(* The deferred os.Remove, whose error nobody looks at: the probe may stay.*)
RemoveProbeAgain(w) ==
    /\ Goes(w, "unprobe", "failed")
    /\ probes' \in {probes, probes \ {w}}
    /\ stuck' = stuck \cup (probes' \cap {w})
    /\ UNCHANGED <<entry, dirMode, temps, written, created, published, readVars,
                   meddles>>

(* The command ran and there is a receipt.                                 *)
Command(w) ==
    /\ Goes(w, "command", "stat")
    /\ UNCHANGED <<entry, dirMode, temps, probes, written, created, published,
                   stuck, readVars, meddles>>

(* As Stat below, leaving alone the mode of a directory that exists.       *)
StatTrustsExisting(w) ==
    /\ Goes(w, "stat", IF dirMode = "absent" THEN "mkdir" ELSE "create")
    /\ created' = [created EXCEPT ![w] = dirMode = "absent"]
    /\ UNCHANGED <<entry, dirMode, temps, probes, written, published, stuck,
                   readVars, meddles>>

(* prepareRecordDirectory.                                                 *)
Stat(w) ==
    /\ Goes(w, "stat", IF dirMode = "absent" THEN "mkdir"
                       ELSE IF DefaultPath THEN "chmod" ELSE "create")
    /\ created' = [created EXCEPT ![w] = dirMode = "absent"]
    /\ UNCHANGED <<entry, dirMode, temps, probes, written, published, stuck,
                   readVars, meddles>>

(* MkdirAll takes a directory that appeared meanwhile for its own.         *)
Mkdir(w) ==
    /\ Goes(w, "mkdir", "chmod")
    /\ dirMode' = IF dirMode = "absent" THEN "private" ELSE dirMode
    /\ UNCHANGED <<entry, temps, probes, written, created, published, stuck,
                   readVars, meddles>>

Chmod(w) ==
    /\ Goes(w, "chmod", "create")
    /\ created[w] \/ DefaultPath
    /\ dirMode' = "private"
    /\ UNCHANGED <<entry, temps, probes, written, created, published, stuck,
                   readVars, meddles>>

(* As Create below, writing to the path itself.                            *)
CreateInPlace(w) ==
    /\ entry # Directory
    /\ Goes(w, "create", "write")
    /\ entry' = w
    /\ UNCHANGED <<dirMode, temps, probes, written, created, published,
                   stuck, readVars, meddles>>

(* WriteFileWithContentID: the record is encoded and decoded again, then   *)
(* os.CreateTemp in the record's directory.                                *)
Create(w) ==
    /\ Goes(w, "create", "write")
    /\ temps' = temps \cup {w}
    /\ UNCHANGED <<entry, dirMode, probes, written, created, published,
                   stuck, readVars, meddles>>

Write(w) ==
    /\ pc[w] = "write" /\ written[w] < Size
    /\ written' = [written EXCEPT ![w] = @ + 1]
    /\ UNCHANGED <<entry, dirMode, temps, probes, pc, created, published,
                   stuck, readVars, meddles>>

(* temp.Close.                                                             *)
Close(w) ==
    /\ written[w] = Size
    /\ Goes(w, "write", "rename")
    /\ UNCHANGED <<entry, dirMode, temps, probes, written, created, published,
                   stuck, readVars, meddles>>

(* As WriteFails below, without removing the file.                         *)
WriteFailsLeavesFile(w) ==
    /\ Goes(w, "write", "failed") \/ Goes(w, "rename", "failed")
    /\ UNCHANGED <<entry, dirMode, temps, probes, written, created, published,
                   stuck, readVars, meddles>>

(* As WriteFails below, going on when a write came out short.              *)
WriteFailsIgnored(w) ==
    /\ Goes(w, "write", "rename") \/ Goes(w, "rename", "cleanup")
    /\ UNCHANGED <<entry, dirMode, temps, probes, written, created, published,
                   stuck, readVars, meddles>>

(* Chmod, Write, Close or Rename fails: the deferred os.Remove is next.    *)
WriteFails(w) ==
    /\ Goes(w, "write", "cleanup") \/ Goes(w, "rename", "cleanup")
    /\ UNCHANGED <<entry, dirMode, temps, probes, written, created, published,
                   stuck, readVars, meddles>>

(* The kernel renames a file onto a file or nothing, in one step.          *)
Rename(w) ==
    /\ w \in temps /\ entry # Directory
    /\ Goes(w, "rename", "cleanup")
    /\ entry' = w
    /\ temps' = temps \ {w}
    /\ published' = published \cup {w}
    /\ UNCHANGED <<dirMode, probes, written, created, stuck, readVars, meddles>>

(* The deferred os.Remove, whose error nobody looks at: the file may stay. *)
(* After a rename its name is no longer there.                             *)
Cleanup(w) ==
    /\ Goes(w, "cleanup", IF w \in published THEN "recorded" ELSE "failed")
    /\ temps' \in {temps, temps \ {w}}
    /\ stuck' = stuck \cup (temps' \cap {w})
    /\ UNCHANGED <<entry, dirMode, probes, written, created, published, readVars,
                   meddles>>

(* An early return of recordCommand with nothing to undo.                  *)
Fails(w) ==
    /\ \E from \in {"preflight", "command", "stat", "mkdir", "chmod", "create"} :
          Goes(w, from, "failed")
    /\ UNCHANGED <<entry, dirMode, temps, probes, written, created, published,
                   stuck, readVars, meddles>>

Ended == {"recorded", "failed", "crashed"}

(* The run is killed: nothing deferred happens.                            *)
Crash(w) ==
    /\ pc[w] \notin Ended
    /\ pc' = [pc EXCEPT ![w] = "crashed"]
    /\ UNCHANGED <<entry, dirMode, temps, probes, written, created, published,
                   stuck, readVars, meddles>>

-----------------------------------------------------------------------------
(***************************************************************************)
(* ReadFileWithContentID: a file stays readable once opened, whatever      *)
(* becomes of its name.                                                    *)
(***************************************************************************)
ReaderGoes(r, from, to) == rpc[r] = from /\ rpc' = [rpc EXCEPT ![r] = to]

Open(r) ==
    /\ ReaderGoes(r, "open", IF entry \in Files THEN "read" ELSE "error")
    /\ opened' = [opened EXCEPT ![r] = entry]
    /\ UNCHANGED <<entry, dirMode, temps, probes, written, pc, created,
                   published, stuck, parts, meddles>>

(* As Read below, without noticing the end of the file.                    *)
ReadPastEnd(r) ==
    /\ rpc[r] = "read"
    /\ parts' = [parts EXCEPT ![r] = @ + 1]
    /\ UNCHANGED <<entry, dirMode, temps, probes, written, pc, created,
                   published, stuck, rpc, opened, meddles>>

Read(r) ==
    /\ rpc[r] = "read" /\ parts[r] < written[opened[r]]
    /\ parts' = [parts EXCEPT ![r] = @ + 1]
    /\ UNCHANGED <<entry, dirMode, temps, probes, written, pc, created,
                   published, stuck, rpc, opened, meddles>>

(* End of file; the content id is that of the parts read.                  *)
Decode(r) ==
    /\ rpc[r] = "read" /\ parts[r] = written[opened[r]]
    /\ ReaderGoes(r, "read", IF parts[r] >= Size - 1 THEN "accepted" ELSE "rejected")
    /\ UNCHANGED <<entry, dirMode, temps, probes, written, pc, created,
                   published, stuck, opened, parts, meddles>>

-----------------------------------------------------------------------------
(* External: another program, or the recorded command, removes the record, *)
(* a temporary file or a probe, puts a directory at the path, or makes the *)
(* record's directory.                                                     *)
Meddle ==
    /\ meddles < MaxMeddles
    /\ meddles' = meddles + 1
    /\ \/ /\ dirMode # "absent" /\ entry' \in {None, Directory}
          /\ UNCHANGED <<dirMode, temps, probes>>
       \/ /\ \E w \in temps \cup probes :
                temps' = temps \ {w} /\ probes' = probes \ {w}
          /\ UNCHANGED <<entry, dirMode>>
       \/ /\ dirMode = "absent" /\ dirMode' = "open"
          /\ UNCHANGED <<entry, temps, probes>>
    /\ UNCHANGED <<written, pc, created, published, stuck, readVars>>

Record(w) ==
    \/ Preflight(w) \/ RemoveProbe(w) \/ ProbeFails(w) \/ RemoveProbeAgain(w)
    \/ Command(w)
    \/ Stat(w) \/ Mkdir(w) \/ Chmod(w)
    \/ Create(w) \/ Write(w) \/ Close(w) \/ Rename(w) \/ Cleanup(w)
    \/ Fails(w) \/ WriteFails(w)

Next ==
    \/ \E w \in Writers : Record(w) \/ Crash(w)
    \/ \E r \in Readers : Open(r) \/ Read(r) \/ Decode(r)
    \/ Meddle

Spec == Init /\ [][Next]_vars

-----------------------------------------------------------------------------
(***************************************************************************)
(* Properties.                                                             *)
(***************************************************************************)
PCs == {"preflight", "probed", "unprobe", "command", "stat", "mkdir", "chmod",
        "create", "write", "rename", "cleanup"} \cup Ended
ReaderPCs == {"open", "read", "error", "accepted", "rejected"}

(* Types of the store's state.                                             *)
TypeOK ==
    /\ entry \in Files \cup {None, Directory}
    /\ dirMode \in {"absent", "open", "private"}
    /\ temps \subseteq Writers /\ probes \subseteq Writers
    /\ published \subseteq Writers /\ stuck \subseteq Writers
    /\ written \in [Files -> 0 .. Size]
    /\ pc \in [Writers -> PCs]
    /\ created \in [Writers -> BOOLEAN]
    /\ rpc \in [Readers -> ReaderPCs]
    /\ opened \in [Readers -> Files \cup {None, Directory}]
    /\ parts \in [Readers -> 0 .. Size]
    /\ meddles \in 0 .. MaxMeddles

(* Whatever fails, is killed or runs at the same time, the path names a    *)
(* completely written record or none (WriteFileWithContentID "atomically   *)
(* replaces path").                                                        *)
AtomicReplace == entry \in Files => written[entry] = Size

(* check and show accept every record they open, and all of it: the        *)
(* content id is the one its writer printed, also when the record is       *)
(* replaced while they read (ReadFileWithContentID).                       *)
ReadersGetWholeRecords ==
    \A r \in Readers :
        rpc[r] # "rejected" /\ (rpc[r] = "accepted" => parts[r] = Size)

(* A run that reports failure has not replaced the record, and nobody ever *)
(* read what it was about to write (the early returns of recordCommand and *)
(* WriteFileWithContentID).                                                *)
FailureLeavesRecord ==
    \A w \in Writers : pc[w] = "failed" =>
        entry # w /\ \A r \in Readers : opened[r] # w

(* The command never runs, and no record is written, beside a preflight    *)
(* probe that could not be removed; a run that was not killed leaves its   *)
(* temporary file or its probe only when it reports failure and the last   *)
(* os.Remove of that file failed too (the error paths and deferred calls   *)
(* of preflightRecordDestination and WriteFileWithContentID).              *)
NoLitter ==
    \A w \in Writers :
        /\ w \in probes => pc[w] \in {"probed", "unprobe", "failed", "crashed"}
        /\ pc[w] = "recorded" => w \notin temps
        /\ pc[w] = "failed" /\ w \notin stuck => w \notin temps \cup probes

(* A record at the default path lies in a private directory, also when the *)
(* directory existed before or was made by someone else between the Stat   *)
(* and the MkdirAll of prepareRecordDirectory.                             *)
LatestIsPrivate == DefaultPath /\ entry \in Writers => dirMode = "private"

(* The record file is a register.                                          *)
RunState(w) ==
    IF w \in published THEN "published"
    ELSE IF pc[w] \in Ended THEN "gaveUp" ELSE "working"

(* What a reader gets is decided when it opens the path; a read that comes *)
(* out torn is nothing the register can give.                              *)
ReadResult(r) ==
    CASE rpc[r] = "open" -> "nothing"
      [] rpc[r] = "rejected" \/ (rpc[r] = "accepted" /\ parts[r] # Size) -> "torn"
      [] OTHER -> opened[r]

Register == INSTANCE RecordRegister WITH
    Initial <- {Old, None, Directory},
    NotARecord <- {None, Directory},
    current <- entry,
    run <- [w \in Writers |-> RunState(w)],
    got <- [r \in Readers |-> ReadResult(r)]

(* Every run of the store is one of the register: the rename is the only   *)
(* moment at which a run changes what readers get.                         *)
ImplementsRegister == Register!Spec
=============================================================================
