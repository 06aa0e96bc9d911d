------------------------- MODULE RecordStoreProofs -------------------------
(***************************************************************************)
(* Proofs about RecordStore for every set of writers and readers and every *)
(* size of a record.                                                       *)
(***************************************************************************)
EXTENDS RecordStore, TLAPS

(* What is known of each writer.  A file under its final name was written  *)
(* to the end, and a run that can still fail has not renamed.              *)
WriterInv(w) ==
    /\ pc[w] = "rename" => written[w] = Size
    /\ w \in published => pc[w] \in {"cleanup", "recorded", "crashed"} /\ written[w] = Size
    /\ w \in temps => /\ w \notin published
                      /\ pc[w] \in {"write", "rename", "cleanup", "failed", "crashed"}
    /\ w \in probes => pc[w] \in {"probed", "unprobe", "failed", "crashed"}
    /\ pc[w] = "failed" /\ w \notin stuck => w \notin temps \cup probes
    /\ pc[w] = "recorded" => w \in published
    /\ DefaultPath /\ pc[w] \in {"create", "write", "rename"} => dirMode = "private"

(* What is known of each reader.                                           *)
ReaderInv(r) ==
    /\ opened[r] \in Writers => opened[r] \in published
    /\ rpc[r] = "open" => opened[r] = None /\ parts[r] = 0
    /\ rpc[r] = "read" => opened[r] \in Files /\ parts[r] <= Size
    /\ rpc[r] = "accepted" => parts[r] = Size
    /\ rpc[r] # "rejected"

EntryInv ==
    /\ entry \in Writers => entry \in published
    /\ written[Old] = Size
    /\ LatestIsPrivate

Inv ==
    /\ TypeOK
    /\ \A w \in Writers : WriterInv(w)
    /\ \A r \in Readers : ReaderInv(r)
    /\ EntryInv

LEMMA InitInv == Init => Inv
<1> SUFFICES ASSUME Init PROVE Inv
  OBVIOUS
<1>1. TypeOK
  BY SizeAssumption, PathAssumption DEF Init, TypeOK, Files, PCs, ReaderPCs
<1>2. \A w \in Writers : WriterInv(w)
  BY DEF Init, WriterInv
<1>3. \A r \in Readers : ReaderInv(r)
  BY WritersAssumption DEF Init, ReaderInv, None
<1>4. EntryInv
  BY WritersAssumption DEF Init, EntryInv, LatestIsPrivate, Files
<1> QED BY <1>1, <1>2, <1>3, <1>4 DEF Inv

(* A file under its final name, or one that a reader holds, is whole.      *)
LEMMA PublishedWhole ==
    ASSUME Inv, NEW f \in Files, f \in Writers => f \in published
    PROVE  written[f] = Size
BY DEF Inv, WriterInv, EntryInv, Files

-----------------------------------------------------------------------------
(* The steps of one writer keep the types.                                 *)
LEMMA RecordTypeOK ==
    ASSUME TypeOK, NEW w \in Writers, Record(w) \/ Crash(w)
    PROVE  TypeOK'
<1>1. UNCHANGED <<readVars, meddles>>
  BY DEF Record, Preflight, RemoveProbe, ProbeFails, RemoveProbeAgain, Command,
         Stat, Mkdir, Chmod, Create, Write, Close, Rename, Cleanup, Fails,
         WriteFails, Crash
<1>2. pc' \in [Writers -> PCs]
  BY DEF TypeOK, Record, Preflight, RemoveProbe, ProbeFails, RemoveProbeAgain,
         Command, Stat, Mkdir, Chmod, Create, Write, Close, Rename, Cleanup,
         Fails, WriteFails, Crash, Goes, PCs, Ended
<1>3. written' \in [Files -> 0 .. Size]
  <2>1. CASE Write(w)
    <3>1. w \in Files /\ written[w] \in 0 .. Size /\ written[w] < Size
      BY <2>1 DEF Write, TypeOK, Files
    <3>2. written[w] + 1 \in 0 .. Size
      BY <3>1, SizeAssumption
    <3> QED BY <2>1, <3>2 DEF Write, TypeOK
  <2>2. CASE ~Write(w)
    BY <2>2 DEF TypeOK, Record, Preflight, RemoveProbe, ProbeFails,
                RemoveProbeAgain, Command, Stat, Mkdir, Chmod, Create, Close,
                Rename, Cleanup, Fails, WriteFails, Crash
  <2> QED BY <2>1, <2>2
<1>4. created' \in [Writers -> BOOLEAN]
  <2>1. CASE Stat(w)
    <3>1. (dirMode = "absent") \in BOOLEAN
      OBVIOUS
    <3> QED BY <2>1, <3>1 DEF Stat, TypeOK
  <2>2. CASE ~Stat(w)
    BY <2>2 DEF TypeOK, Record, Preflight, RemoveProbe, ProbeFails,
                RemoveProbeAgain, Command, Mkdir, Chmod, Create, Write, Close,
                Rename, Cleanup, Fails, WriteFails, Crash
  <2> QED BY <2>1, <2>2
<1>5. /\ entry' \in Files \cup {None, Directory}
      /\ dirMode' \in {"absent", "open", "private"}
      /\ temps' \subseteq Writers /\ probes' \subseteq Writers
      /\ published' \subseteq Writers /\ stuck' \subseteq Writers
  BY DEF TypeOK, Files, Record, Preflight, RemoveProbe, ProbeFails,
         RemoveProbeAgain, Command, Stat, Mkdir, Chmod, Create, Write, Close,
         Rename, Cleanup, Fails, WriteFails, Crash
<1> QED BY <1>1, <1>2, <1>3, <1>4, <1>5 DEF TypeOK, readVars

LEMMA RecordInv ==
    ASSUME Inv, NEW w \in Writers, Record(w) \/ Crash(w)
    PROVE  Inv'
<1> USE DEF Record, Preflight, RemoveProbe, ProbeFails, RemoveProbeAgain,
            Command, Stat, Mkdir, Chmod, Create, Write, Close, Rename, Cleanup,
            Fails, WriteFails, Crash, Goes, Ended
<1>1. TypeOK /\ TypeOK'
  BY RecordTypeOK DEF Inv
<1>2. /\ \A v \in Writers \ {w} : /\ pc'[v] = pc[v] /\ written'[v] = written[v]
                                  /\ v \in published' <=> v \in published
                                  /\ v \in temps' <=> v \in temps
                                  /\ v \in probes' <=> v \in probes
                                  /\ v \in stuck' <=> v \in stuck
      /\ written'[Old] = written[Old]
      /\ published \subseteq published' /\ (dirMode = "private" => dirMode' = "private")
  BY <1>1, WritersAssumption DEF TypeOK, Files
<1>3. WriterInv(w)'
  <2> USE <1>1 DEF TypeOK, WriterInv, Inv, Files
  <2>1. CASE \/ Preflight(w) \/ RemoveProbe(w) \/ ProbeFails(w)
             \/ RemoveProbeAgain(w) \/ Command(w) \/ Fails(w) \/ Crash(w)
    BY <2>1
  <2>2. CASE Stat(w) \/ Mkdir(w) \/ Chmod(w)
    BY <2>2
  <2>3. CASE Create(w) \/ Write(w) \/ Close(w)
    BY <2>3
  <2>4. CASE Rename(w) \/ Cleanup(w) \/ WriteFails(w)
    BY <2>4
  <2> QED BY <2>1, <2>2, <2>3, <2>4 DEF Record
<1>4. \A v \in Writers \ {w} : WriterInv(v)'
  BY <1>2 DEF WriterInv, Inv
<1>5. \A r \in Readers : ReaderInv(r)'
  BY <1>2 DEF ReaderInv, Inv, readVars
<1>6. EntryInv'
  BY <1>1, <1>2 DEF EntryInv, LatestIsPrivate, Inv, WriterInv
<1> QED BY <1>1, <1>3, <1>4, <1>5, <1>6 DEF Inv

LEMMA ReaderStepInv ==
    ASSUME Inv, NEW r \in Readers, Open(r) \/ Read(r) \/ Decode(r)
    PROVE  Inv'
<1>1. UNCHANGED <<entry, dirMode, temps, probes, written, pc, created, published, stuck, meddles>>
  BY DEF Open, Read, Decode
<1>2. TypeOK
  BY DEF Inv
<1>3. rpc[r] = "read" => opened[r] \in Files /\ written[opened[r]] = Size
  BY PublishedWhole DEF Inv, ReaderInv
<1>4. CASE Open(r)
  <2>1. TypeOK'
    BY <1>1, <1>2, <1>4 DEF Open, ReaderGoes, TypeOK, ReaderPCs
  <2>2. ReaderInv(r)'
    BY <1>1, <1>2, <1>4, SizeAssumption DEF Open, ReaderGoes, TypeOK, ReaderInv, Inv, EntryInv
  <2>3. \A q \in Readers \ {r} : ReaderInv(q)'
    BY <1>1, <1>2, <1>4 DEF Open, ReaderGoes, TypeOK, ReaderInv, Inv
  <2> QED BY <1>1, <2>1, <2>2, <2>3 DEF Inv, WriterInv, EntryInv, LatestIsPrivate
<1>5. CASE Read(r)
  <2>1. parts[r] + 1 \in 0 .. Size
    BY <1>2, <1>3, <1>5, SizeAssumption DEF Read, TypeOK
  <2>2. TypeOK'
    BY <1>1, <1>2, <1>5, <2>1 DEF Read, TypeOK
  <2>3. ReaderInv(r)'
    BY <1>1, <1>2, <1>5, <2>1 DEF Read, TypeOK, ReaderInv, Inv
  <2>4. \A q \in Readers \ {r} : ReaderInv(q)'
    BY <1>1, <1>2, <1>5 DEF Read, TypeOK, ReaderInv, Inv
  <2> QED BY <1>1, <2>2, <2>3, <2>4 DEF Inv, WriterInv, EntryInv, LatestIsPrivate
<1>6. CASE Decode(r)
  <2>0. parts[r] = Size /\ parts[r] >= Size - 1
    BY <1>3, <1>6, SizeAssumption DEF Decode
  <2>1. parts[r] = Size /\ rpc' = [rpc EXCEPT ![r] = "accepted"]
    BY <1>6, <2>0 DEF Decode, ReaderGoes
  <2>2. TypeOK'
    BY <1>1, <1>2, <1>6, <2>1 DEF Decode, TypeOK, ReaderPCs
  <2>3. ReaderInv(r)'
    BY <1>1, <1>2, <1>6, <2>1 DEF Decode, TypeOK, ReaderInv, Inv
  <2>4. \A q \in Readers \ {r} : ReaderInv(q)'
    BY <1>1, <1>2, <1>6, <2>1 DEF Decode, TypeOK, ReaderInv, Inv
  <2> QED BY <1>1, <2>2, <2>3, <2>4 DEF Inv, WriterInv, EntryInv, LatestIsPrivate
<1> QED BY <1>4, <1>5, <1>6

LEMMA MeddleInv == Inv /\ Meddle => Inv'
<1> SUFFICES ASSUME Inv, Meddle PROVE Inv'
  OBVIOUS
<1>1. /\ UNCHANGED <<written, pc, created, published, stuck, readVars>>
      /\ temps' \subseteq temps /\ probes' \subseteq probes
      /\ dirMode' \in {dirMode, "open"}
      /\ dirMode = "private" => dirMode' = "private"
      /\ entry' = entry \/ entry' \in {None, Directory}
      /\ meddles' \in 0 .. MaxMeddles
  BY PathAssumption DEF Meddle, Inv, TypeOK
<1>2. TypeOK'
  BY <1>1 DEF Inv, TypeOK, readVars
<1>3. \A w \in Writers : WriterInv(w)'
  BY <1>1 DEF Inv, WriterInv
<1>4. \A r \in Readers : ReaderInv(r)'
  BY <1>1 DEF Inv, ReaderInv, readVars
<1>5. EntryInv'
  BY <1>1, WritersAssumption DEF Inv, EntryInv, LatestIsPrivate
<1> QED BY <1>2, <1>3, <1>4, <1>5 DEF Inv

LEMMA NextInv == Inv /\ [Next]_vars => Inv'
<1>1. Inv /\ UNCHANGED vars => Inv'
  BY DEF Inv, TypeOK, WriterInv, ReaderInv, EntryInv, LatestIsPrivate, vars
<1> QED BY <1>1, RecordInv, ReaderStepInv, MeddleInv DEF Next

LEMMA Invariance == Spec => []Inv
BY InitInv, NextInv, PTL DEF Spec

-----------------------------------------------------------------------------
(* The state of the store is always well typed.                            *)
THEOREM StoreTypeCorrect == Spec => []TypeOK
<1>1. Inv => TypeOK
  BY DEF Inv
<1> QED BY <1>1, Invariance, PTL

(* The path never names a record that is not completely written.           *)
THEOREM ReplaceIsAtomic == Spec => []AtomicReplace
<1>1. Inv => AtomicReplace
  BY PublishedWhole DEF Inv, EntryInv, AtomicReplace
<1> QED BY <1>1, Invariance, PTL

(* No reader rejects a record, or accepts a part of one.                   *)
THEOREM ReadsAreWhole == Spec => []ReadersGetWholeRecords
<1>1. Inv => ReadersGetWholeRecords
  BY DEF Inv, ReaderInv, ReadersGetWholeRecords
<1> QED BY <1>1, Invariance, PTL

(* A run that reports failure has left the record as it was.               *)
THEOREM FailuresLeaveRecord == Spec => []FailureLeavesRecord
<1>1. Inv => FailureLeavesRecord
  BY DEF Inv, WriterInv, ReaderInv, EntryInv, FailureLeavesRecord
<1> QED BY <1>1, Invariance, PTL

(* The command never runs beside the probe, and a run that was not killed  *)
(* leaves a file of its own only when it failed and could not remove it.   *)
THEOREM LeavesNoLitter == Spec => []NoLitter
<1>1. Inv => NoLitter
  BY DEF Inv, WriterInv, NoLitter
<1> QED BY <1>1, Invariance, PTL

(* A record at the default path is in a private directory.                 *)
THEOREM LatestStaysPrivate == Spec => []LatestIsPrivate
<1>1. Inv => LatestIsPrivate
  BY DEF Inv, EntryInv
<1> QED BY <1>1, Invariance, PTL

-----------------------------------------------------------------------------
(***************************************************************************)
(* The store implements the register.                                      *)
(***************************************************************************)

(* A step of the store that changes neither the entry, nor who has         *)
(* published or ended, nor what was read, does nothing to the register.    *)
LEMMA Stutter ==
    ASSUME UNCHANGED entry,
           \A w \in Writers : RunState(w)' = RunState(w),
           \A r \in Readers : ReadResult(r)' = ReadResult(r)
    PROVE  UNCHANGED Register!vars
BY DEF Register!vars

LEMMA InitRegister == Init => Register!Init
BY DEF Init, Register!Init, RunState, ReadResult, Ended

(* A writer's step publishes, gives up, or does nothing to the register.   *)
LEMMA RecordImplements ==
    ASSUME Inv, NEW w \in Writers, Record(w) \/ Crash(w)
    PROVE  [Register!Next]_Register!vars
<1>1. /\ \A v \in Writers \ {w} : RunState(v)' = RunState(v)
      /\ \A r \in Readers : ReadResult(r)' = ReadResult(r)
  BY DEF Inv, TypeOK, Record, Preflight, RemoveProbe, ProbeFails,
         RemoveProbeAgain, Command, Stat, Mkdir, Chmod, Create, Write, Close,
         Rename, Cleanup, Fails, WriteFails, Crash, Goes, RunState, ReadResult,
         readVars
<1>2. CASE Rename(w)
  <2>1. /\ entry' = w /\ RunState(w) = "working" /\ RunState(w)' = "published"
    BY <1>2 DEF Inv, WriterInv, TypeOK, Rename, Goes, RunState, Ended
  <2>2. Register!Publish(w)
    BY <1>1, <2>1 DEF Register!Publish
  <2> QED BY <2>2 DEF Register!Next
<1>3. CASE ~Rename(w)
  <2>1. entry' = entry /\ published' = published
    BY <1>3 DEF Record, Preflight, RemoveProbe, ProbeFails, RemoveProbeAgain,
                Command, Stat, Mkdir, Chmod, Create, Write, Close, Cleanup,
                Fails, WriteFails, Crash
  <2>2. CASE RunState(w)' = RunState(w)
    BY <1>1, <2>1, <2>2, Stutter
  <2>3. CASE RunState(w)' # RunState(w)
    <3>1. pc[w] \notin Ended
      BY <1>3 DEF Record, Preflight, RemoveProbe, ProbeFails, RemoveProbeAgain,
                  Command, Stat, Mkdir, Chmod, Create, Write, Close, Cleanup,
                  Fails, WriteFails, Crash, Goes, Ended
    <3>2. RunState(w) = "working" /\ RunState(w)' = "gaveUp"
      BY <2>1, <2>3, <3>1 DEF RunState
    <3>3. Register!GiveUp(w)
      BY <1>1, <2>1, <3>2 DEF Register!GiveUp
    <3> QED BY <3>3 DEF Register!Next
  <2> QED BY <2>2, <2>3
<1> QED BY <1>2, <1>3

(* A reader's Open is the register's read; what it does later is whole.    *)
LEMMA ReaderImplements ==
    ASSUME Inv, Inv', NEW r \in Readers, Open(r) \/ Read(r) \/ Decode(r)
    PROVE  [Register!Next]_Register!vars
<1>1. /\ entry' = entry /\ \A w \in Writers : RunState(w)' = RunState(w)
      /\ \A q \in Readers \ {r} : ReadResult(q)' = ReadResult(q)
  BY DEF Inv, TypeOK, Open, Read, Decode, ReaderGoes, RunState, ReadResult
<1>2. CASE Open(r)
  <2>1. ReadResult(r) = "nothing" /\ ReadResult(r)' = entry
    BY <1>2 DEF Inv, TypeOK, Open, ReaderGoes, ReadResult
  <2>2. Register!Get(r)
    BY <1>1, <2>1 DEF Register!Get
  <2> QED BY <2>2 DEF Register!Next
<1>3. CASE Read(r) \/ Decode(r)
  <2>1. /\ opened'[r] = opened[r] /\ rpc[r] = "read"
        /\ rpc'[r] \in {"read", "accepted", "rejected"}
    BY <1>3 DEF Inv, TypeOK, Read, Decode, ReaderGoes
  <2>2. rpc'[r] # "rejected" /\ (rpc'[r] = "accepted" => parts'[r] = Size)
    BY DEF Inv, ReaderInv
  <2>3. ReadResult(r)' = ReadResult(r)
    BY <2>1, <2>2 DEF ReadResult
  <2> QED BY <1>1, <2>3, Stutter
<1> QED BY <1>2, <1>3

LEMMA MeddleImplements == Inv /\ Meddle => [Register!Next]_Register!vars
<1> SUFFICES ASSUME Inv, Meddle PROVE [Register!Next]_Register!vars
  OBVIOUS
<1>1. /\ \A w \in Writers : RunState(w)' = RunState(w)
      /\ \A r \in Readers : ReadResult(r)' = ReadResult(r)
      /\ entry' = entry \/ entry' \in {None, Directory}
  BY DEF Meddle, RunState, ReadResult, readVars
<1>2. CASE entry' = entry
  BY <1>1, <1>2, Stutter
<1>3. CASE entry' \in {None, Directory}
  BY <1>1, <1>3 DEF Register!Next, Register!Disturb
<1> QED BY <1>1, <1>2, <1>3

(* What runs of runprint and their readers do to the record file, system   *)
(* call by system call and with kills in between, is what they could have  *)
(* done to a register replaced and read in single steps.                   *)
THEOREM StoreImplementsRegister == Spec => ImplementsRegister
<1>1. Inv /\ Inv' /\ [Next]_vars => [Register!Next]_Register!vars
  <2>1. UNCHANGED vars => UNCHANGED Register!vars
    BY DEF vars, readVars, Register!vars, RunState, ReadResult
  <2> QED BY <2>1, RecordImplements, ReaderImplements, MeddleImplements DEF Next
<1> QED BY <1>1, InitRegister, Invariance, PTL DEF Spec, Register!Spec, ImplementsRegister
=============================================================================
