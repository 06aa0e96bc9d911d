----------------------------- MODULE RecordRun ------------------------------
(***************************************************************************)
(* One process of runprint record, from its arguments to its exit status:  *)
(* recordCommand and run of cmd/runprint/main.go around the capture of     *)
(* Capture, which it gives its own stdout and stderr as live readers and a *)
(* context that is never cancelled.  The record file is the register that  *)
(* RecordStore implements: the write publishes the record or gives up.     *)
(*                                                                         *)
(* What runprint says itself goes to the stderr of which the live reader   *)
(* is consumer["stderr"]: a message waits while that reader is stalled.    *)
(***************************************************************************)
EXTENDS Capture

VARIABLES
    step,        \* where recordCommand is
    exit,        \* the exit status, NoCode before it is known
    path, outcome, reads    \* the register: what the path names, how the write went

ownVars == <<step, exit, path, outcome, reads>>
runVars == <<vars, ownVars>>

Self == "self"
Before == "before"      \* whatever was at the path

File == INSTANCE RecordRegister WITH
    Writers <- {Self}, Readers <- {}, Initial <- {Before}, NotARecord <- {},
    current <- path, run <- outcome, got <- reads

Published == outcome[Self] = "published"

(* Statuses runprint chooses: usage, an error, or a StartError.  A write   *)
(* to a broken stderr kills a process that does not catch SIGPIPE.         *)
UsageCode == 2
ErrorCode == 1
StartCodes == {126, 127}
BrokenPipeCode == 141

RunInit ==
    /\ Init
    /\ step = "parse" /\ exit = NoCode
    /\ File!Init

Moves(from, to) == step = from /\ step' = to

-----------------------------------------------------------------------------
(* recordCommand.  parseRecordOptions; from here on signals are caught.    *)
Parse ==
    /\ \/ Moves("parse", "capture") /\ UNCHANGED exit
       \/ Moves("parse", "error") /\ exit' = UsageCode
    /\ UNCHANGED <<vars, path, outcome, reads>>

RunCapture ==
    /\ step = "capture"
    /\ Main
    /\ UNCHANGED ownVars

(* RunWithOutputAndPreflight returns; a command that never started gives a *)
(* StartError or, if it was refused before cmd.Start, another one.         *)
CaptureReturns ==
    /\ pc \in {"done", "failed"}
    /\ \/ pc = "done" /\ Moves("capture", "write") /\ UNCHANGED exit
       \/ pc = "failed" /\ Moves("capture", "error") /\ exit' = ErrorCode
       \/ /\ pc = "failed" /\ waiter = "none"
          /\ Moves("capture", "error") /\ exit' \in StartCodes
    /\ UNCHANGED <<vars, path, outcome, reads>>

(* As WriteRecord below, without the early returns.                        *)
WriteRecordIgnoresErrors ==
    /\ Moves("write", "summary") /\ UNCHANGED exit
    /\ File!Publish(Self) \/ File!GiveUp(Self)
    /\ UNCHANGED vars

(* prepareRecordDirectory and WriteFileWithContentID.                      *)
WriteRecord ==
    /\ \/ Moves("write", "summary") /\ File!Publish(Self) /\ UNCHANGED exit
       \/ Moves("write", "error") /\ File!GiveUp(Self) /\ exit' = ErrorCode
    /\ UNCHANGED vars

(* The warnings, the path and the content id; SIGPIPE is caught and what   *)
(* cannot be written is forgotten.                                         *)
Summary ==
    /\ Moves("summary", "exited")
    /\ consumer["stderr"] # "stalled"
    /\ exit' = code
    /\ UNCHANGED <<vars, path, outcome, reads>>

(* run prints the error of recordCommand, when its deferred calls are done:*)
(* SIGPIPE kills again.                                                    *)
ErrorMessage ==
    /\ Moves("error", "exited")
    /\ consumer["stderr"] # "stalled"
    /\ exit' = IF consumer["stderr"] = "gone" THEN BrokenPipeCode ELSE exit
    /\ UNCHANGED <<vars, path, outcome, reads>>

(* So does every other signal, before and after recordCommand catches it.  *)
SignalKills(sig) ==
    /\ Moves("parse", "exited") \/ Moves("error", "exited")
    /\ exit' = 128 + sig
    /\ UNCHANGED <<vars, path, outcome, reads>>

-----------------------------------------------------------------------------
Own == Parse \/ CaptureReturns \/ WriteRecord \/ Summary \/ ErrorMessage

(* Goroutines live as long as the process, an abandoned drain among them.  *)
Goroutine(A) == step # "exited" /\ A /\ UNCHANGED ownVars

(* A signal that comes later than the capture is swallowed.                *)
UserSignal ==
    /\ step = "capture" /\ User
    /\ UNCHANGED ownVars

(* A process that has exited is not looked at any more.                    *)
World ==
    /\ step # "exited"
    /\ Process \/ Consumer
    /\ UNCHANGED ownVars

RunNext ==
    \/ Own
    \/ RunCapture
    \/ Goroutine(Waiter)
    \/ \E s \in Streams : Goroutine(Drain(s))
    \/ UserSignal
    \/ \E sig \in Signals : SignalKills(sig)
    \/ World

RunSpec == RunInit /\ [][RunNext]_runVars

(***************************************************************************)
(* What the Go scheduler, the timers, the file system and the kernel owe:  *)
(* every goroutine that can run runs, an armed timer fires, a write to the *)
(* record file returns, a killed process dies, and a message goes out if   *)
(* its reader reads again and again.  The command, the user and the live   *)
(* readers owe nothing.                                                    *)
(***************************************************************************)
Fairness ==
    /\ SF_runVars(Own)
    /\ WF_runVars(RunCapture)
    /\ WF_runVars(Goroutine(Waiter))
    /\ \A s \in Streams : WF_runVars(Goroutine(Drain(s)))
    /\ \A p \in Procs : WF_runVars(World /\ p \in doomed /\ Exit(p))

RunLiveSpec == RunSpec /\ Fairness

-----------------------------------------------------------------------------
(***************************************************************************)
(* Properties.                                                             *)
(***************************************************************************)

(* The exit status and the record file say the same: runprint ends with    *)
(* the status the record gives the command, its own or 128 + the signal    *)
(* acted on, exactly when that record is at the path, and otherwise with   *)
(* one of its own and the path as it was (recordCommand, run).             *)
Outcome == IF Interrupted THEN 128 + first.sig ELSE exitCode

OwnCodes ==
    {UsageCode, ErrorCode, BrokenPipeCode} \cup StartCodes \cup {128 + sig : sig \in Signals}

StatusMatchesRecord ==
    step = "exited" =>
        IF path = Self THEN pc = "done" /\ exit = Outcome
                       ELSE path = Before /\ exit \in OwnCodes

(* Once a signal has been handled its record is written, or the attempt    *)
(* has failed, whatever the command, its descendants and the live readers  *)
(* do (ADR 0006: a blocked consumer cannot prevent it).                    *)
InterruptedRunIsSaved == Interrupted ~> step \notin {"capture", "write"}

(* Once the command has ended runprint ends too, even if a descendant      *)
(* keeps the pipes open; only a live reader that stalls can hold it up.    *)
CommandEndEndsRun ==
    waiter = "published" ~>
        step = "exited" \/ \E s \in Streams : consumer[s] = "stalled"

(* docs/decisions/0006-bound-interrupted-passthrough.md: the process exits *)
(* immediately after saving the record of an interrupted run.              *)
SavedRunExits == Interrupted /\ Published ~> step = "exited"
=============================================================================
