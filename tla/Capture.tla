------------------------------ MODULE Capture ------------------------------
(***************************************************************************)
(* One run of a recorded command: run, waitForCommand, waitForDrains,      *)
(* drainPipe and captureSink.Write of internal/capture/capture.go, with    *)
(* forwardSignal and forceKill of process_unix.go, as record mode calls    *)
(* them (a signal channel is given, so the command has a process group of  *)
(* its own).                                                               *)
(*                                                                         *)
(* Actors: the main goroutine (pc), the goroutine that calls cmd.Wait      *)
(* (waiter), one drain goroutine per stream (dpc), the processes of the    *)
(* command, the readers of the passed-through output, and a user who sends *)
(* signals.  A stream is counted in bytes: wrote by the command, collected *)
(* by the streamCollector, forwarded to the live reader.                   *)
(***************************************************************************)
EXTENDS Integers, Sequences, FiniteSets

CONSTANTS
    Kin,          \* processes the command starts; they inherit its streams
    Escaped,      \* those that left the command's process group
    Signals,      \* numbers of the signals the user sends
    ExitCodes,    \* how the command can end by itself
    Passthrough,  \* streams with a live reader
    Stallable,    \* streams whose live reader may stop reading for a while
    Leaving,      \* streams whose live reader may go away
    Cancellable,  \* TRUE: the caller's context may be cancelled
    PipeCap,      \* capacity of a pipe
    MaxSignals,   \* bound: signals delivered
    MaxBytes      \* bound: bytes written, per stream

Streams == {"stdout", "stderr"}
Child == "child"
Procs == Kin \cup {Child}

ASSUME ProcessAssumption == Child \notin Kin /\ Escaped \subseteq Kin
ASSUME SignalAssumption == Signals \subseteq 1 .. 127 /\ MaxSignals \in Nat
ASSUME CodeAssumption == ExitCodes \subseteq 0 .. 255
ASSUME StreamAssumption ==
    /\ Passthrough \subseteq Streams
    /\ Stallable \subseteq Passthrough /\ Leaving \subseteq Passthrough
    /\ PipeCap \in Nat \ {0} /\ MaxBytes \in [Streams -> Nat]
ASSUME ModeAssumption == Cancellable \in BOOLEAN

VARIABLES
    pc, event,
    takenLate,    \* history: the event was taken after the reaped flag was set
    caught, first, cancelled, deadline, forced,
    lateActs,     \* history: actions on the process group after that
    interrupts, asked, ctx,
    waiter, exitCode,
    alive, doomed, holders, wrote,
    dpc, chunk, collected, forwarded, readerOpen, failed, results,
    consumer,
    complete, warned, received, code,
    atDeadline    \* history: why drains were late when their deadline fired

stopVars == <<event, takenLate, caught, first, cancelled, deadline, forced,
              lateActs>>
mainVars == <<pc, stopVars>>
userVars == <<interrupts, asked, ctx>>
waitVars == <<waiter, exitCode>>
procVars == <<alive, doomed, holders, wrote>>
drainVars == <<dpc, chunk, collected, forwarded, readerOpen, failed, results>>
receiptVars == <<complete, warned, received, code, atDeadline>>
elsewhere == <<userVars, waitVars, procVars, drainVars, consumer, receiptVars>>
outsideDrains == <<mainVars, userVars, waitVars, procVars, consumer, receiptVars>>
vars == <<mainVars, elsewhere>>

-----------------------------------------------------------------------------
(* signal.Notify never blocks: a signal that finds the channel full is     *)
(* dropped (cmd/runprint/main.go makes it of capacity two).                *)
OneSlot == 1
ChanCap == 2

(* A signal in the channel.  late is a history variable: it was delivered  *)
(* after the reaped flag was set.                                          *)
SignalEvents == [sig : Signals, late : BOOLEAN]
NoSignal == [sig |-> 0, late |-> FALSE]

KilledCode == 137
NoCode == -1            \* cmd.Wait failed otherwise than by an exit status

Ended == pc \in {"done", "failed"}
Flagged == waiter \in {"flagged", "published"}
Interrupted == first # NoSignal
Abandon == Interrupted \/ cancelled          \* abandonOnDeadline
Pending == {s \in Streams : complete[s] = "pending"}

(* Bytes read from the pipe: those collected and the chunk in hand.        *)
Taken(s) == collected[s] + IF dpc[s] = "collect" THEN chunk[s] ELSE 0
InPipe(s) == wrote[s] - Taken(s)
AtEOF(s) == holders[s] = {} /\ InPipe(s) = 0

(* A step that only moves the main goroutine on.                           *)
Goto(to) == pc' = to /\ UNCHANGED <<stopVars, elsewhere>>

Init ==
    /\ pc = "prepare" /\ event = "none" /\ takenLate = FALSE
    /\ caught = NoSignal /\ first = NoSignal
    /\ cancelled = FALSE /\ deadline = FALSE /\ forced = FALSE /\ lateActs = 0
    /\ interrupts = <<>> /\ asked = 0 /\ ctx = "live"
    /\ waiter = "none" /\ exitCode = NoCode
    /\ alive = {} /\ doomed = {}
    /\ holders = [s \in Streams |-> {}]
    /\ wrote = [s \in Streams |-> 0]
    /\ dpc = [s \in Streams |-> "none"]
    /\ chunk = [s \in Streams |-> 0]
    /\ collected = [s \in Streams |-> 0]
    /\ forwarded = [s \in Streams |-> 0]
    /\ readerOpen = [s \in Streams |-> TRUE]
    /\ failed = [s \in Streams |-> FALSE]
    /\ results = {}
    /\ consumer = [s \in Streams |-> "reading"]
    /\ complete = [s \in Streams |-> "pending"]
    /\ warned = [s \in Streams |-> FALSE]
    /\ received = [s \in Streams |-> 0]
    /\ code = NoCode /\ atDeadline = "none"

-----------------------------------------------------------------------------
(* The main goroutine.  run, up to cmd.Start.                              *)

(* The preflight, the metadata check or cmd.Start returns an error; the    *)
(* deferred pipes.close closes both readers.                               *)
PrepareFails ==
    /\ pc = "prepare"
    /\ pc' = "failed"
    /\ readerOpen' = [s \in Streams |-> FALSE]
    /\ UNCHANGED <<stopVars, userVars, waitVars, procVars, dpc, chunk,
                   collected, forwarded, failed, results, consumer,
                   receiptVars>>

(* As Start below, without closeWriters: runprint keeps both write ends.   *)
StartKeepsWriters ==
    /\ pc = "prepare"
    /\ pc' = "loop"
    /\ alive' = Procs
    /\ holders' = [s \in Streams |-> Procs \cup {"runprint"}]
    /\ waiter' = "waiting"
    /\ dpc' = [s \in Streams |-> "read"]
    /\ UNCHANGED <<stopVars, userVars, exitCode, doomed, wrote, chunk,
                   collected, forwarded, readerOpen, failed, results, consumer,
                   receiptVars>>

(* cmd.Start, closeWriters, drain, and the goroutine that waits.  Every    *)
(* process the command will start is there from the start, silent or not.  *)
Start ==
    /\ pc = "prepare"
    /\ pc' = "loop"
    /\ alive' = Procs
    /\ holders' = [s \in Streams |-> Procs]
    /\ waiter' = "waiting"
    /\ dpc' = [s \in Streams |-> "read"]
    /\ UNCHANGED <<stopVars, userVars, exitCode, doomed, wrote, chunk,
                   collected, forwarded, readerOpen, failed, results, consumer,
                   receiptVars>>

(***************************************************************************)
(* waitForCommand.  pc = "loop" is the test of reaped at the top of the    *)
(* loop, "select" the select, "check" the second test of reaped, "recheck" *)
(* the select that prefers a result already available, "act" what follows, *)
(* "result" the receive of a result that is on its way.                    *)
(***************************************************************************)
Loop ==
    /\ pc = "loop"
    /\ Goto(IF Flagged THEN "result" ELSE "select")

TakeResult ==
    /\ pc \in {"select", "result"}
    /\ waiter = "published"
    /\ Goto("await")

SelectSignal ==
    /\ pc = "select" /\ interrupts # <<>>
    /\ pc' = "check" /\ event' = "signal" /\ takenLate' = Flagged
    /\ caught' = Head(interrupts)
    /\ interrupts' = Tail(interrupts)
    /\ UNCHANGED <<first, cancelled, deadline, forced, lateActs, asked, ctx,
                   waitVars, procVars, drainVars, consumer, receiptVars>>

(* The grace timer fires; its channel holds nothing more.                  *)
SelectDeadline ==
    /\ pc = "select" /\ deadline
    /\ pc' = "check" /\ event' = "deadline" /\ takenLate' = Flagged
    /\ UNCHANGED <<caught, first, cancelled, deadline, forced, lateActs,
                   elsewhere>>

SelectCancel ==
    /\ pc = "select" /\ ctx = "done"
    /\ pc' = "check" /\ event' = "cancel" /\ takenLate' = Flagged
    /\ UNCHANGED <<caught, first, cancelled, deadline, forced, lateActs,
                   elsewhere>>

(* As Check below, without the test of reaped.                             *)
CheckIgnoresReaped ==
    /\ pc = "check"
    /\ Goto("recheck")

Check ==
    /\ pc = "check"
    /\ Goto(IF Flagged THEN "result" ELSE "recheck")

Recheck ==
    /\ pc = "recheck"
    /\ Goto(IF waiter = "published" THEN "await" ELSE "act")

-----------------------------------------------------------------------------
(* process_unix.go.  The command's group can be signalled while a member   *)
(* lives or its leader is not reaped; SIGKILL reaches every member.        *)
Group == alive \ Escaped
CanSignal == Group # {} \/ waiter = "waiting"

ForceKill ==
    /\ doomed' = doomed \cup Group
    /\ forced' = TRUE

CountLateAct == lateActs' = lateActs + IF Flagged THEN 1 ELSE 0

(* As ForwardFirst below, without the grace timer.                         *)
ForwardFirstUntimed ==
    /\ pc = "act" /\ event = "signal" /\ ~Interrupted
    /\ pc' = "loop"
    /\ first' = caught
    /\ IF CanSignal THEN UNCHANGED <<doomed, forced>> ELSE ForceKill
    /\ CountLateAct
    /\ UNCHANGED <<event, takenLate, caught,
                   cancelled, deadline, userVars, waitVars,
                   alive, holders, wrote, drainVars, consumer, receiptVars>>

(* The first signal is forwarded and the grace timer armed; when it cannot *)
(* be forwarded the group is killed.                                       *)
ForwardFirst ==
    /\ pc = "act" /\ event = "signal" /\ ~Interrupted
    /\ pc' = "loop"
    /\ first' = caught
    /\ \/ /\ CanSignal
          /\ deadline' = TRUE
          /\ UNCHANGED <<doomed, forced>>
       \/ /\ ~CanSignal
          /\ ForceKill
          /\ UNCHANGED deadline
    /\ CountLateAct
    /\ UNCHANGED <<event, takenLate, caught,
                   cancelled, userVars, waitVars,
                   alive, holders, wrote, drainVars, consumer, receiptVars>>

SecondSignal ==
    /\ pc = "act" /\ event = "signal" /\ Interrupted
    /\ pc' = "loop"
    /\ ForceKill
    /\ deadline' = FALSE
    /\ CountLateAct
    /\ UNCHANGED <<event, takenLate, caught,
                   first, cancelled, userVars, waitVars,
                   alive, holders, wrote, drainVars, consumer, receiptVars>>

GraceExpired ==
    /\ pc = "act" /\ event = "deadline"
    /\ pc' = "loop"
    /\ ForceKill
    /\ deadline' = FALSE
    /\ CountLateAct
    /\ UNCHANGED <<event, takenLate, caught,
                   first, cancelled, userVars, waitVars,
                   alive, holders, wrote, drainVars, consumer, receiptVars>>

Cancel ==
    /\ pc = "act" /\ event = "cancel"
    /\ pc' = "loop"
    /\ ForceKill
    /\ cancelled' = TRUE
    /\ ctx' = "seen"
    /\ CountLateAct
    /\ UNCHANGED <<event, takenLate, caught,
                   first, deadline, interrupts, asked,
                   waitVars, alive, holders, wrote, drainVars, consumer, receiptVars>>

-----------------------------------------------------------------------------
(***************************************************************************)
(* waitForDrains.  pc = "await" is its select loop, "flush" the loop that  *)
(* empties results once the deadline passed, "closeStdout" and             *)
(* "closeStderr" the closing of unresolved readers, "rest" the receives    *)
(* that follow on a run nobody interrupted.                                *)
(***************************************************************************)
ReceiveDrain ==
    /\ pc \in {"await", "flush", "rest"}
    /\ \E r \in results :
          /\ complete' = [complete EXCEPT ![r.name] =
                             IF r.complete THEN "complete" ELSE "incomplete"]
          /\ results' = results \ {r}
    /\ UNCHANGED <<mainVars, userVars, waitVars, procVars, dpc, chunk,
                   collected, forwarded, readerOpen, failed, consumer, warned,
                   received, code, atDeadline>>

(* As DrainsDone below, but a run nobody interrupted does not wait either. *)
DrainsDoneEarly ==
    /\ \/ pc = "await" /\ Pending = {}
       \/ pc = "rest"
    /\ Goto("status")

DrainsDone ==
    /\ pc \in {"await", "rest"} /\ Pending = {}
    /\ Goto("status")

(* No drain goroutine has anything left to do but wait for others.         *)
Idle ==
    /\ results = {}
    /\ \A s \in Streams :
          \/ dpc[s] = "exited"
          \/ dpc[s] = "read" /\ readerOpen[s] /\ InPipe(s) = 0 /\ ~AtEOF(s)
          \/ dpc[s] = "forward" /\ consumer[s] = "stalled"

(* Too little time, or a process that holds a pipe or a live reader that   *)
(* does not read, or nothing outside runprint; an interrupted run may be   *)
(* incomplete anyway.                                                      *)
Lateness ==
    IF Abandon THEN "none"
    ELSE IF ~Idle THEN "busy"
    ELSE IF \E s \in Streams : holders[s] \cap Procs # {} \/ consumer[s] = "stalled"
         THEN "blocked" ELSE "unexplained"

DrainDeadline ==
    /\ pc = "await" /\ Pending # {}
    /\ pc' = "flush" /\ atDeadline' = Lateness
    /\ UNCHANGED <<stopVars, userVars, waitVars, procVars, drainVars, consumer,
                   complete, warned, received, code>>

Flush ==
    /\ pc = "flush" /\ results = {}
    /\ Goto("closeStdout")

(* As CloseReader below, without abandonPassthrough.                       *)
CloseReaderOnly(s) ==
    /\ readerOpen' = IF s \in Pending THEN [readerOpen EXCEPT ![s] = FALSE]
                                      ELSE readerOpen
    /\ UNCHANGED failed

(* As CloseReader below, only for an interrupted run.                      *)
CloseReaderIfAbandoned(s) ==
    /\ readerOpen' = IF s \in Pending /\ Abandon
                     THEN [readerOpen EXCEPT ![s] = FALSE]
                     ELSE readerOpen
    /\ failed' = IF s \in Pending \cap Passthrough /\ Abandon
                 THEN [failed EXCEPT ![s] = TRUE]
                 ELSE failed

(* Close an unresolved reader; abandon its passthrough if the run was      *)
(* interrupted.  A drain goroutine that already closed it is not disturbed.*)
CloseReader(s) ==
    /\ readerOpen' = IF s \in Pending THEN [readerOpen EXCEPT ![s] = FALSE]
                                      ELSE readerOpen
    /\ failed' = IF s \in Pending \cap Passthrough /\ Abandon
                 THEN [failed EXCEPT ![s] = TRUE]
                 ELSE failed

CloseStdout ==
    /\ pc = "closeStdout"
    /\ CloseReader("stdout")
    /\ pc' = "closeStderr"
    /\ UNCHANGED <<stopVars, userVars, waitVars, procVars, dpc, chunk,
                   collected, forwarded, results, consumer, receiptVars>>

(* As CloseStderr below, waiting for the drains of an interrupted run too. *)
CloseStderrWaits ==
    /\ pc = "closeStderr"
    /\ CloseReader("stderr")
    /\ pc' = "rest"
    /\ UNCHANGED <<stopVars, userVars, waitVars, procVars, dpc, chunk, collected,
                   forwarded, results, consumer, receiptVars>>

CloseStderr ==
    /\ pc = "closeStderr"
    /\ CloseReader("stderr")
    /\ pc' = IF Abandon THEN "status" ELSE "rest"
    /\ UNCHANGED <<stopVars, userVars, waitVars, procVars, dpc, chunk,
                   collected, forwarded, results, consumer, receiptVars>>

-----------------------------------------------------------------------------
(* run, after waitForDrains: the passthrough status, then the receipt.     *)
Status ==
    /\ pc = "status"
    /\ pc' = "assemble"
    /\ warned' = failed
    /\ UNCHANGED <<stopVars, userVars, waitVars, procVars, drainVars, consumer,
                   complete, received, code, atDeadline>>

(* commandExitCode, signalExitCode, the two snapshots and the record; the  *)
(* deferred pipes.close closes what is still open.  An error of cmd.Wait   *)
(* is returned instead, and there is no receipt.                           *)
Assemble ==
    /\ pc = "assemble"
    /\ readerOpen' = [s \in Streams |-> FALSE]
    /\ \/ /\ exitCode = NoCode
          /\ pc' = "failed"
          /\ UNCHANGED <<received, code>>
       \/ /\ exitCode # NoCode
          /\ pc' = "done"
          /\ code' = IF Interrupted THEN 128 + first.sig ELSE exitCode
          /\ received' = collected
    /\ UNCHANGED <<stopVars, userVars, waitVars, procVars, dpc, chunk,
                   collected, forwarded, failed, results, consumer, complete,
                   warned, atDeadline>>

-----------------------------------------------------------------------------
(***************************************************************************)
(* The goroutine of cmd.Wait: "waiting" in Wait, "reaped" before           *)
(* reaped.Store, "flagged" before the send, "published" after it.          *)
(***************************************************************************)
WaiterMoves(from, to) == waiter = from /\ waiter' = to

WaitReturns ==
    /\ WaiterMoves("waiting", "reaped")
    /\ Child \notin alive
    /\ UNCHANGED <<mainVars, userVars, exitCode, procVars, drainVars, consumer,
                   receiptVars>>

(* wait4 fails: nothing is known of how the command ended.                 *)
WaitFails ==
    /\ WaiterMoves("waiting", "reaped")
    /\ Child \notin alive
    /\ exitCode' = NoCode
    /\ UNCHANGED <<mainVars, userVars, procVars, drainVars, consumer,
                   receiptVars>>

StoreReaped ==
    /\ WaiterMoves("reaped", "flagged")
    /\ UNCHANGED <<mainVars, userVars, exitCode, procVars, drainVars, consumer,
                   receiptVars>>

(* The channel has one slot and one sender: the send never blocks.         *)
Publish ==
    /\ WaiterMoves("flagged", "published")
    /\ UNCHANGED <<mainVars, userVars, exitCode, procVars, drainVars, consumer,
                   receiptVars>>

-----------------------------------------------------------------------------
(***************************************************************************)
(* drainPipe and captureSink.Write, one goroutine per stream.              *)
(***************************************************************************)

(* io.Copy reads some of what is in the pipe.                              *)
Read(s) ==
    /\ dpc[s] = "read" /\ readerOpen[s]
    /\ \E k \in 1 .. InPipe(s) : chunk' = [chunk EXCEPT ![s] = k]
    /\ dpc' = [dpc EXCEPT ![s] = "collect"]
    /\ UNCHANGED <<outsideDrains, collected, forwarded, readerOpen, failed,
                   results>>

(* End of file once every write end is closed and the pipe is empty; an    *)
(* error once the reader was closed.                                       *)
ReadEnds(s) ==
    /\ dpc[s] = "read"
    /\ \/ /\ readerOpen[s] /\ AtEOF(s)
          /\ dpc' = [dpc EXCEPT ![s] = "eof"]
       \/ /\ ~readerOpen[s]
          /\ dpc' = [dpc EXCEPT ![s] = "error"]
    /\ UNCHANGED <<outsideDrains, chunk, collected, forwarded, readerOpen,
                   failed, results>>

(* The collector takes the chunk; passthrough is skipped when there is     *)
(* none or it failed.                                                      *)
Collect(s) ==
    /\ dpc[s] = "collect"
    /\ collected' = [collected EXCEPT ![s] = @ + chunk[s]]
    /\ dpc' = [dpc EXCEPT ![s] = IF s \in Passthrough /\ ~failed[s]
                                 THEN "forward" ELSE "read"]
    /\ UNCHANGED <<outsideDrains, chunk, forwarded, readerOpen, failed,
                   results>>

ForwardDone(s) ==
    /\ dpc[s] = "forward" /\ consumer[s] = "reading"
    /\ forwarded' = [forwarded EXCEPT ![s] = @ + chunk[s]]
    /\ dpc' = [dpc EXCEPT ![s] = "read"]
    /\ UNCHANGED <<outsideDrains, chunk, collected, readerOpen, failed,
                   results>>

(* As ForwardFails below, but the failure is not remembered.               *)
ForwardFailsQuietly(s) ==
    /\ dpc[s] = "forward" /\ consumer[s] = "gone"
    /\ \E k \in 0 .. chunk[s] - 1 : forwarded' = [forwarded EXCEPT ![s] = @ + k]
    /\ dpc' = [dpc EXCEPT ![s] = "read"]
    /\ UNCHANGED <<outsideDrains, chunk, collected, readerOpen, failed,
                   results>>

(* The live reader has gone: part of the chunk may have reached it.        *)
ForwardFails(s) ==
    /\ dpc[s] = "forward" /\ consumer[s] = "gone"
    /\ \E k \in 0 .. chunk[s] - 1 : forwarded' = [forwarded EXCEPT ![s] = @ + k]
    /\ failed' = [failed EXCEPT ![s] = TRUE]
    /\ dpc' = [dpc EXCEPT ![s] = "read"]
    /\ UNCHANGED <<outsideDrains, chunk, collected, readerOpen, results>>

(* As Finish below, calling any end of the copy complete.                  *)
FinishAlwaysComplete(s) ==
    /\ dpc[s] \in {"eof", "error"}
    /\ readerOpen' = [readerOpen EXCEPT ![s] = FALSE]
    /\ results' = results \cup {[name |-> s, complete |-> TRUE]}
    /\ dpc' = [dpc EXCEPT ![s] = "exited"]
    /\ UNCHANGED <<outsideDrains, chunk, collected, forwarded, failed>>

(* The results channel has two slots: the send never blocks.               *)
Finish(s) ==
    /\ dpc[s] \in {"eof", "error"}
    /\ readerOpen' = [readerOpen EXCEPT ![s] = FALSE]
    /\ results' = results \cup {[name |-> s, complete |-> dpc[s] = "eof"]}
    /\ dpc' = [dpc EXCEPT ![s] = "exited"]
    /\ UNCHANGED <<outsideDrains, chunk, collected, forwarded, failed>>

Drain(s) ==
    \/ Read(s) \/ ReadEnds(s) \/ Collect(s)
    \/ ForwardDone(s) \/ ForwardFails(s) \/ Finish(s)

-----------------------------------------------------------------------------
(* The environment.  The command's processes.                              *)
Exit(p) ==
    /\ p \in alive
    /\ alive' = alive \ {p}
    /\ holders' = [s \in Streams |-> holders[s] \ {p}]
    /\ \/ p = Child /\ p \in doomed /\ exitCode' = KilledCode
       \/ p = Child /\ p \notin doomed /\ exitCode' \in ExitCodes
       \/ p # Child /\ UNCHANGED exitCode
    /\ UNCHANGED <<mainVars, userVars, waiter, doomed, wrote, drainVars,
                   consumer, receiptVars>>

CloseStream(p, s) ==
    /\ p \in alive \cap holders[s]
    /\ holders' = [holders EXCEPT ![s] = @ \ {p}]
    /\ UNCHANGED <<mainVars, userVars, waitVars, alive, doomed, wrote,
                   drainVars, consumer, receiptVars>>

(* A byte; a full pipe blocks the writer, a closed one takes nothing.      *)
WriteByte(p, s) ==
    /\ p \in alive \cap holders[s]
    /\ readerOpen[s] /\ InPipe(s) < PipeCap
    /\ wrote[s] < MaxBytes[s]
    /\ wrote' = [wrote EXCEPT ![s] = @ + 1]
    /\ UNCHANGED <<mainVars, userVars, waitVars, alive, doomed, holders,
                   drainVars, consumer, receiptVars>>

(* The user, and the caller's context.                                     *)
Signal(sig) ==
    /\ asked < MaxSignals /\ ~Ended
    /\ asked' = asked + 1
    /\ interrupts' = IF Len(interrupts) < ChanCap
                     THEN Append(interrupts, [sig |-> sig, late |-> Flagged])
                     ELSE interrupts
    /\ UNCHANGED <<mainVars, ctx, waitVars, procVars, drainVars, consumer,
                   receiptVars>>

CancelContext ==
    /\ Cancellable /\ ctx = "live"
    /\ ctx' = "done"
    /\ UNCHANGED <<mainVars, interrupts, asked, waitVars, procVars, drainVars,
                   consumer, receiptVars>>

(* The live readers of passed-through output.                              *)
Stall(s) ==
    /\ s \in Stallable /\ consumer[s] = "reading"
    /\ consumer' = [consumer EXCEPT ![s] = "stalled"]
    /\ UNCHANGED <<mainVars, userVars, waitVars, procVars, drainVars,
                   receiptVars>>

Resume(s) ==
    /\ consumer[s] = "stalled"
    /\ consumer' = [consumer EXCEPT ![s] = "reading"]
    /\ UNCHANGED <<mainVars, userVars, waitVars, procVars, drainVars,
                   receiptVars>>

Leave(s) ==
    /\ s \in Leaving /\ consumer[s] # "gone"
    /\ consumer' = [consumer EXCEPT ![s] = "gone"]
    /\ UNCHANGED <<mainVars, userVars, waitVars, procVars, drainVars,
                   receiptVars>>

-----------------------------------------------------------------------------
Main ==
    \/ PrepareFails \/ Start
    \/ Loop \/ TakeResult \/ SelectSignal \/ SelectDeadline \/ SelectCancel
    \/ Check \/ Recheck \/ ForwardFirst \/ SecondSignal \/ GraceExpired \/ Cancel
    \/ ReceiveDrain \/ DrainsDone \/ DrainDeadline \/ Flush
    \/ CloseStdout \/ CloseStderr \/ Status \/ Assemble

Waiter == WaitReturns \/ WaitFails \/ StoreReaped \/ Publish

Process ==
    \E p \in Procs :
        \/ Exit(p)
        \/ \E s \in Streams : CloseStream(p, s) \/ WriteByte(p, s)

User == CancelContext \/ \E sig \in Signals : Signal(sig)

Consumer == \E s \in Streams : Stall(s) \/ Resume(s) \/ Leave(s)

Next ==
    \/ Main
    \/ Waiter
    \/ \E s \in Streams : Drain(s)
    \/ Process
    \/ User
    \/ Consumer

Spec == Init /\ [][Next]_vars

-----------------------------------------------------------------------------
(***************************************************************************)
(* Properties.                                                             *)
(***************************************************************************)
PCs == {"prepare", "loop", "select", "check", "recheck", "act", "result",
        "await", "flush", "closeStdout", "closeStderr", "rest",
        "status", "assemble", "done", "failed"}
DrainPCs == {"none", "read", "collect", "forward", "eof", "error", "exited"}
Codes == 0 .. 255

TypeMain ==
    /\ pc \in PCs /\ event \in {"none", "signal", "deadline", "cancel"}
    /\ caught \in SignalEvents \cup {NoSignal}
    /\ first \in SignalEvents \cup {NoSignal}
    /\ takenLate \in BOOLEAN
    /\ cancelled \in BOOLEAN /\ deadline \in BOOLEAN /\ forced \in BOOLEAN
    /\ lateActs \in Nat

TypeUser ==
    /\ interrupts \in Seq(SignalEvents) /\ Len(interrupts) <= 2
    /\ asked \in 0 .. MaxSignals
    /\ ctx \in {"live", "done", "seen"}

TypeWait ==
    /\ waiter \in {"none", "waiting", "reaped", "flagged", "published"}
    /\ exitCode \in Codes \cup {NoCode}

TypeProc ==
    /\ alive \subseteq Procs /\ doomed \subseteq Procs
    /\ holders \in [Streams -> SUBSET Procs]
    /\ wrote \in [Streams -> Nat]

TypeDrain ==
    /\ dpc \in [Streams -> DrainPCs]
    /\ chunk \in [Streams -> Nat]
    /\ collected \in [Streams -> Nat] /\ forwarded \in [Streams -> Nat]
    /\ readerOpen \in [Streams -> BOOLEAN] /\ failed \in [Streams -> BOOLEAN]
    /\ results \in SUBSET [name : Streams, complete : BOOLEAN]

TypeConsumer == consumer \in [Streams -> {"reading", "stalled", "gone"}]

TypeReceipt ==
    /\ complete \in [Streams -> {"pending", "complete", "incomplete"}]
    /\ warned \in [Streams -> BOOLEAN]
    /\ received \in [Streams -> Nat]
    /\ code \in Codes \cup {NoCode}
    /\ atDeadline \in {"none", "busy", "blocked", "unexplained"}

(* Types of the run's state; the signal channel never exceeds its two      *)
(* slots and every exit code fits the byte a process returns.              *)
TypeOK ==
    /\ TypeMain /\ TypeUser /\ TypeWait /\ TypeProc
    /\ TypeDrain /\ TypeConsumer /\ TypeReceipt

(* What the receipt calls a complete capture is one: nothing can write to  *)
(* the stream any more and the count in the receipt is every byte written  *)
(* (drainPipe, waitForDrains, run).                                        *)
CompleteMeansAll ==
    pc = "done" =>
        \A s \in Streams : complete[s] = "complete" =>
            holders[s] = {} /\ received[s] = wrote[s]

(* A signal delivered once the command was known to be reaped is not       *)
(* recorded as an interruption, nor acted upon (waitForCommand prefers a   *)
(* result over a late signal).                                             *)
LateSignalNeverInterrupts == ~first.late

(* Once the reaped flag is set the number of the process group may be in   *)
(* use again.  The window that the comment in waitForCommand accepts is    *)
(* one action, and only on an event taken before the flag was set.         *)
OnlyDecidedLateActs == lateActs <= 1 /\ (pc = "act" => ~takenLate)

(* Two delivered signals are enough to kill: when waitForCommand is back   *)
(* at its select with no signal left, the second one has been acted upon.  *)
(* The channel's two slots are what this takes (recordCommand).            *)
SecondSignalForces ==
    pc = "select" /\ interrupts = <<>> /\ asked >= 2 => forced

(* After a signal or a cancellation waitForCommand never goes back to its  *)
(* select empty-handed: the grace timer is armed or the group was killed,  *)
(* so no sequence of signals, failed forwards and timers leaves an         *)
(* interrupted command without a deadline.                                 *)
BoundedStop == pc = "select" /\ Abandon => deadline \/ forced

(* A run nobody interrupted waits for both drains, whatever its deadline   *)
(* did: nothing is collected or forwarded behind the receipt's back.       *)
NormalRunWaitsForDrains ==
    pc \in {"status", "assemble", "done"} /\ ~Abandon =>
        \A s \in Streams : dpc[s] = "exited"

(* When the receipt is made and no warning is given for a stream, its live *)
(* reader got every byte the receipt counts, from a run that was           *)
(* interrupted as from one that was not (captureSink.Write,                *)
(* abandonPassthrough, the status load in run).                            *)
SilenceMeansForwarded ==
    pc = "done" =>
        \A s \in Passthrough : ~warned[s] => forwarded[s] = received[s]

(* The warning status loaded by run is final: no drain goroutine, not even *)
(* an abandoned one, turns a passthrough into a failure afterwards.        *)
WarningIsFinal ==
    [][(pc \in {"assemble", "done"}) => (failed' = failed)]_vars

(* With no process left behind by the command, drains that get the time    *)
(* they need and readers that keep reading, an undisturbed run is recorded *)
(* completely and ends with the command's own exit code (closeWriters,     *)
(* waitForDrains).                                                         *)
UndisturbedRunIsComplete ==
    pc = "done" /\ ~Abandon /\ atDeadline \in {"none", "unexplained"} =>
        code = exitCode /\ \A s \in Streams : complete[s] = "complete"

(* docs/decisions/0006-bound-interrupted-passthrough.md: in a run that was *)
(* not interrupted, live output is not dropped without a warning.          *)
NoSilentDrop ==
    pc = "done" /\ ~Abandon /\ atDeadline # "busy" =>
        \A s \in Passthrough : ~warned[s] => forwarded[s] = wrote[s]
=============================================================================
