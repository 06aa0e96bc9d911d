--------------------------- MODULE CaptureProofs ---------------------------
(***************************************************************************)
(* Proofs about Capture for every set of processes, every capacity and     *)
(* every number of signals and bytes; at the end about RecordRun, which    *)
(* contains a capture: what was proved of a capture holds of it, and the   *)
(* exit status of runprint record and its record agree.                    *)
(***************************************************************************)
EXTENDS RecordRun, TLAPS

LEMMA InitTypeOK == Init => TypeOK
<1> SUFFICES ASSUME Init PROVE TypeOK
  OBVIOUS
<1>1. TypeMain
  BY DEF Init, TypeMain, PCs
<1>2. TypeUser
  <2>1. <<>> \in Seq(SignalEvents) /\ Len(<<>>) = 0
    OBVIOUS
  <2> QED BY <2>1, SignalAssumption DEF Init, TypeUser
<1>3. TypeWait
  BY DEF Init, TypeWait
<1>4. TypeProc
  BY DEF Init, TypeProc
<1>5. TypeDrain
  BY DEF Init, TypeDrain, DrainPCs
<1>6. TypeConsumer
  BY DEF Init, TypeConsumer
<1>7. TypeReceipt
  BY DEF Init, TypeReceipt
<1> QED BY <1>1, <1>2, <1>3, <1>4, <1>5, <1>6, <1>7 DEF TypeOK

(* What a step leaves alone keeps its type.                                *)
LEMMA StableMain == TypeMain /\ UNCHANGED mainVars => TypeMain'
BY DEF TypeMain, mainVars, stopVars
LEMMA StableUser == TypeUser /\ UNCHANGED userVars => TypeUser'
BY DEF TypeUser, userVars
LEMMA StableWait == TypeWait /\ UNCHANGED waitVars => TypeWait'
BY DEF TypeWait, waitVars
LEMMA StableProc == TypeProc /\ UNCHANGED procVars => TypeProc'
BY DEF TypeProc, procVars
LEMMA StableDrain == TypeDrain /\ UNCHANGED drainVars => TypeDrain'
BY DEF TypeDrain, drainVars
LEMMA StableConsumer == TypeConsumer /\ UNCHANGED consumer => TypeConsumer'
BY DEF TypeConsumer
LEMMA StableReceipt == TypeReceipt /\ UNCHANGED receiptVars => TypeReceipt'
BY DEF TypeReceipt, receiptVars

(* A step that only moves the main goroutine on.                           *)
LEMMA GotoTypeOK ==
    ASSUME TypeOK, NEW to \in PCs, Goto(to)
    PROVE  TypeOK'
<1>1. TypeMain'
  BY DEF Goto, TypeOK, TypeMain, stopVars
<1>2. UNCHANGED <<userVars, waitVars, procVars, drainVars, consumer, receiptVars>>
  BY DEF Goto, elsewhere
<1> QED BY <1>1, <1>2, StableUser, StableWait, StableProc, StableDrain,
           StableConsumer, StableReceipt DEF TypeOK

(* The steps of waitForCommand after its checks.                           *)
LEMMA ActTypeOK ==
    ASSUME TypeOK, ForwardFirst \/ SecondSignal \/ GraceExpired \/ Cancel
    PROVE  TypeOK'
<1> USE DEF ForwardFirst, SecondSignal, GraceExpired, Cancel
<1>1. lateActs' \in Nat
  BY DEF CountLateAct, TypeOK, TypeMain
<1>2. TypeMain'
  BY <1>1 DEF ForceKill, TypeOK, TypeMain, PCs
<1>3. TypeUser'
  BY DEF TypeOK, TypeUser, userVars
<1>4. TypeProc'
  BY DEF ForceKill, Group, TypeOK, TypeProc
<1>5. UNCHANGED <<waitVars, drainVars, consumer, receiptVars>>
  OBVIOUS
<1> QED BY <1>2, <1>3, <1>4, <1>5, StableWait, StableDrain, StableConsumer,
           StableReceipt DEF TypeOK

LEMMA MainTypeOK == TypeOK /\ Main => TypeOK'
<1> SUFFICES ASSUME TypeOK, Main PROVE TypeOK'
  OBVIOUS
<1> USE StableUser, StableWait, StableProc, StableDrain, StableConsumer, StableReceipt
<1>1. CASE PrepareFails
  <2>1. TypeMain'
    BY <1>1 DEF PrepareFails, TypeOK, TypeMain, PCs, stopVars
  <2>2. TypeDrain'
    BY <1>1 DEF PrepareFails, TypeOK, TypeDrain
  <2> QED BY <1>1, <2>1, <2>2 DEF PrepareFails, TypeOK
<1>2. CASE Start
  <2>1. TypeMain'
    BY <1>2 DEF Start, TypeOK, TypeMain, PCs, stopVars
  <2>2. TypeDrain'
    BY <1>2 DEF Start, TypeOK, TypeDrain, DrainPCs
  <2>3. TypeWait' /\ TypeProc'
    BY <1>2 DEF Start, TypeOK, TypeWait, TypeProc
  <2> QED BY <1>2, <2>1, <2>2, <2>3 DEF Start, TypeOK
<1>3. CASE Loop
  BY <1>3, GotoTypeOK DEF Loop, PCs
<1>4. CASE TakeResult
  BY <1>4, GotoTypeOK DEF TakeResult, PCs
<1>5. CASE SelectSignal
  <2>1. /\ interrupts \in Seq(SignalEvents) /\ interrupts # <<>>
        /\ Len(interrupts) <= 2
    BY <1>5 DEF SelectSignal, TypeOK, TypeUser
  <2>2. /\ Head(interrupts) \in SignalEvents /\ Tail(interrupts) \in Seq(SignalEvents)
        /\ Len(Tail(interrupts)) <= 2
    BY <2>1
  <2>3. TypeMain'
    BY <1>5, <2>2 DEF SelectSignal, TypeOK, TypeMain, PCs, Flagged
  <2>4. TypeUser'
    BY <1>5, <2>2 DEF SelectSignal, TypeOK, TypeUser
  <2> QED BY <1>5, <2>3, <2>4 DEF SelectSignal, TypeOK
<1>6. CASE SelectDeadline \/ SelectCancel
  <2>0. takenLate' \in BOOLEAN
    <3>1. takenLate' = (waiter \in {"flagged", "published"})
      BY <1>6, Zenon DEF SelectDeadline, SelectCancel, Flagged
    <3> QED BY <3>1
  <2>1. TypeMain'
    BY <1>6, <2>0 DEF SelectDeadline, SelectCancel, TypeOK, TypeMain, PCs
  <2> QED BY <1>6, <2>1 DEF SelectDeadline, SelectCancel, TypeOK, elsewhere
<1>7. CASE Check
  BY <1>7, GotoTypeOK DEF Check, PCs
<1>8. CASE Recheck
  BY <1>8, GotoTypeOK DEF Recheck, PCs
<1>9. CASE ForwardFirst \/ SecondSignal \/ GraceExpired \/ Cancel
  BY <1>9, ActTypeOK
<1>10. CASE ReceiveDrain
  <2>1. TypeReceipt'
    BY <1>10 DEF ReceiveDrain, TypeOK, TypeReceipt, TypeDrain
  <2>2. TypeDrain'
    BY <1>10 DEF ReceiveDrain, TypeOK, TypeDrain
  <2> QED BY <1>10, <2>1, <2>2, StableMain DEF ReceiveDrain, TypeOK
<1>11. CASE DrainsDone
  BY <1>11, GotoTypeOK DEF DrainsDone, PCs
<1>12. CASE DrainDeadline
  <2>1. TypeMain'
    BY <1>12 DEF DrainDeadline, TypeOK, TypeMain, PCs, stopVars
  <2>2. TypeReceipt'
    BY <1>12 DEF DrainDeadline, Lateness, TypeOK, TypeReceipt, TypeDrain
  <2> QED BY <1>12, <2>1, <2>2 DEF DrainDeadline, TypeOK
<1>13. CASE Flush
  BY <1>13, GotoTypeOK DEF Flush, PCs
<1>14. CASE CloseStdout \/ CloseStderr
  <2>1. TypeMain'
    BY <1>14 DEF CloseStdout, CloseStderr, TypeOK, TypeMain, PCs, stopVars
  <2>2. PICK s \in Streams : CloseReader(s)
    BY <1>14 DEF CloseStdout, CloseStderr, Streams
  <2>3. TypeDrain'
    BY <1>14, <2>2 DEF CloseStdout, CloseStderr, CloseReader, TypeOK, TypeDrain
  <2> QED BY <1>14, <2>1, <2>3 DEF CloseStdout, CloseStderr, TypeOK
<1>15. CASE Status
  <2>1. TypeMain'
    BY <1>15 DEF Status, TypeOK, TypeMain, PCs, stopVars
  <2>2. TypeReceipt'
    BY <1>15 DEF Status, TypeOK, TypeReceipt, TypeDrain, drainVars
  <2> QED BY <1>15, <2>1, <2>2 DEF Status, TypeOK
<1>16. CASE Assemble
  <2>1. Interrupted => 128 + first.sig \in Codes
    <3>1. Interrupted => first.sig \in 1 .. 127
      BY SignalAssumption DEF TypeOK, TypeMain, Interrupted, SignalEvents
    <3> QED BY <3>1 DEF Codes
  <2>2. exitCode # NoCode => exitCode \in Codes
    BY DEF TypeOK, TypeWait
  <2>3. TypeMain'
    BY <1>16 DEF Assemble, TypeOK, TypeMain, PCs, stopVars
  <2>4. TypeReceipt'
    BY <1>16, <2>1, <2>2 DEF Assemble, TypeOK, TypeReceipt, TypeDrain
  <2>5. TypeDrain'
    BY <1>16 DEF Assemble, TypeOK, TypeDrain
  <2> QED BY <1>16, <2>3, <2>4, <2>5 DEF Assemble, TypeOK
<1> QED BY <1>1, <1>2, <1>3, <1>4, <1>5, <1>6, <1>7, <1>8, <1>9, <1>10, <1>11,
           <1>12, <1>13, <1>14, <1>15, <1>16 DEF Main

LEMMA WaiterTypeOK == TypeOK /\ Waiter => TypeOK'
<1> SUFFICES ASSUME TypeOK, Waiter PROVE TypeOK'
  OBVIOUS
<1> USE DEF Waiter, WaitReturns, WaitFails, StoreReaped, Publish
<1>1. TypeWait'
  BY DEF WaiterMoves, TypeOK, TypeWait
<1> QED BY <1>1, StableMain, StableUser, StableProc, StableDrain, StableConsumer,
           StableReceipt DEF TypeOK

LEMMA DrainTypeOK ==
    ASSUME TypeOK, NEW s \in Streams, Drain(s)
    PROVE  TypeOK'
<1>1. UNCHANGED outsideDrains
  BY DEF Drain, Read, ReadEnds, Collect, ForwardDone, ForwardFails, Finish
<1>2. TypeDrain
  BY DEF TypeOK
<1>3. TypeDrain'
  <2>1. CASE Read(s)
    <3>1. PICK k \in 1 .. InPipe(s) : chunk' = [chunk EXCEPT ![s] = k]
      BY <2>1 DEF Read
    <3>2. k \in Nat
      <4>1. wrote[s] \in Nat /\ collected[s] \in Nat /\ chunk[s] \in Nat
        BY DEF TypeOK, TypeProc, TypeDrain
      <4>2. InPipe(s) \in Int
        BY <4>1 DEF InPipe, Taken
      <4> QED BY <3>1, <4>2
    <3> QED BY <1>2, <2>1, <3>1, <3>2 DEF Read, TypeDrain, DrainPCs
  <2>2. CASE ReadEnds(s)
    BY <1>2, <2>2 DEF ReadEnds, TypeDrain, DrainPCs
  <2>3. CASE Collect(s)
    BY <1>2, <2>3 DEF Collect, TypeDrain, DrainPCs
  <2>4. CASE ForwardDone(s)
    BY <1>2, <2>4 DEF ForwardDone, TypeDrain, DrainPCs
  <2>5. CASE ForwardFails(s)
    <3>1. PICK k \in 0 .. chunk[s] - 1 : forwarded' = [forwarded EXCEPT ![s] = @ + k]
      BY <2>5 DEF ForwardFails
    <3>2. forwarded[s] + k \in Nat
      BY <1>2, <3>1 DEF TypeDrain
    <3> QED BY <1>2, <2>5, <3>1, <3>2 DEF ForwardFails, TypeDrain, DrainPCs
  <2>6. CASE Finish(s)
    <3>1. results' \in SUBSET [name : Streams, complete : BOOLEAN]
      <4>1. [name |-> s, complete |-> dpc[s] = "eof"] \in [name : Streams, complete : BOOLEAN]
        OBVIOUS
      <4> QED BY <1>2, <2>6, <4>1 DEF Finish, TypeDrain
    <3> QED BY <1>2, <2>6, <3>1 DEF Finish, TypeDrain, DrainPCs
  <2> QED BY <2>1, <2>2, <2>3, <2>4, <2>5, <2>6 DEF Drain
<1> QED BY <1>1, <1>3, StableMain, StableUser, StableWait, StableProc,
           StableConsumer, StableReceipt DEF TypeOK, outsideDrains

LEMMA EnvTypeOK == TypeOK /\ (Process \/ User \/ Consumer) => TypeOK'
<1> SUFFICES ASSUME TypeOK, Process \/ User \/ Consumer PROVE TypeOK'
  OBVIOUS
<1> USE StableMain, StableUser, StableWait, StableProc, StableDrain,
        StableConsumer, StableReceipt
<1>1. ASSUME NEW p \in Procs, Exit(p) PROVE TypeOK'
  <2>1. TypeWait'
    <3>1. KilledCode \in Codes /\ ExitCodes \subseteq Codes
      BY CodeAssumption DEF Codes, KilledCode
    <3>2. exitCode' \in Codes \cup {NoCode}
      BY <1>1, <3>1 DEF Exit, TypeOK, TypeWait
    <3> QED BY <1>1, <3>2 DEF Exit, TypeOK, TypeWait
  <2>2. TypeProc'
    BY <1>1 DEF Exit, TypeOK, TypeProc
  <2> QED BY <1>1, <2>1, <2>2 DEF Exit, TypeOK
<1>2. ASSUME NEW p \in Procs, NEW s \in Streams, CloseStream(p, s) \/ WriteByte(p, s)
      PROVE  TypeOK'
  <2>1. TypeProc'
    BY <1>2 DEF CloseStream, WriteByte, TypeOK, TypeProc
  <2> QED BY <1>2, <2>1 DEF CloseStream, WriteByte, TypeOK
<1>3. ASSUME NEW sig \in Signals, Signal(sig) PROVE TypeOK'
  <2> DEFINE e == [sig |-> sig, late |-> Flagged]
  <2>1. e \in SignalEvents
    BY DEF SignalEvents, Flagged
  <2>2. interrupts \in Seq(SignalEvents) /\ Len(interrupts) <= 2
    BY DEF TypeOK, TypeUser
  <2> HIDE DEF e
  <2>3. interrupts' \in Seq(SignalEvents) /\ Len(interrupts') <= 2
    <3>1. CASE Len(interrupts) < 2
      <4>1. interrupts' = Append(interrupts, e)
        BY <1>3, <3>1 DEF Signal, ChanCap, e
      <4> QED BY <2>1, <2>2, <3>1, <4>1
    <3>2. CASE ~(Len(interrupts) < 2)
      BY <1>3, <2>2, <3>2 DEF Signal, ChanCap
    <3> QED BY <3>1, <3>2
  <2>4. TypeUser'
    BY <1>3, <2>3, SignalAssumption DEF Signal, TypeOK, TypeUser
  <2> QED BY <1>3, <2>4 DEF Signal, TypeOK
<1>4. CASE CancelContext
  <2>1. TypeUser'
    BY <1>4 DEF CancelContext, TypeOK, TypeUser
  <2> QED BY <1>4, <2>1 DEF CancelContext, TypeOK
<1>5. ASSUME NEW s \in Streams, Stall(s) \/ Resume(s) \/ Leave(s) PROVE TypeOK'
  <2>1. TypeConsumer'
    BY <1>5 DEF Stall, Resume, Leave, TypeOK, TypeConsumer
  <2> QED BY <1>5, <2>1 DEF Stall, Resume, Leave, TypeOK
<1> QED BY <1>1, <1>2, <1>3, <1>4, <1>5 DEF Process, User, Consumer

LEMMA NextTypeOK == TypeOK /\ [Next]_vars => TypeOK'
<1>1. TypeOK /\ UNCHANGED vars => TypeOK'
  BY StableMain, StableUser, StableWait, StableProc, StableDrain,
     StableConsumer, StableReceipt DEF TypeOK, vars, elsewhere
<1> QED BY <1>1, MainTypeOK, WaiterTypeOK, DrainTypeOK, EnvTypeOK DEF Next

(* The state of a run is always well typed; in particular the signal       *)
(* channel never holds more than two signals and every recorded exit code  *)
(* fits one byte.                                                          *)
THEOREM TypeCorrect == Spec => []TypeOK
BY InitTypeOK, NextTypeOK, PTL DEF Spec

-----------------------------------------------------------------------------
(***************************************************************************)
(* The stopping half of the inductive invariant: what waitForCommand knows *)
(* of the signals it took.                                                 *)
(***************************************************************************)
Holding == pc \in {"check", "recheck", "act"} /\ event = "signal"

(* A late signal is recognised before it can be acted upon, because the    *)
(* flag it came after is tested after the signal is taken.                 *)
LateInv ==
    /\ pc = "prepare" => waiter = "none"
    /\ \A i \in 1 .. Len(interrupts) : interrupts[i].late => Flagged
    /\ Holding => caught \in SignalEvents
    /\ Holding /\ caught.late => Flagged /\ pc = "check"
    /\ ~first.late

(* After an action on the group that came too late the loop cannot reach   *)
(* another one, and an event taken too late is recognised like a signal.   *)
ActInv ==
    /\ lateActs <= 1
    /\ lateActs > 0 => Flagged /\ pc \notin {"prepare", "select", "check", "recheck", "act"}
    /\ pc \in {"check", "recheck", "act"} /\ takenLate => Flagged /\ pc = "check"

(* An interrupted or cancelled command is under a timer or killed.         *)
StopInv == Abandon => deadline \/ forced

(* Signals taken from the channel so far, until the command is killed.     *)
Used == (IF Interrupted THEN 1 ELSE 0) + (IF Holding THEN 1 ELSE 0)

(* While nothing was killed, no signal has been lost unless two of them    *)
(* have been taken or are waiting.                                         *)
CountInv ==
    pc \in {"prepare", "loop", "select", "check", "recheck", "act"} /\ ~forced =>
        asked <= Used + Len(interrupts) \/ Used + Len(interrupts) >= 2

SignalInv == LateInv /\ ActInv /\ StopInv /\ CountInv

LEMMA InitSignalInv == Init => SignalInv
<1> SUFFICES ASSUME Init PROVE SignalInv
  OBVIOUS
<1>1. LateInv
  BY DEF Init, LateInv, Holding, NoSignal
<1>2. ActInv /\ StopInv
  BY DEF Init, ActInv, StopInv, Abandon, Interrupted
<1>3. CountInv
  BY DEF Init, CountInv, Used, Interrupted, Holding
<1> QED BY <1>1, <1>2, <1>3 DEF SignalInv

(* Steps that concern neither waitForCommand nor the signals.              *)
LEMMA QuietSignalInv ==
    SignalInv /\ UNCHANGED <<mainVars, interrupts, asked, waiter>> => SignalInv'
BY DEF SignalInv, LateInv, ActInv, StopInv, CountInv, Used, Holding, Flagged,
       Abandon, Interrupted, mainVars, stopVars

(* The waiter only moves forward.                                          *)
LEMMA WaiterSignalInv == TypeOK /\ SignalInv /\ Waiter => SignalInv'
<1> SUFFICES ASSUME TypeOK, SignalInv, Waiter PROVE SignalInv'
  OBVIOUS
<1>1. /\ UNCHANGED <<mainVars, interrupts, asked>>
      /\ waiter # "none" /\ waiter' # "none" /\ (Flagged => Flagged')
  BY DEF Waiter, WaitReturns, WaitFails, StoreReaped, Publish, WaiterMoves,
         Flagged, userVars
<1> QED BY <1>1 DEF SignalInv, LateInv, ActInv, StopInv, CountInv, Used,
                   Holding, Abandon, Interrupted, mainVars, stopVars

(* A delivery, counted whether or not the channel takes it.                *)
LEMMA DeliverySignalInv ==
    ASSUME TypeOK, SignalInv, NEW sig \in Signals, Signal(sig)
    PROVE  SignalInv'
<1> DEFINE e == [sig |-> sig, late |-> Flagged]
           n == Len(interrupts)
<1>1. /\ UNCHANGED <<pc, event, takenLate, caught, first, cancelled, deadline, forced, lateActs>>
      /\ UNCHANGED waiter /\ asked' = asked + 1
      /\ interrupts' = IF n < 2 THEN Append(interrupts, e) ELSE interrupts
  BY DEF Signal, mainVars, stopVars, waitVars, ChanCap
<1>2. /\ interrupts \in Seq(SignalEvents) /\ n \in Nat /\ n <= 2 /\ asked \in Nat
      /\ e \in SignalEvents /\ e.late = Flagged
  BY SignalAssumption DEF TypeOK, TypeUser, SignalEvents, Flagged
<1> HIDE DEF e
<1>3. Flagged' = Flagged /\ Used' = Used /\ Used \in Nat
  BY <1>1 DEF Flagged, Used, Interrupted, Holding
<1>4. LateInv'
  <2>1. ASSUME NEW i \in 1 .. Len(interrupts'), interrupts'[i].late PROVE Flagged'
    <3>1. CASE n < 2
      <4>1. /\ Len(interrupts') = n + 1 /\ interrupts'[n + 1] = e
            /\ \A j \in 1 .. n : interrupts'[j] = interrupts[j]
        BY <1>1, <1>2, <3>1
      <4>2. CASE i = n + 1
        BY <1>2, <1>3, <2>1, <4>1, <4>2
      <4>3. CASE i # n + 1
        <5>1. i \in 1 .. n
          BY <1>2, <4>1, <4>3
        <5> QED BY <1>3, <2>1, <4>1, <5>1 DEF SignalInv, LateInv
      <4> QED BY <4>2, <4>3
    <3>2. CASE ~(n < 2)
      BY <1>1, <1>3, <2>1, <3>2 DEF SignalInv, LateInv
    <3> QED BY <3>1, <3>2
  <2> QED BY <1>1, <1>3, <2>1 DEF SignalInv, LateInv, Holding
<1>5. ActInv' /\ StopInv'
  BY <1>1, <1>3 DEF SignalInv, ActInv, StopInv, Abandon, Interrupted
<1>6. CountInv'
  <2>1. CASE n < 2
    <3>1. Len(interrupts') = n + 1
      BY <1>1, <1>2, <2>1
    <3> QED BY <1>1, <1>2, <1>3, <3>1 DEF SignalInv, CountInv
  <2>2. CASE ~(n < 2)
    BY <1>1, <1>2, <1>3, <2>2 DEF SignalInv, CountInv
  <2> QED BY <2>1, <2>2
<1> QED BY <1>4, <1>5, <1>6 DEF SignalInv

(* The main goroutine leaving waitForCommand, or past it.                  *)
LEMMA LeaveSignalInv ==
    ASSUME TypeOK, SignalInv, UNCHANGED <<stopVars, interrupts, asked, waiter>>,
           pc' \notin {"prepare", "loop", "select", "check", "recheck", "act"}
    PROVE  SignalInv'
<1>1. ~Holding' /\ Flagged' = Flagged
  BY DEF Holding, Flagged
<1> QED BY <1>1 DEF SignalInv, LateInv, ActInv, StopInv, CountInv, Abandon,
                   Interrupted, stopVars

LEMMA MainSignalInv == TypeOK /\ SignalInv /\ Main => SignalInv'
<1> SUFFICES ASSUME TypeOK, SignalInv, Main PROVE SignalInv'
  OBVIOUS
<1>0. /\ interrupts \in Seq(SignalEvents) /\ Len(interrupts) \in Nat
      /\ asked \in Nat /\ lateActs \in Nat /\ Used \in 0 .. 2
  BY SignalAssumption DEF TypeOK, TypeUser, TypeMain, Used
<1>1. CASE PrepareFails
  BY <1>1, LeaveSignalInv DEF PrepareFails, userVars, waitVars
<1>2. CASE Start
  <2>1. /\ UNCHANGED <<stopVars, interrupts, asked>> /\ pc = "prepare" /\ pc' = "loop"
        /\ waiter = "none" /\ waiter' = "waiting"
    BY <1>2 DEF Start, userVars, SignalInv, LateInv
  <2>2. ~Flagged /\ ~Flagged' /\ ~Holding /\ ~Holding'
    BY <2>1 DEF Flagged, Holding
  <2> QED BY <2>1, <2>2 DEF SignalInv, LateInv, ActInv, StopInv, CountInv, Used,
                           Abandon, Interrupted, stopVars
<1>3. CASE Loop
  <2>1. UNCHANGED <<stopVars, interrupts, asked, waiter>> /\ pc = "loop"
    BY <1>3 DEF Loop, Goto, elsewhere, userVars, waitVars
  <2>2. CASE Flagged
    BY <1>3, <2>1, <2>2, LeaveSignalInv DEF Loop, Goto
  <2>3. CASE ~Flagged
    <3>1. pc' = "select" /\ ~Flagged' /\ ~Holding /\ ~Holding'
      BY <1>3, <2>1, <2>3 DEF Loop, Goto, Flagged, Holding
    <3> QED BY <2>1, <2>3, <3>1 DEF SignalInv, LateInv, ActInv, StopInv, CountInv,
                                   Used, Abandon, Interrupted, stopVars
  <2> QED BY <2>2, <2>3
<1>4. CASE TakeResult
  BY <1>4, LeaveSignalInv DEF TakeResult, Goto, elsewhere, userVars, waitVars
<1>5. CASE SelectSignal
  <2>1. /\ pc = "select" /\ pc' = "check" /\ event' = "signal" /\ interrupts # <<>>
        /\ caught' = Head(interrupts) /\ interrupts' = Tail(interrupts)
        /\ takenLate' = Flagged
        /\ UNCHANGED <<first, cancelled, deadline, forced, lateActs, asked, waiter>>
    BY <1>5 DEF SelectSignal, waitVars
  <2>2. /\ Len(interrupts) >= 1 /\ caught' = interrupts[1] /\ caught' \in SignalEvents
        /\ Len(interrupts') = Len(interrupts) - 1
        /\ \A i \in 1 .. Len(interrupts') :
              interrupts'[i] = interrupts[i + 1] /\ i + 1 \in 1 .. Len(interrupts)
    BY <1>0, <2>1
  <2>3. Flagged' = Flagged /\ ~Holding /\ Holding' /\ Used' = Used + 1
    BY <2>1 DEF Flagged, Holding, Used, Interrupted
  <2>4. LateInv'
    <3>1. 1 \in 1 .. Len(interrupts)
      BY <1>0, <2>2
    <3> QED BY <2>1, <2>2, <2>3, <3>1 DEF SignalInv, LateInv
  <2>5. ActInv' /\ StopInv'
    BY <1>0, <2>1, <2>3 DEF SignalInv, ActInv, StopInv, Abandon, Interrupted
  <2>6. CountInv'
    BY <1>0, <2>1, <2>2, <2>3 DEF SignalInv, CountInv
  <2> QED BY <2>4, <2>5, <2>6 DEF SignalInv
<1>6. CASE SelectDeadline \/ SelectCancel
  <2>1. /\ pc = "select" /\ pc' = "check" /\ event' # "signal" /\ takenLate' = Flagged
        /\ UNCHANGED <<first, cancelled, deadline, forced, lateActs, interrupts,
                      asked, waiter>>
    BY <1>6 DEF SelectDeadline, SelectCancel, elsewhere, userVars, waitVars
  <2>2. Flagged' = Flagged /\ ~Holding /\ ~Holding' /\ Used' = Used
    BY <2>1 DEF Flagged, Holding, Used, Interrupted
  <2> QED BY <1>0, <2>1, <2>2 DEF SignalInv, LateInv, ActInv, StopInv, CountInv,
                                 Abandon, Interrupted
<1>7. CASE Check
  <2>1. UNCHANGED <<stopVars, interrupts, asked, waiter>> /\ pc = "check"
    BY <1>7 DEF Check, Goto, elsewhere, userVars, waitVars
  <2>2. CASE Flagged
    BY <1>7, <2>1, <2>2, LeaveSignalInv DEF Check, Goto
  <2>3. CASE ~Flagged
    <3>1. /\ pc' = "recheck" /\ ~Flagged' /\ Holding' = Holding /\ Used' = Used
      BY <1>7, <2>1, <2>3 DEF Check, Goto, Flagged, Holding, Used, Interrupted, stopVars
    <3> QED BY <2>1, <2>3, <3>1 DEF SignalInv, LateInv, ActInv, StopInv, CountInv,
                                   Abandon, Interrupted, stopVars
  <2> QED BY <2>2, <2>3
<1>8. CASE Recheck
  <2>1. UNCHANGED <<stopVars, interrupts, asked, waiter>> /\ pc = "recheck"
    BY <1>8 DEF Recheck, Goto, elsewhere, userVars, waitVars
  <2>2. CASE waiter = "published"
    BY <1>8, <2>1, <2>2, LeaveSignalInv DEF Recheck, Goto
  <2>3. CASE waiter # "published"
    <3>1. /\ pc' = "act" /\ Flagged' = Flagged /\ Holding' = Holding /\ Used' = Used
      BY <1>8, <2>1, <2>3 DEF Recheck, Goto, Flagged, Holding, Used, Interrupted, stopVars
    <3> QED BY <2>1, <2>3, <3>1 DEF SignalInv, LateInv, ActInv, StopInv, CountInv,
                                   Abandon, Interrupted, stopVars
  <2> QED BY <2>2, <2>3
<1>9. CASE ForwardFirst \/ SecondSignal \/ GraceExpired \/ Cancel
  <2>1. /\ pc = "act" /\ pc' = "loop"
        /\ UNCHANGED <<takenLate, caught, interrupts, asked, waiter>>
        /\ lateActs' = lateActs + IF Flagged THEN 1 ELSE 0
    BY <1>9 DEF ForwardFirst, SecondSignal, GraceExpired, Cancel, CountLateAct,
                userVars, waitVars
  <2>2. Flagged' = Flagged /\ ~Holding'
    BY <2>1 DEF Flagged, Holding
  <2>3. /\ (first' = caught /\ Holding /\ ~Interrupted) \/ first' = first
        /\ forced => forced'
    BY <1>9, <2>1 DEF ForwardFirst, SecondSignal, GraceExpired, Cancel, ForceKill, Holding
  <2>4. LateInv'
    BY <2>1, <2>2, <2>3 DEF SignalInv, LateInv
  <2>5. ActInv'
    BY <1>0, <2>1, <2>2 DEF SignalInv, ActInv
  <2>6. forced' \/ (deadline' /\ ForwardFirst)
    BY <1>9 DEF ForwardFirst, SecondSignal, GraceExpired, Cancel, ForceKill
  <2>7. CountInv'
    <3>1. CASE forced'
      BY <3>1 DEF CountInv
    <3>2. CASE ForwardFirst /\ ~forced'
      <4>1. Holding /\ ~Interrupted /\ first' = caught /\ ~forced
        BY <2>3, <3>2 DEF ForwardFirst, Holding
      <4>2. caught # NoSignal
        BY <4>1, SignalAssumption DEF SignalInv, LateInv, SignalEvents, NoSignal
      <4>3. Used' = Used
        BY <2>2, <4>1, <4>2 DEF Used, Interrupted
      <4> QED BY <1>0, <2>1, <4>1, <4>3 DEF SignalInv, CountInv
    <3> QED BY <2>6, <3>1, <3>2
  <2> QED BY <2>4, <2>5, <2>6, <2>7 DEF SignalInv, StopInv
<1>10. CASE \/ ReceiveDrain \/ DrainsDone \/ DrainDeadline \/ Flush
           \/ CloseStdout \/ CloseStderr \/ Status \/ Assemble
  <2>1. UNCHANGED <<stopVars, interrupts, asked, waiter>>
    BY <1>10 DEF ReceiveDrain, DrainsDone, DrainDeadline, Flush, CloseStdout,
                 CloseStderr, Status, Assemble, Goto, elsewhere, mainVars,
                 userVars, waitVars
  <2>2. pc' \notin {"prepare", "loop", "select", "check", "recheck", "act"}
    BY <1>10 DEF ReceiveDrain, DrainsDone, DrainDeadline, Flush, CloseStdout,
                 CloseStderr, Status, Assemble, Goto, mainVars
  <2> QED BY <2>1, <2>2, LeaveSignalInv
<1> QED BY <1>1, <1>2, <1>3, <1>4, <1>5, <1>6, <1>7, <1>8, <1>9, <1>10 DEF Main

LEMMA NextSignalInv == TypeOK /\ SignalInv /\ [Next]_vars => SignalInv'
<1> SUFFICES ASSUME TypeOK, SignalInv, [Next]_vars PROVE SignalInv'
  OBVIOUS
<1>1. CASE UNCHANGED vars
  BY <1>1, QuietSignalInv DEF vars, elsewhere, userVars, waitVars
<1>2. ASSUME NEW s \in Streams, Drain(s) PROVE SignalInv'
  BY <1>2, QuietSignalInv DEF Drain, Read, ReadEnds, Collect, ForwardDone,
     ForwardFails, Finish, outsideDrains, userVars, waitVars
<1>3. CASE Process
  BY <1>3, QuietSignalInv DEF Process, Exit, CloseStream, WriteByte, userVars, waitVars
<1>4. CASE User
  BY <1>4, QuietSignalInv, DeliverySignalInv DEF User, CancelContext, waitVars
<1>5. CASE Consumer
  BY <1>5, QuietSignalInv DEF Consumer, Stall, Resume, Leave, userVars, waitVars
<1> QED BY <1>1, <1>2, <1>3, <1>4, <1>5, MainSignalInv, WaiterSignalInv DEF Next

-----------------------------------------------------------------------------
(***************************************************************************)
(* The output half of the inductive invariant: what the drain goroutines   *)
(* and the receipt know of each stream.                                    *)
(***************************************************************************)

(* Nobody can write the stream and all of it is in the collector.          *)
Sealed(s) == holders[s] = {} /\ collected[s] = wrote[s]

DrainInv(s) ==
    /\ pc = "prepare" => dpc[s] = "none"
    /\ dpc[s] = "forward" => s \in Passthrough
    /\ dpc[s] = "eof" => Sealed(s)
    /\ complete[s] # "pending" => dpc[s] = "exited"
    /\ complete[s] = "complete" => Sealed(s)
    /\ s \in Passthrough /\ ~failed[s] =>
          collected[s] = forwarded[s] + IF dpc[s] = "forward" THEN chunk[s] ELSE 0

ResultInv ==
    \A r \in results : dpc[r.name] = "exited" /\ (r.complete => Sealed(r.name))

(* The drain goroutine is over, or it was abandoned: whatever it still     *)
(* does, the passthrough is known to have failed.                          *)
Resolved(s) == dpc[s] = "exited" \/ (Abandon /\ (s \in Passthrough => failed[s]))

(* What the receipt says of the stream cannot be changed by its goroutine. *)
Settled(s) == complete[s] = "complete" \/ (s \in Passthrough /\ ~failed[s])

ReceiptInv ==
    /\ pc = "closeStderr" /\ Abandon => Resolved("stdout")
    /\ pc \in {"status", "assemble", "done"} => \A s \in Streams : Resolved(s)
    /\ pc \in {"assemble", "done"} => warned = failed
    /\ pc = "done" => \A s \in Streams : Settled(s) => received[s] = collected[s]

OutputInv == (\A s \in Streams : DrainInv(s)) /\ ResultInv /\ ReceiptInv

LEMMA InitOutputInv == Init => OutputInv
BY DEF Init, OutputInv, DrainInv, ResultInv, ReceiptInv

(* Steps that touch neither the streams nor the receipt, before the        *)
(* readers are closed.                                                     *)
EarlyPCs == {"loop", "select", "check", "recheck", "act", "result", "await",
             "flush", "closeStdout", "failed"}

LEMMA EarlyOutputInv ==
    ASSUME OutputInv, pc' \in EarlyPCs,
           UNCHANGED <<holders, wrote, dpc, chunk, collected, forwarded, failed,
                       results, complete>>
    PROVE  OutputInv'
<1>1. \A s \in Streams : DrainInv(s)'
  BY DEF OutputInv, DrainInv, Sealed, EarlyPCs
<1>2. ResultInv'
  BY DEF OutputInv, ResultInv, Sealed
<1>3. ReceiptInv'
  BY DEF ReceiptInv, EarlyPCs
<1> QED BY <1>1, <1>2, <1>3 DEF OutputInv

(* Steps that touch neither the streams nor the receipt nor the main       *)
(* goroutine.                                                              *)
LEMMA QuietOutputInv ==
    ASSUME OutputInv,
           UNCHANGED <<pc, first, cancelled, holders, wrote, dpc, chunk,
                       collected, forwarded, failed, results, receiptVars>>
    PROVE  OutputInv'
<1>1. \A s \in Streams : DrainInv(s)'
  BY DEF OutputInv, DrainInv, Sealed, receiptVars
<1>2. ResultInv'
  BY DEF OutputInv, ResultInv, Sealed
<1>3. ReceiptInv'
  BY DEF OutputInv, ReceiptInv, Resolved, Settled, Abandon, Interrupted, receiptVars
<1> QED BY <1>1, <1>2, <1>3 DEF OutputInv

LEMMA MainOutputInv == TypeOK /\ OutputInv /\ Main => OutputInv'
<1> SUFFICES ASSUME TypeOK, OutputInv, Main PROVE OutputInv'
  OBVIOUS
<1>1. CASE \/ PrepareFails \/ Loop \/ TakeResult \/ SelectSignal \/ SelectDeadline
           \/ SelectCancel \/ Check \/ Recheck \/ DrainDeadline \/ Flush
  <2>1. pc' \in EarlyPCs
    BY <1>1 DEF PrepareFails, Loop, TakeResult, SelectSignal, SelectDeadline,
       SelectCancel, Check, Recheck, DrainDeadline, Flush, Goto, EarlyPCs
  <2>2. UNCHANGED <<holders, wrote, dpc, chunk, collected, forwarded, failed,
                    results, complete>>
    BY <1>1 DEF PrepareFails, Loop, TakeResult, SelectSignal, SelectDeadline,
       SelectCancel, Check, Recheck, DrainDeadline, Flush, Goto, elsewhere,
       procVars, drainVars, receiptVars
  <2> QED BY <2>1, <2>2, EarlyOutputInv
<1>2. CASE ForwardFirst \/ SecondSignal \/ GraceExpired \/ Cancel
  <2>1. /\ pc' \in EarlyPCs
        /\ UNCHANGED <<holders, wrote, dpc, chunk, collected, forwarded, failed,
                       results, complete>>
    BY <1>2 DEF ForwardFirst, SecondSignal, GraceExpired, Cancel, EarlyPCs,
       drainVars, receiptVars
  <2> QED BY <2>1, EarlyOutputInv
<1>3. CASE Start
  <2>1. \A s \in Streams : dpc[s] = "none" /\ complete[s] = "pending"
    BY <1>3 DEF Start, OutputInv, DrainInv
  <2>2. results = {}
    <3>1. SUFFICES ASSUME NEW r \in results PROVE FALSE
      OBVIOUS
    <3>2. r.name \in Streams /\ dpc[r.name] = "exited"
      BY <3>1 DEF OutputInv, ResultInv, TypeOK, TypeDrain
    <3> QED BY <2>1, <3>2
  <2>3. \A s \in Streams : DrainInv(s)'
    BY <1>3, <2>1 DEF Start, OutputInv, DrainInv, TypeOK, TypeDrain, receiptVars
  <2>4. ResultInv' /\ ReceiptInv'
    BY <1>3, <2>2 DEF Start, ResultInv, ReceiptInv
  <2> QED BY <2>3, <2>4 DEF OutputInv
<1>4. CASE ReceiveDrain
  <2>1. PICK r \in results :
          /\ complete' = [complete EXCEPT ![r.name] =
                             IF r.complete THEN "complete" ELSE "incomplete"]
          /\ results' = results \ {r}
    BY <1>4 DEF ReceiveDrain
  <2>2. /\ UNCHANGED <<pc, holders, wrote, dpc, chunk, collected, forwarded, failed>>
        /\ pc \in {"await", "flush", "rest"}
    BY <1>4 DEF ReceiveDrain, mainVars, procVars
  <2>3. r.name \in Streams /\ dpc[r.name] = "exited" /\ (r.complete => Sealed(r.name))
    BY DEF OutputInv, ResultInv, TypeOK, TypeDrain
  <2>4. ASSUME NEW s \in Streams PROVE DrainInv(s)'
    <3>1. complete'[s] = IF s = r.name
                         THEN IF r.complete THEN "complete" ELSE "incomplete"
                         ELSE complete[s]
      BY <2>1, <2>3 DEF TypeOK, TypeReceipt
    <3> QED BY <2>2, <2>3, <3>1 DEF OutputInv, DrainInv, Sealed
  <2>5. ResultInv'
    BY <2>1, <2>2 DEF OutputInv, ResultInv, Sealed
  <2>6. ReceiptInv'
    BY <2>2 DEF ReceiptInv
  <2> QED BY <2>4, <2>5, <2>6 DEF OutputInv
<1>5. CASE DrainsDone
  <2>1. /\ pc' = "status" /\ Pending = {} /\ pc # "prepare"
        /\ UNCHANGED <<holders, wrote, dpc, chunk, collected, forwarded, failed,
                       results, complete>>
    BY <1>5 DEF DrainsDone, Goto, elsewhere, procVars, drainVars, receiptVars
  <2>2. \A s \in Streams : dpc'[s] = "exited"
    BY <2>1 DEF Pending, OutputInv, DrainInv
  <2>3. \A s \in Streams : DrainInv(s)'
    BY <2>1 DEF OutputInv, DrainInv, Sealed
  <2>4. ResultInv'
    BY <2>1 DEF OutputInv, ResultInv, Sealed
  <2>5. ReceiptInv'
    BY <2>1, <2>2 DEF ReceiptInv, Resolved
  <2> QED BY <2>3, <2>4, <2>5 DEF OutputInv
<1>6. CASE CloseStdout \/ CloseStderr
  <2>1. /\ UNCHANGED <<first, cancelled, holders, wrote, dpc, chunk, collected,
                       forwarded, results, complete>>
        /\ \/ pc = "closeStdout" /\ pc' = "closeStderr" /\ CloseReader("stdout")
           \/ /\ pc = "closeStderr" /\ CloseReader("stderr")
              /\ pc' = IF Abandon THEN "status" ELSE "rest"
    BY <1>6 DEF CloseStdout, CloseStderr, stopVars, procVars, receiptVars
  <2>2. Abandon' = Abandon
    BY <2>1 DEF Abandon, Interrupted
  <2>3. \A s \in Streams : failed[s] => failed'[s]
    BY <2>1 DEF CloseReader, TypeOK, TypeDrain
  <2>4. ASSUME NEW s \in Streams, CloseReader(s), Abandon PROVE Resolved(s)'
    <3>1. CASE s \in Pending \cap Passthrough
      BY <2>2, <2>4, <3>1 DEF CloseReader, Resolved, TypeOK, TypeDrain
    <3>2. CASE s \notin Pending
      BY <2>1, <3>2 DEF Pending, OutputInv, DrainInv, Resolved
    <3>3. CASE s \notin Passthrough
      BY <2>2, <2>4, <3>3 DEF Resolved
    <3> QED BY <3>1, <3>2, <3>3
  <2>5. \A s \in Streams : DrainInv(s)'
    BY <2>1, <2>3 DEF OutputInv, DrainInv, Sealed
  <2>6. ResultInv'
    BY <2>1 DEF OutputInv, ResultInv, Sealed
  <2>7. ReceiptInv'
    <3>1. CASE pc' = "closeStderr"
      BY <2>1, <2>2, <2>4, <3>1 DEF ReceiptInv, Streams
    <3>2. CASE pc' = "status"
      <4>1. pc = "closeStderr" /\ CloseReader("stderr") /\ Abandon
        BY <2>1, <3>2
      <4>2. Resolved("stdout")' /\ Resolved("stderr")'
        BY <2>1, <2>2, <2>3, <2>4, <4>1 DEF OutputInv, ReceiptInv, Resolved, Streams
      <4> QED BY <3>2, <4>2 DEF ReceiptInv, Streams
    <3>3. CASE pc' = "rest"
      BY <3>3 DEF ReceiptInv
    <3> QED BY <2>1, <3>1, <3>2, <3>3
  <2> QED BY <2>5, <2>6, <2>7 DEF OutputInv
<1>7. CASE Status \/ Assemble
  <2>1. /\ UNCHANGED <<first, cancelled, holders, wrote, dpc, chunk, collected,
                       forwarded, failed, results, complete>>
        /\ \/ pc = "status" /\ pc' = "assemble" /\ warned' = failed
           \/ pc = "assemble" /\ warned' = warned
              /\ (pc' = "failed" \/ (pc' = "done" /\ received' = collected))
    BY <1>7 DEF Status, Assemble, stopVars, procVars, drainVars
  <2>2. \A s \in Streams : DrainInv(s)'
    BY <2>1 DEF OutputInv, DrainInv, Sealed
  <2>3. ResultInv'
    BY <2>1 DEF OutputInv, ResultInv, Sealed
  <2>4. ReceiptInv'
    BY <2>1 DEF OutputInv, ReceiptInv, Resolved, Abandon, Interrupted
  <2> QED BY <2>2, <2>3, <2>4 DEF OutputInv
<1> QED BY <1>1, <1>2, <1>3, <1>4, <1>5, <1>6, <1>7 DEF Main

LEMMA DrainOutputInv ==
    ASSUME TypeOK, OutputInv, NEW s \in Streams, Drain(s)
    PROVE  OutputInv'
<1>1. /\ UNCHANGED <<pc, first, cancelled, holders, wrote, complete, warned, received>>
      /\ Abandon' = Abandon
  BY DEF Drain, Read, ReadEnds, Collect, ForwardDone, ForwardFails, Finish,
         outsideDrains, mainVars, stopVars, procVars, receiptVars, Abandon, Interrupted
<1>2. /\ DrainInv(s) /\ TypeDrain /\ dpc[s] \notin {"none", "exited"}
      /\ complete[s] = "pending" /\ pc # "prepare"
  BY DEF OutputInv, DrainInv, TypeOK, Drain, Read, ReadEnds, Collect,
         ForwardDone, ForwardFails, Finish
<1>3. \A q \in Streams \ {s} : /\ dpc'[q] = dpc[q] /\ chunk'[q] = chunk[q]
                               /\ collected'[q] = collected[q]
                               /\ forwarded'[q] = forwarded[q]
                               /\ failed'[q] = failed[q]
  BY <1>2 DEF TypeDrain, Drain, Read, ReadEnds, Collect, ForwardDone,
              ForwardFails, Finish
<1>4. DrainInv(s)'
  <2> USE <1>1, <1>2 DEF TypeDrain, DrainInv
  <2>1. CASE Read(s)
    BY <2>1 DEF Read
  <2>2. CASE ReadEnds(s)
    <3>1. holders[s] = {} /\ wrote[s] - collected[s] = 0 => Sealed(s)
      BY DEF Sealed, TypeOK, TypeProc
    <3>2. readerOpen[s] /\ AtEOF(s) => Sealed(s)
      BY <2>2, <3>1 DEF ReadEnds, AtEOF, InPipe, Taken, TypeOK, TypeProc
    <3> QED BY <2>2, <3>2 DEF ReadEnds, Sealed
  <2>3. CASE Collect(s)
    BY <2>3 DEF Collect
  <2>4. CASE ForwardDone(s)
    BY <2>4 DEF ForwardDone
  <2>5. CASE ForwardFails(s)
    BY <2>5 DEF ForwardFails
  <2>6. CASE Finish(s)
    BY <2>6 DEF Finish
  <2> QED BY <2>1, <2>2, <2>3, <2>4, <2>5, <2>6 DEF Drain
<1>5. \A q \in Streams \ {s} : DrainInv(q)'
  BY <1>1, <1>3 DEF OutputInv, DrainInv, Sealed
<1>6. ASSUME NEW r \in results' PROVE dpc'[r.name] = "exited" /\ (r.complete => Sealed(r.name)')
  <2>1. CASE r \in results
    <3>1. /\ r.name \in Streams /\ dpc[r.name] = "exited" /\ (r.complete => Sealed(r.name))
      BY <2>1 DEF OutputInv, ResultInv, TypeOK, TypeDrain
    <3>2. r.name # s
      BY <1>2, <3>1
    <3> QED BY <1>1, <1>3, <3>1, <3>2 DEF Sealed
  <2>2. CASE r \notin results
    <3>1. Finish(s) /\ r = [name |-> s, complete |-> dpc[s] = "eof"]
      BY <1>6, <2>2 DEF Drain, Read, ReadEnds, Collect, ForwardDone, ForwardFails, Finish
    <3> QED BY <1>1, <1>2, <3>1 DEF Finish, TypeDrain, DrainInv, Sealed
  <2> QED BY <2>1, <2>2
<1>7. ReceiptInv'
  <2>1. ASSUME NEW q \in Streams, Resolved(q) PROVE Resolved(q)'
    <3>1. CASE q # s
      BY <1>1, <1>3, <2>1, <3>1 DEF Resolved
    <3>2. CASE q = s
      <4>1. failed[s] => failed'[s]
        BY <1>2 DEF TypeDrain, Drain, Read, ReadEnds, Collect, ForwardDone,
                    ForwardFails, Finish
      <4> QED BY <1>1, <1>2, <2>1, <3>2, <4>1 DEF Resolved
    <3> QED BY <3>1, <3>2
  <2>2. Resolved(s) => failed' = failed
    <3>1. Resolved(s) /\ ForwardFails(s) => failed[s]
      BY <1>2 DEF Resolved, DrainInv, ForwardFails
    <3>2. failed[s] => [failed EXCEPT ![s] = TRUE] = failed
      BY <1>2 DEF TypeDrain
    <3>3. failed' = failed \/ (ForwardFails(s) /\ failed' = [failed EXCEPT ![s] = TRUE])
      BY DEF Drain, Read, ReadEnds, Collect, ForwardDone, ForwardFails, Finish
    <3> QED BY <3>1, <3>2, <3>3
  <2>3. Resolved(s) => ~Settled(s)
    BY <1>2 DEF Resolved, Settled
  <2>4. pc = "closeStderr" /\ Abandon => Resolved("stdout")'
    BY <2>1 DEF OutputInv, ReceiptInv, Streams
  <2>5. pc \in {"status", "assemble", "done"} =>
          /\ \A q \in Streams : Resolved(q) /\ Resolved(q)'
          /\ failed' = failed /\ ~Settled(s)
    BY <2>1, <2>2, <2>3 DEF OutputInv, ReceiptInv
  <2>6. pc = "done" => \A q \in Streams : Settled(q)' => received[q] = collected'[q]
    <3>1. SUFFICES ASSUME pc = "done", NEW q \in Streams, Settled(q)'
                   PROVE  received[q] = collected'[q]
      OBVIOUS
    <3>2. Settled(q)
      BY <1>1, <2>5, <3>1 DEF Settled
    <3>3. q # s
      BY <2>5, <3>1, <3>2
    <3> QED BY <1>3, <3>1, <3>2, <3>3 DEF OutputInv, ReceiptInv
  <2> QED BY <1>1, <2>4, <2>5, <2>6 DEF OutputInv, ReceiptInv
<1> QED BY <1>4, <1>5, <1>6, <1>7 DEF OutputInv, ResultInv

LEMMA ProcessOutputInv == TypeOK /\ OutputInv /\ Process => OutputInv'
<1> SUFFICES ASSUME TypeOK, OutputInv, Process PROVE OutputInv'
  OBVIOUS
<1>1. UNCHANGED <<pc, first, cancelled, dpc, chunk, collected, forwarded, failed,
                  results, complete, warned, received>>
  BY DEF Process, Exit, CloseStream, WriteByte, mainVars, stopVars, drainVars,
         receiptVars
<1>2. ASSUME NEW s \in Streams, Sealed(s) PROVE Sealed(s)'
  <2>1. CASE \E p \in Procs : Exit(p) \/ \E q \in Streams : CloseStream(p, q)
    BY <1>1, <1>2, <2>1 DEF Exit, CloseStream, Sealed, TypeOK, TypeProc
  <2>2. CASE \E p \in Procs, q \in Streams : WriteByte(p, q)
    BY <1>1, <1>2, <2>2 DEF WriteByte, Sealed, TypeOK, TypeProc
  <2> QED BY <2>1, <2>2 DEF Process
<1>3. \A s \in Streams : DrainInv(s)'
  BY <1>1, <1>2 DEF OutputInv, DrainInv
<1>4. ResultInv'
  BY <1>1, <1>2 DEF OutputInv, ResultInv, TypeOK, TypeDrain
<1>5. ReceiptInv'
  BY <1>1 DEF OutputInv, ReceiptInv, Resolved, Settled, Abandon, Interrupted
<1> QED BY <1>3, <1>4, <1>5 DEF OutputInv

LEMMA NextOutputInv == TypeOK /\ OutputInv /\ [Next]_vars => OutputInv'
<1> SUFFICES ASSUME TypeOK, OutputInv, [Next]_vars PROVE OutputInv'
  OBVIOUS
<1>1. CASE UNCHANGED vars
  BY <1>1, QuietOutputInv DEF vars, elsewhere, mainVars, stopVars, procVars, drainVars
<1>2. CASE Waiter
  BY <1>2, QuietOutputInv DEF Waiter, WaitReturns, WaitFails, StoreReaped, Publish,
     mainVars, stopVars, procVars, drainVars
<1>3. CASE User
  BY <1>3, QuietOutputInv DEF User, Signal, CancelContext, mainVars, stopVars,
     procVars, drainVars
<1>4. CASE Consumer
  BY <1>4, QuietOutputInv DEF Consumer, Stall, Resume, Leave, mainVars, stopVars,
     procVars, drainVars
<1> QED BY <1>1, <1>2, <1>3, <1>4, MainOutputInv, DrainOutputInv, ProcessOutputInv
        DEF Next

-----------------------------------------------------------------------------
(***************************************************************************)
(* What the receipt calls the outcome was final when it was made: the      *)
(* command had been reaped.                                                *)
(***************************************************************************)
AfterWait == {"await", "flush", "closeStdout", "closeStderr", "rest", "status",
              "assemble", "done"}

OutcomeInv ==
    /\ waiter \in {"reaped", "flagged", "published"} => Child \notin alive
    /\ pc \in AfterWait => waiter = "published"
    /\ pc = "done" => code = IF Interrupted THEN 128 + first.sig ELSE exitCode

LEMMA NextOutcomeInv == OutcomeInv /\ [Next]_vars => OutcomeInv'
<1> SUFFICES ASSUME OutcomeInv, [Next]_vars PROVE OutcomeInv'
  OBVIOUS
<1> USE DEF OutcomeInv, Interrupted, AfterWait
<1>1. CASE PrepareFails \/ Start
  BY <1>1 DEF PrepareFails, Start, waitVars, procVars
<1>2. CASE Loop \/ TakeResult \/ Check \/ Recheck \/ DrainsDone \/ DrainDeadline \/ Flush
  BY <1>2 DEF Loop, TakeResult, Check, Recheck, DrainsDone, DrainDeadline, Flush,
     Goto, stopVars, elsewhere, waitVars, procVars, receiptVars
<1>3. CASE SelectSignal \/ SelectDeadline \/ SelectCancel
  BY <1>3 DEF SelectSignal, SelectDeadline, SelectCancel, elsewhere, waitVars, procVars
<1>4. CASE ForwardFirst \/ SecondSignal \/ GraceExpired \/ Cancel
  BY <1>4 DEF ForwardFirst, SecondSignal, GraceExpired, Cancel, waitVars
<1>5. CASE ReceiveDrain \/ CloseStdout \/ CloseStderr \/ Status
  BY <1>5 DEF ReceiveDrain, CloseStdout, CloseStderr, Status, mainVars, stopVars,
     waitVars, procVars, receiptVars
<1>6. CASE Assemble
  BY <1>6 DEF Assemble, stopVars, waitVars, procVars
<1>7. CASE Waiter
  BY <1>7 DEF Waiter, WaitReturns, WaitFails, StoreReaped, Publish, WaiterMoves,
     mainVars, stopVars, procVars, receiptVars
<1>8. CASE User \/ Consumer \/ \E s \in Streams : Drain(s)
  <2>1. UNCHANGED <<mainVars, waitVars, procVars, receiptVars>>
    BY <1>8 DEF User, Signal, CancelContext, Consumer, Stall, Resume, Leave, Drain,
       Read, ReadEnds, Collect, ForwardDone, ForwardFails, Finish, outsideDrains
  <2> QED BY <2>1 DEF mainVars, stopVars, waitVars, procVars, receiptVars
<1>9. CASE Process
  <2>1. /\ UNCHANGED <<mainVars, waiter, receiptVars>> /\ alive' \subseteq alive
        /\ exitCode' = exitCode \/ Child \in alive
    BY <1>9 DEF Process, Exit, CloseStream, WriteByte, waitVars
  <2> QED BY <2>1 DEF mainVars, stopVars, receiptVars
<1>10. CASE UNCHANGED vars
  BY <1>10 DEF vars, mainVars, stopVars, elsewhere, waitVars, procVars, receiptVars
<1> HIDE DEF OutcomeInv
<1> QED BY <1>1, <1>2, <1>3, <1>4, <1>5, <1>6, <1>7, <1>8, <1>9, <1>10
        DEF Next, Main

-----------------------------------------------------------------------------
(***************************************************************************)
(* The quiet half: what holds of a run as long as nobody has interrupted   *)
(* or cancelled it and the drain deadline has not fired.                   *)
(***************************************************************************)

(* The result of a drain goroutine is never lost.                          *)
ResultKept(s) ==
    dpc[s] = "exited" /\ complete[s] = "pending" => \E r \in results : r.name = s

Quiet == ~Abandon /\ atDeadline = "none"

(* No reader is closed under a drain goroutine, so none of them fails.     *)
Undisturbed(s) ==
    /\ dpc[s] # "error" /\ complete[s] # "incomplete"
    /\ dpc[s] \in {"read", "collect", "forward", "eof"} => readerOpen[s]
    /\ pc \in {"status", "assemble", "done"} => complete[s] = "complete"

QuietInv ==
    /\ pc = "prepare" => \A s \in Streams : dpc[s] = "none" /\ readerOpen[s]
    /\ \A s \in Streams : ResultKept(s)
    /\ atDeadline # "unexplained"
    /\ Quiet =>
          /\ pc \notin {"flush", "closeStdout", "closeStderr", "rest"}
          /\ \A s \in Streams : Undisturbed(s)
          /\ \A r \in results : r.complete

LEMMA InitQuietInv == Init => QuietInv
BY DEF Init, QuietInv, ResultKept, Undisturbed

(* Steps that leave the drains and the receipt alone.                      *)
LEMMA StableQuietInv ==
    ASSUME QuietInv, Abandon => Abandon', UNCHANGED <<dpc, readerOpen, results, complete, atDeadline>>,
           pc' = pc \/ pc' \notin {"prepare", "flush", "closeStdout", "closeStderr", "rest",
                                   "status", "assemble", "done"}
    PROVE  QuietInv'
BY DEF QuietInv, ResultKept, Quiet, Undisturbed

(* The deadline never fires without a reason outside of runprint: a drain  *)
(* goroutine that is idle and has a live reader that reads waits for a     *)
(* process, and one that is over has left its result.                      *)
LEMMA DeadlineExplained ==
    ASSUME TypeOK, QuietInv, Pending # {}, Lateness = "unexplained"
    PROVE  FALSE
<1>1. /\ Idle
      /\ \A s \in Streams : holders[s] \cap Procs = {} /\ consumer[s] # "stalled"
  BY DEF Lateness
<1>2. PICK s \in Streams : complete[s] = "pending"
  BY DEF Pending
<1>3. dpc[s] # "exited"
  BY <1>1, <1>2 DEF QuietInv, ResultKept, Idle
<1>4. InPipe(s) = 0 /\ ~AtEOF(s)
  BY <1>1, <1>3 DEF Idle
<1>5. holders[s] # {} /\ holders[s] \subseteq Procs
  BY <1>4 DEF AtEOF, TypeOK, TypeProc
<1> QED BY <1>1, <1>5

LEMMA MainQuietInv == TypeOK /\ OutputInv /\ QuietInv /\ Main => QuietInv'
<1> SUFFICES ASSUME TypeOK, OutputInv, QuietInv, Main PROVE QuietInv'
  OBVIOUS
<1> USE DEF drainVars, receiptVars
<1>1. CASE Loop \/ TakeResult \/ SelectSignal \/ SelectDeadline \/ SelectCancel
           \/ Check \/ Recheck
  <2>1. /\ UNCHANGED <<first, cancelled, dpc, readerOpen, results, complete, atDeadline>>
        /\ pc' \in {"result", "select", "await", "check", "recheck", "act"}
    BY <1>1 DEF Loop, TakeResult, SelectSignal, SelectDeadline, SelectCancel, Check,
       Recheck, Goto, stopVars, elsewhere
  <2> QED BY <2>1, StableQuietInv DEF Abandon, Interrupted
<1>2. CASE ForwardFirst \/ SecondSignal \/ GraceExpired \/ Cancel
  <2>1. UNCHANGED <<dpc, readerOpen, results, complete, atDeadline>> /\ pc' = "loop"
    BY <1>2 DEF ForwardFirst, SecondSignal, GraceExpired, Cancel
  <2>2. Abandon => Abandon'
    BY <1>2 DEF ForwardFirst, SecondSignal, GraceExpired, Cancel, Abandon, Interrupted
  <2> QED BY <2>1, <2>2, StableQuietInv
<1>3. CASE PrepareFails \/ Start
  <2>1. /\ pc = "prepare" /\ pc' \in {"failed", "loop"}
        /\ UNCHANGED <<first, cancelled, results, complete, atDeadline>>
        /\ \/ dpc' = dpc
           \/ dpc' = [s \in Streams |-> "read"] /\ readerOpen' = readerOpen
    BY <1>3 DEF PrepareFails, Start, stopVars
  <2> QED BY <2>1 DEF QuietInv, ResultKept, Quiet, Undisturbed, Abandon, Interrupted
<1>4. CASE ReceiveDrain
  <2>1. PICK r \in results :
          /\ complete' = [complete EXCEPT ![r.name] =
                             IF r.complete THEN "complete" ELSE "incomplete"]
          /\ results' = results \ {r}
    BY <1>4 DEF ReceiveDrain
  <2>2. /\ UNCHANGED <<pc, first, cancelled, dpc, readerOpen, atDeadline>>
        /\ pc \in {"await", "flush", "rest"}
    BY <1>4 DEF ReceiveDrain, mainVars, stopVars
  <2>3. \A s \in Streams : complete'[s] =
            IF s = r.name THEN IF r.complete THEN "complete" ELSE "incomplete"
                          ELSE complete[s]
    BY <2>1 DEF TypeOK, TypeReceipt
  <2>4. ASSUME NEW s \in Streams PROVE ResultKept(s)'
    BY <2>1, <2>2, <2>3 DEF QuietInv, ResultKept
  <2>5. Quiet' => Quiet /\ r.complete
    BY <2>2 DEF QuietInv, Quiet, Abandon, Interrupted
  <2>6. ASSUME NEW s \in Streams, Quiet' PROVE Undisturbed(s)'
    BY <2>2, <2>3, <2>5, <2>6 DEF QuietInv, Undisturbed
  <2> QED BY <2>1, <2>2, <2>4, <2>5, <2>6 DEF QuietInv
<1>5. CASE DrainsDone
  <2>1. /\ UNCHANGED <<first, cancelled, dpc, readerOpen, results, complete, atDeadline>>
        /\ pc' = "status" /\ Pending = {}
    BY <1>5 DEF DrainsDone, Goto, stopVars, elsewhere
  <2>2. \A s \in Streams : complete[s] \in {"complete", "incomplete"}
    BY <2>1 DEF Pending, TypeOK, TypeReceipt
  <2> QED BY <2>1, <2>2 DEF QuietInv, ResultKept, Quiet, Undisturbed, Abandon, Interrupted
<1>6. CASE DrainDeadline
  <2>1. /\ UNCHANGED <<first, cancelled, dpc, readerOpen, results, complete>>
        /\ pc' = "flush" /\ Pending # {} /\ atDeadline' = Lateness
    BY <1>6 DEF DrainDeadline, stopVars
  <2>2. atDeadline' # "unexplained"
    BY <2>1, DeadlineExplained
  <2>3. ~Quiet'
    BY <2>1 DEF Quiet, Lateness, Abandon, Interrupted
  <2> QED BY <2>1, <2>2, <2>3 DEF QuietInv, ResultKept
<1>7. CASE Flush \/ CloseStdout \/ CloseStderr
  <2>1. /\ UNCHANGED <<first, cancelled, dpc, results, complete, atDeadline>>
        /\ pc \in {"flush", "closeStdout", "closeStderr"} /\ pc' # "prepare"
    BY <1>7 DEF Flush, CloseStdout, CloseStderr, Goto, stopVars, elsewhere
  <2>2. ~Quiet'
    BY <2>1 DEF QuietInv, Quiet, Abandon, Interrupted
  <2> QED BY <2>1, <2>2 DEF QuietInv, ResultKept
<1>8. CASE Status \/ Assemble
  <2>1. /\ UNCHANGED <<first, cancelled, dpc, results, complete, atDeadline>>
        /\ pc \in {"status", "assemble"} /\ pc' \in {"assemble", "done", "failed"}
        /\ pc = "assemble" \/ readerOpen' = readerOpen
    BY <1>8 DEF Status, Assemble, stopVars
  <2>2. Quiet' => Quiet
    BY <2>1 DEF Quiet, Abandon, Interrupted
  <2>3. Quiet => \A s \in Streams : complete[s] = "complete" /\ dpc[s] = "exited"
    BY <2>1 DEF QuietInv, Undisturbed, OutputInv, DrainInv
  <2> QED BY <2>1, <2>2, <2>3 DEF QuietInv, ResultKept, Undisturbed
<1> QED BY <1>1, <1>2, <1>3, <1>4, <1>5, <1>6, <1>7, <1>8 DEF Main

LEMMA DrainQuietInv ==
    ASSUME TypeOK, QuietInv, NEW s \in Streams, Drain(s)
    PROVE  QuietInv'
<1>1. /\ UNCHANGED <<pc, first, cancelled, complete, atDeadline>> /\ Quiet' = Quiet
      /\ TypeDrain /\ dpc[s] # "none"
  BY DEF TypeOK, Drain, Read, ReadEnds, Collect, ForwardDone, ForwardFails, Finish,
         outsideDrains, mainVars, stopVars, receiptVars, Quiet, Abandon, Interrupted
<1>2. \A q \in Streams \ {s} : dpc'[q] = dpc[q] /\ readerOpen'[q] = readerOpen[q]
  BY <1>1 DEF TypeDrain, Drain, Read, ReadEnds, Collect, ForwardDone, ForwardFails, Finish
<1>3. CASE Finish(s)
  <2>1. /\ dpc'[s] = "exited" /\ dpc[s] \in {"eof", "error"}
        /\ results' = results \cup {[name |-> s, complete |-> dpc[s] = "eof"]}
    BY <1>1, <1>3 DEF Finish, TypeDrain
  <2> DEFINE result == [name |-> s, complete |-> dpc[s] = "eof"]
  <2>2. result \in results' /\ result.name = s /\ results \subseteq results'
    BY <2>1
  <2>3. (\A r \in results' : r \in results \/ r = result) /\ result.complete = (dpc[s] = "eof")
    BY <2>1
  <2> HIDE DEF result
  <2>4. ASSUME NEW q \in Streams PROVE ResultKept(q)'
    <3>1. CASE q = s
      BY <2>2, <3>1 DEF ResultKept
    <3>2. CASE q # s
      BY <1>1, <1>2, <2>2, <3>2 DEF QuietInv, ResultKept
    <3> QED BY <3>1, <3>2
  <2>5. ASSUME Quiet PROVE /\ \A q \in Streams : Undisturbed(q)'
                           /\ \A r \in results' : r.complete
    <3>1. Undisturbed(s) /\ dpc[s] = "eof" /\ complete[s] # "incomplete"
      BY <2>1, <2>5 DEF QuietInv, Undisturbed
    <3>2. Undisturbed(s)'
      BY <1>1, <2>1, <3>1 DEF Undisturbed
    <3>3. \A q \in Streams \ {s} : Undisturbed(q)'
      BY <1>1, <1>2, <2>5 DEF QuietInv, Undisturbed
    <3>4. \A r \in results' : r.complete
      BY <2>3, <2>5, <3>1 DEF QuietInv
    <3> QED BY <3>2, <3>3, <3>4
  <2> QED BY <1>1, <2>1, <2>4, <2>5 DEF QuietInv
<1>4. CASE ~Finish(s)
  <2>1. /\ readerOpen' = readerOpen /\ results' = results
        /\ dpc[s] \in {"read", "collect", "forward"}
        /\ dpc'[s] \in {"read", "collect", "forward", "eof", "error"}
        /\ dpc'[s] = "error" => ~readerOpen[s]
    BY <1>1, <1>4 DEF Drain, Read, ReadEnds, Collect, ForwardDone, ForwardFails, TypeDrain
  <2>2. \A q \in Streams : ResultKept(q)'
    BY <1>1, <1>2, <2>1 DEF QuietInv, ResultKept
  <2> QED BY <1>1, <1>2, <2>1, <2>2 DEF QuietInv, Undisturbed
<1> QED BY <1>3, <1>4

LEMMA NextQuietInv == TypeOK /\ OutputInv /\ QuietInv /\ [Next]_vars => QuietInv'
<1> SUFFICES ASSUME TypeOK, OutputInv, QuietInv, [Next]_vars PROVE QuietInv'
  OBVIOUS
<1>1. CASE Waiter \/ User \/ Process \/ Consumer \/ UNCHANGED vars
  <2>1. UNCHANGED <<mainVars, drainVars, receiptVars>>
    BY <1>1 DEF Waiter, WaitReturns, WaitFails, StoreReaped, Publish, User, Signal,
       CancelContext, Process, Exit, CloseStream, WriteByte, Consumer, Stall, Resume,
       Leave, vars, elsewhere
  <2> QED BY <2>1, StableQuietInv DEF mainVars, stopVars, drainVars, receiptVars,
             Abandon, Interrupted
<1> QED BY <1>1, MainQuietInv, DrainQuietInv DEF Next

-----------------------------------------------------------------------------
(***************************************************************************)
(* The theorems.  Inv is inductive; each property follows from it.         *)
(***************************************************************************)
Inv == TypeOK /\ SignalInv /\ OutputInv

LEMMA Invariance == Spec => []Inv
<1>1. Init => Inv
  BY InitTypeOK, InitSignalInv, InitOutputInv DEF Inv
<1>2. Inv /\ [Next]_vars => Inv'
  BY NextTypeOK, NextSignalInv, NextOutputInv DEF Inv
<1> QED BY <1>1, <1>2, PTL DEF Spec

(* waitForCommand never takes a signal delivered after the command was     *)
(* known to be reaped for an interruption: the receipt of a command that   *)
(* ended by itself shows its own exit code.                                *)
THEOREM LateSignalsIgnored == Spec => []LateSignalNeverInterrupts
<1>1. Inv => LateSignalNeverInterrupts
  BY DEF Inv, SignalInv, LateInv, LateSignalNeverInterrupts
<1> QED BY <1>1, Invariance, PTL

(* Once the command is reaped waitForCommand signals or kills its process  *)
(* group at most once more, on an event it took before.                    *)
THEOREM LateActsBounded == Spec => []OnlyDecidedLateActs
<1>1. Inv => OnlyDecidedLateActs
  BY DEF Inv, SignalInv, ActInv, OnlyDecidedLateActs
<1> QED BY <1>1, Invariance, PTL

(* Two signals delivered to runprint make waitForCommand kill the process  *)
(* group, whatever else happens in between: the channel loses neither.     *)
THEOREM TwoSignalsForce == Spec => []SecondSignalForces
<1>1. Inv => SecondSignalForces
  <2> SUFFICES ASSUME Inv, pc = "select", interrupts = <<>>, asked >= 2 PROVE forced
    BY DEF SecondSignalForces
  <2>1. Used <= 1 /\ Used \in Nat /\ Len(interrupts) = 0 /\ asked \in Nat
    BY SignalAssumption DEF Inv, TypeOK, TypeUser, Used, Holding
  <2> QED BY <2>1 DEF Inv, SignalInv, CountInv
<1> QED BY <1>1, Invariance, PTL

(* An interrupted or cancelled command always has the grace timer running  *)
(* or its group killed when waitForCommand waits.                          *)
THEOREM StopIsBounded == Spec => []BoundedStop
<1>1. Inv => BoundedStop
  BY DEF Inv, SignalInv, StopInv, BoundedStop
<1> QED BY <1>1, Invariance, PTL

(* A receipt that calls a stream complete counts every byte the command    *)
(* and its descendants wrote to it, and none can follow.                   *)
THEOREM CompleteCapture == Spec => []CompleteMeansAll
<1>1. Inv => CompleteMeansAll
  BY DEF Inv, OutputInv, DrainInv, ReceiptInv, Settled, Sealed, CompleteMeansAll
<1> QED BY <1>1, Invariance, PTL

(* A run nobody interrupted makes its receipt after both drain goroutines  *)
(* are over.                                                               *)
THEOREM NormalRunsWait == Spec => []NormalRunWaitsForDrains
<1>1. Inv => NormalRunWaitsForDrains
  BY DEF Inv, OutputInv, ReceiptInv, Resolved, NormalRunWaitsForDrains
<1> QED BY <1>1, Invariance, PTL

(* A stream without a passthrough warning was forwarded as far as the      *)
(* receipt counts it, even when its drain goroutine was abandoned.         *)
THEOREM SilenceIsHonest == Spec => []SilenceMeansForwarded
<1>1. Inv => SilenceMeansForwarded
  <2> SUFFICES ASSUME Inv, pc = "done", NEW s \in Passthrough, ~warned[s]
               PROVE  forwarded[s] = received[s]
    BY DEF SilenceMeansForwarded
  <2>1. s \in Streams /\ ~failed[s] /\ Resolved(s) /\ Settled(s)
    BY StreamAssumption DEF Inv, OutputInv, ReceiptInv, Settled
  <2>2. dpc[s] = "exited" /\ received[s] = collected[s]
    BY <2>1 DEF Inv, OutputInv, ReceiptInv, Resolved
  <2>3. forwarded[s] \in Nat
    BY <2>1 DEF Inv, TypeOK, TypeDrain
  <2> QED BY <2>1, <2>2, <2>3 DEF Inv, OutputInv, DrainInv
<1> QED BY <1>1, Invariance, PTL

(* No step after run loaded the passthrough status changes it, those of    *)
(* abandoned drain goroutines included.                                    *)
THEOREM WarningsAreFinal == Spec => WarningIsFinal
<1>1. Inv /\ Inv' /\ [Next]_vars => [(pc \in {"assemble", "done"}) => (failed' = failed)]_vars
  <2> SUFFICES ASSUME Inv, Inv', Next, pc \in {"assemble", "done"}
               PROVE  failed' = failed
    BY DEF vars, elsewhere, drainVars
  <2>1. ASSUME NEW s \in Streams, ForwardFails(s) PROVE failed' = failed
    <3>1. Resolved(s) /\ dpc[s] = "forward" /\ s \in Passthrough
      BY <2>1 DEF Inv, OutputInv, ReceiptInv, DrainInv, ForwardFails
    <3>2. failed[s] /\ failed' = [failed EXCEPT ![s] = TRUE]
      BY <2>1, <3>1 DEF Resolved, ForwardFails
    <3> QED BY <3>2 DEF Inv, TypeOK, TypeDrain
  <2>2. ASSUME NEW s \in Streams, Drain(s) PROVE failed' = failed
    BY <2>1, <2>2 DEF Drain, Read, ReadEnds, Collect, ForwardDone, Finish
  <2>3. CASE Main
    BY <2>3 DEF Main, PrepareFails, Start, Loop, TakeResult, SelectSignal,
       SelectDeadline, SelectCancel, Check, Recheck, ForwardFirst, SecondSignal,
       GraceExpired, Cancel, ReceiveDrain, DrainsDone, DrainDeadline, Flush,
       CloseStdout, CloseStderr, Status, Assemble, Goto
  <2>4. CASE Waiter \/ Process \/ User \/ Consumer
    BY <2>4 DEF Waiter, WaitReturns, WaitFails, StoreReaped, Publish, Process,
       Exit, CloseStream, WriteByte, User, Signal, CancelContext, Consumer,
       Stall, Resume, Leave, drainVars
  <2> QED BY <2>2, <2>3, <2>4 DEF Next
<1> QED BY <1>1, Invariance, PTL DEF Spec, WarningIsFinal

(* A run that nobody interrupted or cancelled is recorded completely, with *)
(* the command's own exit code, unless its deadline found a drain          *)
(* goroutine at work or waiting for a process or a live reader.            *)
THEOREM UndisturbedRunsComplete == Spec => []UndisturbedRunIsComplete
<1>1. Init => OutcomeInv /\ QuietInv
  BY InitQuietInv DEF Init, OutcomeInv, AfterWait
<1>2. Inv /\ OutcomeInv /\ QuietInv /\ [Next]_vars => (OutcomeInv /\ QuietInv)'
  BY NextOutcomeInv, NextQuietInv DEF Inv
<1>3. OutcomeInv /\ QuietInv => UndisturbedRunIsComplete
  BY DEF OutcomeInv, QuietInv, Quiet, Undisturbed, Abandon, UndisturbedRunIsComplete
<1> QED BY <1>1, <1>2, <1>3, Invariance, PTL DEF Spec

-----------------------------------------------------------------------------
(***************************************************************************)
(* RecordRun.                                                              *)
(***************************************************************************)
(* Every step of the process is one of its capture or none.                *)
LEMMA StepsOfCapture == [RunNext]_runVars => [Next]_vars
<1> SUFFICES ASSUME [RunNext]_runVars PROVE [Next]_vars
  OBVIOUS
<1>1. CASE Own
  BY <1>1 DEF Own, Parse, CaptureReturns, WriteRecord, Summary, ErrorMessage
<1>2. CASE RunCapture
  BY <1>2 DEF RunCapture, Next
<1>3. CASE Goroutine(Waiter) \/ \E s \in Streams : Goroutine(Drain(s))
  BY <1>3 DEF Goroutine, Next
<1>4. CASE UserSignal \/ World
  BY <1>4 DEF UserSignal, World, Next
<1>5. CASE \E sig \in Signals : SignalKills(sig)
  BY <1>5 DEF SignalKills
<1>6. CASE UNCHANGED runVars
  BY <1>6 DEF runVars
<1> QED BY <1>1, <1>2, <1>3, <1>4, <1>5, <1>6 DEF RunNext

(* runprint record runs one capture as Capture specifies it, so that every *)
(* theorem about a capture is one about record mode.                       *)
THEOREM RunImplementsCapture == RunSpec => Spec
<1>1. RunInit => Init
  BY DEF RunInit
<1> QED BY <1>1, StepsOfCapture, PTL DEF RunSpec, Spec

-----------------------------------------------------------------------------
(* Where recordCommand is tells what is at the path.                       *)
StatusInv ==
    /\ step \in {"parse", "capture", "write", "error", "summary", "exited"}
    /\ step \in {"parse", "capture", "write", "error"} => path = Before
    /\ step = "error" => exit \in OwnCodes
    /\ step \in {"write", "summary"} => pc = "done"
    /\ step = "summary" => path = Self
    /\ StatusMatchesRecord

(* Once the capture has returned its main goroutine does nothing more.     *)
LEMMA CaptureIsOver ==
    ASSUME [RunNext]_runVars, step # "capture"
    PROVE  pc' = pc
<1>1. CASE Own
  BY <1>1 DEF Own, Parse, CaptureReturns, WriteRecord, Summary, ErrorMessage, vars, mainVars
<1>2. CASE Goroutine(Waiter) \/ \E s \in Streams : Goroutine(Drain(s))
  BY <1>2 DEF Goroutine, Waiter, WaitReturns, WaitFails, StoreReaped, Publish, Drain,
     Read, ReadEnds, Collect, ForwardDone, ForwardFails, Finish, outsideDrains, mainVars
<1>3. CASE World
  BY <1>3 DEF World, Process, Exit, CloseStream, WriteByte, Consumer, Stall, Resume,
     Leave, mainVars
<1>4. CASE \E sig \in Signals : SignalKills(sig)
  BY <1>4 DEF SignalKills, vars, mainVars
<1>5. CASE UNCHANGED runVars
  BY <1>5 DEF runVars, vars, mainVars
<1> QED BY <1>1, <1>2, <1>3, <1>4, <1>5 DEF RunNext, RunCapture, UserSignal

LEMMA NextStatusInv ==
    OutcomeInv /\ OutcomeInv' /\ StatusInv /\ [RunNext]_runVars => StatusInv'
<1> SUFFICES ASSUME OutcomeInv, OutcomeInv', StatusInv, [RunNext]_runVars PROVE StatusInv'
  OBVIOUS
<1> USE DEF StatusInv, StatusMatchesRecord, Self, Before
<1>1. CASE Own
  <2> USE DEF Moves, OwnCodes, UsageCode, ErrorCode, StartCodes, BrokenPipeCode
  <2>1. CASE Parse
    BY <2>1 DEF Parse
  <2>2. CASE CaptureReturns
    BY <2>2 DEF CaptureReturns, vars, mainVars
  <2>3. CASE WriteRecord
    BY <2>3 DEF WriteRecord, File!Publish, File!GiveUp, vars, mainVars
  <2>4. CASE Summary
    BY <2>4 DEF Summary, OutcomeInv, Outcome, Interrupted, vars, mainVars, stopVars,
       elsewhere, waitVars
  <2>5. CASE ErrorMessage
    BY <2>5 DEF ErrorMessage
  <2> HIDE DEF StatusInv
  <2> QED BY <1>1, <2>1, <2>2, <2>3, <2>4, <2>5 DEF Own
<1>2. CASE \E sig \in Signals : SignalKills(sig)
  BY <1>2 DEF SignalKills, Moves, OwnCodes
<1>3. ASSUME UNCHANGED ownVars, step = "exited" => UNCHANGED <<pc, first, exitCode>>
      PROVE  StatusInv'
  <2>1. step # "capture" => pc' = pc
    BY CaptureIsOver
  <2> QED BY <1>3, <2>1 DEF ownVars, Outcome, Interrupted
<1>4. CASE RunCapture \/ UserSignal \/ World \/ Goroutine(Waiter)
           \/ \E s \in Streams : Goroutine(Drain(s))
  BY <1>3, <1>4 DEF RunCapture, UserSignal, World, Goroutine
<1>5. CASE UNCHANGED runVars
  BY <1>3, <1>5 DEF runVars, vars, mainVars, stopVars, elsewhere, waitVars
<1> HIDE DEF StatusInv
<1> QED BY <1>1, <1>2, <1>4, <1>5 DEF RunNext

(* runprint record exits with the status its record gives the command      *)
(* exactly when that record is at the path, however the command ended, a   *)
(* write failed or a reader left (recordCommand, run).                     *)
THEOREM StatusAndRecordAgree == RunSpec => []StatusMatchesRecord
<1>1. RunInit => OutcomeInv /\ StatusInv
  BY DEF RunInit, Init, File!Init, OutcomeInv, AfterWait, StatusInv, StatusMatchesRecord
<1>2. OutcomeInv /\ StatusInv /\ [RunNext]_runVars => (OutcomeInv /\ StatusInv)'
  BY StepsOfCapture, NextOutcomeInv, NextStatusInv
<1>3. StatusInv => StatusMatchesRecord
  BY DEF StatusInv
<1> QED BY <1>1, <1>2, <1>3, PTL DEF RunSpec
=============================================================================
