# Runprint in TLA+

Runprint runs a command, keeps a bounded and exact account of what it wrote,
and leaves a JSON record of the run. These modules state what its concurrent
and stateful parts promise, check it with TLC on small instances and prove most
of it with TLAPS for every value of the constants. Paths below are relative to
the repository (`src/` in `PROJECT.json`).

## 1. Inventory

| Component | Code | State | Operations | Modelled in |
|---|---|---|---|---|
| capture run control | `internal/capture/capture.go`, `process_unix.go` | main goroutine's place, first signal, grace timer, `reaped` flag, two channels, pipes, passthrough status | `run`, `waitForCommand`, `waitForDrains`, `drainPipe`, `captureSink.Write`, `forwardSignal`, `forceKill` | `Capture` |
| stream collector | `collector.go` | received, full / head / ring | `Write`, `snapshot`, `byteRing` | `Collector`, `StreamSnapshot` |
| UTF-8 boundary trimming | `collector.go` | none | `incompleteUTF8Suffix`, `splitUTF8Prefix` | `Utf8Boundary`, `StreamSnapshot` |
| `runprint record` | `cmd/runprint/main.go` | the signal registration, the record path, the exit status | `recordCommand`, `run` | `RecordRun` |
| record file store | `internal/record/record.go`, `cmd/runprint/main.go` | the path, its directory, temporary files | preflight, directory preparation, `WriteFileWithContentID`, `ReadFileWithContentID` | `RecordStore`, `RecordRegister` |
| record schema, stream encoding | `record.go`, `stream.go` | the receipt in memory, the file's JSON | `Validate`, `NewStream`, encoding, `decodeV2`, `decodeLegacy` | `RecordStream`, `ReceiptRecord` |
| strict JSON, content id | `strictjson.go`, `identity.go` | none | `validateStrictJSON`, `rejectUnpairedSurrogates`, `contentID` | duplicate keys and UTF-8 in `ReceiptRecord`, surrogates in `StrictScan` |
| command line | `main.go`, `sigpipe_*.go` | none | `record`, `check`, `show`, `version` | `CommandLine`; what they do in `RecordRun`, `RecordStore`, `Report` |
| report | `internal/report/report.go` | none | terminal and Markdown rendering | `Report`, `Reading` |
| release packager | `scripts/release/main.go` | output directory with `.staging` | prepare, build, archive, verify, checksum, compare | `ReleasePackage` |
| release workflow | `.github/workflows/release.yml` | the job's step, its traps, the release page | gate, two builds, draft, upload, verify, publish, cleanup | `Release`, `AtomicRelease` |
| git context, portable directory | `capture.go` 529-573 | none | three git calls, path abbreviation | no |
| other platforms | `process_windows.go`, `process_other.go` | - | signal and kill the child alone | no |

**How they interact.** `recordCommand` makes a signal channel of two slots and
calls `capture.RunWithOutputAndPreflight`, whose hook probes the record's
destination. `run` starts the command in a process group of its own and three
goroutines: one that waits for the command (it sets `reaped`, then sends on a
channel), and one per stream that copies the pipe into a `captureSink`, which
feeds the collector first and the live reader second. The main goroutine reacts
to signals, the grace timer and the context, then waits for the two drain
results or a deadline, loads the passthrough status and takes the collectors'
snapshots (under their mutex). The record is written through a temporary file
and a rename; then warnings and a summary go to stderr, and the exit status is
the record's. `check` and `show` are other processes that read the same path.
What reports and readers see was written by anybody. The release workflow runs
the packager twice in different surroundings, compares the two manifests, and
publishes through a draft on a hosting service that answers late, wrongly or
not at all.

**What is hard here.** Goroutines, processes, signals and timers in any order; a
drain goroutine that nobody can cancel and that outlives the receipt; a drain
result that is sent but not yet received when the deadline fires; a second
signal while the first is being handled; a ring buffer with wrap-around and a
change of representation in the middle of a write; runes cut on either side of
the omitted region; concurrent replacement of one file by several runs, any of
which can be killed between two system calls; a record that fails a check only after
its command ran; a reader that understands something the file does not say, or takes a captured
text for runprint's own; a release of which a part is missing. `PROJECT.json`
lists these hazards at their lines with the properties that cover them, and says why where
none does.

**What makes each component correct.** The collector: a snapshot depends only on
the bytes received, never on how writes cut them. The trimming: whole runes and
only they leave the retained parts. Run control: the exit code and interruption
in the receipt are the command's, an interrupted run is always bounded, and
receipt and warning never claim more than was captured and forwarded. The
store: a register replaced in one step or not at all. The schema: what the
recorder makes is accepted, whatever the command did, and what a reader accepts
has one meaning.
Record mode: exit status and record agree, and a run ends. The report: every
line is known to be runprint's or the text's. The release: public as a whole
or not at all.

## 2. Modules

`Collector` - the two representations of `streamCollector` and the ring with
its two copies. `Write` never looks at a byte's value, so a byte is its
position in the stream: a snapshot is right when it lists the right positions.
`Write` is one action with the code's three branches. `Snapshot(trim, skip)`
takes the number of trimmed bytes as arguments; `Trims` and `Skips` bound them.

`Utf8Boundary` - the pure functions that do look at values, next to a reference
that decodes a whole stream from its first byte.

`StreamSnapshot` - the collector fed with real bytes (`content`; any bytes in
small writes up to `MaxVaried`, after that one byte repeated), trimmed by
the functions of `Utf8Boundary`, and read by the byte accounting of
`Stream.Validate`. It shows that the arguments over which `SnapshotExact`
quantifies are the ones that occur.

`Capture` - one run. `pc` is the place of the main goroutine; the four tests of
`waitForCommand` (`reaped` at the top of the loop, the select, `reaped` again,
the select with a default) are separate steps because the waiter moves between
them. `waiter` has one value on each side of `reaped.Store` and of the send.
`dpc[s]` is the place of a drain goroutine, including the moment between the
collector's and the live reader's share of a chunk. `holders[s]` are the
processes with the write end of a pipe; `results` is the buffered channel. Data
are counts: `wrote`, `collected`, `forwarded`. `deadline` says that the grace
timer is armed. Processes of the command exist from the start, may leave the
process group (`Escaped`), close their streams, write, and exit at any time.
`first`, `caught` carry a history flag `late` (delivered after `reaped` was
set); `takenLate` and `lateActs` are history variables too, and so is
`atDeadline`: when the drain deadline fired, was a drain goroutine still at work
(`"busy"`), did all of them wait for a process or a live reader (`"blocked"`),
or for nothing outside runprint (`"unexplained"`). Two properties promise
something only when 500 ms were enough, and this says when they were.

`RecordRun` - `Capture` inside one process of `runprint record`: options, the
capture, `prepareRecordDirectory` and the write of the record (one step of
`RecordRegister`, which the store implements), the summary or the error
message, the exit status. Messages go to the stderr whose live reader is
`consumer["stderr"]` and wait while it is stalled; a broken stderr kills only a
process that does not catch SIGPIPE; a signal kills only outside of
`signal.Notify`. When the process has exited its goroutines are gone.

`RecordStore` - `preflightRecordDestination`, `prepareRecordDirectory`,
`WriteFileWithContentID` and `ReadFileWithContentID` at the grain of their
system calls, for any number of writers and readers of one path. A file is the
number of its parts written; the last part is the final newline, without which
a record still decodes but has another content id. Every `os.Remove` can fail:
`ProbeFails` is the error path of the preflight, whose deferred second attempt
is `RemoveProbeAgain`, and `Cleanup` is the deferred call of
`WriteFileWithContentID`, whose error nobody looks at; `stuck` remembers the
writers whose last attempt failed. `Crash` ends a writer without its deferred
calls; `Meddle` is another program.

`RecordRegister` - what the store promises, an atomic register, which
`RecordStore` implements (`ImplementsRegister`): `current` is what the path
names, a reader's value is decided when it opens the file.

`RecordStream` - a stream as the record stores it. A text is its bytes; a
Base64 string is the bytes it decodes to and how it spells them, because the
reader accepts one spelling only. `ToValidUTF8` and `JSONText` are the two
different ways in which the code's libraries replace invalid bytes.

`ReceiptRecord` - the life of one record: `Prepare` (the metadata check before
`cmd.Start`), `Finish` (exit code, interruption and streams from any snapshots
that collectors return), `WriteFile` (validate, encode, decode again), edits by
other programs, and `Decode`, which every property applies to whatever the file
holds. A JSON object is the sequence of its members, so that duplicate keys,
keys in other letter case, nulls, missing and unknown members can occur, and
fields are looked up as `encoding/json` does: last member wins, null undoes, a
second object is merged into the first. Files of schema v1 are initial states.
`EncodedBytes` is the length of the document that `WriteFile` compares with
`MaxRecordBytes`: the outputs with their JSON escapes and Base64, the command as
the check before the start measured it, and the five bytes (a line break and
four spaces) that indentation adds to each argument. An optional string that is
empty is accepted and read as none (`WithoutEmpty`), as in the code.

`StrictScan` - `rejectUnpairedSurrogates` over bytes, with its index arithmetic.

`CommandLine` - the three argument parsers, each a loop of one step over the
arguments: `at` is what the loop expects next.

`Report` - both renderings, from a record to the runes written. Texts are
sequences of runes; a phrase of runprint's own is one symbol, which a captured
text may contain too, because anybody can write the same words. `JSONRune` and
`IsPrint` are the libraries' behaviour on the runes that matter.

`Reading` - one text, in any field of a record, one JSON string or one command
line is written piece by piece; the properties take the rendered report apart
as a terminal or a Markdown reader would (lines, prefix, fences), the string as
`encoding/json` would, and the arguments by where options end.

`ReleasePackage` - `packageRelease`. An archive stands for the binary in it, a
manifest for the archives it has the checksums of. `BuildBinary` may produce
something else than the pinned toolchain should, `WriteArchive` may leave
something torn; `VerifyArchive` compares what it reads with what was built.

`Release` - the job around two packagers, the page, reruns and the owner.
`Trapped` are the steps under the traps. A call that fails may have been
carried out. `mine`, `unseen`, `excused` and `agreed` are history.

`AtomicRelease` - what the release page promises: nothing, then once and for
all a whole set that two builds agreed on. `Release` implements it.

`Utf8BoundaryProofs`, `StreamSnapshotProofs`, `CaptureProofs`, `RecordStoreProofs`,
`ReceiptRecordProofs`, `ReadingProofs`, `MarkdownProofs`, `ReleaseProofs` -
theorems and proofs (those about `Collector` are in `StreamSnapshotProofs`, those
about `RecordRun` in `CaptureProofs`, the one about the Markdown page in
`MarkdownProofs`). `Utf8BoundaryProofs` holds what the others need of the
reference decoder, of `FlattenSeq` and of induction over numbers, and no theorem
of a specification. `MC*` - constants for TLC. Operators whose comment begins
"As ... below" are variants of the operator that follows, with the mistake they
name; `PROJECT.json` lists under "mutants" which property rejects each of them.

## 3. Runs

| Run | What it asks | Bounds and why they are enough |
|---|---|---|
| `stream_snapshot` | exact head, tail, omitted count and context for every chunking; whole runes on both sides, accepted counts | head, tail and context 3 bytes, a ring of 6 slots; every stream of up to 7 bytes over leads of 2, 3 and 4 bytes, continuation bytes on both sides of the second-byte limits, and a letter, in writes of one or two: each rune length meets both cuts at each alignment; from there writes of up to 8, longer than the ring and than the budget, up to 36 bytes, so every start position wraps several times |
| `capture` | what is recorded and who is killed; honesty of receipt and warning; a quiet run is complete | one capture; stderr with a live reader, stdout silent, one descendant in the group, cancellation on. `QuietOrOneInterrupt` bounds each history to one of two kinds: three signals (so that one is dropped by the full channel) and a cancellation, with no output and a reader that reads; or one signal, two bytes of output (so that chunks of one and two occur) and a reader that stalls, resumes and leaves. The properties about signals do not read the output; those about output hold for any signals, and for descendants that left the group, by their proofs |
| `record_run` | exit status and record agree; an interrupted run is saved; a run ends after its command | a whole `record` run, as the second kind of `capture` with one byte, one descendant that left the group, and a live reader that stalls and resumes but does not leave (that case of `StatusMatchesRecord` is covered by its proof), a write of the record that may fail, under fairness |
| `record_store` | atomic replacement, whole reads, no litter but what could not be removed, private directory, refinement | two writers and one reader, three parts, one intervention of another program; every system call can fail, every removal too |
| `record_format` | receipts are written, whatever the output, unless the arguments are too many, and read back; accepted records are exact and mean what they say | two snapshots per stream, one of them cut, with bytes that need Base64 and without; two exit codes, one equal to an interruption's; all four signals; a command of one argument and one of ten, sizes in units of 64 KiB (a record of 128, a command of 32, a stream of 4, so `Room` is 22 and ten arguments lie beyond it); every metadata check failing or not; one edit, which may change any value to each of a few others, remove, repeat, add or respell a member at either level, or replace the three members of a chunk together, so that a chunk can be changed consistently. Fields are validated independently otherwise, so a second edit adds combinations of what one edit reaches |
| `release` | refinement of the atomic release, no draft left, nothing found is touched, recovery ends public | two targets, so that sets can be incomplete; two binaries, so that builds can disagree; four faults over all jobs, enough for a torn asset, a failed view, a failed delete and a cancellation in one history |
| `reading` | forged lines and fences, surrogates, options | texts of up to four runes out of line feed, carriage return, U+2028, backtick, space, slash, the omission marker and a home prefix: four backticks exceed the shortest fence; strings of up to five pieces out of escapes, halves of escapes, quotes and backslashes; up to four arguments out of twelve |
| `slow_reader`, `record_exit`, `head_trim`, `record_fields`, `record_size` | five statements of the documents that the code does not keep | see "Findings" |

Every run has `CHECK_DEADLOCK FALSE`: a run of runprint ends, and the bounded
streams, texts, counters and numbers of faults stop the others. A job that has
succeeded may be run again, so `release` itself goes on.

**Fairness.** `RunLiveSpec` of `RecordRun`: weak fairness of the main goroutine,
of the waiter and of each drain goroutine (the Go scheduler runs what can run,
and an armed timer fires), and of the exit of a process that was sent SIGKILL
(the kernel owes that). Strong fairness of runprint's own steps around the
capture: a message to stderr is enabled whenever its reader reads, and goes out
if that happens again and again. Nothing is assumed of the command, its
descendants, the user, or a live reader, which may stay stalled for ever.
`LiveSpec` of `Release`: a job that can go on does and the workflow is started
again (weak); the owner deletes a draft that no job works on, again and again if
need be (strong: drafts come and go with jobs). That is the recovery ADR 0007
describes, and the number of faults is finite. Without a fault nothing fails, so
fairness of the job does not hide an error path.

**Cancellation.** `recordCommand` passes `context.Background()`, so that liveness
is stated without it. For callers that cancel, `BoundedStop` (in
`capture`, and proved) says what the handler does.

## 4. Findings

* `slow_reader`: ADR 0006 says that ordinary, non-interrupted pipelines keep
  backpressure and that live output is not silently dropped because a consumer
  is slow. `waitForDrains` closes an unresolved reader at its deadline whether
  or not the run was interrupted; bytes left in the pipe are then neither
  captured nor forwarded. The record says `capture_complete: false`, but no
  warning is printed.
* `record_exit`: ADR 0006 says that after an interruption the process exits
  immediately after saving the record. `recordCommand` then writes warnings and
  a summary to stderr: if its reader is the stalled one, that write blocks; the
  signals are still caught and nobody reads their channel, so only SIGKILL ends
  runprint. The record is complete by then (`InterruptedRunIsSaved`).
* `head_trim`: ADR 0002 says that boundary bytes move into the omitted region
  only when a split rune can be proven and that standalone invalid bytes are
  retained. `incompleteUTF8Suffix` sees only the head: a lead byte at its end is
  moved although the byte that follows it in the stream does not continue it.
  The counts stay exact.
* `record_fields`: `docs/record-format-v2.md` says that a reader rejects
  duplicate keys and unknown v2 fields. The duplicate scan compares keys as they
  are spelled, but `encoding/json`, also with `DisallowUnknownFields`, matches
  field names in any letter case: `"exit_code": 7, "Exit_Code": 0` is accepted
  and read as 0, where a case-sensitive tool reads 7.
* `record_size`: ADR 0005 names the ceiling of 8 MiB and that of 2 MiB for the
  command, and says that capture checks these constraints before starting the
  child, so that nothing is executed without a writable artifact. What is
  checked before is the command in compact JSON; the document is indented, which
  adds five bytes per argument, and its size is checked after the command has
  run. Two streams kept in full can take 6 * 262,144 + 349,528 bytes each
  (control characters and a byte that is not UTF-8), 3.8 MB together; with
  about 568,000 empty arguments, 1.7 MB of compact JSON, the record is longer
  than 8 MiB and is refused. So many arguments need a raised stack limit on
  Linux. `OnlyLongCommandsAreLost` is what does hold: with the longest
  names of directory, branch and commit any command of up to about 253,000
  arguments is recorded, with short names one of up to about 489,000.

Seen while modelling, and contradicted by no document: `gh release view` failing
for any reason is taken for "no release", which is why
`FoundReleaseIsLeftAlone` has an exception; a failing `git status` is recorded as
a clean tree (`gitContext` drops its error); `check -` reads a file named `-` and
`show -` refuses it, and `check -- -x` refuses what `show -- -x` shows; a
visible `\x1b` in a report may also be those four characters.

## 5. Proofs

All from the assumptions on constants stated in the modules, which TLC evaluates
on every run.

*Collector.* The inductive invariant `IInv` says which positions each
representation holds; for the ring it is `RingHolds(buf, start, length, m)`:
slots `start ..` hold the oldest positions and slots below `start` the newest,
and `start` is 0 until the ring is full. `SnapshotExact` alone is not
inductive because it does not say where in the ring a position lies. Lemmas
follow the code: `CopyAtReads` for the two copies, `FillHolds` and
`OverwriteHolds` for the two halves of `byteRing.write`, `RingBytesFollows` for
reading it out. `TypeCorrect`, `SnapshotCorrect` and `ContextCorrect` hold for
any limits and streams.

*Induction.* The library's induction theorems take an operator as a parameter
and cannot be cited. Where a definition is a recursive function over positions,
the set `G` of the numbers for which a claim holds is inductive, and
`Induction` (that such a set contains every number) is proved from
`WFMin` and `NatLessThanWellFounded`, which take sets. `UnitsExist` and
`PartsExist` show in the same way that the two recursive functions exist at
all, so that their equations may be used.

*Utf8Boundary.* A reference decoder divides a stream, from its first byte, into
units: valid runes and single bytes. The proof is that the unit of a byte depends
on nothing before the unit (`UnitsDivide`, `LeadsStartUnits`, `UnitsSpan`: in a
valid rune only the first byte can begin one), hence a rune that covers a
boundary is found from at most three bytes on each side (`CutByRune`,
`RuneAtCut`). `SuffixFindsCut` and `PrefixExact` are what the two trimming
functions of the code make of that; `ValidStretch` that a stretch of a
valid text between two boundaries that cut nothing is valid.

*StreamSnapshot.* `SnapshotsValidate`: the trimming of real bytes stays within
`Trims` and `Skips`, so by the collector's theorem the counts of every real
snapshot add up, for every limits, alphabet and stream. The bounds come from
the functions' own guards (`LastPositions`, the width table), and the
collector's invariant carries over because a step of `StreamNext` is a step of
`Collector!Next`. `NoRuneIsCut` (no valid rune is split by either cut: all
of its bytes there are moved, and from the tail no other byte is) and
`ValidTextStaysValid` follow from the lemmas above, applied to the head's end
and, through the context kept before the tail, to the tail's beginning.

*Capture.* `Inv` is `TypeOK /\ SignalInv /\ OutputInv`. `SignalInv` has four
parts: a late signal is never the caught or first one that is acted on
(`LateInv`: `LateSignalNeverInterrupts` needs that a signal still in hand at
`act` was delivered before `reaped`, because `Check` ran after the receive);
`ActInv` bounds actions after the flag by where the main goroutine stands;
`StopInv` says that an interrupted run is timed or forced; `CountInv` counts
signals in the channel, in hand and acted upon against those delivered.
`OutputInv` relates, per stream, the drain goroutine's place to its counters
(`DrainInv`), the results channel and `complete` to the goroutines that sent
them (`ResultInv`), and the receipt to the counters at the moment it was made
(`ReceiptInv`); its difficult part is that an abandoned goroutine moves on
after the receipt, so `Sealed`, `Resolved` and `Settled` say which of its later
steps can still change what was reported. `UndisturbedRunsComplete` needs a
third invariant, `QuietInv`: the result of a drain goroutine that has exited is
in the channel or has been received (`ResultKept`), and as long as nothing
makes `waitForDrains` give up, no reader has been closed under a goroutine and no
result says "incomplete". With it `DeadlineExplained` shows that the deadline
never fires while everything outside runprint is done: a goroutine that is idle
has an empty pipe with a writer, and a live reader that reads, so a
process of the command still holds that pipe. The theorems hold for any processes,
signals, streams and bounds.

*RecordStore.* The invariant ties each writer's `pc` to its file's length, its
name and its preflight probe, and readers' offsets to the file they opened.
`LeavesNoLitter` needs that a writer past its preflight has no probe and that
one whose record has its name has no temporary file; a file of a writer that
failed is there only if its last removal failed (`stuck`).
`StoreImplementsRegister` maps each action to a step or a stutter of
`RecordRegister`.

*RecordRun.* `RunImplementsCapture`: every step of `RunNext` is a step or a
stutter of `Capture`, so that each theorem above holds inside a whole run of
record mode. `StatusAndRecordAgree` adds two invariants: `OutcomeInv` (of
`CaptureProofs`), that the receipt's outcome was final when it was made (the
command was reaped, and nobody writes `first` or `exitCode` after
`waitForCommand`), and `StatusInv`, what the path names at each step of
`recordCommand`. It covers the broken stderr as well, which no run has.

*ReceiptRecord.* The inductive invariant `RecordInv` says that a file is a
sequence of typed members, whatever edits put into it, and that the receipt in
memory is good (`GoodRecord`: typed and accepted by `Validate`) from `Finish`
on. The four theorems are then about any such file, by three arguments.
*Writing:* `NewStream` of any snapshot whose counts agree is accepted, because
what it stores as text is valid UTF-8 after `ToValidUTF8` and JSON changes
nothing in it, and what that would change goes to Base64; and its size is
bounded: a byte that is kept costs at most six as text, also where U+FFFD takes
the place of an invalid one, and Base64 is as long as the bytes it stands for
demand, so a stream costs at most `WorstStream`, the command at most what was
checked, and `Room` is left for the layout of the arguments
(`CommandThatRanIsRecorded`: a command that ran fails for its record's content
only if its arguments need more than `Room`). *Round trip:* the members are encoded in order, each
once, and a look-up finds them again, so `Decode(Encode(r)) = r` for every good
record (`RoundTrip`, `WrittenRecordReadsBack`). *Reading:* an object that passes the strict
scan and is spelled as the schema spells it has each field once (`FileIsUnique`), so last-member-wins and
merging cannot hide anything, and `validateChunk` leaves one representation of given
bytes (`AcceptedStreamsAreCanonical`); `SaysWhatItMeans` concludes that encoding what was read
gives the file's own content, but for empty optional strings, which are read as
none (`AcceptedFilesSayWhatTheyMean`). Assumed of the
constants: `null` and a value of a wrong type are none of the values
(`NoValueAssumption`); the counts of a snapshot agree, which is `SnapshotsValidate`
and `SnapshotCorrect`, and no command writes more than 2^53 bytes (`SnapshotsAssumption`, of which
the retained bytes are a part: the collectors keep 64 KiB and 192 KiB,
together `MaxCapturedBytes`); edits put
numbers where numbers are and bytes where texts are, any others being `Wrong`
(`EditsAssumption`); sizes are natural numbers, and a command that is accepted is
no longer than `MaxCommandJSONBytes` (`SizesAssumption`, the check of
`Validate`). `MaxEdits` is any number.

*Reading.* What has been written is arguments, pieces and runes (`Written`, which
is inductive); the theorems are about any such sequence.
`ScanRefusesUnpaired`: `ScanAccepts` and `CodeUnits` are two functions of the
position in the text that go on by different widths, the scan over both halves
of a pair at once. `Matches` (from a position on, the scan accepts exactly if no
code unit is unpaired) is proved from the end backwards; `LowUnit` (a low
surrogate was written as an escape, never as a byte) is why looking for the next
escape, as the code does, is looking for the next code unit.
`RawStandsAnywhere`: two states of `parseShowOptions` are `Alike` if they are
equal or both refused; exchanging `--raw` with its neighbour makes them so
(`RawCommutes`), and the rest of the arguments keeps them so.
`CommandsAreVerbatim`: `ReadsOptions` says what the parser has read of the
arguments before the options end in terms of `IsValue`, which looks
at the arguments alone, and `ReadsCommand` what it has read behind them.
`TerminalLinesStayOurs`: a report is a concatenation of outputs that end a line
(`WholeLines`), and what a reader finds in a concatenation of those is the
concatenation of what he finds in each (`LinesJoin`). Each piece shows one line
of runprint's own, known by its phrase, and no other (`OwnLine`, `OwnLines`),
since an escaped value holds no break (`EscapesAre`); a stream's text shows
nothing but lines of others, and those are its own lines (`TextLines`).
`MarkdownBlocksStayOurs`: whose a line of the page is depends on the fence open
there, so the pieces cannot be read apart from each other. `Passes(a, before,
shown, after)` says that an output entered with the fence `before` open shows
`shown` and leaves `after` open; such outputs compose, and `ReadIsPage` makes the
whole page one of them. A block passes if no fence is open on either side of it:
the writer's fence is longer than any run of backticks in the content
(`FenceLengthIs`), so no line of the content closes it (`StaysOpen`). `Replaced`
carries the exchange of one text for another along the page, and `HomeOf` says
that abbreviating a home directory and escaping commute.
`InputsAssumption`: a piece of a string is bytes, a rune a number.

*Release.* `IInv` is `TypeOK /\ PackagerOK /\ JobOK /\ OwnerOK`: what the
packager has verified is still what its output directory holds; from the
second build on `dist` is a whole set that both builds agreed on, and before
publication the draft equals it; and whose release the page shows, which is
what the traps must know (`OwnerOK`). `NoDraftLeft` and `FoundLeftAlone` follow
from `OwnerOK`; `ReleaseIsAtomic` maps each step of job, packager and fault to a
step or a stutter of `AtomicRelease`, in which the draft does not exist. For any
set of targets, any outputs of the builds and any number of faults.

*Only model-checked:* liveness (`InterruptedRunIsSaved`, `CommandEndEndsRun`,
`EventuallyPublic`), which TLAPS cannot do.

## 6. Assumptions and limits

* `os.CreateTemp` chooses a name never chosen before; the kernel's rename is
  atomic. `Crash` is the death of a process, not of the machine: there is no
  fsync before the rename and no model of what a power loss leaves.
* A signal is `SIGHUP`, `SIGINT`, `SIGQUIT` or `SIGTERM`, represented by
  numbers; `SIGPIPE` handling only makes a vanished reader a write error.
* The command's processes all exist from the start: a process forked later
  behaves like one that was silent until then.
* A missing signal channel (`Run` without interrupts) and platforms without
  process groups are not modelled. Durations are not modelled; timers are
  events.
* In `RecordRun` the record file is the atomic register; its own steps and other
  runs are in `RecordStore`. A failed `Chmod` of a directory that was just made
  counts as a record that could not be written. Signals that
  were ignored when runprint started, as under `nohup`, are not modelled.
* A metadata value is good, bad, empty, absent, null or of a wrong type; which
  rule a bad one breaks is left out. What a record costs around its command and
  outputs is one constant, `OtherBytes`. A reader's refusal of a file longer than
  `MaxRecordBytes`, whose layout is its editor's, is left out, as are nesting
  depth, number syntax beyond "not canonical", and the SHA-256 content id. An
  alias of `git` in other letter case is not among the edits.
* `Report`: numbers, times and durations are one phrase; a report has one stream,
  since both are written by one function one after the other; a command has one
  argument; of `abbreviateHome` the prefixes `/home/` and `/Users/`, as one
  phrase. Inline code spans of the Markdown list are a line and no more: a
  version that contains a backtick ends its span, within its line. A raw stream
  is promised nothing. Failing writes of `show` are left out.
* `Reading`: texts are valid UTF-8, as the reader has checked; the JSON around a
  string is `encoding/json`'s business.
* `Release`: one release per tag; a call that was reported failed is carried out
  by then or never (with one that is carried out later, cleanup could delete a
  release that has just become public); bash runs a trap after the command it
  waits for; each job has a fresh runner and the concurrency group allows one.
  The version pattern, tests, tag checks and the environment of builds are the
  step `PassGate`, or what makes a build reproduce.
* Overflow of `received` (int64) and the 2^53-1 limit of counts are beyond any
  execution and are left out.

**Not modelled.** Git context and the portable directory (no state; their results
are metadata values), the dispatch of subcommands, usage texts and version
selection (no state, one condition each), Windows and other platforms, the
content id (a hash).

## 7. Plan

Done: `Collector`, `Utf8Boundary` with `StreamSnapshot`, `Capture` and the whole
of record mode around it, `RecordStore` over `RecordRegister`, `RecordStream`
with `ReceiptRecord`, `Report`, `StrictScan`, `CommandLine`, the release, their
runs, and the theorems above.

Left to TLC: liveness. Every other property of a passing run is a theorem.
