------------------------------ MODULE Reading -------------------------------
(***************************************************************************)
(* What a reader of a record meets that somebody else wrote: the arguments *)
(* of a command line, a string of the record's JSON, and the text that a   *)
(* report shows.  One of the three is written in a behaviour, piece by     *)
(* piece, and every one of its lengths is parsed, scanned or rendered.     *)
(***************************************************************************)
EXTENDS Report, CommandLine, StrictScan
LOCAL INSTANCE SequencesExt

CONSTANTS
    Args,          \* arguments
    Pieces,        \* byte sequences a JSON string is put together from
    Runes,         \* runes and phrases of a text
    MaxArgs, MaxPieces, MaxRunes    \* bounds: how many of each

ASSUME LengthsAssumption == {MaxArgs, MaxPieces, MaxRunes} \subseteq Nat
ASSUME InputsAssumption == Pieces \subseteq Seq(0 .. 255) /\ Runes \subseteq Nat

VARIABLES args, string, text, place, note

vars == <<args, string, text, place, note>>

(* Where the text stands in its record, and what else there is to say.     *)
Places == {"path", "command", "directory", "version", "commit", "branch", "head", "tail"}
Notes == {"none", "incomplete", "invalid", "omitted", "legacy"}

-----------------------------------------------------------------------------
Init ==
    /\ args = <<>> /\ string = <<>> /\ text = <<>>
    /\ place \in Places
    /\ note \in Notes
    /\ note # "none" => place \in {"head", "tail"}
    /\ place = "tail" => note \notin {"omitted", "legacy"}    \* implied; never

WriteArgument(arg) ==
    /\ string = <<>> /\ text = <<>> /\ Len(args) < MaxArgs
    /\ place = "path" /\ note = "none"
    /\ args' = Append(args, arg)
    /\ UNCHANGED <<string, text, place, note>>

WriteString(piece) ==
    /\ args = <<>> /\ text = <<>> /\ Len(string) < MaxPieces
    /\ place = "path" /\ note = "none"
    /\ string' = Append(string, piece)
    /\ UNCHANGED <<args, text, place, note>>

WriteText(rune) ==
    /\ args = <<>> /\ string = <<>> /\ Len(text) < MaxRunes
    /\ text' = Append(text, rune)
    /\ UNCHANGED <<args, string, place, note>>

Next ==
    \/ \E arg \in Args : WriteArgument(arg)
    \/ \E piece \in Pieces : WriteString(piece)
    \/ \E rune \in Runes : WriteText(rune)

Spec == Init /\ [][Next]_vars

-----------------------------------------------------------------------------
(* The record that has t where the text stands.                            *)
Plain == <<120>>

StreamWith(t) ==
    [head      |-> IF place = "head" THEN t ELSE Plain,
     tail      |-> IF place = "tail" THEN t ELSE IF note = "omitted" THEN Plain ELSE <<>>,
     truncated |-> place = "tail" \/ note = "omitted",
     complete  |-> note # "incomplete",
     invalid   |-> note = "invalid"]

RecordWith(t) ==
    LET At(p) == IF place = p THEN t ELSE Plain
    IN  [command |-> At("command"), directory |-> At("directory"), version |-> At("version"),
         git |-> TRUE, commit |-> At("commit"), branch |-> At("branch"),
         legacy |-> note = "legacy", stream |-> StreamWith(t)]

-----------------------------------------------------------------------------
(***************************************************************************)
(* How a reader takes a report apart.                                      *)
(***************************************************************************)

(* Runes at which a terminal or a page begins another line.                *)
Breaks == {10, 11, 12, 13, 133, 8232, 8233}

LinesOf(output) ==
    LET from[i \in 1 .. Len(output) + 2] ==
            IF i > Len(output) THEN <<>>
            ELSE <<SubSeq(output, i, LineEnd(output, i, Breaks) - 1)>>
                     \o from[LineEnd(output, i, Breaks) + 1]
    IN  from[1]

(* A line that runprint itself wrote is known by the symbol it begins with,*)
(* one of the text by all of it.                                           *)
Beginning(line, n) == SubSeq(line, 1, Min({n, Len(line)}))
Own(line) == [own |-> TRUE, line |-> Beginning(line, 1)]
Others(line) == [own |-> FALSE, line |-> line]
AllOthers(lines) == [i \in 1 .. Len(lines) |-> Others(lines[i])]

ReadTerminal(output) ==
    LET lines == LinesOf(output)
    IN  [i \in 1 .. Len(lines) |->
            IF Beginning(lines[i], 2) = Prefix
            THEN Others(SubSeq(lines[i], 3, Len(lines[i])))
            ELSE Own(lines[i])]

(* A fence opens with three backticks or more and an info string without   *)
(* any, and closes with as many or more and nothing else but spaces.       *)
LeadingTicks(line) ==
    Min({i \in 1 .. Len(line) : line[i] # Tick} \cup {Len(line) + 1}) - 1

Opens(line) ==
    /\ Len(line) >= 3 /\ \A i \in 1 .. 3 : line[i] = Tick
    /\ \A i \in LeadingTicks(line) + 1 .. Len(line) : line[i] # Tick

Closes(line, fence) ==
    \E i, j \in 1 .. Len(line) :
        /\ j - i + 1 >= fence
        /\ \A k \in 1 .. Len(line) : line[k] = IF k \in i .. j THEN Tick ELSE Space

(* The ticks of the fence that is open behind a line, 0 if there is none.  *)
Behind(line, fence) ==
    IF fence = 0 THEN IF Opens(line) THEN LeadingTicks(line) ELSE 0
    ELSE IF Closes(line, fence) THEN 0 ELSE fence

Found(line, fence) ==
    IF fence = 0 \/ Closes(line, fence) THEN Own(line) ELSE Others(line)

ReadMarkdown(output) ==
    LET lines == LinesOf(output)
        read[i \in 0 .. Len(lines)] ==        \* the first i lines
            IF i = 0 THEN [fence |-> 0, found |-> <<>>]
            ELSE LET before == read[i - 1]
                 IN  [fence |-> Behind(lines[i], before.fence),
                      found |-> Append(before.found, Found(lines[i], before.fence))]
    IN  read[Len(lines)].found

(* What a reader should find: the report of an ordinary text, with the n-th*)
(* line that is not runprint's own replaced by the text's lines.           *)
Instead(report, n, lines) ==
    LET others[i \in 0 .. Len(report)] ==        \* among the first i lines
            IF i = 0 THEN 0 ELSE others[i - 1] + IF report[i].own THEN 0 ELSE 1
        line == Min({i \in 1 .. Len(report) : others[i] = n})
    IN  SubSeq(report, 1, line - 1) \o AllOthers(lines)
            \o SubSeq(report, line + 1, Len(report))

-----------------------------------------------------------------------------
(***************************************************************************)
(* Properties.                                                             *)
(***************************************************************************)

(* docs/decisions/0002: "Captured content can resemble an omission marker, *)
(* but it cannot occupy the marker's trusted structural position."         *)
(* Whatever a record's text is and wherever it stands, the lines that a    *)
(* terminal shows as runprint's own are the ones it shows for an ordinary  *)
(* text, in their order, and a stream's text is shown in its place, all of *)
(* it; with --raw, which writes streams as they are, everything else still *)
(* keeps to its line (writePrefixed, escape, writeTerminal).               *)
TerminalLinesAreOurs ==
    LET Shows(t, raw) == ReadTerminal(ShowTerminal(IF place = "path" THEN t ELSE Plain,
                                                   RecordWith(t), raw))
        lines == LinesOf(EscapeControls(text))
    IN  text # <<>> =>
            CASE place = "head" -> Shows(text, FALSE) = Instead(Shows(Plain, FALSE), 1, lines)
              [] place = "tail" -> Shows(text, FALSE) = Instead(Shows(Plain, FALSE), 2, lines)
              [] OTHER -> \A raw \in BOOLEAN : Shows(text, raw) = Shows(Plain, raw)

(* docs/decisions/0001: "Markdown code fences grow to exceed any backtick  *)
(* run in captured content, preventing content from closing its own        *)
(* fence."  No text ends its fence, opens another one or stands outside of *)
(* it, and each is shown in its place (writeMarkdownFence).                *)
MarkdownBlocksAreOurs ==
    LET Shows(t) == ReadMarkdown(WriteMarkdown(RecordWith(t)))
        inline == EscapeInline(text)
    IN  text # <<>> =>
            Shows(text) =
                CASE place = "command"   ->
                        Instead(Shows(Plain), 1, LinesOf(SafeCommandJSON(text)))
                  [] place = "directory" -> Instead(Shows(Plain), 2, <<AbbreviateHome(inline)>>)
                  [] place = "commit"    -> Instead(Shows(Plain), 3, <<CommitLabel \o inline>>)
                  [] place = "branch"    -> Instead(Shows(Plain), 4, <<BranchLabel \o inline>>)
                  [] place = "head"      ->
                        Instead(Shows(Plain), 5, LinesOf(EscapeControls(text)))
                  [] place = "tail"      ->
                        Instead(Shows(Plain), 6, LinesOf(EscapeControls(text)))
                  [] OTHER               -> Shows(Plain)

-----------------------------------------------------------------------------
(* The code units of a string's body as encoding/json reads them: a plain  *)
(* byte, an escaped one or a \u escape; NoValue where it is no JSON string.*)
Escaped(body, i, following) ==
    body[i] = Backslash /\ i < Len(body) /\ body[i + 1] \in following

CodeUnits(body) ==
    LET from[i \in 1 .. Len(body) + 1] ==
            IF i > Len(body) THEN <<>>
            ELSE IF body[i] \notin {Quote, Backslash} THEN <<body[i]>> \o from[i + 1]
            ELSE IF Escaped(body, i, {34, 92, 47, 98, 102, 110, 114, 116})
            THEN <<body[i + 1]>> \o from[i + 2]
            ELSE IF Escaped(body, i, {LetterU}) /\ DecodeHex4(body, i + 2) # NoValue
            THEN <<DecodeHex4(body, i + 2)>> \o from[i + 6]
            ELSE <<NoValue>>
    IN  from[1]

Unpaired(units, k) ==
    \/ units[k] \in High /\ ~(k < Len(units) /\ units[k + 1] \in Low)
    \/ units[k] \in Low /\ ~(k > 1 /\ units[k - 1] \in High)

(* docs/record-format-v2.md: a reader rejects "unpaired JSON surrogate     *)
(* escapes".  Of the strings that are JSON the scan refuses exactly those  *)
(* that would decode to a replacement character nobody wrote, and its      *)
(* indices stay inside the data for any bytes (rejectUnpairedSurrogates).  *)
ScanIsExact ==
    LET body == FlattenSeq(string)
        accepts == ScanAccepts(<<Quote>> \o body \o <<Quote>>)
        units == CodeUnits(body)
        IsJSON == \A k \in 1 .. Len(units) : units[k] # NoValue
    IN  /\ accepts \in BOOLEAN
        /\ IsJSON => (accepts <=> \A k \in 1 .. Len(units) : ~Unpaired(units, k))

-----------------------------------------------------------------------------
(* Of a command line: where options end and what is an option's value.     *)
TakesValue(i) == args[i] \in {"-o", "--output"}

(* i is the value of the option before it: among the arguments that could  *)
(* be such options and directly precede it there is an odd number.         *)
IsValue(i) ==
    LET others == {j \in 1 .. i - 1 : ~TakesValue(j)}
    IN  (i - 1 - Max(others \cup {0})) % 2 = 1

Stops(i) == ~IsValue(i) /\ (args[i] = "--" \/ ~Dashed(args[i]))

(* The command is what follows the options, word for word: an option's     *)
(* value is never a word of it, none of its words is taken for an option,  *)
(* and the last path wins (parseRecordOptions).                            *)
CommandIsVerbatim ==
    LET parsed == ParseRecordOptions(args)
        stops == {i \in 1 .. Len(args) : Stops(i)}
        stop == Min(stops \cup {Len(args) + 1})
        options == {i \in 1 .. stop - 1 : ~IsValue(i)}
        known == \A i \in options : \/ TakesValue(i) /\ i + 1 < stop
                                    \/ args[i] \in DOMAIN OutputValue
        path == IF options = {} THEN Latest
                ELSE LET i == Max(options)
                     IN  IF TakesValue(i) THEN args[i + 1] ELSE OutputValue[args[i]]
        command == IF stop > Len(args) THEN <<>>
                   ELSE SubSeq(args, IF args[stop] = "--" THEN stop + 1 ELSE stop, Len(args))
    IN  parsed = IF ~known \/ command = <<>> \/ path \in {"", "-"} THEN Refused
                 ELSE [ok |-> TRUE, path |-> path, command |-> command]

(* docs/decisions/0001: --raw "is only available with terminal-format      *)
(* output", wherever it stands among the options: exchanging it with the   *)
(* argument next to it changes nothing (parseShowOptions).                 *)
RawWhereverItStands ==
    \A i \in 2 .. Len(args) :
        /\ "--raw" \in {args[i - 1], args[i]}
        /\ {args[j] : j \in 1 .. i} \cap {"--", "--format"} = {}
        => ParseShowOptions(args) =
           ParseShowOptions([args EXCEPT ![i - 1] = args[i], ![i] = args[i - 1]])
=============================================================================
