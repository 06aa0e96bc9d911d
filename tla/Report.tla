------------------------------- MODULE Report -------------------------------
(***************************************************************************)
(* internal/report/report.go: a record's text, which anybody may have      *)
(* written, between lines that runprint writes.  Texts are sequences of    *)
(* runes as numbers.  Runprint's own wording (a label, a warning, the      *)
(* omission marker) is one symbol per phrase, a number above all runes;    *)
(* a record's text may contain it too.  Lines whose values are numbers,    *)
(* times or durations are one phrase, "facts".                             *)
(*                                                                         *)
(* A report here is of one stream; stdout and stderr are written by the    *)
(* same function one after the other.                                      *)
(***************************************************************************)
EXTENDS Integers, Sequences
LOCAL INSTANCE SequencesExt

Tab == 9
NL == 10
Space == 32
Slash == 47
Tick == 96
Bar == 124
Tilde == 126
UnicodeMax == 1114111
Phrase(n) == <<UnicodeMax + n>>

RecordLabel     == Phrase(1)     \* "record: ", in front of the path
CommandLabel    == Phrase(2)
DirectoryLabel  == Phrase(3)
VersionLabel    == Phrase(4)
GitLabel        == Phrase(5)
CommitLabel     == Phrase(6)
BranchLabel     == Phrase(7)
StreamLabel     == Phrase(8)
Facts           == Phrase(9)
LegacyNote      == Phrase(10)
IncompleteNote  == Phrase(11)
InvalidNote     == Phrase(12)
OmittedNote     == Phrase(13)
Unknown         == Phrase(14)    \* "(unknown)"
Empty           == Phrase(15)    \* "(empty)"
Title           == Phrase(16)
Language        == Phrase(17)    \* "json" or "text" of a fence
Advice          == Phrase(18)    \* the closing block quote
HomePrefix      == Phrase(19)    \* "/home/" or "/Users/"

-----------------------------------------------------------------------------
(* unicode.IsPrint, over the runes that break or reorder a line.           *)
BidiControls == {1564, 8206, 8207} \cup 8234 .. 8238 \cup 8294 .. 8297
IsPrint(r) == r \notin 0 .. 31 \cup 127 .. 160 \cup {173, 8232, 8233} \cup BidiControls

Hex(r, width) ==
    [k \in 1 .. width |->
        LET d == (r \div 16 ^ (width - k)) % 16
        IN  IF d < 10 THEN 48 + d ELSE 87 + d]

RuneEscape(r) ==
    CASE r <= 255 -> <<92, 120>> \o Hex(r, 2)
      [] 255 < r /\ r <= 65535 -> <<92, 117>> \o Hex(r, 4)
      [] r > 65535 -> <<92, 85>> \o Hex(r, 8)

(* As Escape below, for the controls a terminal acts on but not for the    *)
(* separators of lines and paragraphs.                                     *)
EscapeAscii(value, kept) ==
    FlattenSeq([i \in 1 .. Len(value) |->
        IF value[i] \in kept \/ value[i] > 160 THEN <<value[i]>> ELSE RuneEscape(value[i])])

Escape(value, kept) ==
    FlattenSeq([i \in 1 .. Len(value) |->
        IF value[i] \in kept \/ (IsPrint(value[i]) /\ value[i] \notin BidiControls)
        THEN <<value[i]>>
        ELSE RuneEscape(value[i])])

EscapeControls(value) == Escape(value, {NL, Tab})
EscapeInline(value) == Escape(value, {})

(* json.Marshal of a command of one argument.                              *)
JSONRune(r) ==
    CASE r = NL -> <<92, 110>>
      [] r = Tab -> <<92, 116>>
      [] r = 13 -> <<92, 114>>
      [] r \in {34, 92} -> <<92, r>>
      [] r \in (0 .. 31 \ {NL, Tab, 13}) \cup {38, 60, 62, 8232, 8233} ->
            <<92, 117>> \o Hex(r, 4)
      [] OTHER -> <<r>>

CommandJSON(value) ==
    <<91, 34>> \o FlattenSeq([i \in 1 .. Len(value) |-> JSONRune(value[i])]) \o <<34, 93>>

SafeCommandJSON(value) == EscapeControls(CommandJSON(value))

ValueOrUnknown(value) == IF value = <<>> THEN Unknown ELSE value

(* The user's name runs from the prefix to the next slash.                 *)
AbbreviateHome(path) ==
    LET slashes == {i \in 2 .. Len(path) : path[i] = Slash}
    IN  IF path = <<>> \/ SubSeq(path, 1, 1) # HomePrefix THEN path
        ELSE <<Tilde>> \o IF slashes = {} THEN <<>>
                          ELSE SubSeq(path, Min(slashes), Len(path))

-----------------------------------------------------------------------------
(***************************************************************************)
(* The terminal report.                                                    *)
(***************************************************************************)
Prefix == <<Bar, Space>>

(* The end of the line that begins at i.                                   *)
LineEnd(value, i, breaks) ==
    Min({j \in i .. Len(value) : value[j] \in breaks} \cup {Len(value) + 1})

WritePrefixed(value) ==
    LET from[i \in 1 .. Len(value) + 2] ==
            IF i > Len(value) THEN <<>>
            ELSE Prefix \o SubSeq(value, i, LineEnd(value, i, {NL}) - 1) \o <<NL>>
                     \o from[LineEnd(value, i, {NL}) + 1]
    IN  from[1]

Line(label, value) == label \o value \o <<NL>>
OnlyIf(condition, text) == IF condition THEN text ELSE <<>>

WriteRawPart(value) ==
    value \o OnlyIf(value # <<>> /\ value[Len(value)] # NL, <<NL>>)

NothingReceived(s) == s.head = <<>> /\ s.tail = <<>> /\ ~s.truncated

WriteTerminalStream(s, raw) ==
    LET Part(value) == IF raw THEN WriteRawPart(value) ELSE WritePrefixed(EscapeControls(value))
    IN  <<NL>> \o Line(StreamLabel, <<>>)
          \o OnlyIf(~s.complete, Line(IncompleteNote, <<>>))
          \o OnlyIf(s.invalid /\ ~raw, Line(InvalidNote, <<>>))
          \o IF NothingReceived(s) THEN Line(Empty, <<>>)
             ELSE Part(s.head) \o OnlyIf(s.truncated, Line(OmittedNote, <<>>)) \o Part(s.tail)

WriteTerminal(r, raw) ==
    Line(CommandLabel, SafeCommandJSON(r.command))
      \o Line(DirectoryLabel, EscapeInline(r.directory))
      \o Line(Facts, <<>>)
      \o Line(VersionLabel, EscapeInline(ValueOrUnknown(r.version)))
      \o OnlyIf(r.git, Line(CommitLabel, EscapeInline(ValueOrUnknown(r.commit)))
                         \o Line(BranchLabel, EscapeInline(ValueOrUnknown(r.branch))))
      \o OnlyIf(r.legacy, Line(LegacyNote, <<>>))
      \o WriteTerminalStream(r.stream, raw)

(* showCommand puts the path it was given in front.                        *)
ShowTerminal(path, r, raw) ==
    Line(RecordLabel, EscapeInline(path)) \o Line(Facts, <<>>) \o WriteTerminal(r, raw)

-----------------------------------------------------------------------------
(***************************************************************************)
(* The Markdown report.                                                    *)
(***************************************************************************)
Ticks(n) == [i \in 1 .. n |-> Tick]

LongestBacktickRun(value) ==
    LET current[i \in 0 .. Len(value)] ==        \* the backticks that end at i
            IF i = 0 THEN 0 ELSE IF value[i] = Tick THEN current[i - 1] + 1 ELSE 0
    IN  Max({current[i] : i \in 0 .. Len(value)})

(* As FenceLength below, no longer than a run of the content.              *)
FenceLengthEqual(content) == Max({LongestBacktickRun(content), 3})
FenceLength(content) == Max({LongestBacktickRun(content) + 1, 3})

WriteMarkdownFence(value) ==
    LET content == IF value = <<>> THEN Empty ELSE value
        fence == Ticks(FenceLength(content))
    IN  <<NL>> \o Line(fence, Language) \o content
          \o OnlyIf(content[Len(content)] # NL, <<NL>>)
          \o Line(fence, <<>>)

WriteMarkdownBlock(title, content) ==
    <<NL>> \o Line(title, <<>>) \o WriteMarkdownFence(content)

(* A note of its own between the blocks.                                   *)
Note(phrase) == <<NL>> \o Line(phrase, <<>>)

WriteMarkdownStream(s) ==
    Note(StreamLabel)
      \o OnlyIf(~s.complete, Note(IncompleteNote))
      \o OnlyIf(s.invalid, Note(InvalidNote))
      \o IF NothingReceived(s) THEN WriteMarkdownFence(Empty)
         ELSE OnlyIf(s.head # <<>>, WriteMarkdownFence(EscapeControls(s.head)))
                \o OnlyIf(s.truncated, Note(OmittedNote))
                \o OnlyIf(s.tail # <<>>, WriteMarkdownFence(EscapeControls(s.tail)))

WriteMarkdown(r) ==
    Line(Title, <<>>) \o <<NL>> \o Line(Facts, <<>>)
      \o Line(VersionLabel, EscapeInline(ValueOrUnknown(r.version)))
      \o OnlyIf(r.legacy, Note(LegacyNote))
      \o WriteMarkdownBlock(CommandLabel, SafeCommandJSON(r.command))
      \o WriteMarkdownBlock(DirectoryLabel, EscapeInline(AbbreviateHome(r.directory)))
      \o OnlyIf(r.git, WriteMarkdownBlock(GitLabel,
                          Line(CommitLabel, EscapeInline(ValueOrUnknown(r.commit)))
                            \o BranchLabel \o EscapeInline(ValueOrUnknown(r.branch))))
      \o WriteMarkdownStream(r.stream)
      \o Note(Advice)
=============================================================================
