--------------------------- MODULE ReceiptRecord ----------------------------
(***************************************************************************)
(* The life of one record: its metadata is validated before the command    *)
(* starts (internal/capture/capture.go), the rest is known when the        *)
(* command has ended, WriteFile validates, encodes and re-reads it, other  *)
(* programs edit the file, and a reader decodes and validates what it      *)
(* finds (internal/record/record.go, strictjson.go).  A file of the older  *)
(* schema is a starting point too.                                         *)
(*                                                                         *)
(* A JSON object is the sequence of its members.  A member's key is the    *)
(* field it names; exact says whether it is spelled as the schema spells   *)
(* it or in other letter case, which encoding/json matches all the same.   *)
(* Null is a JSON null or a field that is not there, Wrong a value of a    *)
(* type the field does not have.  A metadata field is "good" or "bad" (too *)
(* long, negative, or empty where something is required) for Validate;     *)
(* "many" is a good command of many short arguments; "partial" is an array *)
(* of arguments with a null in it, or a git object without its dirty       *)
(* field; "empty" is a producer that is an empty string, or a git object   *)
(* whose commit or branch is one.  Left out: the depth of the document, and *)
(* a reader's refusal of a file longer than MaxRecordBytes, whose layout   *)
(* is its editor's; a refusal breaks no property below.                    *)
(***************************************************************************)
EXTENDS RecordStream
LOCAL INSTANCE SequencesExt
LOCAL INSTANCE FiniteSetsExt
LOCAL INSTANCE Functions

CONSTANTS
    Wrong,
    Snapshots,       \* [received, head, omitted, tail] that collectors return
    ExitCodes,       \* exit codes of commands
    Counts, Texts, Raws, Signals,     \* values that edits put into a file
    LegacyTexts,     \* outputs in a file of schema v1
    MaxEdits,        \* bound on the edits of a file
    CommandJSONBytes, Arguments,      \* of each command that is accepted
    MaxCommandJSONBytes,
    MaxRecordBytes,
    OtherBytes       \* bytes of a record around its command and its outputs

(* The fields of a record, in the order in which they are written.         *)
RecordOrder ==
    <<"version", "runprint_version", "command", "directory", "started_at",
      "duration_ns", "exit_code", "interruption", "stdout", "stderr", "git">>

Keys == {RecordOrder[i] : i \in DOMAIN RecordOrder}

(* What a field or a member of a JSON object holds.                        *)
Commands == {"good", "many"}
Words == Commands \cup {"bad", "partial", "empty"}
SignalNames == Signals \cup {"SIGHUP", "SIGINT", "interrupt", "SIGQUIT", "SIGTERM"}
Base64Strings == [bytes : Seq(Bytes), spelling : {"canonical", "broken", "loose"}]
Values == Words \cup SignalNames \cup Int \cup BOOLEAN \cup Seq(Bytes) \cup Base64Strings
MemberLists ==
    Seq([key : StreamKeys \cup {"signal", "unknown"}, exact : BOOLEAN,
         value : Values \cup {Null, Wrong}])
Objects == [members : MemberLists]
Strings == [text : Seq(Bytes)]
Streams == [StreamKeys -> Values \cup {Null}]
Records == [Keys -> Values \cup Streams \cup {Null}]

ASSUME NoValueAssumption ==
    \A none \in {Null, Wrong} :
        none \notin Values \cup MemberLists \cup Objects \cup Strings \cup Records

(* The counts of a snapshot agree as StreamSnapshot proves that they do    *)
(* (SnapshotValidates), and no command writes more than 2^53 bytes.        *)
ASSUME SnapshotsAssumption ==
    \A s \in Snapshots :
        /\ s \in [received : Nat, complete : BOOLEAN, head : Seq(Bytes),
                  omitted : Nat, tail : Seq(Bytes)]
        /\ s.received = Len(s.head) + s.omitted + Len(s.tail)
        /\ s.received <= MaxSafeInteger
        /\ Len(s.head) + Len(s.tail) <= MaxCapturedBytes
        /\ s.omitted = 0 => s.tail = <<>>

ASSUME EditsAssumption ==
    /\ ExitCodes \cup Counts \subseteq Int
    /\ LegacyTexts \cup Texts \cup Raws \subseteq Seq(Bytes)
    /\ MaxEdits \in Nat

ASSUME SizesAssumption ==
    /\ CommandJSONBytes \in [Commands -> 0 .. MaxCommandJSONBytes]
    /\ Arguments \in [Commands -> Nat]
    /\ {MaxCommandJSONBytes, MaxRecordBytes, OtherBytes} \subseteq Nat

LegacyVersion == 1
CurrentVersion == 2

VARIABLES
    stage,     \* of the recording program
    receipt,   \* the record it has in memory, or Null
    file,      \* the JSON object at the record's path, or Null
    edits      \* how often other programs have edited it

vars == <<stage, receipt, file, edits>>

-----------------------------------------------------------------------------
(* Signals: internal/capture/process_unix.go and validateSignalName.       *)
HandledSignals == {1, 2, 3, 15}

(* As SignalExitCode below, without the shell's offset.                    *)
SignalExitCodeBare(sig) == sig

SignalExitCode(sig) == 128 + sig

PortableSignalName(sig) ==
    CASE sig = 1 -> "SIGHUP" [] sig = 2 -> "SIGINT"
      [] sig = 3 -> "SIGQUIT" [] sig = 15 -> "SIGTERM"

(* The exit code that goes with a name; 0 if the name is not accepted.     *)
ValidateSignalName(name) ==
    CASE name = "SIGHUP" -> 129
      [] name \in {"SIGINT", "interrupt"} -> 130
      [] name = "SIGQUIT" -> 131
      [] name = "SIGTERM" -> 143
      [] OTHER -> 0

-----------------------------------------------------------------------------
(* Record.Validate *)
RequiredMetadata == {"command", "directory", "started_at", "duration_ns"}
OptionalMetadata == {"runprint_version", "git"}
MetadataKeys == RequiredMetadata \cup OptionalMetadata

ValidateV2(r) ==
    /\ \A key \in {"directory"} \cup OptionalMetadata : r[key] # "bad"
    /\ r.interruption # Null =>
          /\ ValidateSignalName(r.interruption) # 0
          /\ r.exit_code = ValidateSignalName(r.interruption)
    /\ ValidateStream(r.stdout)
    /\ ValidateStream(r.stderr)

Validate(r) ==
    /\ r.version \in {LegacyVersion, CurrentVersion}
    /\ r.command \in Commands
    /\ \A key \in {"started_at", "duration_ns"} : r[key] = "good"
    /\ r.version = CurrentVersion => ValidateV2(r)

-----------------------------------------------------------------------------
(* Encoding: json.MarshalIndent, which leaves out empty optional fields.   *)
Member(key, value) == [key |-> key, exact |-> TRUE, value |-> value]

(* The elements of s at some of its positions.                             *)
Pick(s, positions) ==
    FlattenSeq([i \in DOMAIN s |-> IF i \in positions THEN <<s[i]>> ELSE <<>>])

Members(order, values) ==
    LET present == Pick(order, {i \in DOMAIN order : values[order[i]] # Null})
    IN  [i \in 1 .. Len(present) |-> Member(present[i], values[present[i]])]

EncodeStream(s) ==
    [members |-> Members(
        <<"received_bytes", "capture_complete", "head_bytes", "head_text",
          "head_raw_base64", "omitted_bytes", "tail_bytes", "tail_text",
          "tail_raw_base64">>,
        [key \in StreamKeys |->
            IF key \in TextKeys THEN JSONText(s[key]) ELSE s[key]])]

Encode(r) ==
    Members(RecordOrder,
        [r EXCEPT !.interruption = IF @ = Null THEN Null
                                   ELSE [members |-> <<Member("signal", @)>>],
                  !.stdout = EncodeStream(@),
                  !.stderr = EncodeStream(@)])

(* Bytes that encoding/json writes for byte n of a text: quotation marks,  *)
(* backslashes and five control characters get a backslash; the other      *)
(* control characters and <, > and & become \u and four digits, and so do  *)
(* U+2028 and U+2029, of which these are the last byte.                    *)
ShortEscapes == {8, 9, 10, 12, 13, 34, 92}
LongEscapes == ((0 .. 31) \cup {38, 60, 62}) \ ShortEscapes

JSONBytes(s, n) ==
    CASE s[n] \in ShortEscapes -> 2
      [] s[n] \in LongEscapes -> 6
      [] s[n] \in {168, 169} /\ n > 2 /\ s[n - 2] = 226 /\ s[n - 1] = 128 -> 4
      [] OTHER -> 1

TextBytes(s) ==
    LET upto[n \in 0 .. Len(s)] == IF n = 0 THEN 0 ELSE upto[n - 1] + JSONBytes(s, n)
    IN  upto[Len(s)]

RawBytes(raw) == IF raw = Null THEN 0 ELSE EncodedLength(raw)

StreamBytes(s) ==
    TextBytes(s.head_text) + TextBytes(s.tail_text)
        + RawBytes(s.head_raw_base64) + RawBytes(s.tail_raw_base64)

(* The layout puts every argument on a line of its own, which costs a line *)
(* break and four spaces.                                                  *)
EncodedBytes(r) ==
    OtherBytes + CommandJSONBytes[r.command] + 5 * Arguments[r.command]
        + StreamBytes(r.stdout) + StreamBytes(r.stderr)

FitsLimit(r) == EncodedBytes(r) <= MaxRecordBytes

-----------------------------------------------------------------------------
(* The members of object whose keys are in keys and that are not null.     *)
At(object, keys) ==
    {i \in DOMAIN object : object[i].key \in keys /\ object[i].value # Null}

(* Reading: what encoding/json finds in an object for a field, the last    *)
(* member winning and a null undoing those before it.                      *)
LastOf(object, positions) ==
    IF positions = {} THEN Null ELSE object[Max(positions)].value

Given(object, key) == {i \in DOMAIN object : object[i].key = key}

(* A field that Go holds behind a pointer.                                 *)
Field(object, key) == LastOf(object, Given(object, key))

(* The same for a field whose value is an object: decoding a second object *)
(* into the first adds its members.                                        *)
ObjectField(object, key) ==
    LET live == {i \in Given(object, key) :
                    \A j \in Given(object, key) : j >= i => object[j].value # Null}
    IN  IF live = {} THEN Null
        ELSE FlattenSeq([i \in DOMAIN object |->
                IF i \in live THEN object[i].value.members ELSE <<>>])

(* A field that Go holds by value: null changes nothing.                   *)
PlainField(object, key) == LastOf(object, At(object, {key}))

ObjectKeys == {"stdout", "stderr", "interruption"}

IsObject(value) == value \notin {Null, Wrong} /\ "members" \in DOMAIN value
IsText(value) == value \notin {Null, Wrong} /\ "text" \in DOMAIN value

(* scanJSONValue: no two members of an object have the same key.  Keys are *)
(* compared as they are spelled.                                           *)
DistinctKeys(object) ==
    \A i, j \in DOMAIN object :
        object[i].key = object[j].key /\ object[i].exact = object[j].exact => i = j

(* validateStrictJSON: and the document is valid UTF-8.                    *)
StrictJSON(object) ==
    /\ DistinctKeys(object)
    /\ \A i \in At(object, ObjectKeys) :
          LET value == object[i].value
          IN  /\ IsText(value) => ValidUTF8(value.text)
              /\ IsObject(value) =>
                    /\ DistinctKeys(value.members)
                    /\ \A j \in At(value.members, TextKeys) :
                          LET text == value.members[j].value
                          IN  text # Wrong => ValidUTF8(text)

FieldsOf(key) == IF key = "interruption" THEN {"signal"} ELSE StreamKeys

(* Every member is a field (DisallowUnknownFields) and has its type;       *)
(* counts are canonical (Count.UnmarshalJSON).                             *)
HasFields(object, fields) ==
    /\ \A i \in DOMAIN object : object[i].key \in fields /\ object[i].value # Wrong
    /\ \A i \in At(object, CountKeys) : SafeCount(object[i].value)

HasSchemaV2(object) ==
    /\ HasFields(object, Keys)
    /\ \A i \in At(object, ObjectKeys) :
          /\ IsObject(object[i].value)
          /\ HasFields(object[i].value.members, FieldsOf(object[i].key))

-----------------------------------------------------------------------------
Wire(members) == [key \in StreamKeys |-> Field(members, key)]

(* As InterruptionSignal below, forgetting to copy the field.              *)
InterruptionDropped(members) == Null

InterruptionSignal(members) ==
    IF members = Null THEN Null ELSE Field(members, "signal")

RequiredV2 ==
    RequiredMetadata \cup {"version", "exit_code", "stdout", "stderr"}

(* What decodeV2 requires of the fields it found.                          *)
CompleteV2(field) ==
    /\ \A key \in RequiredV2 : field[key] # Null
    /\ "partial" \notin {field.command, field.git}
    /\ field.interruption # Null => Field(field.interruption, "signal") # Null
    /\ \A key \in {"stdout", "stderr"} :
          /\ WireComplete(Wire(field[key]))
          /\ ValidateStream(WireStream(Wire(field[key])))

(* Go's empty string in an optional field is a field that is not there.    *)
WithoutEmpty(value, rest) == IF value = "empty" THEN rest ELSE value

RecordV2(field) ==
    IF CompleteV2(field)
    THEN [field EXCEPT !.runprint_version = WithoutEmpty(@, Null),
                       !.git = WithoutEmpty(@, "good"),
                       !.interruption = InterruptionSignal(@),
                       !.stdout = WireStream(Wire(@)),
                       !.stderr = WireStream(Wire(@))]
    ELSE Null

(* decodeV2; Null for an error.                                            *)
DecodeV2(object) ==
    IF HasSchemaV2(object)
    THEN RecordV2([key \in Keys |->
            IF key \in ObjectKeys THEN ObjectField(object, key) ELSE Field(object, key)])
    ELSE Null

LegacyKeys == Keys \ {"runprint_version", "interruption"}

OrElse(value, default) == IF value = Null THEN default ELSE value

TextStream(text) == NewStream(Len(text), TRUE, text, 0, <<>>)

LegacyStream(object, key) ==
    TextStream(OrElse(PlainField(object, key), [text |-> <<>>]).text)

(* decodeLegacy: no field is required, and fields it does not know are     *)
(* skipped.  A null argument is an empty one, and dirty may be missing.    *)
DecodeLegacy(object) ==
    LET complete(key) == IF Field(object, key) \in {"partial", "empty"}
                         THEN "good" ELSE Field(object, key)
        wellTyped ==
            /\ \A i \in At(object, LegacyKeys) : object[i].value # Wrong
            /\ \A i \in At(object, {"stdout", "stderr"}) : IsText(object[i].value)
    IN  IF ~wellTyped THEN Null
        ELSE [version          |-> PlainField(object, "version"),
              runprint_version |-> Null,
              command          |-> complete("command"),
              directory        |-> OrElse(PlainField(object, "directory"), "bad"),
              started_at       |-> OrElse(PlainField(object, "started_at"), "bad"),
              duration_ns      |-> OrElse(PlainField(object, "duration_ns"), "good"),
              exit_code        |-> OrElse(PlainField(object, "exit_code"), 0),
              interruption     |-> Null,
              stdout           |-> LegacyStream(object, "stdout"),
              stderr           |-> LegacyStream(object, "stderr"),
              git              |-> complete("git")]

Valid(r) == IF r # Null /\ Validate(r) THEN r ELSE Null

Decode(object) ==
    IF StrictJSON(object)
    THEN Valid(CASE Field(object, "version") = LegacyVersion -> DecodeLegacy(object)
                 [] Field(object, "version") = CurrentVersion -> DecodeV2(object)
                 [] OTHER -> Null)
    ELSE Null

(* WriteFile gets as far as the temporary file.                            *)
Writable(r) ==
    /\ r.version = CurrentVersion
    /\ Validate(r)
    /\ r.runprint_version # Null
    /\ FitsLimit(r)
    /\ Decode(Encode(r)) # Null

-----------------------------------------------------------------------------
LegacyFile(code, text) ==
    Members(RecordOrder,
        [key \in Keys |->
            CASE key = "version" -> LegacyVersion
              [] key \in {"stdout", "stderr"} -> [text |-> JSONText(text)]
              [] key = "exit_code" -> code
              [] key \in {"runprint_version", "interruption"} -> Null
              [] OTHER -> "good"])

Init ==
    /\ receipt = Null
    /\ edits = 0
    /\ \/ stage = "prepare" /\ file = Null
       \/ /\ stage = "idle"
          /\ \E code \in ExitCodes, text \in LegacyTexts : file = LegacyFile(code, text)

(* run, up to cmd.Start: the metadata is checked while the command can     *)
(* still be refused.                                                       *)
Prepare(producer, command, directory, git) ==
    LET metadata ==
            [version |-> CurrentVersion, runprint_version |-> producer,
             command |-> command, directory |-> directory,
             started_at |-> "good", duration_ns |-> "good",
             exit_code |-> 0, interruption |-> Null,
             stdout |-> NewStream(0, TRUE, <<>>, 0, <<>>),
             stderr |-> NewStream(0, TRUE, <<>>, 0, <<>>), git |-> git]
    IN  /\ stage = "prepare"
        /\ IF Validate(metadata)
           THEN stage' = "running" /\ receipt' = metadata
           ELSE stage' = "refused" /\ UNCHANGED receipt
        /\ UNCHANGED <<file, edits>>

SnapshotStream(s) == NewStream(s.received, s.complete, s.head, s.omitted, s.tail)

(* run, from the end of the command: sig is the signal acted on, or Null.  *)
Finish(code, sig, out, err) ==
    /\ stage = "running"
    /\ stage' = "ended"
    /\ receipt' = [receipt EXCEPT
          !.exit_code    = IF sig = Null THEN code ELSE SignalExitCode(sig),
          !.interruption = IF sig = Null THEN Null ELSE PortableSignalName(sig),
          !.stdout       = SnapshotStream(out),
          !.stderr       = SnapshotStream(err)]
    /\ UNCHANGED <<file, edits>>

WriteFile ==
    /\ stage = "ended"
    /\ IF Writable(receipt)
       THEN stage' = "recorded" /\ file' = Encode(receipt)
       ELSE stage' = "lost" /\ UNCHANGED file
    /\ UNCHANGED <<receipt, edits>>

(* What other programs can put in the place of a value.                    *)
ValuesOf(key) ==
    {Null, Wrong} \cup
    CASE key = "version" -> {LegacyVersion, CurrentVersion, CurrentVersion + 1}
      [] key = "command" -> {"good", "many", "bad", "partial"}
      [] key = "git" -> {"good", "bad", "partial", "empty"}
      [] key = "runprint_version" -> {"good", "bad", "empty"}
      [] key \in {"directory", "started_at", "duration_ns"} -> {"good", "bad"}
      [] key = "exit_code" -> ExitCodes
      [] key = "signal" -> Signals
      [] key \in {"stdout", "stderr"} ->
            {[text |-> text] : text \in LegacyTexts} \cup {[members |-> <<>>]}
      [] key = "interruption" ->
            {[members |-> <<Member("signal", signal)>>] : signal \in Signals}
      [] key = "capture_complete" -> BOOLEAN
      [] key \in CountKeys -> Counts
      [] key \in TextKeys -> Texts
      [] key \in RawKeys ->
            {raw \in [bytes : Raws, spelling : {"canonical", "broken", "loose"}] :
                raw.spelling = "loose" => Len(raw.bytes) % 3 # 0}

Changed(object, i, value) == [object EXCEPT ![i].value = value]

Added(object, key, exact, value) ==
    Append(object, [key |-> key, exact |-> exact, value |-> value])

(* How edits spell a key: other letter case is left out for git.           *)
Spellings(key) == IF key = "git" THEN {TRUE} ELSE BOOLEAN

WithAChange(object, fields) ==
    UNION {{Changed(object, i, value) : value \in ValuesOf(object[i].key)}
             : i \in At(object, fields)}

WithAnAddition(object, fields) ==
    UNION {{Added(object, key, exact, value)
              : exact \in Spellings(key), value \in ValuesOf(key)} : key \in fields}

(* A value changed, a member removed, added, written twice, or added in    *)
(* other letter case; a member nobody knows.                               *)
Edited(object, fields) ==
    WithAChange(object, fields)
    \cup {RemoveAt(object, i) : i \in DOMAIN object}
    \cup WithAnAddition(object, fields)
    \cup {Added(object, "unknown", TRUE, Null)}

ChunkKeys == {<<"head_bytes", "head_text", "head_raw_base64">>,
              <<"tail_bytes", "tail_text", "tail_raw_base64">>}

(* The three members of a chunk replaced together.                         *)
ChunkReplaced(object, keys, count, text, raw) ==
    Pick(object, {i \in DOMAIN object : object[i].key \notin Range(keys)})
        \o Members(keys, [key \in Range(keys) |->
                            CASE key \in CountKeys -> count
                              [] key \in TextKeys -> text
                              [] key \in RawKeys -> raw])

Rechunked(object) ==
    {ChunkReplaced(object, keys, count, text, raw)
        : keys \in ChunkKeys, count \in Counts, text \in Texts,
          raw \in ValuesOf("head_raw_base64") \ {Wrong}}

EditRecord == file' \in Edited(file, Keys)

EditObject(i) ==
    /\ IsObject(file[i].value)
    /\ \E members \in Edited(file[i].value.members, FieldsOf(file[i].key)) :
          file' = [file EXCEPT ![i].value = [members |-> members]]

EditChunk(i) ==
    /\ IsObject(file[i].value)
    /\ \E members \in Rechunked(file[i].value.members) :
          file' = [file EXCEPT ![i].value = [members |-> members]]

Edit ==
    /\ file # Null
    /\ edits < MaxEdits
    /\ \/ EditRecord
       \/ \E i \in At(file, ObjectKeys) : EditObject(i)
       \/ \E i \in At(file, {"stdout", "stderr"}) : EditChunk(i)
    /\ edits' = edits + 1
    /\ UNCHANGED <<stage, receipt>>

Next ==
    \/ \E command \in {"good", "many", "bad"}, producer, directory \in {"good", "bad"},
          git \in {Null, "good", "bad"} : Prepare(producer, command, directory, git)
    \/ \E code \in ExitCodes, sig \in HandledSignals \cup {Null},
          out, err \in Snapshots : Finish(code, sig, out, err)
    \/ WriteFile
    \/ Edit

Spec == Init /\ [][Next]_vars

-----------------------------------------------------------------------------
(* docs/decisions/0005-close-pre-release-record-contract.md: a command     *)
(* whose record could not be written is refused before it starts.  So a    *)
(* command that ran is recorded.                                           *)
ReceiptIsWritten == stage # "lost"

(* A stream that is kept in full costs at most this: six bytes for every   *)
(* byte as text, and all of them in Base64.                                *)
WorstStream == 6 * MaxCapturedBytes + EncodedLen(MaxCapturedBytes) + 4

(* What is left of the longest record for the layout of the arguments.     *)
Room == MaxRecordBytes - OtherBytes - MaxCommandJSONBytes - 2 * WorstStream

(* Only a command of too many arguments can run and not be recorded: no    *)
(* other check that comes after the command can fail on what the checks    *)
(* before it let through, whatever it wrote, however it ended and          *)
(* whichever signal stopped it (run, WriteFile).                           *)
OnlyLongCommandsAreLost == stage = "lost" => 5 * Arguments[receipt.command] > Room

(* The file as it was written reads back as the record it was written from *)
(* (WriteFileWithContentID, DecodeWithContentID).                          *)
ReadsBack == stage = "recorded" /\ edits = 0 => Decode(file) = receipt

ExactChunk(count, text, raw) ==
    /\ raw # Null => Decodes(raw) /\ raw.spelling = "canonical"
    /\ EncodeChunk(ChunkData(text, raw)) = [text |-> text, raw |-> raw]
    /\ Len(ChunkData(text, raw)) = count

ExactStream(s) ==
    /\ ExactChunk(s.head_bytes, s.head_text, s.head_raw_base64)
    /\ ExactChunk(s.tail_bytes, s.tail_text, s.tail_raw_base64)

ExactRecord(r) == r # Null => ExactStream(r.stdout) /\ ExactStream(r.stderr)

(* Every chunk of every record that is read, of either schema, is the      *)
(* canonical form of the bytes that HeadData and TailData return, which    *)
(* never fail and return as many bytes as the record counts                *)
(* (decodeRawBase64, validateChunk).                                       *)
AcceptedStreamsAreExact == file # Null => ExactRecord(Decode(file))

(* The fields of an object that say something, whatever their order.       *)
Said(members) ==
    [key \in {members[i].key : i \in At(members, StreamKeys \cup {"signal"})} |->
        Field(members, key)]

(* An empty string in an optional field says nothing.                      *)
Says(m) == m.key = "runprint_version" => m.value # "empty"

Content(object) ==
    [key \in {object[i].key : i \in {i \in At(object, Keys) : Says(object[i])}} |->
        CASE key \in ObjectKeys -> Said(Field(object, key).members)
          [] key = "git" -> WithoutEmpty(Field(object, key), "good")
          [] OTHER -> Field(object, key)]

SchemaSpelling(object) ==
    /\ \A i \in DOMAIN object : object[i].exact
    /\ \A i \in At(object, ObjectKeys) :
          IsObject(object[i].value) =>
              \A j \in DOMAIN object[i].value.members : object[i].value.members[j].exact

Means(r, object) ==
    r # Null /\ r.version = CurrentVersion =>
        /\ Content(Encode(r)) = Content(object)
        /\ r.runprint_version # Null /\ FitsLimit(r) => Writable(r)

(* A v2 file that is accepted and spells its fields as the schema does     *)
(* says exactly what the reader understands: writing the record read gives *)
(* the same fields with the same values, and nothing is filled in, dropped *)
(* or repaired but an empty producer, commit or branch, which is read as   *)
(* none.  What a reader accepts a writer would, given a producer and the   *)
(* room (decodeV2, stream, Validate, WriteFile).                           *)
AcceptedSaysWhatItMeans ==
    file # Null /\ SchemaSpelling(file) => Means(Decode(file), file)

(* docs/record-format-v2.md: a reader rejects unknown v2 fields.  So the   *)
(* fields of an accepted file are those of the schema, in its spelling.    *)
OnlySchemaFields ==
    file # Null /\ ~SchemaSpelling(file) =>
        LET r == Decode(file)
        IN  r = Null \/ r.version = LegacyVersion
=============================================================================
