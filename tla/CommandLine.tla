---------------------------- MODULE CommandLine ----------------------------
(***************************************************************************)
(* The argument parsers of cmd/runprint/main.go.  Each is a loop over the  *)
(* arguments with a few variables: here a step from one state of these to  *)
(* the next, with "at" for what the loop expects then.                     *)
(***************************************************************************)
EXTENDS Integers, Sequences

Latest == "latest"    \* latestRecordPath

(* Texts of arguments: the options with their values behind an equals      *)
(* sign, and everything that begins with a dash.                           *)
OutputValue ==
    [option \in {"--output=a", "--output="} |-> IF option = "--output=" THEN "" ELSE "a"]
FormatValue ==
    [option \in {"--format=markdown", "--format=pdf"} |->
        IF option = "--format=pdf" THEN "pdf" ELSE "markdown"]
DashedTexts ==
    {"-", "--", "-o", "--output", "-x", "--raw", "--format"}
        \cup DOMAIN OutputValue \cup DOMAIN FormatValue
Dashed(arg) == arg \in DashedTexts

Refused == [ok |-> FALSE]

-----------------------------------------------------------------------------
(* parseRecordOptions.                                                     *)
RecordOption(s, arg) ==
    CASE arg = "--"                   -> [s EXCEPT !.at = "command"]
      [] arg \in {"-o", "--output"}   -> [s EXCEPT !.at = "path"]
      [] arg \in DOMAIN OutputValue   -> [s EXCEPT !.path = OutputValue[arg]]
      [] ~Dashed(arg)                 -> [s EXCEPT !.at = "command", !.command = <<arg>>]
      [] OTHER                        -> [s EXCEPT !.at = "refused"]

(* As RecordStep below, reading the value of -o again as an argument.      *)
RecordStepRereads(s, arg) ==
    CASE s.at = "options" -> RecordOption(s, arg)
      [] s.at = "path"    -> RecordOption([s EXCEPT !.at = "options", !.path = arg], arg)
      [] s.at = "command" -> [s EXCEPT !.command = Append(@, arg)]
      [] s.at = "refused" -> s

RecordStep(s, arg) ==
    CASE s.at = "options" -> RecordOption(s, arg)
      [] s.at = "path"    -> [s EXCEPT !.at = "options", !.path = arg]
      [] s.at = "command" -> [s EXCEPT !.command = Append(@, arg)]
      [] s.at = "refused" -> s

ParseRecordOptions(args) ==
    LET after[i \in 0 .. Len(args)] ==
            IF i = 0 THEN [at |-> "options", path |-> Latest, command |-> <<>>]
            ELSE RecordStep(after[i - 1], args[i])
        s == after[Len(args)]
    IN  IF s.at \in {"path", "refused"} \/ s.path \in {"", "-"} \/ s.command = <<>>
        THEN Refused
        ELSE [ok |-> TRUE, path |-> s.path, command |-> s.command]

-----------------------------------------------------------------------------
(* parseRecordPath, of check.                                              *)
ParseRecordPath(args) ==
    LET rest == IF args # <<>> /\ args[1] = "--" THEN Tail(args) ELSE args
    IN  IF Len(rest) > 1 \/ (Len(rest) = 1 /\ Dashed(rest[1]) /\ rest[1] # "-")
        THEN Refused
        ELSE [ok |-> TRUE, path |-> IF rest = <<>> THEN Latest ELSE rest[1]]

-----------------------------------------------------------------------------
(* parseShowOptions.                                                       *)
ShowPath(s, arg) ==
    IF s.pathSet THEN [s EXCEPT !.at = "refused"]
    ELSE [s EXCEPT !.path = arg, !.pathSet = TRUE]

ShowOption(s, arg) ==
    CASE arg = "--"                 -> [s EXCEPT !.at = "paths"]
      [] arg = "--raw"              -> [s EXCEPT !.raw = TRUE]
      [] arg = "--format"           -> [s EXCEPT !.at = "format"]
      [] arg \in DOMAIN FormatValue -> [s EXCEPT !.format = FormatValue[arg]]
      [] ~Dashed(arg)               -> ShowPath(s, arg)
      [] OTHER                      -> [s EXCEPT !.at = "refused"]

(* As ShowStep below, rejecting --raw for the format read so far only.     *)
ShowStepEarly(s, arg) ==
    CASE s.at = "options" ->
            IF arg = "--raw" /\ s.format # "terminal" THEN [s EXCEPT !.at = "refused"]
            ELSE [ShowOption(s, arg) EXCEPT !.raw = FALSE]
      [] s.at = "format"  -> [s EXCEPT !.at = "options", !.format = arg]
      [] s.at = "paths"   -> ShowPath(s, arg)
      [] s.at = "refused" -> s

ShowStep(s, arg) ==
    CASE s.at = "options" -> ShowOption(s, arg)
      [] s.at = "format"  -> [s EXCEPT !.at = "options", !.format = arg]
      [] s.at = "paths"   -> ShowPath(s, arg)
      [] s.at = "refused" -> s

ParseShowOptions(args) ==
    LET after[i \in 0 .. Len(args)] ==
            IF i = 0 THEN [at |-> "options", path |-> Latest, pathSet |-> FALSE,
                           format |-> "terminal", raw |-> FALSE]
            ELSE ShowStep(after[i - 1], args[i])
        s == after[Len(args)]
    IN  IF \/ s.at \in {"format", "refused"}
           \/ s.format \notin {"terminal", "markdown"}
           \/ s.raw /\ s.format # "terminal"
        THEN Refused
        ELSE [ok |-> TRUE, path |-> s.path, format |-> s.format, raw |-> s.raw]
=============================================================================
