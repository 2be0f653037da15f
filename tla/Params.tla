-------------------------------- MODULE Params --------------------------------
(***************************************************************************)
(* utils::Params: the keys fixed by the default parameters, their values in *)
(* memory, and sniffer.prop, which save() truncates and rewrites line by    *)
(* line.  A value is a text in some pairs of double quotes; parseLine takes *)
(* the outermost pair away and save() puts none back.                       *)
(***************************************************************************)
EXTENDS Naturals, Sequences, SequencesExt

CONSTANTS KeyOrder,     \* m_keys: the keys of DEFAULT_PARAMS, in their order
          Defaults      \* the values of DEFAULT_PARAMS, by key

Keys == ToSet(KeyOrder)

ASSUME ParamsAssumption ==
    /\ KeyOrder \in Seq(STRING) /\ IsInjective(KeyOrder)
    /\ "no file" \notin Keys /\ Keys \subseteq DOMAIN Defaults

VARIABLES values,   \* m_values, by key
          file,     \* the lines of sniffer.prop, or NoFile
          writing   \* save() has the file open

NoFile == <<[key |-> "no file", val |-> [text |-> <<>>, quotes |-> 0]]>>

DefaultValues == [k \in Keys |-> [text |-> Defaults[k], quotes |-> 0]]

Unquote(val) == IF val.quotes > 0 THEN [val EXCEPT !.quotes = @ - 1] ELSE val

\* The lines that parseLine(line, false) takes for this key; one without a name, or with an
\* unknown one, changes nothing.
LinesOf(lines, k) == {i \in DOMAIN lines : lines[i].key = k}

\* parseAndSet, and the loop of load(): parseLine for line after line, each overwriting the
\* value of its key, so that a key's last line stays.
ParseAndSet(vals, lines) ==
    [k \in Keys |-> IF LinesOf(lines, k) = {} THEN vals[k] ELSE Unquote(lines[Max(LinesOf(lines, k))].val)]

\* the line save() and getAll() print for the i-th key
Line(i) == [key |-> KeyOrder[i], val |-> values[KeyOrder[i]]]

-----------------------------------------------------------------------------
(* save().  stdio may hand any prefix of the text to the system before fclose. *)

SaveOpen ==
    /\ ~writing
    /\ file' = <<>>
    /\ writing' = TRUE

SavePrint ==
    /\ writing /\ Len(file) < Len(KeyOrder)
    /\ file' = Append(file, Line(Len(file) + 1))
    /\ UNCHANGED writing

SaveClose ==
    /\ writing /\ Len(file) = Len(KeyOrder)
    /\ writing' = FALSE
    /\ UNCHANGED file

\* The file cannot be opened for writing; save() reports it and returns.
SaveFails == ~writing /\ UNCHANGED <<file, writing>>
=============================================================================
