-------------------------- MODULE MainServiceProofs --------------------------
(***************************************************************************)
(* The service across parameter updates, restarts and crashes, for any keys *)
(* and defaults, any payloads and files, and any number of commands and     *)
(* crashes: an accepted update is never forgotten, nobody is called back    *)
(* after its owner is gone, and a process that starts after a crash runs on *)
(* the parameters last saved whole, or on what the crash left of a save().  *)
(***************************************************************************)
EXTENDS MainService, SequenceTheorems, WellFoundedInduction, TLAPS

-----------------------------------------------------------------------------
(* The inductive invariant *)

\* Values in memory: one for each key, and no quotes left.
IsValues(vals) ==
    /\ vals = [k \in Keys |-> vals[k]]
    /\ \A k \in Keys : vals[k] = [text |-> vals[k].text, quotes |-> 0]

\* What a process that starts now would load.
BootValues == IF file = NoFile THEN DefaultValues ELSE ParseAndSet(DefaultValues, file)

Printed(n) == [i \in 1 .. n |-> Line(i)]

\* The parameters are read and written in one place at a time.
ControlInv ==
    /\ runpc \in {"init", "save", "enter", "create", "clear", "done"} => sniffer = "null"
    /\ runpc = "start" => sniffer = "made"
    /\ runpc \in {"check", "destroyWd", "destroyStop"} => sniffer = "up"
    /\ runpc \in {"destroyDelete", "stuck"} => sniffer = "stopping"
    /\ runpc \in {"loop", "finalWd", "finalStop"} => sniffer \in {"null", "up"}
    /\ runpc = "finalDelete" => sniffer \in {"null", "stopping"}
    /\ cmdpc # "idle" => sniffer \in {"up", "stopping"} /\ loaded
    /\ mainpc \in {"delete", "exit"} => runpc = "done"
    /\ runpc \in {"finalStop", "finalDelete", "done"} => ~watchdog
    /\ runpc = "init" => ~loaded

\* A Sniffer on old parameters has a restart coming, or the update is still under way.
ApplyInv ==
    sniffer \in {"made", "up"} /\ ~Current =>
        restart \/ runpc \in Destroying \/ cmdpc \in {"save", "request", "requestUnsaved"}

\* The file, while a save() is under way and otherwise.
FileInv ==
    /\ IsText(file)
    /\ runpc # "init" => lost = {}
    /\ runpc = "save" => values = DefaultValues /\ kept = DefaultValues
    /\ writing => /\ cmdpc = "save" \/ runpc = "save"
                  /\ \E n \in 0 .. Len(KeyOrder) : file = Printed(n)
    /\ ~writing /\ cmdpc = "request" => BootValues = values
    /\ ~writing /\ cmdpc # "request" => BootValues = kept \/ \E vals \in lost : CutShort(vals, BootValues)

IInv == TypeOK /\ IsValues(values) /\ ControlInv /\ ApplyInv /\ FileInv

-----------------------------------------------------------------------------
(* Reading and writing text *)

\* A set of line numbers has a largest one.
LEMMA LastLine ==
    ASSUME NEW n \in Nat, NEW S, S \subseteq 1 .. n, S # {}
    PROVE  Max(S) \in S /\ \A i \in S : Max(S) >= i
<1> DEFINE T == {n - i : i \in S}
           R == OpToRel(<, Nat)
<1>1. T \subseteq Nat /\ T # {}
  <2>1. \A i \in S : n - i \in Nat
    OBVIOUS
  <2> QED
    BY <2>1
<1>2. \E x \in T : \A y \in T : ~(<<y, x>> \in R)
  <2> HIDE DEF T
  <2> QED
    BY <1>1, NatLessThanWellFounded, WFMin
<1>3. PICK x \in T : \A y \in T : ~(y < x)
  BY <1>1, <1>2 DEF OpToRel
<1>4. \E m \in S : \A i \in S : m >= i
  BY <1>3
<1> QED
  BY <1>4 DEF Max

\* The keys are named by KeyOrder, each once.
LEMMA KeyNames ==
    /\ Len(KeyOrder) \in Nat /\ DOMAIN KeyOrder = 1 .. Len(KeyOrder)
    /\ \A i \in 1 .. Len(KeyOrder) : KeyOrder[i] \in Keys
    /\ \A k \in Keys : \E i \in 1 .. Len(KeyOrder) : k = KeyOrder[i]
    /\ \A i, j \in 1 .. Len(KeyOrder) : KeyOrder[i] = KeyOrder[j] => i = j
<1>1. Len(KeyOrder) \in Nat /\ DOMAIN KeyOrder = 1 .. Len(KeyOrder)
  BY ParamsAssumption, LenProperties
<1>2. Keys = {KeyOrder[i] : i \in 1 .. Len(KeyOrder)}
  BY <1>1 DEF Keys, ToSet
<1>3. \A i, j \in 1 .. Len(KeyOrder) : KeyOrder[i] = KeyOrder[j] => i = j
  BY <1>1, ParamsAssumption, Zenon DEF IsInjective
<1> QED
  BY <1>1, <1>2, <1>3

\* DEFAULT_PARAMS are values.
LEMMA DefaultsAreValues == IsValues(DefaultValues)
BY DEF IsValues, DefaultValues

\* update() and load() make values of values, whatever lines they are given.
LEMMA ParseGivesValues ==
    ASSUME NEW vals, IsValues(vals), NEW lines, IsText(lines)
    PROVE  IsValues(ParseAndSet(vals, lines))
<1> DEFINE new == ParseAndSet(vals, lines)
<1>1. new = [k \in Keys |-> new[k]]
  BY DEF ParseAndSet
<1>2. ASSUME NEW k \in Keys PROVE new[k] = [text |-> new[k].text, quotes |-> 0]
  <2>1. CASE LinesOf(lines, k) = {}
    BY <2>1 DEF ParseAndSet, IsValues
  <2>2. CASE LinesOf(lines, k) # {}
    <3> DEFINE v == lines[Max(LinesOf(lines, k))].val
    <3>1. Max(LinesOf(lines, k)) \in DOMAIN lines
      BY <2>2, LastLine DEF LinesOf, IsText
    <3>2. v = [text |-> v.text, quotes |-> v.quotes] /\ v.quotes \in 0 .. 1
      BY <3>1 DEF IsText
    <3>3. new[k] = Unquote(v)
      BY <2>2 DEF ParseAndSet
    <3> HIDE DEF v, new
    <3> QED
      BY <3>2, <3>3 DEF Unquote
  <2> QED
    BY <2>1, <2>2
<1> QED
  BY <1>1, <1>2 DEF IsValues

\* What save() has printed are n lines.
LEMMA PrintedLines ==
    ASSUME NEW n \in Nat
    PROVE  /\ Printed(n) \in Seq({Line(i) : i \in Nat})
           /\ Len(Printed(n)) = n /\ DOMAIN Printed(n) = 1 .. n
           /\ \A i \in 1 .. n : Printed(n)[i] = Line(i)
<1> DEFINE S == {Line(i) : i \in Nat}
<1>1. Printed(n) \in [1 .. n -> S] /\ \A i \in 1 .. n : Printed(n)[i] = Line(i)
  BY DEF Printed
<1> HIDE DEF S
<1>2. Printed(n) \in Seq(S)
  BY <1>1, SeqDef
<1>3. Len(Printed(n)) \in Nat /\ DOMAIN Printed(n) = 1 .. Len(Printed(n)) /\ DOMAIN Printed(n) = 1 .. n
  BY <1>1, <1>2, LenProperties
<1> QED
  BY <1>1, <1>2, <1>3 DEF S

\* One more fprintf.
LEMMA PrintedAppend ==
    ASSUME NEW n \in Nat
    PROVE  Append(Printed(n), Line(n + 1)) = Printed(n + 1)
<1> DEFINE S == {Line(i) : i \in Nat}
           a == Append(Printed(n), Line(n + 1))
           b == Printed(n + 1)
<1>1. Line(n + 1) \in S
  OBVIOUS
<1>2. Printed(n) \in Seq(S) /\ Len(Printed(n)) = n /\ \A i \in 1 .. n : Printed(n)[i] = Line(i)
  BY PrintedLines
<1>3. b \in Seq(S) /\ Len(b) = n + 1 /\ \A i \in 1 .. n + 1 : b[i] = Line(i)
  <2>1. n + 1 \in Nat
    OBVIOUS
  <2> QED
    BY <2>1, PrintedLines, Zenon
<1> HIDE DEF S
<1>4. /\ a \in Seq(S) /\ Len(a) = n + 1
      /\ \A i \in 1 .. n : a[i] = Line(i)
      /\ a[n + 1] = Line(n + 1)
  BY <1>1, <1>2, AppendProperties
<1>5. \A i \in 1 .. n + 1 : a[i] = b[i]
  BY <1>3, <1>4
<1> HIDE DEF a, b
<1>6. a = b
  BY <1>3, <1>4, <1>5, SeqEqual
<1> QED
  BY <1>6 DEF a, b

\* The n-th line holds the n-th key and its value.
LEMMA LineOfKey ==
    ASSUME IsValues(values), NEW i \in 1 .. Len(KeyOrder)
    PROVE  /\ KeyOrder[i] \in Keys
           /\ Line(i).key = KeyOrder[i] /\ Line(i).val = values[KeyOrder[i]]
           /\ Line(i).val = [text |-> Line(i).val.text, quotes |-> 0] /\ Line(i).val.quotes = 0
<1>1. KeyOrder[i] \in Keys
  BY KeyNames
<1>2. values[KeyOrder[i]] = [text |-> values[KeyOrder[i]].text, quotes |-> 0]
  BY <1>1 DEF IsValues
<1>3. Line(i).key = KeyOrder[i] /\ Line(i).val = values[KeyOrder[i]]
  BY DEF Line
<1>4. values[KeyOrder[i]].quotes = 0
  BY <1>2
<1> QED
  BY <1>1, <1>2, <1>3, <1>4

\* What save() prints can be read again.
LEMMA PrintedIsText ==
    ASSUME IsValues(values), NEW n \in 0 .. Len(KeyOrder)
    PROVE  IsText(Printed(n))
<1> DEFINE f == Printed(n)
<1>0. n \in Nat /\ n <= Len(KeyOrder) /\ Len(KeyOrder) \in Nat
  BY KeyNames
<1>1. Len(f) = n /\ DOMAIN f = 1 .. n /\ \A i \in 1 .. n : f[i] = Line(i)
  BY <1>0, PrintedLines
<1> HIDE DEF f
<1>2. \A i \in 1 .. n : i \in 1 .. Len(KeyOrder)
  BY <1>0
<1>3. \A i \in 1 .. n : f[i].val = [text |-> f[i].val.text, quotes |-> 0] /\ f[i].val.quotes = 0
  BY <1>1, <1>2, LineOfKey, Zenon
<1>4. \A i \in 1 .. n : f[i].val = [text |-> f[i].val.text, quotes |-> f[i].val.quotes]
  BY <1>3, Zenon
<1>5. \A i \in 1 .. n : f[i].val.quotes \in 0 .. 1
  <2>1. 0 \in 0 .. 1
    OBVIOUS
  <2> QED
    BY <1>3, <2>1, Zenon
<1>6. Len(f) \in Nat /\ DOMAIN f = 1 .. Len(f)
  BY <1>0, <1>1
<1>7. IsText(f)
  BY <1>1, <1>4, <1>5, <1>6, Zenon DEF IsText
<1> QED
  BY <1>7 DEF f

\* The lines save() has printed, loaded over the defaults: the keys that were reached have
\* the values in memory, the others fall back.
LEMMA PrintedIsCutShort ==
    ASSUME IsValues(values), NEW n \in 0 .. Len(KeyOrder), file = Printed(n)
    PROVE  /\ IsText(file) /\ Len(file) = n
           /\ CutShort(values, BootValues)
           /\ n = Len(KeyOrder) => BootValues = values
<1> DEFINE N == Len(KeyOrder)
<1>0. N \in Nat /\ n \in Nat /\ n <= N
  BY KeyNames
<1>1. Len(file) = n /\ DOMAIN file = 1 .. n /\ \A i \in 1 .. n : file[i] = Line(i)
  BY <1>0, PrintedLines
<1>2. ASSUME NEW i \in 1 .. N
      PROVE  /\ KeyOrder[i] \in Keys
             /\ Line(i).key = KeyOrder[i] /\ Line(i).val = values[KeyOrder[i]] /\ Line(i).val.quotes = 0
  BY LineOfKey
<1>3. IsText(file)
  BY PrintedIsText
<1>4. file # NoFile
  <2>1. NoFile[1].key \notin Keys /\ Len(NoFile) = 1
    BY ParamsAssumption DEF NoFile
  <2>2. ASSUME file = NoFile PROVE FALSE
    <3>1. 1 \in 1 .. n /\ 1 \in 1 .. N
      BY <1>0, <1>1, <2>1, <2>2
    <3>2. file[1].key \in Keys
      BY <1>1, <1>2, <3>1, Zenon
    <3> QED
      BY <2>1, <2>2, <3>2, Zenon
  <2> QED
    BY <2>2
<1>5. ASSUME NEW i \in 1 .. N
      PROVE  BootValues[KeyOrder[i]] = IF i <= n THEN values[KeyOrder[i]] ELSE DefaultValues[KeyOrder[i]]
  <2> DEFINE k == KeyOrder[i]
  <2>1. \A j \in 1 .. n : file[j].key = k <=> j = i
    <3>1. \A j \in 1 .. n : j \in 1 .. N
      BY <1>0
    <3>2. \A j \in 1 .. n : file[j].key = KeyOrder[j]
      BY <1>1, <1>2, <3>1, Zenon
    <3>3. \A j \in 1 .. N : KeyOrder[j] = KeyOrder[i] => j = i
      BY <1>5, KeyNames, Zenon
    <3> QED
      BY <3>1, <3>2, <3>3, Zenon
  <2>2. LinesOf(file, k) = IF i <= n THEN {i} ELSE {}
    BY <1>0, <1>1, <2>1 DEF LinesOf
  <2>3. BootValues[k] = IF LinesOf(file, k) = {} THEN DefaultValues[k]
                        ELSE Unquote(file[Max(LinesOf(file, k))].val)
    BY <1>2, <1>4 DEF BootValues, ParseAndSet
  <2>4. CASE i <= n
    <3>1. Max({i}) = i
      <4>1. {i} \subseteq 1 .. N /\ {i} # {}
        OBVIOUS
      <4> QED
        BY <1>0, <4>1, LastLine
    <3>2. file[i] = Line(i)
      BY <1>0, <1>1, <2>4
    <3>3. BootValues[k] = Unquote(Line(i).val)
      BY <2>2, <2>3, <2>4, <3>1, <3>2
    <3>4. ~(Line(i).val.quotes > 0) /\ Line(i).val = values[k]
      <4>1. ~(0 > 0)
        OBVIOUS
      <4> QED
        BY <1>2, <4>1, Zenon
    <3> QED
      BY <2>4, <3>3, <3>4, Zenon DEF Unquote
  <2>5. CASE ~(i <= n)
    BY <2>2, <2>3, <2>5
  <2> QED
    BY <2>4, <2>5
<1>6. CutShort(values, BootValues)
  BY <1>5 DEF CutShort
<1>7. ASSUME n = N PROVE BootValues = values
  <2>1. BootValues = [k \in Keys |-> BootValues[k]]
    BY <1>4 DEF BootValues, ParseAndSet
  <2>2. \A i \in 1 .. N : BootValues[KeyOrder[i]] = values[KeyOrder[i]]
    BY <1>0, <1>5, <1>7
  <2>3. \A k \in Keys : BootValues[k] = values[k]
    BY <2>2, KeyNames
  <2>4. values = [k \in Keys |-> values[k]]
    BY DEF IsValues
  <2> HIDE DEF BootValues
  <2> QED
    BY <2>1, <2>3, <2>4
<1> QED
  BY <1>1, <1>3, <1>6, <1>7

\* A process always finds values to start with.
LEMMA BootValuesAreValues ==
    ASSUME IsText(file)
    PROVE  IsValues(BootValues)
BY DefaultsAreValues, ParseGivesValues DEF BootValues

-----------------------------------------------------------------------------
(* Every step keeps every part of the invariant *)

\* A service whose process starts for the first time.
LEMMA InitIInv == Init => IInv
<1> SUFFICES ASSUME Init PROVE IInv
  OBVIOUS
<1>1. IsText(file)
  <2>1. CASE file = NoFile
    <3>1. Len(NoFile) = 1 /\ DOMAIN NoFile = 1 .. 1 /\ NoFile[1].val = [text |-> <<>>, quotes |-> 0]
      <4> DEFINE l == [key |-> "no file", val |-> [text |-> <<>>, quotes |-> 0]]
      <4>1. l.val = [text |-> <<>>, quotes |-> 0] /\ NoFile = <<l>>
        BY DEF NoFile
      <4> HIDE DEF l
      <4>2. Len(<<l>>) = 1 /\ DOMAIN <<l>> = 1 .. 1 /\ <<l>>[1] = l
        OBVIOUS
      <4> QED
        BY <4>1, <4>2
    <3>2. NoFile[1].val.quotes = 0 /\ NoFile[1].val.text = <<>>
      BY <3>1
    <3> HIDE DEF NoFile
    <3> QED
      BY <2>1, <3>1, <3>2 DEF IsText
  <2>2. CASE file \in InitialFiles
    BY <2>2, ServiceAssumption
  <2> QED
    BY <2>1, <2>2 DEF Init
<1>2. IsValues(values)
  BY DefaultsAreValues DEF Init
<1>3. TypeOK
  <2>1. /\ keepRunning \in BOOLEAN /\ running \in BOOLEAN /\ restart \in BOOLEAN /\ loaded \in BOOLEAN
        /\ early \in BOOLEAN /\ watchdog \in BOOLEAN /\ writing \in BOOLEAN
    BY Zenon DEF Init
  <2>2. DOMAIN values = Keys /\ \A k \in Keys : values[k].quotes = 0
    BY DEF Init, DefaultValues
  <2>3. \A i \in DOMAIN file : file[i].val.quotes \in 0 .. 1
    BY <1>1 DEF IsText
  <2> QED
    BY <2>1, <2>2, <2>3, ServiceAssumption DEF Init, TypeOK
<1>4. ControlInv /\ ApplyInv
  BY DEF Init, ControlInv, ApplyInv
<1>5. FileInv
  BY <1>1 DEF Init, FileInv, BootValues
<1> QED
  BY <1>2, <1>3, <1>4, <1>5 DEF IInv

\* Every step leaves values in memory, and every parameter set is complete.
LEMMA ValuesStep ==
    ASSUME IInv, Next
    PROVE  IsValues(values')
<1>1. IsValues(values) /\ IsText(file)
  BY DEF IInv, FileInv
<1>2. CASE values' = values
  BY <1>1, <1>2
<1>3. CASE RunLoad
  <2>1. values' = BootValues
    BY <1>3 DEF RunLoad, BootValues
  <2> QED
    BY <1>1, <2>1, BootValuesAreValues
<1>4. CASE CommandUpdate
  BY <1>1, <1>4, ServiceAssumption, ParseGivesValues DEF CommandUpdate
<1>5. CASE Crash
  BY <1>5, DefaultsAreValues DEF Crash, Boot
<1> QED
  BY <1>2, <1>3, <1>4, <1>5 DEF Next, Signal, MainStop, MainJoin, MainDelete, Run, RunSave, RunEnter, RunLoop,
     RunCreate, RunStart, RunCheck, RunClear, RunGoto, DestroyWatchdog, DestroyStop, DestroyDelete, StopHangs,
     CommandArrives, Handler, CommandSave, CommandRequest, CommandAnswer, Finished, paramVars, vars

\* The threads stay in step.
LEMMA ControlStep ==
    ASSUME IInv, Next
    PROVE  ControlInv'
<1> USE DEF IInv, TypeOK, ControlInv, mainVars, runVars
<1>1. CASE Signal \/ MainStop \/ MainJoin \/ MainDelete \/ Finished
  BY <1>1 DEF Signal, MainStop, MainJoin, MainDelete, Finished, vars
<1>2. CASE Crash
  BY <1>2 DEF Crash, Boot
<1>3. CASE RunLoad \/ RunSave \/ RunEnter \/ RunLoop \/ RunCreate \/ RunStart
  BY <1>3 DEF RunLoad, RunSave, RunEnter, RunLoop, RunGoto, RunCreate, RunStart
<1>4. CASE RunCheck \/ RunClear \/ DestroyWatchdog \/ DestroyStop \/ DestroyDelete \/ StopHangs
  BY <1>4 DEF RunCheck, RunGoto, RunClear, DestroyWatchdog, DestroyStop, DestroyDelete, StopHangs
<1>5. CASE CommandArrives \/ Handler
  BY <1>5 DEF CommandArrives, Handler, CommandUpdate, CommandSave, CommandRequest, CommandAnswer
<1> QED
  BY <1>1, <1>2, <1>3, <1>4, <1>5 DEF Next, Run

\* An update is not forgotten by any step.
LEMMA ApplyStep ==
    ASSUME IInv, Next
    PROVE  ApplyInv'
<1> USE DEF IInv, TypeOK, ControlInv, ApplyInv, Current, Destroying, mainVars, runVars, paramVars
<1>1. CASE Signal \/ MainStop \/ MainJoin \/ MainDelete \/ Finished
  BY <1>1 DEF Signal, MainStop, MainJoin, MainDelete, Finished, vars
<1>2. CASE Crash
  BY <1>2 DEF Crash, Boot
<1>3. CASE RunLoad \/ RunSave \/ RunEnter \/ RunLoop \/ RunCreate \/ RunStart
  BY <1>3 DEF RunLoad, RunSave, RunEnter, RunLoop, RunGoto, RunCreate, RunStart
<1>4. CASE RunCheck \/ RunClear \/ DestroyWatchdog \/ DestroyStop \/ DestroyDelete \/ StopHangs
  BY <1>4 DEF RunCheck, RunGoto, RunClear, DestroyWatchdog, DestroyStop, DestroyDelete, StopHangs
<1>5. CASE CommandArrives \/ Handler
  BY <1>5 DEF CommandArrives, Handler, CommandUpdate, CommandSave, CommandRequest, CommandAnswer
<1> QED
  BY <1>1, <1>2, <1>3, <1>4, <1>5 DEF Next, Run

\* save(), called by load() or by update(): as long as it is under way the file holds the lines
\* printed so far, and when it is closed all of them.
LEMMA SaveStep ==
    ASSUME IsValues(values), IsText(file), UNCHANGED values,
           writing => \E n \in 0 .. Len(KeyOrder) : file = Printed(n)
    PROVE  /\ SaveOpen \/ SavePrint =>
                 writing' /\ IsText(file') /\ \E n \in 0 .. Len(KeyOrder) : file' = Printed(n)'
           /\ SaveClose => ~writing' /\ file' = file /\ IsText(file) /\ BootValues = values
<1>1. Len(KeyOrder) \in Nat
  BY KeyNames
<1>2. \A n \in Nat : Printed(n)' = Printed(n)
  BY DEF Printed, Line
<1>3. ASSUME NEW n \in 0 .. Len(KeyOrder), file' = Printed(n)' PROVE IsText(file')
  <2>1. file' = Printed(n)
    BY <1>1, <1>2, <1>3
  <2>2. IsText(Printed(n))
    BY PrintedIsText
  <2> QED
    BY <2>1, <2>2
<1>4. CASE SaveOpen
  <2>1. Printed(0) = <<>>
    BY DEF Printed
  <2>2. file' = Printed(0)' /\ writing'
    BY <1>2, <1>4, <2>1 DEF SaveOpen
  <2> QED
    BY <1>1, <1>3, <1>4, <2>2 DEF SaveOpen, SaveClose
<1>5. CASE SavePrint
  <2>1. PICK n \in 0 .. Len(KeyOrder) : file = Printed(n)
    BY <1>5 DEF SavePrint
  <2>2. n \in Nat /\ Len(file) = n
    <3>1. n \in Nat
      BY <1>1
    <3> QED
      BY <2>1, <3>1, PrintedLines
  <2>3. n + 1 \in 0 .. Len(KeyOrder)
    BY <1>1, <1>5, <2>2 DEF SavePrint
  <2>4. Append(Printed(n), Line(n + 1)) = Printed(n + 1)
    BY <2>2, PrintedAppend
  <2>5. file' = Printed(n + 1)' /\ writing'
    BY <1>2, <1>5, <2>1, <2>2, <2>4 DEF SavePrint
  <2> QED
    BY <1>3, <1>5, <2>3, <2>5 DEF SavePrint, SaveClose
<1>6. CASE SaveClose
  <2>1. PICK n \in 0 .. Len(KeyOrder) : file = Printed(n)
    BY <1>6 DEF SaveClose
  <2>2. n = Len(KeyOrder)
    BY <1>6, <2>1, PrintedIsCutShort DEF SaveClose
  <2>3. BootValues = values
    BY <2>1, <2>2, PrintedIsCutShort
  <2> QED
    BY <1>6, <2>3 DEF SaveClose, SaveOpen, SavePrint
<1> QED
  BY <1>4, <1>5, <1>6

\* The file and the parameters last saved whole, through updates, restarts and crashes.
LEMMA FileStep ==
    ASSUME IInv, Next
    PROVE  FileInv'
<1> USE DEF IInv, FileInv
<1>1. ASSUME UNCHANGED <<paramVars, kept, lost, cmdpc>>,
             runpc' = runpc \/ {runpc, runpc'} \cap {"init", "save"} = {}
      PROVE  FileInv'
  <2>1. BootValues' = BootValues
    BY <1>1 DEF BootValues, paramVars
  <2>2. writing => \E n \in 0 .. Len(KeyOrder) : file' = Printed(n)'
    BY <1>1 DEF Printed, Line, paramVars
  <2> HIDE DEF IInv
  <2>3. FileInv
    BY DEF IInv
  <2> QED
    BY <1>1, <2>1, <2>2, <2>3 DEF paramVars
<1>2. CASE Signal \/ MainStop \/ MainJoin \/ MainDelete \/ Finished
  BY <1>1, <1>2 DEF Signal, MainStop, MainJoin, MainDelete, Finished, vars, runVars, history
<1>3. CASE RunEnter \/ RunLoop \/ RunCreate \/ RunStart \/ RunCheck \/ RunClear
  <2>1. UNCHANGED <<paramVars, kept, lost, cmdpc>> /\ {runpc, runpc'} \cap {"init", "save"} = {}
    BY <1>3 DEF RunEnter, RunLoop, RunCreate, RunStart, RunCheck, RunClear, RunGoto, history
  <2> QED
    BY <1>1, <2>1
<1>4. CASE DestroyWatchdog \/ DestroyStop \/ DestroyDelete \/ StopHangs
  <2>1. UNCHANGED <<paramVars, kept, lost, cmdpc>> /\ {runpc, runpc'} \cap {"init", "save"} = {}
    BY <1>4 DEF DestroyWatchdog, DestroyStop, DestroyDelete, StopHangs, history
  <2> QED
    BY <1>1, <2>1
<1>5. CASE RunLoad
  <2>1. UNCHANGED <<file, writing, cmdpc>> /\ kept' = BootValues /\ values' = BootValues /\ lost' = {}
    BY <1>5 DEF RunLoad, BootValues
  <2>2. BootValues' = BootValues
    BY <2>1 DEF BootValues
  <2>3. ~writing /\ cmdpc = "idle"
    BY <1>5 DEF RunLoad, ControlInv
  <2>4. runpc' = "save" => BootValues = DefaultValues
    BY <1>5 DEF RunLoad, BootValues
  <2> QED
    BY <2>1, <2>2, <2>3, <2>4
<1>6. CASE RunSave
  <2>1. /\ UNCHANGED <<values, kept, lost, cmdpc>> /\ values = DefaultValues /\ kept = DefaultValues
        /\ cmdpc = "idle" /\ lost = {} /\ runpc = "save"
    BY <1>6 DEF RunSave, history, ControlInv
  <2>2. CASE (SaveOpen \/ SavePrint) /\ UNCHANGED runpc
    BY <2>1, <2>2, SaveStep
  <2>3. CASE SaveClose /\ runpc' = "enter"
    <3>1. file' = file /\ ~writing' /\ BootValues = values
      BY <2>1, <2>3, SaveStep
    <3>2. BootValues' = BootValues
      BY <3>1 DEF BootValues
    <3> QED
      BY <2>1, <2>3, <3>1, <3>2
  <2>4. CASE SaveFails /\ runpc' = "enter"
    <3>1. BootValues' = BootValues
      BY <2>4 DEF SaveFails, BootValues
    <3> QED
      BY <2>1, <2>4, <3>1 DEF SaveFails
  <2> QED
    BY <1>6, <2>2, <2>3, <2>4 DEF RunSave
<1>7. CASE Crash
  <2>1. /\ runpc' = "init" /\ ~writing' /\ cmdpc' = "idle" /\ UNCHANGED <<file, kept>>
        /\ lost' = IF cmdpc \in {"save", "request"} \/ runpc = "save" THEN {values} ELSE lost
    BY <1>7 DEF Crash, Boot
  <2>2. BootValues' = BootValues
    BY <2>1 DEF BootValues
  <2>3. BootValues = kept \/ \E vals \in lost' : CutShort(vals, BootValues)
    <3>1. CASE writing
      BY <2>1, <3>1, PrintedIsCutShort
    <3>2. CASE ~writing /\ cmdpc = "request"
      <4>1. CutShort(values, values)
        <5>1. /\ Len(KeyOrder) \in 0 .. Len(KeyOrder)
              /\ \A i \in 1 .. Len(KeyOrder) : i <= Len(KeyOrder)
          BY KeyNames
        <5> QED
          BY <5>1 DEF CutShort
      <4> QED
        BY <2>1, <3>2, <4>1
    <3>3. CASE ~writing /\ cmdpc # "request"
      BY <2>1, <3>3 DEF ControlInv
    <3> QED
      BY <3>1, <3>2, <3>3
  <2>4. \A vals \in lost' : CutShort(vals, BootValues)' <=> CutShort(vals, BootValues)
    BY <2>2 DEF CutShort
  <2> QED
    BY <2>1, <2>2, <2>3, <2>4
<1>8. CASE CommandArrives \/ CommandUpdate \/ CommandAnswer
  <2>1. UNCHANGED <<file, writing, kept, lost, runpc>> /\ ~writing /\ {cmdpc, cmdpc'} \cap {"request"} = {}
    BY <1>8 DEF CommandArrives, CommandUpdate, CommandAnswer, ControlInv, paramVars, runVars, history
  <2>2. BootValues' = BootValues /\ runpc # "save"
    BY <1>8, <2>1 DEF BootValues, CommandArrives, CommandUpdate, CommandAnswer, ControlInv
  <2> QED
    BY <2>1, <2>2 DEF CutShort
<1>9. CASE CommandSave
  <2>1. UNCHANGED <<values, kept, lost, runpc>> /\ cmdpc = "save" /\ runpc \notin {"init", "save"} /\ lost = {}
    BY <1>9 DEF CommandSave, ControlInv, runVars, history
  <2>2. CASE (SaveOpen \/ SavePrint) /\ UNCHANGED cmdpc
    BY <2>1, <2>2, SaveStep
  <2>3. CASE SaveClose /\ cmdpc' = "request"
    <3>1. file' = file /\ ~writing' /\ BootValues = values
      BY <2>1, <2>3, SaveStep
    <3>2. BootValues' = BootValues
      BY <3>1 DEF BootValues
    <3> QED
      BY <2>1, <2>3, <3>1, <3>2
  <2>4. CASE SaveFails /\ cmdpc' = "requestUnsaved"
    <3>1. BootValues' = BootValues
      BY <2>4 DEF SaveFails, BootValues
    <3> QED
      BY <2>1, <2>4, <3>1 DEF SaveFails
  <2> QED
    BY <1>9, <2>2, <2>3, <2>4 DEF CommandSave
<1>10. CASE CommandRequest
  <2>1. /\ UNCHANGED <<values, file, writing, lost, runpc>> /\ runpc \notin {"init", "save"}
        /\ kept' = IF cmdpc = "request" THEN values ELSE kept
        /\ cmdpc \in {"request", "requestUnsaved"} /\ cmdpc' = "idle" /\ ~writing
    BY <1>10 DEF CommandRequest, ControlInv, paramVars, runVars
  <2>2. BootValues' = BootValues
    BY <2>1 DEF BootValues
  <2> QED
    BY <2>1, <2>2
<1> QED
  BY <1>2, <1>3, <1>4, <1>5, <1>6, <1>7, <1>8, <1>9, <1>10 DEF Next, Run, Handler

\* Every step keeps the types.
LEMMA TypeStep ==
    ASSUME IInv, Next, IsValues(values'), IsText(file')
    PROVE  TypeOK'
<1>1. DOMAIN values' = Keys /\ \A k \in Keys : values'[k].quotes = 0
  <2>1. values' = [k \in Keys |-> values'[k]]
    BY DEF IsValues
  <2>2. \A k \in Keys : values'[k] = [text |-> values'[k].text, quotes |-> 0]
    BY DEF IsValues
  <2> QED
    BY <2>1, <2>2
<1>2. \A i \in DOMAIN file' : file'[i].val.quotes \in 0 .. 1
  BY DEF IsText
<1> DEFINE Flags == /\ keepRunning \in BOOLEAN /\ running \in BOOLEAN /\ restart \in BOOLEAN
                    /\ loaded \in BOOLEAN /\ early \in BOOLEAN /\ watchdog \in BOOLEAN
                    /\ writing \in BOOLEAN
           Control == /\ mainpc \in {"wait", "join", "delete", "exit"}
                      /\ runpc \in {"init", "save", "enter", "loop", "create", "start", "check",
                                    "clear", "done"} \cup Destroying
                                       \cup {"finalWd", "finalStop", "finalDelete"}
                                       \cup {"stuck"}
                      /\ sniffer \in {"null", "made", "up", "stopping"}
                      /\ cmdpc \in {"idle", "update", "save", "request", "requestUnsaved", "answer"}
                      /\ updates \in 0 .. MaxUpdates /\ crashes \in 0 .. MaxCrashes
<1>3. Flags /\ Control
  BY DEF IInv, TypeOK
<1> USE <1>3 DEF mainVars, paramVars, runVars, history, RunGoto, SaveOpen, SavePrint, SaveClose, SaveFails
<1>4. Flags'
  <2>1. CASE Signal \/ MainJoin \/ MainDelete \/ Finished
    BY <2>1, Zenon DEF Signal, MainJoin, MainDelete, Finished, vars
  <2>6. CASE MainStop
    <3>1. early' \in BOOLEAN
      BY <2>6 DEF MainStop
    <3> QED
      BY <2>6, <3>1, Zenon DEF MainStop
  <2>2. CASE Crash
    BY <2>2, Zenon DEF Crash, Boot
  <2>3. CASE RunLoad \/ RunSave \/ RunEnter \/ RunLoop \/ RunCreate \/ RunStart
    BY <2>3, Zenon DEF RunLoad, RunSave, RunEnter, RunLoop, RunCreate, RunStart
  <2>4. CASE RunCheck \/ RunClear \/ DestroyWatchdog \/ DestroyStop \/ DestroyDelete \/ StopHangs
    BY <2>4, Zenon DEF RunCheck, RunClear, DestroyWatchdog, DestroyStop, DestroyDelete, StopHangs
  <2>5. CASE CommandArrives \/ Handler
    BY <2>5, Zenon DEF CommandArrives, Handler, CommandUpdate, CommandSave, CommandRequest, CommandAnswer
  <2> QED
    BY <2>1, <2>2, <2>3, <2>4, <2>5, <2>6 DEF Next, Run
<1>5. Control'
  <2> USE ServiceAssumption DEF Destroying
  <2>1. CASE Signal \/ MainStop \/ MainJoin \/ MainDelete \/ Finished
    BY <2>1 DEF Signal, MainStop, MainJoin, MainDelete, Finished, vars
  <2>2. CASE Crash
    BY <2>2 DEF Crash, Boot
  <2>3. CASE RunLoad \/ RunSave \/ RunEnter \/ RunLoop \/ RunCreate \/ RunStart
    BY <2>3 DEF RunLoad, RunSave, RunEnter, RunLoop, RunCreate, RunStart
  <2>4. CASE RunCheck \/ RunClear \/ DestroyWatchdog \/ DestroyStop \/ DestroyDelete \/ StopHangs
    BY <2>4 DEF RunCheck, RunClear, DestroyWatchdog, DestroyStop, DestroyDelete, StopHangs
  <2>5. CASE CommandArrives \/ Handler
    BY <2>5 DEF CommandArrives, Handler, CommandUpdate, CommandSave, CommandRequest, CommandAnswer
  <2> QED
    BY <2>1, <2>2, <2>3, <2>4, <2>5 DEF Next, Run
<1> QED
  BY <1>1, <1>2, <1>4, <1>5 DEF TypeOK

\* No step of any thread, no signal and no crash breaks the invariant.
LEMMA NextIInv == IInv /\ [Next]_vars => IInv'
<1> SUFFICES ASSUME IInv, [Next]_vars PROVE IInv'
  OBVIOUS
<1>1. CASE Next
  <2>1. IsValues(values') /\ ControlInv' /\ ApplyInv' /\ FileInv'
    BY <1>1, ValuesStep, ControlStep, ApplyStep, FileStep
  <2>2. TypeOK'
    BY <1>1, <2>1, TypeStep DEF FileInv
  <2> QED
    BY <2>1, <2>2 DEF IInv
<1>2. CASE UNCHANGED vars
  <2> USE <1>2 DEF vars, mainVars, paramVars, runVars, history
  <2>1. TypeOK'
    BY DEF IInv, TypeOK
  <2>4. IsValues(values')
    BY Zenon DEF IInv
  <2>2. ControlInv' /\ ApplyInv'
    BY DEF IInv, ControlInv, ApplyInv, Current
  <2>3. FileInv'
    BY DEF IInv, FileInv, BootValues, Printed, Line
  <2> QED
    BY <2>1, <2>2, <2>3, <2>4 DEF IInv
<1> QED
  BY <1>1, <1>2

-----------------------------------------------------------------------------
(* The theorems *)

\* The invariant holds of every service, through any number of commands and crashes.
THEOREM InductiveInvariant == Spec => []IInv
BY InitIInv, NextIInv, PTL DEF Spec

\* An accepted update always has a restart coming, also one that arrives during a restart.
THEOREM UpdateNotForgotten == Spec => []NoUpdateForgotten
<1>1. IInv => NoUpdateForgotten
  BY DEF IInv, ApplyInv, NoUpdateForgotten
<1> QED
  BY <1>1, InductiveInvariant, PTL

\* A command handler has a Sniffer and parameters to work on, which nobody else touches, and
\* nothing outlives the MainService that main() deletes.
THEOREM NoOrphanHandler == Spec => []HandlerHasOwner
<1>1. IInv => HandlerHasOwner
  BY DEF IInv, ControlInv, TypeOK, HandlerHasOwner
<1> QED
  BY <1>1, InductiveInvariant, PTL

\* A process that starts after a crash, at whatever step it came, runs on the parameters last
\* saved whole, or on the part of them that the crash let save() write.
THEOREM CrashLosesNothingElse == Spec => BootRestores
<1> DEFINE A == runpc = "init" /\ loaded' => values' = kept \/ \E vals \in lost : CutShort(vals, values')
<1>1. IInv /\ [Next]_vars => [A]_vars
  <2> SUFFICES ASSUME IInv, Next, runpc = "init", loaded'
               PROVE  values' = kept \/ \E vals \in lost : CutShort(vals, values')
    OBVIOUS
  <2>1. cmdpc = "idle" /\ ~writing
    BY DEF IInv, ControlInv, FileInv
  <2>2. CASE RunLoad
    <3>1. values' = BootValues
      BY <2>2 DEF RunLoad, BootValues
    <3> QED
      BY <2>1, <3>1 DEF IInv, FileInv
  <2>3. RunLoad
    <3>1. ~loaded
      BY DEF IInv, ControlInv
    <3>2. ~(Signal \/ MainStop \/ MainJoin \/ MainDelete \/ Crash \/ Finished)
      BY <3>1 DEF Signal, MainStop, MainJoin, MainDelete, Crash, Boot, Finished, vars, runVars
    <3>3. ~(CommandArrives \/ Handler)
      BY <2>1 DEF CommandArrives, Handler, CommandUpdate, CommandSave, CommandRequest, CommandAnswer, IInv,
         ControlInv
    <3>4. ~(RunSave \/ RunEnter \/ RunLoop \/ RunCreate \/ RunStart \/ RunCheck \/ RunClear
            \/ DestroyWatchdog \/ DestroyStop \/ DestroyDelete \/ StopHangs)
      BY DEF RunSave, RunEnter, RunLoop, RunGoto, RunCreate, RunStart, RunCheck, RunClear, DestroyWatchdog,
         DestroyStop, DestroyDelete, StopHangs
    <3> QED
      BY <3>2, <3>3, <3>4 DEF Next, Run
  <2> QED
    BY <2>2, <2>3
<1> QED
  BY <1>1, InductiveInvariant, PTL DEF Spec, BootRestores

-----------------------------------------------------------------------------
(* The Sniffer keeps to the contract of its UDP link *)

\* Short of a crash, a step that begins or ends a command leaves the Sniffer alone.
LEMMA CommandStep ==
    ASSUME IInv, [Next]_vars, ~Crash
    PROVE  sniffer' = sniffer \/ (cmdpc' = cmdpc)
BY DEF Next, Signal, MainStop, MainJoin, MainDelete, Run, RunLoad, RunSave, RunEnter, RunLoop, RunGoto, RunCreate,
       RunStart, RunCheck, RunClear, DestroyWatchdog, DestroyStop, DestroyDelete, StopHangs, CommandArrives, Handler,
       CommandUpdate, CommandSave, CommandRequest, CommandAnswer, Finished, vars, runVars

\* MainService: onSystemCommand is called for one command at a time and by a Sniffer that
\* exists, and a Sniffer is deleted only between two commands, through every restart.
THEOREM CommandsKeepContract == Spec => WithinContract
<1>1. Init => Contract!Init
  BY DEF Init, Contract!Init
<1>2. ASSUME IInv, [Next]_vars
      PROVE  [Crash \/ Contract!Next]_(Contract!vars)
  <2>1. (cmdpc # "idle" => sniffer # "null") /\ (cmdpc' # "idle" => sniffer' # "null")
    BY <1>2, NextIInv DEF IInv, ControlInv
  <2> QED
    BY <1>2, <2>1, CommandStep
       DEF Contract!Next, Contract!vars, Contract!Open, Contract!Call, Contract!Return, Contract!Close
<1> QED
  BY <1>1, <1>2, InductiveInvariant, PTL DEF Spec, WithinContract
================================================================================
