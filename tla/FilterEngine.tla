----------------------------- MODULE FilterEngine -----------------------------
(***************************************************************************)
(* The filter engine of Sniffer.cpp: loadRules replaces the whole rule set, *)
(* process judges one CAN frame.  Both hold filter_mutex throughout; the    *)
(* two CAN workers call process, the worker of the external service calls   *)
(* loadRules.  A byte is the set of its bits, so that masks are sets too.   *)
(***************************************************************************)
EXTENDS Integers, Sequences, FiniteSets, FiniteSetsExt

CONSTANTS Rules,        \* the rules a client may send
          Frames,       \* [can_id, data] of the CAN frames that may arrive
          MaxRules,     \* rules that fit into rules_raw_memory
          MaxBatch,     \* bound: rules in one CMD_SET_FILTERS
          IdSpace,      \* 0x7FF + 1, the size of the lookup tables
          CountMod,     \* 2^8, id_counts is a uint8_t
          StableLimit   \* up to this many elements std::sort is an insertion sort

Byte == SUBSET (0 .. 7)

\* Rules and frames are typed as the structs are; a target is one that CanbusProtocol.h names.
ASSUME FilterAssumption ==
    /\ MaxRules \in Nat \ {0} /\ MaxBatch \in Nat /\ StableLimit \in Nat
    /\ IdSpace \in Nat \ {0} /\ CountMod \in Nat \ {0}
    /\ Rules \subseteq [can_id : Nat, data_index : Nat, data_mask : Byte, data_value : Byte,
                        action_type : {"PASS", "DROP", "MODIFY"}, target : {"BOTH", "TO_SYSTEM", "TO_CAR"},
                        modification_data : [1 .. 8 -> Byte], modification_mask : [1 .. 8 -> Byte]]
    /\ Frames \subseteq [can_id : Nat, data : Seq(Byte)]

Sources == {"CAR_SYSTEM", "CAR_COMPUTER"}
Ids == 0 .. IdSpace - 1

VARIABLES
    rules,      \* rules_ptr[0 .. rules_count - 1], here from 1
    id_lookup,  \* index of the first rule of an id, 0 for none
    id_counts,  \* number of rules of an id
    locked,     \* filter_mutex is held by loadRules
    step,       \* how far loadRules has come
    batch,      \* the payload of the command being loaded
    active,     \* history: the payload of the last command that was loaded
    verdict     \* history: the last frame that was judged, and how

tables == <<rules, id_lookup, id_counts>>
vars == <<tables, locked, step, batch, active, verdict>>

\* can_id & 0x7FF
MaskId(can_id) == can_id % IdSpace

NoVerdict == [source |-> "none"]

Init ==
    /\ rules = <<>>
    /\ id_lookup = [id \in Ids |-> 0]
    /\ id_counts = [id \in Ids |-> 0]
    /\ locked = FALSE /\ step = "idle" /\ batch = <<>>
    /\ active = <<>> /\ verdict = NoVerdict

\* init(), called by the constructor of every Sniffer
Reinit ==
    /\ step = "idle" /\ ~locked
    /\ rules' = <<>>
    /\ id_lookup' = [id \in Ids |-> 0]
    /\ id_counts' = [id \in Ids |-> 0]
    /\ active' = <<>>
    /\ verdict' = NoVerdict
    /\ UNCHANGED <<locked, step, batch>>

-----------------------------------------------------------------------------
(* loadRules *)

\* The command arrives; the mutex is taken and everything is reset (init_internal).
LoadReset ==
    /\ step = "idle" /\ ~locked
    /\ \E n \in 0 .. MaxBatch : \E b \in [1 .. n -> Rules] : batch' = b
    /\ locked' = TRUE
    /\ rules' = <<>>
    /\ id_lookup' = [id \in Ids |-> 0]
    /\ id_counts' = [id \in Ids |-> 0]
    /\ step' = "copy"
    /\ verdict' = NoVerdict
    /\ UNCHANGED active

\* memcpy of as many rules as fit
LoadCopy ==
    /\ step = "copy"
    /\ rules' = SubSeq(batch, 1, Min({Len(batch), MaxRules}))
    /\ step' = "sort"
    /\ UNCHANGED <<id_lookup, id_counts, locked, batch, active, verdict>>

\* The orders std::sort may leave, by CAN id only: any sorted one, and the stable one
\* when the implementation falls back to insertion sort.
Sortings(s) ==
    {p \in [DOMAIN s -> DOMAIN s] :
        /\ \A i, j \in DOMAIN s : i < j => p[i] # p[j]
        /\ \A i, j \in DOMAIN s : i < j =>
              LET a == MaskId(s[p[i]].can_id)
                  b == MaskId(s[p[j]].can_id)
              IN  a < b \/ (a = b /\ (Len(s) <= StableLimit => p[i] < p[j]))}

\* Mutant: the rules are used in the order they came.
LoadSortSkipped ==
    /\ step = "sort"
    /\ step' = "build"
    /\ UNCHANGED <<rules, id_lookup, id_counts, locked, batch, active, verdict>>

LoadSort ==
    /\ step = "sort"
    /\ \E p \in Sortings(rules) : rules' = [i \in DOMAIN rules |-> rules[p[i]]]
    /\ step' = "build"
    /\ UNCHANGED <<id_lookup, id_counts, locked, batch, active, verdict>>

OfId(id) == {i \in DOMAIN rules : MaskId(rules[i].can_id) = id}

\* The counter wraps; each time it is 0 the lookup moves to the rule at hand.
LookupOf(id) ==
    LET k == Cardinality(OfId(id))
    IN  IF k = 0 THEN 0 ELSE Min(OfId(id)) + CountMod * ((k - 1) \div CountMod)

\* The two tables are built and the mutex is released.
LoadBuild ==
    /\ step = "build"
    /\ id_counts' = [id \in Ids |-> Cardinality(OfId(id)) % CountMod]
    /\ id_lookup' = [id \in Ids |-> LookupOf(id)]
    /\ locked' = FALSE
    /\ step' = "idle"
    /\ active' = batch
    /\ batch' = <<>>
    /\ UNCHANGED <<rules, verdict>>

-----------------------------------------------------------------------------
(* process *)

ForDirection(rule, source) ==
    /\ rule.target = "TO_SYSTEM" => source = "CAR_COMPUTER"
    /\ rule.target = "TO_CAR" => source = "CAR_SYSTEM"

\* data_index counts from 0
ConditionHolds(rule, data) ==
    \/ rule.data_mask = {}
    \/ /\ Len(data) > rule.data_index
       /\ data[rule.data_index + 1] \cap rule.data_mask = rule.data_value

Modified(rule, data) ==
    [j \in DOMAIN data |->
        IF j <= 8 THEN (data[j] \ rule.modification_mask[j])
                          \cup (rule.modification_data[j] \cap rule.modification_mask[j])
                  ELSE data[j]]

Apply(rule, data) ==
    CASE rule.action_type = "DROP"   -> [pass |-> FALSE, data |-> data]
      [] rule.action_type = "MODIFY" -> [pass |-> TRUE, data |-> Modified(rule, data)]
      [] OTHER                       -> [pass |-> TRUE, data |-> data]

Passed(data) == [pass |-> TRUE, data |-> data]

\* The loop over the rules of the frame's id: the first one that matches decides.
Judge(frame, source) ==
    LET id == MaskId(frame.can_id)
        first == id_lookup[id]
        hits == {i \in first .. first + id_counts[id] - 1 :
                    ForDirection(rules[i], source) /\ ConditionHolds(rules[i], frame.data)}
    IN  IF id_counts[id] = 0 \/ hits = {} THEN Passed(frame.data)
                                         ELSE Apply(rules[Min(hits)], frame.data)

\* Mutant: the mutex is not taken.
ProcessUnlocked(frame, source) ==
    /\ verdict' = [source |-> source, frame |-> frame, result |-> Judge(frame, source)]
    /\ UNCHANGED <<tables, locked, step, batch, active>>

Process(frame, source) ==
    /\ ~locked
    /\ verdict' = [source |-> source, frame |-> frame, result |-> Judge(frame, source)]
    /\ UNCHANGED <<tables, locked, step, batch, active>>

Next == Reinit \/ LoadReset \/ LoadCopy \/ LoadSort \/ LoadBuild
            \/ \E frame \in Frames, source \in Sources : Process(frame, source)

Spec == Init /\ [][Next]_vars

-----------------------------------------------------------------------------
(* Properties. *)

\* What CanbusProtocol.h promises: of the rules of the last complete command (as many as
\* the engine has memory for), in the order they were sent, the first whose id, direction
\* and condition fit the frame decides.
Promised(frame, source) ==
    LET hits == {i \in DOMAIN active :
                    /\ i <= MaxRules
                    /\ MaskId(active[i].can_id) = MaskId(frame.can_id)
                    /\ active[i].target \in
                          {"BOTH", IF source = "CAR_COMPUTER" THEN "TO_SYSTEM" ELSE "TO_CAR"}
                    /\ \/ active[i].data_mask = {}
                       \/ /\ active[i].data_index < Len(frame.data)
                          /\ frame.data[active[i].data_index + 1] \cap active[i].data_mask
                                = active[i].data_value}
    IN  IF hits = {} THEN Passed(frame.data) ELSE Apply(active[Min(hits)], frame.data)

\* A frame is judged as promised.  The tables it is judged by are those of one complete
\* command: a frame that arrives while rules are being replaced sees the old set or
\* the new one, never the empty or the half-built tables in between.
JudgedAsPromised ==
    [][verdict' \notin {verdict, NoVerdict} =>
          verdict'.result = Promised(verdict'.frame, verdict'.source)]_vars

TypeOK ==
    /\ rules \in Seq(Rules) /\ Len(rules) <= MaxRules
    /\ id_lookup \in [Ids -> 0 .. MaxRules]
    /\ id_counts \in [Ids -> 0 .. CountMod - 1]
    /\ locked \in BOOLEAN
    /\ step \in {"idle", "copy", "sort", "build"}
    /\ batch \in Seq(Rules) /\ active \in Seq(Rules)

\* Outside loadRules the tables describe the rules: each id's rules are the count's many
\* consecutive ones from the lookup on, so the loop of process leaves none out and never
\* runs past the end of the rules.
TablesConsistent ==
    /\ TypeOK
    /\ ~locked => \A id \in Ids :
           OfId(id) = id_lookup[id] .. id_lookup[id] + id_counts[id] - 1
=============================================================================
