-------------------------- MODULE FilterEngineProofs --------------------------
(***************************************************************************)
(* The filter engine for any rules and frames: the tables describe the      *)
(* rules they are used with, and a frame is judged by the first fitting     *)
(* rule of one complete command.                                            *)
(***************************************************************************)
EXTENDS FilterEngine, SequenceTheorems, FiniteSetTheorems, TLAPS

\* The rules of one command can be counted in a uint8_t.  A datagram holds at most 4096
\* bytes, a header of 152 and 157 rules of 25.
Countable == MaxRules < CountMod \/ MaxBatch < CountMod

\* std::sort keeps the order of equal elements: the rules of one command are at most 16.
Stable == MaxRules <= StableLimit \/ MaxBatch <= StableLimit

-----------------------------------------------------------------------------
(* The inductive invariant *)

\* What memcpy takes of a command.
Kept(s) == SubSeq(s, 1, Min({Len(s), MaxRules}))

\* t is s as std::sort may leave it.
Permuted(s, p) == [i \in DOMAIN s |-> s[p[i]]]
SortedFrom(t, s) == \E p \in Sortings(s) : t = Permuted(s, p)

TablesMatch == \A id \in Ids : OfId(id) = id_lookup[id] .. id_lookup[id] + id_counts[id] - 1

\* The mutex is held throughout loadRules, and each pass finds what the one before it left.
LoadInv ==
    /\ locked <=> step # "idle"
    /\ Len(batch) <= MaxBatch /\ Len(active) <= MaxBatch
    /\ step = "sort" => rules = Kept(batch)
    /\ step = "build" => SortedFrom(rules, Kept(batch))
    /\ step = "idle" => SortedFrom(rules, Kept(active)) /\ TablesMatch

IInv == TypeOK /\ LoadInv

-----------------------------------------------------------------------------
(* Numbers, sequences and orders *)

\* A set of numbers that is not empty has a least one.
LEMMA LeastNumber ==
    ASSUME NEW S \in SUBSET Nat, S # {}
    PROVE  Min(S) \in S /\ \A i \in S : Min(S) <= i
<1> DEFINE R == OpToRel(<, Nat)
<1>1. \E x \in S : \A y \in S : ~(<<y, x>> \in R)
  BY NatLessThanWellFounded, WFMin
<1>2. PICK x \in S : \A y \in S : ~(y < x)
  BY <1>1 DEF OpToRel
<1>3. \A y \in S : x <= y
  BY <1>2
<1> QED
  BY <1>3 DEF Min

\* A remainder and a quotient below the divisor.
LEMMA NoWrap ==
    ASSUME NEW k \in Nat, NEW m \in Nat, k < m
    PROVE  k % m = k /\ k \div m = 0
OBVIOUS

\* Masked ids index the tables.
LEMMA MaskIdType ==
    ASSUME NEW n \in Nat
    PROVE  MaskId(n) \in Ids
BY FilterAssumption DEF MaskId, Ids

\* The fields of a rule.
LEMMA RuleFields ==
    ASSUME NEW r \in Rules
    PROVE  /\ r.can_id \in Nat /\ r.data_index \in Nat
           /\ r.target \in {"BOTH", "TO_SYSTEM", "TO_CAR"}
           /\ MaskId(r.can_id) \in Ids /\ MaskId(r.can_id) \in Nat
<1>1. r.can_id \in Nat /\ r.data_index \in Nat /\ r.target \in {"BOTH", "TO_SYSTEM", "TO_CAR"}
  BY FilterAssumption
<1>2. MaskId(r.can_id) \in Ids
  BY <1>1, MaskIdType
<1>3. Ids \subseteq Nat
  BY DEF Ids
<1> QED
  BY <1>1, <1>2, <1>3

\* memcpy takes a command up to the limit.
LEMMA KeptFacts ==
    ASSUME NEW s \in Seq(Rules)
    PROVE  /\ Kept(s) \in Seq(Rules)
           /\ Len(Kept(s)) <= Len(s) /\ Len(Kept(s)) <= MaxRules
           /\ \A i \in 1 .. Len(s) : i <= MaxRules <=> i \in 1 .. Len(Kept(s))
           /\ \A i \in 1 .. Len(Kept(s)) : Kept(s)[i] = s[i]
<1> DEFINE n == Min({Len(s), MaxRules})
<1>1. Len(s) \in Nat /\ MaxRules \in Nat /\ \A i \in 1 .. Len(s) : s[i] \in Rules
  BY FilterAssumption, LenProperties
<1>2. {Len(s), MaxRules} \in SUBSET Nat /\ {Len(s), MaxRules} # {}
  BY <1>1
<1>3. n \in {Len(s), MaxRules} /\ n <= Len(s) /\ n <= MaxRules
  BY <1>2, LeastNumber
<1> HIDE DEF n
<1>4. n \in Nat /\ \A i \in 1 .. n : s[i] \in Rules
  BY <1>1, <1>3
<1>5. /\ SubSeq(s, 1, n) \in Seq(Rules) /\ Len(SubSeq(s, 1, n)) = n
      /\ \A i \in 1 .. n : SubSeq(s, 1, n)[i] = s[i]
  BY <1>4, SubSeqProperties
<1>6. Kept(s) = SubSeq(s, 1, n)
  BY DEF Kept, n
<1> QED
  BY <1>1, <1>3, <1>4, <1>5, <1>6

\* Sorting leaves the rules of s, each once, with their ids in order.
LEMMA SortedFacts ==
    ASSUME NEW s \in Seq(Rules), NEW p \in Sortings(s), NEW t, t = Permuted(s, p)
    PROVE  /\ t \in Seq(Rules) /\ Len(t) = Len(s)
           /\ \A i \in 1 .. Len(s) : p[i] \in 1 .. Len(s) /\ t[i] = s[p[i]]
           /\ \A j \in 1 .. Len(s) : \E i \in 1 .. Len(s) : p[i] = j
           /\ \A i, j \in 1 .. Len(s) : i < j => MaskId(t[i].can_id) <= MaskId(t[j].can_id)
           /\ \A i, j \in 1 .. Len(s) :
                 i < j /\ Len(s) <= StableLimit /\ MaskId(t[i].can_id) = MaskId(t[j].can_id) => p[i] < p[j]
<1> DEFINE n == Len(s)
<1>1. n \in Nat /\ DOMAIN s = 1 .. n /\ \A i \in 1 .. n : s[i] \in Rules
  BY LenProperties
<1> HIDE DEF n
<1>2. /\ p \in [1 .. n -> 1 .. n] /\ \A i, j \in 1 .. n : i < j => p[i] # p[j]
      /\ \A i, j \in 1 .. n : i < j =>
            \/ MaskId(s[p[i]].can_id) < MaskId(s[p[j]].can_id)
            \/ /\ MaskId(s[p[i]].can_id) = MaskId(s[p[j]].can_id)
               /\ n <= StableLimit => p[i] < p[j]
  BY <1>1 DEF Sortings, n
<1>3. t \in [1 .. n -> Rules] /\ \A i \in 1 .. n : p[i] \in 1 .. n /\ t[i] = s[p[i]]
  BY <1>1, <1>2 DEF Permuted
<1>4. t \in Seq(Rules)
  BY <1>1, <1>3, SeqDef
<1>5. Len(t) = n
  BY <1>1, <1>3, <1>4, LenProperties
<1>6. \A i, j \in 1 .. n : p[i] = p[j] => i = j
  BY <1>1, <1>2
<1>7. p \in Injection(1 .. n, 1 .. n)
  BY <1>2, <1>6 DEF Injection, IsInjective
<1>8. IsFiniteSet(1 .. n)
  BY <1>1, FS_Interval
<1>9. p \in Surjection(1 .. n, 1 .. n)
  BY <1>7, <1>8, FS_Injection
<1>10. \A j \in 1 .. n : \E i \in 1 .. n : p[i] = j
  BY <1>9 DEF Surjection
<1>11. \A i \in 1 .. n : MaskId(t[i].can_id) \in Nat
  BY <1>3, RuleFields
<1>12. ASSUME NEW i \in 1 .. n, NEW j \in 1 .. n, i < j
       PROVE  /\ MaskId(t[i].can_id) <= MaskId(t[j].can_id)
              /\ n <= StableLimit /\ MaskId(t[i].can_id) = MaskId(t[j].can_id) => p[i] < p[j]
  <2>1. t[i] = s[p[i]] /\ t[j] = s[p[j]]
    BY <1>3
  <2>2. \/ MaskId(t[i].can_id) < MaskId(t[j].can_id)
        \/ MaskId(t[i].can_id) = MaskId(t[j].can_id) /\ (n <= StableLimit => p[i] < p[j])
    BY <1>2, <1>12, <2>1
  <2> QED
    BY <1>11, <2>2
<1> QED
  BY <1>3, <1>4, <1>5, <1>10, <1>12 DEF n

\* A set without gaps is an interval, as long as the set is large.
LEMMA NoGaps ==
    ASSUME NEW n \in Nat, NEW S \in SUBSET (1 .. n), S # {},
           \A i, j \in S : \A x \in i .. j : x \in S
    PROVE  /\ Cardinality(S) \in 1 .. n /\ Min(S) \in 1 .. n
           /\ S = Min(S) .. Min(S) + Cardinality(S) - 1
<1> DEFINE a == Min(S)
           T == {n - i : i \in S}
           b == n - Min(T)
<1>1. a \in S /\ \A i \in S : a <= i
  BY LeastNumber
<1>2. T \in SUBSET Nat /\ T # {}
  <2>1. \A i \in S : n - i \in Nat
    OBVIOUS
  <2> QED
    BY <2>1
<1>3. Min(T) \in T /\ \A y \in T : Min(T) <= y
  <2> HIDE DEF T
  <2> QED
    BY <1>2, LeastNumber
<1>4. PICK m \in S : Min(T) = n - m
  BY <1>3
<1>5. \A i \in S : Min(T) <= n - i
  BY <1>3
<1> HIDE DEF a, T
<1>6. b = m
  BY <1>4
<1>7. \A i \in S : i <= b
  BY <1>4, <1>5, <1>6
<1> HIDE DEF b
<1>8. a \in 1 .. n /\ b \in 1 .. n /\ b \in S /\ a <= b
  BY <1>1, <1>4, <1>6, <1>7
<1>9. S = a .. b
  <2>1. \A x \in a .. b : x \in S
    BY <1>1, <1>8
  <2>2. \A x \in S : x \in a .. b
    BY <1>1, <1>7, <1>8
  <2> QED
    BY <2>1, <2>2
<1>10. Cardinality(a .. b) = b - a + 1
  BY <1>8, FS_Interval
<1> QED
  BY <1>8, <1>9, <1>10 DEF a

\* An empty rule set has no orders but the empty one.
LEMMA EmptySorted == SortedFrom(<<>>, Kept(<<>>))
<1> DEFINE s == Kept(<<>>)
<1>1. <<>> \in Seq(Rules) /\ Len(<<>>) = 0
  OBVIOUS
<1>2. s \in Seq(Rules) /\ Len(s) <= 0
  BY <1>1, KeptFacts
<1> HIDE DEF s
<1>3. Len(s) = 0 /\ DOMAIN s = {} /\ s = <<>>
  BY <1>2, LenProperties, EmptySeq
<1> DEFINE p == [i \in DOMAIN s |-> i]
<1>4. p \in Sortings(s)
  BY <1>3 DEF Sortings
<1>5. <<>> = Permuted(s, p)
  BY <1>3 DEF Permuted
<1> QED
  BY <1>4, <1>5 DEF SortedFrom, s

-----------------------------------------------------------------------------
(* The tables *)

Sorted == \A i, j \in 1 .. Len(rules) : i < j => MaskId(rules[i].can_id) <= MaskId(rules[j].can_id)

\* With the ids in order, the rules of one id are neighbours, the lookup is the first of
\* them and the count is their number.
LEMMA BuiltTables ==
    ASSUME rules \in Seq(Rules), Len(rules) < CountMod, Sorted, NEW id \in Ids
    PROVE  /\ LookupOf(id) \in 0 .. Len(rules) /\ Cardinality(OfId(id)) % CountMod \in 0 .. CountMod - 1
           /\ OfId(id) = LookupOf(id) .. LookupOf(id) + (Cardinality(OfId(id)) % CountMod) - 1
<1> DEFINE n == Len(rules)
           S == OfId(id)
           k == Cardinality(S)
<1>1. n \in Nat /\ DOMAIN rules = 1 .. n /\ \A i \in 1 .. n : rules[i] \in Rules
  BY LenProperties
<1>2. CountMod \in Nat /\ n < CountMod
  BY FilterAssumption
<1>3. \A i \in 1 .. n : MaskId(rules[i].can_id) \in Nat
  BY <1>1, RuleFields
<1>4. \A i \in 1 .. n : i \in S <=> MaskId(rules[i].can_id) = id
  BY <1>1 DEF OfId
<1>5. S \in SUBSET (1 .. n)
  BY <1>1 DEF OfId
<1>6. CASE S = {}
  <2>1. k = 0
    BY <1>6, FS_EmptySet
  <2>2. LookupOf(id) = 0
    BY <2>1 DEF LookupOf
  <2>3. k % CountMod = 0
    BY <1>1, <1>2, <2>1, NoWrap
  <2> QED
    BY <1>1, <1>2, <1>6, <2>2, <2>3
<1>7. CASE S # {}
  <2>1. ASSUME NEW i \in S, NEW j \in S, NEW x \in i .. j PROVE x \in S
    <3>1. i \in 1 .. n /\ j \in 1 .. n /\ x \in 1 .. n
      BY <1>1, <1>5, <2>1
    <3>2. MaskId(rules[i].can_id) = id /\ MaskId(rules[j].can_id) = id
      BY <1>4, <3>1
    <3>3. MaskId(rules[x].can_id) = id
      BY <1>1, <1>3, <2>1, <3>1, <3>2 DEF Sorted
    <3> QED
      BY <1>4, <3>1, <3>3
  <2> HIDE DEF S, n
  <2>2. k \in 1 .. n /\ Min(S) \in 1 .. n /\ S = Min(S) .. Min(S) + k - 1
    BY <1>1, <1>5, <1>7, <2>1, NoGaps
  <2> HIDE DEF k
  <2>3. k - 1 \in Nat /\ k - 1 < CountMod /\ k \in Nat /\ k < CountMod
    BY <1>1, <1>2, <2>2
  <2>4. (k - 1) \div CountMod = 0 /\ k % CountMod = k
    BY <1>2, <2>3, NoWrap
  <2>5. CountMod * 0 = 0
    BY <1>2
  <2>6. LookupOf(id) = Min(S) + CountMod * ((k - 1) \div CountMod)
    BY <2>2 DEF LookupOf, S, k
  <2>7. LookupOf(id) = Min(S)
    BY <1>1, <2>2, <2>4, <2>5, <2>6
  <2>8. LookupOf(id) \in 0 .. n /\ k \in 0 .. CountMod - 1 /\ S = LookupOf(id) .. LookupOf(id) + k - 1
    BY <1>1, <1>2, <2>2, <2>3, <2>7
  <2>9. Cardinality(OfId(id)) % CountMod = k /\ OfId(id) = S /\ Len(rules) = n
    BY <2>4 DEF S, n, k
  <2> QED
    BY <2>8, <2>9
<1> QED
  BY <1>6, <1>7

-----------------------------------------------------------------------------
(* The invariant is inductive *)

\* Tables of zeros are those of no rules.
LEMMA ZeroTables ==
    ASSUME NEW lookup, lookup = [id \in Ids |-> 0]
    PROVE  /\ lookup \in [Ids -> 0 .. MaxRules] /\ lookup \in [Ids -> 0 .. CountMod - 1]
           /\ \A id \in Ids : lookup[id] .. lookup[id] + lookup[id] - 1 = {}
<1>1. MaxRules \in Nat /\ CountMod \in Nat \ {0}
  BY FilterAssumption
<1> QED
  BY <1>1

\* The invariant holds before any rule is loaded.
LEMMA InitIInv == Init => IInv
<1> SUFFICES ASSUME Init PROVE IInv
  OBVIOUS
<1>1. <<>> \in Seq(Rules) /\ Len(<<>>) = 0 /\ MaxRules \in Nat /\ MaxBatch \in Nat /\ DOMAIN <<>> = {}
  BY FilterAssumption
<1>2. locked \in BOOLEAN
  BY Zenon DEF Init
<1>3. TypeOK
  BY <1>1, <1>2, ZeroTables DEF Init, TypeOK
<1>4. TablesMatch
  BY <1>1, ZeroTables DEF Init, TablesMatch, OfId
<1> QED
  BY <1>1, <1>3, <1>4, EmptySorted DEF Init, IInv, LoadInv

\* Every step keeps the types, and each pass of loadRules leaves what the next one needs.
LEMMA StepIInv ==
    ASSUME Countable, IInv, [Next]_vars
    PROVE  IInv'
<1>0. /\ TypeOK /\ LoadInv /\ <<>> \in Seq(Rules) /\ Len(<<>>) = 0 /\ DOMAIN <<>> = {}
      /\ MaxRules \in Nat /\ MaxBatch \in Nat
  BY FilterAssumption DEF IInv
<1>1. CASE Reinit
  <2>1. TypeOK'
    <3>1. id_lookup' \in [Ids -> 0 .. MaxRules] /\ id_counts' \in [Ids -> 0 .. CountMod - 1]
      BY <1>1, ZeroTables DEF Reinit
    <3> QED
      BY <1>0, <1>1, <3>1 DEF Reinit, TypeOK
  <2>2. TablesMatch'
    BY <1>0, <1>1, ZeroTables DEF Reinit, TablesMatch, OfId
  <2> QED
    BY <1>0, <1>1, <2>1, <2>2, EmptySorted DEF Reinit, IInv, LoadInv
<1>2. CASE LoadReset
  <2>1. PICK n \in 0 .. MaxBatch : batch' \in [1 .. n -> Rules]
    BY <1>2 DEF LoadReset
  <2>2. n \in Nat /\ batch' \in Seq(Rules)
    BY <1>0, <2>1, SeqDef
  <2>3. Len(batch') = n
    BY <2>1, <2>2, LenProperties
  <2>4. locked' \in BOOLEAN
    BY <1>2, Zenon DEF LoadReset
  <2>5. TypeOK'
    BY <1>0, <1>2, <2>2, <2>4, ZeroTables DEF LoadReset, TypeOK
  <2> QED
    BY <1>0, <1>2, <2>1, <2>3, <2>5 DEF LoadReset, IInv, LoadInv
<1>3. CASE LoadCopy
  <2>1. rules' = Kept(batch)
    BY <1>3 DEF LoadCopy, Kept
  <2>2. TypeOK'
    BY <1>0, <1>3, <2>1, KeptFacts DEF LoadCopy, TypeOK
  <2> QED
    BY <1>0, <1>3, <2>1, <2>2 DEF LoadCopy, IInv, LoadInv
<1>4. CASE LoadSort
  <2>1. rules = Kept(batch)
    BY <1>0, <1>4 DEF LoadSort, LoadInv
  <2>2. SortedFrom(rules', Kept(batch))
    BY <1>4, <2>1 DEF LoadSort, SortedFrom, Permuted
  <2>3. rules' \in Seq(Rules) /\ Len(rules') = Len(rules)
    BY <1>0, <1>4, SortedFacts DEF LoadSort, TypeOK, Permuted
  <2>4. TypeOK'
    BY <1>0, <1>4, <2>3 DEF LoadSort, TypeOK
  <2> QED
    BY <1>0, <1>4, <2>2, <2>4 DEF LoadSort, IInv, LoadInv
<1>5. CASE LoadBuild
  <2>1. SortedFrom(rules, Kept(batch)) /\ Kept(batch) \in Seq(Rules)
    BY <1>0, <1>5, KeptFacts DEF LoadBuild, LoadInv, TypeOK
  <2>2. Sorted /\ rules \in Seq(Rules) /\ Len(rules) = Len(Kept(batch))
    <3>1. PICK p \in Sortings(Kept(batch)) : rules = Permuted(Kept(batch), p)
      BY <2>1 DEF SortedFrom
    <3> QED
      BY <2>1, <3>1, SortedFacts DEF Sorted
  <2>3. Len(rules) < CountMod
    <3>1. /\ Len(batch) \in Nat /\ Len(rules) \in Nat /\ CountMod \in Nat
          /\ Len(rules) <= Len(batch) /\ Len(rules) <= MaxRules /\ Len(batch) <= MaxBatch
      BY <1>0, <2>2, KeptFacts, LenProperties, FilterAssumption DEF TypeOK, LoadInv
    <3> QED
      BY <1>0, <3>1 DEF Countable
  <2>4. \A id \in Ids : /\ id_lookup'[id] = LookupOf(id) /\ id_counts'[id] = Cardinality(OfId(id)) % CountMod
                         /\ OfId(id)' = OfId(id)
    BY <1>5 DEF LoadBuild, OfId
  <2>5. \A id \in Ids : /\ LookupOf(id) \in 0 .. MaxRules /\ Cardinality(OfId(id)) % CountMod \in 0 .. CountMod - 1
                         /\ OfId(id) = LookupOf(id) .. LookupOf(id) + (Cardinality(OfId(id)) % CountMod) - 1
    <3>1. Len(rules) \in Nat /\ Len(rules) <= MaxRules
      BY <1>0, LenProperties DEF TypeOK
    <3> QED
      BY <1>0, <2>2, <2>3, <3>1, BuiltTables
  <2>6. TablesMatch'
    BY <2>4, <2>5 DEF TablesMatch
  <2>7. id_lookup' \in [Ids -> 0 .. MaxRules] /\ id_counts' \in [Ids -> 0 .. CountMod - 1]
    BY <1>5, <2>5 DEF LoadBuild
  <2>8. locked' \in BOOLEAN
    BY <1>5, Zenon DEF LoadBuild
  <2>9. TypeOK'
    BY <1>0, <1>5, <2>7, <2>8 DEF LoadBuild, TypeOK
  <2> QED
    BY <1>0, <1>5, <2>1, <2>6, <2>9 DEF LoadBuild, IInv, LoadInv
<1>6. ASSUME NEW frame \in Frames, NEW source \in Sources, Process(frame, source) PROVE IInv'
  BY <1>0, <1>6 DEF Process, tables, IInv, TypeOK, LoadInv, TablesMatch, OfId
<1>7. CASE UNCHANGED vars
  BY <1>0, <1>7 DEF vars, tables, IInv, TypeOK, LoadInv, TablesMatch, OfId
<1> QED
  BY <1>1, <1>2, <1>3, <1>4, <1>5, <1>6, <1>7 DEF Next

-----------------------------------------------------------------------------
(* The verdict *)

\* Whether a rule is for a frame, whatever their ids.
Fits(rule, frame, source) == ForDirection(rule, source) /\ ConditionHolds(rule, frame.data)

\* The direction and the condition as they are promised.
LEMMA FitsAsPromised ==
    ASSUME NEW rule \in Rules, NEW frame \in Frames, NEW source \in Sources
    PROVE  Fits(rule, frame, source) <=>
             /\ rule.target \in {"BOTH", IF source = "CAR_COMPUTER" THEN "TO_SYSTEM" ELSE "TO_CAR"}
             /\ \/ rule.data_mask = {}
                \/ /\ rule.data_index < Len(frame.data)
                   /\ frame.data[rule.data_index + 1] \cap rule.data_mask = rule.data_value
<1>1. ForDirection(rule, source) <=>
          rule.target \in {"BOTH", IF source = "CAR_COMPUTER" THEN "TO_SYSTEM" ELSE "TO_CAR"}
  BY RuleFields DEF ForDirection, Sources
<1>2. rule.data_index \in Nat /\ Len(frame.data) \in Nat
  <2>1. frame.data \in Seq(Byte)
    BY FilterAssumption
  <2> QED
    BY <2>1, RuleFields, LenProperties
<1>3. Len(frame.data) > rule.data_index <=> rule.data_index < Len(frame.data)
  BY <1>2
<1> QED
  BY <1>1, <1>3 DEF Fits, ConditionHolds

\* The least element of a set that is mapped by an increasing function onto another.
LEMMA LeastIsMapped ==
    ASSUME NEW S \in SUBSET Nat, S # {}, NEW T \in SUBSET Nat, NEW p,
           \A i \in S : p[i] \in T, \A j \in T : \E i \in S : p[i] = j,
           \A i, j \in S : i < j => p[i] < p[j]
    PROVE  T # {} /\ Min(T) = p[Min(S)]
<1>1. Min(S) \in S /\ \A i \in S : Min(S) <= i
  BY LeastNumber
<1>2. T # {}
  BY <1>1
<1>3. Min(T) \in T /\ \A j \in T : Min(T) <= j
  BY <1>2, LeastNumber
<1>4. PICK i \in S : p[i] = Min(T)
  BY <1>3
<1>5. p[Min(S)] \in T /\ Min(T) <= p[Min(S)]
  BY <1>1, <1>3
<1>6. Min(S) < i => p[Min(S)] < p[i]
  BY <1>1
<1>7. Min(S) \in Nat /\ i \in Nat /\ Min(S) <= i /\ p[Min(S)] \in Nat /\ Min(T) \in Nat
  BY <1>1, <1>3, <1>5
<1> QED
  BY <1>2, <1>4, <1>5, <1>6, <1>7

\* The loop of process over the sorted rules finds the rule that comes first in the command.
LEMMA FirstMatchIsPromised ==
    ASSUME Stable, IInv, step = "idle", NEW frame \in Frames, NEW source \in Sources
    PROVE  Judge(frame, source) = Promised(frame, source)
<1> DEFINE s == Kept(active)
           n == Len(s)
           id == MaskId(frame.can_id)
           S == {i \in 1 .. n : MaskId(rules[i].can_id) = id /\ Fits(rules[i], frame, source)}
           T == {j \in 1 .. n : MaskId(s[j].can_id) = id /\ Fits(s[j], frame, source)}
<1>1. /\ TypeOK /\ Len(active) <= MaxBatch /\ SortedFrom(rules, s) /\ TablesMatch
      /\ MaxRules \in Nat /\ MaxBatch \in Nat /\ StableLimit \in Nat
  BY FilterAssumption DEF IInv, LoadInv
<1>2. /\ s \in Seq(Rules) /\ n \in Nat /\ n <= Len(active) /\ n <= MaxRules /\ Len(active) \in Nat
      /\ DOMAIN active = 1 .. Len(active)
      /\ \A i \in 1 .. Len(active) : i <= MaxRules <=> i \in 1 .. n
      /\ \A i \in 1 .. n : s[i] = active[i] /\ s[i] \in Rules
  BY <1>1, KeptFacts, LenProperties DEF TypeOK
<1>3. n <= StableLimit
  BY <1>1, <1>2 DEF Stable
<1>4. PICK p \in Sortings(s) : rules = Permuted(s, p)
  BY <1>1 DEF SortedFrom
<1>5. id \in Ids
  BY MaskIdType, FilterAssumption
<1> HIDE DEF s, n, id
<1>6. /\ Len(rules) = n
      /\ \A i \in 1 .. n : p[i] \in 1 .. n /\ rules[i] = s[p[i]] /\ rules[i] \in Rules
      /\ \A j \in 1 .. n : \E i \in 1 .. n : p[i] = j
      /\ \A i, j \in 1 .. n : i < j /\ MaskId(rules[i].can_id) = MaskId(rules[j].can_id) => p[i] < p[j]
  <2>0. s \in Seq(Rules)
    BY <1>2
  <2>1. /\ rules \in Seq(Rules) /\ Len(rules) = Len(s)
        /\ \A i \in 1 .. Len(s) : p[i] \in 1 .. Len(s) /\ rules[i] = s[p[i]]
        /\ \A j \in 1 .. Len(s) : \E i \in 1 .. Len(s) : p[i] = j
    BY <1>4, <2>0, SortedFacts
  <2>3. \A i, j \in 1 .. Len(s) :
           i < j /\ Len(s) <= StableLimit /\ MaskId(rules[i].can_id) = MaskId(rules[j].can_id) => p[i] < p[j]
    BY <1>4, <2>0, SortedFacts
  <2>2. \A i \in 1 .. n : rules[i] \in Rules
    BY <1>2, <2>1 DEF n
  <2> QED
    BY <1>3, <2>1, <2>2, <2>3 DEF n
<1>7. DOMAIN rules = 1 .. n
  BY <1>1, <1>6, LenProperties DEF TypeOK
<1>8. Judge(frame, source) = IF S = {} THEN Passed(frame.data) ELSE Apply(rules[Min(S)], frame.data)
  <2> DEFINE I == id_lookup[id] .. id_lookup[id] + id_counts[id] - 1
             hits == {i \in I : ForDirection(rules[i], source) /\ ConditionHolds(rules[i], frame.data)}
  <2>1. I = OfId(id)
    BY <1>1, <1>5 DEF TablesMatch
  <2>2. OfId(id) = {i \in 1 .. n : MaskId(rules[i].can_id) = id}
    BY <1>7 DEF OfId
  <2> HIDE DEF I
  <2>3. hits = S
    BY <2>1, <2>2 DEF Fits
  <2>4. id_counts[id] = 0 => hits = {}
    <3>1. id_lookup[id] \in Nat
      BY <1>1, <1>5 DEF TypeOK
    <3>2. id_counts[id] = 0 => I = {}
      BY <3>1 DEF I
    <3> QED
      BY <3>2
  <2>5. Judge(frame, source) = IF id_counts[id] = 0 \/ hits = {} THEN Passed(frame.data)
                                                              ELSE Apply(rules[Min(hits)], frame.data)
    BY DEF Judge, id, I
  <2> HIDE DEF hits, S
  <2> QED
    BY <2>3, <2>4, <2>5
<1>9. Promised(frame, source) = IF T = {} THEN Passed(frame.data) ELSE Apply(active[Min(T)], frame.data)
  <2> DEFINE hits == {i \in DOMAIN active :
                    /\ i <= MaxRules
                    /\ MaskId(active[i].can_id) = MaskId(frame.can_id)
                    /\ active[i].target \in
                          {"BOTH", IF source = "CAR_COMPUTER" THEN "TO_SYSTEM" ELSE "TO_CAR"}
                    /\ \/ active[i].data_mask = {}
                       \/ /\ active[i].data_index < Len(frame.data)
                          /\ frame.data[active[i].data_index + 1] \cap active[i].data_mask
                                = active[i].data_value}
  <2>1. \A i : i \in hits <=> i \in T
    <3>1. \A i : i \in DOMAIN active /\ i <= MaxRules <=> i \in 1 .. n
      BY <1>2
    <3>2. \A i \in 1 .. n : i \in hits <=> i \in T
      BY <1>2, <3>1, FitsAsPromised DEF id
    <3> QED
      BY <3>1, <3>2
  <2>2. hits = T
    BY <2>1
  <2>3. Promised(frame, source) = IF hits = {} THEN Passed(frame.data) ELSE Apply(active[Min(hits)], frame.data)
    BY DEF Promised
  <2> HIDE DEF hits, T
  <2> QED
    BY <2>2, <2>3
<1>10. \A i \in S : p[i] \in T
  BY <1>6
<1>11. ASSUME NEW j \in T PROVE \E i \in S : p[i] = j
  <2>1. PICK i \in 1 .. n : p[i] = j
    BY <1>6
  <2>2. rules[i] = s[j]
    BY <1>6, <2>1
  <2> QED
    BY <2>1, <2>2
<1>12. \A i, j \in S : i < j => p[i] < p[j]
  BY <1>6
<1>13. S \in SUBSET Nat /\ T \in SUBSET (1 .. n) /\ S \in SUBSET (1 .. n) /\ T \in SUBSET Nat
  BY <1>2
<1> HIDE DEF S, T
<1>14. CASE S = {}
  BY <1>8, <1>9, <1>11, <1>14
<1>15. CASE S # {}
  <2>1. T # {} /\ Min(T) = p[Min(S)]
    BY <1>10, <1>11, <1>12, <1>13, <1>15, LeastIsMapped
  <2>2. Min(S) \in 1 .. n
    BY <1>13, <1>15, LeastNumber
  <2>3. active[Min(T)] = rules[Min(S)]
    <3>1. p[Min(S)] \in 1 .. n /\ rules[Min(S)] = s[p[Min(S)]]
      BY <1>6, <2>2, Zenon
    <3>2. s[p[Min(S)]] = active[p[Min(S)]]
      BY <1>2, <3>1, Zenon
    <3> QED
      BY <2>1, <3>1, <3>2, Zenon
  <2> QED
    BY <1>8, <1>9, <1>15, <2>1, <2>3
<1> QED
  BY <1>14, <1>15

-----------------------------------------------------------------------------
(* Theorems *)

\* The invariant holds in every reachable state.
THEOREM InductiveInvariant ==
    ASSUME Countable
    PROVE  Spec => []IInv
<1>1. IInv /\ [Next]_vars => IInv'
  BY StepIInv
<1> QED
  BY InitIInv, <1>1, PTL DEF Spec

\* loadRules: as long as a command has fewer rules than the uint8_t count can hold, the
\* tables outside loadRules name exactly the rules of each id.
THEOREM TablesDescribeRules ==
    ASSUME Countable
    PROVE  Spec => []TablesConsistent
<1>1. IInv => TablesConsistent
  BY DEF IInv, LoadInv, TablesMatch, TablesConsistent
<1> QED
  BY InductiveInvariant, <1>1, PTL

\* process: as long as, besides, std::sort is stable, a frame is judged by the first rule of
\* the last complete command that fits it, at whatever time it arrives.
THEOREM FirstMatchDecides ==
    ASSUME Countable, Stable
    PROVE  Spec => JudgedAsPromised
<1> DEFINE Step == verdict' \notin {verdict, NoVerdict} =>
                       verdict'.result = Promised(verdict'.frame, verdict'.source)
<1>1. ASSUME IInv, Next PROVE Step
  <2>1. CASE Reinit \/ LoadReset \/ LoadCopy \/ LoadSort \/ LoadBuild
    BY <2>1 DEF Reinit, LoadReset, LoadCopy, LoadSort, LoadBuild
  <2>2. ASSUME NEW frame \in Frames, NEW source \in Sources, Process(frame, source) PROVE Step
    <3>1. step = "idle"
      BY <1>1, <2>2 DEF Process, IInv, LoadInv
    <3>2. Judge(frame, source) = Promised(frame, source)
      BY <1>1, <3>1, FirstMatchIsPromised
    <3>3. verdict'.result = Judge(frame, source) /\ verdict'.frame = frame /\ verdict'.source = source
      BY <2>2 DEF Process
    <3> QED
      BY <3>2, <3>3
  <2> QED
    BY <1>1, <2>1, <2>2 DEF Next
<1>2. IInv /\ [Next]_vars => [Step]_vars
  BY <1>1
<1> QED
  BY InductiveInvariant, <1>2, PTL DEF Spec, JudgedAsPromised
=============================================================================
