--------------------------- MODULE MCFilterEngine ---------------------------
(***************************************************************************)
(* FilterEngine for TLC.  Two ids (a third value of can_id carries a flag   *)
(* bit above the mask), one-bit bytes, payloads of up to two bytes.         *)
(***************************************************************************)
EXTENDS FilterEngine

Flip(k) == [j \in 1 .. 8 |-> IF j = k THEN {0} ELSE {}]

MakeRule(can_id, index, mask, value, action, target) ==
    [can_id |-> can_id, data_index |-> index, data_mask |-> mask, data_value |-> value,
     action_type |-> action, target |-> target,
     modification_data |-> Flip(1), modification_mask |-> Flip(1)]

MCRules ==
    { MakeRule(0, 0, {}, {}, "DROP", "BOTH"),
      MakeRule(0, 0, {}, {}, "PASS", "TO_SYSTEM"),
      MakeRule(2, 1, {0}, {0}, "MODIFY", "TO_CAR"),
      MakeRule(1, 0, {0}, {}, "DROP", "TO_CAR") }

MCFrames ==
    { [can_id |-> id, data |-> d] :
        id \in {0, 1, 2},
        d \in { <<>>, <<{}>>, <<{0}>>, <<{}, {}>>, <<{}, {0}>> } }
=============================================================================
