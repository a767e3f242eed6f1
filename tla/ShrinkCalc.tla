----------------------------- MODULE ShrinkCalc -----------------------------
(* The arithmetic of the shrink driver: chunk sizes and chunk targets, in MB. *)
EXTENDS Integers

CONSTANTS
  MinStep, MaxStep,        \* shrink.min_step_mb, shrink.max_step_mb
  MaxStepPct,              \* max_step_pct_of_file; 0 disables it
  TargetChunks,            \* target_chunks; 0 selects the tiers
  TierStep,                \* initial_step_{small,medium,large}_mb
  SmallCeiling, MediumCeiling

ASSUME CalcAssumption ==
  /\ {MinStep, MaxStep} \subseteq Nat \ {0} /\ MinStep <= MaxStep
  /\ {MaxStepPct, TargetChunks, SmallCeiling, MediumCeiling} \subseteq Nat
  /\ TierStep \in [{"small", "medium", "large"} -> Nat \ {0}]

Least(a, b)    == IF a <= b THEN a ELSE b
Greatest(a, b) == IF a >= b THEN a ELSE b

ClampStep(step, ceiling) == Least(Greatest(step, MinStep), ceiling)

(* The ceiling of one file: a percentage of it, never under the floor. *)
EffectiveMaxStep(fileSize) ==
  Greatest(MinStep,
           IF MaxStepPct > 0 THEN Least(MaxStep, (fileSize * MaxStepPct) \div 100) ELSE MaxStep)

Tier(reclaim) ==
  TierStep[IF reclaim < SmallCeiling THEN "small"
           ELSE IF reclaim <= MediumCeiling THEN "medium" ELSE "large"]

InitialStep(reclaim, fileSize) ==
  ClampStep(IF TargetChunks > 0 THEN (reclaim + TargetChunks - 1) \div TargetChunks
                                ELSE Tier(reclaim),
            EffectiveMaxStep(fileSize))

HalveStep(step, ceiling) == ClampStep(step \div 2, ceiling)

(* pressed: the chunk was stopped, or its waits passed a threshold; quick: it *)
(* ended under max_chunk_seconds.                                             *)
AdjustStep(step, pressed, quick, ceiling) ==
  IF pressed THEN HalveStep(step, ceiling)
  ELSE ClampStep(IF quick THEN Greatest((step * 5) \div 4, step + 1) ELSE step, ceiling)

NextTarget(current, step, final) == Greatest(current - step, final)

=============================================================================
