--------------------------- MODULE BatchDMLProofs ---------------------------
(***************************************************************************)
(* A batched UPDATE or DELETE, for every table, key, batch size and number *)
(* of crashes and stops: success leaves no row behind, no row is written   *)
(* twice, and an interrupted walk finds its last committed position again. *)
(***************************************************************************)
EXTENDS BatchDML, FiniteSetTheorems, WellFoundedInduction, TLAPS

(* The sizes are positive numbers, the keys and the statements too.          *)
LEMMA Constants ==
  /\ InitialRows \in Nat /\ MinRows \in Nat /\ MinRows > 0 /\ MaxRows \in Nat
  /\ EscalationCap \in Nat /\ MinRows <= MaxRows /\ MinRows <= EscalationCap
  /\ Est \in Nat /\ SmallTable \in Nat /\ UnknownTable \in Nat
  /\ Statement \subseteq Nat /\ 0 \notin Statement
  BY BatchAssumption

(* The least element of a set of numbers is one of them.                     *)
LEMMA MinIsLeast ==
  ASSUME NEW S \in SUBSET Nat, S # {}
  PROVE  Min(S) \in S /\ (\E x \in S : \A y \in S : x <= y)
<1> DEFINE less == {p \in Nat \X Nat : p[1] < p[2]}
<1>1. IsWellFoundedOn(less, Nat)
  BY NatLessThanWellFounded DEF OpToRel
<1>2. PICK x \in S : \A y \in S : ~(<<y, x>> \in less)
  BY <1>1, WFMin
<1>3. \A y \in S : x <= y
  <2>1. SUFFICES ASSUME NEW y \in S, y < x PROVE FALSE
    OBVIOUS
  <2>2. <<y, x>> \in less
    BY <2>1
  <2> QED
    BY <1>2, <2>2
<1> QED
  BY <1>3 DEF Min

(* A finite set of numbers has a greatest one: the one with the fewest above.  *)
LEMMA MaxIsThere ==
  ASSUME NEW S \in SUBSET Nat, IsFiniteSet(S), S # {}
  PROVE  Max(S) \in S /\ \A y \in S : y <= Max(S)
<1> DEFINE from(x) == {j \in S : j >= x}
           T == {Cardinality(from(x)) : x \in S}
<1>1. \A x \in S : IsFiniteSet(from(x)) /\ Cardinality(from(x)) \in Nat
  BY FS_Subset, FS_CardinalityType
<1>2. T \in SUBSET Nat /\ T # {}
  BY <1>1
<1>3. PICK x \in S : \A y \in S : ~(Cardinality(from(y)) < Cardinality(from(x)))
  <2>1. PICK c \in T : \A d \in T : c <= d
    BY <1>2, MinIsLeast
  <2> HIDE DEF from
  <2>2. PICK x \in S : c = Cardinality(from(x))
    BY <2>1
  <2>3. ASSUME NEW y \in S, Cardinality(from(y)) < Cardinality(from(x)) PROVE FALSE
    <3>1. Cardinality(from(y)) \in T
      OBVIOUS
    <3>2. Cardinality(from(x)) <= Cardinality(from(y))
      BY <2>1, <2>2, <3>1
    <3> QED
      BY <1>1, <2>3, <3>2
  <2> QED
    BY <2>3
<1>4. ASSUME NEW y \in S, ~(y <= x) PROVE FALSE
  <2>a. x \in Nat /\ y \in Nat /\ x < y
    BY <1>4
  <2>b. ASSUME NEW j \in from(y) PROVE j \in from(x)
    <3>1. j \in S /\ j \in Nat /\ j >= y
      OBVIOUS
    <3> QED
      BY <3>1, <2>a
  <2>c. x \in from(x)
    BY <2>a
  <2>d. x \notin from(y)
    BY <2>a
  <2>1. from(y) \subseteq from(x) /\ x \in from(x) /\ x \notin from(y)
    <3> HIDE DEF from
    <3> QED
      BY <2>b, <2>c, <2>d
  <2>2. Cardinality(from(y)) <= Cardinality(from(x)) /\ Cardinality(from(y)) # Cardinality(from(x))
    BY <1>1, <2>1, FS_Subset
  <2> QED
    BY <1>1, <1>3, <2>2
<1>5. \E z \in S : \A y \in S : z >= y
  BY <1>4
<1>6. Max(S) \in S /\ \A y \in S : Max(S) >= y
  BY <1>5 DEF Max
<1> QED
  BY <1>6

(* It has an n-th least, or fewer than n elements. *)
LEMMA NthLeast ==
  ASSUME NEW S \in SUBSET Nat, IsFiniteSet(S), S # {}, NEW n \in Nat \ {0}
  PROVE  \E k \in S : \/ Cardinality({j \in S : j <= k}) = n
                      \/ Cardinality({j \in S : j <= k}) < n /\ k = Max(S)
<1> DEFINE upTo(k) == {j \in S : j <= k}
           T == {k \in S : Cardinality(upTo(k)) >= n}
<1>1. \A k \in S : IsFiniteSet(upTo(k)) /\ Cardinality(upTo(k)) \in Nat
  BY FS_Subset, FS_CardinalityType
<1>2. CASE T = {}
  <2>1. Max(S) \in S
    BY MaxIsThere
  <2>2. Max(S) \notin T
    BY <1>2
  <2>3. Cardinality(upTo(Max(S))) < n
    <3>1. ~(Cardinality(upTo(Max(S))) >= n)
      BY <2>1, <2>2
    <3>2. Cardinality(upTo(Max(S))) \in Nat
      BY <1>1, <2>1, Zenon
    <3> HIDE DEF upTo
    <3> QED
      BY <3>1, <3>2
  <2> QED
    BY <2>1, <2>3, Zenon
<1>3. CASE T # {}
  <2>1. PICK k \in T : \A d \in T : k <= d
    BY <1>3, MinIsLeast
  <2>2. k \in S /\ Cardinality(upTo(k)) >= n
    BY <2>1
  <2>3. ASSUME Cardinality(upTo(k)) > n PROVE FALSE
    <3> DEFINE below == {j \in S : j < k}
    <3>a. \A j \in S : j \in Nat
      OBVIOUS
    <3>b. k \in Nat /\ \A j \in S : j < k <=> j <= k /\ j # k
      BY <2>2, <3>a
    <3>c. k \in upTo(k)
      BY <2>2, <3>b
    <3>d. below = upTo(k) \ {k}
      BY <3>b, Zenon
    <3>1. below = upTo(k) \ {k} /\ k \in upTo(k)
      BY <3>c, <3>d, Zenon
    <3>2. IsFiniteSet(below) /\ Cardinality(below) = Cardinality(upTo(k)) - 1
      <4>1. IsFiniteSet(upTo(k))
        BY <1>1, <2>2
      <4> HIDE DEF upTo, below
      <4> QED
        BY <4>1, <3>1, FS_RemoveElement
    <3>3. Cardinality(below) >= n
      BY <1>1, <2>2, <2>3, <3>2
    <3>4. below # {}
      BY <3>3, FS_EmptySet
    <3>5. PICK m \in below : \A y \in below : y <= m
      BY <3>2, <3>4, MaxIsThere
    <3>6. upTo(m) = below
      <4>1. k \in Nat /\ m \in S /\ m \in Nat /\ m < k
        BY <2>2, <3>a, <3>5
      <4>2. \A j \in S : j <= m <=> j < k
        BY <3>5, <3>a, <4>1
      <4> QED
        BY <4>2
    <3>7. m \in T /\ m < k
      BY <3>3, <3>5, <3>6
    <3> QED
      BY <2>1, <2>2, <3>7
  <2>4. Cardinality(upTo(k)) = n
    <3> HIDE DEF upTo
    <3> QED
      BY <1>1, <2>2, <2>3
  <2> WITNESS k \in S
  <2> QED
    BY <2>4, Zenon
<1> QED
  BY <1>2, <1>3

-----------------------------------------------------------------------------
Outcomes  == {"none", "success", "incomplete", "failed", "interrupted"}
Stages    == {"idle", "top", "ranged", "batch", "stopping", "relief", "save", "clear", "final"}
Positions == [fp : Statement \cup {0}, wm : Nat]
Tables    == [Row -> Statement \cup {0}]
Usage     == {u \in [Event -> Nat] : \A e \in Event : u[e] <= Budget[e]}
Sizes     == MinRows..MaxRows

(* The flags apart from the rest. *)
FlagsTyped == {drain, unsaved} \subseteq BOOLEAN

StateTyped ==
  /\ strategy \in Strategies /\ stmt \in Statement /\ column \in Column
  /\ outcome \in Outcomes /\ file \in Positions /\ val \in Tables /\ pc \in Stages
  /\ size \in Sizes
  /\ wm \in Nat /\ next \in Nat /\ rows \in Nat /\ stall \in Nat /\ waited \in Nat /\ got \in Nat
  /\ batch \in {"none", "running", "committed", "undone"}
  /\ pressure \in {"none", "blocking", "log"}
  /\ used \in Usage
  /\ touched \in SUBSET Row /\ redone \in SUBSET Row

LEMMA TypeParts == StateTyped /\ FlagsTyped => TypeOK
<1>1. ASSUME StateTyped PROVE \A e \in Event : used[e] \in 0..Budget[e]
  BY <1>1, Constants, BatchAssumption DEF StateTyped, Usage, Event, Budget
<1> QED
  BY <1>1 DEF StateTyped, FlagsTyped, TypeOK, Outcomes, Positions, Tables, Stages, Sizes

(* An event is spent only within its bound, and adds one to its own count.     *)
LEMMA SpendCounts ==
  ASSUME NEW e \in Event, used \in Usage, Spend(e)
  PROVE  /\ used' \in Usage
         /\ used'[e] = used[e] + 1
         /\ \A o \in Event \ {e} : used'[o] = used[o]
<1>1. used \in [Event -> Nat] /\ \A o \in Event : used[o] <= Budget[o]
  BY DEF Usage
<1>2. used' = [used EXCEPT ![e] = @ + 1] /\ used[e] < Budget[e]
  BY DEF Spend
<1>3. Budget[e] \in Nat
  BY BatchAssumption DEF Budget, Event
<1>4. used'[e] = used[e] + 1 /\ \A o \in Event \ {e} : used'[o] = used[o]
  BY <1>1, <1>2
<1>5. used' \in [Event -> Nat]
  BY <1>1, <1>2
<1>6. \A o \in Event : used'[o] <= Budget[o]
  BY <1>1, <1>2, <1>3, <1>4
<1> QED
  BY <1>4, <1>5, <1>6 DEF Usage

(* Whatever the size so far, the next one is between the bounds. *)
LEMMA ClampBounds == \A n \in Int : ClampRows(n) \in Sizes
<1>1. MinRows <= Hi /\ Hi <= MaxRows /\ Hi \in Nat
  BY Constants DEF Hi
<1> QED
  BY <1>1, Constants DEF ClampRows, Sizes

LEMMA AdjustedBounds == ASSUME size \in Sizes PROVE Adjusted \subseteq Sizes
<1>1. size \in Nat
  BY Constants DEF Sizes
<1>2. size \div 2 \in Int /\ 2 * size \in Int
  BY <1>1
<1> QED
  BY <1>1, <1>2, ClampBounds DEF Adjusted

LEMMA TotalTyped == ASSUME rows \in Nat, got \in Nat PROVE Total \in Nat
<1>1. RowCeiling \in Nat
  BY Constants DEF RowCeiling
<1>2. {rows + got, RowCeiling + MaxRows} \in SUBSET Nat /\ {rows + got, RowCeiling + MaxRows} # {}
  BY <1>1, Constants
<1> QED
  BY <1>2, MinIsLeast DEF Total

(* A batch is a finite part of the rows that need the statement.               *)
LEMMA BatchOfNeeds ==
  ASSUME StateTyped, NEW S \in Batches
  PROVE  /\ S \subseteq Needs /\ Needs \subseteq Where[stmt] /\ Where[stmt] \subseteq Row
         /\ IsFiniteSet(S) /\ Cardinality(S) \in Nat
<1>1. Needs \subseteq Where[stmt] /\ Where[stmt] \subseteq Row
  BY BatchAssumption DEF Needs, StateTyped
<1>2. S \subseteq Needs
  BY DEF Batches, kSubset, Above
<1>3. IsFiniteSet(S)
  BY <1>1, <1>2, BatchAssumption, FS_Subset
<1> QED
  BY <1>1, <1>2, <1>3, FS_CardinalityType

(* The position of the next batch is one of the keys above. *)
LEMMA NextKeyTyped ==
  ASSUME StateTyped, Above(wm) # {}
  PROVE  NextKey \in Nat
<1>1. /\ Above(wm) \subseteq Row /\ IsFiniteSet(Above(wm)) /\ Key[column] \in [Row -> Nat]
      /\ size \in Nat \ {0}
  <2>1. Where[stmt] \subseteq Row /\ Above(wm) \subseteq Where[stmt]
    BY BatchAssumption DEF Above, Needs, StateTyped
  <2>2. Key[column] \in [Row -> Nat]
    BY BatchAssumption DEF StateTyped
  <2>3. size \in Nat \ {0}
    BY Constants DEF StateTyped, Sizes
  <2> QED
    BY <2>1, <2>2, <2>3, BatchAssumption, FS_Subset
<1>2. KeysAbove(wm) \in SUBSET Nat /\ KeysAbove(wm) # {} /\ IsFiniteSet(KeysAbove(wm))
  <2>1. KeysAbove(wm) \in SUBSET Nat /\ KeysAbove(wm) # {}
    BY <1>1 DEF KeysAbove
  <2>2. IsFiniteSet(KeysAbove(wm))
    <3> DEFINE key == [r \in Above(wm) |-> Key[column][r]]
    <3>1. key \in Surjection(Above(wm), KeysAbove(wm))
      BY DEF KeysAbove, Surjection
    <3> HIDE DEF key
    <3> QED
      BY <1>1, <3>1, FS_Surjection
  <2> QED
    BY <2>1, <2>2
<1>3. \E k \in KeysAbove(wm) :
        \/ Cardinality({j \in KeysAbove(wm) : j <= k}) = size
        \/ Cardinality({j \in KeysAbove(wm) : j <= k}) < size /\ k = Max(KeysAbove(wm))
  BY <1>1, <1>2, NthLeast
<1>4. NextKey \in KeysAbove(wm)
  BY <1>3 DEF NextKey
<1> QED
  BY <1>2, <1>4

(* The initial states are typed. *)
LEMMA InitTyped == Init => StateTyped /\ FlagsTyped
<1> SUFFICES ASSUME Init PROVE StateTyped /\ FlagsTyped
  OBVIOUS
<1>1. stmt \in Statement /\ column \in Column
  <2>1. Min(Statement) \in Statement
    BY BatchAssumption, MinIsLeast
  <2> QED
    BY <2>1, BatchAssumption DEF Init
<1>2. used \in Usage
  BY BatchAssumption DEF Init, Usage, Budget, Event
<1>3. file \in Positions /\ val \in Tables /\ size \in Sizes
  BY Constants DEF Init, NoFile, Positions, Tables, Sizes
<1>4. FlagsTyped
  BY DEF Init, FlagsTyped
<1> QED
  BY <1>1, <1>2, <1>3, <1>4 DEF Init, StateTyped, Outcomes, Stages

LEMMA EndTyped ==
  ASSUME StateTyped, NEW o \in Outcomes, End(o), UNCHANGED pressure,
         file' \in Positions, UNCHANGED used
  PROVE  StateTyped'
  BY DEF End, StateTyped, Stages, server, history

LEMMA StateStep == StateTyped /\ [Next]_vars => StateTyped'
<1> SUFFICES ASSUME StateTyped, [Next]_vars PROVE StateTyped'
  OBVIOUS
<1> USE DEF manifest, runner, server, history
<1>a. NoFile \in Positions
  BY DEF NoFile, Positions
<1>b. file \in Positions /\ file' = file => file' \in Positions
  OBVIOUS
<1>1. CASE Start
  <2>1. ClampRows(InitialRows) \in Sizes
    BY ClampBounds, Constants
  <2>2. file.wm \in Nat /\ {} \in SUBSET Row
    BY DEF StateTyped, Positions
  <2>3. wm' \in Nat /\ touched' \in SUBSET Row
    BY <1>1, <2>2 DEF Start, StateTyped
  <2> QED
    BY <1>1, <2>1, <2>3 DEF Start, StateTyped, Stages, Outcomes
<1>2. CASE StopAtTop \/ QueryFails \/ BatchFails \/ PredicateRunsAway \/ Finalize
           \/ GivesUp \/ StopInRelief \/ ReliefBlind
  <2>1. file' \in Positions /\ UNCHANGED <<used, pressure>>
    BY <1>2, <1>a DEF StopAtTop, QueryFails, BatchFails, PredicateRunsAway, Finalize, GivesUp,
       StopInRelief, ReliefBlind, Close, StateTyped
  <2>2. PICK o \in Outcomes : End(o)
    BY <1>2 DEF StopAtTop, QueryFails, BatchFails, PredicateRunsAway, Finalize, GivesUp,
       StopInRelief, ReliefBlind, Outcomes
  <2> QED
    BY <2>1, <2>2, EndTyped
<1>3. CASE IssuePredicate \/ IssueRange
  BY <1>3 DEF IssuePredicate, IssueRange, Issue, StateTyped, Stages
<1>4. CASE ReadNextKey
  <2>1. next' \in Nat
    BY <1>4, NextKeyTyped DEF ReadNextKey, StateTyped
  <2> QED
    BY <1>4, <2>1 DEF ReadNextKey, StateTyped, Stages
<1>5. CASE BatchCommits
  <2>1. PICK S \in Batches :
          /\ got' = Cardinality(S)
          /\ val' = IF strategy = "raw" THEN val
                    ELSE [r \in Row |-> IF r \in S THEN stmt ELSE val[r]]
          /\ redone' = IF strategy = "raw" THEN redone
                       ELSE redone \cup {r \in S : val[r] = stmt}
    BY <1>5 DEF BatchCommits
  <2>2. S \subseteq Row /\ got' \in Nat
    BY <2>1, BatchOfNeeds
  <2>3. val' \in Tables
    BY <2>1 DEF StateTyped, Tables
  <2>4. redone' \in SUBSET Row
    BY <2>1, <2>2 DEF StateTyped
  <2> QED
    BY <1>5, <2>2, <2>3, <2>4 DEF BatchCommits, StateTyped
<1>6. CASE BatchUndone \/ PredicateExhausted \/ Stopped \/ PressureClears \/ Drain
  BY <1>6 DEF BatchUndone, PredicateExhausted, Stopped, PressureClears, Drain, StateTyped, Stages
<1>7. CASE PredicateCounts \/ RangeCounts
  <2>1. rows' \in Nat
    BY <1>7, TotalTyped DEF PredicateCounts, RangeCounts, StateTyped
  <2>2. size' \in Sizes
    BY <1>7, AdjustedBounds DEF PredicateCounts, RangeCounts, StateTyped
  <2>3. wm' \in Nat
    BY <1>7 DEF PredicateCounts, RangeCounts, StateTyped
  <2> QED
    BY <1>7, <2>1, <2>2, <2>3 DEF PredicateCounts, RangeCounts, Counted, StateTyped, Stages
<1>8. ASSUME NEW ok \in BOOLEAN, Save(ok) PROVE StateTyped'
  <2>1. file' \in Positions
    BY <1>8 DEF Save, Position, Positions, StateTyped
  <2>2. size' \in Sizes
    BY <1>8, AdjustedBounds DEF Save, StateTyped
  <2> QED
    BY <1>8, <2>1, <2>2 DEF Save, StateTyped, Stages
<1>9. CASE Clear
  BY <1>9, <1>a DEF Clear, Close, StateTyped, Stages
<1>10. ASSUME NEW p \in {"blocking", "log"}, React(p) PROVE StateTyped'
  <2>1. used' \in Usage
    BY <1>10, SpendCounts DEF React, StateTyped, Event
  <2> QED
    BY <1>10, <2>1 DEF React, StateTyped, Stages
<1>11. CASE WaitTick \/ Relieved
  <2>1. waited' \in Nat /\ stall' \in Nat
    BY <1>11 DEF WaitTick, Relieved, StateTyped
  <2> QED
    BY <1>11, <2>1 DEF WaitTick, Relieved, StateTyped, Stages
<1>12. CASE Crash
  <2>1. used' \in Usage
    BY <1>12, SpendCounts DEF Crash, StateTyped, Event
  <2> QED
    BY <1>12, <2>1 DEF Crash, StateTyped, Stages, Outcomes
<1>13. ASSUME NEW r \in Row, Touch(r) PROVE StateTyped'
  <2>1. used' \in Usage
    BY <1>13, SpendCounts DEF Touch, StateTyped, Event
  <2>2. val' \in Tables /\ touched' \in SUBSET Row
    BY <1>13 DEF Touch, StateTyped, Tables
  <2> QED
    BY <1>13, <2>1, <2>2 DEF Touch, StateTyped
<1>14. ASSUME NEW s \in Statement, EditStatement(s) PROVE StateTyped'
  <2>1. used' \in Usage
    BY <1>14, SpendCounts DEF EditStatement, Editable, StateTyped, Event
  <2> QED
    BY <1>14, <2>1 DEF EditStatement, StateTyped
<1>15. ASSUME NEW c \in Column, EditKey(c) PROVE StateTyped'
  <2>1. used' \in Usage
    BY <1>15, SpendCounts DEF EditKey, Editable, StateTyped, Event
  <2> QED
    BY <1>15, <2>1 DEF EditKey, StateTyped
<1>16. CASE Over \/ UNCHANGED vars
  BY <1>16 DEF Over, vars, StateTyped
<1> QED
  BY <1>1, <1>2, <1>3, <1>4, <1>5, <1>6, <1>7, <1>8, <1>9, <1>10, <1>11, <1>12, <1>13, <1>14,
     <1>15, <1>16 DEF Next, Runner

(* The flags: what a failed save and a drain set, and a fresh walk clears.      *)
LEMMA FlagsStep == FlagsTyped /\ [Next]_vars => FlagsTyped'
<1> SUFFICES ASSUME FlagsTyped, [Next]_vars PROVE FlagsTyped'
  OBVIOUS
<1>1. CASE Start
  BY <1>1, Zenon DEF Start, FlagsTyped
<1>2. ASSUME NEW ok \in BOOLEAN, Save(ok) PROVE FlagsTyped'
  BY <1>2, Zenon DEF Save, FlagsTyped
<1>3. CASE Drain
  BY <1>3, Zenon DEF Drain, FlagsTyped, history
<1>4. CASE UNCHANGED <<drain, unsaved>>
  BY <1>4, Zenon DEF FlagsTyped
<1>5. \/ Start \/ (\E ok \in BOOLEAN : Save(ok)) \/ Drain \/ UNCHANGED <<drain, unsaved>>
  BY DEF Next, Runner, StopAtTop, QueryFails, BatchFails, PredicateRunsAway, Finalize, GivesUp,
     StopInRelief, ReliefBlind, End, IssuePredicate, IssueRange, Issue, ReadNextKey, BatchCommits,
     BatchUndone, PredicateExhausted, Stopped, PressureClears, PredicateCounts, RangeCounts, Counted,
     Clear, React, WaitTick, Relieved, Crash, Touch, EditStatement, EditKey, Over, vars, history
<1> QED
  BY <1>1, <1>2, <1>3, <1>4, <1>5

(* Every reachable state is typed. *)
THEOREM BatchTyped == Spec => []TypeOK
<1>1. StateTyped /\ FlagsTyped /\ [Next]_vars => StateTyped' /\ FlagsTyped'
  BY StateStep, FlagsStep
<1>2. Spec => [](StateTyped /\ FlagsTyped)
  BY <1>1, InitTyped, PTL DEF Spec
<1> QED
  BY <1>2, TypeParts, PTL

-----------------------------------------------------------------------------
(* Every row the filter matches, up to a key, holds the target, but for the  *)
(* rows the application wrote meanwhile.                                     *)
SoundTo(k) == \A r \in Where[stmt] \ touched : Key[column][r] <= k => val[r] = stmt
Covered    == \A r \in Where[stmt] \ touched : val[r] = stmt

(* What is known of a walk, in memory and on disk, while the key is the one   *)
(* it began with: a position found again is that of the statement, and all    *)
(* below a position is done. A batch that committed is done before its        *)
(* position is.                                                               *)
Walked ==
  /\ ~KeyRange => file = NoFile /\ pc # "save"
  /\ used["edit"] = 0 => file.fp \in {0, stmt}
  /\ KeyRange => /\ file.fp = stmt => SoundTo(file.wm)
                 /\ pc # "idle" => SoundTo(wm)
                 /\ pc = "batch" /\ batch = "committed" => SoundTo(next)
  /\ ~KeyRange /\ pc = "batch" /\ batch = "committed" /\ got = 0 => Covered
  /\ pc \in {"clear", "final"} \/ outcome = "success" => Covered

FewEdits == used["rekey"] = 0 /\ used["edit"] <= 1

(* A batch that was asked for acts on rows that need it, and on all of them up  *)
(* to the key it was given.                                                     *)
LEMMA BatchIsWhole ==
  ASSUME StateTyped, NEW S \in Batches
  PROVE  /\ KeyRange => S = {r \in Above(wm) : Key[column][r] <= next}
         /\ ~KeyRange /\ Cardinality(S) = 0 => Needs = {}
<1>1. KeyRange => S = {r \in Above(wm) : Key[column][r] <= next}
  BY DEF Batches
<1>2. ASSUME ~KeyRange, Cardinality(S) = 0 PROVE Needs = {}
  <2>1. IsFiniteSet(Needs) /\ Cardinality(Needs) \in Nat
    BY BatchOfNeeds, BatchAssumption, FS_Subset, FS_CardinalityType
  <2>2. Cardinality(S) = IF Cardinality(Needs) < size THEN Cardinality(Needs) ELSE size
    BY <1>2 DEF Batches, kSubset
  <2>3. size \in Nat /\ size > 0
    BY Constants DEF StateTyped, Sizes
  <2>4. Cardinality(Needs) = 0
    BY <1>2, <2>1, <2>2, <2>3
  <2> QED
    BY <2>1, <2>4, FS_EmptySet
<1> QED
  BY <1>1, <1>2

(* What no row of the filter needs any more is done. *)
LEMMA NoNeedIsDone ==
  ASSUME Needs = {}
  PROVE  Covered
  BY DEF Needs, Covered

LEMMA NothingAbove ==
  ASSUME StateTyped, KeyRange, SoundTo(wm), Above(wm) = {}
  PROVE  Covered
<1>1. SUFFICES ASSUME NEW r \in Where[stmt] \ touched, val[r] # stmt PROVE FALSE
  BY DEF Covered
<1>2. r \in Needs
  BY <1>1 DEF Needs, KeyRange
<1>3. Key[column][r] \in Nat /\ wm \in Nat
  BY BatchAssumption, <1>1 DEF StateTyped
<1>4. Key[column][r] > wm
  BY <1>1, <1>3 DEF SoundTo
<1> QED
  BY <1>2, <1>4 DEF Above

(* The steps that leave the table, the position and the manifest's statement   *)
(* alone.                                                                      *)
LEMMA QuietStep ==
  ASSUME Walked, UNCHANGED <<strategy, stmt, column, val, file, touched>>,
         used'["edit"] = used["edit"],
         pc' # "idle" => pc # "idle" /\ wm' = wm,
         pc' = "batch" /\ batch' = "committed" =>
           pc = "batch" /\ batch = "committed" /\ got' = got /\ next' = next,
         pc' = "save" => pc = "save",
         pc' \in {"clear", "final"} \/ outcome' = "success" => Covered
  PROVE  Walked'
<1>1. \A k : SoundTo(k)' <=> SoundTo(k)
  BY DEF SoundTo
<1>2. Covered' <=> Covered
  BY DEF Covered
<1>3. KeyRange' <=> KeyRange
  BY DEF KeyRange
<1> QED
  BY <1>1, <1>2, <1>3 DEF Walked

(* The commit of a batch: what it wrote holds the target, and nothing that    *)
(* held it is lost.                                                           *)
LEMMA CommitCovers ==
  ASSUME StateTyped, Walked, BatchCommits
  PROVE  Walked'
<1>1. PICK S \in Batches :
        /\ got' = Cardinality(S)
        /\ val' = IF strategy = "raw" THEN val
                  ELSE [r \in Row |-> IF r \in S THEN stmt ELSE val[r]]
  BY DEF BatchCommits
<1>2. /\ UNCHANGED <<strategy, stmt, column, outcome, file, used, touched>>
      /\ UNCHANGED <<pc, wm, next>> /\ batch = "running" /\ batch' = "committed"
  BY DEF BatchCommits, manifest, runner
<1>3. S \subseteq Needs /\ S \subseteq Row /\ Where[stmt] \subseteq Row
  BY BatchOfNeeds
<1>4. \A r \in Where[stmt] : val[r] = stmt => val'[r] = stmt
  BY <1>1, <1>3
<1>5. ASSUME KeyRange PROVE \A r \in S : val'[r] = stmt
  BY <1>1, <1>3, <1>5 DEF KeyRange
<1>6. (\A k : SoundTo(k) => SoundTo(k)') /\ (Covered => Covered')
  BY <1>2, <1>4 DEF SoundTo, Covered
<1>7. ASSUME KeyRange, SoundTo(wm) PROVE SoundTo(next)'
  <2>1. SUFFICES ASSUME NEW r \in Where[stmt] \ touched, Key[column][r] <= next
        PROVE  val'[r] = stmt
    BY <1>2 DEF SoundTo
  <2>2. CASE val[r] = stmt
    BY <1>4, <2>2
  <2>3. CASE val[r] # stmt
    <3>1. Key[column][r] \in Nat /\ wm \in Nat
      BY BatchAssumption, <1>3 DEF StateTyped
    <3>2. Key[column][r] > wm
      BY <1>7, <2>1, <2>3, <3>1 DEF SoundTo
    <3>3. r \in Above(wm)
      BY <1>7, <2>3, <3>2 DEF Above, Needs, KeyRange
    <3>4. r \in S
      BY <1>7, <2>1, <3>3, BatchIsWhole
    <3> QED
      BY <1>5, <1>7, <3>4
  <2> QED
    BY <2>2, <2>3
<1>8. ASSUME ~KeyRange, Cardinality(S) = 0 PROVE Covered
  BY <1>8, BatchIsWhole, NoNeedIsDone
<1>9. KeyRange' <=> KeyRange
  BY <1>2 DEF KeyRange
<1> QED
  BY <1>1, <1>2, <1>6, <1>7, <1>8, <1>9 DEF Walked

(* Whatever happens before the second edit, a position is that of its rows.     *)
LEMMA WalkedStep ==
  ASSUME StateTyped, FewEdits => Walked, [Next]_vars, FewEdits'
  PROVE  Walked'
<1> USE DEF manifest, runner, server, history
<1>u. used \in Usage /\ used \in [Event -> Nat]
  BY DEF StateTyped, Usage
<1>v. ASSUME UNCHANGED used PROVE Walked
  BY <1>v DEF FewEdits
<1>w. ASSUME NEW e \in Event \ {"rekey"}, Spend(e) PROVE Walked /\ (e # "edit" => used'["edit"] = used["edit"])
  <2>1. used'["rekey"] = used["rekey"] /\ used["edit"] <= used'["edit"] /\ used["edit"] \in Nat
    BY <1>u, <1>w, SpendCounts DEF Event
  <2>2. used["edit"] <= 1 /\ used["rekey"] = 0
    BY <2>1, <1>u, <1>w, SpendCounts DEF FewEdits, Event
  <2>3. e # "edit" => used'["edit"] = used["edit"]
    BY <1>u, <1>w, SpendCounts DEF Event
  <2> QED
    BY <2>2, <2>3 DEF FewEdits
<1>1. CASE Start
  <2>1. Walked
    BY <1>1, <1>v DEF Start
  <2>2. /\ UNCHANGED <<strategy, stmt, column, file, val, used>>
        /\ wm' = (IF Resumes THEN file.wm ELSE 0) /\ touched' = (IF Resumes THEN touched ELSE {})
        /\ pc' = "top" /\ outcome' = "none"
    BY <1>1 DEF Start
  <2>3. KeyRange' <=> KeyRange
    BY <2>2 DEF KeyRange
  <2>4. ASSUME KeyRange, Resumes PROVE SoundTo(file.wm) /\ touched' = touched
    BY <2>1, <2>2, <2>4 DEF Walked, Resumes
  <2>5. ASSUME KeyRange, ~Resumes PROVE file.fp # stmt
    <3>1. NoFile.fp # stmt
      BY Constants DEF NoFile, StateTyped
    <3> QED
      BY <2>5, <3>1 DEF Resumes
  <2>6. ASSUME KeyRange, wm' = 0 PROVE SoundTo(wm)'
    <3>1. \A r \in Where[stmt] : Key[column][r] \in Nat \ {0}
      BY BatchAssumption DEF StateTyped
    <3> QED
      BY <2>2, <2>6, <3>1 DEF SoundTo
  <2>7. ASSUME KeyRange PROVE SoundTo(wm)' /\ (file.fp = stmt => SoundTo(file.wm)')
    BY <2>2, <2>4, <2>5, <2>6, <2>7 DEF SoundTo
  <2> QED
    BY <2>1, <2>2, <2>3, <2>7 DEF Walked
<1>2. CASE BatchCommits
  BY <1>2, <1>v, CommitCovers DEF BatchCommits
<1>3. CASE ReadNextKey
  <2>1. Walked
    BY <1>3, <1>v DEF ReadNextKey
  <2>2. pc' = "clear" => Covered
    BY <1>3, <2>1, NothingAbove DEF ReadNextKey, Walked
  <2>3. outcome = "success" => Covered
    BY <2>1 DEF Walked
  <2> QED
    BY <1>3, <2>1, <2>2, <2>3, QuietStep DEF ReadNextKey
<1>4. CASE RangeCounts
  <2>1. Walked
    BY <1>4, <1>v DEF RangeCounts, Counted
  <2>2. KeyRange /\ SoundTo(next) /\ (outcome = "success" => Covered)
    BY <1>4, <2>1 DEF RangeCounts, Walked
  <2>3. /\ UNCHANGED <<strategy, stmt, column, outcome, file, val, used, touched>>
        /\ wm' = next /\ pc' = "save"
    BY <1>4 DEF RangeCounts, Counted
  <2>4. (\A k : SoundTo(k)' <=> SoundTo(k)) /\ (Covered' <=> Covered) /\ (KeyRange' <=> KeyRange)
    BY <2>3 DEF SoundTo, Covered, KeyRange
  <2> QED
    BY <2>1, <2>2, <2>3, <2>4 DEF Walked
<1>5. ASSUME NEW ok \in BOOLEAN, Save(ok) PROVE Walked'
  <2>1. Walked
    BY <1>5, <1>v DEF Save
  <2>2. /\ UNCHANGED <<strategy, stmt, column, outcome, wm, val, used, touched>>
        /\ file' = Position \/ file' = file
        /\ pc = "save" /\ pc' = "top"
    BY <1>5 DEF Save
  <2>3. Position.fp = stmt /\ Position.wm = wm
    BY DEF Position
  <2>4. (\A k : SoundTo(k)' <=> SoundTo(k)) /\ (Covered' <=> Covered) /\ (KeyRange' <=> KeyRange)
    BY <2>2 DEF SoundTo, Covered, KeyRange
  <2>5. KeyRange => SoundTo(wm)
    BY <2>1, <2>2 DEF Walked
  <2>6. KeyRange
    BY <2>1, <2>2 DEF Walked
  <2> QED
    BY <2>1, <2>2, <2>3, <2>4, <2>5, <2>6 DEF Walked
<1>6. CASE Clear
  <2>1. Walked
    BY <1>6, <1>v DEF Clear, Close
  <2>2. /\ UNCHANGED <<strategy, stmt, column, outcome, wm, val, used, touched>>
        /\ file' = (IF KeyRange THEN NoFile ELSE file)
        /\ pc = "clear" /\ pc' = "final"
    BY <1>6 DEF Clear, Close, Clears
  <2>3. NoFile.fp = 0 /\ stmt # 0
    BY Constants DEF NoFile, StateTyped
  <2>4. (\A k : SoundTo(k)' <=> SoundTo(k)) /\ (Covered' <=> Covered) /\ (KeyRange' <=> KeyRange)
    BY <2>2 DEF SoundTo, Covered, KeyRange
  <2> QED
    BY <2>1, <2>2, <2>3, <2>4 DEF Walked
<1>7. ASSUME NEW r \in Row, Touch(r) PROVE Walked'
  <2>1. Walked /\ used'["edit"] = used["edit"]
    BY <1>7, <1>w DEF Touch, Event
  <2>2. /\ UNCHANGED <<strategy, stmt, column, outcome, file, pc, wm, next, batch, got>>
        /\ val' = [val EXCEPT ![r] = 0] /\ touched' = touched \cup {r}
    BY <1>7 DEF Touch
  <2>3. val \in [Row -> Statement \cup {0}] /\ Where[stmt] \subseteq Row
    BY BatchAssumption DEF StateTyped, Tables
  <2>4. \A q \in Where[stmt] \ touched' : q \in Where[stmt] \ touched /\ val'[q] = val[q]
    BY <2>2, <2>3
  <2>5. (\A k : SoundTo(k) => SoundTo(k)') /\ (Covered => Covered') /\ (KeyRange' <=> KeyRange)
    BY <2>2, <2>4 DEF SoundTo, Covered, KeyRange
  <2> QED
    BY <2>1, <2>2, <2>5 DEF Walked
<1>8. ASSUME NEW s \in Statement, EditStatement(s) PROVE Walked'
  <2>1. Spend("edit")
    BY <1>8 DEF EditStatement, Editable
  <2>2. Walked /\ used'["edit"] = used["edit"] + 1 /\ used["edit"] \in Nat
    BY <1>u, <1>w, <2>1, SpendCounts DEF Event
  <2>3. used["edit"] = 0 /\ used'["edit"] # 0
    BY <2>2 DEF FewEdits
  <2>4. file.fp # s
    BY <1>8, <2>2, <2>3, Constants DEF Walked, EditStatement
  <2>5. /\ UNCHANGED <<strategy, column, outcome, file, pc, wm, next, batch, got>>
        /\ pc = "idle" /\ outcome # "success" /\ stmt' = s
    BY <1>8 DEF EditStatement, Editable
  <2> QED
    BY <2>2, <2>3, <2>4, <2>5 DEF Walked, KeyRange
<1>9. ASSUME NEW c \in Column, EditKey(c) PROVE Walked'
  <2>1. Spend("rekey")
    BY <1>9 DEF EditKey, Editable
  <2>2. used'["rekey"] = used["rekey"] + 1 /\ used["rekey"] \in Nat
    BY <1>u, <2>1, SpendCounts DEF Event
  <2> QED
    BY <2>2 DEF FewEdits
<1>10. CASE PredicateExhausted
  <2>1. Walked
    BY <1>10, <1>v DEF PredicateExhausted
  <2>2. Covered
    BY <1>10, <2>1 DEF PredicateExhausted, Walked
  <2> QED
    BY <1>10, <2>1, <2>2, QuietStep DEF PredicateExhausted
<1>11. CASE \/ StopAtTop \/ QueryFails \/ BatchFails \/ PredicateRunsAway \/ Finalize
            \/ GivesUp \/ StopInRelief \/ ReliefBlind
  <2>1. UNCHANGED used
    BY <1>11 DEF StopAtTop, QueryFails, BatchFails, PredicateRunsAway, Finalize, GivesUp, Close,
       StopInRelief, ReliefBlind
  <2>2. Walked
    BY <2>1, <1>v
  <2>3. UNCHANGED <<strategy, stmt, column, val, file, touched>> /\ pc' = "idle"
    BY <1>11 DEF StopAtTop, QueryFails, BatchFails, PredicateRunsAway, Finalize, GivesUp, Close,
       Clears, StopInRelief, ReliefBlind, End
  <2>4. outcome' = "success" => Covered
    BY <1>11, <2>2 DEF StopAtTop, QueryFails, BatchFails, PredicateRunsAway, Finalize, GivesUp,
       StopInRelief, ReliefBlind, End, Walked
  <2> QED
    BY <2>1, <2>2, <2>3, <2>4, QuietStep
<1>12. CASE \/ IssuePredicate \/ IssueRange \/ BatchUndone \/ PredicateCounts \/ Stopped
            \/ WaitTick \/ Relieved \/ PressureClears \/ Drain \/ Over \/ UNCHANGED vars
  <2>1. UNCHANGED used
    BY <1>12 DEF IssuePredicate, IssueRange, Issue, BatchUndone, PredicateCounts, Counted, Stopped,
       WaitTick, Relieved, PressureClears, Drain, Over, vars
  <2>2. Walked
    BY <2>1, <1>v
  <2>3. /\ UNCHANGED <<strategy, stmt, column, val, file, touched, outcome>>
        /\ (pc' # "idle" => pc # "idle" /\ wm' = wm)
        /\ (pc' = "batch" /\ batch' = "committed" =>
              pc = "batch" /\ batch = "committed" /\ got' = got /\ next' = next)
        /\ (pc' = "save" => pc = "save")
        /\ (pc' \in {"clear", "final"} => pc \in {"clear", "final"})
    BY <1>12 DEF IssuePredicate, IssueRange, Issue, BatchUndone, PredicateCounts, Counted, Stopped,
       WaitTick, Relieved, PressureClears, Drain, Over, vars
  <2>4. pc' \in {"clear", "final"} \/ outcome' = "success" => Covered
    BY <2>2, <2>3 DEF Walked
  <2> QED
    BY <2>1, <2>2, <2>3, <2>4, QuietStep
<1>13. ASSUME NEW p \in {"blocking", "log"}, React(p) PROVE Walked'
  <2>1. Walked /\ used'["edit"] = used["edit"]
    BY <1>13, <1>w DEF React, Event
  <2>2. outcome = "success" => Covered
    BY <2>1 DEF Walked
  <2> QED
    BY <1>13, <2>1, <2>2, QuietStep DEF React
<1>14. CASE Crash
  <2>1. Walked /\ used'["edit"] = used["edit"]
    BY <1>14, <1>w DEF Crash, Event
  <2> QED
    BY <1>14, <2>1, QuietStep DEF Crash
<1> QED
  BY <1>1, <1>2, <1>3, <1>4, <1>5, <1>6, <1>7, <1>8, <1>9, <1>10, <1>11, <1>12, <1>13, <1>14
     DEF Next, Runner

(* Whatever the table, the batches, the crashes, the stops and the late        *)
(* commits: success means that no row the filter matches was left behind.      *)
THEOREM NoRowIsSkipped == Spec => []NothingSkipped
<1>1. Init => (FewEdits => Walked)
  <2> SUFFICES ASSUME Init PROVE Walked
    OBVIOUS
  <2>1. file.fp = 0 /\ file = NoFile /\ pc = "idle" /\ outcome = "none" /\ stmt # 0
    BY InitTyped, Constants DEF Init, NoFile, StateTyped
  <2> QED
    BY <2>1 DEF Walked
<1>2. StateTyped /\ FlagsTyped /\ (FewEdits => Walked) /\ [Next]_vars
        => StateTyped' /\ FlagsTyped' /\ (FewEdits => Walked)'
  BY StateStep, FlagsStep, WalkedStep
<1>3. (FewEdits => Walked) => NothingSkipped
  BY DEF FewEdits, Walked, Covered, NothingSkipped, NeverSkips
<1> QED
  BY <1>1, <1>2, <1>3, InitTyped, PTL DEF Spec

(* A statement that names the rows it acts on by what they do not yet hold      *)
(* writes no row twice.                                                         *)
THEOREM NoRowIsRedone == Spec => []AppliedOnce
<1>1. Init => AppliedOnce
  BY DEF Init, AppliedOnce
<1>2. StateTyped /\ AppliedOnce /\ [Next]_vars => AppliedOnce'
  <2> SUFFICES ASSUME StateTyped, redone = {}, [Next]_vars PROVE redone' = {}
    BY DEF AppliedOnce
  <2>1. CASE BatchCommits
    <3>1. PICK S \in Batches : redone' = IF strategy = "raw" THEN redone
                                         ELSE redone \cup {r \in S : val[r] = stmt}
      BY <2>1 DEF BatchCommits
    <3>2. S \subseteq Needs
      BY BatchOfNeeds
    <3>3. strategy # "raw" => \A r \in S : val[r] # stmt
      BY <3>2 DEF Needs
    <3> QED
      BY <3>1, <3>3
  <2>2. BatchCommits \/ UNCHANGED redone
    BY DEF Next, Runner, Start, StopAtTop, QueryFails, BatchFails, PredicateRunsAway, Finalize,
       GivesUp, StopInRelief, ReliefBlind, End, IssuePredicate, IssueRange, Issue, ReadNextKey,
       BatchUndone, PredicateExhausted, Stopped, PressureClears, PredicateCounts, RangeCounts,
       Counted, Save, Clear, React, WaitTick, Relieved, Crash, Drain, Touch, EditStatement,
       EditKey, Over, vars, history
  <2> QED
    BY <2>1, <2>2
<1>3. StateTyped /\ FlagsTyped /\ [Next]_vars => StateTyped' /\ FlagsTyped'
  BY StateStep, FlagsStep
<1> QED
  BY <1>1, <1>2, <1>3, InitTyped, PTL DEF Spec

-----------------------------------------------------------------------------
(* Where the position of a walk is: on disk, unless the batch that moved it is *)
(* still to be saved, its save failed, or a crash came in between.             *)
Unedited == used["edit"] + used["rekey"] = 0

Settled ==
  /\ pc \notin {"save", "final"}
  /\ pc = "idle" => \/ outcome \in {"incomplete", "failed"}
                    \/ outcome = "interrupted" /\ used["crash"] = 0

PositionSaved == KeyRange /\ wm > 0 /\ ~unsaved /\ Unedited /\ Settled => file = Position

(* An event used stays used. *)
LEMMA UsageGrows ==
  ASSUME used \in Usage, NEW e \in Event, Spend(e)
  PROVE  /\ Unedited' => Unedited /\ e \notin {"edit", "rekey"}
         /\ used'["crash"] = 0 => used["crash"] = 0 /\ e # "crash"
<1>1. used \in [Event -> Nat]
  BY DEF Usage
<1> QED
  BY <1>1, SpendCounts DEF Unedited, Event

(* The steps that move neither the walk nor its position. *)
LEMMA PositionStays ==
  ASSUME PositionSaved, UNCHANGED <<strategy, stmt, file, wm, unsaved>>,
         Unedited' => Unedited, Settled' => Settled \/ ~KeyRange
  PROVE  PositionSaved'
  BY DEF PositionSaved, KeyRange, Position

LEMMA PositionStep ==
  ASSUME StateTyped, PositionSaved, [Next]_vars
  PROVE  PositionSaved'
<1> USE DEF manifest, runner, server, history
<1>u. used \in Usage
  BY DEF StateTyped
<1>1. CASE Start
  <2>1. /\ UNCHANGED <<strategy, stmt, file>>
        /\ wm' = (IF Resumes THEN file.wm ELSE 0)
    BY <1>1 DEF Start
  <2>2. ASSUME Resumes PROVE file = [fp |-> stmt, wm |-> file.wm]
    BY <2>2 DEF Resumes, StateTyped, Positions
  <2> QED
    BY <2>1, <2>2 DEF PositionSaved, Position
<1>2. ASSUME NEW ok \in BOOLEAN, Save(ok) PROVE PositionSaved'
  <2>1. /\ UNCHANGED <<stmt, wm>> /\ pc' = "top"
        /\ file' = (IF ok THEN Position ELSE file) /\ unsaved' = (unsaved \/ ~ok)
    BY <1>2 DEF Save
  <2>2. CASE ok
    <3>1. file' = Position /\ Position' = Position
      BY <2>1, <2>2 DEF Position
    <3> QED
      BY <3>1 DEF PositionSaved
  <2>3. CASE ~ok
    BY <2>1, <2>3, Zenon DEF PositionSaved
  <2> QED
    BY <2>2, <2>3
<1>3. CASE RangeCounts \/ Clear
  BY <1>3 DEF RangeCounts, Clear, PositionSaved, Settled
<1>4. CASE PredicateCounts
  BY <1>4, PositionStays DEF PredicateCounts, Counted, Settled, Unedited
<1>5. ASSUME NEW p \in {"blocking", "log"}, React(p) PROVE PositionSaved'
  <2>1. Unedited' => Unedited
    BY <1>5, <1>u, UsageGrows DEF React, Event
  <2>2. Settled
    BY <1>5 DEF React, Settled
  <2> QED
    BY <1>5, <2>1, <2>2, PositionStays DEF React
<1>6. CASE Crash
  <2>1. pc' = "idle" /\ outcome' = "interrupted" /\ used'["crash"] # 0
    BY <1>6, <1>u, UsageGrows DEF Crash, Event
  <2> QED
    BY <2>1 DEF PositionSaved, Settled
<1>7. ASSUME NEW r \in Row, Touch(r) PROVE PositionSaved'
  <2>1. (Unedited' => Unedited) /\ (used'["crash"] = 0 => used["crash"] = 0)
    BY <1>7, <1>u, UsageGrows DEF Touch, Event
  <2>2. Settled' => Settled
    BY <1>7, <2>1 DEF Touch, Settled
  <2> QED
    BY <1>7, <2>1, <2>2, PositionStays DEF Touch
<1>8. ASSUME NEW s \in Statement, EditStatement(s) PROVE PositionSaved'
  <2>1. ~Unedited'
    BY <1>8, <1>u, UsageGrows DEF EditStatement, Editable, Event
  <2> QED
    BY <2>1 DEF PositionSaved
<1>9. ASSUME NEW c \in Column, EditKey(c) PROVE PositionSaved'
  <2>1. ~Unedited'
    BY <1>9, <1>u, UsageGrows DEF EditKey, Editable, Event
  <2> QED
    BY <2>1 DEF PositionSaved
<1>10. CASE \/ StopAtTop \/ QueryFails \/ BatchFails \/ PredicateRunsAway \/ Finalize
            \/ GivesUp \/ StopInRelief \/ ReliefBlind
  <2>1. /\ UNCHANGED <<strategy, stmt, file, wm, unsaved, used>>
        /\ Settled' => Settled
    BY <1>10 DEF StopAtTop, QueryFails, BatchFails, PredicateRunsAway, Finalize, GivesUp, Close,
       Clears, StopInRelief, ReliefBlind, End, Settled
  <2> QED
    BY <2>1, PositionStays DEF Unedited
<1>11. CASE \/ IssuePredicate \/ IssueRange \/ ReadNextKey \/ BatchCommits \/ BatchUndone
            \/ PredicateExhausted \/ Stopped \/ WaitTick \/ Relieved \/ PressureClears \/ Drain
            \/ Over \/ UNCHANGED vars
  <2>1. /\ UNCHANGED <<strategy, stmt, file, wm, unsaved, used, outcome>>
        /\ pc' = pc \/ (pc \notin {"idle", "save", "final"} /\ pc' # "idle")
    BY <1>11 DEF IssuePredicate, IssueRange, Issue, ReadNextKey, BatchCommits, BatchUndone,
       PredicateExhausted, Stopped, WaitTick, Relieved, PressureClears, Drain, Over, vars
  <2>2. Settled' => Settled
    BY <2>1 DEF Settled
  <2> QED
    BY <2>1, <2>2, PositionStays DEF Unedited
<1> QED
  BY <1>1, <1>2, <1>3, <1>4, <1>5, <1>6, <1>7, <1>8, <1>9, <1>10, <1>11 DEF Next, Runner

(* Whatever the walk and however it was stopped, abandoned or failed: its      *)
(* last committed batch is the position the next run begins at.                *)
THEOREM PositionSurvives == Spec => []ResumePointKept
<1>1. Init => PositionSaved
  BY DEF Init, PositionSaved
<1>2. StateTyped /\ FlagsTyped /\ PositionSaved /\ [Next]_vars
        => StateTyped' /\ FlagsTyped' /\ PositionSaved'
  BY StateStep, FlagsStep, PositionStep
<1>3. PositionSaved => ResumePointKept
  BY DEF PositionSaved, Settled, Unedited, ResumePointKept
<1> QED
  BY <1>1, <1>2, <1>3, InitTyped, PTL DEF Spec
=============================================================================
