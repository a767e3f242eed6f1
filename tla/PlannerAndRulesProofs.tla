----------------------- MODULE PlannerAndRulesProofs ------------------------
(***************************************************************************)
(* Two components that share nothing but this module.                      *)
(* The session rules of a running manifest, for every set of rules and any *)
(* number of writers' steps: an edit is honoured by the next poll, a rule  *)
(* nobody took away stays in force, and the recovery manifest carries the  *)
(* exclusions the file had when the operations were over.                  *)
(* The maintenance planner, for every inventory, profile and history: no   *)
(* work is planned twice, what a plan leaves out as redundant is done by   *)
(* the rest of it, and a plan that ran undisturbed leaves nothing to       *)
(* rebuild.                                                                *)
(***************************************************************************)
EXTENDS LiveRules, MaintPlanner, FiniteSetTheorems, WellFoundedInduction, TLAPS

----------------------------------------------------------------------------
(* The session rules *)

Stages     == {"claimed", "loaded", "run", "final", "read", "moved", "ended"}
Ends       == {"none", "done", "failed", "partial", "stays"}
FileStates == [there : BOOLEAN, ok : BOOLEAN, rules : Rules]
Told       == Rules \cup {NoRules}

(* The parts of the state that are numbers or rules, the flags, the file.    *)
EngineTyped ==
  /\ pc \in Stages /\ end \in Ends
  /\ mem \in Rules /\ kept \in SUBSET Rule
  /\ console \in Told /\ recovery \in Told /\ final \in Told
  /\ editor \in {"idle", "torn"} /\ steady \in Rules

SourcesTyped ==
  /\ armed \in SUBSET Kind
  /\ clock \in 0..MaxWrites /\ mtime \in 0..clock
  /\ \A k \in Kind : src[k].mod \in 0..clock /\ src[k].cur \in SUBSET Rule
  /\ src \in [Kind -> [mod : Nat, cur : SUBSET Rule]]
  /\ settled \in [Kind -> {"no", "stat", "yes"}]

FlagsTyped == polling \in [Kind -> BOOLEAN] /\ {edited, sharp} \subseteq BOOLEAN

FileTyped == disk \in FileStates

Typed == EngineTyped /\ SourcesTyped /\ FlagsTyped /\ FileTyped

(* Together they are the type invariant.                                     *)
LEMMA TypedIsTypeOK == Typed => TypeOK
<1> SUFFICES ASSUME Typed PROVE TypeOK
  OBVIOUS
<1>1. src \in [Kind -> [mod : 0..clock, cur : SUBSET Rule]]
  <2>1. \A k \in Kind : src[k] \in [mod : 0..clock, cur : SUBSET Rule]
    BY DEF Typed, SourcesTyped
  <2> QED
    BY <2>1 DEF Typed, SourcesTyped
<1> QED
  BY <1>1 DEF Typed, TypeOK, EngineTyped, SourcesTyped, FlagsTyped, FileTyped, Stages, Ends,
     FileStates, Told

(* What a writer may do: a whole version of any rules, or a torn one of those *)
(* that are there, with a new time or an older one.                          *)
Rewrite ==
  \E rules \in Rules, ok \in BOOLEAN, stamp \in Nat :
    /\ stamp <= clock + 1 /\ (ok \/ rules = disk.rules)
    /\ Write(rules, ok, stamp)

LEMMA EditsAreRules ==
  ASSUME FileTyped, NEW k \in Kind, NEW rules \in Adds(k) \cup Drops(k)
  PROVE  rules \in Rules
<1>1. disk.rules \in Rules
  BY DEF FileTyped, FileStates
<1>2. ASSUME NEW r \in Rule PROVE [disk.rules EXCEPT ![k] = @ \cup {r}] \in Rules
  BY <1>1 DEF Rules
<1>3. ASSUME NEW r PROVE [disk.rules EXCEPT ![k] = @ \ {r}] \in Rules
  BY <1>1 DEF Rules
<1> QED
  BY <1>2, <1>3 DEF Adds, Drops

(* The four ways the file is written are rewrites; what else they change is   *)
(* the writer's own state.                                                   *)
LEMMA Writers ==
  ASSUME Typed,
         \/ \E k \in Kind : \E rules \in Adds(k) \cup Drops(k) : HandSave(rules) \/ HandFinish(rules)
         \/ HandTruncate \/ ConsoleWrites
  PROVE  Rewrite /\ editor' \in {"idle", "torn"} /\ console' \in Told
<1> USE DEF Typed
<1>1. clock \in Nat /\ mtime \in Nat /\ mtime <= clock /\ clock + 1 \in Nat
  BY RulesAssumption DEF SourcesTyped
<1>a. disk.rules \in Rules /\ editor \in {"idle", "torn"} /\ console \in Told
  BY DEF FileTyped, FileStates, EngineTyped
<1>2. ASSUME NEW k \in Kind, NEW rules \in Adds(k) \cup Drops(k), HandSave(rules) \/ HandFinish(rules)
      PROVE  Rewrite /\ editor' \in {"idle", "torn"} /\ console' \in Told
  <2>1. rules \in Rules
    BY EditsAreRules
  <2>2. Write(rules, TRUE, clock + 1) \/ Write(rules, TRUE, 0) \/ Write(rules, TRUE, mtime)
    BY <1>2, Zenon DEF HandSave, HandFinish
  <2>3. \A n \in Nat : n <= clock + 1 /\ Write(rules, TRUE, n) => Rewrite
    BY <2>1, Zenon DEF Rewrite
  <2>4. Rewrite
    <3>1. 0 \in Nat /\ 0 <= clock + 1 /\ mtime <= clock + 1 /\ clock + 1 <= clock + 1
      BY <1>1
    <3> QED
      BY <1>1, <2>2, <2>3, <3>1, Zenon
  <2> QED
    BY <1>2, <1>a, <2>4 DEF HandSave, HandFinish
<1>3. ASSUME HandTruncate PROVE Rewrite /\ editor' \in {"idle", "torn"} /\ console' \in Told
  <2>1. Write(disk.rules, FALSE, clock + 1)
    BY <1>3 DEF HandTruncate
  <2>2. Rewrite
    <3>1. clock + 1 <= clock + 1
      BY <1>1
    <3> QED
      BY <1>1, <1>a, <2>1, <3>1, Zenon DEF Rewrite
  <2> QED
    BY <1>3, <1>a, <2>2 DEF HandTruncate
<1>4. ASSUME ConsoleWrites PROVE Rewrite /\ editor' \in {"idle", "torn"} /\ console' \in Told
  <2>1. console \in Rules /\ Write(console, TRUE, clock + 1)
    BY <1>4, <1>a DEF ConsoleWrites, Told
  <2>2. Rewrite
    <3>1. clock + 1 <= clock + 1
      BY <1>1
    <3> QED
      BY <1>1, <2>1, <3>1, Zenon DEF Rewrite
  <2> QED
    BY <1>4, <1>a, <2>2 DEF ConsoleWrites, Told
<1> QED
  BY <1>2, <1>3, <1>4

(* What the engine reads of the file.                                        *)
LEMMA LatestTyped ==
  ASSUME FileTyped, EngineTyped, NEW k \in Kind
  PROVE  Latest(k) \in SUBSET Rule /\ disk.rules \in Rules /\ disk.rules[k] \in SUBSET Rule
<1>1. disk.rules \in Rules /\ mem \in Rules
  BY DEF FileTyped, FileStates, EngineTyped
<1> QED
  BY <1>1 DEF Latest, Rules

-----------------------------------------------------------------------------
(* Typing.                                                                   *)

LEMMA TypeInit == Init => Typed
<1> SUFFICES ASSUME Init PROVE Typed
  OBVIOUS
<1>1. EngineTyped
  BY RulesAssumption DEF Init, EngineTyped, Stages, Ends, Told
<1>2. SourcesTyped
  BY RulesAssumption DEF Init, SourcesTyped
<1>3. FlagsTyped
  BY DEF Init, FlagsTyped
<1>4. FileTyped
  BY RulesAssumption DEF Init, FileTyped, FileStates
<1> QED
  BY <1>1, <1>2, <1>3, <1>4 DEF Typed

LEMMA TypeRewrite ==
  ASSUME Typed, Rewrite, editor' \in {"idle", "torn"}, console' \in Told
  PROVE  Typed'
<1> USE DEF Typed
<1>1. PICK rules \in Rules, ok \in BOOLEAN, stamp \in Nat :
        stamp <= clock + 1 /\ (ok \/ rules = disk.rules) /\ Write(rules, ok, stamp)
  BY DEF Rewrite
<1>2. steady' \in Rules
  BY <1>1 DEF Write, EngineTyped, Rules
<1>3. EngineTyped'
  BY <1>1, <1>2 DEF Write, EngineTyped, engine
<1>4. SourcesTyped'
  <2>1. clock' \in 0..MaxWrites /\ mtime' \in 0..clock' /\ clock' \in Nat /\ clock <= clock'
    BY <1>1, RulesAssumption DEF Write, SourcesTyped
  <2>2. src' = src /\ armed' = armed /\ settled' \in [Kind -> {"no", "stat", "yes"}]
    BY <1>1 DEF Write, sources
  <2> QED
    BY <2>1, <2>2, RulesAssumption DEF SourcesTyped
<1>5. FlagsTyped'
  BY <1>1, Zenon DEF Write, FlagsTyped, sources
<1>6. FileTyped'
  BY <1>1 DEF Write, FileTyped, FileStates
<1> QED
  BY <1>3, <1>4, <1>5, <1>6

LEMMA TypeStep == Typed /\ [Next]_vars => Typed'
<1> SUFFICES ASSUME Typed, [Next]_vars PROVE Typed'
  OBVIOUS
<1> USE DEF Typed
<1>0. clock \in Nat /\ mtime \in Nat /\ mtime <= clock /\ 0 \in 0..clock
  BY RulesAssumption DEF SourcesTyped
<1>a. disk.rules \in Rules /\ mem \in Rules /\ src \in [Kind -> [mod : Nat, cur : SUBSET Rule]]
  BY DEF FileTyped, FileStates, EngineTyped, SourcesTyped
<1>1. CASE Load
  <2>1. EngineTyped'
    BY <1>1, <1>a DEF Load, history, EngineTyped, Stages, Ends
  <2>2. SourcesTyped'
    BY <1>1 DEF Load, engine, sources, file, history, SourcesTyped
  <2>3. FlagsTyped'
    BY <1>1, Zenon DEF Load, engine, sources, file, history, FlagsTyped
  <2>4. FileTyped'
    BY <1>1 DEF Load, engine, sources, file, history, FileTyped
  <2> QED
    BY <2>1, <2>2, <2>3, <2>4 DEF Typed
<1>2. CASE ReadIgnore
  <2>1. EngineTyped'
    BY <1>2, LatestTyped DEF ReadIgnore, Keep, Kind, history, EngineTyped, Stages
  <2>2. SourcesTyped'
    BY <1>2 DEF ReadIgnore, engine, sources, file, history, SourcesTyped
  <2>3. FlagsTyped'
    BY <1>2, Zenon DEF ReadIgnore, engine, sources, file, history, FlagsTyped
  <2>4. FileTyped'
    BY <1>2 DEF ReadIgnore, engine, sources, file, history, FileTyped
  <2> QED
    BY <2>1, <2>2, <2>3, <2>4 DEF Typed
<1>3. CASE Move
  <2>1. EngineTyped'
    BY <1>3 DEF Move, history, EngineTyped, Stages
  <2>2. SourcesTyped'
    BY <1>3 DEF Move, engine, sources, file, history, SourcesTyped
  <2>3. FlagsTyped'
    BY <1>3, Zenon DEF Move, engine, sources, file, history, FlagsTyped
  <2>4. FileTyped'
    BY <1>3 DEF Move, FileTyped, FileStates
  <2> QED
    BY <2>1, <2>2, <2>3, <2>4 DEF Typed
<1>4. CASE WriteRecovery
  <2>a. recovery' \in Rules
    <3>1. kept \in SUBSET Rule /\ Latest("kill") \in SUBSET Rule
      BY LatestTyped DEF EngineTyped, Kind
    <3> QED
      BY <1>4, <3>1 DEF WriteRecovery, Rules, Kind
  <2>1. EngineTyped'
    BY <1>4, <2>a DEF WriteRecovery, history, EngineTyped, Stages, Told
  <2>2. SourcesTyped'
    BY <1>4 DEF WriteRecovery, engine, sources, file, history, SourcesTyped
  <2>3. FlagsTyped'
    BY <1>4, Zenon DEF WriteRecovery, engine, sources, file, history, FlagsTyped
  <2>4. FileTyped'
    BY <1>4 DEF WriteRecovery, engine, sources, file, history, FileTyped
  <2> QED
    BY <2>1, <2>2, <2>3, <2>4 DEF Typed
<1>5. ASSUME NEW o \in {"done", "failed", "partial", "stays"}, Finish(o) PROVE Typed'
  <2>1. EngineTyped'
    BY <1>5, <1>a DEF Finish, EngineTyped, Stages, Ends, Told
  <2>2. SourcesTyped'
    BY <1>5 DEF Finish, engine, sources, file, history, SourcesTyped
  <2>3. FlagsTyped'
    BY <1>5, Zenon DEF Finish, engine, sources, file, history, FlagsTyped
  <2>4. FileTyped'
    BY <1>5 DEF Finish, engine, sources, file, history, FileTyped
  <2> QED
    BY <2>1, <2>2, <2>3, <2>4 DEF Typed
<1>6. ASSUME NEW k \in Kind, Arm(k) PROVE Typed'
  <2>a. \E m \in 0..clock : src' = [src EXCEPT ![k] = [mod |-> m, cur |-> mem[k]]]
    BY <1>6, <1>0 DEF Arm, SourcesTyped
  <2>b. mem[k] \in SUBSET Rule
    BY <1>a DEF Rules
  <2>c. \A l \in Kind : src'[l].mod \in 0..clock /\ src'[l].cur \in SUBSET Rule
    BY <2>a, <2>b, <1>a DEF SourcesTyped
  <2>d. src' \in [Kind -> [mod : Nat, cur : SUBSET Rule]]
    BY <2>a, <2>b, <1>a, <1>0
  <2>e. armed' \in SUBSET Kind /\ settled' \in [Kind -> {"no", "stat", "yes"}]
    BY <1>6 DEF Arm, SourcesTyped
  <2>f. clock' = clock /\ mtime' = mtime
    BY <1>6 DEF Arm, file
  <2>1. EngineTyped'
    BY <1>6 DEF Arm, engine, EngineTyped, Stages
  <2>2. SourcesTyped'
    BY <2>c, <2>d, <2>e, <2>f DEF SourcesTyped
  <2>3. FlagsTyped'
    BY <1>6, Zenon DEF Arm, engine, sources, file, history, FlagsTyped
  <2>4. FileTyped'
    BY <1>6 DEF Arm, engine, sources, file, history, FileTyped
  <2> QED
    BY <2>1, <2>2, <2>3, <2>4 DEF Typed
<1>7. ASSUME NEW k \in Kind, Stat(k) PROVE Typed'
  <2>a. src' = src \/ src' = [src EXCEPT ![k].mod = mtime]
    BY <1>7 DEF Stat
  <2>c. \A l \in Kind : src'[l].mod \in 0..clock /\ src'[l].cur \in SUBSET Rule
    BY <2>a, <1>a, <1>0 DEF SourcesTyped
  <2>d. src' \in [Kind -> [mod : Nat, cur : SUBSET Rule]]
    BY <2>a, <1>a, <1>0
  <2>e. settled' \in [Kind -> {"no", "stat", "yes"}]
    BY <1>7 DEF Stat, SourcesTyped
  <2>1. EngineTyped'
    BY <1>7 DEF Stat, engine, EngineTyped, Stages
  <2>2. SourcesTyped'
    BY <1>7, <2>c, <2>d, <2>e DEF Stat, file, SourcesTyped
  <2>3. FlagsTyped'
    BY <1>7, Zenon DEF Stat, engine, sources, file, history, FlagsTyped
  <2>4. FileTyped'
    BY <1>7 DEF Stat, engine, sources, file, history, FileTyped
  <2> QED
    BY <2>1, <2>2, <2>3, <2>4 DEF Typed
<1>8. ASSUME NEW k \in Kind, Read(k) PROVE Typed'
  <2>a. src' = [src EXCEPT ![k].cur = Reread(k)] /\ Reread(k) \in SUBSET Rule
    BY <1>8, <1>a, LatestTyped DEF Read, Reread
  <2>c. \A l \in Kind : src'[l].mod \in 0..clock /\ src'[l].cur \in SUBSET Rule
    BY <2>a, <1>a DEF SourcesTyped
  <2>d. src' \in [Kind -> [mod : Nat, cur : SUBSET Rule]]
    BY <2>a, <1>a
  <2>e. settled' \in [Kind -> {"no", "stat", "yes"}]
    BY <1>8 DEF Read, SourcesTyped
  <2>1. EngineTyped'
    BY <1>8 DEF Read, engine, EngineTyped, Stages
  <2>2. SourcesTyped'
    BY <1>8, <2>c, <2>d, <2>e DEF Read, file, SourcesTyped
  <2>3. FlagsTyped'
    BY <1>8, Zenon DEF Read, engine, sources, file, history, FlagsTyped
  <2>4. FileTyped'
    BY <1>8 DEF Read, engine, sources, file, history, FileTyped
  <2> QED
    BY <2>1, <2>2, <2>3, <2>4 DEF Typed
<1>9. CASE ConsoleReads
  <2>a. console' \in Rules
    BY <1>9, EditsAreRules DEF ConsoleReads, Kind
  <2>1. EngineTyped'
    BY <1>9, <2>a DEF ConsoleReads, engine, history, EngineTyped, Told
  <2>2. SourcesTyped'
    BY <1>9 DEF ConsoleReads, engine, sources, file, history, SourcesTyped
  <2>3. FlagsTyped'
    BY <1>9, Zenon DEF ConsoleReads, engine, sources, file, history, FlagsTyped
  <2>4. FileTyped'
    BY <1>9 DEF ConsoleReads, engine, sources, file, history, FileTyped
  <2> QED
    BY <2>1, <2>2, <2>3, <2>4 DEF Typed
<1>10. CASE \/ \E k \in Kind : \E rules \in Adds(k) \cup Drops(k) : HandSave(rules) \/ HandFinish(rules)
            \/ HandTruncate \/ ConsoleWrites
  BY <1>10, Writers, TypeRewrite
<1>11. CASE UNCHANGED vars
  <2>1. EngineTyped'
    BY <1>11 DEF vars, engine, sources, file, history, EngineTyped
  <2>2. SourcesTyped'
    BY <1>11 DEF vars, engine, sources, file, history, SourcesTyped
  <2>3. FlagsTyped'
    BY <1>11, Zenon DEF vars, engine, sources, file, history, FlagsTyped
  <2>4. FileTyped'
    BY <1>11 DEF vars, engine, sources, file, history, FileTyped
  <2> QED
    BY <2>1, <2>2, <2>3, <2>4 DEF Typed
<1> QED
  BY <1>1, <1>2, <1>3, <1>4, <1>5, <1>6, <1>7, <1>8, <1>9, <1>10, <1>11 DEF Next

-----------------------------------------------------------------------------
(* A rule nobody took away stays in force.                                    *)

(* A rule in every whole version is in the file, in the manifest loaded from   *)
(* it, and so in every source armed or reread from them.                       *)
Steady ==
  /\ \A k \in Kind : steady[k] \subseteq disk.rules[k] /\ steady[k] \subseteq mem[k]
  /\ SteadyInForce

LEMMA SteadyInit == Init => Steady
  BY RulesAssumption DEF Init, Steady, SteadyInForce

LEMMA SteadyStep == Typed /\ Steady /\ [Next]_vars => Steady'
<1> SUFFICES ASSUME Typed, Steady, [Next]_vars PROVE Steady'
  OBVIOUS
<1> USE DEF Steady, SteadyInForce
<1>a. src \in [Kind -> [mod : Nat, cur : SUBSET Rule]] /\ armed \in SUBSET Kind
  BY DEF Typed, SourcesTyped
<1>b. mtime \in Nat
  BY RulesAssumption DEF Typed, SourcesTyped
<1>1. CASE Load
  BY <1>1 DEF Load, sources, file, history
<1>2. CASE ReadIgnore
  BY <1>2 DEF ReadIgnore, sources, file, history
<1>3. CASE Move
  <2>1. disk'.rules = disk.rules
    BY <1>3 DEF Move, Typed, FileTyped, FileStates
  <2> QED
    BY <1>3, <2>1 DEF Move, sources, history
<1>4. CASE WriteRecovery
  BY <1>4 DEF WriteRecovery, sources, file, history
<1>5. ASSUME NEW o \in {"done", "failed", "partial", "stays"}, Finish(o) PROVE Steady'
  BY <1>5 DEF Finish, sources, file
<1>6. ASSUME NEW k \in Kind, Arm(k) PROVE Steady'
  <2>1. \E m \in Nat : src' = [src EXCEPT ![k] = [mod |-> m, cur |-> mem[k]]]
    BY <1>6, <1>b DEF Arm
  <2>2. \A l \in armed' : steady[l] \subseteq src'[l].cur
    <3> SUFFICES ASSUME NEW l \in armed' PROVE steady[l] \subseteq src'[l].cur
      OBVIOUS
    <3>1. CASE l = k
      BY <2>1, <1>a, <3>1
    <3>2. CASE l # k
      BY <1>6, <2>1, <1>a, <3>2 DEF Arm
    <3> QED
      BY <3>1, <3>2
  <2> QED
    BY <1>6, <2>2 DEF Arm, file
<1>7. ASSUME NEW k \in Kind, Stat(k) PROVE Steady'
  <2>1. \A l \in armed : src'[l].cur = src[l].cur
    <3>1. CASE src' = src
      BY <3>1
    <3>2. CASE src' = [src EXCEPT ![k].mod = mtime]
      BY <3>2, <1>a
    <3> QED
      BY <1>7, <3>1, <3>2 DEF Stat
  <2> QED
    BY <1>7, <2>1 DEF Stat, engine, file
<1>8. ASSUME NEW k \in Kind, Read(k) PROVE Steady'
  <2>1. \A l \in armed : src'[l].cur = IF l = k THEN Reread(k) ELSE src[l].cur
    BY <1>8, <1>a DEF Read
  <2>2. \A l \in armed : steady[l] \subseteq src'[l].cur
    BY <2>1, <1>a DEF Reread
  <2> QED
    BY <1>8, <2>2 DEF Read, engine, file
<1>9. CASE ConsoleReads
  BY <1>9 DEF ConsoleReads, engine, sources, file, history
<1>10. CASE Rewrite
  <2>1. PICK rules \in Rules, ok \in BOOLEAN, stamp \in Nat :
          (ok \/ rules = disk.rules) /\ Write(rules, ok, stamp)
    BY <1>10 DEF Rewrite
  <2>2. disk'.rules = rules /\ mem' = mem /\ src' = src /\ armed' = armed
    BY <2>1 DEF Write, engine, sources
  <2>3. ASSUME NEW k \in Kind PROVE steady'[k] \subseteq steady[k] /\ steady'[k] \subseteq rules[k]
    BY <2>1 DEF Write
  <2> QED
    BY <2>2, <2>3, <1>a
<1>11. CASE UNCHANGED vars
  BY <1>11 DEF vars, engine, sources, file, history
<1> QED
  BY <1>1, <1>2, <1>3, <1>4, <1>5, <1>6, <1>7, <1>8, <1>9, <1>10, <1>11, Writers DEF Next

-----------------------------------------------------------------------------
(* An edit is honoured by the next poll.                                      *)

(* After a write with a time of its own: what was loaded is what the file says *)
(* until the sources are armed, and a source that has seen that time and is    *)
(* not between its stat and its read says so too.                              *)
UpToDate(k) == settled[k] = "yes" \/ (src[k].mod = mtime /\ ~polling[k])

Fresh ==
  sharp =>
    /\ mtime = clock
    /\ pc = "loaded" => mem = disk.rules
    /\ \A k \in armed : Readable /\ UpToDate(k) => src[k].cur = disk.rules[k]

LEMMA FreshInit == Init => Fresh
  BY DEF Init, Fresh

LEMMA FreshStep == Typed /\ Fresh /\ [Next]_vars => Fresh'
<1> SUFFICES ASSUME Typed, Fresh, [Next]_vars PROVE Fresh'
  OBVIOUS
<1> USE DEF Fresh, UpToDate
<1>a. /\ src \in [Kind -> [mod : Nat, cur : SUBSET Rule]] /\ armed \in SUBSET Kind
      /\ settled \in [Kind -> {"no", "stat", "yes"}] /\ polling \in [Kind -> BOOLEAN]
  BY DEF Typed, SourcesTyped, FlagsTyped
<1>b. clock \in Nat /\ mtime \in Nat /\ \A k \in Kind : src[k].mod \in Nat /\ src[k].mod <= clock
  BY RulesAssumption DEF Typed, SourcesTyped
<1>1. CASE Load
  BY <1>1 DEF Load, Readable, sources, file, history
<1>2. CASE ReadIgnore
  BY <1>2 DEF ReadIgnore, Readable, sources, file, history
<1>3. CASE Move
  <2>1. ~Readable'
    BY <1>3 DEF Move, Readable, Typed, FileTyped, FileStates
  <2> QED
    BY <1>3, <2>1 DEF Move, sources, history
<1>4. CASE WriteRecovery
  BY <1>4 DEF WriteRecovery, Readable, sources, file, history
<1>5. ASSUME NEW o \in {"done", "failed", "partial", "stays"}, Finish(o) PROVE Fresh'
  BY <1>5 DEF Finish, Readable, sources, file
<1>6. ASSUME NEW k \in Kind, Arm(k) PROVE Fresh'
  <2>1. \E m \in Nat : src' = [src EXCEPT ![k] = [mod |-> m, cur |-> mem[k]]]
    BY <1>6, <1>b DEF Arm
  <2>2. src'[k].cur = mem[k] /\ \A l \in Kind \ {k} : src'[l] = src[l] /\ settled'[l] = settled[l]
    BY <1>6, <2>1, <1>a DEF Arm
  <2> QED
    BY <1>6, <2>2, <1>a DEF Arm, file, Readable
<1>7. ASSUME NEW k \in Kind, Stat(k) PROVE Fresh'
  <2>1. UNCHANGED <<sharp, mtime, clock, pc, mem, disk, armed>>
    BY <1>7 DEF Stat, engine, file
  <2>2. CASE disk.there /\ mtime > src[k].mod
    <3>1. /\ src'[k].cur = src[k].cur /\ polling'[k] /\ settled'[k] = "stat"
          /\ \A l \in Kind \ {k} : src'[l] = src[l] /\ settled'[l] = settled[l] /\ polling'[l] = polling[l]
      BY <1>7, <2>2, <1>a DEF Stat
    <3> QED
      BY <2>1, <3>1, <1>a DEF Readable
  <2>3. CASE ~(disk.there /\ mtime > src[k].mod)
    <3>1. /\ src' = src /\ polling' = polling /\ settled'[k] = "yes"
          /\ \A l \in Kind \ {k} : settled'[l] = settled[l]
      BY <1>7, <2>3, <1>a DEF Stat
    <3>2. sharp /\ Readable => src[k].mod = mtime /\ ~polling[k]
      BY <1>7, <2>3, <1>b DEF Stat, Readable
    <3> QED
      BY <2>1, <3>1, <3>2, <1>a DEF Readable
  <2> QED
    BY <2>2, <2>3
<1>8. ASSUME NEW k \in Kind, Read(k) PROVE Fresh'
  <2>1. UNCHANGED <<sharp, mtime, clock, pc, mem, disk, armed>>
    BY <1>8 DEF Read, engine, file
  <2>2. /\ src'[k].cur = Reread(k)
        /\ \A l \in Kind \ {k} : src'[l] = src[l] /\ settled'[l] = settled[l] /\ polling'[l] = polling[l]
    BY <1>8, <1>a DEF Read
  <2> QED
    BY <2>1, <2>2, <1>a DEF Readable, Reread
<1>9. CASE ConsoleReads
  BY <1>9 DEF ConsoleReads, Readable, engine, sources, file, history
<1>10. CASE Rewrite
  <2>1. PICK rules \in Rules, ok \in BOOLEAN, stamp \in Nat :
          stamp <= clock + 1 /\ Write(rules, ok, stamp)
    BY <1>10 DEF Rewrite
  <2>2. /\ clock' = clock + 1 /\ mtime' = stamp /\ pc' = pc /\ src' = src /\ armed' = armed
        /\ sharp' = (pc # "loaded" /\ stamp = clock + 1) /\ \A k \in Kind : settled'[k] = "no"
    BY <2>1 DEF Write, engine, sources
  <2>3. ASSUME NEW k \in Kind, sharp' PROVE ~UpToDate(k)'
    <3>1. stamp = clock + 1
      BY <2>2, <2>3, Zenon
    <3>2. src'[k].mod # mtime'
      BY <2>2, <3>1, <1>b
    <3> QED
      BY <2>2, <3>2
  <2>4. sharp' => mtime' = clock' /\ pc' # "loaded"
    BY <2>2, Zenon
  <2> QED
    BY <2>2, <2>3, <2>4, <1>a
<1>11. CASE UNCHANGED vars
  BY <1>11 DEF vars, Readable, engine, sources, file, history
<1> QED
  BY <1>1, <1>2, <1>3, <1>4, <1>5, <1>6, <1>7, <1>8, <1>9, <1>10, <1>11, Writers DEF Next

-----------------------------------------------------------------------------
(* The exclusions, from the file to the recovery manifest.                    *)

Carried ==
  /\ pc # "ended" => recovery = NoRules
  /\ ~edited /\ final # NoRules =>
       /\ pc = "final" /\ end = "partial" => Readable /\ disk.rules = final
       /\ pc \in {"read", "moved"} => kept = final["ignore"]
       /\ recovery # NoRules => recovery["ignore"] = final["ignore"]

LEMMA CarriedInit == Init => Carried
  BY DEF Init, Carried

LEMMA CarriedStep == Typed /\ Carried /\ [Next]_vars => Carried'
<1> SUFFICES ASSUME Typed, Carried, [Next]_vars PROVE Carried'
  OBVIOUS
<1> USE DEF Carried
<1>1. CASE Load
  BY <1>1, Zenon DEF Load, Readable, NoRules, sources, file, history
<1>2. CASE ReadIgnore
  BY <1>2, Zenon DEF ReadIgnore, Keep, Latest, sources, file, history
<1>3. CASE Move
  BY <1>3, Zenon DEF Move, sources, history
<1>4. CASE WriteRecovery
  <2>1. recovery'["ignore"] = kept
    BY <1>4 DEF WriteRecovery
  <2> QED
    BY <1>4, <2>1, Zenon DEF WriteRecovery, history
<1>5. ASSUME NEW o \in {"done", "failed", "partial", "stays"}, Finish(o) PROVE Carried'
  BY <1>5, Zenon DEF Finish, Readable, sources, file
<1>6. ASSUME NEW k \in Kind, Arm(k) PROVE Carried'
  BY <1>6, Zenon DEF Arm, file
<1>7. ASSUME NEW k \in Kind, Stat(k) PROVE Carried'
  BY <1>7, Zenon DEF Stat, Readable, engine, file
<1>8. ASSUME NEW k \in Kind, Read(k) PROVE Carried'
  BY <1>8, Zenon DEF Read, Readable, engine, file
<1>9. CASE ConsoleReads
  BY <1>9, Zenon DEF ConsoleReads, Readable, engine, sources, file, history
<1>10. CASE Rewrite
  <2>1. PICK rules \in Rules, ok \in BOOLEAN, stamp \in Nat : Write(rules, ok, stamp)
    BY <1>10, Zenon DEF Rewrite
  <2>2. /\ pc' = pc /\ end' = end /\ kept' = kept /\ recovery' = recovery /\ final' = final
        /\ edited' = (edited \/ pc \notin {"claimed", "loaded", "run"})
    BY <2>1, Zenon DEF Write, engine
  <2>3. ~edited' => ~edited /\ pc \in {"claimed", "loaded", "run"}
    BY <2>2, Zenon
  <2> QED
    BY <2>2, <2>3, Zenon
<1>11. CASE UNCHANGED vars
  BY <1>11, Zenon DEF vars, Readable, engine, file, history
<1> QED
  BY <1>1, <1>2, <1>3, <1>4, <1>5, <1>6, <1>7, <1>8, <1>9, <1>10, <1>11, Writers DEF Next

-----------------------------------------------------------------------------
(* The theorems.                                                             *)

LEMMA RulesInvariant == Spec => [](Typed /\ Steady /\ Fresh /\ Carried)
<1>1. Init => Typed /\ Steady /\ Fresh /\ Carried
  BY TypeInit, SteadyInit, FreshInit, CarriedInit
<1>2. Typed /\ Steady /\ Fresh /\ Carried /\ [Next]_vars => (Typed /\ Steady /\ Fresh /\ Carried)'
  BY TypeStep, SteadyStep, FreshStep, CarriedStep
<1> QED
  BY <1>1, <1>2, PTL DEF Spec

(* Every reachable state is one of the states the module describes; a source   *)
(* never remembers a time the file has not had.                                *)
THEOREM RulesTyped == Spec => []TypeOK
  BY RulesInvariant, TypedIsTypeOK, PTL

(* ignore_source.go: whoever writes the file, whole or torn, with whatever      *)
(* time, a source polled after the last write says what the file says when that *)
(* write had a time of its own and no load was waiting for its sources; and a   *)
(* rule that no whole version took away never ceases to be in force.            *)
THEOREM NoEditIsLost == Spec => []EditsCostNothing
<1>1. Steady /\ Fresh => EditsCostNothing
  BY DEF Steady, Fresh, UpToDate, EditsCostNothing, EditHonoured, EditNoticed
<1> QED
  BY <1>1, RulesInvariant, PTL

(* finalizePartial: read before the move, the exclusions of the recovery        *)
(* manifest are those the file had when the operations were over, unless the    *)
(* file was written again after that.                                           *)
THEOREM ExclusionsSurvive == Spec => []RecoveryCarriesIgnore
<1>1. Carried => RecoveryCarriesIgnore
  BY Zenon DEF Carried, RecoveryCarriesIgnore, Carries
<1> QED
  BY <1>1, RulesInvariant, PTL

----------------------------------------------------------------------------
(* The planner *)

(* The tier an analysis without lost reads gives an index, or a heap.        *)
Tier(m, index) == DecideCompression(m, index, OverrideFor(profile, m.table), profile)
IndexNow(i, g) == IndexMeasurement(i, g, {})
HeapNow(t)     == HeapMeasurement(t, {})

IndexPlanned(i, g) ==
  Decision("index", "rebuild_index", TableOf[i], i, g.part, Tier(IndexNow(i, g), i), "")
HeapPlanned(t) ==
  Decision("heap", "rebuild_heap", t, NoName, 0, Tier(HeapNow(t), NoName), "")

(* No profile asks of a heap to be fuller than a rewrite leaves it.          *)
RewritesSuffice == \A start \in Starts : 100 - Full < HeapDefaults(start.raw.heap).free

(* The thresholds of a profile that was read and not refused.                *)
Effective ==
  /\ {profile.index.rebuild, profile.comp.minGain, profile.comp.pageExtra, profile.heap.fwd,
      profile.heap.frag, profile.heap.free} \subseteq 1..100
  /\ profile.comp.cap \in {"row", "none"}
  /\ RewritesSuffice => 100 - Full < profile.heap.free

Published == UNION {unpublished[c] \union queue[c] : c \in ToSet(Files)}
Pending == Published \union claimed

(* A manifest holds the operations of its category.                          *)
Filed ==
  /\ unpublished = [c \in ToSet(Files) |-> unpublished[c]]
  /\ queue = [c \in ToSet(Files) |-> queue[c]]
  /\ \A c \in ToSet(Files) : \A op \in unpublished[c] \union queue[c] : op.category = c

(* While nothing but the plan happens, each category is in one place only.   *)
Apart ==
  /\ \A c \in ToSet(Files) : unpublished[c] = {} \/ queue[c] = {}
  /\ \A op \in claimed : /\ op.category \in ToSet(Files)
                         /\ unpublished[op.category] = {} /\ queue[op.category] = {}

(* What was due is still owed to an operation to come.                       *)
OwedIsPlanned == \A s \in owed \cap Indexes : \E op \in Pending : s \in Refreshes(op)

(* A rebuild to come is what the analysis would choose now.                  *)
Current(op) ==
  CASE op.kind = "rebuild_index" -> \E i \in Indexes : \E g \in Groups(i) : op = IndexPlanned(i, g)
    [] op.kind = "rebuild_heap"  -> \E t \in HeapTables : op = HeapPlanned(t)
    [] OTHER -> op.tier = ""

(* What the analysis would rebuild now is still to come.                     *)
IndexDue ==
  \A i \in Indexes : \A g \in Groups(i) :
    /\ TableOf[i] \notin HeapTables /\ Live(i) /\ (Has("index") \/ WantsCompression)
    /\ DecideIndex(IndexNow(i, g), profile).kind = "rebuild_index"
    => IndexPlanned(i, g) \in Pending

HeapDue ==
  \A t \in HeapTables :
    /\ Has("heaps") /\ profile.heap.enabled /\ ~LeavesOut(t, {})
    /\ DecideHeap(HeapNow(t), profile).kind = "rebuild_heap"
    => HeapPlanned(t) \in Pending

Calm ==
  /\ Apart /\ OwedIsPlanned /\ (\A op \in Pending : Current(op)) /\ IndexDue
  /\ RewritesSuffice => HeapDue

PlannerInv ==
  /\ Effective /\ frag \in [Part -> 0..100] /\ Filed /\ NoDoubleWork
  /\ calm => Calm

----------------------------------------------------------------------------
(* The structures: a partition belongs to one, a group of an index is made    *)
(* of its partitions, and two groups of an index have none in common.         *)
LEMMA PartitionsOf ==
  ASSUME NEW s \in Structures
  PROVE  /\ PartsIn(s) \subseteq Part /\ IsFiniteSet(PartsIn(s)) /\ <<s, 1>> \in PartsIn(s)
         /\ \A x \in PartsIn(s) : x[2] \in Nat /\ x[2] # 0 /\ x = <<s, x[2]>>
<1>1. PartsOf[s] \in Nat /\ PartsOf[s] # 0
  BY PlannerAssumption
<1>2. PartsIn(s) = {s} \X (1..PartsOf[s])
  BY DEF PartsIn, Part
<1>3. IsFiniteSet({s}) /\ IsFiniteSet(1..PartsOf[s])
  <2>1. 1 \in Int /\ PartsOf[s] \in Int
    BY <1>1
  <2> QED
    BY <2>1, FS_Singleton, FS_Interval
<1>4. IsFiniteSet(PartsIn(s))
  BY <1>2, <1>3, FS_Product
<1>5. \A x \in PartsIn(s) : x[2] \in 1..PartsOf[s] /\ x = <<s, x[2]>>
  BY <1>2
<1>6. <<s, 1>> \in PartsIn(s)
  BY <1>1, <1>2
<1> QED
  BY <1>1, <1>4, <1>5, <1>6 DEF PartsIn

LEMMA GroupsOf ==
  ASSUME NEW i \in Indexes, NEW g \in Groups(i)
  PROVE  /\ g.parts \subseteq PartsIn(i) /\ g.parts # {} /\ IsFiniteSet(g.parts)
         /\ g.head \in g.parts /\ g.parts = {x \in PartsIn(i) : g.part \in {0, x[2]}}
         /\ \A h \in Groups(i) : h # g => h.part # g.part /\ h.parts \cap g.parts = {}
<1>1. i \in Structures
  BY DEF Structures
<1>2. CASE WantsCompression /\ profile.comp.perPart /\ PartsOf[i] > 1
  <2>1. Groups(i) = {[parts |-> {x}, part |-> x[2], head |-> x] : x \in PartsIn(i)}
    BY <1>2 DEF Groups
  <2>2. PICK x \in PartsIn(i) : g = [parts |-> {x}, part |-> x[2], head |-> x]
    BY <2>1
  <2>3. \A y \in PartsIn(i) : x[2] \in {0, y[2]} <=> y = x
    BY <1>1, <2>2, PartitionsOf
  <2>4. IsFiniteSet(g.parts)
    BY <2>2, FS_Singleton
  <2>5. ASSUME NEW h \in Groups(i), h # g PROVE h.part # g.part /\ h.parts \cap g.parts = {}
    <3>1. PICK y \in PartsIn(i) : h = [parts |-> {y}, part |-> y[2], head |-> y]
      BY <2>1
    <3>2. y # x
      BY <2>2, <2>5, <3>1
    <3>3. y[2] # x[2]
      BY <1>1, <2>2, <3>1, <3>2, PartitionsOf
    <3> QED
      BY <2>2, <3>1, <3>2, <3>3
  <2> QED
    BY <2>2, <2>3, <2>4, <2>5
<1>3. CASE ~(WantsCompression /\ profile.comp.perPart /\ PartsOf[i] > 1)
  <2>1. Groups(i) = {[parts |-> PartsIn(i), part |-> 0, head |-> <<i, 1>>]}
    BY <1>3 DEF Groups
  <2> QED
    BY <1>1, <2>1, PartitionsOf
<1> QED
  BY <1>2, <1>3

LEMMA StructuresDiffer ==
  /\ \A s, t : s # t => PartsIn(s) \cap PartsIn(t) = {}
  /\ \A i \in Indexes, t \in HeapTables : i # t
  /\ Indexes \subseteq Structures /\ HeapTables \subseteq Structures
  BY PlannerAssumption DEF PartsIn, Structures

(* The categories, and the first of them that has anything to run.           *)
LEMMA Categories == ToSet(Files) = {"checkdb", "index", "heap", "statistics", "shrink"}
<1>1. ToSet(Files) = {Files[n] : n \in DOMAIN Files}
  BY DEF ToSet
<1>2. DOMAIN Files = 1..5
  BY DEF Files
<1>3. 1..5 = {1, 2, 3, 4, 5}
  OBVIOUS
<1> QED
  BY <1>1, <1>2, <1>3 DEF Files

LEMMA FirstIsThere ==
  ASSUME NEW f, f = [c \in ToSet(Files) |-> f[c]], f # Nothing
  PROVE  First(f) \in ToSet(Files) /\ f[First(f)] # {}
<1> DEFINE less == {p \in Nat \X Nat : p[1] < p[2]}
           T == {n \in DOMAIN Files : f[Files[n]] # {}}
<1>1. DOMAIN Files = 1..5 /\ T \subseteq Nat
  BY DEF Files
<1>2. PICK c \in ToSet(Files) : f[c] # {}
  BY DEF Nothing
<1>3. T # {}
  BY <1>2 DEF ToSet
<1>4. IsWellFoundedOn(less, Nat)
  BY NatLessThanWellFounded DEF OpToRel
<1> HIDE DEF less
<1>5. PICK n \in T : \A k \in T : ~(<<k, n>> \in less)
  BY <1>1, <1>3, <1>4, WFMin
<1>6. ASSUME NEW k \in 1..(n - 1) PROVE f[Files[k]] = {}
  <2>1. n \in 1..5 /\ k \in 1..5 /\ k \in Nat /\ n \in Nat /\ k < n
    BY <1>1, <1>5, <1>6
  <2>2. <<k, n>> \in less
    BY <2>1 DEF less
  <2> QED
    BY <1>1, <1>5, <2>1, <2>2
<1>7. \E k \in DOMAIN Files : f[Files[k]] # {} /\ \A j \in 1..(k - 1) : f[Files[j]] = {}
  BY <1>5, <1>6
<1> DEFINE first == CHOOSE k \in DOMAIN Files : f[Files[k]] # {} /\ \A j \in 1..(k - 1) : f[Files[j]] = {}
<1>8. first \in DOMAIN Files /\ f[Files[first]] # {}
  BY <1>7
<1>9. First(f) = Files[first]
  BY DEF First
<1> QED
  BY <1>8, <1>9 DEF ToSet

(* The greatest of some percentages is one of them.                          *)
LEMMA WorstOf ==
  ASSUME NEW S \in SUBSET (0..100), S # {}
  PROVE  Max(S) \in S /\ \A x \in S : x <= Max(S)
<1> DEFINE less == {p \in Nat \X Nat : p[1] < p[2]}
           T == {100 - x : x \in S}
<1>1. IsWellFoundedOn(less, Nat)
  BY NatLessThanWellFounded DEF OpToRel
<1>2. T \subseteq Nat /\ T # {}
  <2>1. \A x \in S : 100 - x \in Nat
    OBVIOUS
  <2> QED
    BY <2>1
<1> HIDE DEF less
<1>3. PICK n \in T : \A k \in T : ~(<<k, n>> \in less)
  BY <1>1, <1>2, WFMin
<1>4. PICK x \in S : n = 100 - x
  BY <1>3
<1>5. ASSUME NEW y \in S PROVE x >= y
  <2>1. 100 - y \in T /\ 100 - y \in Nat /\ n \in Nat /\ x \in 0..100 /\ y \in 0..100
    BY <1>2, <1>3
  <2>2. ~(100 - y < n)
    BY <1>3, <2>1 DEF less
  <2> QED
    BY <1>4, <2>1, <2>2
<1>6. \E z \in S : \A y \in S : z >= y
  BY <1>5
<1>7. Max(S) \in S /\ \A y \in S : Max(S) >= y
  BY <1>6, Zenon DEF Max
<1>8. Max(S) \in 0..100
  BY <1>7
<1>9. ASSUME NEW y \in S PROVE y <= Max(S)
  <2>1. y \in 0..100 /\ Max(S) >= y
    BY <1>7
  <2> QED
    BY <1>8, <2>1
<1> QED
  BY <1>7, <1>9

----------------------------------------------------------------------------
(* The decisions.  A rebuild carries the tier of its measurement; less        *)
(* fragmentation asks for nothing that more did not; and what is rebuilt      *)
(* asks for nothing once its tier is settled.                                 *)
LEMMA IndexDecided ==
  ASSUME NEW m
  PROVE  /\ DecideIndex(m, profile).category = "index"
         /\ DecideIndex(m, profile).table = m.table /\ DecideIndex(m, profile).name = m.index
         /\ DecideIndex(m, profile).part = m.part
         /\ DecideIndex(m, profile).kind \in {"rebuild_index", "reorganize_index", "skip"}
         /\ DecideIndex(m, profile).kind # "rebuild_index" => DecideIndex(m, profile).tier = ""
         /\ DecideIndex(m, profile).kind = "rebuild_index" =>
              DecideIndex(m, profile) = Decision("index", "rebuild_index", m.table, m.index, m.part,
                                                 Tier(m, m.index), "")
  BY DEF DecideIndex, Decision, Skip, Tier

LEMMA HeapDecided ==
  ASSUME NEW m
  PROVE  /\ DecideHeap(m, profile).category = "heap" /\ DecideHeap(m, profile).table = m.table
         /\ DecideHeap(m, profile).kind \in {"rebuild_heap", "skip"}
         /\ DecideHeap(m, profile).kind = "rebuild_heap" =>
              DecideHeap(m, profile) = Decision("heap", "rebuild_heap", m.table, NoName, 0,
                                                Tier(m, NoName), "")
  BY DEF DecideHeap, Decision, Skip, Tier

LEMMA StatisticDecided ==
  ASSUME NEW m
  PROVE  /\ DecideStatistic(m, profile).category = "statistics"
         /\ DecideStatistic(m, profile).kind \in {"update_statistics", "skip"}
         /\ DecideStatistic(m, profile).tier = ""
         /\ DecideStatistic(m, profile).name = m.stat /\ DecideStatistic(m, profile).table = m.table
  BY DEF DecideStatistic, Decision, Skip

LEMMA Thresholds ==
  ASSUME Effective
  PROVE  /\ profile.index.rebuild \in Nat /\ profile.index.rebuild > 0
         /\ ~(0 >= profile.index.rebuild)
         /\ profile.comp.minGain \in Nat /\ profile.comp.minGain > 0
         /\ profile.comp.pageExtra \in Nat /\ profile.comp.pageExtra > 0
         /\ profile.heap.fwd \in Nat /\ profile.heap.fwd > 0
         /\ profile.heap.frag \in Nat /\ profile.heap.frag > 0
         /\ profile.heap.free \in Nat /\ profile.heap.free > 0
<1>1. \A n \in 1..100 : n \in Nat /\ n > 0 /\ ~(0 >= n)
  OBVIOUS
<1> QED
  BY <1>1 DEF Effective

LEMMA LessIsAsked ==
  ASSUME Effective, NEW m, NEW n, m.frag \in Int, n.frag \in Int, n.frag <= m.frag,
         n.table = m.table, n.index = m.index, n.part = m.part, n.pages = m.pages, n.mb = m.mb,
         Tier(n, n.index) = Tier(m, m.index), DecideIndex(n, profile).kind = "rebuild_index"
  PROVE  DecideIndex(m, profile).kind = "rebuild_index"
<1>1. profile.index.rebuild \in Int
  BY DEF Effective
<1>2. n.frag >= profile.index.rebuild => m.frag >= profile.index.rebuild
  BY <1>1
<1> QED
  BY <1>2 DEF DecideIndex, Decision, Skip, Tier

LEMMA NothingAsked ==
  ASSUME Effective, NEW m, m.frag = 0, Tier(m, m.index) = ""
  PROVE  DecideIndex(m, profile).kind # "rebuild_index"
<1>1. ~(m.frag >= profile.index.rebuild)
  <2>1. m.frag = 0
    OBVIOUS
  <2>2. ~(0 >= profile.index.rebuild)
    BY Thresholds, Zenon
  <2> QED
    BY <2>1, <2>2, Zenon
<1> QED
  BY <1>1 DEF DecideIndex, Decision, Skip, Tier

LEMMA HeapLessIsAsked ==
  ASSUME Effective, NEW m, NEW n, m.frag \in Int, n.frag \in Int, n.frag <= m.frag,
         m.density \in Int, n.density \in Int, m.density <= n.density,
         n.table = m.table, n.mb = m.mb, n.rewriteMB = m.rewriteMB, n.disabled = m.disabled,
         n.forwarded = m.forwarded, n.records = m.records,
         DecideHeap(n, profile).kind = "rebuild_heap"
  PROVE  DecideHeap(m, profile).kind = "rebuild_heap"
<1>1. profile.heap.frag \in Int /\ profile.heap.free \in Int
  BY DEF Effective
<1>2. HeapTriggers(n, profile) => HeapTriggers(m, profile)
  BY <1>1 DEF HeapTriggers
<1> QED
  BY <1>2 DEF DecideHeap, Decision, Skip

LEMMA HeapNothingAsked ==
  ASSUME Effective, RewritesSuffice, NEW m, m.frag = 0, m.density = Full, m.forwarded = 0,
         m.records = 100
  PROVE  DecideHeap(m, profile).kind # "rebuild_heap"
<1>1. ~HeapTriggers(m, profile)
  <2>1. /\ profile.heap.frag \in Nat /\ profile.heap.frag > 0
        /\ profile.heap.free \in Nat /\ profile.heap.free > 0
        /\ profile.heap.fwd \in Nat /\ profile.heap.fwd > 0
        /\ 100 - Full < profile.heap.free
    BY DEF Effective
  <2>2. ~RatioAtLeast(m.forwarded, m.records, profile.heap.fwd)
    BY <2>1 DEF RatioAtLeast
  <2>3. Full \in 50..100
    BY PlannerAssumption
  <2> QED
    BY <2>1, <2>2, <2>3 DEF HeapTriggers
<1> QED
  BY <1>1 DEF DecideHeap, Decision, Skip

(* A tier that saves enough, once reached, saves enough no more.             *)
LEMMA SavedOnce ==
  ASSUME Effective, NEW e, NEW f, e.current \in Nat, e.row \in Nat, e.page \in Nat,
         f.current = e.row, f.row = e.row, f.page = e.page,
         Desired(e, profile.comp) = "row"
  PROVE  Desired(f, profile.comp) = "none"
<1>0. PICK cur \in Nat, row \in Nat, page \in Nat :
        cur = e.current /\ row = e.row /\ page = e.page
  OBVIOUS
<1>1. PICK gain \in Nat : gain = profile.comp.minGain /\ gain > 0
  BY Thresholds
<1>2. PICK extra \in Nat : extra = profile.comp.pageExtra /\ extra > 0
  BY Thresholds
<1>3. SavesAtLeast(cur, row, gain)
        /\ ~(SavesAtLeast(row, page, extra) /\ SavesAtLeast(cur, page, gain))
  BY <1>0, <1>1, <1>2 DEF Desired
<1>4. ~SavesAtLeast(row, row, gain)
  <2>1. CASE row = 0
    BY <1>1, <2>1 DEF SavesAtLeast
  <2>2. CASE row > 0
    <3>1. gain * row > 0
      BY <1>1, <2>2
    <3>2. (row - row) * 100 = 0 /\ ~(row <= 0)
      BY <2>2
    <3> QED
      BY <1>1, <3>1, <3>2 DEF SavesAtLeast
  <2> QED
    BY <2>1, <2>2
<1>5. ~(SavesAtLeast(row, page, extra) /\ SavesAtLeast(row, page, gain))
  <2> SUFFICES ASSUME SavesAtLeast(row, page, extra), SavesAtLeast(row, page, gain) PROVE FALSE
    OBVIOUS
  <2>1. row > 0 /\ (row - page) * 100 >= gain * row
    BY <1>1 DEF SavesAtLeast
  <2>2. gain * row \in Nat
    BY <1>1
  <2>3. page <= row
    BY <2>1, <2>2
  <2>4. cur > 0 /\ (cur - row) * 100 >= gain * cur
    BY <1>1, <1>3 DEF SavesAtLeast
  <2>5. gain * cur \in Int
    BY <1>1
  <2>6. (cur - page) * 100 >= gain * cur
    BY <2>3, <2>4, <2>5
  <2>7. SavesAtLeast(cur, page, gain)
    BY <2>4, <2>6 DEF SavesAtLeast
  <2> QED
    BY <1>3, <2>7
<1> QED
  BY <1>0, <1>1, <1>2, <1>4, <1>5 DEF Desired

----------------------------------------------------------------------------
(* What a measurement depends on.                                            *)
LEMMA WorstFragOf ==
  ASSUME NEW P, P \subseteq Part, P # {}, frag \in [Part -> 0..100]
  PROVE  /\ WorstFrag(P) \in 0..100
         /\ \A x \in P : frag[x] <= WorstFrag(P) /\ \E y \in P : WorstFrag(P) = frag[y]
<1> DEFINE S == {frag[x] : x \in P}
<1>1. S \in SUBSET (0..100) /\ S # {}
  OBVIOUS
<1>2. WorstFrag(P) = Max(S)
  BY DEF WorstFrag
<1> HIDE DEF S
<1>3. Max(S) \in S /\ \A n \in S : n <= Max(S)
  BY <1>1, WorstOf
<1> QED
  BY <1>1, <1>2, <1>3 DEF S

LEMMA WorstFragNext ==
  ASSUME NEW P, P \subseteq Part, P # {}, frag' \in [Part -> 0..100]
  PROVE  WorstFrag(P)' \in 0..100 /\ \E y \in P : WorstFrag(P)' = frag'[y]
<1> DEFINE S == {frag'[x] : x \in P}
<1>1. S \in SUBSET (0..100) /\ S # {}
  OBVIOUS
<1>2. WorstFrag(P)' = Max(S)
  BY DEF WorstFrag
<1> HIDE DEF S
<1>3. Max(S) \in S
  BY <1>1, WorstOf
<1> QED
  BY <1>1, <1>2, <1>3 DEF S

LEMMA WorstFragFalls ==
  ASSUME NEW P, P \subseteq Part, P # {}, frag \in [Part -> 0..100], frag' \in [Part -> 0..100],
         \A x \in P : frag'[x] <= frag[x]
  PROVE  WorstFrag(P)' <= WorstFrag(P)
<1>1. WorstFrag(P) \in 0..100 /\ \A x \in P : frag[x] <= WorstFrag(P)
  BY WorstFragOf
<1>2. WorstFrag(P)' \in 0..100 /\ \E y \in P : WorstFrag(P)' = frag'[y]
  BY WorstFragNext
<1>3. PICK y \in P : WorstFrag(P)' = frag'[y]
  BY <1>2
<1>4. frag'[y] \in 0..100 /\ frag[y] \in 0..100 /\ frag'[y] <= frag[y] /\ frag[y] <= WorstFrag(P)
  BY <1>1, <1>3
<1> QED
  BY <1>1, <1>2, <1>3, <1>4

LEMMA WorstFragSame ==
  ASSUME NEW P, \A x \in P : frag'[x] = frag[x]
  PROVE  WorstFrag(P)' = WorstFrag(P)
<1>1. {frag'[x] : x \in P} = {frag[x] : x \in P}
  OBVIOUS
<1> QED
  BY <1>1, Zenon DEF WorstFrag

LEMMA WorstFragGone ==
  ASSUME NEW P, P # {}, \A x \in P : frag'[x] = 0
  PROVE  WorstFrag(P)' = 0
<1>1. {frag'[x] : x \in P} = {0}
  OBVIOUS
<1>2. {0} \in SUBSET (0..100)
  OBVIOUS
<1>3. Max({0}) = 0
  BY <1>2, WorstOf
<1> QED
  BY <1>1, <1>3, Zenon DEF WorstFrag

LEMMA SizeSame ==
  ASSUME NEW P, NEW n, \A x \in P : tier'[x] = tier[x]
  PROVE  CurrentSize(n, P)' = CurrentSize(n, P)
<1>1. \A level : {x \in P : tier'[x] = level} = {x \in P : tier[x] = level}
  OBVIOUS
<1> QED
  BY <1>1, Zenon DEF CurrentSize, SizeAt

(* The tier of what is not rewritten is not reconsidered.                    *)
Workload == <<profile, cats, hot>>

LEMMA EstimateSame ==
  ASSUME NEW P, NEW n, \A x \in P : tier'[x] = tier[x]
  PROVE  EstimateFor(P, n, {})' = EstimateFor(P, n, {})
  BY SizeSame, Zenon DEF EstimateFor, SizeAt

LEMMA IndexTierSame ==
  ASSUME NEW i \in Indexes, NEW g, g.head \in g.parts, UNCHANGED Workload,
         \A x \in g.parts : tier'[x] = tier[x]
  PROVE  /\ Tier(IndexNow(i, g), i)' = Tier(IndexNow(i, g), i)
         /\ IndexPlanned(i, g)' = IndexPlanned(i, g)
<1> DEFINE now == IndexNow(i, g)
<1>1. EstimateFor(g.parts, i, {})' = EstimateFor(g.parts, i, {})
  BY EstimateSame
<1>2. /\ now.table' = now.table /\ now.current' = now.current
      /\ now.estimate' = now.estimate /\ now.write' = now.write
  BY <1>1 DEF IndexNow, IndexMeasurement, Workload, WantsCompression, Has, Estimable, WriteFor
<1>3. Tier(now, i)' = Tier(now, i)
  BY <1>2 DEF Tier, DecideCompression, Chosen, WriteIntensive, Workload
<1> QED
  BY <1>3 DEF IndexPlanned

LEMMA HeapTierSame ==
  ASSUME NEW t \in HeapTables, UNCHANGED Workload, \A x \in PartsIn(t) : tier'[x] = tier[x]
  PROVE  /\ Tier(HeapNow(t), NoName)' = Tier(HeapNow(t), NoName)
         /\ HeapPlanned(t)' = HeapPlanned(t)
<1> DEFINE now == HeapNow(t)
<1>1. <<t, 1>> \in PartsIn(t)
  BY StructuresDiffer, PartitionsOf
<1>2. EstimateFor(PartsIn(t), t, {})' = EstimateFor(PartsIn(t), t, {})
  <2>1. PartsIn(t)' = PartsIn(t)
    BY DEF PartsIn, Part, Structures
  <2> QED
    BY <2>1, EstimateSame
<1>3. /\ now.table' = now.table /\ now.current' = now.current
      /\ now.estimate' = now.estimate /\ now.write' = now.write
  BY <1>1, <1>2 DEF HeapNow, HeapMeasurement, Workload, WantsCompression, Has, WriteFor
<1>4. Tier(now, NoName)' = Tier(now, NoName)
  BY <1>3 DEF Tier, DecideCompression, Chosen, WriteIntensive, Workload
<1> QED
  BY <1>4 DEF HeapPlanned

(* The estimate of what is rewritten at the tier that was chosen.            *)
LEMMA SizesOf ==
  ASSUME NEW n \in Structures, NEW P, P \subseteq PartsIn(n)
  PROVE  /\ SizeAt("row", n, P) \in Nat /\ SizeAt("page", n, P) \in Nat
         /\ CurrentSize(n, P) \in Nat
<1>1. \A Q : Q \subseteq P => Cardinality(Q) \in Nat
  BY PartitionsOf, FS_Subset, FS_CardinalityType
<1>2. ASSUME NEW Q, Q \subseteq P, NEW level \in Tiers PROVE SizeAt(level, n, Q) \in Nat
  <2>1. Cardinality(Q) \in Nat /\ KB[n][level] \in Nat
    BY <1>1, <1>2, PlannerAssumption
  <2> QED
    BY <2>1 DEF SizeAt
<1>3. "none" \in Tiers /\ "row" \in Tiers /\ "page" \in Tiers
  BY DEF Tiers
<1>4. /\ SizeAt("none", n, {x \in P : tier[x] = "none"}) \in Nat
      /\ SizeAt("row", n, {x \in P : tier[x] = "row"}) \in Nat
      /\ SizeAt("page", n, {x \in P : tier[x] = "page"}) \in Nat
  BY <1>2, <1>3
<1>5. CurrentSize(n, P) \in Nat
  BY <1>4 DEF CurrentSize
<1> QED
  BY <1>2, <1>3, <1>5

LEMMA SizeOfRow ==
  ASSUME NEW n \in Structures, NEW P, P \subseteq PartsIn(n), \A x \in P : tier'[x] = "row"
  PROVE  CurrentSize(n, P)' = SizeAt("row", n, P)
<1>1. /\ {x \in P : tier'[x] = "none"} = {} /\ {x \in P : tier'[x] = "page"} = {}
      /\ {x \in P : tier'[x] = "row"} = P
  OBVIOUS
<1>2. Cardinality({}) = 0 /\ KB[n]["none"] \in Nat /\ KB[n]["page"] \in Nat
  BY FS_EmptySet, PlannerAssumption DEF Tiers
<1>3. SizeAt("none", n, {}) = 0 /\ SizeAt("page", n, {}) = 0 /\ SizeAt("row", n, P) \in Nat
  BY <1>2, SizesOf DEF SizeAt
<1>4. CurrentSize(n, P)' = SizeAt("none", n, {}) + SizeAt("row", n, P) + SizeAt("page", n, {})
  BY <1>1, Zenon DEF CurrentSize, SizeAt
<1> QED
  BY <1>3, <1>4

(* What a decision about compression can be, and what settles it.            *)
LEMMA TierChosen ==
  ASSUME Effective, NEW m, NEW index, Tier(m, index) # ""
  PROVE  LET pin == OverrideFor(profile, m.table).pin IN
         \/ pin # "" /\ Tier(m, index) = pin
         \/ /\ pin = "" /\ m.estimate.known
            /\ \/ Tier(m, index) = "page"
               \/ /\ Tier(m, index) = "row"
                  /\ WriteIntensive(m.write, profile.comp) \/ Desired(m.estimate, profile.comp) = "row"
  BY DEF Tier, DecideCompression, Chosen, MinTier, Desired, Effective

LEMMA Capping ==
  /\ MinTier("none", "row") = "none" /\ MinTier("none", "none") = "none"
  /\ MinTier("row", "row") = "row" /\ MinTier("row", "none") = "none"
  /\ MinTier("page", "row") = "row" /\ MinTier("page", "none") = "none"
<1>1. TierRank("none") = 0 /\ TierRank("row") = 1 /\ TierRank("page") = 2
  BY DEF TierRank
<1>2. 0 < 1 /\ 1 < 2 /\ 0 < 2 /\ ~(0 < 0) /\ ~(1 < 1) /\ ~(1 < 0)
  OBVIOUS
<1> QED
  BY <1>1, <1>2 DEF MinTier

LEMMA TierSettled ==
  ASSUME Effective, NEW m, NEW index,
         LET pin == OverrideFor(profile, m.table).pin IN
         \/ pin # "" /\ SameTier(pin, m.current)
         \/ /\ pin = ""
            /\ \/ ~m.estimate.known
               \/ /\ m.current = "row"
                  /\ \/ WriteIntensive(m.write, profile.comp)
                     \/ Desired(m.estimate, profile.comp) = "none"
  PROVE  Tier(m, index) = ""
<1> DEFINE pin == OverrideFor(profile, m.table).pin
<1>0. /\ profile.comp.cap \in {"row", "none"}
      /\ Desired(m.estimate, profile.comp) \in {"none", "row", "page"}
  BY DEF Effective, Desired
<1>1. CASE pin # ""
  BY <1>1 DEF Tier, DecideCompression
<1>2. CASE pin = "" /\ ~m.estimate.known
  BY <1>2 DEF Tier, DecideCompression
<1>3. CASE pin = "" /\ m.current = "row" /\ WriteIntensive(m.write, profile.comp)
  <2>1. Chosen(m, profile.comp) \in {"none", "row"}
    <3>1. Chosen(m, profile.comp) = MinTier(Desired(m.estimate, profile.comp), profile.comp.cap)
      BY <1>3 DEF Chosen
    <3> QED
      BY <1>0, <3>1, Capping
  <2> QED
    BY <1>3, <2>1 DEF Tier, DecideCompression, SameTier
<1>4. CASE pin = "" /\ m.current = "row" /\ Desired(m.estimate, profile.comp) = "none"
  <2>1. Chosen(m, profile.comp) = "none"
    <3>1. Chosen(m, profile.comp) \in {"none", MinTier("none", profile.comp.cap)}
      BY <1>4 DEF Chosen
    <3> QED
      BY <1>0, <3>1, Capping
  <2> QED
    BY <1>4, <2>1 DEF Tier, DecideCompression
<1> QED
  BY <1>1, <1>2, <1>3, <1>4

(* Once what was measured is rewritten with the tier that was chosen for it,  *)
(* the next analysis chooses none.                                           *)
LEMMA EstimateOfRow ==
  ASSUME NEW n \in Structures, NEW P, P \subseteq PartsIn(n), \A x \in P : tier'[x] = "row"
  PROVE  LET e == EstimateFor(P, n, {})
         IN /\ e = [known |-> TRUE, current |-> CurrentSize(n, P),
                    row |-> SizeAt("row", n, P), page |-> SizeAt("page", n, P)]
            /\ e' = [known |-> TRUE, current |-> SizeAt("row", n, P),
                     row |-> SizeAt("row", n, P), page |-> SizeAt("page", n, P)]
<1>1. <<"estimate", n>> \notin {}
  OBVIOUS
<1>2. CurrentSize(n, P)' = SizeAt("row", n, P)
  BY SizeOfRow
<1>3. SizeAt("row", n, P)' = SizeAt("row", n, P) /\ SizeAt("page", n, P)' = SizeAt("page", n, P)
  BY DEF SizeAt
<1>4. EstimateFor(P, n, {})' =
        [known |-> TRUE, current |-> CurrentSize(n, P)',
         row |-> SizeAt("row", n, P)', page |-> SizeAt("page", n, P)']
  BY <1>1, Zenon DEF EstimateFor
<1>5. EstimateFor(P, n, {}) =
        [known |-> TRUE, current |-> CurrentSize(n, P),
         row |-> SizeAt("row", n, P), page |-> SizeAt("page", n, P)]
  BY <1>1, Zenon DEF EstimateFor
<1> QED
  BY <1>2, <1>3, <1>4, <1>5, Zenon

(* The same argument for an index and for a heap, measured before (m) and     *)
(* after (w) everything in it is at the row tier.                            *)
Remeasured(m, w) ==
  /\ w.write = m.write /\ w.estimate.current = m.estimate.row
  /\ w.estimate.row = m.estimate.row /\ w.estimate.page = m.estimate.page
  /\ m.estimate.current \in Nat /\ m.estimate.row \in Nat /\ m.estimate.page \in Nat

LEMMA Settles ==
  ASSUME Effective, NEW index, NEW m, NEW w, Tier(m, index) # "",
         w.table = m.table, w.current = Tier(m, index),
         m.estimate.known /\ w.estimate.known => w.current # "page" /\ (w.current = "row" => Remeasured(m, w))
  PROVE  Tier(w, index) = ""
<1> DEFINE pin == OverrideFor(profile, m.table).pin
           t   == Tier(m, index)
<1>1. CASE pin # ""
  <2>1. t = pin
    BY <1>1, TierChosen
  <2> QED
    BY <1>1, <2>1, TierSettled DEF SameTier
<1>2. CASE pin = "" /\ ~w.estimate.known
  BY <1>2, TierSettled
<1>3. CASE pin = "" /\ w.estimate.known
  <2>1. /\ m.estimate.known /\ t \in {"row", "page"}
        /\ \/ t = "page" \/ WriteIntensive(m.write, profile.comp)
           \/ Desired(m.estimate, profile.comp) = "row"
    BY <1>3, TierChosen
  <2>2. t = "row" /\ w.current = "row" /\ Remeasured(m, w)
    BY <1>3, <2>1
  <2>3. CASE WriteIntensive(m.write, profile.comp)
    <3>1. WriteIntensive(w.write, profile.comp)
      BY <2>2, <2>3 DEF Remeasured
    <3> QED
      BY <1>3, <2>2, <3>1, TierSettled
  <2>4. CASE Desired(m.estimate, profile.comp) = "row"
    <3>1. PICK e, f : e = m.estimate /\ f = w.estimate
      OBVIOUS
    <3>2. Desired(f, profile.comp) = "none"
      BY <2>2, <2>4, <3>1, SavedOnce DEF Remeasured
    <3> QED
      BY <1>3, <2>2, <3>1, <3>2, TierSettled
  <2> QED
    BY <2>1, <2>2, <2>3, <2>4
<1> QED
  BY <1>1, <1>2, <1>3

(* The estimates before and after.                                           *)
LEMMA RemeasuredRow ==
  ASSUME NEW n \in Structures, NEW P, P \subseteq PartsIn(n), \A x \in P : tier'[x] = "row",
         NEW m, NEW w, m.estimate = EstimateFor(P, n, {}), w.estimate = EstimateFor(P, n, {})',
         w.write = m.write
  PROVE  Remeasured(m, w)
<1>1. /\ EstimateFor(P, n, {}) = [known |-> TRUE, current |-> CurrentSize(n, P),
                    row |-> SizeAt("row", n, P), page |-> SizeAt("page", n, P)]
      /\ EstimateFor(P, n, {})' = [known |-> TRUE, current |-> SizeAt("row", n, P),
                     row |-> SizeAt("row", n, P), page |-> SizeAt("page", n, P)]
  BY EstimateOfRow
<1>2. /\ CurrentSize(n, P) \in Nat /\ SizeAt("row", n, P) \in Nat /\ SizeAt("page", n, P) \in Nat
  BY SizesOf
<1> QED
  BY <1>1, <1>2 DEF Remeasured

LEMMA IndexSettled ==
  ASSUME Effective, NEW i \in Indexes, NEW g \in Groups(i), UNCHANGED Workload,
         NEW t, t = Tier(IndexNow(i, g), i),
         \A x \in g.parts : tier'[x] = IF t = "" THEN tier[x] ELSE t
  PROVE  Tier(IndexNow(i, g), i)' = ""
<1>1. i \in Structures /\ g.head \in g.parts /\ g.parts \subseteq PartsIn(i)
  BY GroupsOf DEF Structures
<1>2. CASE t = ""
  <2>1. \A x \in g.parts : tier'[x] = tier[x]
    BY <1>2
  <2> QED
    BY <1>1, <1>2, <2>1, IndexTierSame
<1>3. CASE t # ""
  <2>1. \A x \in g.parts : tier'[x] = t
    BY <1>3
  <2>2. PICK m : m = IndexNow(i, g)
    OBVIOUS
  <2>3. PICK w : w = IndexNow(i, g)'
    OBVIOUS
  <2>4. w.table = m.table /\ w.current = t
    BY <1>1, <2>1, <2>2, <2>3 DEF IndexNow, IndexMeasurement
  <2> DEFINE opinion == WantsCompression /\ CompressesObject(profile, TableOf[i], i)
  <2>5. /\ m.estimate = IF opinion /\ Estimable(g.head) THEN EstimateFor(g.parts, i, {}) ELSE NoEstimate
        /\ m.write = IF opinion /\ Estimable(g.head) THEN WriteFor(i, {}) ELSE NoActivity
        /\ m.current = tier[g.head]
    BY <2>2, Zenon DEF IndexNow, IndexMeasurement
  <2>6. WantsCompression' = WantsCompression /\ WriteFor(i, {})' = WriteFor(i, {})
    BY Zenon DEF Workload, WantsCompression, Has, WriteFor
  <2>7. /\ w.estimate = IF opinion /\ Estimable(g.head)' THEN EstimateFor(g.parts, i, {})' ELSE NoEstimate
        /\ w.write = IF opinion /\ Estimable(g.head)' THEN WriteFor(i, {}) ELSE NoActivity
    BY <2>3, <2>6 DEF IndexNow, IndexMeasurement, Workload
  <2>8. ~NoEstimate.known
    BY DEF NoEstimate
  <2>9. Estimable(g.head)' => t # "page"
    BY <1>1, <2>1 DEF Estimable
  <2>10. ASSUME m.estimate.known, w.estimate.known
         PROVE  t # "page" /\ (t = "row" => Remeasured(m, w))
    <3>1. /\ t # "page" /\ m.estimate = EstimateFor(g.parts, i, {})
          /\ w.estimate = EstimateFor(g.parts, i, {})' /\ w.write = m.write
      BY <2>5, <2>7, <2>8, <2>9, <2>10
    <3>2. CASE t = "row"
      BY <1>1, <2>1, <3>1, <3>2, RemeasuredRow
    <3> QED
      BY <3>1, <3>2
  <2>11. Tier(IndexNow(i, g), i)' = Tier(w, i)
    BY <2>3 DEF Tier, Workload
  <2>12. Tier(w, i) = ""
    <3>1. t = Tier(m, i)
      BY <2>2
    <3> QED
      BY <1>3, <2>4, <2>10, <3>1, Settles
  <2> QED
    BY <2>11, <2>12
<1> QED
  BY <1>2, <1>3

----------------------------------------------------------------------------
(* What an analysis plans: its decisions on indexes and heaps, less those on  *)
(* the indexes of a heap it rebuilds; the statistics these do not refresh;   *)
(* and the checks.                                                           *)
Decided(lost) ==
  {DecideIndex(m, profile) : m \in Measure(lost).indexes}
    \union {DecideHeap(m, profile) : m \in Measure(lost).heaps}

OnIndex(d, i, g, lost) ==
  /\ Live(i) /\ (Has("index") \/ WantsCompression)
  /\ d = DecideIndex(IndexMeasurement(i, g, lost), profile)

OnHeap(d, t, lost) ==
  /\ Has("heaps") /\ profile.heap.enabled /\ ~LeavesOut(t, lost)
  /\ d = DecideHeap(HeapMeasurement(t, lost), profile)

LEMMA DecisionsOf ==
  ASSUME NEW lost, NEW d \in Decided(lost)
  PROVE  \/ \E i \in Indexes : \E g \in Groups(i) : OnIndex(d, i, g, lost)
         \/ \E t \in HeapTables : OnHeap(d, t, lost)
<1>1. CASE d \in {DecideIndex(m, profile) : m \in Measure(lost).indexes}
  <2>1. PICK m \in Measure(lost).indexes : d = DecideIndex(m, profile)
    BY <1>1
  <2>2. PICK i \in Indexes : /\ Live(i) /\ (Has("index") \/ WantsCompression)
                            /\ m \in IndexMeasurements(i, lost)
    BY <2>1 DEF Measure
  <2>3. PICK g \in Groups(i) : m = IndexMeasurement(i, g, lost)
    BY <2>2 DEF IndexMeasurements
  <2> QED
    BY <2>1, <2>2, <2>3 DEF OnIndex
<1>2. CASE d \in {DecideHeap(m, profile) : m \in Measure(lost).heaps}
  <2>1. PICK m \in Measure(lost).heaps : d = DecideHeap(m, profile)
    BY <1>2
  <2>2. PICK t \in HeapTables : /\ Has("heaps") /\ profile.heap.enabled /\ ~LeavesOut(t, lost)
                               /\ m = HeapMeasurement(t, lost)
    BY <2>1 DEF Measure
  <2> QED
    BY <2>1, <2>2 DEF OnHeap
<1> QED
  BY <1>1, <1>2 DEF Decided

LEMMA OnIndexIs ==
  ASSUME NEW lost, NEW i, NEW g, NEW d, OnIndex(d, i, g, lost)
  PROVE  d.category = "index" /\ d.table = TableOf[i] /\ d.name = i /\ d.part = g.part
<1>1. PICK m : m = IndexMeasurement(i, g, lost)
  OBVIOUS
<1>2. m.table = TableOf[i] /\ m.index = i /\ m.part = g.part
  BY <1>1 DEF IndexMeasurement
<1>3. d = DecideIndex(m, profile)
  BY <1>1 DEF OnIndex
<1> QED
  BY <1>2, <1>3, IndexDecided

LEMMA OnIndexDoes ==
  ASSUME NEW lost, NEW i, NEW g, NEW d, OnIndex(d, i, g, lost)
  PROVE  /\ d.kind \in {"rebuild_index", "reorganize_index", "skip"}
         /\ d.kind # "rebuild_index" => d.tier = ""
  BY IndexDecided DEF OnIndex

LEMMA OnIndexRewrites ==
  ASSUME NEW lost, NEW i \in Indexes, NEW g \in Groups(i), NEW d, OnIndex(d, i, g, lost),
         d.kind # "skip"
  PROVE  Rewrites(d) = g.parts
<1>0. d.kind \in {"rebuild_index", "reorganize_index", "skip"}
  BY OnIndexDoes
<1>1. d.name = i /\ d.part = g.part
  BY OnIndexIs
<1>2. Rewrites(d) = {x \in PartsIn(i) : g.part \in {0, x[2]}}
  BY <1>0, <1>1 DEF Rewrites
<1> QED
  BY <1>2, GroupsOf

LEMMA OnIndexNow ==
  ASSUME NEW i, NEW g, NEW d, OnIndex(d, i, g, {}), d.kind = "rebuild_index"
  PROVE  d = IndexPlanned(i, g)
<1>1. PICK m : m = IndexMeasurement(i, g, {})
  OBVIOUS
<1>2. m.table = TableOf[i] /\ m.index = i /\ m.part = g.part
  BY <1>1 DEF IndexMeasurement
<1>3. d = DecideIndex(m, profile)
  BY <1>1 DEF OnIndex
<1>4. d = Decision("index", "rebuild_index", TableOf[i], i, g.part, Tier(m, i), "")
  BY <1>2, <1>3, IndexDecided
<1> QED
  BY <1>1, <1>4 DEF IndexPlanned, IndexNow

LEMMA OnHeapIs ==
  ASSUME NEW lost, NEW t \in HeapTables, NEW d, OnHeap(d, t, lost)
  PROVE  /\ d.category = "heap" /\ d.table = t /\ d.kind \in {"rebuild_heap", "skip"}
         /\ d.kind = "rebuild_heap" /\ lost = {} => d = HeapPlanned(t)
         /\ d.kind = "rebuild_heap" =>
              Rewrites(d) = PartsIn(t) \union UNION {PartsIn(i) : i \in IndexesOf(t)}
<1>1. PICK m : m = HeapMeasurement(t, lost)
  OBVIOUS
<1>2. m.table = t
  BY <1>1 DEF HeapMeasurement
<1>3. d = DecideHeap(m, profile)
  BY <1>1 DEF OnHeap
<1>4. /\ d.category = "heap" /\ d.table = t /\ d.kind \in {"rebuild_heap", "skip"}
      /\ d.kind = "rebuild_heap" =>
           d = Decision("heap", "rebuild_heap", t, NoName, 0, Tier(m, NoName), "")
  BY <1>2, <1>3, HeapDecided
<1>5. lost = {} => m = HeapNow(t)
  BY <1>1 DEF HeapNow
<1> QED
  BY <1>4, <1>5 DEF HeapPlanned, Rewrites

LEMMA HeapsOfPlan ==
  ASSUME NEW lost
  PROVE  /\ HeapsRebuilt(Decided(lost)) \subseteq HeapTables
         /\ \A t \in HeapsRebuilt(Decided(lost)) :
              \E d \in Decided(lost) : d.kind = "rebuild_heap" /\ OnHeap(d, t, lost)
<1> SUFFICES ASSUME NEW t \in HeapsRebuilt(Decided(lost))
             PROVE  /\ t \in HeapTables
                    /\ \E d \in Decided(lost) : d.kind = "rebuild_heap" /\ OnHeap(d, t, lost)
  OBVIOUS
<1>1. PICK d \in Decided(lost) : d.kind = "rebuild_heap" /\ d.table = t
  BY DEF HeapsRebuilt
<1>2. ~\E i \in Indexes : \E g \in Groups(i) : OnIndex(d, i, g, lost)
  BY <1>1, OnIndexDoes
<1>3. PICK h \in HeapTables : OnHeap(d, h, lost)
  BY <1>2, DecisionsOf
<1>4. h = t
  BY <1>1, <1>3, OnHeapIs
<1> QED
  BY <1>1, <1>3, <1>4

OnStatistic(d, lost) == \E m \in Measure(lost).stats : d = DecideStatistic(m, profile)

LEMMA AnalysisIs ==
  ASSUME NEW lost
  PROVE  Analyze(lost) =
           SuppressIndex(Decided(lost))
             \union {SuppressStatistic(DecideStatistic(m, profile), Decided(lost)) :
                       m \in Measure(lost).stats}
             \union DecideCheckDB(profile, Connected)
<1>1. Measure(lost).connected = Connected
  BY DEF Measure
<1> QED
  BY <1>1, Zenon DEF Analyze, Decide, Decided

LEMMA OperationsOf ==
  ASSUME NEW lost, NEW d \in Operations(Analyze(lost))
  PROVE  \/ \E i \in Indexes : \E g \in Groups(i) :
              OnIndex(d, i, g, lost) /\ TableOf[i] \notin HeapsRebuilt(Decided(lost))
         \/ \E t \in HeapsRebuilt(Decided(lost)) : d.kind = "rebuild_heap" /\ OnHeap(d, t, lost)
         \/ /\ d.category \in {"statistics", "checkdb"} /\ d.tier = ""
            /\ d.kind \in {"update_statistics", "check_db"}
<1>1. d.kind # "skip" /\ d \in Analyze(lost)
  BY DEF Operations
<1>2. CASE d \in SuppressIndex(Decided(lost))
  <2>1. PICK e \in Decided(lost) :
          d = IF e.category = "index" /\ e.kind # "skip" /\ e.table \in HeapsRebuilt(Decided(lost))
              THEN Skip("index", e.table, e.name, e.part, "redundant") ELSE e
    BY <1>2 DEF SuppressIndex
  <2>2. d = e /\ ~(e.category = "index" /\ e.table \in HeapsRebuilt(Decided(lost)))
    BY <1>1, <2>1 DEF Skip, Decision
  <2>3. CASE \E i \in Indexes : \E g \in Groups(i) : OnIndex(d, i, g, lost)
    <3>1. PICK i \in Indexes : \E g \in Groups(i) : OnIndex(d, i, g, lost)
      BY <2>3
    <3>2. PICK g \in Groups(i) : OnIndex(d, i, g, lost)
      BY <3>1
    <3>3. d.category = "index" /\ d.table = TableOf[i]
      BY <3>2, OnIndexIs
    <3> QED
      BY <2>2, <3>2, <3>3
  <2>4. CASE \E t \in HeapTables : OnHeap(d, t, lost)
    <3>1. PICK t \in HeapTables : OnHeap(d, t, lost)
      BY <2>4
    <3>2. d.kind = "rebuild_heap" /\ d.table = t
      BY <1>1, <3>1, OnHeapIs
    <3>3. t \in HeapsRebuilt(Decided(lost))
      BY <2>2, <3>2 DEF HeapsRebuilt
    <3> QED
      BY <3>1, <3>2, <3>3
  <2> QED
    BY <2>2, <2>3, <2>4, DecisionsOf
<1>3. CASE d \in {SuppressStatistic(DecideStatistic(m, profile), Decided(lost)) :
                    m \in Measure(lost).stats}
  <2>1. PICK m : d = SuppressStatistic(DecideStatistic(m, profile), Decided(lost))
    BY <1>3
  <2>2. d = DecideStatistic(m, profile)
    BY <1>1, <2>1 DEF SuppressStatistic, Skip, Decision
  <2> QED
    BY <1>1, <2>2, StatisticDecided
<1>4. CASE d \in DecideCheckDB(profile, Connected)
  <2>1. PICK name : d = Decision("checkdb", "check_db", name, NoName, 0, "", "")
    BY <1>4 DEF DecideCheckDB
  <2> QED
    BY <2>1 DEF Decision
<1> QED
  BY <1>1, <1>2, <1>3, <1>4, AnalysisIs

LEMMA DecisionStays ==
  ASSUME NEW lost, NEW d \in Decided(lost), d.kind # "skip",
         d.category = "index" => d.table \notin HeapsRebuilt(Decided(lost))
  PROVE  d \in Operations(Analyze(lost))
<1>1. d \in SuppressIndex(Decided(lost))
  BY DEF SuppressIndex
<1> QED
  BY <1>1, AnalysisIs DEF Operations

(* No two operations of an analysis rewrite the same partition.              *)
LEMMA HeapsIndexesApart ==
  ASSUME NEW i \in Indexes, NEW t \in HeapTables, TableOf[i] # t
  PROVE  PartsIn(i) \cap (PartsIn(t) \union UNION {PartsIn(j) : j \in IndexesOf(t)}) = {}
<1>1. i # t /\ \A j \in IndexesOf(t) : j # i
  BY StructuresDiffer DEF IndexesOf
<1> QED
  BY <1>1, StructuresDiffer

LEMMA HeapsApart ==
  ASSUME NEW s \in HeapTables, NEW t \in HeapTables, s # t
  PROVE  (PartsIn(s) \union UNION {PartsIn(j) : j \in IndexesOf(s)})
           \cap (PartsIn(t) \union UNION {PartsIn(j) : j \in IndexesOf(t)}) = {}
<1>1. \A j \in IndexesOf(s) : j # t /\ j # s /\ j \in Indexes
  BY StructuresDiffer DEF IndexesOf
<1>2. \A j \in IndexesOf(t) : j # t /\ j # s /\ j \in Indexes
  BY StructuresDiffer DEF IndexesOf
<1>3. \A j \in IndexesOf(s), k \in IndexesOf(t) : j # k
  BY DEF IndexesOf
<1> QED
  BY <1>1, <1>2, <1>3, StructuresDiffer

OnWhich(d, lost) ==
  \/ \E i \in Indexes : \E g \in Groups(i) :
       /\ TableOf[i] \notin HeapsRebuilt(Decided(lost))
       /\ OnIndex(d, i, g, lost) /\ Rewrites(d) = g.parts
  \/ \E t \in HeapsRebuilt(Decided(lost)) :
       /\ d.kind = "rebuild_heap" /\ OnHeap(d, t, lost)
       /\ Rewrites(d) = PartsIn(t) \union UNION {PartsIn(i) : i \in IndexesOf(t)}

LEMMA MaintenanceOf ==
  ASSUME NEW lost, NEW d \in Operations(Analyze(lost)), d.category \in {"index", "heap"}
  PROVE  OnWhich(d, lost)
<1>0. d.kind # "skip"
  BY DEF Operations
<1>1. CASE \E i \in Indexes : \E g \in Groups(i) :
             OnIndex(d, i, g, lost) /\ TableOf[i] \notin HeapsRebuilt(Decided(lost))
  <2>1. PICK i \in Indexes : \E g \in Groups(i) :
             OnIndex(d, i, g, lost) /\ TableOf[i] \notin HeapsRebuilt(Decided(lost))
    BY <1>1
  <2>2. PICK g \in Groups(i) :
             OnIndex(d, i, g, lost) /\ TableOf[i] \notin HeapsRebuilt(Decided(lost))
    BY <2>1
  <2>3. Rewrites(d) = g.parts
    BY <1>0, <2>2, OnIndexRewrites
  <2> QED
    BY <2>2, <2>3 DEF OnWhich
<1>2. CASE \E t \in HeapsRebuilt(Decided(lost)) : d.kind = "rebuild_heap" /\ OnHeap(d, t, lost)
  BY <1>2, HeapsOfPlan, OnHeapIs DEF OnWhich
<1> QED
  BY <1>1, <1>2, OperationsOf

LEMMA PlannedApart ==
  ASSUME NEW lost, NEW a, NEW b, OnWhich(a, lost), OnWhich(b, lost), a # b
  PROVE  Rewrites(a) \cap Rewrites(b) = {}
<1>1. ASSUME NEW i \in Indexes, NEW g \in Groups(i), NEW j \in Indexes, NEW h \in Groups(j),
             i # j \/ g # h
      PROVE  g.parts \cap h.parts = {}
  <2>1. CASE i = j
    BY <1>1, <2>1, GroupsOf
  <2>2. CASE i # j
    BY <2>2, GroupsOf, StructuresDiffer
  <2> QED
    BY <2>1, <2>2
<1>2. ASSUME NEW d, NEW i \in Indexes, NEW g \in Groups(i), NEW t \in HeapsRebuilt(Decided(lost)),
             TableOf[i] \notin HeapsRebuilt(Decided(lost))
      PROVE  g.parts \cap (PartsIn(t) \union UNION {PartsIn(j) : j \in IndexesOf(t)}) = {}
  <2>1. g.parts \subseteq PartsIn(i)
    BY GroupsOf
  <2>2. t \in HeapTables /\ TableOf[i] # t
    BY <1>2, HeapsOfPlan
  <2> QED
    BY <2>1, <2>2, HeapsIndexesApart
<1>3. CASE /\ \E i \in Indexes : \E g \in Groups(i) :
                TableOf[i] \notin HeapsRebuilt(Decided(lost))
                  /\ OnIndex(a, i, g, lost) /\ Rewrites(a) = g.parts
           /\ \E i \in Indexes : \E g \in Groups(i) :
                TableOf[i] \notin HeapsRebuilt(Decided(lost))
                  /\ OnIndex(b, i, g, lost) /\ Rewrites(b) = g.parts
  <2>1. PICK i \in Indexes : \E g \in Groups(i) : OnIndex(a, i, g, lost) /\ Rewrites(a) = g.parts
    BY <1>3
  <2>2. PICK g \in Groups(i) : OnIndex(a, i, g, lost) /\ Rewrites(a) = g.parts
    BY <2>1
  <2>3. PICK j \in Indexes : \E h \in Groups(j) : OnIndex(b, j, h, lost) /\ Rewrites(b) = h.parts
    BY <1>3
  <2>4. PICK h \in Groups(j) : OnIndex(b, j, h, lost) /\ Rewrites(b) = h.parts
    BY <2>3
  <2>5. i # j \/ g # h
    BY <2>2, <2>4 DEF OnIndex
  <2>6. g.parts \cap h.parts = {}
    BY <1>1, <2>5
  <2> QED
    BY <2>2, <2>4, <2>6
<1>4. CASE /\ \E i \in Indexes : \E g \in Groups(i) :
                TableOf[i] \notin HeapsRebuilt(Decided(lost))
                  /\ OnIndex(a, i, g, lost) /\ Rewrites(a) = g.parts
           /\ \E t \in HeapsRebuilt(Decided(lost)) :
                Rewrites(b) = PartsIn(t) \union UNION {PartsIn(i) : i \in IndexesOf(t)}
  BY <1>2, <1>4
<1>5. CASE /\ \E i \in Indexes : \E g \in Groups(i) :
                TableOf[i] \notin HeapsRebuilt(Decided(lost))
                  /\ OnIndex(b, i, g, lost) /\ Rewrites(b) = g.parts
           /\ \E t \in HeapsRebuilt(Decided(lost)) :
                Rewrites(a) = PartsIn(t) \union UNION {PartsIn(i) : i \in IndexesOf(t)}
  BY <1>2, <1>5
<1>6. CASE /\ \E t \in HeapsRebuilt(Decided(lost)) : OnHeap(a, t, lost)
                /\ Rewrites(a) = PartsIn(t) \union UNION {PartsIn(i) : i \in IndexesOf(t)}
           /\ \E t \in HeapsRebuilt(Decided(lost)) : OnHeap(b, t, lost)
                /\ Rewrites(b) = PartsIn(t) \union UNION {PartsIn(i) : i \in IndexesOf(t)}
  <2>1. PICK s \in HeapsRebuilt(Decided(lost)) : OnHeap(a, s, lost)
                /\ Rewrites(a) = PartsIn(s) \union UNION {PartsIn(i) : i \in IndexesOf(s)}
    BY <1>6
  <2>2. PICK t \in HeapsRebuilt(Decided(lost)) : OnHeap(b, t, lost)
                /\ Rewrites(b) = PartsIn(t) \union UNION {PartsIn(i) : i \in IndexesOf(t)}
    BY <1>6
  <2>3. s # t /\ s \in HeapTables /\ t \in HeapTables
    BY <2>1, <2>2, HeapsOfPlan DEF OnHeap
  <2> QED
    BY <2>1, <2>2, <2>3, HeapsApart
<1> QED
  BY <1>3, <1>4, <1>5, <1>6 DEF OnWhich

(* What is due is refreshed by an operation of the plan that found it so.    *)
LEMMA RefresherPlanned ==
  ASSUME NEW lost, NEW s \in Due(lost) \cap Indexes
  PROVE  \E op \in Operations(Analyze(lost)) :
           op.category \in {"index", "heap", "statistics"} /\ s \in Refreshes(op)
<1> DEFINE ds == Decided(lost)
<1>1. PICK m \in Measure(lost).stats :
        m.stat = s /\ ReachesThreshold(m, profile) /\ ~OverrideFor(profile, m.table).skip
  BY DEF Due
<1>2. profile.stats.enabled /\ m.table = TableOf[s]
  <2>1. CASE Has("statistics") /\ profile.stats.enabled
    <3>1. m \in StatMeasurements(lost)
      BY <2>1 DEF Measure
    <3>2. PICK x : m = [table |-> StatOwner(x), stat |-> x, rows |-> Rows,
                        mods |-> IF x \in stale THEN StaleMods ELSE 0]
      BY <3>1 DEF StatMeasurements
    <3> QED
      BY <1>1, <2>1, <3>2 DEF StatOwner
  <2>2. CASE ~(Has("statistics") /\ profile.stats.enabled)
    BY <2>2 DEF Measure
  <2> QED
    BY <2>1, <2>2
<1>3. PICK d : d = DecideStatistic(m, profile)
  OBVIOUS
<1>4. d = Decision("statistics", "update_statistics", TableOf[s], s, 0, "", "")
  BY <1>1, <1>2, <1>3, Zenon DEF DecideStatistic
<1>5. d.kind = "update_statistics" /\ d.category = "statistics" /\ d.name = s /\ d.table = TableOf[s]
  BY <1>4 DEF Decision
<1>6. CASE TableOf[s] \in HeapsRebuilt(ds)
  <2>1. PICK h \in ds : h.kind = "rebuild_heap" /\ OnHeap(h, TableOf[s], lost)
    BY <1>6, HeapsOfPlan
  <2>2. h.category = "heap" /\ h.table = TableOf[s]
    BY <1>6, <2>1, HeapsOfPlan, OnHeapIs
  <2>3. h \in Operations(Analyze(lost))
    BY <2>1, <2>2, DecisionStays
  <2>4. s \in Refreshes(h)
    BY <2>1, <2>2 DEF Refreshes, RebuildsWhole, IndexesOf
  <2> QED
    BY <2>2, <2>3, <2>4
<1>7. CASE TableOf[s] \notin HeapsRebuilt(ds) /\ <<TableOf[s], s>> \in IndexesRebuilt(ds)
  <2>1. PICK e \in ds : RebuildsWhole(e) /\ e.table = TableOf[s] /\ e.name = s
    BY <1>7 DEF IndexesRebuilt
  <2>2. e.kind = "rebuild_index"
    BY <2>1 DEF RebuildsWhole
  <2>3. ~\E t \in HeapTables : OnHeap(e, t, lost)
    BY <2>2, OnHeapIs
  <2>4. PICK i \in Indexes : \E g \in Groups(i) : OnIndex(e, i, g, lost)
    BY <2>3, DecisionsOf
  <2>5. e.category = "index"
    BY <2>4, OnIndexIs
  <2>6. e \in Operations(Analyze(lost))
    BY <1>7, <2>1, <2>2, DecisionStays
  <2>7. s \in Refreshes(e)
    BY <2>1, <2>2 DEF Refreshes
  <2> QED
    BY <2>5, <2>6, <2>7
<1>8. CASE TableOf[s] \notin HeapsRebuilt(ds) /\ <<TableOf[s], s>> \notin IndexesRebuilt(ds)
  <2>1. SuppressStatistic(d, ds) = d
    BY <1>5, <1>8 DEF SuppressStatistic
  <2>2. d \in Analyze(lost)
    BY <1>3, <2>1, AnalysisIs
  <2>3. d \in Operations(Analyze(lost))
    BY <1>5, <2>2 DEF Operations
  <2>4. s \in Refreshes(d)
    BY <1>5 DEF Refreshes
  <2> QED
    BY <1>5, <2>3, <2>4
<1> QED
  BY <1>6, <1>7, <1>8

(* What an analysis without lost reads would rebuild is in the plan.         *)
LEMMA IndexIsPlanned ==
  ASSUME NEW i \in Indexes, NEW g \in Groups(i), TableOf[i] \notin HeapTables, Live(i),
         Has("index") \/ WantsCompression,
         DecideIndex(IndexNow(i, g), profile).kind = "rebuild_index"
  PROVE  IndexPlanned(i, g) \in Operations(Analyze({})) /\ IndexPlanned(i, g).category = "index"
<1>1. PICK d : d = DecideIndex(IndexNow(i, g), profile)
  OBVIOUS
<1>2. OnIndex(d, i, g, {}) /\ d.kind = "rebuild_index"
  BY <1>1 DEF OnIndex, IndexNow
<1>3. d = IndexPlanned(i, g) /\ d.category = "index" /\ d.table = TableOf[i]
  BY <1>2, OnIndexIs, OnIndexNow
<1>4. IndexNow(i, g) \in Measure({}).indexes
  BY DEF Measure, IndexMeasurements, IndexNow
<1>5. d \in Decided({})
  BY <1>1, <1>4 DEF Decided
<1>6. d.table \notin HeapsRebuilt(Decided({}))
  BY <1>3, HeapsOfPlan
<1>7. d \in Operations(Analyze({}))
  BY <1>2, <1>5, <1>6, DecisionStays
<1> QED
  BY <1>3, <1>7

LEMMA HeapIsPlanned ==
  ASSUME NEW t \in HeapTables, Has("heaps"), profile.heap.enabled, ~LeavesOut(t, {}),
         DecideHeap(HeapNow(t), profile).kind = "rebuild_heap"
  PROVE  HeapPlanned(t) \in Operations(Analyze({})) /\ HeapPlanned(t).category = "heap"
<1>1. PICK d : d = DecideHeap(HeapNow(t), profile)
  OBVIOUS
<1>2. OnHeap(d, t, {}) /\ d.kind = "rebuild_heap"
  BY <1>1 DEF OnHeap, HeapNow
<1>3. d = HeapPlanned(t) /\ d.category = "heap"
  BY <1>2, OnHeapIs
<1>4. HeapNow(t) \in Measure({}).heaps
  BY DEF Measure, HeapNow
<1>5. d \in Decided({})
  BY <1>1, <1>4 DEF Decided
<1>6. d \in Operations(Analyze({}))
  BY <1>2, <1>3, <1>5, DecisionStays
<1> QED
  BY <1>3, <1>6

----------------------------------------------------------------------------
(* What a step leaves of the measurements.                                   *)
LEMMA ShapesSame ==
  ASSUME UNCHANGED <<profile, cats, disabled>>
  PROVE  /\ \A i : Groups(i)' = Groups(i) /\ Live(i)' = Live(i)
         /\ \A c : Has(c)' = Has(c)
         /\ WantsCompression' = WantsCompression
         /\ \A t : LeavesOut(t, {})' = LeavesOut(t, {})
<1>1. (\A c : Has(c)' = Has(c)) /\ WantsCompression' = WantsCompression
  BY Zenon DEF Has, WantsCompression
<1>2. \A i : Groups(i)' = Groups(i)
  BY <1>1, Zenon DEF Groups, PartsIn, Part, Structures
<1>3. \A i : Live(i)' = Live(i)
  BY Zenon DEF Live
<1>4. \A t : LeavesOut(t, {})' = LeavesOut(t, {})
  BY Zenon DEF LeavesOut
<1> QED
  BY <1>1, <1>2, <1>3, <1>4

LEMMA IndexSame ==
  ASSUME NEW i, NEW g, UNCHANGED <<profile, cats, db>>
  PROVE  IndexNow(i, g)' = IndexNow(i, g) /\ IndexPlanned(i, g)' = IndexPlanned(i, g)
<1>1. /\ WorstFrag(g.parts)' = WorstFrag(g.parts)
      /\ EstimateFor(g.parts, i, {})' = EstimateFor(g.parts, i, {})
  BY WorstFragSame, EstimateSame DEF db
<1>0. profile' = profile /\ cats' = cats /\ tier' = tier /\ hot' = hot
  BY DEF db
<1>2. IndexNow(i, g)' = IndexNow(i, g)
  <2>1. /\ WantsCompression' = WantsCompression /\ Has("index")' = Has("index")
        /\ Estimable(g.head)' = Estimable(g.head) /\ WriteFor(i, {})' = WriteFor(i, {})
    BY <1>0, Zenon DEF WantsCompression, Has, Estimable, WriteFor
  <2> QED
    BY <1>0, <1>1, <2>1, Zenon DEF IndexNow, IndexMeasurement
<1> QED
  BY <1>0, <1>2, Zenon DEF IndexPlanned, Tier

LEMMA HeapSame ==
  ASSUME NEW t, UNCHANGED <<profile, cats, db>>
  PROVE  HeapNow(t)' = HeapNow(t) /\ HeapPlanned(t)' = HeapPlanned(t)
<1>0. PICK P : P = PartsIn(t)
  OBVIOUS
<1>1. P = PartsIn(t)'
  BY <1>0, Zenon DEF PartsIn, Part, Structures
<1>2. WorstFrag(P)' = WorstFrag(P) /\ EstimateFor(P, t, {})' = EstimateFor(P, t, {})
  BY WorstFragSame, EstimateSame DEF db
<1>3. /\ profile' = profile /\ cats' = cats /\ tier' = tier /\ hot' = hot
      /\ forwarded' = forwarded /\ loose' = loose /\ disabled' = disabled
  BY DEF db
<1>4. HeapNow(t)' = HeapNow(t)
  <2>1. /\ WantsCompression' = WantsCompression /\ WriteFor(t, {})' = WriteFor(t, {})
        /\ Density(t)' = Density(t) /\ RewriteMB(t, disabled[t])' = RewriteMB(t, disabled[t])
    BY <1>3, Zenon DEF WantsCompression, Has, WriteFor, Density
  <2> QED
    BY <1>0, <1>1, <1>2, <1>3, <2>1, Zenon DEF HeapNow, HeapMeasurement
<1> QED
  BY <1>3, <1>4, Zenon DEF HeapPlanned, Tier

LEMMA CurrentSame ==
  ASSUME NEW op, UNCHANGED <<profile, cats, db>>, Current(op)
  PROVE  Current(op)'
<1>1. \A i : Groups(i)' = Groups(i)
  BY ShapesSame DEF db
<1>2. /\ \A i, g : IndexPlanned(i, g)' = IndexPlanned(i, g)
      /\ \A t : HeapPlanned(t)' = HeapPlanned(t)
  BY IndexSame, HeapSame
<1> QED
  BY <1>1, <1>2, Zenon DEF Current

(* A step that measures nothing and moves operations: what is to come stays    *)
(* to come, and what is new to come is not a rebuild.                        *)
LEMMA CalmCarried ==
  ASSUME Calm, UNCHANGED <<profile, cats, db, owed>>, Apart',
         \A op \in Pending' : op \in Pending \/ op = Shrinking,
         \A op \in Pending : op \in Pending' \/ op = ShrinkOp
  PROVE  Calm'
<1>1. UNCHANGED <<profile, cats, db>> /\ UNCHANGED <<profile, cats, disabled>>
  BY DEF db
<1>2. OwedIsPlanned'
  <2> SUFFICES ASSUME NEW s \in owed \cap Indexes PROVE \E op \in Pending' : s \in Refreshes(op)
    BY DEF OwedIsPlanned, Refreshes, IndexesOf
  <2>1. PICK op \in Pending : s \in Refreshes(op)
    BY DEF Calm, OwedIsPlanned
  <2>2. op # ShrinkOp
    <3>1. Refreshes(ShrinkOp) = {}
      BY DEF Refreshes, ShrinkOp, Decision, RebuildsWhole
    <3> QED
      BY <2>1, <3>1
  <2> QED
    BY <2>1, <2>2
<1>3. \A op \in Pending' : Current(op)'
  <2> TAKE op \in Pending'
  <2>1. CASE op \in Pending
    BY <1>1, <2>1, CurrentSame DEF Calm
  <2>2. CASE op = Shrinking
    BY <2>2 DEF Current, Shrinking, Decision
  <2> QED
    BY <2>1, <2>2
<1>4. IndexDue'
  <2> SUFFICES ASSUME NEW i \in Indexes, NEW g \in Groups(i)',
                      TableOf[i] \notin HeapTables, Live(i)', (Has("index") \/ WantsCompression)',
                      DecideIndex(IndexNow(i, g)', profile').kind = "rebuild_index"
               PROVE  IndexPlanned(i, g)' \in Pending'
    BY DEF IndexDue
  <2>1. /\ g \in Groups(i) /\ Live(i) /\ (Has("index") \/ WantsCompression)
        /\ DecideIndex(IndexNow(i, g), profile).kind = "rebuild_index"
        /\ IndexPlanned(i, g)' = IndexPlanned(i, g)
    BY <1>1, ShapesSame, IndexSame
  <2>2. IndexPlanned(i, g) \in Pending
    BY <2>1 DEF Calm, IndexDue
  <2>3. IndexPlanned(i, g) # ShrinkOp
    BY DEF IndexPlanned, ShrinkOp, Decision
  <2> QED
    BY <2>1, <2>2, <2>3
<1>5. ASSUME RewritesSuffice PROVE HeapDue'
  <2> SUFFICES ASSUME NEW t \in HeapTables, Has("heaps")', profile'.heap.enabled, ~LeavesOut(t, {})',
                      DecideHeap(HeapNow(t)', profile').kind = "rebuild_heap"
               PROVE  HeapPlanned(t)' \in Pending'
    BY DEF HeapDue
  <2>1. /\ Has("heaps") /\ profile.heap.enabled /\ ~LeavesOut(t, {})
        /\ DecideHeap(HeapNow(t), profile).kind = "rebuild_heap"
        /\ HeapPlanned(t)' = HeapPlanned(t)
    BY <1>1, ShapesSame, HeapSame
  <2>2. HeapPlanned(t) \in Pending
    BY <1>5, <2>1 DEF Calm, HeapDue
  <2>3. HeapPlanned(t) # ShrinkOp
    BY DEF HeapPlanned, ShrinkOp, Decision
  <2> QED
    BY <2>1, <2>2, <2>3
<1> QED
  BY <1>2, <1>3, <1>4, <1>5 DEF Calm

----------------------------------------------------------------------------
(* What a run makes of an operation that is still what would be chosen.      *)
OfIndex(op, i, g) ==
  op = IndexPlanned(i, g) /\ Rewrites(op) = g.parts
    /\ Recompresses(op) = IF op.tier = "" THEN {} ELSE g.parts

OfHeap(op, t) ==
  op = HeapPlanned(t) /\ PartsIn(t) \subseteq Rewrites(op)
    /\ Recompresses(op) = IF op.tier = "" THEN {} ELSE PartsIn(t)

LEMMA WhatIsRecompressed ==
  ASSUME NEW op, Current(op)
  PROVE  \/ \E i \in Indexes : \E g \in Groups(i) : OfIndex(op, i, g)
         \/ \E t \in HeapTables : OfHeap(op, t)
         \/ op.kind \notin {"rebuild_index", "rebuild_heap"} /\ Recompresses(op) = {}
<1>1. CASE op.kind = "rebuild_index"
  <2>1. PICK i \in Indexes : \E g \in Groups(i) : op = IndexPlanned(i, g)
    BY <1>1 DEF Current
  <2>2. PICK g \in Groups(i) : op = IndexPlanned(i, g)
    BY <2>1
  <2>3. op.name = i /\ op.part = g.part /\ op.kind = "rebuild_index"
    BY <2>2 DEF IndexPlanned, Decision
  <2>4. Rewrites(op) = g.parts
    BY <2>3, GroupsOf DEF Rewrites
  <2>5. Recompresses(op) = IF op.tier = "" THEN {} ELSE g.parts
    BY <2>3, <2>4 DEF Recompresses
  <2>6. OfIndex(op, i, g)
    BY <2>2, <2>4, <2>5 DEF OfIndex
  <2> QED
    BY <2>6
<1>2. CASE op.kind = "rebuild_heap"
  <2>1. PICK t \in HeapTables : op = HeapPlanned(t)
    BY <1>2 DEF Current
  <2>2. op.table = t
    BY <2>1 DEF HeapPlanned, Decision
  <2>3. PartsIn(t) \subseteq Rewrites(op)
    BY <1>2, <2>2 DEF Rewrites
  <2>4. Recompresses(op) = IF op.tier = "" THEN {} ELSE PartsIn(t)
    BY <1>2, <2>2 DEF Recompresses
  <2> QED
    BY <2>1, <2>3, <2>4 DEF OfHeap
<1>3. CASE op.kind \notin {"rebuild_index", "rebuild_heap"}
  BY <1>3 DEF Current, Recompresses
<1> QED
  BY <1>1, <1>2, <1>3

Retiered(op) == \A x \in Part : tier'[x] = IF x \in Recompresses(op) THEN op.tier ELSE tier[x]

LEMMA IndexUntouched ==
  ASSUME NEW op, Current(op), Retiered(op), NEW i \in Indexes, NEW g \in Groups(i),
         op # IndexPlanned(i, g)
  PROVE  \A x \in g.parts : tier'[x] = tier[x]
<1>0. i \in Structures /\ g.parts \subseteq PartsIn(i) /\ g.parts \subseteq Part
  BY GroupsOf, PartitionsOf, StructuresDiffer
<1>1. Recompresses(op) \cap g.parts = {}
  <2>1. CASE \E j \in Indexes : \E h \in Groups(j) : OfIndex(op, j, h)
    <3>1. PICK j \in Indexes : \E h \in Groups(j) : OfIndex(op, j, h)
      BY <2>1
    <3>2. PICK h \in Groups(j) : OfIndex(op, j, h)
      BY <3>1
    <3>3. i # j \/ g # h
      BY <3>2 DEF OfIndex
    <3>4. h.parts \cap g.parts = {}
      <4>1. CASE i = j
        BY <3>3, <4>1, GroupsOf
      <4>2. CASE i # j
        BY <4>2, GroupsOf, StructuresDiffer
      <4> QED
        BY <4>1, <4>2
    <3> QED
      BY <3>2, <3>4 DEF OfIndex
  <2>2. CASE \E t \in HeapTables : OfHeap(op, t)
    BY <1>0, <2>2, StructuresDiffer DEF OfHeap
  <2> QED
    BY <2>1, <2>2, WhatIsRecompressed
<1> QED
  BY <1>0, <1>1 DEF Retiered

LEMMA HeapUntouched ==
  ASSUME NEW op, Current(op), Retiered(op), NEW t \in HeapTables, op # HeapPlanned(t)
  PROVE  \A x \in PartsIn(t) : tier'[x] = tier[x]
<1>0. PartsIn(t) \subseteq Part
  BY PartitionsOf, StructuresDiffer
<1>1. Recompresses(op) \cap PartsIn(t) = {}
  <2>1. CASE \E j \in Indexes : \E h \in Groups(j) : OfIndex(op, j, h)
    <3>1. PICK j \in Indexes : \E h \in Groups(j) : OfIndex(op, j, h)
      BY <2>1
    <3>2. PICK h \in Groups(j) : OfIndex(op, j, h)
      BY <3>1
    <3>3. h.parts \subseteq PartsIn(j) /\ j # t
      BY GroupsOf, StructuresDiffer
    <3> QED
      BY <3>2, <3>3, StructuresDiffer DEF OfIndex
  <2>2. CASE \E s \in HeapTables : OfHeap(op, s)
    <3>1. PICK s \in HeapTables : OfHeap(op, s)
      BY <2>2
    <3>2. s # t
      BY <3>1 DEF OfHeap
    <3> QED
      BY <3>1, <3>2, StructuresDiffer DEF OfHeap
  <2> QED
    BY <2>1, <2>2, WhatIsRecompressed
<1> QED
  BY <1>0, <1>1 DEF Retiered

(* After its own rebuild, and after what is done to others, nothing is asked   *)
(* of an index or a heap that was not asked before.                          *)
Ran(op) ==
  /\ frag' = [x \in Part |-> IF x \in Rewrites(op) THEN 0 ELSE frag[x]]
  /\ Retiered(op)
  /\ forwarded' = IF op.kind = "rebuild_heap" THEN forwarded \ {op.table} ELSE forwarded
  /\ loose' = loose \ {x[1] : x \in Rewrites(op)}
  /\ UNCHANGED <<profile, cats, hot, disabled>>

LEMMA FragFalls ==
  ASSUME NEW op, Ran(op), frag \in [Part -> 0..100]
  PROVE  /\ frag' \in [Part -> 0..100] /\ \A x \in Part : frag'[x] <= frag[x]
         /\ \A x \in Rewrites(op) \cap Part : frag'[x] = 0
<1>1. \A n \in 0..100 : 0 <= n /\ n <= n /\ 0 \in 0..100
  OBVIOUS
<1> QED
  BY <1>1 DEF Ran

LEMMA RebuiltIndexIsQuiet ==
  ASSUME Effective, NEW op, Ran(op), frag \in [Part -> 0..100],
         NEW i \in Indexes, NEW g \in Groups(i), OfIndex(op, i, g)
  PROVE  DecideIndex(IndexNow(i, g), profile)'.kind # "rebuild_index"
<1>0. g.parts \subseteq Part /\ g.parts # {}
  BY GroupsOf, PartitionsOf, StructuresDiffer
<1>1. WorstFrag(g.parts)' = 0
  BY <1>0, FragFalls, WorstFragGone DEF OfIndex
<1>2. op.tier = Tier(IndexNow(i, g), i)
  BY DEF OfIndex, IndexPlanned, Decision
<1>3. \A x \in g.parts : tier'[x] = IF op.tier = "" THEN tier[x] ELSE op.tier
  BY <1>0 DEF Ran, Retiered, OfIndex
<1>4. Tier(IndexNow(i, g), i)' = ""
  BY <1>2, <1>3, IndexSettled DEF Ran, Workload
<1>5. PICK m : m = IndexNow(i, g)'
  OBVIOUS
<1>6. m.frag = 0 /\ m.index = i
  BY <1>1, <1>5 DEF IndexNow, IndexMeasurement
<1>7. Tier(m, m.index) = ""
  BY <1>4, <1>5, <1>6 DEF Tier, Ran
<1>8. DecideIndex(m, profile).kind # "rebuild_index"
  BY <1>6, <1>7, NothingAsked
<1> QED
  BY <1>5, <1>8 DEF Ran

LEMMA LessOfIndex ==
  ASSUME Effective, NEW op, Ran(op), Current(op), frag \in [Part -> 0..100],
         NEW i \in Indexes, NEW g \in Groups(i), op # IndexPlanned(i, g),
         DecideIndex(IndexNow(i, g), profile)'.kind = "rebuild_index"
  PROVE  /\ DecideIndex(IndexNow(i, g), profile).kind = "rebuild_index"
         /\ IndexPlanned(i, g)' = IndexPlanned(i, g)
<1>0. g.parts \subseteq Part /\ g.parts # {} /\ g.head \in g.parts
  BY GroupsOf, PartitionsOf, StructuresDiffer
<1>1. \A x \in g.parts : tier'[x] = tier[x]
  BY IndexUntouched DEF Ran
<1>2. /\ Tier(IndexNow(i, g), i)' = Tier(IndexNow(i, g), i)
      /\ IndexPlanned(i, g)' = IndexPlanned(i, g)
  BY <1>0, <1>1, IndexTierSame DEF Ran, Workload
<1>3. WorstFrag(g.parts)' <= WorstFrag(g.parts)
  BY <1>0, FragFalls, WorstFragFalls
<1>4. WorstFrag(g.parts) \in Int /\ WorstFrag(g.parts)' \in Int
  <2>1. WorstFrag(g.parts) \in 0..100
    BY <1>0, WorstFragOf
  <2>2. frag' \in [Part -> 0..100]
    BY FragFalls
  <2>3. WorstFrag(g.parts)' \in 0..100
    BY <1>0, <2>2, WorstFragNext
  <2> QED
    BY <2>1, <2>3
<1>5. PICK m : m = IndexNow(i, g)
  OBVIOUS
<1>6. PICK n : n = IndexNow(i, g)'
  OBVIOUS
<1>7. /\ n.table = m.table /\ n.index = m.index /\ n.part = m.part /\ n.mb = m.mb /\ n.index = i
      /\ n.pages = m.pages
  <2>1. Has("index")' = Has("index")
    BY Zenon DEF Has, Ran
  <2> QED
    BY <1>5, <1>6, <2>1 DEF IndexNow, IndexMeasurement
<1>8. m.frag \in Int /\ n.frag \in Int /\ n.frag <= m.frag
  <2>1. Has("index")' = Has("index")
    BY Zenon DEF Has, Ran
  <2>2. CASE Has("index")
    <3>1. m.frag = WorstFrag(g.parts) /\ n.frag = WorstFrag(g.parts)'
      BY <1>5, <1>6, <2>1, <2>2, Zenon DEF IndexNow, IndexMeasurement
    <3> QED
      BY <1>3, <1>4, <3>1
  <2>3. CASE ~Has("index")
    <3>1. m.frag = 0 /\ n.frag = 0
      BY <1>5, <1>6, <2>1, <2>3, Zenon DEF IndexNow, IndexMeasurement
    <3> QED
      BY <3>1
  <2> QED
    BY <2>2, <2>3
<1>9. Tier(n, n.index) = Tier(m, m.index)
  BY <1>2, <1>5, <1>6, <1>7 DEF Tier, Ran
<1>10. DecideIndex(n, profile).kind = "rebuild_index"
  BY <1>6 DEF Ran
<1>11. DecideIndex(m, profile).kind = "rebuild_index"
  BY <1>7, <1>8, <1>9, <1>10, LessIsAsked
<1> QED
  BY <1>2, <1>5, <1>11

LEMMA RebuiltHeapIsQuiet ==
  ASSUME Effective, RewritesSuffice, NEW op, Ran(op), frag \in [Part -> 0..100],
         NEW t \in HeapTables, OfHeap(op, t)
  PROVE  DecideHeap(HeapNow(t), profile)'.kind # "rebuild_heap"
<1>0. PartsIn(t) \subseteq Part /\ <<t, 1>> \in PartsIn(t)
  BY PartitionsOf, StructuresDiffer
<1>1. op.kind = "rebuild_heap" /\ op.table = t
  BY DEF OfHeap, HeapPlanned, Decision
<1>2. PICK P : P = PartsIn(t) /\ P = PartsIn(t)'
  BY Zenon DEF PartsIn, Part, Structures
<1>3. WorstFrag(P)' = 0
  BY <1>0, <1>2, FragFalls, WorstFragGone DEF OfHeap
<1>4. t \notin forwarded' /\ t \notin loose'
  <2>1. <<t, 1>> \in Rewrites(op)
    BY <1>0 DEF OfHeap
  <2>2. t \in {x[1] : x \in Rewrites(op)}
    BY <2>1
  <2> QED
    BY <1>1, <2>2 DEF Ran
<1>5. PICK m : m = HeapNow(t)'
  OBVIOUS
<1>6. m.frag = 0 /\ m.density = Full /\ m.forwarded = 0 /\ m.records = 100
  BY <1>2, <1>3, <1>4, <1>5 DEF HeapNow, HeapMeasurement, Density
<1>7. DecideHeap(m, profile).kind # "rebuild_heap"
  BY <1>6, HeapNothingAsked
<1> QED
  BY <1>5, <1>7 DEF Ran

LEMMA LessOfHeap ==
  ASSUME Effective, NEW op, Ran(op), Current(op), frag \in [Part -> 0..100],
         NEW t \in HeapTables, op # HeapPlanned(t),
         DecideHeap(HeapNow(t), profile)'.kind = "rebuild_heap"
  PROVE  /\ DecideHeap(HeapNow(t), profile).kind = "rebuild_heap"
         /\ HeapPlanned(t)' = HeapPlanned(t)
<1>0. PartsIn(t) \subseteq Part /\ <<t, 1>> \in PartsIn(t)
  BY PartitionsOf, StructuresDiffer
<1>1. HeapPlanned(t)' = HeapPlanned(t)
  BY HeapUntouched, HeapTierSame DEF Ran, Workload
<1>2. PICK P : P = PartsIn(t) /\ P = PartsIn(t)'
  BY Zenon DEF PartsIn, Part, Structures
<1>3. WorstFrag(P)' <= WorstFrag(P) /\ WorstFrag(P) \in Int /\ WorstFrag(P)' \in Int
  <2>1. P \subseteq Part /\ P # {} /\ frag' \in [Part -> 0..100] /\ \A x \in P : frag'[x] <= frag[x]
    BY <1>0, <1>2, FragFalls
  <2>2. WorstFrag(P) \in 0..100 /\ WorstFrag(P)' \in 0..100
    BY <2>1, WorstFragOf, WorstFragNext
  <2>3. WorstFrag(P)' <= WorstFrag(P)
    BY <2>1, WorstFragFalls
  <2> QED
    BY <2>2, <2>3
<1>4. t \in forwarded' <=> t \in forwarded
  <2>1. op.kind = "rebuild_heap" => op.table # t
    <3> SUFFICES ASSUME op.kind = "rebuild_heap", op.table = t PROVE FALSE
      OBVIOUS
    <3>1. PICK s \in HeapTables : op = HeapPlanned(s)
      BY DEF Current
    <3>2. s = t
      BY <3>1 DEF HeapPlanned, Decision
    <3> QED
      BY <3>1, <3>2
  <2> QED
    BY <2>1 DEF Ran
<1>5. t \in loose' => t \in loose
  BY DEF Ran
<1>6. PICK m : m = HeapNow(t)
  OBVIOUS
<1>7. PICK n : n = HeapNow(t)'
  OBVIOUS
<1>8. /\ n.table = m.table /\ n.mb = m.mb /\ n.rewriteMB = m.rewriteMB
      /\ n.disabled = m.disabled /\ n.forwarded = m.forwarded /\ n.records = m.records
  <2>1. RewriteMB(t, disabled[t])' = RewriteMB(t, disabled[t]) /\ disabled' = disabled
    BY Zenon DEF Ran
  <2> QED
    BY <1>4, <1>6, <1>7, <2>1 DEF HeapNow, HeapMeasurement
<1>9. m.frag = WorstFrag(P) /\ n.frag = WorstFrag(P)'
  BY <1>2, <1>6, <1>7, Zenon DEF HeapNow, HeapMeasurement
<1>10. m.density \in Int /\ n.density \in Int /\ m.density <= n.density
  <2>1. m.density = Density(t) /\ n.density = Density(t)'
    BY <1>6, <1>7, Zenon DEF HeapNow, HeapMeasurement
  <2>2. Full \in Int /\ 50 <= Full
    <3>1. Full \in 50..100
      BY PlannerAssumption
    <3> QED
      BY <3>1
  <2>3. Density(t) \in Int /\ Density(t)' \in Int /\ Density(t) <= Density(t)'
    BY <1>5, <2>2 DEF Density
  <2> QED
    BY <2>1, <2>3
<1>11. DecideHeap(n, profile).kind = "rebuild_heap"
  BY <1>7 DEF Ran
<1>12. n.frag \in Int /\ m.frag \in Int /\ n.frag <= m.frag
  BY <1>3, <1>9
<1>13. DecideHeap(m, profile).kind = "rebuild_heap"
  BY <1>8, <1>10, <1>11, <1>12, HeapLessIsAsked
<1> QED
  BY <1>1, <1>6, <1>13

(* A rebuild still to come is not touched by another operation.              *)
LEMMA CurrentStays ==
  ASSUME NEW op, Ran(op), Current(op), NEW other, Current(other), other # op
  PROVE  Current(other)'
<1>0. \A i : Groups(i)' = Groups(i)
  BY ShapesSame DEF Ran
<1>1. CASE other.kind = "rebuild_index"
  <2>1. PICK i \in Indexes : \E g \in Groups(i) : other = IndexPlanned(i, g)
    BY <1>1 DEF Current
  <2>2. PICK g \in Groups(i) : other = IndexPlanned(i, g)
    BY <2>1
  <2>3. \A x \in g.parts : tier'[x] = tier[x]
    BY <2>2, IndexUntouched DEF Ran
  <2>4. g.head \in g.parts
    BY GroupsOf
  <2>5. IndexPlanned(i, g)' = IndexPlanned(i, g)
    BY <2>3, <2>4, IndexTierSame DEF Ran, Workload
  <2>6. \E j \in Indexes : \E h \in Groups(j)' : other = IndexPlanned(j, h)'
    BY <1>0, <2>2, <2>5
  <2> QED
    BY <1>1, <2>6 DEF Current
<1>2. CASE other.kind = "rebuild_heap"
  <2>1. PICK t \in HeapTables : other = HeapPlanned(t)
    BY <1>2 DEF Current
  <2>2. HeapPlanned(t)' = HeapPlanned(t)
    BY <2>1, HeapUntouched, HeapTierSame DEF Ran, Workload
  <2> QED
    BY <1>2, <2>1, <2>2 DEF Current
<1>3. CASE other.kind \notin {"rebuild_index", "rebuild_heap"}
  BY <1>3 DEF Current
<1> QED
  BY <1>1, <1>2, <1>3

----------------------------------------------------------------------------
(* The steps.                                                                *)
LEMMA NotPublishedToo ==
  ASSUME Filed, Apart, NEW op \in claimed
  PROVE  op \notin Published
  BY DEF Filed, Apart, Published

LEMMA RunKeepsCalm ==
  ASSUME Effective, frag \in [Part -> 0..100], Filed, Calm, NEW op \in claimed, Ran(op),
         claimed' = claimed \ {op}, owed' = owed \ Refreshes(op), UNCHANGED <<unpublished, queue>>
  PROVE  Calm'
<1>1. Current(op) /\ op \notin Published
  BY NotPublishedToo DEF Calm, Pending
<1>2. Pending' = Pending \ {op}
  <2>1. Published' = Published
    BY Zenon DEF Published
  <2> QED
    BY <1>1, <2>1 DEF Pending
<1>3. Apart'
  BY DEF Calm, Apart
<1>4. OwedIsPlanned'
  <2> SUFFICES ASSUME NEW s \in owed' \cap Indexes PROVE \E o \in Pending' : s \in Refreshes(o)
    BY DEF OwedIsPlanned
  <2>1. PICK o \in Pending : s \in Refreshes(o)
    BY DEF Calm, OwedIsPlanned
  <2>2. o # op
    BY <2>1
  <2> QED
    BY <1>2, <2>1, <2>2
<1>5. \A o \in Pending' : Current(o)'
  BY <1>1, <1>2, CurrentStays DEF Calm
<1>6. UNCHANGED <<profile, cats, disabled>>
  BY DEF Ran
<1>7. IndexDue'
  <2> SUFFICES ASSUME NEW i \in Indexes, NEW g \in Groups(i)',
                      TableOf[i] \notin HeapTables, Live(i)', (Has("index") \/ WantsCompression)',
                      DecideIndex(IndexNow(i, g), profile)'.kind = "rebuild_index"
               PROVE  IndexPlanned(i, g)' \in Pending'
    BY DEF IndexDue
  <2>1. g \in Groups(i) /\ Live(i) /\ (Has("index") \/ WantsCompression)
    BY <1>6, ShapesSame
  <2>2. CASE op = IndexPlanned(i, g)
    <3>1. op.kind = "rebuild_index" /\ op.name = i /\ op.part = g.part
      BY <2>2 DEF IndexPlanned, Decision
    <3>2. Rewrites(op) = g.parts
      BY <2>1, <3>1, GroupsOf DEF Rewrites
    <3>3. OfIndex(op, i, g)
      BY <2>2, <3>1, <3>2 DEF OfIndex, Recompresses
    <3> QED
      BY <2>1, <3>3, RebuiltIndexIsQuiet
  <2>3. CASE op # IndexPlanned(i, g)
    <3>1. /\ DecideIndex(IndexNow(i, g), profile).kind = "rebuild_index"
          /\ IndexPlanned(i, g)' = IndexPlanned(i, g)
      BY <1>1, <2>1, <2>3, LessOfIndex
    <3>2. IndexPlanned(i, g) \in Pending
      BY <2>1, <3>1 DEF Calm, IndexDue
    <3> QED
      BY <1>2, <2>3, <3>1, <3>2
  <2> QED
    BY <2>2, <2>3
<1>8. ASSUME RewritesSuffice PROVE HeapDue'
  <2> SUFFICES ASSUME NEW t \in HeapTables, Has("heaps")', profile'.heap.enabled, ~LeavesOut(t, {})',
                      DecideHeap(HeapNow(t), profile)'.kind = "rebuild_heap"
               PROVE  HeapPlanned(t)' \in Pending'
    BY DEF HeapDue
  <2>1. Has("heaps") /\ profile.heap.enabled /\ ~LeavesOut(t, {})
    BY <1>6, ShapesSame
  <2>2. CASE op = HeapPlanned(t)
    <3>1. op.kind = "rebuild_heap" /\ op.table = t
      BY <2>2 DEF HeapPlanned, Decision
    <3>2. PartsIn(t) \subseteq Rewrites(op)
      BY <3>1 DEF Rewrites
    <3>3. OfHeap(op, t)
      BY <2>2, <3>1, <3>2 DEF OfHeap, Recompresses
    <3> QED
      BY <1>8, <3>3, RebuiltHeapIsQuiet
  <2>3. CASE op # HeapPlanned(t)
    <3>1. /\ DecideHeap(HeapNow(t), profile).kind = "rebuild_heap"
          /\ HeapPlanned(t)' = HeapPlanned(t)
      BY <1>1, <2>3, LessOfHeap
    <3>2. HeapPlanned(t) \in Pending
      BY <1>8, <2>1, <3>1 DEF Calm, HeapDue
    <3> QED
      BY <1>2, <2>3, <3>1, <3>2
  <2> QED
    BY <2>2, <2>3
<1> QED
  BY <1>3, <1>4, <1>5, <1>7, <1>8 DEF Calm

LEMMA RunStep ==
  ASSUME PlannerInv, NEW op \in claimed, RunOp(op)
  PROVE  PlannerInv'
<1>1. Ran(op)
  BY DEF RunOp, Ran, Retiered
<1>2. Effective' /\ Filed' /\ NoDoubleWork'
  <2>1. Effective'
    BY DEF RunOp, PlannerInv, Effective
  <2>2. Filed'
    BY Zenon DEF RunOp, PlannerInv, Filed
  <2>3. NoDoubleWork'
    BY DEF RunOp, PlannerInv, NoDoubleWork, Maintenance
  <2> QED
    BY <2>1, <2>2, <2>3
<1>3. frag' \in [Part -> 0..100]
  BY <1>1, FragFalls DEF PlannerInv
<1>4. calm' => Calm'
  BY <1>1, RunKeepsCalm DEF RunOp, PlannerInv
<1> QED
  BY <1>2, <1>3, <1>4 DEF PlannerInv

(* What moves operations and measures nothing.                               *)
LEMMA MoveStep ==
  ASSUME PlannerInv, UNCHANGED <<profile, cats, db>>, Filed', NoDoubleWork',
         calm' => calm /\ UNCHANGED owed /\ Apart',
         calm' => \A op \in Pending' : op \in Pending \/ op = Shrinking,
         calm' => \A op \in Pending : op \in Pending' \/ op = ShrinkOp
  PROVE  PlannerInv'
<1>1. Effective' /\ frag' \in [Part -> 0..100]
  BY DEF PlannerInv, Effective, db
<1>2. calm' => Calm'
  BY CalmCarried DEF PlannerInv
<1> QED
  BY <1>1, <1>2 DEF PlannerInv

LEMMA PublishStep ==
  ASSUME PlannerInv, Publish
  PROVE  PlannerInv'
<1>1. PICK c \in ToSet(Files) :
        /\ unpublished[c] # {}
        /\ queue' = [queue EXCEPT ![c] = unpublished[c]]
        /\ unpublished' = [unpublished EXCEPT ![c] = {}]
  BY FirstIsThere DEF Publish, PlannerInv, Filed
<1>2. /\ unpublished'[c] = {} /\ queue'[c] = unpublished[c]
      /\ \A d \in ToSet(Files) : d # c => unpublished'[d] = unpublished[d] /\ queue'[d] = queue[d]
      /\ unpublished' = [d \in ToSet(Files) |-> unpublished'[d]]
      /\ queue' = [d \in ToSet(Files) |-> queue'[d]]
  BY <1>1 DEF PlannerInv, Filed
<1>3. Filed'
  BY <1>2 DEF PlannerInv, Filed
<1>4. NoDoubleWork'
  <2>1. Maintenance(unpublished') \subseteq Maintenance(unpublished)
    BY <1>2, Categories DEF Maintenance
  <2> QED
    BY <2>1 DEF PlannerInv, NoDoubleWork
<1>5. UNCHANGED <<profile, cats, db, owed, calm, claimed>>
  BY DEF Publish
<1>6. ASSUME calm PROVE Apart' /\ Pending' = Pending
  <2>1. Apart
    BY <1>6 DEF PlannerInv, Calm
  <2>2. queue[c] = {}
    BY <1>1, <2>1 DEF Apart
  <2>3. \A d \in ToSet(Files) : unpublished'[d] \union queue'[d] = unpublished[d] \union queue[d]
    BY <1>2, <2>2
  <2>4. Pending' = Pending
    BY <1>5, <2>3 DEF Pending, Published
  <2>5. \A d \in ToSet(Files) : unpublished'[d] = {} \/ queue'[d] = {}
    BY <1>2, <2>1 DEF Apart
  <2>6. \A d \in ToSet(Files) : unpublished[d] = {} /\ queue[d] = {} => unpublished'[d] = {} /\ queue'[d] = {}
    BY <2>3
  <2>7. Apart'
    BY <1>5, <2>1, <2>5, <2>6 DEF Apart
  <2> QED
    BY <2>4, <2>7
<1> QED
  BY <1>3, <1>4, <1>5, <1>6, MoveStep

LEMMA ClaimStep ==
  ASSUME PlannerInv, Claim
  PROVE  PlannerInv'
<1>1. PICK c \in ToSet(Files) :
        queue[c] # {} /\ claimed' = queue[c] /\ queue' = [queue EXCEPT ![c] = {}]
  BY FirstIsThere DEF Claim, PlannerInv, Filed
<1>2. /\ queue'[c] = {} /\ \A d \in ToSet(Files) : d # c => queue'[d] = queue[d]
      /\ queue' = [d \in ToSet(Files) |-> queue'[d]]
  BY <1>1 DEF PlannerInv, Filed
<1>3. UNCHANGED <<profile, cats, db, owed, calm, unpublished>> /\ claimed = {}
  BY DEF Claim
<1>4. Filed'
  BY <1>2, <1>3 DEF PlannerInv, Filed
<1>5. NoDoubleWork'
  BY <1>3 DEF PlannerInv, NoDoubleWork
<1>6. ASSUME calm PROVE Apart' /\ Pending' = Pending
  <2>1. Apart
    BY <1>6 DEF PlannerInv, Calm
  <2>2. unpublished[c] = {}
    BY <1>1, <2>1 DEF Apart
  <2>3. \A op \in claimed' : op.category = c
    BY <1>1 DEF PlannerInv, Filed
  <2>4. Apart'
    BY <1>2, <1>3, <2>1, <2>2, <2>3 DEF Apart
  <2>5. Pending' = Pending
    BY <1>1, <1>2, <1>3 DEF Pending, Published
  <2> QED
    BY <2>4, <2>5
<1> QED
  BY <1>3, <1>4, <1>5, <1>6, MoveStep

LEMMA StartShrinkStep ==
  ASSUME PlannerInv, StartShrink
  PROVE  PlannerInv'
<1>1. /\ claimed = {ShrinkOp} /\ claimed' = {Shrinking}
      /\ UNCHANGED <<profile, cats, db, owed, calm, unpublished, queue>>
  BY DEF StartShrink
<1>2. Filed' /\ NoDoubleWork'
  BY <1>1 DEF PlannerInv, Filed, NoDoubleWork
<1>3. ShrinkOp.category = "shrink" /\ Shrinking.category = "shrink"
  BY DEF ShrinkOp, Shrinking, Decision
<1>4. calm => Apart'
  BY <1>1, <1>3 DEF PlannerInv, Calm, Apart
<1>5. Published' = Published
  BY <1>1, Zenon DEF Published
<1> QED
  BY <1>1, <1>2, <1>4, <1>5, MoveStep DEF Pending

(* An analysis that loses no read plans what is chosen now.                  *)
LEMMA PlannedIsCurrent ==
  ASSUME NEW d \in Operations(Analyze({}))
  PROVE  Current(d)
<1>1. CASE \E i \in Indexes : \E g \in Groups(i) : OnIndex(d, i, g, {})
  <2>1. PICK i \in Indexes : \E g \in Groups(i) : OnIndex(d, i, g, {})
    BY <1>1
  <2>2. PICK g \in Groups(i) : OnIndex(d, i, g, {})
    BY <2>1
  <2>3. CASE d.kind = "rebuild_index"
    BY <2>2, <2>3, OnIndexNow DEF Current
  <2>4. CASE d.kind # "rebuild_index"
    <3>1. d.tier = "" /\ d.kind # "rebuild_heap"
      BY <2>2, <2>4, OnIndexDoes
    <3> QED
      BY <2>4, <3>1 DEF Current
  <2> QED
    BY <2>3, <2>4
<1>2. CASE \E t \in HeapsRebuilt(Decided({})) : d.kind = "rebuild_heap" /\ OnHeap(d, t, {})
  <2>1. PICK t \in HeapTables : d.kind = "rebuild_heap" /\ OnHeap(d, t, {})
    BY <1>2, HeapsOfPlan
  <2>2. d = HeapPlanned(t)
    BY <2>1, OnHeapIs
  <2> QED
    BY <2>1, <2>2 DEF Current
<1>3. CASE d.tier = "" /\ d.kind \in {"update_statistics", "check_db"}
  BY <1>3 DEF Current
<1> QED
  BY <1>1, <1>2, <1>3, OperationsOf

LEMMA PlannedShrink ==
  ASSUME NEW names, NEW op \in ShrinkManifest(names)
  PROVE  /\ op.category = "shrink" /\ op.tier = ""
         /\ op.kind \in {"shrink", "reorganize_index"}
<1>1. CASE op = ShrinkOp
  BY <1>1 DEF ShrinkOp, Decision
<1>2. CASE op # ShrinkOp
  <2>1. PICK n : op = Decision("shrink", "reorganize_index", names[n].table, names[n].index, 0, "", "")
    BY <1>2 DEF ShrinkManifest
  <2> QED
    BY <2>1 DEF Decision
<1> QED
  BY <1>1, <1>2

LEMMA PlanFiles ==
  ASSUME NEW lost, NEW given, Plan(lost, given)
  PROVE  /\ unpublished' = [c \in ToSet(Files) |-> unpublished'[c]]
         /\ \A c \in ToSet(Files) \ {"shrink"} :
              unpublished'[c] = {d \in Operations(Analyze(lost)) : d.category = c}
         /\ \A op \in unpublished'["shrink"] :
              op.category = "shrink" /\ op.tier = "" /\ op.kind \in {"shrink", "reorganize_index"}
<1>1. PICK S : /\ unpublished' = [ByCategory(Operations(Analyze(lost))) EXCEPT !["shrink"] = S]
               /\ \A op \in S : op.category = "shrink" /\ op.tier = ""
                                  /\ op.kind \in {"shrink", "reorganize_index"}
  <2>1. PICK names : unpublished' = [ByCategory(Operations(Analyze(lost))) EXCEPT
                       !["shrink"] = IF profile.shrink.enabled THEN ShrinkManifest(names) ELSE {}]
    BY Zenon DEF Plan
  <2>2. PICK S : S = IF profile.shrink.enabled THEN ShrinkManifest(names) ELSE {}
    OBVIOUS
  <2>3. \A op \in S : op.category = "shrink" /\ op.tier = ""
                                  /\ op.kind \in {"shrink", "reorganize_index"}
    BY <2>2, PlannedShrink
  <2> QED
    BY <2>1, <2>2, <2>3
<1>2. "shrink" \in ToSet(Files)
  BY Categories
<1> QED
  BY <1>1, <1>2 DEF ByCategory

LEMMA PlanIsCalm ==
  ASSUME Filed, NEW given, Plan({}, given), queue = Nothing, claimed = {}
  PROVE  Calm'
<1> DEFINE ops == Operations(Analyze({}))
<1>1. /\ UNCHANGED <<profile, cats, db, queue, claimed>> /\ owed' = Due({})
      /\ UNCHANGED <<profile, cats, disabled>>
  BY DEF Plan, db
<1>2. /\ \A c \in ToSet(Files) \ {"shrink"} : unpublished'[c] = {d \in ops : d.category = c}
      /\ \A op \in unpublished'["shrink"] :
              op.category = "shrink" /\ op.tier = "" /\ op.kind \in {"shrink", "reorganize_index"}
  BY PlanFiles
<1>3. \A op : op \in Pending' <=> \E c \in ToSet(Files) : op \in unpublished'[c]
  BY <1>1 DEF Pending, Published, Nothing
<1>4. \A op \in ops : op.category \in ToSet(Files) \ {"shrink"} => op \in Pending'
  BY <1>2, <1>3
<1>5. \A c \in {"index", "heap", "statistics"} : c \in ToSet(Files) \ {"shrink"}
  BY Categories
<1>6. Apart'
  BY <1>1 DEF Apart, Nothing
<1>7. OwedIsPlanned'
  <2> SUFFICES ASSUME NEW s \in Due({}) \cap Indexes PROVE \E op \in Pending' : s \in Refreshes(op)
    BY <1>1 DEF OwedIsPlanned
  <2>1. PICK op \in ops : op.category \in {"index", "heap", "statistics"} /\ s \in Refreshes(op)
    BY RefresherPlanned
  <2> QED
    BY <1>4, <1>5, <2>1
<1>8. \A op \in Pending' : Current(op)'
  <2> TAKE op \in Pending'
  <2>1. CASE op \in ops
    BY <1>1, <2>1, PlannedIsCurrent, CurrentSame
  <2>2. CASE op \in unpublished'["shrink"]
    <3>1. op.tier = "" /\ op.kind \notin {"rebuild_index", "rebuild_heap"}
      BY <1>2, <2>2
    <3> QED
      BY <3>1 DEF Current
  <2>3. PICK c \in ToSet(Files) : op \in unpublished'[c]
    BY <1>3
  <2> QED
    BY <1>2, <2>1, <2>2, <2>3
<1>9. IndexDue'
  <2> SUFFICES ASSUME NEW i \in Indexes, NEW g \in Groups(i)',
                      TableOf[i] \notin HeapTables, Live(i)', (Has("index") \/ WantsCompression)',
                      DecideIndex(IndexNow(i, g)', profile').kind = "rebuild_index"
               PROVE  IndexPlanned(i, g)' \in Pending'
    BY DEF IndexDue
  <2>1. /\ g \in Groups(i) /\ Live(i) /\ (Has("index") \/ WantsCompression)
        /\ DecideIndex(IndexNow(i, g), profile).kind = "rebuild_index"
        /\ IndexPlanned(i, g)' = IndexPlanned(i, g)
    BY <1>1, ShapesSame, IndexSame
  <2>2. IndexPlanned(i, g) \in ops /\ IndexPlanned(i, g).category = "index"
    BY <2>1, IndexIsPlanned
  <2> QED
    BY <1>4, <1>5, <2>1, <2>2
<1>10. HeapDue'
  <2> SUFFICES ASSUME NEW t \in HeapTables, Has("heaps")', profile'.heap.enabled, ~LeavesOut(t, {})',
                      DecideHeap(HeapNow(t)', profile').kind = "rebuild_heap"
               PROVE  HeapPlanned(t)' \in Pending'
    BY DEF HeapDue
  <2>1. /\ Has("heaps") /\ profile.heap.enabled /\ ~LeavesOut(t, {})
        /\ DecideHeap(HeapNow(t), profile).kind = "rebuild_heap"
        /\ HeapPlanned(t)' = HeapPlanned(t)
    BY <1>1, ShapesSame, HeapSame
  <2>2. HeapPlanned(t) \in ops /\ HeapPlanned(t).category = "heap"
    BY <2>1, HeapIsPlanned
  <2> QED
    BY <1>4, <1>5, <2>1, <2>2
<1> QED
  BY <1>6, <1>7, <1>8, <1>9, <1>10 DEF Calm

LEMMA PlanStep ==
  ASSUME PlannerInv, NEW lost, NEW given, Plan(lost, given)
  PROVE  PlannerInv'
<1> DEFINE ops == Operations(Analyze(lost))
<1>1. /\ UNCHANGED <<profile, queue, frag>>
      /\ calm' = (lost = {} /\ queue = Nothing /\ claimed = {})
  BY DEF Plan, db
<1>2. /\ unpublished' = [c \in ToSet(Files) |-> unpublished'[c]]
      /\ \A c \in ToSet(Files) \ {"shrink"} : unpublished'[c] = {d \in ops : d.category = c}
      /\ \A op \in unpublished'["shrink"] : op.category = "shrink"
  BY PlanFiles
<1>3. Effective' /\ frag' \in [Part -> 0..100]
  BY <1>1 DEF PlannerInv, Effective
<1>4. Filed'
  BY <1>1, <1>2 DEF PlannerInv, Filed
<1>5. NoDoubleWork'
  <2>1. \A op \in Maintenance(unpublished') : op \in ops /\ op.category \in {"index", "heap"}
    BY <1>2, Categories DEF Maintenance
  <2>2. \A op \in Maintenance(unpublished') : OnWhich(op, lost)
    BY <2>1, MaintenanceOf
  <2> QED
    BY <2>2, PlannedApart DEF NoDoubleWork
<1>6. calm' => Calm'
  BY <1>1, PlanIsCalm DEF PlannerInv
<1> QED
  BY <1>3, <1>4, <1>5, <1>6 DEF PlannerInv

(* What is not the plan, or fails, ends the calm.                            *)
LEMMA DisturbingStep ==
  ASSUME PlannerInv, calm' = FALSE, frag' \in [Part -> 0..100],
         UNCHANGED <<profile, queue>>, unpublished' \in {unpublished, Nothing}
  PROVE  PlannerInv'
<1>1. Effective'
  BY DEF PlannerInv, Effective
<1>2. Filed'
  BY DEF PlannerInv, Filed, Nothing
<1>3. NoDoubleWork'
  <2>1. Maintenance(Nothing) = {}
    BY Categories DEF Maintenance, Nothing
  <2> QED
    BY <2>1 DEF PlannerInv, NoDoubleWork
<1> QED
  BY <1>1, <1>2, <1>3 DEF PlannerInv

LEMMA DriftStep ==
  ASSUME PlannerInv, Drift
  PROVE  PlannerInv'
<1>1. FragLevels \subseteq 0..100
  BY PlannerAssumption
<1>2. frag' \in [Part -> 0..100]
  BY <1>1 DEF Drift, PlannerInv
<1> QED
  BY <1>2, DisturbingStep DEF Drift

LEMMA EndShrinkStep ==
  ASSUME PlannerInv, EndShrink
  PROVE  PlannerInv'
<1>1. FragLevels \in SUBSET (0..100) /\ FragLevels # {}
  BY PlannerAssumption
<1>2. Max(FragLevels) \in 0..100
  BY <1>1, WorstOf
<1>3. frag' \in [Part -> 0..100]
  BY <1>2 DEF EndShrink, PlannerInv
<1> QED
  BY <1>3, DisturbingStep DEF EndShrink

LEMMA CaptureStep ==
  ASSUME PlannerInv, UNCHANGED <<profile, cats, db, unpublished, queue, claimed, owed, calm>>
  PROVE  PlannerInv'
<1>1. Filed' /\ NoDoubleWork' /\ (calm => Apart')
  BY DEF PlannerInv, Filed, NoDoubleWork, Calm, Apart
<1>2. Pending' = Pending
  BY Zenon DEF Pending, Published
<1> QED
  BY <1>1, <1>2, MoveStep

(* The thresholds of a profile that was read are those of the file, or the     *)
(* defaults; none is 0.                                                      *)
LEMMA Defaults ==
  ASSUME NEW raw \in YamlProfile
  PROVE  LET p == ApplyDefaults(raw)
         IN /\ p.index = IndexDefaults(raw.index) /\ p.comp = CompressionDefaults(raw.comp)
            /\ p.heap = HeapDefaults(raw.heap)
<1>1. raw = [index |-> raw.index, comp |-> raw.comp, heap |-> raw.heap, shrink |-> raw.shrink,
             stats |-> raw.stats, checkdb |-> raw.checkdb, scope |-> raw.scope,
             overrides |-> raw.overrides]
  BY DEF YamlProfile
<1> QED
  BY <1>1 DEF ApplyDefaults

LEMMA CompressionDefault ==
  ASSUME NEW raw \in YamlProfile
  PROVE  /\ CompressionDefaults(raw.comp).minGain = Or(raw.comp.minGain, 5)
         /\ CompressionDefaults(raw.comp).pageExtra = Or(raw.comp.pageExtra, 10)
<1>1. PICK s : s = raw.comp
  OBVIOUS
<1>2. s = [enabled |-> s.enabled, pageExtra |-> s.pageExtra, minGain |-> s.minGain,
           ratio |-> s.ratio, cap |-> s.cap, activity |-> s.activity,
           perPart |-> s.perPart, include |-> s.include, exclude |-> s.exclude]
  BY <1>1 DEF YamlProfile
<1> QED
  BY <1>1, <1>2 DEF CompressionDefaults

LEMMA HeapDefault ==
  ASSUME NEW raw \in YamlProfile
  PROVE  LET h == HeapDefaults(raw.heap)
         IN /\ h.fwd = Or(raw.heap.fwd, 10) /\ h.frag = Or(raw.heap.frag, 15)
            /\ h.free = Or(raw.heap.free, 30)
<1>1. PICK s : s = raw.heap
  OBVIOUS
<1>2. s = [enabled |-> s.enabled, min |-> s.min, max |-> s.max, fwd |-> s.fwd,
           frag |-> s.frag, free |-> s.free]
  BY <1>1 DEF YamlProfile
<1> QED
  BY <1>1, <1>2 DEF HeapDefaults

LEMMA PlannerInvInitially == PlannerInit => PlannerInv
<1> SUFFICES ASSUME PlannerInit PROVE PlannerInv
  OBVIOUS
<1>1. PICK start \in Starts :
        /\ profile = ApplyDefaults(start.raw) /\ Valid(profile)
        /\ frag = [x \in Part |-> start.frag[x[1]]]
  BY DEF PlannerInit
<1>2. start.raw \in YamlProfile /\ start.frag \in [Structures -> FragLevels] /\ FragLevels \subseteq 0..100
  BY PlannerAssumption
<1>3. Effective
  <2>1. \A n, d : d # 0 => Or(n, d) # 0
    BY DEF Or
  <2>2. PICK raw \in YamlProfile : profile = ApplyDefaults(raw)
    BY <1>1, <1>2
  <2>3. /\ profile.index = IndexDefaults(raw.index)
        /\ profile.comp = CompressionDefaults(raw.comp) /\ profile.heap = HeapDefaults(raw.heap)
    BY <2>2, Defaults
  <2>4. profile.index.rebuild = Or(raw.index.rebuild, 30)
    BY <2>3 DEF IndexDefaults
  <2>5. /\ profile.comp.minGain = Or(raw.comp.minGain, 5)
        /\ profile.comp.pageExtra = Or(raw.comp.pageExtra, 10)
    BY <2>2, <2>3, CompressionDefault
  <2>6. /\ profile.heap.fwd = Or(raw.heap.fwd, 10) /\ profile.heap.frag = Or(raw.heap.frag, 15)
        /\ profile.heap.free = Or(raw.heap.free, 30)
    BY <2>2, <2>3, HeapDefault
  <2>7. /\ profile.index.rebuild # 0 /\ profile.comp.minGain # 0 /\ profile.comp.pageExtra # 0
        /\ profile.heap.fwd # 0 /\ profile.heap.frag # 0 /\ profile.heap.free # 0
    BY <2>1, <2>4, <2>5, <2>6
  <2>8. /\ profile.index.rebuild \in 0..100 /\ profile.comp.minGain \in 0..100
        /\ profile.comp.pageExtra \in 0..100 /\ profile.heap.fwd \in 0..100
        /\ profile.heap.frag \in 0..100 /\ profile.heap.free \in 0..100
        /\ profile.comp.cap \in {"row", "none"}
    BY <1>1 DEF Valid, Percent
  <2>9. \A n \in 0..100 : n # 0 => n \in 1..100
    OBVIOUS
  <2>10. RewritesSuffice => 100 - Full < profile.heap.free
    <3>1. profile.heap = HeapDefaults(start.raw.heap)
      BY <1>1, <1>2, Defaults
    <3> QED
      BY <3>1 DEF RewritesSuffice
  <2> QED
    BY <2>7, <2>8, <2>9, <2>10 DEF Effective
<1>4. frag \in [Part -> 0..100]
  <2>1. \A x \in Part : x[1] \in Structures
    BY DEF Part
  <2> QED
    BY <1>1, <1>2, <2>1
<1>5. Filed /\ NoDoubleWork
  <2>1. Maintenance(Nothing) = {}
    BY Categories DEF Maintenance, Nothing
  <2> QED
    BY <2>1 DEF PlannerInit, Filed, NoDoubleWork, Nothing
<1> QED
  BY <1>3, <1>4, <1>5 DEF PlannerInit, PlannerInv

LEMMA PlannerInvKept == PlannerInv /\ [PlannerNext]_plannerVars => PlannerInv'
<1> SUFFICES ASSUME PlannerInv, [PlannerNext]_plannerVars PROVE PlannerInv'
  OBVIOUS
<1>1. ASSUME NEW lost, NEW given, Plan(lost, given) PROVE PlannerInv'
  BY <1>1, PlanStep
<1>2. CASE Publish
  BY <1>2, PublishStep
<1>3. CASE PlannerDies
  BY <1>3, DisturbingStep DEF PlannerDies, PlannerInv, db
<1>4. CASE Claim
  BY <1>4, ClaimStep
<1>5. ASSUME NEW op \in claimed, RunOp(op) PROVE PlannerInv'
  BY <1>5, RunStep
<1>6. ASSUME NEW op \in claimed, RunFails(op) PROVE PlannerInv'
  BY <1>6, DisturbingStep DEF RunFails, PlannerInv, db
<1>7. CASE StartShrink
  BY <1>7, StartShrinkStep
<1>8. CASE EndShrink
  BY <1>8, EndShrinkStep
<1>9. ASSUME NEW t, NEW entry, Capture(t, entry) PROVE PlannerInv'
  BY <1>9, CaptureStep DEF Capture
<1>10. CASE Drift
  BY <1>10, DriftStep
<1>11. CASE UNCHANGED plannerVars
  BY <1>11, CaptureStep DEF plannerVars
<1> QED
  BY <1>1, <1>2, <1>3, <1>4, <1>5, <1>6, <1>7, <1>8, <1>9, <1>10, <1>11
  DEF PlannerNext, CaptureLock, CaptureTail

LEMMA PlannerInvHolds == PlannerSpec => []PlannerInv
  BY PlannerInvInitially, PlannerInvKept, PTL DEF PlannerSpec

LEMMA DoneIsEmpty ==
  ASSUME Done
  PROVE  Pending = {}
  BY DEF Done, Pending, Published, Nothing

(* No plan has two operations that rewrite the same partition: not two on one  *)
(* index (maint.Decide, one measurement per partition or one per index), nor  *)
(* the rebuild of a heap beside an operation on one of its indexes (redundant).*)
THEOREM WorkIsNotDoubled == PlannerSpec => []NoDoubleWork
<1>1. PlannerInv => NoDoubleWork
  BY DEF PlannerInv
<1> QED
  BY <1>1, PlannerInvHolds, PTL

(* A statistic that backs an index and was due when it was analysed has been   *)
(* refreshed once the plan has run: what maint.Decide leaves out as redundant  *)
(* is refreshed by a rebuild of the same plan.                               *)
THEOREM DueGetsRefreshed == PlannerSpec => []DueIsRefreshed
<1>1. PlannerInv => DueIsRefreshed
  <2> SUFFICES ASSUME PlannerInv, calm, Done, NEW s \in owed \cap Indexes PROVE FALSE
    BY DEF DueIsRefreshed
  <2>1. \E op \in Pending : s \in Refreshes(op)
    BY DEF PlannerInv, Calm, OwedIsPlanned
  <2> QED
    BY <2>1, DoneIsEmpty
<1> QED
  BY <1>1, PlannerInvHolds, PTL

(* Once a plan has run undisturbed, the next analysis finds no heap and no     *)
(* index of a clustered table to rebuild: nothing is maintained night after   *)
(* night for a threshold, a gain, a cap or a pin that its own rebuild leaves  *)
(* unsatisfied - unless the profile asks of a heap to be fuller than a rebuild*)
(* makes it (free_space_deviation_percent), which the code does not rule out. *)
THEOREM SecondPassIsQuiet == RewritesSuffice => (PlannerSpec => []SecondPassQuiet)
<1> SUFFICES ASSUME RewritesSuffice PROVE PlannerSpec => []SecondPassQuiet
  OBVIOUS
<1>1. PlannerInv => SecondPassQuiet
  <2> SUFFICES ASSUME PlannerInv, calm, Done, NEW d \in Analyze({}),
                      d.kind \in {"rebuild_index", "rebuild_heap"}
               PROVE  d.kind = "rebuild_index" /\ d.table \in HeapTables
    BY DEF SecondPassQuiet, Rebuilds
  <2>1. Calm /\ Pending = {}
    BY DoneIsEmpty DEF PlannerInv
  <2>2. d \in Operations(Analyze({}))
    BY DEF Operations
  <2>3. CASE \E i \in Indexes : \E g \in Groups(i) : OnIndex(d, i, g, {})
    <3>1. PICK i \in Indexes : \E g \in Groups(i) : OnIndex(d, i, g, {})
      BY <2>3
    <3>2. PICK g \in Groups(i) : OnIndex(d, i, g, {})
      BY <3>1
    <3>3. d.kind = "rebuild_index" /\ d.table = TableOf[i]
      <4>1. d.kind \in {"rebuild_index", "reorganize_index", "skip"}
        BY <3>2, OnIndexDoes
      <4>2. d.table = TableOf[i]
        BY <3>2, OnIndexIs
      <4> QED
        BY <4>1, <4>2
    <3>4. ASSUME TableOf[i] \notin HeapTables PROVE FALSE
      <4>1. Live(i) /\ (Has("index") \/ WantsCompression) /\ d = DecideIndex(IndexNow(i, g), profile)
        BY <3>2 DEF OnIndex, IndexNow
      <4>2. IndexPlanned(i, g) \in Pending
        BY <2>1, <3>3, <3>4, <4>1 DEF Calm, IndexDue
      <4> QED
        BY <2>1, <4>2
    <3> QED
      BY <3>3, <3>4
  <2>4. CASE \E t \in HeapsRebuilt(Decided({})) : d.kind = "rebuild_heap" /\ OnHeap(d, t, {})
    <3>1. PICK t \in HeapTables : d.kind = "rebuild_heap" /\ OnHeap(d, t, {})
      BY <2>4, HeapsOfPlan
    <3>2. /\ Has("heaps") /\ profile.heap.enabled /\ ~LeavesOut(t, {})
          /\ d = DecideHeap(HeapNow(t), profile)
      BY <3>1 DEF OnHeap, HeapNow
    <3>3. HeapPlanned(t) \in Pending
      BY <2>1, <3>1, <3>2 DEF Calm, HeapDue
    <3> QED
      BY <2>1, <3>3
  <2> QED
    BY <2>2, <2>3, <2>4, OperationsOf
<1> QED
  BY <1>1, PlannerInvHolds, PTL
=============================================================================
