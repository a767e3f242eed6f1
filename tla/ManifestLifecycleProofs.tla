---------------------- MODULE ManifestLifecycleProofs ----------------------
(***************************************************************************)
(* Type correctness of ManifestLifecycle and its safety invariants, for    *)
(* every set of manifests, plans and options and any number of adverse     *)
(* events; and of QueueLock, whose lock every run of a manifest holds.       *)
(***************************************************************************)
EXTENDS ManifestLifecycle, QueueLock, TLAPS

USE LifecycleAssumption DEF FaultKind

Held == {"claimed", "load", "op", "run", "ended", "advance", "seal", "move",
         "handover", "report"}

(* What TypeOK needs to be inductive: a step is always at an operation of the *)
(* plan, and only operations of the plan are quarantined.                     *)
StepOK ==
  /\ pc \in {"op", "run", "ended", "advance"} => i # 0
  /\ pc \in {"run", "ended", "advance"} => i <= Len(plan[cur])
  /\ pc \in Held => failed \subseteq 1..Len(plan[cur])
  /\ pc \in {"claimed", "load"} => failed = {}

TypeInv == TypeOK /\ StepOK

(* A plan's fingerprint is a sequence of targets as long as the plan. *)
LEMMA FingerprintType ==
  ASSUME NEW p \in Plans
  PROVE  /\ Fingerprint(p) \in Seq(Target)
         /\ Len(Fingerprint(p)) = Len(p)
         /\ \A j \in 1..Len(p) : p[j] \in Op /\ Fingerprint(p)[j] = TargetOf[p[j]]
  BY DEF Fingerprint

(* The absent sidecar is typed. *)
LEMMA NoSidecarType == NoSidecar \in Sidecar
  BY DEF NoSidecar, Sidecar

(* The initial states are typed. *)
LEMMA InitTyped == Init => TypeInv
<1> SUFFICES ASSUME Init PROVE TypeInv
  OBVIOUS
<1>1. sidecar \in [Manifest -> Sidecar]
  BY NoSidecarType DEF Init
<1>2. StateTyped
  BY <1>1 DEF Init, StateTyped
<1>3. FlagsTyped
  BY DEF Init, FlagsTyped
<1>4. StepOK
  BY DEF Init, StepOK, Held
<1> QED
  BY <1>2, <1>3, <1>4 DEF TypeInv, TypeOK

(* Each rewriting of a sidecar returns a sidecar. *)
LEMMA SidecarSteps ==
  ASSUME NEW s \in Sidecar
  PROVE  /\ Stamped(s) \in Sidecar
         /\ \A p \in Plans : Bound(s, p) \in Sidecar
         /\ i \in Nat => Advanced(s) \in Sidecar
         /\ Cleared(s) \in Sidecar
         /\ i \in Nat /\ target \in Target => Recorded(s) \in Sidecar
<1>1. Stamped(s) \in Sidecar
  BY DEF Stamped, Sidecar
<1>2. ASSUME NEW p \in Plans PROVE Bound(s, p) \in Sidecar
  <2>1. ResumeFrom(s, p) \in Nat
    BY DEF ResumeFrom, Sidecar
  <2> QED
    BY <2>1, FingerprintType DEF Bound, Sidecar
<1>3. i \in Nat => Advanced(s) \in Sidecar
  BY DEF Advanced, NewCursor, Sidecar
<1>4. Cleared(s) \in Sidecar
  BY DEF Cleared, Sidecar
<1>5. i \in Nat /\ target \in Target => Recorded(s) \in Sidecar
  BY DEF Recorded, Own, Sidecar, Mark
<1> QED
  BY <1>1, <1>2, <1>3, <1>4, <1>5

(* The recovery sweep keeps the state typed. *)
LEMMA RecoveryTyped == TypeInv /\ Recovery => TypeInv'
<1> SUFFICES ASSUME TypeInv, Recovery PROVE TypeInv'
  OBVIOUS
<1> USE DEF TypeInv, TypeOK, StateTyped, FlagsTyped, StepOK, Held, files, memory, server
<1>1. CASE Start
  BY <1>1 DEF Start
<1>2. CASE DropSidecar
  BY <1>2, NoSidecarType DEF DropSidecar
<1>3. CASE Discover
  BY <1>3 DEF Discover
<1>4. ASSUME NEW m \in Manifest, RecoverUnreadable(m) PROVE TypeInv'
  BY <1>4 DEF RecoverUnreadable, Sweeping, Fault
<1>5. ASSUME NEW m \in Manifest, Adopt(m) PROVE TypeInv'
  BY <1>5 DEF Adopt, Sweeping
<1>6. ASSUME NEW m \in Manifest, Requeue(m) PROVE TypeInv'
  BY <1>6 DEF Requeue, Sweeping, First
<1>7. ASSUME NEW m \in Manifest, AbortSweep(m) PROVE TypeInv'
  BY <1>7 DEF AbortSweep
<1> QED
  BY <1>1, <1>2, <1>3, <1>4, <1>5, <1>6, <1>7 DEF Recovery

(* The pass over the queue, from discovery to the loaded plan. *)
LEMMA PassTyped == TypeInv /\ Pass => TypeInv'
<1> SUFFICES ASSUME TypeInv, Pass PROVE TypeInv'
  OBVIOUS
<1> USE DEF TypeInv, TypeOK, StateTyped, FlagsTyped, StepOK, Held, files, memory, server
<1>1. CASE Exit
  BY <1>1 DEF Exit
<1>2. CASE WriteSidecar
  <2>1. FlagsTyped'
    BY <1>2 DEF WriteSidecar
  <2>2. StateTyped' /\ StepOK'
    BY <1>2, SidecarSteps DEF WriteSidecar
  <2> HIDE DEF StateTyped, StepOK, FlagsTyped
  <2> QED
    BY <2>1, <2>2
<1>3. CASE Reject
  BY <1>3 DEF Reject, Outcome
<1>4. CASE ClosedAtLoad
  BY <1>4 DEF ClosedAtLoad, Fault
<1>5. CASE Prepare
  <2>1. cur \in Manifest /\ Bound(sidecar[cur], plan[cur]) \in Sidecar
    BY <1>5, SidecarSteps DEF Prepare
  <2> QED
    BY <1>5, <2>1 DEF Prepare
<1>6. ASSUME NEW m \in Manifest, Defer(m) PROVE TypeInv'
  BY <1>6 DEF Defer, Fault
<1>7. ASSUME NEW m \in Manifest, SkipMissing(m) PROVE TypeInv'
  BY <1>7 DEF SkipMissing
<1>8. ASSUME NEW m \in Manifest, Claim(m) PROVE TypeInv'
  BY <1>8 DEF Claim
<1> QED
  BY <1>1, <1>2, <1>3, <1>4, <1>5, <1>6, <1>7, <1>8 DEF Pass

(* Where a step is at an operation, that operation is one of the plan. *)
LEMMA OpTyped ==
  ASSUME TypeInv, pc \in {"run", "ended", "advance"} \/ Pending
  PROVE  /\ cur \in Manifest /\ plan[cur] \in Plans
         /\ i \in 1..Len(plan[cur])
         /\ op \in Op /\ target \in Target
<1> USE DEF TypeInv, TypeOK, StateTyped, StepOK
<1>1. cur \in Manifest /\ plan[cur] \in Plans
  BY DEF Pending, AtStep
<1>2. i \in 1..Len(plan[cur])
  BY <1>1 DEF Pending, AtStep
<1>3. op \in Op
  BY <1>1, <1>2 DEF op
<1> QED
  BY <1>1, <1>2, <1>3 DEF target

(* One operation, from the drain check to its result and what follows it. *)
LEMMA StepTyped == TypeInv /\ Step => TypeInv'
<1> SUFFICES ASSUME TypeInv, Step PROVE TypeInv'
  OBVIOUS
<1> USE DEF TypeInv, TypeOK, StateTyped, FlagsTyped, StepOK, Held, files, memory, server
<1>a. pc \in {"run", "ended", "advance"} \/ Pending => op \in Op /\ target \in Target
  BY OpTyped
<1>1. CASE StopBetween
  BY <1>1 DEF StopBetween, Fault
<1>2. CASE SkipDone
  BY <1>2 DEF SkipDone, AtStep
<1>3. CASE SkipSatisfied
  BY <1>a, <1>3 DEF SkipSatisfied, Pending, AtStep
<1>4. CASE BeginOwned
  BY <1>4 DEF BeginOwned, Pending, AtStep, Issue, Fault
<1>5. CASE BeginClear
  BY <1>5 DEF BeginClear, Pending, AtStep, Issue
<1>6. CASE BeginUnreadable
  BY <1>6 DEF BeginUnreadable, Pending, AtStep, Refuse, Fault
<1>7. CASE BeginBlocked
  BY <1>7 DEF BeginBlocked, Pending, AtStep, Issue, Refuse, Fault, Blockers
<1>8. CASE Completes
  BY <1>a, <1>8 DEF Completes, Commits, Ends
<1>9. CASE StopsShort
  BY <1>9 DEF StopsShort, RollsBack, Ends
<1>10. CASE StopsOnDrain
  BY <1>a, <1>10 DEF StopsOnDrain, Commits, Pauses, RollsBack, Ends
<1>11. CASE Errors
  <2>1. \/ RollsBack /\ faults' = faults
        \/ (Commits \/ Pauses \/ RollsBack) /\ faults' = faults + 1
    BY <1>11 DEF Errors, Fault
  <2>2. /\ pc = "run" /\ pc' = "ended" /\ result' \in {"interrupted", "failed"}
        /\ UNCHANGED <<files, todo, cur, i, failed, stmt, outcome, drain,
                       repinned, orphans>>
    BY <1>11 DEF Errors, Ends
  <2>3. /\ effect' \in [Manifest -> SUBSET Target]
        /\ paused' \in [Target -> Op \cup {Foreign, NoPause}]
    BY <1>a, <2>1, <2>2 DEF Commits, Pauses, RollsBack
  <2>4. faults' \in 0..MaxFaults
    BY <1>11 DEF Errors, Fault
  <2> QED
    BY <1>a, <2>2, <2>3, <2>4
<1>12. CASE ErrorsUnreadable
  BY <1>a, <1>12 DEF ErrorsUnreadable, Commits, Pauses, RollsBack, Ends, Fault
<1>13. CASE Interrupt
  BY <1>a, <1>13, SidecarSteps DEF Interrupt
<1>14. CASE FailManifest
  BY <1>14 DEF FailManifest, Outcome
<1>15. CASE Quarantine
  BY <1>15 DEF Quarantine
<1>16. CASE Succeed
  BY <1>16, SidecarSteps DEF Succeed
<1>17. CASE AdvanceCursor
  <2>1. Advanced(sidecar[cur]) \in Sidecar
    BY <1>17, SidecarSteps DEF AdvanceCursor
  <2> QED
    BY <1>17, <2>1 DEF AdvanceCursor
<1> QED
  BY <1>1, <1>2, <1>3, <1>4, <1>5, <1>6, <1>7, <1>8, <1>9, <1>10, <1>11, <1>12,
     <1>13, <1>14, <1>15, <1>16, <1>17 DEF Step

(* The end of a manifest. *)
LEMMA FinalizeTyped == TypeInv /\ Finalize => TypeInv'
<1> SUFFICES ASSUME TypeInv, Finalize PROVE TypeInv'
  OBVIOUS
<1> USE DEF TypeInv, TypeOK, StateTyped, FlagsTyped, StepOK, Held, files, memory, server
<1>1. CASE LoopEnds
  BY <1>1 DEF LoopEnds, Verdict, Outcome
<1>2. CASE Seal
  BY <1>2, NoSidecarType DEF Seal
<1>3. CASE Move
  BY <1>3 DEF Move
<1>4. CASE HandOver
  <2>1. plan[cur] \in Seq(Op) /\ failed \subseteq 1..Len(plan[cur])
    BY <1>4 DEF HandOver
  <2>2. {plan[cur][j] : j \in failed} \subseteq Op
    BY <2>1
  <2> QED
    BY <1>4, <2>2 DEF HandOver
<1>5. CASE Report
  BY <1>5 DEF Report
<1> QED
  BY <1>1, <1>2, <1>3, <1>4, <1>5 DEF Finalize

(* What happens around the process. *)
LEMMA EnvironmentTyped == TypeInv /\ Environment => TypeInv'
<1> SUFFICES ASSUME TypeInv, Environment PROVE TypeInv'
  OBVIOUS
<1> USE DEF TypeInv, TypeOK, StateTyped, FlagsTyped, StepOK, Held, files, memory, server
<1>1. CASE Crash
  <2>1. pc = "run" => [m |-> cur, op |-> op, known |-> ~repinned] \in Orphan
    BY DEF op, Orphan
  <2> QED
    BY <1>1, <2>1 DEF Crash, Fault
<1>2. CASE RequestDrain
  BY <1>2 DEF RequestDrain, Fault
<1>3. CASE CancelDrain
  <2>1. FlagsTyped'
    BY <1>3 DEF CancelDrain
  <2>2. StateTyped' /\ StepOK'
    BY <1>3 DEF CancelDrain
  <2> HIDE DEF StateTyped, StepOK, FlagsTyped
  <2> QED
    BY <2>1, <2>2
<1>4. CASE Repin
  BY <1>4 DEF Repin, Fault
<1>5. ASSUME NEW o \in orphans, OrphanEnds(o) PROVE TypeInv'
  <2>1. o.op \in Op /\ o.m \in Manifest /\ TargetOf[o.op] \in Target
    BY DEF Orphan
  <2> QED
    BY <1>5, <2>1 DEF OrphanEnds
<1>6. ASSUME NEW m \in Manifest, Edit(m) PROVE TypeInv'
  BY <1>6 DEF Edit, InHand, Fault
<1>7. ASSUME NEW m \in Manifest, Withdraw(m) PROVE TypeInv'
  BY <1>7 DEF Withdraw, Fault
<1>8. ASSUME NEW t \in Target, ForeignPause(t) PROVE TypeInv'
  BY <1>8 DEF ForeignPause, Fault
<1> QED
  BY <1>1, <1>2, <1>3, <1>4, <1>5, <1>6, <1>7, <1>8 DEF Environment

(* No step leaves the typed states. *)
LEMMA TypedStep == TypeInv /\ [Next]_vars => TypeInv'
<1>1. TypeInv /\ UNCHANGED vars => TypeInv'
  BY DEF TypeInv, TypeOK, StateTyped, FlagsTyped, StepOK, vars, files, memory, server
<1> QED
  BY <1>1, RecoveryTyped, PassTyped, StepTyped, FinalizeTyped, EnvironmentTyped DEF Next

(* Every reachable state is typed, and a step is always at an operation of *)
(* the loaded plan.                                                        *)
THEOREM TypeCorrect == Spec => []TypeOK
<1>1. TypeInv => TypeOK
  BY DEF TypeInv
<1> QED
  BY <1>1, InitTyped, TypedStep, PTL DEF Spec

-----------------------------------------------------------------------------
(* The strengthening that makes the safety invariants inductive. *)

(* Where the file is: in processing while a run has it in hand, and in a   *)
(* terminal directory once its outcome is decided for good.                *)
Placed ==
  /\ pc \in Held \ {"handover", "report"} => dir[cur] = "processing"
  /\ pc \in {"handover", "report"} => Concluded(cur)
  /\ pc \in Held => verdict[cur] = "none"
  /\ \A m \in Manifest : verdict[m] # "none" => Concluded(m)

(* An orphan the sidecar names keeps its manifest in processing, out of hand. *)
OrphansHeld ==
  \A o \in orphans : o.known => dir[o.m] = "processing" /\ ~InHand(o.m)

(* The cursor covers operations done; what lies between it and operation i *)
(* is done or quarantined, and the cursor is before the first quarantine.  *)
Tracked ==
  /\ pc \in {"op", "run", "ended", "advance"} =>
       /\ sidecar[cur].fp = Fingerprint(plan[cur])
       /\ \A j \in 1..Len(plan[cur]) : j < i => j \in failed \/ Done(cur, j)
       /\ \A j \in failed : sidecar[cur].cursor < j /\ j < i
  /\ pc \in {"run", "ended"} => sidecar[cur].cursor < i
  /\ (pc = "ended" /\ result = "ok") \/ pc = "advance" => Done(cur, i)

(* The outcome about to be recorded is deserved. *)
Deserved ==
  /\ pc \in {"seal", "move", "handover", "report"} =>
       /\ outcome # "none"
       /\ outcome = "SUCCESS" => \A j \in 1..Len(plan[cur]) : Done(cur, j)
       /\ outcome = "PARTIAL" =>
            /\ failed # {}
            /\ \A j \in 1..Len(plan[cur]) : j \in failed \/ Done(cur, j)
  /\ pc = "handover" => outcome = "PARTIAL"
  /\ pc = "report" /\ outcome = "PARTIAL" =>
       recovery[cur] = {plan[cur][j] : j \in failed}

Safe ==
  /\ Placed /\ OrphansHeld /\ Tracked /\ Deserved
  /\ CursorCoversOnlyDone /\ SuccessIsEarned /\ PartialAccountsForAll

Inv == TypeInv /\ Safe


(* What each rewriting of a sidecar does to its cursor and its fingerprint. *)
LEMMA SidecarFields ==
  ASSUME NEW s \in Sidecar, NEW p \in Plans
  PROVE  /\ Stamped(s).cursor = s.cursor /\ Stamped(s).fp = s.fp
         /\ Cleared(s).cursor = s.cursor /\ Cleared(s).fp = s.fp
         /\ Recorded(s).cursor = s.cursor /\ Recorded(s).fp = s.fp
         /\ Advanced(s).cursor = NewCursor(s.cursor) /\ Advanced(s).fp = s.fp
         /\ Bound(s, p).cursor = ResumeFrom(s, p)
         /\ Bound(s, p).fp = Fingerprint(p)
  BY DEF Stamped, Cleared, Recorded, Advanced, Bound, Sidecar

(* A sidecar bound to a plan still covers only what was done: its cursor is *)
(* kept only when the fingerprint is the plan's.                           *)
LEMMA BoundCovers ==
  ASSUME NEW s \in Sidecar, NEW p \in Plans, NEW e, Covers(s, e)
  PROVE  Covers(Bound(s, p), e)
<1>1. CASE ResumeFrom(s, p) = 0
  BY <1>1, SidecarFields, FingerprintType DEF Covers
<1>2. CASE ResumeFrom(s, p) # 0
  <2>1. s.cursor \in Nat /\ s.fp \in Seq(Target)
    BY DEF Sidecar
  <2>2. ResumeFrom(s, p) = s.cursor /\ (s.fp = <<>> \/ s.fp = Fingerprint(p))
    BY <1>2 DEF ResumeFrom
  <2>3. s.fp = Fingerprint(p)
    BY <1>2, <2>1, <2>2 DEF Covers
  <2> QED
    BY <2>2, <2>3, SidecarFields DEF Covers
<1> QED
  BY <1>1, <1>2

(* The cursor of an advanced sidecar covers operation i as well. *)
LEMMA AdvancedCovers ==
  ASSUME NEW s \in Sidecar, NEW e, Covers(s, e), i \in Nat \ {0},
         i <= Len(s.fp), s.fp[i] \in e
  PROVE  Covers(Advanced(s), e)
<1>1. s.cursor \in Nat
  BY DEF Sidecar
<1>2. Advanced(s).cursor = NewCursor(s.cursor) /\ Advanced(s).fp = s.fp
  BY DEF Advanced, Sidecar
<1> QED
  BY <1>1, <1>2 DEF Covers, NewCursor

(* The recovery sweep keeps the invariant. *)
LEMMA SafeRecovery == Inv /\ Recovery => Safe'
<1> SUFFICES ASSUME Inv, Recovery PROVE Safe'
  OBVIOUS
<1> USE DEF Inv, Safe, TypeInv, TypeOK, StateTyped, StepOK, Held, InHand, Concluded,
           Orphan, files, memory, server, Placed, OrphansHeld, Tracked, Deserved,
           CursorCoversOnlyDone, SuccessIsEarned, PartialAccountsForAll, Done
<1>1. CASE Start
  BY <1>1 DEF Start
<1>2. CASE DropSidecar
  <2> HIDE DEF Placed, OrphansHeld, Tracked, Deserved, CursorCoversOnlyDone,
           SuccessIsEarned, PartialAccountsForAll
  <2>1. Placed'
    BY <1>2 DEF DropSidecar, Placed
  <2>2. OrphansHeld'
    BY <1>2 DEF DropSidecar, OrphansHeld, Placed
  <2>3. Tracked'
    BY <1>2 DEF DropSidecar, Tracked, CursorCoversOnlyDone, Covers
  <2>4. Deserved'
    BY <1>2 DEF DropSidecar, Deserved, Tracked
  <2>5. CursorCoversOnlyDone'
    <3>1. ASSUME NEW m \in Manifest PROVE Covers(NoSidecar, effect[m])
      BY DEF Covers, NoSidecar
    <3> QED
      BY <1>2, <3>1 DEF DropSidecar, CursorCoversOnlyDone
  <2>6. SuccessIsEarned'
    BY <1>2 DEF DropSidecar, SuccessIsEarned, Deserved, Placed
  <2>7. PartialAccountsForAll'
    BY <1>2 DEF DropSidecar, PartialAccountsForAll, Deserved, Placed
  <2> QED
    BY <2>1, <2>2, <2>3, <2>4, <2>5, <2>6, <2>7
<1>3. CASE Discover
  BY <1>3 DEF Discover
<1>4. ASSUME NEW m \in Manifest, RecoverUnreadable(m) PROVE Safe'
  BY <1>4 DEF RecoverUnreadable, Fault
<1>5. ASSUME NEW m \in Manifest, Adopt(m) PROVE Safe'
  <2> HIDE DEF Placed, OrphansHeld, Tracked, Deserved, CursorCoversOnlyDone,
           SuccessIsEarned, PartialAccountsForAll
  <2>1. Placed'
    BY <1>5 DEF Adopt, Placed
  <2>2. OrphansHeld'
    BY <1>5 DEF Adopt, OrphansHeld, Placed
  <2>3. Tracked'
    BY <1>5 DEF Adopt, Tracked, CursorCoversOnlyDone, Covers
  <2>4. Deserved'
    BY <1>5 DEF Adopt, Deserved, Tracked
  <2>5. CursorCoversOnlyDone'
    BY <1>5 DEF Adopt, CursorCoversOnlyDone, Covers, Tracked
  <2>6. SuccessIsEarned'
    BY <1>5 DEF Adopt, SuccessIsEarned, Deserved, Placed
  <2>7. PartialAccountsForAll'
    BY <1>5 DEF Adopt, PartialAccountsForAll, Deserved, Placed
  <2> QED
    BY <2>1, <2>2, <2>3, <2>4, <2>5, <2>6, <2>7
<1>6. ASSUME NEW m \in Manifest, Requeue(m) PROVE Safe'
  BY <1>6 DEF Requeue, OrphanAlive, Sweeping, First
<1>7. ASSUME NEW m \in Manifest, AbortSweep(m) PROVE Safe'
  BY <1>7 DEF AbortSweep
<1> QED
  BY <1>1, <1>2, <1>3, <1>4, <1>5, <1>6, <1>7 DEF Recovery

(* The pass over the queue keeps the invariant. *)
LEMMA SafePass == Inv /\ Pass => Safe'
<1> SUFFICES ASSUME Inv, Pass PROVE Safe'
  OBVIOUS
<1> USE DEF Inv, Safe, TypeInv, TypeOK, StateTyped, StepOK, Held, InHand, Concluded,
           Orphan, files, memory, server, Placed, OrphansHeld, Tracked, Deserved,
           CursorCoversOnlyDone, SuccessIsEarned, PartialAccountsForAll, Done
<1>1. CASE Exit
  BY <1>1 DEF Exit
<1>2. CASE WriteSidecar
  <2> HIDE DEF Placed, OrphansHeld, Tracked, Deserved, CursorCoversOnlyDone,
           SuccessIsEarned, PartialAccountsForAll
  <2>1. Placed'
    BY <1>2 DEF WriteSidecar, Placed
  <2>2. OrphansHeld'
    BY <1>2 DEF WriteSidecar, OrphansHeld, Placed
  <2>3. Tracked'
    BY <1>2 DEF WriteSidecar, Tracked, CursorCoversOnlyDone, Covers
  <2>4. Deserved'
    BY <1>2 DEF WriteSidecar, Deserved, Tracked
  <2>5. CursorCoversOnlyDone'
    <3>1. cur \in Manifest /\ plan[cur] \in Plans /\ sidecar[cur] \in Sidecar
      BY <1>2 DEF WriteSidecar
    <3>2. Covers(Stamped(sidecar[cur]), effect[cur])
      BY <3>1, SidecarFields DEF CursorCoversOnlyDone, Covers
    <3> QED
      BY <1>2, <3>1, <3>2 DEF WriteSidecar, CursorCoversOnlyDone
  <2>6. SuccessIsEarned'
    BY <1>2 DEF WriteSidecar, SuccessIsEarned, Deserved, Placed
  <2>7. PartialAccountsForAll'
    BY <1>2 DEF WriteSidecar, PartialAccountsForAll, Deserved, Placed
  <2> QED
    BY <2>1, <2>2, <2>3, <2>4, <2>5, <2>6, <2>7
<1>3. CASE Reject
  BY <1>3 DEF Reject
<1>4. CASE ClosedAtLoad
  BY <1>4 DEF ClosedAtLoad, Fault
<1>5. CASE Prepare
  <2> HIDE DEF Placed, OrphansHeld, Tracked, Deserved, CursorCoversOnlyDone,
           SuccessIsEarned, PartialAccountsForAll
  <2>1. Placed'
    BY <1>5 DEF Prepare, Placed
  <2>2. OrphansHeld'
    BY <1>5 DEF Prepare, OrphansHeld, Placed
  <2>3. Tracked'
    <3>1. cur \in Manifest /\ plan[cur] \in Plans /\ sidecar[cur] \in Sidecar
      BY <1>5 DEF Prepare
    <3>2. sidecar'[cur].fp = Fingerprint(plan[cur])
      BY <1>5, <3>1, SidecarFields DEF Prepare
    <3>3. failed = {} /\ i' = 1 /\ plan[cur] \in Seq(Op)
      BY <1>5, <3>1 DEF Prepare
    <3> QED
      BY <1>5, <3>2, <3>3 DEF Prepare, Tracked
  <2>4. Deserved'
    BY <1>5 DEF Prepare, Deserved, Tracked
  <2>5. CursorCoversOnlyDone'
    <3>1. cur \in Manifest /\ plan[cur] \in Plans /\ sidecar[cur] \in Sidecar
      BY <1>5 DEF Prepare
    <3>2. Covers(Bound(sidecar[cur], plan[cur]), effect[cur])
      BY <3>1, BoundCovers DEF CursorCoversOnlyDone
    <3> QED
      BY <1>5, <3>1, <3>2 DEF Prepare, CursorCoversOnlyDone
  <2>6. SuccessIsEarned'
    BY <1>5 DEF Prepare, SuccessIsEarned, Deserved, Placed
  <2>7. PartialAccountsForAll'
    BY <1>5 DEF Prepare, PartialAccountsForAll, Deserved, Placed
  <2> QED
    BY <2>1, <2>2, <2>3, <2>4, <2>5, <2>6, <2>7
<1>6. ASSUME NEW m \in Manifest, Defer(m) PROVE Safe'
  BY <1>6 DEF Defer, Fault
<1>7. ASSUME NEW m \in Manifest, SkipMissing(m) PROVE Safe'
  BY <1>7 DEF SkipMissing
<1>8. ASSUME NEW m \in Manifest, Claim(m) PROVE Safe'
  BY <1>8 DEF Claim, Visiting
<1> QED
  BY <1>1, <1>2, <1>3, <1>4, <1>5, <1>6, <1>7, <1>8 DEF Pass

(* Every step of an operation keeps the invariant. *)
LEMMA SafeStep == Inv /\ Step => Safe'
<1> SUFFICES ASSUME Inv, Step PROVE Safe'
  OBVIOUS
<1> USE DEF Inv, Safe, TypeInv, TypeOK, StateTyped, StepOK, Held, InHand, Concluded,
           Orphan, files, memory, server, Placed, OrphansHeld, Tracked, Deserved,
           CursorCoversOnlyDone, SuccessIsEarned, PartialAccountsForAll, Done
<1>1. CASE StopBetween
  BY <1>1 DEF StopBetween, AtStep, Pending, Fault
<1>2. CASE SkipDone
  <2> HIDE DEF Placed, OrphansHeld, Tracked, Deserved, CursorCoversOnlyDone,
           SuccessIsEarned, PartialAccountsForAll
  <2>1. Placed'
    BY <1>2 DEF SkipDone, AtStep, Placed
  <2>2. OrphansHeld'
    BY <1>2 DEF SkipDone, AtStep, OrphansHeld, Placed
  <2>3. Tracked'
    <3>1. cur \in Manifest /\ plan[cur] \in Plans /\ sidecar[cur] \in Sidecar
      BY <1>2 DEF SkipDone, AtStep
    <3>2. i \in 1..Len(plan[cur]) /\ sidecar[cur].cursor \in Nat
      BY <1>2, <3>1 DEF SkipDone, AtStep, Sidecar
    <3>3. /\ Covers(sidecar[cur], effect[cur]) /\ i <= sidecar[cur].cursor
          /\ sidecar[cur].fp = Fingerprint(plan[cur])
      BY <1>2, <3>1 DEF SkipDone, AtStep, Tracked, CursorCoversOnlyDone
    <3>4. sidecar[cur].fp[i] \in effect[cur]
      BY <3>2, <3>3 DEF Covers
    <3>5. Done(cur, i)
      BY <3>1, <3>2, <3>3, <3>4, FingerprintType DEF Done
    <3> QED
      BY <1>2, <3>1, <3>2, <3>5 DEF SkipDone, AtStep, Tracked
  <2>4. Deserved'
    BY <1>2 DEF SkipDone, AtStep, Deserved, Tracked
  <2>5. CursorCoversOnlyDone'
    BY <1>2 DEF SkipDone, AtStep, CursorCoversOnlyDone, Covers, Tracked
  <2>6. SuccessIsEarned'
    BY <1>2 DEF SkipDone, AtStep, SuccessIsEarned, Deserved, Placed
  <2>7. PartialAccountsForAll'
    BY <1>2 DEF SkipDone, AtStep, PartialAccountsForAll, Deserved, Placed
  <2> QED
    BY <2>1, <2>2, <2>3, <2>4, <2>5, <2>6, <2>7
<1>3. CASE SkipSatisfied
  <2> HIDE DEF Placed, OrphansHeld, Tracked, Deserved, CursorCoversOnlyDone,
           SuccessIsEarned, PartialAccountsForAll
  <2>1. Placed'
    BY <1>3 DEF SkipSatisfied, Pending, AtStep, Placed
  <2>2. OrphansHeld'
    BY <1>3 DEF SkipSatisfied, Pending, AtStep, OrphansHeld, Placed
  <2>3. Tracked'
    <3>1. cur \in Manifest /\ i \in 1..Len(plan[cur])
      BY <1>3, OpTyped DEF SkipSatisfied
    <3>2. Done(cur, i)'
      BY <1>3, <3>1 DEF SkipSatisfied, op, target
    <3>3. \A j \in 1..Len(plan[cur]) : Done(cur, j) => Done(cur, j)'
      BY <1>3, <3>1 DEF SkipSatisfied
    <3> QED
      BY <1>3, <3>1, <3>2, <3>3 DEF SkipSatisfied, Tracked, Pending, AtStep
  <2>4. Deserved'
    BY <1>3 DEF SkipSatisfied, Pending, AtStep, Deserved, Tracked
  <2>5. CursorCoversOnlyDone'
    BY <1>3 DEF SkipSatisfied, Pending, AtStep, CursorCoversOnlyDone, Covers, Tracked
  <2>6. SuccessIsEarned'
    BY <1>3 DEF SkipSatisfied, Pending, AtStep, SuccessIsEarned, Deserved, Placed
  <2>7. PartialAccountsForAll'
    BY <1>3 DEF SkipSatisfied, Pending, AtStep, PartialAccountsForAll, Deserved, Placed
  <2> QED
    BY <2>1, <2>2, <2>3, <2>4, <2>5, <2>6, <2>7
<1>4. CASE BeginOwned
  BY <1>4 DEF BeginOwned, Pending, AtStep, Issue, Fault
<1>5. CASE BeginClear
  BY <1>5 DEF BeginClear, Pending, AtStep, Issue
<1>6. CASE BeginUnreadable
  BY <1>6 DEF BeginUnreadable, Pending, AtStep, Refuse, Fault
<1>7. CASE BeginBlocked
  BY <1>7 DEF BeginBlocked, Pending, AtStep, Issue, Refuse, Fault
<1>8. CASE Completes
  <2> HIDE DEF Placed, OrphansHeld, Tracked, Deserved, CursorCoversOnlyDone,
           SuccessIsEarned, PartialAccountsForAll
  <2>1. Placed'
    BY <1>8 DEF Completes, Commits, Ends, Placed
  <2>2. OrphansHeld'
    BY <1>8 DEF Completes, Commits, Ends, OrphansHeld, Placed
  <2>3. Tracked'
    <3>1. cur \in Manifest /\ i \in 1..Len(plan[cur])
      BY <1>8, OpTyped DEF Completes
    <3>2. Done(cur, i)'
      BY <1>8, <3>1 DEF Completes, op, target, Commits, Ends
    <3>3. \A j \in 1..Len(plan[cur]) : Done(cur, j) => Done(cur, j)'
      BY <1>8, <3>1 DEF Completes, Commits, Ends
    <3> QED
      BY <1>8, <3>1, <3>2, <3>3 DEF Completes, Tracked, Commits, Ends
  <2>4. Deserved'
    BY <1>8 DEF Completes, Commits, Ends, Deserved, Tracked
  <2>5. CursorCoversOnlyDone'
    <3>1. UNCHANGED sidecar /\ \A m \in Manifest : effect[m] \subseteq effect'[m]
      BY <1>8 DEF Completes, Commits, Ends
    <3> QED
      BY <3>1 DEF CursorCoversOnlyDone, Covers
  <2>6. SuccessIsEarned'
    BY <1>8 DEF Completes, Commits, Ends, SuccessIsEarned, Deserved, Placed
  <2>7. PartialAccountsForAll'
    BY <1>8 DEF Completes, Commits, Ends, PartialAccountsForAll, Deserved, Placed
  <2> QED
    BY <2>1, <2>2, <2>3, <2>4, <2>5, <2>6, <2>7
<1>9. CASE StopsShort
  BY <1>9 DEF StopsShort, RollsBack, Ends
<1>10. CASE StopsOnDrain
  <2> HIDE DEF Placed, OrphansHeld, Tracked, Deserved, CursorCoversOnlyDone,
           SuccessIsEarned, PartialAccountsForAll
  <2>1. Placed'
    BY <1>10 DEF StopsOnDrain, Commits, Pauses, RollsBack, Ends, Placed
  <2>2. OrphansHeld'
    BY <1>10 DEF StopsOnDrain, Commits, Pauses, RollsBack, Ends, OrphansHeld, Placed
  <2>3. Tracked'
    BY <1>10 DEF StopsOnDrain, Commits, Pauses, RollsBack, Ends, Tracked, CursorCoversOnlyDone, Covers
  <2>4. Deserved'
    BY <1>10 DEF StopsOnDrain, Commits, Pauses, RollsBack, Ends, Deserved, Tracked
  <2>5. CursorCoversOnlyDone'
    <3>1. UNCHANGED sidecar /\ \A m \in Manifest : effect[m] \subseteq effect'[m]
      BY <1>10 DEF StopsOnDrain, Commits, Pauses, RollsBack, Ends
    <3> QED
      BY <3>1 DEF CursorCoversOnlyDone, Covers
  <2>6. SuccessIsEarned'
    BY <1>10 DEF StopsOnDrain, Commits, Pauses, RollsBack, Ends, SuccessIsEarned, Deserved, Placed
  <2>7. PartialAccountsForAll'
    BY <1>10 DEF StopsOnDrain, Commits, Pauses, RollsBack, Ends, PartialAccountsForAll, Deserved, Placed
  <2> QED
    BY <2>1, <2>2, <2>3, <2>4, <2>5, <2>6, <2>7
<1>11. CASE Errors
  <2> HIDE DEF Placed, OrphansHeld, Tracked, Deserved, CursorCoversOnlyDone,
           SuccessIsEarned, PartialAccountsForAll
  <2>1. Placed'
    BY <1>11 DEF Errors, Commits, Pauses, RollsBack, Ends, Fault, Placed
  <2>2. OrphansHeld'
    BY <1>11 DEF Errors, Commits, Pauses, RollsBack, Ends, Fault, OrphansHeld, Placed
  <2>3. Tracked'
    BY <1>11 DEF Errors, Commits, Pauses, RollsBack, Ends, Fault, Tracked, CursorCoversOnlyDone, Covers
  <2>4. Deserved'
    BY <1>11 DEF Errors, Commits, Pauses, RollsBack, Ends, Fault, Deserved, Tracked
  <2>5. CursorCoversOnlyDone'
    <3>1. UNCHANGED sidecar /\ \A m \in Manifest : effect[m] \subseteq effect'[m]
      BY <1>11 DEF Errors, Commits, Pauses, RollsBack, Ends, Fault
    <3> QED
      BY <3>1 DEF CursorCoversOnlyDone, Covers
  <2>6. SuccessIsEarned'
    BY <1>11 DEF Errors, Commits, Pauses, RollsBack, Ends, Fault, SuccessIsEarned, Deserved, Placed
  <2>7. PartialAccountsForAll'
    BY <1>11 DEF Errors, Commits, Pauses, RollsBack, Ends, Fault, PartialAccountsForAll, Deserved, Placed
  <2> QED
    BY <2>1, <2>2, <2>3, <2>4, <2>5, <2>6, <2>7
<1>12. CASE ErrorsUnreadable
  <2> HIDE DEF Placed, OrphansHeld, Tracked, Deserved, CursorCoversOnlyDone,
           SuccessIsEarned, PartialAccountsForAll
  <2>1. Placed'
    BY <1>12 DEF ErrorsUnreadable, Commits, Pauses, RollsBack, Ends, Fault, Placed
  <2>2. OrphansHeld'
    BY <1>12 DEF ErrorsUnreadable, Commits, Pauses, RollsBack, Ends, Fault, OrphansHeld, Placed
  <2>3. Tracked'
    BY <1>12 DEF ErrorsUnreadable, Commits, Pauses, RollsBack, Ends, Fault, Tracked, CursorCoversOnlyDone, Covers
  <2>4. Deserved'
    BY <1>12 DEF ErrorsUnreadable, Commits, Pauses, RollsBack, Ends, Fault, Deserved, Tracked
  <2>5. CursorCoversOnlyDone'
    <3>1. UNCHANGED sidecar /\ \A m \in Manifest : effect[m] \subseteq effect'[m]
      BY <1>12 DEF ErrorsUnreadable, Commits, Pauses, RollsBack, Ends, Fault
    <3> QED
      BY <3>1 DEF CursorCoversOnlyDone, Covers
  <2>6. SuccessIsEarned'
    BY <1>12 DEF ErrorsUnreadable, Commits, Pauses, RollsBack, Ends, Fault, SuccessIsEarned, Deserved, Placed
  <2>7. PartialAccountsForAll'
    BY <1>12 DEF ErrorsUnreadable, Commits, Pauses, RollsBack, Ends, Fault, PartialAccountsForAll, Deserved, Placed
  <2> QED
    BY <2>1, <2>2, <2>3, <2>4, <2>5, <2>6, <2>7
<1>13. CASE Interrupt
  <2> HIDE DEF Placed, OrphansHeld, Tracked, Deserved, CursorCoversOnlyDone,
           SuccessIsEarned, PartialAccountsForAll
  <2>1. Placed'
    BY <1>13 DEF Interrupt, Placed
  <2>2. OrphansHeld'
    BY <1>13 DEF Interrupt, OrphansHeld, Placed
  <2>3. Tracked'
    BY <1>13 DEF Interrupt, Tracked, CursorCoversOnlyDone, Covers
  <2>4. Deserved'
    BY <1>13 DEF Interrupt, Deserved, Tracked
  <2>5. CursorCoversOnlyDone'
    <3>1. cur \in Manifest /\ plan[cur] \in Plans /\ sidecar[cur] \in Sidecar
      BY <1>13 DEF Interrupt
    <3>2. Covers(Recorded(sidecar[cur]), effect[cur])
      BY <3>1, SidecarFields DEF CursorCoversOnlyDone, Covers
    <3> QED
      BY <1>13, <3>1, <3>2 DEF Interrupt, CursorCoversOnlyDone
  <2>6. SuccessIsEarned'
    BY <1>13 DEF Interrupt, SuccessIsEarned, Deserved, Placed
  <2>7. PartialAccountsForAll'
    BY <1>13 DEF Interrupt, PartialAccountsForAll, Deserved, Placed
  <2> QED
    BY <2>1, <2>2, <2>3, <2>4, <2>5, <2>6, <2>7
<1>14. CASE FailManifest
  BY <1>14 DEF FailManifest
<1>15. CASE Quarantine
  BY <1>15 DEF Quarantine
<1>16. CASE Succeed
  <2> HIDE DEF Placed, OrphansHeld, Tracked, Deserved, CursorCoversOnlyDone,
           SuccessIsEarned, PartialAccountsForAll
  <2>1. Placed'
    BY <1>16 DEF Succeed, Placed
  <2>2. OrphansHeld'
    BY <1>16 DEF Succeed, OrphansHeld, Placed
  <2>3. Tracked'
    <3>1. cur \in Manifest /\ plan[cur] \in Plans /\ sidecar[cur] \in Sidecar
      BY <1>16 DEF Succeed
    <3>2. /\ sidecar'[cur].cursor = sidecar[cur].cursor
          /\ sidecar'[cur].fp = sidecar[cur].fp
      BY <1>16, <3>1, SidecarFields DEF Succeed
    <3> QED
      BY <1>16, <3>1, <3>2 DEF Succeed, Tracked
  <2>4. Deserved'
    BY <1>16 DEF Succeed, Deserved, Tracked
  <2>5. CursorCoversOnlyDone'
    <3>1. cur \in Manifest /\ plan[cur] \in Plans /\ sidecar[cur] \in Sidecar
      BY <1>16 DEF Succeed
    <3>2. Covers(Cleared(sidecar[cur]), effect[cur])
      BY <3>1, SidecarFields DEF CursorCoversOnlyDone, Covers
    <3> QED
      BY <1>16, <3>1, <3>2 DEF Succeed, CursorCoversOnlyDone
  <2>6. SuccessIsEarned'
    BY <1>16 DEF Succeed, SuccessIsEarned, Deserved, Placed
  <2>7. PartialAccountsForAll'
    BY <1>16 DEF Succeed, PartialAccountsForAll, Deserved, Placed
  <2> QED
    BY <2>1, <2>2, <2>3, <2>4, <2>5, <2>6, <2>7
<1>17. CASE AdvanceCursor
  <2> HIDE DEF Placed, OrphansHeld, Tracked, Deserved, CursorCoversOnlyDone,
           SuccessIsEarned, PartialAccountsForAll
  <2>1. Placed'
    BY <1>17 DEF AdvanceCursor, Placed
  <2>2. OrphansHeld'
    BY <1>17 DEF AdvanceCursor, OrphansHeld, Placed
  <2>3. Tracked'
    <3>1. /\ cur \in Manifest /\ plan[cur] \in Plans /\ sidecar[cur] \in Sidecar
          /\ i \in 1..Len(plan[cur]) /\ sidecar[cur].cursor \in Nat
      BY <1>17, OpTyped DEF AdvanceCursor, Sidecar
    <3>2. /\ sidecar'[cur].cursor = NewCursor(sidecar[cur].cursor)
          /\ sidecar'[cur].fp = sidecar[cur].fp
      BY <1>17, <3>1, SidecarFields DEF AdvanceCursor
    <3>3. \A j \in failed : NewCursor(sidecar[cur].cursor) < j /\ j < i + 1
      BY <1>17, <3>1 DEF AdvanceCursor, Tracked, NewCursor
    <3>4. \A j \in 1..Len(plan[cur]) : j < i + 1 => j \in failed \/ Done(cur, j)
      BY <1>17, <3>1 DEF AdvanceCursor, Tracked
    <3> QED
      BY <1>17, <3>1, <3>2, <3>3, <3>4 DEF AdvanceCursor, Tracked
  <2>4. Deserved'
    BY <1>17 DEF AdvanceCursor, Deserved, Tracked
  <2>5. CursorCoversOnlyDone'
    <3>1. /\ cur \in Manifest /\ plan[cur] \in Plans /\ sidecar[cur] \in Sidecar
          /\ i \in 1..Len(plan[cur])
      BY <1>17, OpTyped DEF AdvanceCursor
    <3>2. i <= Len(sidecar[cur].fp) /\ sidecar[cur].fp[i] \in effect[cur]
      BY <1>17, <3>1, FingerprintType DEF AdvanceCursor, Tracked
    <3>3. Covers(sidecar[cur], effect[cur]) /\ i \in Nat \ {0}
      BY <3>1 DEF CursorCoversOnlyDone
    <3>4. Covers(Advanced(sidecar[cur]), effect[cur])
      BY <3>1, <3>2, <3>3, AdvancedCovers
    <3> QED
      BY <1>17, <3>1, <3>4 DEF AdvanceCursor, CursorCoversOnlyDone
  <2>6. SuccessIsEarned'
    BY <1>17 DEF AdvanceCursor, SuccessIsEarned, Deserved, Placed
  <2>7. PartialAccountsForAll'
    BY <1>17 DEF AdvanceCursor, PartialAccountsForAll, Deserved, Placed
  <2> QED
    BY <2>1, <2>2, <2>3, <2>4, <2>5, <2>6, <2>7
<1> QED
  BY <1>1, <1>2, <1>3, <1>4, <1>5, <1>6, <1>7, <1>8, <1>9, <1>10, <1>11, <1>12, <1>13, <1>14, <1>15, <1>16, <1>17 DEF Step

(* The end of a manifest keeps the invariant. *)
LEMMA SafeFinalize == Inv /\ Finalize => Safe'
<1> SUFFICES ASSUME Inv, Finalize PROVE Safe'
  OBVIOUS
<1> USE DEF Inv, Safe, TypeInv, TypeOK, StateTyped, StepOK, Held, InHand, Concluded,
           Orphan, files, memory, server, Placed, OrphansHeld, Tracked, Deserved,
           CursorCoversOnlyDone, SuccessIsEarned, PartialAccountsForAll, Done
<1>1. CASE LoopEnds
  BY <1>1 DEF LoopEnds, Verdict
<1>2. CASE Seal
  <2> HIDE DEF Placed, OrphansHeld, Tracked, Deserved, CursorCoversOnlyDone,
           SuccessIsEarned, PartialAccountsForAll
  <2>1. Placed'
    BY <1>2 DEF Seal, Placed
  <2>2. OrphansHeld'
    BY <1>2 DEF Seal, OrphansHeld, Placed
  <2>3. Tracked'
    BY <1>2 DEF Seal, Tracked, CursorCoversOnlyDone, Covers
  <2>4. Deserved'
    BY <1>2 DEF Seal, Deserved, Tracked
  <2>5. CursorCoversOnlyDone'
    <3>1. ASSUME NEW m \in Manifest PROVE Covers(NoSidecar, effect[m])
      BY DEF Covers, NoSidecar
    <3> QED
      BY <1>2, <3>1 DEF Seal, CursorCoversOnlyDone
  <2>6. SuccessIsEarned'
    BY <1>2 DEF Seal, SuccessIsEarned, Deserved, Placed
  <2>7. PartialAccountsForAll'
    BY <1>2 DEF Seal, PartialAccountsForAll, Deserved, Placed
  <2> QED
    BY <2>1, <2>2, <2>3, <2>4, <2>5, <2>6, <2>7
<1>3. CASE Move
  BY <1>3 DEF Move
<1>4. CASE HandOver
  BY <1>4 DEF HandOver
<1>5. CASE Report
  <2> HIDE DEF Placed, OrphansHeld, Tracked, Deserved, CursorCoversOnlyDone,
           SuccessIsEarned, PartialAccountsForAll
  <2>1. Placed'
    BY <1>5 DEF Report, Placed
  <2>2. OrphansHeld'
    BY <1>5 DEF Report, OrphansHeld, Placed
  <2>3. Tracked'
    BY <1>5 DEF Report, Tracked, CursorCoversOnlyDone, Covers
  <2>4. Deserved'
    BY <1>5 DEF Report, Deserved, Tracked
  <2>5. CursorCoversOnlyDone'
    BY <1>5 DEF Report, CursorCoversOnlyDone, Covers, Tracked
  <2>6. SuccessIsEarned'
    BY <1>5 DEF Report, SuccessIsEarned, Deserved, Placed
  <2>7. PartialAccountsForAll'
    BY <1>5 DEF Report, PartialAccountsForAll, Deserved, Placed
  <2> QED
    BY <2>1, <2>2, <2>3, <2>4, <2>5, <2>6, <2>7
<1> QED
  BY <1>1, <1>2, <1>3, <1>4, <1>5 DEF Finalize

(* No crash, orphan, drain, edit or foreign pause breaks the invariant. *)
LEMMA SafeEnvironment == Inv /\ Environment => Safe'
<1> SUFFICES ASSUME Inv, Environment PROVE Safe'
  OBVIOUS
<1> USE DEF Inv, Safe, TypeInv, TypeOK, StateTyped, StepOK, Held, InHand, Concluded,
           Orphan, files, memory, server, Placed, OrphansHeld, Tracked, Deserved,
           CursorCoversOnlyDone, SuccessIsEarned, PartialAccountsForAll, Done
<1>1. CASE Crash
  BY <1>1 DEF Crash, Fault
<1>2. CASE RequestDrain
  BY <1>2 DEF RequestDrain, Fault
<1>3. CASE CancelDrain
  <2> HIDE DEF Placed, OrphansHeld, Tracked, Deserved, CursorCoversOnlyDone,
           SuccessIsEarned, PartialAccountsForAll
  <2>1. Placed'
    BY <1>3 DEF CancelDrain, Placed
  <2>2. OrphansHeld'
    BY <1>3 DEF CancelDrain, OrphansHeld, Placed
  <2>3. Tracked'
    BY <1>3 DEF CancelDrain, Tracked, CursorCoversOnlyDone, Covers
  <2>4. Deserved'
    BY <1>3 DEF CancelDrain, Deserved, Tracked
  <2>5. CursorCoversOnlyDone'
    BY <1>3 DEF CancelDrain, CursorCoversOnlyDone, Covers, Tracked
  <2>6. SuccessIsEarned'
    BY <1>3 DEF CancelDrain, SuccessIsEarned, Deserved, Placed
  <2>7. PartialAccountsForAll'
    BY <1>3 DEF CancelDrain, PartialAccountsForAll, Deserved, Placed
  <2> QED
    BY <2>1, <2>2, <2>3, <2>4, <2>5, <2>6, <2>7
<1>4. CASE Repin
  BY <1>4 DEF Repin, Fault
<1>5. ASSUME NEW o \in orphans, OrphanEnds(o) PROVE Safe'
  <2> HIDE DEF Placed, OrphansHeld, Tracked, Deserved, CursorCoversOnlyDone,
           SuccessIsEarned, PartialAccountsForAll
  <2>1. Placed'
    BY <1>5 DEF OrphanEnds, Placed
  <2>2. OrphansHeld'
    BY <1>5 DEF OrphanEnds, OrphansHeld, Placed
  <2>3. Tracked'
    BY <1>5 DEF OrphanEnds, Tracked, CursorCoversOnlyDone, Covers
  <2>4. Deserved'
    <3>1. \A n \in Manifest, j \in Nat : Done(n, j) => Done(n, j)'
      BY <1>5 DEF OrphanEnds
    <3> QED
      BY <1>5, <3>1 DEF OrphanEnds, Deserved
  <2>5. CursorCoversOnlyDone'
    BY <1>5 DEF OrphanEnds, CursorCoversOnlyDone, Covers, Tracked
  <2>6. SuccessIsEarned'
    BY <1>5 DEF OrphanEnds, SuccessIsEarned, Deserved, Placed
  <2>7. PartialAccountsForAll'
    BY <1>5 DEF OrphanEnds, PartialAccountsForAll, Deserved, Placed
  <2> QED
    BY <2>1, <2>2, <2>3, <2>4, <2>5, <2>6, <2>7
<1>6. ASSUME NEW m \in Manifest, Edit(m) PROVE Safe'
  <2> HIDE DEF Placed, OrphansHeld, Tracked, Deserved, CursorCoversOnlyDone,
           SuccessIsEarned, PartialAccountsForAll
  <2>1. Placed'
    BY <1>6 DEF Edit, Fault, Placed
  <2>2. OrphansHeld'
    BY <1>6 DEF Edit, Fault, OrphansHeld, Placed
  <2>3. Tracked'
    BY <1>6 DEF Edit, Fault, Tracked, CursorCoversOnlyDone, Covers
  <2>4. Deserved'
    <3>1. pc \in Held => plan'[cur] = plan[cur]
      BY <1>6 DEF Edit, InHand, Held
    <3>2. /\ UNCHANGED <<pc, cur, failed, outcome, effect, recovery>>
          /\ pc \in {"seal", "move", "handover", "report"} => pc \in Held
      BY <1>6 DEF Edit, Held
    <3>3. ASSUME pc \in {"seal", "move", "handover", "report"}
          PROVE  Deserved'
      <4>1. plan'[cur'] = plan[cur] /\ effect'[cur'] = effect[cur]
        BY <3>1, <3>2, <3>3
      <4>2. {plan[cur][j] : j \in failed}' = {plan[cur][j] : j \in failed}
        BY <3>2, <4>1
      <4> QED
        BY <3>2, <3>3, <4>1, <4>2 DEF Deserved, Done
    <3> QED
      BY <3>2, <3>3 DEF Deserved
  <2>5. CursorCoversOnlyDone'
    BY <1>6 DEF Edit, Fault, CursorCoversOnlyDone, Covers, Tracked
  <2>6. SuccessIsEarned'
    BY <1>6 DEF Edit, Fault, SuccessIsEarned, Deserved, Placed
  <2>7. PartialAccountsForAll'
    BY <1>6 DEF Edit, Fault, PartialAccountsForAll, Deserved, Placed
  <2> QED
    BY <2>1, <2>2, <2>3, <2>4, <2>5, <2>6, <2>7
<1>7. ASSUME NEW m \in Manifest, Withdraw(m) PROVE Safe'
  BY <1>7 DEF Withdraw, Fault
<1>8. ASSUME NEW t \in Target, ForeignPause(t) PROVE Safe'
  BY <1>8 DEF ForeignPause, Fault
<1> QED
  BY <1>1, <1>2, <1>3, <1>4, <1>5, <1>6, <1>7, <1>8 DEF Environment

(* The invariant holds in every reachable state. *)
THEOREM Invariance == Spec => []Inv
<1>1. Init => Inv
  <2>1. Init => Safe
    BY DEF Init, Safe, Placed, OrphansHeld, Tracked, Deserved, Held, Concluded,
       CursorCoversOnlyDone, Covers, SuccessIsEarned, PartialAccountsForAll, NoSidecar
  <2> QED
    BY <2>1, InitTyped DEF Inv
<1>2. Inv /\ [Next]_vars => Inv'
  <2>1. Inv /\ UNCHANGED vars => Safe'
    BY DEF Inv, Safe, vars, files, memory, server, Placed, OrphansHeld, InHand,
       Tracked, Deserved, Held, Concluded, Done, CursorCoversOnlyDone, Covers,
       SuccessIsEarned, PartialAccountsForAll
  <2>2. Inv /\ Next => Safe'
    BY SafeRecovery, SafePass, SafeStep, SafeFinalize, SafeEnvironment DEF Next
  <2> QED
    BY <2>1, <2>2, TypedStep DEF Inv
<1> QED
  BY <1>1, <1>2, PTL DEF Spec

(* A manifest in 04.done has had every operation of its plan carried out. *)
THEOREM SuccessEarned == Spec => []SuccessIsEarned
<1>1. Inv => SuccessIsEarned
  BY DEF Inv, Safe
<1> QED
  BY <1>1, Invariance, PTL

(* A PARTIAL manifest accounts for every operation of its plan. *)
THEOREM PartialAccounts == Spec => []PartialAccountsForAll
<1>1. Inv => PartialAccountsForAll
  BY DEF Inv, Safe
<1> QED
  BY <1>1, Invariance, PTL

(* The durable cursor never runs ahead of the work. *)
THEOREM CursorSafe == Spec => []CursorCoversOnlyDone
<1>1. Inv => CursorCoversOnlyDone
  BY DEF Inv, Safe
<1> QED
  BY <1>1, Invariance, PTL

(* No manifest is run beside an orphan its sidecar names. *)
THEOREM SingleExecution == Spec => []NoDoubleExecution
<1>1. Inv => NoDoubleExecution
  BY DEF Inv, Safe, OrphansHeld, InHand, NoDoubleExecution
<1> QED
  BY <1>1, Invariance, PTL
-----------------------------------------------------------------------------
(* The refinement of ManifestContract: a step of the queue is a step of the *)
(* contract or leaves alone what the contract sees.                         *)

(* What the contract sees changes only with these four.                     *)
LEMMA UnseenStep ==
  ASSUME UNCHANGED <<verdict, plan, effect, recovery>>
  PROVE  UNCHANGED Promise!cvars
  BY DEF Promise!cvars

(* Work done for a manifest, whoever did it and whatever became of it, is the *)
(* contract's CarryOut.                                                      *)
LEMMA WorkIsCarriedOut ==
  ASSUME NEW m \in Manifest, NEW t \in Target,
         effect' = [effect EXCEPT ![m] = @ \cup {t}],
         UNCHANGED <<verdict, plan, recovery>>
  PROVE  Promise!ContractNext
<1>1. Promise!CarryOut(m, t)
  BY DEF Promise!CarryOut
<1> QED
  BY <1>1 DEF Promise!ContractNext

(* Recording an outcome that is deserved is a step of the contract. *)
LEMMA ConclusionAllowed ==
  ASSUME NEW m \in Manifest, Promise!Conclude(m)
  PROVE  Promise!ContractNext
  BY DEF Promise!ContractNext

(* The recovery sweep is invisible to the contract. *)
LEMMA RecoveryUnseen == Recovery => UNCHANGED <<verdict, plan, effect, recovery>>
  BY DEF Recovery, Start, DropSidecar, Discover, RecoverUnreadable, Adopt, Requeue, AbortSweep,
         files, server

(* So is the pass over the queue. *)
LEMMA PassUnseen == Pass => UNCHANGED <<verdict, plan, effect, recovery>>
  BY DEF Pass, Exit, WriteSidecar, Reject, ClosedAtLoad, Prepare, Defer, SkipMissing, Claim,
         files, server

(* The steps of an operation carry out a target for the manifest in hand, or *)
(* nothing.                                                                  *)
LEMMA StepCarriesOut ==
  ASSUME TypeInv, Step
  PROVE  Promise!ContractNext \/ UNCHANGED Promise!cvars
<1>1. CASE SkipSatisfied \/ Completes
  <2>1. cur \in Manifest /\ target \in Target
    BY <1>1, OpTyped DEF SkipSatisfied, Completes
  <2>2. /\ effect' = [effect EXCEPT ![cur] = @ \cup {target}]
        /\ UNCHANGED <<verdict, plan, recovery>>
    BY <1>1 DEF SkipSatisfied, Completes, Commits, Ends, files
  <2> QED
    BY <2>1, <2>2, WorkIsCarriedOut
<1>2. CASE StopsOnDrain \/ Errors \/ ErrorsUnreadable
  <2>1. pc = "run" /\ UNCHANGED <<verdict, plan, recovery>>
    BY <1>2 DEF StopsOnDrain, Errors, ErrorsUnreadable, Ends, files
  <2>2. cur \in Manifest /\ target \in Target
    BY <2>1, OpTyped
  <2>3. Commits \/ Pauses \/ RollsBack
    BY <1>2 DEF StopsOnDrain, Errors, ErrorsUnreadable
  <2>4. \/ effect' = [effect EXCEPT ![cur] = @ \cup {target}]
        \/ UNCHANGED effect
    BY <2>3 DEF Commits, Pauses, RollsBack
  <2> QED
    BY <2>1, <2>2, <2>4, WorkIsCarriedOut, UnseenStep
<1>3. CASE \/ StopBetween \/ SkipDone \/ BeginOwned \/ BeginClear \/ BeginUnreadable
           \/ BeginBlocked \/ StopsShort \/ Interrupt \/ FailManifest \/ Quarantine
           \/ Succeed \/ AdvanceCursor
  <2>1. UNCHANGED <<verdict, plan, effect, recovery>>
    BY <1>3 DEF StopBetween, SkipDone, BeginOwned, BeginClear, BeginUnreadable, BeginBlocked,
       StopsShort, RollsBack, Ends, Interrupt, FailManifest, Quarantine, Succeed, AdvanceCursor,
       files, server
  <2> QED
    BY <2>1, UnseenStep
<1> QED
  BY <1>1, <1>2, <1>3 DEF Step

(* What the recovery holds is work of the manifest. *)
LEMMA RecoveredWork ==
  ASSUME NEW m \in Manifest, NEW S, S = {plan[m][j] : j \in failed}, failed # {},
         plan[m] \in Seq(Op), failed \subseteq 1..Len(plan[m])
  PROVE  S \in SUBSET Promise!Work(m) /\ S # {}
<1>1. ASSUME NEW j \in failed PROVE plan[m][j] \in Promise!Work(m)
  <2>1. j \in 1..Len(plan[m])
    OBVIOUS
  <2> QED
    BY <2>1, Zenon DEF Promise!Work
<1>2. ASSUME NEW o \in S PROVE o \in Promise!Work(m)
  <2>1. PICK j \in failed : o = plan[m][j]
    BY <1>2, Zenon
  <2> QED
    BY <1>1, <2>1, Zenon
<1>3. PICK j \in failed : TRUE
  OBVIOUS
<1>4. plan[m][j] \in S
  BY <1>3, Zenon
<1> QED
  BY <1>2, <1>4, Zenon

(* The outcome is recorded when it is deserved. *)
LEMMA ReportConcludes ==
  ASSUME Inv, Report, NEW m \in Manifest, m = cur
  PROVE  Promise!Conclude(m)
<1> USE DEF Inv, TypeInv, TypeOK, StateTyped, StepOK, Held
<1> DEFINE status == [n \in Manifest |-> IF verdict[n] = "none" THEN "open" ELSE verdict[n]]
           leftover == [n \in Manifest |-> IF verdict[n] = "PARTIAL" THEN recovery[n] ELSE {}]
<1>1. /\ plan[m] \in Seq(Op) /\ verdict[m] = "none"
      /\ failed \subseteq 1..Len(plan[m]) /\ outcome \in Outcome
  BY DEF Report, Safe, Placed, Deserved
<1>2. /\ verdict' = [verdict EXCEPT ![m] = outcome]
      /\ UNCHANGED <<plan, effect, recovery>>
  BY DEF Report, server
<1>3. status' = [status EXCEPT ![m] = outcome] /\ status[m] = "open"
  BY <1>1, <1>2 DEF Outcome
<1>4. ASSUME outcome = "SUCCESS" PROVE Promise!Conclude(m)
  <2>1. \A j \in 1..Len(plan[m]) : Done(m, j)
    BY <1>4 DEF Report, Safe, Deserved
  <2>2. \A o \in Promise!Work(m) : Promise!CarriedOut(m, o)
    BY <2>1 DEF Promise!Work, Promise!CarriedOut, Done
  <2>3. leftover' = leftover
    BY <1>1, <1>2, <1>4
  <2> QED
    BY <1>2, <1>3, <1>4, <2>2, <2>3 DEF Promise!Conclude
<1>5. ASSUME outcome = "PARTIAL" PROVE Promise!Conclude(m)
  <2> DEFINE S == {plan[m][j] : j \in failed}
  <2>1. /\ failed # {} /\ recovery[m] = S
        /\ \A j \in 1..Len(plan[m]) : j \in failed \/ Done(m, j)
    BY <1>5 DEF Report, Safe, Deserved
  <2>2. S \in SUBSET Promise!Work(m) /\ S # {}
    BY <1>1, <2>1, RecoveredWork
  <2>3. \A o \in Promise!Work(m) : Promise!CarriedOut(m, o) \/ o \in S
    BY <2>1 DEF Promise!Work, Promise!CarriedOut, Done
  <2>4. leftover' = [leftover EXCEPT ![m] = S]
    BY <1>1, <1>2, <1>5, <2>1
  <2> QED
    BY <1>2, <1>3, <1>5, <2>2, <2>3, <2>4 DEF Promise!Conclude
<1>6. ASSUME outcome \in {"FAILED", "INCOMPLETE"} PROVE Promise!Conclude(m)
  <2>1. leftover' = leftover
    BY <1>1, <1>2, <1>6
  <2> QED
    BY <1>2, <1>3, <1>6, <2>1 DEF Promise!Conclude
<1> QED
  BY <1>1, <1>4, <1>5, <1>6 DEF Outcome

(* The verdict is the contract's conclusion, and is deserved when it is      *)
(* written; the recovery manifest is only seen together with it.             *)
LEMMA FinalizeConcludes ==
  ASSUME Inv, Finalize
  PROVE  Promise!ContractNext \/ UNCHANGED Promise!cvars
<1> USE DEF Inv, TypeInv, TypeOK, StateTyped, StepOK, Held
<1>1. CASE LoopEnds \/ Seal \/ Move
  <2>1. UNCHANGED <<verdict, plan, effect, recovery>>
    BY <1>1 DEF LoopEnds, Seal, Move, files, server
  <2> QED
    BY <2>1, UnseenStep
<1>2. CASE HandOver
  <2>1. cur \in Manifest /\ verdict[cur] = "none"
    BY <1>2 DEF HandOver, Safe, Placed
  <2>2. /\ recovery' = [recovery EXCEPT ![cur] = {plan[cur][j] : j \in failed}]
        /\ UNCHANGED <<verdict, plan, effect>>
    BY <1>2 DEF HandOver, server
  <2>3. \A m \in Manifest : verdict[m] = "PARTIAL" => recovery'[m] = recovery[m]
    BY <2>1, <2>2
  <2> QED
    BY <2>2, <2>3 DEF Promise!cvars
<1>3. CASE Report
  <2>1. PICK m \in Manifest : m = cur
    BY <1>3 DEF Report
  <2>2. Promise!Conclude(m)
    BY <1>3, <2>1, ReportConcludes
  <2> QED
    BY <2>2, ConclusionAllowed
<1> QED
  BY <1>1, <1>2, <1>3 DEF Finalize

(* The operator rewrites a plan only while the contract holds it open, and an *)
(* orphan's work is carried out like any other.                              *)
LEMMA EnvironmentAllowed ==
  ASSUME Inv, Environment
  PROVE  Promise!ContractNext \/ UNCHANGED Promise!cvars
<1> USE DEF Inv, TypeInv, TypeOK, StateTyped
<1>1. CASE \/ Crash \/ RequestDrain \/ CancelDrain \/ Repin
           \/ \E m \in Manifest : Withdraw(m)
           \/ \E t \in Target : ForeignPause(t)
  <2>1. UNCHANGED <<verdict, plan, effect, recovery>>
    BY <1>1 DEF Crash, RequestDrain, CancelDrain, Repin, Withdraw, ForeignPause, files, server
  <2> QED
    BY <2>1, UnseenStep
<1>2. ASSUME NEW o \in orphans, OrphanEnds(o)
      PROVE  Promise!ContractNext \/ UNCHANGED Promise!cvars
  <2>1. o.m \in Manifest /\ TargetOf[o.op] \in Target
    BY DEF Orphan
  <2>2. /\ \/ effect' = [effect EXCEPT ![o.m] = @ \cup {TargetOf[o.op]}]
           \/ UNCHANGED effect
        /\ UNCHANGED <<verdict, plan, recovery>>
    BY <1>2 DEF OrphanEnds, files
  <2> QED
    BY <2>1, <2>2, WorkIsCarriedOut, UnseenStep
<1>3. ASSUME NEW m \in Manifest, Edit(m) PROVE Promise!ContractNext
  <2>1. verdict[m] = "none"
    BY <1>3 DEF Edit, Safe, Placed, Concluded
  <2>2. Promise!Rewrite(m)
    BY <1>3, <2>1 DEF Edit, Promise!Rewrite, server
  <2> QED
    BY <2>2 DEF Promise!ContractNext
<1> QED
  BY <1>1, <1>2, <1>3 DEF Environment

(* The queue, the engine, the sweep and everything that happens to them keep *)
(* the contract: one outcome per manifest, SUCCESS and PARTIAL deserved, the *)
(* plan settled once it is concluded.                                        *)
THEOREM PromiseKept == Spec => KeepsPromise
<1>1. Init => Promise!ContractInit
  BY DEF Init, Promise!ContractInit
<1>2. Inv /\ [Next]_vars => [Promise!ContractNext]_(Promise!cvars)
  <2>1. UNCHANGED vars => UNCHANGED Promise!cvars
    BY UnseenStep DEF vars, files, server
  <2>2. Inv /\ Next => Promise!ContractNext \/ UNCHANGED Promise!cvars
    BY RecoveryUnseen, PassUnseen, UnseenStep, StepCarriesOut, FinalizeConcludes,
       EnvironmentAllowed DEF Next, Inv
  <2> QED
    BY <2>1, <2>2
<1> QED
  BY <1>1, <1>2, Invariance, PTL DEF Spec, KeepsPromise, Promise!Contract

-----------------------------------------------------------------------------
(* Progress, in the sidecar and on the server, is not given up by the way.  *)

(* The sweep drops a sidecar only when it records no progress. *)
DropsNothing == pc = "drop" => sidecar[cur].cursor = 0

(* Between the sweep's decision and the removal nobody writes the sidecar. *)
LEMMA DropsNothingStep == TypeInv /\ DropsNothing /\ [Next]_vars => DropsNothing'
<1> SUFFICES ASSUME TypeInv, DropsNothing, [Next]_vars, pc' = "drop"
             PROVE  sidecar'[cur'].cursor = 0
  BY DEF DropsNothing
<1>1. CASE UNCHANGED vars
  BY <1>1 DEF DropsNothing, vars, files, memory
<1>2. ASSUME NEW m \in Manifest, Requeue(m) PROVE sidecar'[cur'].cursor = 0
  <2>1. sidecar' = sidecar /\ (cur' = m \/ pc' = pc)
    BY <1>2 DEF Requeue
  <2>2. CASE pc' = pc
    BY <1>2, <2>2 DEF Requeue, Sweeping
  <2>3. CASE pc' # pc
    <3>1. cur' = m /\ ~KeepSidecar(m) /\ sidecar[m].cursor \in Nat
      BY <1>2, <2>3 DEF Requeue, TypeInv, TypeOK, StateTyped, Sidecar
    <3> QED
      BY <2>1, <3>1 DEF KeepSidecar
  <2> QED
    BY <2>2, <2>3
<1>3. CASE \/ Start \/ DropSidecar \/ Discover \/ Pass \/ Step \/ Finalize
           \/ \E m \in Manifest : RecoverUnreadable(m) \/ Adopt(m) \/ AbortSweep(m)
  BY <1>3 DEF Start, DropSidecar, Discover, RecoverUnreadable, Adopt, AbortSweep, Sweeping,
     Pass, Exit, WriteSidecar, Reject, ClosedAtLoad, Prepare, Defer, SkipMissing, Claim, Visiting,
     Step, StopBetween, SkipDone, SkipSatisfied, BeginOwned, BeginClear, BeginUnreadable,
     BeginBlocked, Completes, StopsShort, StopsOnDrain, Errors, ErrorsUnreadable, Ends,
     Interrupt, FailManifest, Quarantine, Succeed, AdvanceCursor, Pending, AtStep, Issue, Refuse,
     Finalize, LoopEnds, Seal, Move, HandOver, Report
<1>4. CASE Environment
  <2>1. pc' = pc => UNCHANGED <<sidecar, cur>>
    BY <1>4 DEF Environment, Crash, RequestDrain, CancelDrain, Repin, OrphanEnds, Edit, Withdraw,
       ForeignPause, files, memory
  <2>2. pc' \in {pc, "down"}
    BY <1>4 DEF Environment, Crash, RequestDrain, CancelDrain, Repin, OrphanEnds, Edit, Withdraw,
       ForeignPause
  <2> QED
    BY <2>1, <2>2 DEF DropsNothing
<1> QED
  BY <1>1, <1>2, <1>3, <1>4 DEF Next, Recovery

(* Which steps write a sidecar, and what each does to its cursor. *)
LEMMA CursorStep ==
  ASSUME Inv, DropsNothing, [Next]_vars, NEW m \in Manifest,
         sidecar'[m].cursor < sidecar[m].cursor
  PROVE  \/ pc = "seal" /\ cur = m
         \/ pc = "load" /\ cur = m /\ sidecar[m].fp # Fingerprint(plan[m])
<1>a. sidecar[m] \in Sidecar /\ sidecar[m].cursor \in Nat /\ plan[m] \in Plans
  BY DEF Inv, TypeInv, TypeOK, StateTyped, Sidecar
<1>b. sidecar \in [Manifest -> Sidecar]
  BY DEF Inv, TypeInv, TypeOK, StateTyped
<1>1. CASE sidecar' = sidecar
  BY <1>1, <1>a
<1>2. CASE DropSidecar
  <2>1. m = cur
    BY <1>2, <1>a DEF DropSidecar
  <2> QED
    BY <1>2, <1>a, <1>b, <2>1 DEF DropSidecar, DropsNothing, NoSidecar
<1>3. CASE Seal
  BY <1>3, <1>a DEF Seal
<1>4. CASE Prepare
  <2>1. m = cur /\ pc = "load" /\ sidecar'[m] = Bound(sidecar[m], plan[m])
    BY <1>4, <1>a, <1>b DEF Prepare
  <2>2. ResumeFrom(sidecar[m], plan[m]) # sidecar[m].cursor
    BY <1>a, <2>1, SidecarFields
  <2>3. sidecar[m].cursor <= Len(sidecar[m].fp)
    BY DEF Inv, Safe, CursorCoversOnlyDone, Covers
  <2>4. sidecar[m].fp # Fingerprint(plan[m])
    BY <1>a, <2>2, <2>3, FingerprintType DEF ResumeFrom
  <2> QED
    BY <2>1, <2>4
<1>5. CASE WriteSidecar \/ Interrupt \/ Succeed
  <2>1. m # cur => sidecar'[m] = sidecar[m]
    BY <1>5, <1>a, <1>b DEF WriteSidecar, Interrupt, Succeed
  <2>2. m = cur => sidecar'[m] \in {Stamped(sidecar[m]), Recorded(sidecar[m]), Cleared(sidecar[m])}
    BY <1>5, <1>a, <1>b DEF WriteSidecar, Interrupt, Succeed
  <2> QED
    BY <1>a, <2>1, <2>2, SidecarFields
<1>6. CASE AdvanceCursor
  <2>1. i \in Nat
    BY DEF Inv, TypeInv, TypeOK, StateTyped
  <2>2. m # cur => sidecar'[m] = sidecar[m]
    BY <1>6, <1>a, <1>b DEF AdvanceCursor
  <2>3. m = cur => sidecar'[m] = Advanced(sidecar[m])
    BY <1>6, <1>a, <1>b DEF AdvanceCursor
  <2>4. Advanced(sidecar[m]).cursor = NewCursor(sidecar[m].cursor)
    BY <1>a, SidecarFields
  <2> QED
    BY <1>a, <2>1, <2>2, <2>3, <2>4 DEF NewCursor
<1>7. \/ sidecar' = sidecar \/ DropSidecar \/ Seal \/ Prepare
      \/ WriteSidecar \/ Interrupt \/ Succeed \/ AdvanceCursor
  BY DEF Next, vars, files, Recovery, Start, Discover, RecoverUnreadable, Adopt, Requeue,
     AbortSweep, Pass, Exit, Reject, ClosedAtLoad, Defer, SkipMissing, Claim,
     Step, StopBetween, SkipDone, SkipSatisfied, BeginOwned, BeginClear, BeginUnreadable,
     BeginBlocked, Completes, StopsShort, StopsOnDrain, Errors, ErrorsUnreadable, Ends,
     FailManifest, Quarantine, Finalize, LoopEnds, Move, HandOver, Report,
     Environment, Crash, RequestDrain, CancelDrain, Repin, OrphanEnds, Edit, Withdraw, ForeignPause
<1> QED
  BY <1>1, <1>2, <1>3, <1>4, <1>5, <1>6, <1>7

(* Recorded progress is given up only by the seal, or for a plan that is no  *)
(* longer the one it was recorded against.                                   *)
THEOREM ProgressIsKept == Spec => ProgressKept
<1>1. Init => DropsNothing
  BY DEF Init, DropsNothing
<1>2. Inv => TypeInv
  BY DEF Inv
<1>3. Inv /\ DropsNothing /\ [Next]_vars =>
        [\A m \in Manifest : sidecar'[m].cursor < sidecar[m].cursor =>
           \/ pc = "seal" /\ cur = m
           \/ pc = "load" /\ cur = m /\ sidecar[m].fp # Fingerprint(plan[m])]_vars
  BY CursorStep
<1> QED
  BY <1>1, <1>2, <1>3, DropsNothingStep, Invariance, PTL DEF Spec, ProgressKept

(* Which steps end a pause, and on whose account. *)
LEMMA PauseStep ==
  ASSUME TypeInv, [Next]_vars, NEW t \in Target, paused[t] # NoPause, paused'[t] = NoPause
  PROVE  \/ pc = "run" /\ t = target /\ t \in effect'[cur]
         \/ \E o \in orphans \ orphans' : t = TargetOf[o.op]
         \/ pc = "op" /\ t = target /\ cur \in OptIn /\ ~Owns
<1>a. /\ paused \in [Target -> Op \cup {Foreign, NoPause}] /\ effect \in [Manifest -> SUBSET Target]
      /\ orphans \subseteq Orphan
  BY DEF TypeInv, TypeOK, StateTyped
<1>1. CASE paused' = paused
  BY <1>1
<1>2. CASE Completes \/ StopsOnDrain \/ Errors \/ ErrorsUnreadable
  <2>1. pc = "run" /\ (Commits \/ Pauses \/ RollsBack)
    BY <1>2 DEF Completes, StopsOnDrain, Errors, ErrorsUnreadable
  <2>2. cur \in Manifest /\ op \in Op /\ target \in Target
    BY <2>1, OpTyped
  <2>3. ~RollsBack /\ ~Pauses
    BY <1>a, <2>2 DEF RollsBack, Pauses
  <2>4. effect' = [effect EXCEPT ![cur] = @ \cup {target}]
    BY <2>1, <2>3 DEF Commits
  <2>5. t = target
    BY <1>a, <2>1, <2>3 DEF Commits
  <2> QED
    BY <1>a, <2>1, <2>2, <2>4, <2>5
<1>3. CASE BeginBlocked
  <2>1. PICK b \in Blockers :
              \/ MayAbort(b) /\ paused' = [paused EXCEPT ![b] = NoPause]
              \/ paused' = paused
    BY <1>3 DEF BeginBlocked
  <2>2. MayAbort(b) /\ t = b
    BY <1>a, <2>1
  <2> QED
    BY <1>3, <2>2 DEF BeginBlocked, Pending, AtStep, MayAbort
<1>4. ASSUME NEW o \in orphans, OrphanEnds(o) PROVE \E x \in orphans \ orphans' : t = TargetOf[x.op]
  <2>1. o \in orphans \ orphans'
    BY <1>4 DEF OrphanEnds
  <2>2. o.op \in Op
    BY <1>a DEF Orphan
  <2>3. t = TargetOf[o.op]
    BY <1>a, <1>4, <2>2 DEF OrphanEnds
  <2> QED
    BY <2>1, <2>3
<1>5. ASSUME NEW u \in Target, ForeignPause(u) PROVE FALSE
  BY <1>5, <1>a DEF ForeignPause
<1>6. \/ paused' = paused \/ BeginBlocked
      \/ Completes \/ StopsOnDrain \/ Errors \/ ErrorsUnreadable
      \/ \E o \in orphans : OrphanEnds(o)
      \/ \E u \in Target : ForeignPause(u)
  BY DEF Next, vars, server, Recovery, Start, DropSidecar, Discover, RecoverUnreadable, Adopt,
     Requeue, AbortSweep, Pass, Exit, WriteSidecar, Reject, ClosedAtLoad, Prepare, Defer,
     SkipMissing, Claim, Step, StopBetween, SkipDone, SkipSatisfied, BeginOwned, BeginClear,
     BeginUnreadable, StopsShort, RollsBack, Interrupt, FailManifest, Quarantine, Succeed,
     AdvanceCursor, Finalize, LoopEnds, Seal, Move, HandOver, Report,
     Environment, Crash, RequestDrain, CancelDrain, Repin, Edit, Withdraw
<1> QED
  BY <1>1, <1>2, <1>3, <1>4, <1>5, <1>6

(* A pause is ended by a statement on that very index, by the session an     *)
(* earlier run left there, or by the ABORT the manifest opted in to.         *)
THEOREM PausesAreOwned == Spec => PauseDestroyedOnlyByOwner
<1>1. TypeInv /\ [Next]_vars =>
        [\A t \in Target : paused[t] # NoPause /\ paused'[t] = NoPause =>
           \/ pc = "run" /\ t = target /\ t \in effect'[cur]
           \/ \E o \in orphans \ orphans' : t = TargetOf[o.op]
           \/ pc = "op" /\ t = target /\ cur \in OptIn /\ ~Owns]_vars
  BY PauseStep
<1> QED
  BY <1>1, InitTyped, TypedStep, PTL DEF Spec, PauseDestroyedOnlyByOwner
----------------------------------------------------------------------------
(* The lock of the queue *)

HIDE LifecycleAssumption DEF FaultKind
USE LockAssumption

(* The name keeps its inode, so whoever has the lock file open has the same *)
(* one open; and whoever is past TryLock is the one the kernel gave it to.  *)
OneInode == \A p \in Proc : fd[p] # None => fd[p] = file
Locked   == \A p \in Proc : stage[p] \in Holding => lock[fd[p]] = p

LockInv == LockTypeOK /\ OneInode /\ Locked /\ InFlightUntouched /\ HolderNamed

(* The lock on the one inode has one holder. *)
LEMMA ExclusionFromInv ==
  ASSUME LockInv
  PROVE  MutualExclusion
  BY DEF LockInv, LockTypeOK, DescriptorsClosed, OneInode, Locked,
     MutualExclusion, Holding

LEMMA LockInitInv ==
  ASSUME LockInit
  PROVE  LockInv
<1>1. LockTypeOK
  <2>1. executing \in BOOLEAN
    BY DEF LockInit
  <2>2. /\ file = None /\ fd = [p \in Proc |-> None]
        /\ lock = [n \in Inode |-> None] /\ line = [n \in Inode |-> None]
        /\ stage = [p \in Proc |-> "idle"] /\ where = "to_run" /\ runner = None
        /\ crashes = 0
    BY DEF LockInit
  <2> QED
    BY <2>1, <2>2 DEF LockTypeOK, DescriptorsClosed
<1>2. OneInode /\ Locked /\ InFlightUntouched /\ HolderNamed
  BY DEF LockInit, OneInode, Locked, InFlightUntouched, HolderNamed, Holding
<1> QED
  BY <1>1, <1>2 DEF LockInv

(* LockQueue: opening, locking, being refused, writing the line. *)
LEMMA LockSteps ==
  ASSUME LockInv, NEW p \in Proc,
         \/ OpenFile(p) \/ TryLock(p) \/ Refused(p)
         \/ ClearLine(p) \/ WriteLine(p) \/ LineFails(p)
  PROVE  LockInv'
<1> USE DEF LockInv, LockTypeOK, DescriptorsClosed, OneInode, Locked,
            InFlightUntouched, HolderNamed, Holding, Goes, lockVars,
            jobVars
<1>1. CASE OpenFile(p)
  BY <1>1 DEF OpenFile, OpenedLine, Fresh
<1>2. CASE TryLock(p)
  BY <1>2 DEF TryLock, Free
<1>3. CASE Refused(p)
  BY <1>3 DEF Refused, Closed
<1>4. CASE ClearLine(p)
  BY <1>4, ExclusionFromInv DEF ClearLine, MutualExclusion
<1>5. CASE WriteLine(p)
  BY <1>5, ExclusionFromInv DEF WriteLine, MutualExclusion
<1>6. CASE LineFails(p)
  BY <1>6 DEF LineFails
<1> QED
  BY <1>1, <1>2, <1>3, <1>4, <1>5, <1>6

(* The run under the lock, and its release. *)
LEMMA WorkSteps ==
  ASSUME LockInv, NEW p \in Proc,
         \/ Sweep(p) \/ Take(p) \/ NothingToDo(p) \/ Execute(p)
         \/ Conclude(p) \/ Unlock(p) \/ Close(p)
  PROVE  LockInv'
<1> USE DEF LockInv, LockTypeOK, DescriptorsClosed, OneInode, Locked,
            InFlightUntouched, HolderNamed, Holding, Goes, lockVars,
            jobVars
<1>1. CASE Sweep(p)
  BY <1>1, ExclusionFromInv DEF Sweep, MutualExclusion
<1>2. CASE Take(p)
  BY <1>2 DEF Take
<1>3. CASE NothingToDo(p)
  BY <1>3 DEF NothingToDo
<1>4. CASE Execute(p)
  BY <1>4 DEF Execute
<1>5. CASE Conclude(p)
  BY <1>5 DEF Conclude
<1>6. CASE Unlock(p)
  BY <1>6, ExclusionFromInv DEF Unlock, MutualExclusion
<1>7. CASE Close(p)
  BY <1>7 DEF Close, Closed, Remaining
<1> QED
  BY <1>1, <1>2, <1>3, <1>4, <1>5, <1>6, <1>7

(* The invariant holds in every reachable state. *)
THEOREM LockInvariance == LockSpec => []LockInv
<1>1. LockInv /\ [LockNext]_queueVars => LockInv'
  <2> SUFFICES ASSUME LockInv, [LockNext]_queueVars PROVE LockInv'
    OBVIOUS
  <2> USE DEF LockInv, LockTypeOK, DescriptorsClosed, OneInode, Locked,
              InFlightUntouched, HolderNamed, Holding, lockVars, jobVars
  <2>1. ASSUME NEW p \in Proc, Die(p) PROVE LockInv'
    BY <2>1 DEF Die, Closed
  <2>2. CASE StatementEnds
    BY <2>2 DEF StatementEnds
  <2>3. CASE UNCHANGED queueVars
    BY <2>3 DEF queueVars
  <2> HIDE DEF LockInv
  <2> QED
    BY <2>1, <2>2, <2>3, LockSteps, WorkSteps DEF LockNext, Run
<1>2. LockInit => LockInv
  BY LockInitInv
<1> QED
  BY <1>1, <1>2, PTL DEF LockSpec

(* Never two runs of one queue. *)
THEOREM OneRunPerQueue == LockSpec => []MutualExclusion
<1>1. LockInv => MutualExclusion
  BY ExclusionFromInv
<1> QED
  BY <1>1, LockInvariance, PTL

(* Never a sweep of the manifest another run is working on. *)
THEOREM PeerNeverSwept == LockSpec => []InFlightUntouched
<1>1. LockInv => InFlightUntouched
  BY DEF LockInv
<1> QED
  BY <1>1, LockInvariance, PTL

(* The lock file names the run that holds the queue. *)
THEOREM HolderIsNamed == LockSpec => []HolderNamed
<1>1. LockInv => HolderNamed
  BY DEF LockInv
<1> QED
  BY <1>1, LockInvariance, PTL

(* The lock keeps its promise: one run, named, its manifest untouched. *)
THEOREM LockKeepsItsPromise == LockSpec => []OneRun
<1>1. MutualExclusion /\ InFlightUntouched /\ HolderNamed => OneRun
  BY DEF OneRun
<1> QED
  BY <1>1, OneRunPerQueue, PeerNeverSwept, HolderIsNamed, PTL

(* Every reachable state is typed, and no descriptor outlives its run. *)
THEOREM QueueTyped == LockSpec => []LockTypeOK
<1>1. LockInv => LockTypeOK
  BY DEF LockInv
<1> QED
  BY <1>1, LockInvariance, PTL

=============================================================================
