-------------------------- MODULE ManifestContract --------------------------
(***************************************************************************)
(* What the queue promises about a manifest, whatever happens underneath:  *)
(* a manifest is open until one outcome is recorded; SUCCESS is recorded   *)
(* only when every operation of its plan was carried out, and PARTIAL only *)
(* when every operation was carried out or handed over in the recovery     *)
(* manifest.  The plan of a manifest changes only while it is open.        *)
(***************************************************************************)
EXTENDS Naturals, Sequences

CONSTANTS Manifest, Op, Target, TargetOf, Plans

VARIABLES
  status,    \* "open", or the recorded outcome
  plan,      \* the operations of the manifest
  effect,    \* the targets carried out for it
  leftover   \* the operations of its recovery manifest

cvars == <<status, plan, effect, leftover>>

Work(m) == {plan[m][j] : j \in 1..Len(plan[m])}
CarriedOut(m, o) == TargetOf[o] \in effect[m]

ContractInit ==
  /\ status = [m \in Manifest |-> "open"]
  /\ plan \in [Manifest -> Plans]
  /\ effect = [m \in Manifest |-> {}]
  /\ leftover = [m \in Manifest |-> {}]

CarryOut(m, t) ==
  /\ effect' = [effect EXCEPT ![m] = @ \cup {t}]
  /\ UNCHANGED <<status, plan, leftover>>

Rewrite(m) ==
  /\ status[m] = "open"
  /\ \E p \in Plans : plan' = [plan EXCEPT ![m] = p]
  /\ UNCHANGED <<status, effect, leftover>>

Conclude(m) ==
  /\ status[m] = "open"
  /\ \/ /\ \A o \in Work(m) : CarriedOut(m, o)
        /\ status' = [status EXCEPT ![m] = "SUCCESS"]
        /\ UNCHANGED leftover
     \/ /\ \E S \in SUBSET Work(m) :
             /\ S # {}
             /\ \A o \in Work(m) : CarriedOut(m, o) \/ o \in S
             /\ leftover' = [leftover EXCEPT ![m] = S]
        /\ status' = [status EXCEPT ![m] = "PARTIAL"]
     \/ /\ \E v \in {"FAILED", "INCOMPLETE"} :
             status' = [status EXCEPT ![m] = v]
        /\ UNCHANGED leftover
  /\ UNCHANGED <<plan, effect>>

ContractNext ==
  \E m \in Manifest :
    Conclude(m) \/ Rewrite(m) \/ \E t \in Target : CarryOut(m, t)

Contract == ContractInit /\ [][ContractNext]_cvars
=============================================================================
