----------------------------- MODULE Recidivism -----------------------------
(***************************************************************************)
(* The blocking debt of one offender identity: what the two killers share. *)
(* A bucket that is not in the map is NoBucket; every reader of a missing  *)
(* bucket gets zero, and every writer creates it. Ages are in ticks, and   *)
(* saturate where no decision can tell two of them apart.                  *)
(***************************************************************************)
EXTENDS Integers

CONSTANTS
  Dwell,      \* the longest delay any rule or policy asks for
  MaxKills,   \* maxRepeatKills
  Window      \* recidivismWindow

ASSUME RecidivismAssumption == {Dwell, MaxKills, Window} \subseteq Nat \ {0}

Off == -1

Bucket == [accrued   : 0..Dwell,
           kills     : Nat,
           escalated : BOOLEAN,
           mark      : Off..Dwell,         \* ticks since lastPoll
           idle      : Off..(Window + 1)]  \* ticks since lastActive

NoBucket == [accrued |-> 0, kills |-> 0, escalated |-> FALSE, mark |-> Off, idle |-> Off]

UpTo(n, bound) == IF n > bound THEN bound ELSE n

Touch(b) == [b EXCEPT !.idle = 0]

(* Bank an interval the caller measured. *)
Accrue(b, d) == [Touch(b) EXCEPT !.accrued = UpTo(b.accrued + d, Dwell)]

(* Bank the interval since this identity was last observed: nothing at first sight. *)
AccrueSince(b) == [Accrue(b, IF b.mark = Off THEN 0 ELSE b.mark) EXCEPT !.mark = 0]

KeepMark(b) == b   \* mutant: an absence is banked when the offender returns
ForgetMark(b) == [b EXCEPT !.mark = Off]

RecordKills(b, n) == [Touch(b) EXCEPT !.kills = b.kills + n]

UndoKill(b) == [b EXCEPT !.kills = IF b.kills > 0 THEN b.kills - 1 ELSE 0]

Escalate(b) == [Touch(b) EXCEPT !.escalated = TRUE]

Prune(b) == IF b.idle > Window THEN NoBucket ELSE b

Capped(b) == b.kills >= MaxKills

AgeUpTo(n, bound) == IF n = Off THEN Off ELSE UpTo(n + 1, bound)

OlderBucket(b) == [b EXCEPT !.mark = AgeUpTo(b.mark, Dwell), !.idle = AgeUpTo(b.idle, Window + 1)]

=============================================================================
