---------------------------- MODULE BlockerKiller ----------------------------
(***************************************************************************)
(* Killing the session that blocks our statement, once the first rule it   *)
(* matches has been blocking us for the rule's delay. The whole decision,  *)
(* KILL included, is made under one mutex; the debt is banked per rule and *)
(* the poll mark is kept per episode. Rules are numbered in the order of   *)
(* the manifest. A tick is one blocking poll interval.                     *)
(***************************************************************************)
EXTENDS Recidivism, Sequences, FiniteSets, FiniteSetsExt

CONSTANTS
  Sid,      \* session ids
  After,    \* the delay of each rule
  Nobody

ASSUME BlockerAssumption ==
  /\ After \in Seq(1..Dwell) /\ After # <<>>
  /\ Nobody \notin Sid

Rule == DOMAIN After

VARIABLES
  blocker,   \* who blocks our statement, and the rules it matches
  pump,      \* the statement runs, and is polled
  sourced,   \* a rule source is set: a manifest is running
  bucket,    \* the debt of each rule
  current,   \* the SPID of the episode
  mark,      \* ticks since lastPoll, or Off
  killed,    \* a KILL of this episode succeeded
  killing,   \* the KILL in flight, under the mutex: its rule, or 0
  landed,    \* KILLs charged to each rule that reached the server (history)
  lost,      \* those of them whose answer was an error (history)
  gap,       \* ticks since the last poll (history)
  lastSeen,  \* the blocker the last poll saw (history)
  matched    \* blocking time between two polls that a rule answers for (history)

episode == <<current, mark, killed>>
history == <<landed, lost, gap, lastSeen, matched>>
blockerVars == <<blocker, pump, sourced, bucket, episode, killing, history>>

NoBlocker == [sid |-> Nobody, matches |-> {}]
NoRule == 0
TimeCap == Cardinality(Rule) * Dwell   \* bound on the history of matched time

BlockerInit ==
  /\ blocker = NoBlocker /\ pump = TRUE /\ sourced = TRUE
  /\ bucket = [r \in Rule |-> NoBucket]
  /\ current = Nobody /\ mark = Off /\ killed = FALSE
  /\ killing = NoRule
  /\ landed = [r \in Rule |-> 0] /\ lost = [r \in Rule |-> 0]
  /\ gap = 0 /\ lastSeen = Nobody /\ matched = 0

-----------------------------------------------------------------------------
(* considerLocked, up to the KILL. *)

Pruned == [r \in Rule |-> Prune(bucket[r])]
SameEpisode == blocker.sid = current

SincePoll == IF SameEpisode /\ mark # Off THEN mark ELSE 0

Banked(r) == Accrue(Pruned[r], SincePoll)

Forgotten(r) == Pruned[r] # bucket[r]
Charged(n, r) == IF Forgotten(r) THEN 0 ELSE n[r]

(* An episode ends on a poll that sees nobody; its debt stays. *)
PollNobody ==
  /\ blocker = NoBlocker
  /\ bucket' = Pruned
  /\ current' = Nobody /\ mark' = Off /\ killed' = FALSE
  /\ UNCHANGED <<killing, matched>>

(* Mutant: the mark stands still while no rule matches. *)
KeptMark == IF SameEpisode THEN mark ELSE Off
UnmatchedMark == 0

PollUnmatched ==
  /\ blocker # NoBlocker /\ blocker.matches = {}
  /\ bucket' = Pruned
  /\ current' = blocker.sid /\ mark' = UnmatchedMark /\ killed' = (SameEpisode /\ killed)
  /\ UNCHANGED <<killing, matched>>

KilledBefore == SameEpisode /\ killed
Spent(r) == Capped(Banked(r))

PollMatched ==
  LET r       == Min(blocker.matches)
      due     == ~KilledBefore /\ Banked(r).accrued >= After[r]
      stopped == due /\ Spent(r)
  IN /\ blocker.matches # {}
     /\ bucket' = [Pruned EXCEPT ![r] = IF stopped THEN Escalate(Banked(r)) ELSE Banked(r)]
     /\ current' = blocker.sid /\ mark' = 0 /\ killed' = KilledBefore
     /\ killing' = IF due /\ ~stopped THEN r ELSE NoRule
     /\ matched' = UpTo(matched + (IF lastSeen = blocker.sid THEN gap ELSE 0), TimeCap)

Poll ==
  /\ pump /\ sourced /\ killing = NoRule
  /\ PollNobody \/ PollUnmatched \/ PollMatched
  /\ gap' = 0 /\ lastSeen' = blocker.sid
  /\ landed' = [r \in Rule |-> Charged(landed, r)] /\ lost' = [r \in Rule |-> Charged(lost, r)]
  /\ UNCHANGED <<blocker, pump, sourced>>

-----------------------------------------------------------------------------
(* The KILL, still under the mutex. *)

KillSucceeds ==
  /\ killing # NoRule
  /\ killed' = TRUE
  /\ bucket' = [bucket EXCEPT ![killing] = RecordKills(@, 1)]
  /\ landed' = [landed EXCEPT ![killing] = @ + 1]
  /\ killing' = NoRule
  /\ UNCHANGED <<blocker, pump, sourced, current, mark, lost, gap, lastSeen, matched>>

(* An error spends nothing, whether or not the server received the KILL: the  *)
(* statement ended and canceled the wait, or the connection broke.            *)
KillErrors ==
  /\ killing # NoRule
  /\ \E received \in BOOLEAN :
       /\ received => lost[killing] < MaxKills   \* bound
       /\ landed' = [landed EXCEPT ![killing] = IF received THEN @ + 1 ELSE @]
       /\ lost' = [lost EXCEPT ![killing] = IF received THEN @ + 1 ELSE @]
  /\ killing' = NoRule
  /\ UNCHANGED <<blocker, pump, sourced, bucket, episode, gap, lastSeen, matched>>

-----------------------------------------------------------------------------
(* SetSource waits for the mutex. *)
SetSource ==
  /\ killing = NoRule /\ ~pump
  /\ sourced' = ~sourced
  /\ bucket' = [r \in Rule |-> NoBucket]
  /\ current' = Nobody /\ mark' = Off /\ killed' = FALSE
  /\ landed' = [r \in Rule |-> 0] /\ lost' = [r \in Rule |-> 0]
  /\ lastSeen' = Nobody /\ matched' = 0
  /\ UNCHANGED <<blocker, pump, killing, gap>>

(* A statement ends, or the next one is issued. *)
StatementTurns ==
  /\ pump \/ sourced
  /\ pump' = ~pump
  /\ UNCHANGED <<blocker, sourced, bucket, episode, killing, history>>

BlockerChanges ==
  /\ blocker' \in [sid : Sid, matches : SUBSET Rule] \cup {NoBlocker}
  /\ blocker' # blocker
  /\ UNCHANGED <<pump, sourced, bucket, episode, killing, history>>

Tick ==
  /\ bucket' = [r \in Rule |-> OlderBucket(bucket[r])]
  /\ mark' = AgeUpTo(mark, Dwell) /\ gap' = UpTo(gap + 1, Dwell)
  /\ UNCHANGED <<blocker, pump, sourced, current, killed, killing, landed, lost, lastSeen, matched>>

BlockerNext ==
  \/ Poll \/ KillSucceeds \/ KillErrors
  \/ SetSource \/ StatementTurns \/ BlockerChanges \/ Tick

BlockerSpec == BlockerInit /\ [][BlockerNext]_blockerVars

-----------------------------------------------------------------------------
BlockerTypeOK ==
  /\ blocker \in [sid : Sid, matches : SUBSET Rule] \cup {NoBlocker}
  /\ {pump, sourced, killed} \subseteq BOOLEAN
  /\ bucket \in [Rule -> Bucket] /\ \A r \in Rule : bucket[r].kills <= MaxKills
  /\ current \in Sid \cup {Nobody} /\ lastSeen \in Sid \cup {Nobody}
  /\ mark \in Off..Dwell /\ gap \in 0..Dwell
  /\ killing \in Rule \cup {NoRule}
  /\ landed \in [Rule -> Nat] /\ lost \in [Rule -> Nat]
  /\ matched \in 0..TimeCap

(* The debt of all rules together, tick by tick.                             *)
Debt == {d \in Rule \X (1..Dwell) : d[2] <= bucket[d[1]].accrued}

(* Nothing is charged twice and nothing is charged unseen: the debt never     *)
(* exceeds the time between polls that saw the same blocker and ended on a    *)
(* match. (sincePoll, lastPoll)                                               *)
DebtAccounted == Cardinality(Debt) <= matched

(* The repeat-kill cap counts what reached the server: a rule kills MaxKills  *)
(* sessions before its debt is forgotten, and one more for each KILL whose    *)
(* answer was lost. (recordKill, escalate)                                    *)
BudgetHolds == \A r \in Rule : landed[r] <= MaxKills + lost[r]

(* Both accounts of the killer: what it charges and what it spends.          *)
KillsAccounted == DebtAccounted /\ BudgetHolds

(* The comment of consider: each identity is killed at most maxRepeatKills    *)
(* times per window. Does not hold: a KILL whose answer was lost spends       *)
(* nothing, which BudgetHolds counts in lost.                                 *)
RateLimit == \A r \in Rule : landed[r] <= MaxKills

=============================================================================
