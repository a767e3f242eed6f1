---------------------------- MODULE VictimKiller ----------------------------
(***************************************************************************)
(* Killing the maintenance sessions our operation blocks that have others  *)
(* queued behind them. A poll scans the snapshot under the lock, reserves  *)
(* the KILLs, then issues them one by one with the lock released; a call   *)
(* outlives the statement it was made for, so a new pump may scan while an *)
(* old call still waits for its KILL. The yield timer reads the episodes.  *)
(*                                                                         *)
(* A tick is one blocking poll interval.                                   *)
(***************************************************************************)
EXTENDS Recidivism, Sequences, SequencesExt

CONSTANTS
  Sid,              \* session ids; the server reuses them
  Identity,         \* offenders: an Agent job step, or a login/host/program
  Nobody,
  After,            \* the dwell of the policy
  Grace,            \* killGraceWindow
  KillTimeout,      \* killTimeout
  BlockingTimeout,  \* the debounce of the yield reaction
  MaxLost           \* bound: lost answers counted in a bucket

ASSUME VictimAssumption ==
  /\ {After, Grace, KillTimeout, BlockingTimeout} \subseteq Nat \ {0}
  /\ After = Dwell /\ Nobody \notin Identity /\ IsFiniteSet(Sid)
  /\ KillTimeout < Window /\ MaxLost \in Nat

VARIABLES
  session,    \* the sessions we block: whose, and whether every condition holds
  armed,
  bucket,     \* recidivism.buckets
  episode,    \* the per-SPID state, and the age of its kill
  call,       \* the consider call of each pump
  pump,       \* of the running statement: off | on
  polled,     \* the pump has polled in this tick
  missed,     \* its last poll failed
  since,      \* ticks since the supervisor saw a session that counts, or Off
  landed,     \* KILLs of this bucket that reached the server (history)
  lost,       \* those of them that were refunded all the same (history)
  stale,      \* refunds of KILLs that were booked in an earlier bucket (history)
  seenLast,   \* identities eligible on the last poll (history)
  gap,        \* ticks since the last poll (history)
  witnessed,  \* eligible time between consecutive polls (history)
  struck      \* ticks since this session's KILL was reserved, or Off (history)

killer  == <<armed, bucket, episode, call>>
history == <<landed, lost, stale, seenLast, gap, witnessed, struck>>
pacing  == <<pump, polled, missed>>
vars    == <<session, killer, pacing, since, history>>

Pump == {"current", "straggler"}   \* bound: one call left over from an earlier statement
NoSession == [who |-> Nobody, eligible |-> FALSE]
NoEpisode == [state |-> "none", age |-> 0]
NoCall    == [stage |-> "idle", targets |-> <<>>, blocked |-> {}, waited |-> 0]

(* What a reserved KILL remembers: linked, ours and same say whether the     *)
(* episode, the bucket and the session it was decided for are still there.   *)
Target == [sid : Sid, who : Identity, linked : BOOLEAN, ours : BOOLEAN, same : BOOLEAN]

Init ==
  /\ session = [s \in Sid |-> NoSession]
  /\ armed = TRUE
  /\ bucket = [i \in Identity |-> NoBucket]
  /\ episode = [s \in Sid |-> NoEpisode]
  /\ call = [p \in Pump |-> NoCall]
  /\ pump = "off" /\ polled = FALSE /\ missed = FALSE /\ since = Off
  /\ landed = [i \in Identity |-> 0] /\ lost = [i \in Identity |-> 0]
  /\ stale = [i \in Identity |-> 0]
  /\ seenLast = {} /\ gap = 0 /\ witnessed = [i \in Identity |-> 0]
  /\ struck = [s \in Sid |-> Off]

Suppressed(s) ==
  /\ armed
  /\ \/ episode[s].state = "dwelling"
     \/ episode[s].state = "killed" /\ episode[s].age < Grace

Retarget(f(_)) ==
  [p \in Pump |-> [call[p] EXCEPT !.targets = [n \in DOMAIN @ |-> f(@[n])]]]

-----------------------------------------------------------------------------
(* The scan, under the lock. *)

Eligible == {s \in Sid : session[s].eligible}
Pruned   == [i \in Identity |-> Prune(bucket[i])]
Debt(i)  == AccrueSince(Pruned[i]).accrued

(* A session whose KILL is due, were the budget not spent. *)
Due(s) == /\ s \in Eligible
          /\ episode[s].state \in {"none", "dwelling"}
          /\ Debt(session[s].who) >= After

Place(order, s) == CHOOSE n \in DOMAIN order : order[n] = s

(* The KILLs of its identity that the scan reserves before it comes to s. *)
SpentBefore(order, s) ==
  Cardinality({t \in Eligible : /\ Due(t) /\ session[t].who = session[s].who
                                /\ Place(order, t) < Place(order, s)})

InBudget(order) == {s \in Eligible :
                      Pruned[session[s].who].kills + SpentBefore(order, s) < MaxKills}
Chosen(order) == {s \in InBudget(order) : Due(s)}

SeenAnyway(order) == Eligible   \* mutant: a capped victim keeps its episode
Seen(order) == InBudget(order)

(* Mutant: an episode ends as soon as its victim no longer qualifies. *)
NoGrace(s) == FALSE
InGrace(s) == episode[s].state = "killed" /\ episode[s].age < Grace

ScannedBucket(order, i) ==
  LET b      == Pruned[i]
      mine   == {s \in Eligible : session[s].who = i}
      banked == IF mine \cap InBudget(order) = {} THEN ForgetMark(b) ELSE AccrueSince(b)
      booked == RecordKills(banked, Cardinality(mine \cap Chosen(order)))
  IN IF mine = {} THEN ForgetMark(b)
     ELSE IF mine \subseteq InBudget(order) THEN booked ELSE Escalate(booked)

ScannedEpisode(order, s) ==
  CASE s \in Chosen(order) -> [state |-> "killed", age |-> 0]
    [] s \in Seen(order) \ Chosen(order) ->
         IF episode[s].state = "none" THEN [state |-> "dwelling", age |-> 0] ELSE episode[s]
    [] OTHER -> IF InGrace(s) THEN episode[s] ELSE NoEpisode

Reserve(s) == [sid |-> s, who |-> session[s].who, linked |-> TRUE, ours |-> TRUE, same |-> TRUE]

PollDue == armed /\ pump # "off" /\ ~polled /\ call["current"].stage = "idle"

Forgotten(i) == Pruned[i] # bucket[i]
Observed(order) == {session[s].who : s \in InBudget(order)}

(* What an earlier call still remembers once the scan is over. *)
Reread(order) ==
  Retarget(LAMBDA t : [t EXCEPT !.linked = @ /\ ScannedEpisode(order, t.sid) # NoEpisode,
                                !.ours = @ /\ ~Forgotten(t.who)])

(* The KILLs are issued in the order of the snapshot. *)
InOrder(order, due) ==
  \A m, n \in DOMAIN due : m < n => Place(order, due[m]) < Place(order, due[n])

Scan(order, due) ==
  /\ bucket' = [i \in Identity |-> ScannedBucket(order, i)]
  /\ episode' = [s \in Sid |-> ScannedEpisode(order, s)]
  /\ call' = [Reread(order) EXCEPT !["current"] =
                [stage   |-> IF due = <<>> THEN "reading" ELSE "chosen",
                 targets |-> [n \in DOMAIN due |-> Reserve(due[n])],
                 blocked |-> {s \in Sid : session[s] # NoSession},
                 waited  |-> 0]]
  /\ landed' = [i \in Identity |-> IF Forgotten(i) THEN 0 ELSE landed[i]]
  /\ lost' = [i \in Identity |-> IF Forgotten(i) THEN 0 ELSE lost[i]]
  /\ stale' = [i \in Identity |-> IF Forgotten(i) THEN 0 ELSE stale[i]]
  /\ witnessed' = [i \in Identity |->
                     IF Forgotten(i) THEN 0
                     ELSE IF i \in Observed(order) \cap seenLast
                     THEN UpTo(witnessed[i] + gap, Dwell) ELSE witnessed[i]]
  /\ seenLast' = Observed(order)
  /\ struck' = [s \in Sid |-> IF s \in Chosen(order) THEN 0 ELSE struck[s]]

Poll ==
  /\ PollDue
  /\ \E order \in SetToSeqs(Eligible) : \E due \in SetToSeqs(Chosen(order)) :
       InOrder(order, due) /\ Scan(order, due)
  /\ polled' = TRUE /\ missed' = FALSE /\ gap' = 0
  /\ UNCHANGED <<session, armed, pump, since>>

-----------------------------------------------------------------------------
(* The KILLs, with the lock released. *)

Live(p) == p = "current"    \* the pump's context dies with its statement
InFlight(p) == Head(call[p].targets)

EndCall(p) == IF Live(p) THEN [call[p] EXCEPT !.stage = "reading", !.targets = <<>>, !.waited = 0]
                         ELSE NoCall

(* The statement ended before the first KILL: every reservation goes back. *)
AbandonKills(p) ==
  LET mine == {call[p].targets[n] : n \in DOMAIN call[p].targets}
      held(s) == \E t \in mine : t.sid = s /\ t.linked
      refund(i) == Cardinality({t \in mine : t.who = i})
  IN /\ call[p].stage = "chosen" /\ ~Live(p)
     /\ episode' = [s \in Sid |-> IF held(s) THEN [state |-> "dwelling", age |-> 0] ELSE episode[s]]
     /\ bucket' = [i \in Identity |->
                     [bucket[i] EXCEPT !.kills = IF @ > refund(i) THEN @ - refund(i) ELSE 0]]
     /\ stale' = [i \in Identity |-> stale[i] +
                    UpTo(Cardinality({t \in mine : t.who = i /\ ~t.ours}), bucket[i].kills)]
     /\ struck' = [s \in Sid |-> IF held(s) /\ \E t \in mine : t.sid = s /\ t.same
                                 THEN Off ELSE struck[s]]
     /\ call' = [call EXCEPT ![p] = NoCall]
     /\ UNCHANGED <<session, armed, pacing, since, landed, lost, seenLast, gap, witnessed>>

StartKills(p) ==
  /\ call[p].stage = "chosen" /\ Live(p)
  /\ call' = [call EXCEPT ![p].stage = "killing"]
  /\ UNCHANGED <<session, armed, bucket, episode, pacing, since, landed, lost, stale, seenLast,
                 gap, witnessed, struck>>

NextKill(p) ==
  call' = [call EXCEPT ![p] = IF Len(call[p].targets) = 1 THEN EndCall(p)
                              ELSE [call[p] EXCEPT !.targets = Tail(@), !.waited = 0]]

Reached(t) == landed' = [landed EXCEPT ![t.who] = IF t.ours THEN @ + 1 ELSE @]

KillLands(p) ==
  /\ call[p].stage = "killing"
  /\ Reached(InFlight(p))
  /\ NextKill(p)
  /\ UNCHANGED <<session, armed, bucket, episode, pacing, since, lost, stale, seenLast, gap,
                 witnessed, struck>>

Withdraw(t) ==
  /\ episode' = [episode EXCEPT ![t.sid] = IF t.linked THEN [state |-> "failed", age |-> 0] ELSE @]
  /\ struck' = [struck EXCEPT ![t.sid] = IF t.linked /\ t.same THEN Off ELSE @]

TimeoutRefunds(p) ==   \* mutant: any error gives the reservation back
  /\ call[p].stage = "killing" /\ call[p].waited = KillTimeout
  /\ Withdraw(InFlight(p)) /\ Reached(InFlight(p))
  /\ bucket' = [bucket EXCEPT ![InFlight(p).who] = UndoKill(@)]
  /\ NextKill(p)
  /\ UNCHANGED <<session, armed, pacing, since, lost, stale, seenLast, gap, witnessed>>

(* The attention was accepted and only the client stopped waiting: no refund. *)
KillTimesOut(p) ==
  /\ call[p].stage = "killing" /\ call[p].waited = KillTimeout
  /\ Withdraw(InFlight(p)) /\ Reached(InFlight(p))
  /\ NextKill(p)
  /\ UNCHANGED <<session, armed, bucket, pacing, since, lost, stale, seenLast, gap, witnessed>>

(* Any other error gives the reservation back.                               *)
Refunded(p) ==
  LET t == InFlight(p)
  IN /\ call[p].stage = "killing"
     /\ Withdraw(t)
     /\ bucket' = [bucket EXCEPT ![t.who] = UndoKill(@)]
     /\ stale' = [stale EXCEPT ![t.who] = IF ~t.ours /\ bucket[t.who].kills > 0 THEN @ + 1 ELSE @]
     /\ NextKill(p)
     /\ UNCHANGED <<session, armed, pacing, since, seenLast, gap, witnessed>>

(* Denied, or no connection to send it on: the KILL never reached the server. *)
KillRejected(p) == Refunded(p) /\ UNCHANGED <<landed, lost>>

(* The connection broke once the KILL was delivered. The error does not tell. *)
KillUnanswered(p) ==
  LET t == InFlight(p)
  IN /\ Refunded(p)
     /\ lost[t.who] < MaxLost
     /\ Reached(t)
     /\ lost' = [lost EXCEPT ![t.who] = IF t.ours THEN @ + 1 ELSE @]

-----------------------------------------------------------------------------
(* The rest of the poll, and the engine around it. *)

(* A call that waits for its KILLs goes on without its statement. *)
Orphaned ==
  [call EXCEPT !["current"] = NoCall,
               !["straggler"] = IF call["current"].stage \in {"chosen", "killing"}
                                THEN [call["current"] EXCEPT !.blocked = {}] ELSE @]

CanEnd == call["current"].stage \in {"chosen", "killing"} => call["straggler"] = NoCall

StatementEnds ==
  /\ pump # "off" /\ CanEnd
  /\ pump' = "off" /\ missed' = FALSE
  /\ call' = Orphaned /\ since' = Off
  /\ UNCHANGED <<session, armed, bucket, episode, polled, landed, lost, stale, seenLast,
                 gap, witnessed, struck>>

Issue ==
  /\ pump = "off" /\ armed
  /\ pump' = "on" /\ polled' = FALSE
  /\ UNCHANGED <<session, killer, missed, since, history>>

(* Bound: two polls in a row do not fail; a channel that stays silent for       *)
(* BlindAfter, well inside the recidivism window, ends the statement.           *)
PollFails ==
  /\ PollDue /\ ~missed
  /\ polled' = TRUE /\ missed' = TRUE
  /\ UNCHANGED <<session, killer, pump, since, history>>

(* Blocking returns, and the supervisor reads the sample. *)
Sample ==
  LET blocked == call["current"].blocked
      counts == \E s \in blocked : ~Suppressed(s)
      timer  == IF ~counts THEN Off ELSE IF since = Off THEN 0 ELSE since
      yields == timer >= BlockingTimeout
  IN /\ call["current"].stage = "reading"
     /\ since' = IF yields THEN Off ELSE timer
     /\ call' = [call EXCEPT !["current"] = NoCall]
     /\ UNCHANGED <<session, armed, bucket, episode, pacing, landed, lost, stale, seenLast,
                    gap, witnessed, struck>>

ResetDebt ==
  /\ bucket' = [i \in Identity |-> NoBucket]
  /\ episode' = [s \in Sid |-> NoEpisode]
  /\ landed' = [i \in Identity |-> 0] /\ lost' = [i \in Identity |-> 0]
  /\ stale' = [i \in Identity |-> 0]
  /\ witnessed' = [i \in Identity |-> 0] /\ seenLast' = {}
  /\ struck' = [s \in Sid |-> Off]

Unlinked(c) ==
  [p \in Pump |-> [c[p] EXCEPT !.targets =
     [n \in DOMAIN @ |-> [@[n] EXCEPT !.linked = FALSE, !.ours = FALSE]]]]

Disarm ==
  /\ armed /\ CanEnd
  /\ armed' = FALSE /\ ResetDebt
  /\ call' = Unlinked(Orphaned)
  /\ pump' = "off" /\ missed' = FALSE /\ since' = Off
  /\ UNCHANGED <<session, polled, gap>>

Arm ==
  /\ ~armed
  /\ armed' = TRUE /\ ResetDebt /\ call' = Unlinked(call)
  /\ UNCHANGED <<session, pacing, since, gap>>

-----------------------------------------------------------------------------
(* Sessions come, go, are replaced under the same id, and change what they do. *)
SessionChanges(s) ==
  \E new \in [who : Identity, eligible : BOOLEAN] \cup {NoSession} :
    LET other == \/ new.who # session[s].who
                 \/ new = NoSession
    IN /\ new # session[s]
       /\ session' = [session EXCEPT ![s] = new]
       /\ call' = Retarget(LAMBDA t : [t EXCEPT !.same = @ /\ ~(other /\ t.sid = s)])
       /\ struck' = [struck EXCEPT ![s] = IF other THEN Off ELSE @]
       /\ UNCHANGED <<armed, bucket, episode, pacing, since, landed, lost, stale,
                      seenLast, gap, witnessed>>

(* Only a KILL takes time; a running statement is polled once a tick. *)
Tick ==
  /\ \A p \in Pump : \/ call[p].stage = "idle"
                     \/ call[p].stage = "killing" /\ call[p].waited < KillTimeout
  /\ pump # "off" => polled
  /\ call' = [p \in Pump |-> IF call[p].stage = "killing" THEN [call[p] EXCEPT !.waited = @ + 1]
                             ELSE call[p]]
  /\ bucket' = [i \in Identity |-> OlderBucket(bucket[i])]
  /\ episode' = [s \in Sid |-> IF episode[s].state = "killed"
                               THEN [episode[s] EXCEPT !.age = UpTo(@ + 1, Grace)] ELSE episode[s]]
  /\ since' = AgeUpTo(since, BlockingTimeout)
  /\ gap' = UpTo(gap + 1, Dwell)
  /\ struck' = [s \in Sid |-> IF struck[s] + 1 = Grace THEN Off ELSE AgeUpTo(struck[s], Grace)]
  /\ polled' = FALSE
  /\ UNCHANGED <<session, armed, pump, missed, landed, lost, stale, seenLast, witnessed>>

Kills(p) == \/ AbandonKills(p) \/ StartKills(p) \/ KillLands(p) \/ KillTimesOut(p)
            \/ KillRejected(p) \/ KillUnanswered(p)

Next ==
  \/ Poll \/ PollFails \/ Sample \/ Tick
  \/ \E p \in Pump : Kills(p)
  \/ StatementEnds \/ Issue \/ Disarm \/ Arm
  \/ \E s \in Sid : SessionChanges(s)

Spec == Init /\ [][Next]_vars

(* The pump's ticker, whose polls do not fail for ever, the bound on a KILL,    *)
(* and the clock.                                                              *)
FairSpec == /\ Spec
            /\ SF_vars(Poll) /\ WF_vars(Sample) /\ WF_vars(Tick)
            /\ \A p \in Pump : WF_vars(Kills(p))

-----------------------------------------------------------------------------
TypeOK ==
  /\ session \in [Sid -> [who : Identity, eligible : BOOLEAN] \cup {NoSession}]
  /\ armed \in BOOLEAN /\ polled \in BOOLEAN /\ missed \in BOOLEAN
  /\ pump \in {"off", "on"} /\ (~armed => pump = "off")
  /\ bucket \in [Identity -> Bucket] /\ \A i \in Identity : bucket[i].kills <= MaxKills
  /\ episode \in [Sid -> [state : {"none", "dwelling", "killed", "failed"}, age : 0..Grace]]
  /\ \A p \in Pump :
       /\ call[p].stage \in {"idle", "chosen", "killing", "reading"}
       /\ call[p].targets \in Seq(Target)
       /\ call[p].stage \in {"chosen", "killing"} <=> call[p].targets # <<>>
       /\ call[p].blocked \subseteq Sid /\ call[p].waited \in 0..KillTimeout
  /\ since \in Off..BlockingTimeout
  /\ landed \in [Identity -> Nat] /\ lost \in [Identity -> Nat] /\ stale \in [Identity -> Nat]
  /\ seenLast \subseteq Identity /\ gap \in 0..Dwell
  /\ witnessed \in [Identity -> 0..Dwell]
  /\ struck \in [Sid -> Off..(Grace - 1)]

(* maxRepeatKills bounds the KILLs that reached the server, not the attempts  *)
(* the client saw succeed: reservations of one scan, KILLs that timed out and *)
(* those still in flight from an earlier statement all count. Two refunds buy *)
(* one more: of a KILL that was delivered and lost its answer with the        *)
(* connection, and of one booked before the bucket was reset. (withdrawKill)  *)
KillBudget == \A i \in Identity : landed[i] <= MaxKills + lost[i] + stale[i]

(* The comment of withdrawKill: the reservation goes back only when the KILL  *)
(* never reached the server, so no offender is killed more than               *)
(* maxRepeatKills times. Does not hold: a connection that breaks after the    *)
(* KILL was delivered refunds it (lost), and a refund that arrives after the  *)
(* reset lands in the next manifest's bucket (stale).                         *)
RateLimit == \A i \in Identity : landed[i] <= MaxKills

(* The debt that justifies a KILL was served under our eyes: it never exceeds *)
(* the time between two consecutive polls that both found the offender        *)
(* eligible, however many sessions it has and in whatever order the snapshot  *)
(* lists them. (accrueSince, forgetMarksExcept)                               *)
DebtWitnessed == \A i \in Identity : bucket[i].accrued <= witnessed[i]

(* A session is not killed again while a KILL that was not withdrawn is       *)
(* within its grace window, whatever the session looks like in between and    *)
(* however many pumps have come and gone. A failed KILL and a new manifest    *)
(* start over. (victimEpisode.killed, the episode sweep)                      *)
NoDoubleKill ==
  [][Poll => \A n \in DOMAIN call'["current"].targets :
               struck[call'["current"].targets[n].sid] = Off]_vars

(* While one statement runs, no victim stays suppressed for ever: it is       *)
(* killed, or its KILL fails, or it stops qualifying, and then it counts.     *)
HushEnds ==
  \A s \in Sid : <>[][~StatementEnds]_vars => []<>(pump = "off" \/ ~Suppressed(s))

=============================================================================
