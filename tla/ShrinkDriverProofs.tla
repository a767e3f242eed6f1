------------------------- MODULE ShrinkDriverProofs -------------------------
(***************************************************************************)
(* A shrink of any files, sizes, steps and budgets: its chunks are paid    *)
(* for by what they gain, the caches are flushed once, and what it reports *)
(* of a file is complete and about that file.                              *)
(***************************************************************************)
EXTENDS ShrinkDriver, TLAPS

States   == {"idle", "running", "ended", "failed"}
InLoop   == {"loop", "issue", "chunk", "relief", "weigh", "backoff"}
InHand   == {"logready", "reuse", "watched"} \cup InLoop
Verdicts == {"none", "nil", "stopped", "blind", "failed"}

Loops == [start : Nat, current : Nat, step : Nat, noProgress : Nat, waited : Nat,
          backoff : Nat \ {0}, maint : BOOLEAN, seen : Nat,
          cause : {"none", "pressure", "blind"}, attempts : Nat]

Results  == [file : File, mb : Nat, target : Nat, noop : BOOLEAN, reason : Reasons]
Blockers == [file : File, fresh : BOOLEAN, transient : BOOLEAN, read : Nat, target : Nat]

ServerTyped ==
  /\ op \in Op /\ used \in Sizes /\ snap \in Sizes /\ size \in Sizes
  /\ statement \in [state : States, target : Nat]
  /\ drain \in BOOLEAN /\ hung \in SUBSET {"blocking", "log"}

PlaceTyped ==
  /\ at \in 1 .. Files + 1 /\ pass \in {"truncate", "chunks"}
  /\ stage \in {"next", "done"} \cup InHand
  /\ stage \in InHand => at \in File
  /\ statement.state # "idle" => stage \in {"watched", "chunk"}

WorkTyped ==
  /\ waits \in Nat /\ flushed \in BOOLEAN /\ flushes \in Nat
  /\ loop \in Loops /\ tail \in [entry : BOOLEAN, maint : BOOLEAN]
  /\ recorded \subseteq Blockers /\ seenMaint \subseteq File
  /\ results \in Seq(Results) /\ verdict \in Verdicts

(* The loop stays between the size it started from and 0, its step between   *)
(* the floor and the file's ceiling, its wait under the longest one.         *)
LoopBounded ==
  /\ loop.current <= loop.start
  /\ MinStep <= loop.step /\ loop.step <= Ceiling
  /\ loop.backoff <= Greatest(Backoff, BackoffMax)

Typed == ServerTyped /\ PlaceTyped /\ WorkTyped /\ LoopBounded

(* A stall is counted only while it leaves the budget something; the flush   *)
(* is over once it was made, or the operation is.                            *)
Budgeted ==
  /\ loop.noProgress < MaxNoProgress
  /\ AttemptsBounded
  /\ flushes <= 1 /\ (flushes = 1 => flushed \/ stage = "done")

(* Every file behind the one in hand has its result; while no error ended    *)
(* the operation, no result falls short without saying why.                  *)
Explained(noop, reason) == reason # "" /\ ~noop
Told(r) == r.mb > r.target => Explained(r.noop, r.reason)
FilesTold == {results[i].file : i \in DOMAIN results}
Short(mb) == mb > final

Reported ==
  /\ op.kind # "log" /\ verdict \in {"none", "nil"} =>
       \A i \in DOMAIN results : Told(results[i])
  /\ op.kind # "log" /\ pass = "chunks" /\ verdict = "none" => FilesTold = 1 .. at - 1
  /\ op.kind # "log" /\ verdict = "nil" => FilesTold = File

(* Where each kind of operation can be; the truncate pass reports nothing.   *)
Passing ==
  /\ stage = "done" <=> verdict # "none"
  /\ pass = "truncate" => op.kind = "tempdb" /\ results = <<>>
  /\ stage \in InLoop => pass = "chunks"
  /\ stage \in {"reuse", "logready"} => op.kind = "log"
  /\ stage = "watched" /\ op.kind = "tempdb" => pass = "truncate"

(* What was seen of maintenance was seen of the file in hand.                *)
Suspected == tail.maint \/ loop.maint

Watchful ==
  /\ stage \in InLoop /\ Suspected => at \in seenMaint
  /\ TransientIsOurs

DriverInv == Typed /\ Budgeted /\ Passing /\ Reported /\ Watchful


----------------------------------------------------------------------------
(* Arithmetic *)

LEMMA Numbers ==
  /\ Files \in Nat /\ Files > 0 /\ MaxNoProgress \in Nat /\ MaxNoProgress > 0
  /\ Backoff \in Nat /\ Backoff > 0 /\ BackoffMax \in Nat /\ BackoffMax > 0
  /\ Keep \in Nat /\ Target \in Nat /\ MinStep \in Nat /\ MinStep > 0
  /\ MaxStep \in Nat /\ MinStep <= MaxStep
  /\ \A f \in File : MaxSize[f] \in Nat /\ GrowTo[f] \in Nat /\ GrowTo[f] <= MaxSize[f]
<1>1. /\ Files \in Nat /\ Files > 0 /\ MaxNoProgress \in Nat /\ MaxNoProgress > 0
      /\ Backoff \in Nat /\ Backoff > 0 /\ BackoffMax \in Nat /\ BackoffMax > 0
      /\ Keep \in Nat /\ Target \in Nat
  BY DriverAssumption
<1>2. /\ MinStep \in Nat /\ MinStep > 0 /\ MaxStep \in Nat /\ MinStep <= MaxStep
  BY CalcAssumption
<1>3. \A f \in File : MaxSize[f] \in Nat /\ GrowTo[f] \in Nat /\ GrowTo[f] <= MaxSize[f]
  BY DriverAssumption DEF File
<1> QED
  BY <1>1, <1>2, <1>3

(* The ceiling of a file is never under the floor.                           *)
LEMMA CeilingTyped ==
  ASSUME NEW n \in Nat
  PROVE  EffectiveMaxStep(n) \in Nat /\ MinStep <= EffectiveMaxStep(n)
<1>1. MaxStepPct \in Nat
  BY CalcAssumption
<1>2. n * MaxStepPct \in Nat
  BY <1>1
<1> DEFINE share == n * MaxStepPct
<1> HIDE DEF share
<1>3. share \in Nat
  BY <1>2 DEF share
<1>4. share \div 100 \in Int
  BY <1>3
<1>5. EffectiveMaxStep(n) =
        Greatest(MinStep, IF MaxStepPct > 0 THEN Least(MaxStep, share \div 100) ELSE MaxStep)
  BY DEF EffectiveMaxStep, share
<1> QED
  BY <1>4, <1>5, Numbers DEF Greatest, Least

(* A clamped step is between the floor and the ceiling.                      *)
LEMMA ClampBounds ==
  ASSUME NEW step \in Int, NEW ceiling \in Nat, MinStep <= ceiling
  PROVE  /\ ClampStep(step, ceiling) \in Nat
         /\ MinStep <= ClampStep(step, ceiling) /\ ClampStep(step, ceiling) <= ceiling
  BY Numbers DEF ClampStep, Least, Greatest

LEMMA InitialStepBounds ==
  ASSUME NEW reclaim \in Int, NEW mb \in Nat
  PROVE  /\ InitialStep(reclaim, mb) \in Nat
         /\ MinStep <= InitialStep(reclaim, mb)
         /\ InitialStep(reclaim, mb) <= EffectiveMaxStep(mb)
<1>1. TargetChunks \in Nat
  BY CalcAssumption
<1>2. TargetChunks > 0 => (reclaim + TargetChunks - 1) \div TargetChunks \in Int
  BY <1>1
<1>3. Tier(reclaim) \in Int
  BY CalcAssumption DEF Tier
<1> QED
  BY <1>1, <1>2, <1>3, CeilingTyped, ClampBounds DEF InitialStep

LEMMA HalvedBounds ==
  ASSUME NEW step \in Nat, NEW ceiling \in Nat, MinStep <= ceiling
  PROVE  /\ HalveStep(step, ceiling) \in Nat
         /\ MinStep <= HalveStep(step, ceiling) /\ HalveStep(step, ceiling) <= ceiling
<1>1. step \div 2 \in Int
  OBVIOUS
<1> QED
  BY <1>1, ClampBounds DEF HalveStep

LEMMA AdjustedBounds ==
  ASSUME NEW step \in Nat, NEW pressed \in BOOLEAN, NEW quick \in BOOLEAN,
         NEW ceiling \in Nat, MinStep <= ceiling
  PROVE  /\ AdjustStep(step, pressed, quick, ceiling) \in Nat
         /\ MinStep <= AdjustStep(step, pressed, quick, ceiling)
         /\ AdjustStep(step, pressed, quick, ceiling) <= ceiling
<1>1. (step * 5) \div 4 \in Int
  OBVIOUS
<1>2. Greatest((step * 5) \div 4, step + 1) \in Int
  BY <1>1 DEF Greatest
<1> DEFINE longer == Greatest((step * 5) \div 4, step + 1)
<1> HIDE DEF longer
<1>3. CASE pressed
  BY <1>3, HalvedBounds DEF AdjustStep
<1>4. CASE ~pressed
  <2>1. AdjustStep(step, pressed, quick, ceiling) = ClampStep(IF quick THEN longer ELSE step, ceiling)
    BY <1>4 DEF AdjustStep, longer
  <2>2. (IF quick THEN longer ELSE step) \in Int
    BY <1>2 DEF longer
  <2> QED
    BY <2>1, <2>2, ClampBounds
<1> QED
  BY <1>3, <1>4

(* What a file is worth is paid for in equal parts.                          *)
LEMMA Paid ==
  ASSUME NEW start \in Nat, NEW before \in Nat, NEW after \in Nat, after < before
  PROVE  (start - before) * MaxNoProgress + MaxNoProgress <= (start - after) * MaxNoProgress
<1> DEFINE a == start - before
           b == before - after - 1
           M == MaxNoProgress
<1>1. a \in Int /\ b \in Nat /\ M \in Nat /\ start - after = a + b + 1
  BY Numbers
<1> HIDE DEF a, b, M
<1>2. (a + b + 1) * M = a * M + b * M + M /\ b * M >= 0
  BY <1>1
<1>3. a * M \in Int /\ b * M \in Int
  BY <1>1
<1>4. (start - after) * M = a * M + b * M + M
  BY <1>1, <1>2
<1>5. a * M + M <= (start - after) * M
  BY <1>1, <1>2, <1>3, <1>4
<1> QED
  BY <1>5 DEF a, M

----------------------------------------------------------------------------
(* Types *)

LEMMA SizesTyped ==
  ASSUME NEW s \in Sizes, NEW f \in File
  PROVE  s[f] \in Nat /\ s[f] <= MaxSize[f]
  BY Numbers DEF Sizes

LEMMA FinalTyped ==
  ASSUME ServerTyped, NEW f \in File
  PROVE  Final(f) \in Nat
  BY SizesTyped, Numbers DEF ServerTyped, Final, Greatest

LEMMA CeilingInLoop ==
  ASSUME WorkTyped
  PROVE  Ceiling \in Nat /\ MinStep <= Ceiling
  BY CeilingTyped DEF WorkTyped, Loops, Ceiling

LEMMA FreshLoop ==
  /\ NoLoop \in Loops /\ NoLoop.current <= NoLoop.start
  /\ MinStep <= NoLoop.step /\ NoLoop.step <= EffectiveMaxStep(NoLoop.start)
  /\ NoLoop.backoff <= Greatest(Backoff, BackoffMax)
  /\ NoLoop.noProgress = 0 /\ NoLoop.attempts = 0 /\ NoLoop.maint = FALSE
  BY CeilingTyped, Numbers DEF NoLoop, Loops, Greatest

(* One file is through, whatever its end.                                    *)
LEMMA FileEndsTyped ==
  ASSUME Typed, at \in File, NEW mb \in Nat, NEW noop \in BOOLEAN, NEW reason \in Reasons,
         NEW v \in Verdicts \ {"none"}, FileEnds(mb, noop, reason, v)
  PROVE  /\ results' \in Seq(Results) /\ verdict' \in Verdicts
         /\ at' \in 1 .. Files + 1 /\ pass' \in {"truncate", "chunks"}
         /\ stage' \in {"next", "done"}
<1>1. Result(mb, noop, reason) \in Results
  <2>1. Final(at) \in Nat
    BY FinalTyped DEF Typed
  <2> QED
    BY <2>1 DEF Result, Results, final
<1>2. results' \in Seq(Results)
  BY <1>1 DEF FileEnds, Typed, WorkTyped
<1> QED
  BY <1>2, Numbers DEF FileEnds, GoOn, End, where, File, Typed, WorkTyped, PlaceTyped, Verdicts

(* A fresh loop starts from the size it was entered with.                    *)
LEMMA EnterLoopTyped ==
  ASSUME Typed, at \in File, NEW mb \in Nat, EnterLoop(mb)
  PROVE  /\ loop' \in Loops /\ LoopBounded'
         /\ loop'.start = mb /\ loop'.current = mb /\ loop'.noProgress = 0
         /\ loop'.attempts = 0 /\ ~loop'.maint
         /\ tail' \in [entry : BOOLEAN, maint : BOOLEAN] /\ ~tail'.maint
<1> DEFINE step == InitialStep(mb - final, mb)
<1>1. final \in Nat
  BY FinalTyped DEF Typed, final
<1>2. step \in Nat /\ MinStep <= step /\ step <= EffectiveMaxStep(mb)
  <2>1. mb - final \in Int
    BY <1>1
  <2> QED
    BY <2>1, InitialStepBounds
<1> HIDE DEF step
<1>3. loop' = [NoLoop EXCEPT !.start = mb, !.current = mb, !.step = step, !.seen = mb]
  BY DEF EnterLoop, step
<1>4. /\ loop' \in Loops /\ loop'.start = mb /\ loop'.current = mb /\ loop'.step = step
      /\ loop'.backoff = Backoff /\ loop'.noProgress = 0 /\ loop'.attempts = 0 /\ ~loop'.maint
  <2>1. loop' = [start |-> mb, current |-> mb, step |-> step, noProgress |-> 0, waited |-> 0,
                 backoff |-> Backoff, maint |-> FALSE, seen |-> mb, cause |-> "none",
                 attempts |-> 0]
    BY <1>3 DEF NoLoop
  <2> QED
    BY <1>2, <2>1, Numbers DEF Loops
<1>5. LoopBounded'
  BY <1>2, <1>4, Numbers DEF LoopBounded, Ceiling, Greatest
<1>6. PICK found \in BOOLEAN : tail' = EntryProbe(found /\ op.identify)
  BY DEF EnterLoop
<1>7. op.identify \in BOOLEAN
  BY DEF Typed, ServerTyped, Op
<1> QED
  BY <1>4, <1>5, <1>6, <1>7 DEF EntryProbe

LEMMA TypeInit == Init => Typed
<1> SUFFICES ASSUME Init PROVE Typed
  OBVIOUS
<1>1. ServerTyped
  BY DEF Init, ServerTyped, Idle, States
<1>2. PlaceTyped
  BY Numbers DEF Init, PlaceTyped, Idle, File
<1>3. WorkTyped
  <2>1. results = <<>> /\ <<>> \in Seq(Results) /\ recorded = {} /\ seenMaint = {}
    BY DEF Init
  <2> QED
    BY <2>1, FreshLoop DEF Init, WorkTyped, NoTail, Verdicts
<1>4. LoopBounded
  BY FreshLoop DEF Init, LoopBounded, Ceiling
<1> QED
  BY <1>1, <1>2, <1>3, <1>4 DEF Typed

(* What is idle between files.                                               *)
LEMMA NextFileTyped == ASSUME Typed, NextFile PROVE Typed'
<1>1. /\ at \in File /\ stage = "next" /\ statement.state = "idle"
      /\ UNCHANGED <<fixed, outside, flushed, recorded, seenMaint, flushes>>
  BY DEF NextFile, Typed, PlaceTyped, File
<1>2. CASE /\ StopRequested /\ End("stopped")
           /\ results' = IF pass = "truncate" THEN <<>> ELSE results
           /\ UNCHANGED <<server, waits, loop, tail>>
  BY <1>1, <1>2 DEF End, Typed, ServerTyped, PlaceTyped, WorkTyped, LoopBounded, Ceiling,
     fixed, outside, server, where, Verdicts, InHand, InLoop
<1>3. ASSUME BeginTruncate PROVE Typed'
  <2>1. used[at] \in Nat
    BY <1>1, SizesTyped DEF Typed, ServerTyped
  <2> QED
    BY <1>1, <1>3, <2>1 DEF BeginTruncate, Begin, Typed, ServerTyped, PlaceTyped, WorkTyped,
       LoopBounded, Ceiling, fixed, outside, where, report, States, InHand, InLoop
<1>4. ASSUME NEW noop \in BOOLEAN, NEW reason \in Reasons, NEW mb \in Nat,
             FileEnds(mb, noop, reason, "nil"), UNCHANGED <<server, waits, loop, tail>>
      PROVE  Typed'
  <2>1. /\ results' \in Seq(Results) /\ verdict' \in Verdicts
        /\ at' \in 1 .. Files + 1 /\ pass' \in {"truncate", "chunks"}
        /\ stage' \in {"next", "done"}
    BY <1>1, <1>4, FileEndsTyped DEF Verdicts
  <2> QED
    BY <1>1, <1>4, <2>1 DEF Typed, ServerTyped, PlaceTyped, WorkTyped,
       LoopBounded, Ceiling, fixed, outside, server, InHand, InLoop
<1>5. CASE NextData
  BY <1>1, <1>3, <1>4, <1>5, SizesTyped DEF NextData, Reasons, Typed, ServerTyped
<1>6. CASE NextTempdb
  <2>1. size[at] \in Nat
    BY <1>1, SizesTyped DEF Typed, ServerTyped
  <2>2. CASE EnterLoop(size[at]) /\ UNCHANGED <<server, waits>>
    BY <1>1, <2>1, <2>2, EnterLoopTyped DEF EnterLoop, Typed, ServerTyped, PlaceTyped, WorkTyped,
       fixed, outside, server, where, report, InHand, InLoop
  <2> QED
    BY <1>3, <1>4, <1>6, <2>1, <2>2 DEF NextTempdb, Reasons
<1>7. CASE NextLog
  BY <1>1, <1>7 DEF NextLog, Typed, ServerTyped, PlaceTyped, WorkTyped, LoopBounded, Ceiling,
     fixed, outside, server, where, report, InHand, InLoop
<1> QED
  BY <1>2, <1>5, <1>6, <1>7 DEF NextFile

LEMMA LastFileTyped == ASSUME Typed, LastFile PROVE Typed'
  BY Numbers DEF LastFile, End, Typed, ServerTyped, PlaceTyped, WorkTyped, LoopBounded, Ceiling,
     fixed, outside, server, where, probe, Verdicts, InHand, InLoop, File

LEMMA LogTyped == ASSUME Typed, PollReuse \/ BeginLog PROVE Typed'
<1>1. at \in File /\ stage \in {"reuse", "logready"} /\ statement.state = "idle"
  BY DEF PollReuse, BeginLog, Typed, PlaceTyped, InHand
<1>2. snap[at] \in Nat /\ final \in Nat
  BY <1>1, SizesTyped, FinalTyped DEF Typed, ServerTyped, final
<1>3. CASE PollReuse
  <2>1. ASSUME FileEnds(snap[at], FALSE, "log not truncatable", "nil")
        PROVE  /\ results' \in Seq(Results) /\ verdict' \in Verdicts
               /\ at' \in 1 .. Files + 1 /\ pass' \in {"truncate", "chunks"}
               /\ stage' \in {"next", "done"}
    BY <1>1, <1>2, <2>1, FileEndsTyped DEF Verdicts, Reasons
  <2>2. waits' \in Nat
    <3>1. waits' = waits \/ waits' = waits + 1
      BY <1>3 DEF PollReuse
    <3> QED
      BY <3>1 DEF Typed, WorkTyped
  <2>3. CASE UNCHANGED <<where, report>> /\ stage' \in {"reuse", "logready"}
    BY <1>1, <1>3, <2>2, <2>3 DEF PollReuse, Typed, ServerTyped, PlaceTyped, WorkTyped, LoopBounded,
       Ceiling, fixed, outside, server, where, report, probe, InHand, InLoop
  <2>4. CASE FileEnds(snap[at], FALSE, "log not truncatable", "nil")
    BY <1>1, <1>3, <2>1, <2>2, <2>4 DEF PollReuse, Typed, ServerTyped, PlaceTyped, WorkTyped,
       LoopBounded, Ceiling, fixed, outside, server, probe, InHand, InLoop
  <2> QED
    BY <1>1, <1>3, <2>3, <2>4 DEF PollReuse
<1>4. CASE BeginLog
  BY <1>1, <1>2, <1>4 DEF BeginLog, Begin, Typed, ServerTyped, PlaceTyped, WorkTyped, LoopBounded,
     Ceiling, fixed, outside, where, report, probe, States, InHand, InLoop
<1> QED
  BY <1>3, <1>4

(* After a statement that was watched, whatever ended it.                    *)
LEMMA AfterTyped ==
  ASSUME Typed, stage = "watched", NEW o \in Outcome, After(o),
         UNCHANGED <<fixed, outside, flushed, recorded, seenMaint, flushes>>
  PROVE  Typed'
<1>1. at \in File /\ size[at] \in Nat
  BY SizesTyped DEF Typed, PlaceTyped, ServerTyped, InHand
<1>2. statement' = Idle /\ waits' = 0 /\ UNCHANGED size
  BY DEF After
<1>3. ASSUME NEW reason \in Reasons, NEW v \in Verdicts \ {"none"},
             FileEnds(size[at], FALSE, reason, v), UNCHANGED <<loop, tail>>
      PROVE  Typed'
  <2>1. /\ results' \in Seq(Results) /\ verdict' \in Verdicts
        /\ at' \in 1 .. Files + 1 /\ pass' \in {"truncate", "chunks"}
        /\ stage' \in {"next", "done"}
    BY <1>1, <1>3, FileEndsTyped
  <2> QED
    BY <1>2, <1>3, <2>1 DEF Typed, ServerTyped, PlaceTyped, WorkTyped, LoopBounded, Ceiling,
       fixed, outside, Idle, States, InHand, InLoop
<1>4. CASE AfterData(o)
  <2>1. CASE EnterLoop(size[at])
    BY <1>1, <1>2, <2>1, EnterLoopTyped DEF EnterLoop, Typed, ServerTyped, PlaceTyped, WorkTyped,
       fixed, outside, where, report, Idle, States, InHand, InLoop
  <2>2. CASE o \in {"stopped", "blind"}
    BY <1>3, <1>4, <2>2 DEF AfterData, Reasons, Verdicts
  <2>3. CASE o \notin {"stopped", "blind"} /\ size[at] <= final
    BY <1>3, <1>4, <2>3 DEF AfterData, Reasons, Verdicts
  <2> QED
    BY <1>4, <2>1, <2>2, <2>3 DEF AfterData
<1>5. CASE AfterTempdb(o)
  <2>1. results' \in Seq(Results) /\ UNCHANGED <<loop, tail>>
    BY <1>5 DEF AfterTempdb, Typed, WorkTyped
  <2>2. /\ at' \in 1 .. Files + 1 /\ pass' = pass /\ stage' \in {"next", "done"}
        /\ verdict' \in Verdicts
    BY <1>1, <1>5, Numbers DEF AfterTempdb, End, GoOn, where, Typed, PlaceTyped, WorkTyped, File,
       Verdicts
  <2> QED
    BY <1>2, <2>1, <2>2 DEF Typed, ServerTyped, PlaceTyped, WorkTyped, LoopBounded, Ceiling,
       fixed, outside, Idle, States, InHand, InLoop
<1>6. CASE AfterLog(o)
  BY <1>3, <1>6 DEF AfterLog, Outcome, Reasons, Verdicts
<1> QED
  BY <1>4, <1>5, <1>6 DEF After

LEMMA WatchedTyped == ASSUME Typed, Watched PROVE Typed'
<1>1. /\ stage = "watched" /\ at \in File
      /\ UNCHANGED <<fixed, outside, flushed, recorded, seenMaint, flushes>>
  BY DEF Watched, Typed, PlaceTyped, InHand
<1>2. ASSUME NEW o \in Outcome, After(o) PROVE Typed'
  BY <1>1, <1>2, AfterTyped
<1>3. CASE WatchedReturns
  <2>1. CASE /\ statement' = Idle /\ FileEnds(0, FALSE, "", "failed")
             /\ UNCHANGED <<size, waits, loop, tail>>
    <3>1. /\ results' \in Seq(Results) /\ verdict' \in Verdicts
          /\ at' \in 1 .. Files + 1 /\ pass' \in {"truncate", "chunks"}
          /\ stage' \in {"next", "done"}
      BY <1>1, <2>1, FileEndsTyped DEF Reasons, Verdicts
    <3> QED
      BY <1>1, <2>1, <3>1 DEF Typed, ServerTyped, PlaceTyped, WorkTyped, LoopBounded, Ceiling,
         fixed, outside, Idle, States, InHand, InLoop
  <2> QED
    BY <1>2, <1>3, <2>1 DEF WatchedReturns, Outcome
<1>4. CASE WatchedSample
  <2>1. CASE waits' \in Nat /\ UNCHANGED <<server, where, stage, loop, tail, report>>
    BY <1>1, <2>1 DEF Typed, ServerTyped, PlaceTyped, WorkTyped, LoopBounded, Ceiling,
       fixed, outside, server, where, report, InHand, InLoop
  <2>2. waits \in Nat /\ waits + 1 \in Nat
    BY DEF Typed, WorkTyped
  <2> QED
    BY <1>2, <1>4, <2>1, <2>2 DEF WatchedSample, Outcome
<1>5. CASE WatchedBlind \/ WatchedStop
  BY <1>2, <1>5 DEF WatchedBlind, WatchedStop, Outcome
<1> QED
  BY <1>3, <1>4, <1>5 DEF Watched

(* The loop returns with what it reports of the file.                        *)
LEMMA LeaveTyped ==
  ASSUME Typed, at \in File, statement.state = "idle", NEW mb \in Nat, NEW reason \in Reasons,
         NEW v \in Verdicts \ {"none"}, Leave(mb, reason, v), UNCHANGED <<fixed, outside>>
  PROVE  Typed'
<1>1. /\ results' \in Seq(Results) /\ verdict' \in Verdicts
      /\ at' \in 1 .. Files + 1 /\ pass' \in {"truncate", "chunks"}
      /\ stage' \in {"next", "done"}
  BY FileEndsTyped DEF Leave
<1>2. loop' = NoLoop /\ UNCHANGED <<server, waits, flushed, tail, seenMaint, flushes>>
  BY DEF Leave
<1>3. Blocker(FALSE) \in Blockers
  BY <1>2, FinalTyped DEF Blocker, Blockers, Typed, WorkTyped, Loops, final
<1>4. recorded' \subseteq Blockers
  BY <1>3 DEF Leave, Typed, WorkTyped
<1> QED
  BY <1>1, <1>2, <1>4, FreshLoop DEF Typed, ServerTyped, PlaceTyped, WorkTyped, LoopBounded,
     Ceiling, fixed, outside, server, InHand, InLoop

LEMMA LoopTyped == ASSUME Typed, LoopTop \/ IssueChunk \/ Waited PROVE Typed'
<1>1. at \in File /\ stage \in InLoop /\ stage # "chunk" /\ statement.state = "idle"
  BY DEF LoopTop, IssueChunk, Waited, Typed, PlaceTyped, InHand, InLoop
<1>2. /\ loop.current \in Nat /\ loop.step \in Nat /\ loop.attempts \in Nat
      /\ loop.waited \in Nat /\ loop.backoff \in Nat \ {0}
  BY DEF Typed, WorkTyped, Loops
<1>3. CASE LoopTop
  <2>1. CASE stage' = "issue" /\ UNCHANGED <<server, where, waits, flushed, probe, loop, report,
                                            flushes>>
    BY <1>1, <1>3, <2>1 DEF LoopTop, Typed, ServerTyped, PlaceTyped, WorkTyped, LoopBounded,
       Ceiling, fixed, outside, server, where, probe, report, InHand, InLoop
  <2> QED
    BY <1>1, <1>2, <1>3, <2>1, LeaveTyped DEF LoopTop, Reasons, Verdicts
<1>4. CASE IssueChunk
  <2>1. final \in Nat
    BY <1>1, FinalTyped DEF Typed, final
  <2>2. NextTarget(loop.current, loop.step, final) \in Nat
    BY <1>2, <2>1 DEF NextTarget, Greatest
  <2>3. loop' \in Loops /\ LoopBounded'
    <3>1. loop' = [loop EXCEPT !.attempts = @ + 1] /\ loop \in Loops /\ LoopBounded
      BY <1>4 DEF IssueChunk, Typed, WorkTyped
    <3>2. loop.attempts + 1 \in Nat
      BY <1>2
    <3>3. loop' \in Loops
      BY <3>1, <3>2 DEF Loops
    <3>4. loop'.start = loop.start /\ loop'.current = loop.current /\ loop'.step = loop.step
          /\ loop'.backoff = loop.backoff
      BY <3>1 DEF Loops
    <3> QED
      BY <3>1, <3>3, <3>4 DEF LoopBounded, Ceiling
  <2> QED
    BY <1>1, <1>4, <2>2, <2>3 DEF IssueChunk, Begin, Typed, ServerTyped, PlaceTyped, WorkTyped,
       fixed, outside, where, probe, report, States, InHand, InLoop
<1>5. CASE Waited
  <2>1. Least(2 * loop.backoff, BackoffMax) \in Nat \ {0}
        /\ Least(2 * loop.backoff, BackoffMax) <= Greatest(Backoff, BackoffMax)
    BY <1>2, Numbers DEF Least, Greatest
  <2>2. loop' \in Loops /\ LoopBounded'
    <3> DEFINE next == Least(2 * loop.backoff, BackoffMax)
    <3> HIDE DEF next
    <3>1. loop' = [loop EXCEPT !.waited = @ + loop.backoff, !.backoff = next]
      BY <1>5 DEF Waited, next
    <3>2. next \in Nat \ {0} /\ next <= Greatest(Backoff, BackoffMax)
      BY <2>1 DEF next
    <3>3. loop \in Loops /\ loop.waited + loop.backoff \in Nat
      BY <1>2 DEF Typed, WorkTyped
    <3>4. loop' \in Loops /\ loop'.start = loop.start /\ loop'.current = loop.current
          /\ loop'.step = loop.step /\ loop'.backoff = next
      BY <3>1, <3>2, <3>3 DEF Loops
    <3> QED
      BY <3>2, <3>4 DEF LoopBounded, Ceiling, Typed
  <2> QED
    BY <1>1, <1>5, <2>2 DEF Waited, Typed, ServerTyped, PlaceTyped, WorkTyped,
       fixed, outside, server, where, probe, report, InHand, InLoop
<1> QED
  BY <1>3, <1>4, <1>5

(* A chunk is over: the loop's locals, given what became of its step.        *)
LEMMA ChunkEndsTyped ==
  ASSUME Typed, stage = "chunk", NEW l \in Loops, ChunkEnds(l),
         l.current <= l.start, MinStep <= l.step, l.step <= EffectiveMaxStep(l.start),
         l.backoff <= Greatest(Backoff, BackoffMax), stage' \in {"weigh", "relief"},
         UNCHANGED <<fixed, size, outside, where, waits, flushed, tail, recorded, report, flushes>>
  PROVE  Typed'
<1>1. at \in File
  BY DEF Typed, PlaceTyped, InHand, InLoop
<1>2. PICK maint \in BOOLEAN :
        /\ loop' = [l EXCEPT !.maint = @ \/ maint]
        /\ seenMaint' = IF maint THEN seenMaint \cup {at} ELSE seenMaint
  BY DEF ChunkEnds
<1>3. loop' \in Loops /\ seenMaint' \subseteq File
  BY <1>1, <1>2 DEF Loops, Typed, WorkTyped
<1>4. LoopBounded'
  BY <1>2 DEF Loops, LoopBounded, Ceiling
<1> QED
  BY <1>1, <1>3, <1>4 DEF ChunkEnds, Idle, Typed, ServerTyped, PlaceTyped, WorkTyped,
     fixed, outside, where, report, States, InHand, InLoop

LEMMA ChunkTyped == ASSUME Typed, Chunk PROVE Typed'
<1>1. /\ stage = "chunk" /\ at \in File
      /\ UNCHANGED <<fixed, size, outside, where, waits, flushed, tail, recorded, report, flushes>>
  BY DEF Chunk, Typed, PlaceTyped, InHand, InLoop
<1>2. /\ loop \in Loops /\ loop.current \in Nat /\ loop.step \in Nat /\ size[at] \in Nat
      /\ Ceiling \in Nat /\ MinStep <= Ceiling
  BY <1>1, SizesTyped, CeilingInLoop DEF Typed, ServerTyped, WorkTyped, Loops
<1>3. CASE ChunkFailed
  <2> DEFINE h == HalveStep(loop.step, Ceiling)
             l == [loop EXCEPT !.step = h, !.seen = loop.current, !.cause = "none"]
  <2>1. h \in Nat /\ MinStep <= h /\ h <= Ceiling
    BY <1>2, HalvedBounds
  <2>2. ChunkEnds(l) /\ stage' = "weigh"
    BY <1>3 DEF ChunkFailed
  <2> HIDE DEF h
  <2>3. /\ l \in Loops /\ l.start = loop.start /\ l.current = loop.current /\ l.step = h
        /\ l.backoff = loop.backoff
    BY <1>2, <2>1 DEF Loops
  <2> HIDE DEF l
  <2> QED
    BY <1>1, <2>1, <2>2, <2>3, ChunkEndsTyped DEF Typed, LoopBounded, Ceiling
<1>4. ASSUME NEW cause \in {"none", "pressure", "blind"}, stage' \in {"weigh", "relief"},
             ChunkEnds([loop EXCEPT !.seen = size[at], !.cause = cause])
      PROVE  Typed'
  <2> DEFINE l == [loop EXCEPT !.seen = size[at], !.cause = cause]
  <2>1. /\ l \in Loops /\ l.start = loop.start /\ l.current = loop.current /\ l.step = loop.step
        /\ l.backoff = loop.backoff
    BY <1>2 DEF Loops
  <2>2. ChunkEnds(l)
    BY <1>4
  <2> HIDE DEF l
  <2> QED
    BY <1>1, <1>4, <2>1, <2>2, ChunkEndsTyped DEF Typed, LoopBounded, Ceiling
<1>5. CASE ChunkDone
  BY <1>4, <1>5 DEF ChunkDone
<1>6. CASE ChunkStopped
  BY <1>4, <1>6 DEF ChunkStopped
<1> QED
  BY <1>3, <1>5, <1>6 DEF Chunk

LEMMA ReliefTyped == ASSUME Typed, Relief PROVE Typed'
<1>1. /\ stage = "relief" /\ at \in File /\ statement.state = "idle" /\ loop.current \in Nat
      /\ UNCHANGED <<fixed, outside>>
  BY DEF Relief, Typed, PlaceTyped, WorkTyped, Loops, InHand, InLoop
<1>2. CASE Relieved
  BY <1>1, <1>2 DEF Relieved, Typed, ServerTyped, PlaceTyped, WorkTyped, LoopBounded, Ceiling,
     fixed, outside, server, where, probe, report, InHand, InLoop
<1>3. CASE ReliefStopped
  BY <1>1, <1>3, LeaveTyped DEF ReliefStopped, Reasons, Verdicts
<1>4. CASE ReliefTimesOut
  BY <1>1, <1>4, LeaveTyped DEF ReliefTimesOut, Reasons, Verdicts
<1>5. CASE ReliefBlind
  BY <1>1, <1>5, LeaveTyped DEF ReliefBlind, Reasons, Verdicts
<1> QED
  BY <1>2, <1>3, <1>4, <1>5 DEF Relief

LEMMA WeighTyped == ASSUME Typed, Weigh PROVE Typed'
<1>1. /\ stage = "weigh" /\ at \in File /\ statement.state = "idle"
      /\ UNCHANGED <<fixed, server, outside, waits, seenMaint>>
  BY DEF Weigh, Typed, PlaceTyped, InHand, InLoop
<1>2. /\ loop \in Loops /\ loop.current \in Nat /\ loop.seen \in Nat /\ loop.step \in Nat
      /\ loop.noProgress \in Nat /\ loop.maint \in BOOLEAN
      /\ tail \in [entry : BOOLEAN, maint : BOOLEAN] /\ flushes \in Nat
      /\ Ceiling \in Nat /\ MinStep <= Ceiling
  BY CeilingInLoop DEF Typed, WorkTyped, Loops
<1>3. ASSUME NEW reason \in Reasons, NEW v \in Verdicts \ {"none"},
             FileEnds(loop.current, FALSE, reason, v)
      PROVE  /\ results' \in Seq(Results) /\ verdict' \in Verdicts
             /\ at' \in 1 .. Files + 1 /\ pass' \in {"truncate", "chunks"}
             /\ stage' \in {"next", "done"}
  BY <1>1, <1>2, <1>3, FileEndsTyped
<1>4. CASE Progress
  <2>1. PICK pressed \in BOOLEAN, quick \in BOOLEAN :
          loop' = [loop EXCEPT !.noProgress = 0, !.backoff = Backoff, !.waited = 0,
                   !.current = loop.seen,
                   !.step = AdjustStep(@, loop.cause # "none" \/ pressed, quick, Ceiling)]
    BY <1>4 DEF Progress
  <2> DEFINE a == AdjustStep(loop.step, loop.cause # "none" \/ pressed, quick, Ceiling)
  <2>2. a \in Nat /\ MinStep <= a /\ a <= Ceiling
    BY <1>2, AdjustedBounds
  <2> HIDE DEF a
  <2>3. loop' = [loop EXCEPT !.noProgress = 0, !.backoff = Backoff, !.waited = 0,
                 !.current = loop.seen, !.step = a]
    BY <2>1 DEF a
  <2>4. /\ loop' \in Loops /\ loop'.start = loop.start /\ loop'.current = loop.seen
        /\ loop'.step = a /\ loop'.backoff = Backoff
    <3>1. Backoff \in Nat \ {0}
      BY Numbers
    <3> QED
      BY <1>2, <2>2, <2>3, <3>1 DEF Loops
  <2>5. loop.seen < loop.current /\ loop.current <= loop.start /\ loop.start \in Nat
    BY <1>4 DEF Progress, Typed, WorkTyped, Loops, LoopBounded
  <2>6. LoopBounded'
    BY <1>2, <2>2, <2>4, <2>5, Numbers DEF LoopBounded, Ceiling, Greatest
  <2> QED
    BY <1>1, <1>4, <2>4, <2>6 DEF Progress, Typed, ServerTyped, PlaceTyped, WorkTyped,
       fixed, outside, server, where, report, InHand, InLoop
<1>5. CASE Flush
  <2>1. flushes' \in Nat /\ UNCHANGED <<tail, recorded>>
    <3>1. flushes' = flushes + 1 /\ UNCHANGED <<tail, recorded>>
      BY <1>5 DEF Flush
    <3> QED
      BY <1>2, <3>1
  <2>2. CASE /\ flushed' = TRUE /\ stage' = "loop" /\ loop' = [loop EXCEPT !.noProgress = 0]
             /\ UNCHANGED <<where, report>>
    <3>1. loop' \in Loops /\ LoopBounded'
      BY <1>2, <2>2 DEF Loops, LoopBounded, Ceiling, Typed
    <3> QED
      BY <1>1, <2>1, <2>2, <3>1 DEF Typed, ServerTyped, PlaceTyped, WorkTyped,
         fixed, outside, server, where, report, InHand, InLoop
  <2>3. CASE FileEnds(loop.current, FALSE, "", "failed") /\ loop' = NoLoop /\ UNCHANGED flushed
    <3>1. /\ results' \in Seq(Results) /\ verdict' \in Verdicts
          /\ at' \in 1 .. Files + 1 /\ pass' \in {"truncate", "chunks"}
          /\ stage' \in {"next", "done"}
      BY <1>3, <2>3 DEF Reasons, Verdicts
    <3> QED
      BY <1>1, <2>1, <2>3, <3>1, FreshLoop DEF Typed, ServerTyped, PlaceTyped, WorkTyped,
         LoopBounded, Ceiling, fixed, outside, server, InHand, InLoop
  <2> QED
    BY <1>5, <2>2, <2>3 DEF Flush
<1>6. CASE GiveUp
  <2>1. tail' = [entry |-> FALSE, maint |-> tail.maint \/ loop.maint]
    BY <1>6 DEF GiveUp
  <2>2. /\ results' \in Seq(Results) /\ verdict' \in Verdicts
        /\ at' \in 1 .. Files + 1 /\ pass' \in {"truncate", "chunks"}
        /\ stage' \in {"next", "done"}
    <3>1. GiveUpReason \in Reasons
      BY DEF GiveUpReason, Reasons
    <3> QED
      BY <1>3, <1>6, <3>1 DEF GiveUp, Verdicts
  <2>3. Blocker(TRUE) \in Blockers
    BY <1>1, <1>2, <2>1, FinalTyped DEF Blocker, Blockers, Typed, final
  <2>4. recorded' \subseteq Blockers /\ loop' = NoLoop /\ UNCHANGED <<flushed, flushes>>
    BY <1>6, <2>3 DEF GiveUp, Typed, WorkTyped
  <2> QED
    BY <1>1, <1>2, <2>1, <2>2, <2>4, FreshLoop DEF Typed, ServerTyped, PlaceTyped, WorkTyped,
       LoopBounded, Ceiling, fixed, outside, server, InHand, InLoop
<1>7. CASE BackOff
  <2>1. loop' \in Loops /\ LoopBounded'
    BY <1>2, <1>7 DEF BackOff, Stalls, Loops, LoopBounded, Ceiling, Typed
  <2>2. tail' \in [entry : BOOLEAN, maint : BOOLEAN]
    BY <1>2, <1>7 DEF BackOff
  <2> QED
    BY <1>1, <1>7, <2>1, <2>2 DEF BackOff, Typed, ServerTyped, PlaceTyped, WorkTyped,
       fixed, outside, server, where, report, InHand, InLoop
<1> QED
  BY <1>4, <1>5, <1>6, <1>7 DEF Weigh

LEMMA FailsTyped == ASSUME Typed, Fails PROVE Typed'
<1>1. at \in File /\ stage \in InHand
  BY DEF Fails, Typed, PlaceTyped, InHand, InLoop
<1>2. Blocker(FALSE) \in Blockers
  BY <1>1, FinalTyped DEF Fails, Blocker, Blockers, Typed, WorkTyped, Loops, final
<1>3. recorded' \subseteq Blockers
  BY <1>2 DEF Fails, Typed, WorkTyped
<1> QED
  BY <1>1, <1>3, FreshLoop DEF Fails, End, Idle, Typed, ServerTyped, PlaceTyped, WorkTyped,
     LoopBounded, Ceiling, fixed, outside, where, Verdicts, States, InHand, InLoop

(* The server moves and grows files within their bounds.                     *)
LEMMA EnvironmentTyped == ASSUME Typed, Environment PROVE Typed'
<1>1. UNCHANGED <<fixed, where, stage, waits, loop, flushed, probe, report, flushes>>
  BY DEF Environment, Moves, Answers, Grows, AskStop, Hang, server, outside
<1>2. ServerTyped'
  <2>1. ASSUME NEW mb \in Nat, at \in File, mb <= MaxSize[at], size' = [size EXCEPT ![at] = mb]
        PROVE  size' \in Sizes
    <3> DEFINE U == UNION {0 .. MaxSize[f] : f \in File}
    <3>1. size \in [File -> U] /\ \A f \in File : size[f] <= MaxSize[f]
      BY DEF Sizes, Typed, ServerTyped
    <3>2. mb \in U
      BY <2>1, Numbers
    <3> HIDE DEF U
    <3>3. size' \in [File -> U] /\ \A f \in File : size'[f] <= MaxSize[f]
      BY <2>1, <3>1, <3>2
    <3> QED
      BY <3>3 DEF Sizes, U
  <2>2. CASE Moves
    <3>1. at \in File /\ size[at] \in Nat /\ size[at] <= MaxSize[at] /\ statement.target \in Nat
      BY <2>2, SizesTyped DEF Moves, Typed, ServerTyped, PlaceTyped, InHand, InLoop
    <3>2. MaxSize[at] \in Nat
      BY <3>1, Numbers
    <3>3. PICK mb \in statement.target .. size[at] - 1 : size' = [size EXCEPT ![at] = mb]
      BY <2>2 DEF Moves
    <3>4. mb \in Nat /\ mb <= MaxSize[at]
      BY <3>1, <3>2
    <3>5. size' \in Sizes
      BY <2>1, <3>1, <3>3, <3>4
    <3> QED
      BY <2>2, <3>5 DEF Moves, fixed, outside, Typed, ServerTyped
  <2>3. CASE Grows
    <3>1. at \in File /\ size[at] \in Nat /\ size[at] < GrowTo[at] /\ GrowTo[at] <= MaxSize[at]
          /\ GrowTo[at] \in Nat /\ MaxSize[at] \in Nat
      BY <2>3, SizesTyped, Numbers DEF Grows, Typed, ServerTyped
    <3>2. size' \in Sizes
      <4>1. size' = [size EXCEPT ![at] = size[at] + 1]
        BY <2>3 DEF Grows
      <4>2. size[at] + 1 \in Nat /\ size[at] + 1 <= MaxSize[at]
        BY <3>1
      <4> QED
        BY <2>1, <3>1, <4>1, <4>2
    <3> QED
      BY <2>3, <3>2 DEF Grows, fixed, outside, Typed, ServerTyped
  <2>4. CASE Answers
    BY <2>4 DEF Answers, fixed, outside, Typed, ServerTyped, States
  <2>5. CASE AskStop \/ Hang
    BY <2>5 DEF AskStop, Hang, fixed, server, Typed, ServerTyped
  <2> QED
    BY <2>2, <2>3, <2>4, <2>5 DEF Environment
<1>3. statement'.state # "idle" => statement.state # "idle"
  BY DEF Environment, Moves, Answers, Grows, AskStop, Hang, server
<1> QED
  BY <1>1, <1>2, <1>3 DEF Typed, PlaceTyped, WorkTyped, LoopBounded, Ceiling, where, probe, report

LEMMA TypeStep == Typed /\ [Next]_vars => Typed'
<1> SUFFICES ASSUME Typed, [Next]_vars PROVE Typed'
  OBVIOUS
<1>1. CASE Driver
  BY <1>1, NextFileTyped, LastFileTyped, LogTyped, WatchedTyped, LoopTyped, ChunkTyped,
     ReliefTyped, WeighTyped, FailsTyped DEF Driver
<1>2. CASE UNCHANGED vars
  BY <1>2 DEF vars, Typed, ServerTyped, PlaceTyped, WorkTyped, LoopBounded, Ceiling,
     fixed, server, outside, where, probe, report
<1> QED
  BY <1>1, <1>2, EnvironmentTyped DEF Next

----------------------------------------------------------------------------
(* The budget *)

(* What the loop has spent, what its gain has paid for.                      *)
Account == <<loop.start, loop.current, loop.noProgress, loop.attempts>>
OnChunk == {"chunk", "relief", "weigh"}

LEMMA BudgetInit == Init => Budgeted
  BY FreshLoop, Numbers DEF Init, Budgeted, AttemptsBounded

LEMMA SameAccount ==
  ASSUME Typed, Budgeted, UNCHANGED <<Account, flushed, flushes>>, stage # "done",
         stage' \in InLoop => stage \in InLoop, stage \in OnChunk => stage' \in OnChunk
                                                  \/ stage' \notin InLoop
  PROVE  Budgeted'
<1>1. /\ loop'.start = loop.start /\ loop'.current = loop.current
      /\ loop'.noProgress = loop.noProgress /\ loop'.attempts = loop.attempts
      /\ flushed' = flushed /\ flushes' = flushes
  BY DEF Account
<1>2. /\ loop.start \in Nat /\ loop.current \in Nat /\ loop.noProgress \in Nat
      /\ loop.attempts \in Nat /\ MaxNoProgress \in Nat
  BY Numbers DEF Typed, WorkTyped, Loops
<1> DEFINE gained == (loop.start - loop.current) * MaxNoProgress
           paid   == gained + loop.noProgress + (IF flushed THEN MaxNoProgress ELSE 0)
<1>3. gained \in Int
  BY <1>2
<1> HIDE DEF gained
<1>4. paid \in Int
  BY <1>2, <1>3
<1>5. /\ stage \in InLoop => loop.attempts <= paid + IF stage \in OnChunk THEN 1 ELSE 0
      /\ AttemptsBounded' <=>
           (stage' \in InLoop => loop.attempts <= paid + IF stage' \in OnChunk THEN 1 ELSE 0)
  BY <1>1 DEF Budgeted, AttemptsBounded, InLoop, OnChunk, gained
<1> HIDE DEF paid
<1>6. AttemptsBounded'
  BY <1>2, <1>4, <1>5
<1> QED
  BY <1>1, <1>6 DEF Budgeted

LEMMA LoopOver ==
  ASSUME Budgeted, loop' \in {loop, NoLoop}, UNCHANGED <<flushed, flushes>>, stage # "done",
         stage' \notin InLoop
  PROVE  Budgeted'
  BY FreshLoop, Numbers DEF Budgeted, AttemptsBounded, InLoop

LEMMA LoopEntered ==
  ASSUME Typed, Budgeted, at \in File, NEW mb \in Nat, EnterLoop(mb), UNCHANGED <<flushed, flushes>>,
         stage # "done"
  PROVE  Budgeted'
<1>1. /\ loop'.start - loop'.current = 0 /\ loop'.noProgress = 0 /\ loop'.attempts = 0
  BY EnterLoopTyped
<1>2. 0 * MaxNoProgress = 0
  BY Numbers
<1>3. AttemptsBounded'
  BY <1>1, <1>2, Numbers DEF AttemptsBounded
<1> QED
  BY <1>1, <1>3, Numbers DEF Budgeted

LEMMA FileEndsLeaves ==
  ASSUME NEW mb, NEW noop, NEW reason, NEW v, FileEnds(mb, noop, reason, v)
  PROVE  stage' \notin InLoop
  BY DEF FileEnds, GoOn, End, InLoop

LEMMA BudgetWeigh == ASSUME Typed, Budgeted, Weigh PROVE Budgeted'
<1>1. /\ loop \in Loops /\ loop.start \in Nat /\ loop.current \in Nat /\ loop.seen \in Nat
      /\ loop.noProgress \in Nat /\ loop.attempts \in Nat /\ flushes \in Nat /\ flushed \in BOOLEAN
      /\ loop.current <= loop.start /\ stage = "weigh"
  BY DEF Weigh, Typed, WorkTyped, LoopBounded, Loops
<1> DEFINE gained == (loop.start - loop.current) * MaxNoProgress
<1>2. gained \in Int
  BY <1>1, Numbers
<1>3. loop.attempts <= gained + loop.noProgress + (IF flushed THEN MaxNoProgress ELSE 0) + 1
  BY <1>1 DEF Budgeted, AttemptsBounded
<1>4. /\ loop.noProgress < MaxNoProgress /\ MaxNoProgress \in Nat /\ flushes <= 1
      /\ (flushes = 1 => flushed)
  BY <1>1, Numbers DEF Budgeted
<1>5. CASE Progress
  <2>1. /\ stage' = "loop" /\ UNCHANGED <<flushed, flushes>> /\ loop.seen < loop.current
        /\ loop'.noProgress = 0 /\ loop'.current = loop.seen /\ loop'.start = loop.start
        /\ loop'.attempts = loop.attempts
    BY <1>1, <1>5 DEF Progress, Loops
  <2> DEFINE after == (loop.start - loop.seen) * MaxNoProgress
  <2>2. gained + MaxNoProgress <= after /\ after \in Int
    BY <1>1, <2>1, Paid, Numbers
  <2>3. AttemptsBounded' <=>
          loop.attempts <= after + 0 + (IF flushed THEN MaxNoProgress ELSE 0) + 0
    BY <2>1 DEF AttemptsBounded
  <2> HIDE DEF gained, after
  <2> QED
    BY <1>1, <1>2, <1>3, <1>4, <2>1, <2>2, <2>3 DEF Budgeted
<1>6. CASE Flush
  <2>1. flushes' = flushes + 1 /\ ~flushed /\ flushes = 0
    <3>1. flushes' = flushes + 1 /\ ~flushed
      BY <1>6 DEF Flush, FlushDue
    <3> QED
      BY <1>1, <1>4, <3>1
  <2>2. CASE /\ flushed' = TRUE /\ stage' = "loop" /\ loop' = [loop EXCEPT !.noProgress = 0]
    <3>1. /\ loop'.noProgress = 0 /\ loop'.current = loop.current /\ loop'.start = loop.start
          /\ loop'.attempts = loop.attempts
      BY <1>1, <2>2 DEF Loops
    <3>2. AttemptsBounded' <=> loop.attempts <= gained + 0 + MaxNoProgress + 0
      BY <2>2, <3>1 DEF AttemptsBounded
    <3> HIDE DEF gained
    <3> QED
      BY <1>1, <1>2, <1>3, <1>4, <2>1, <2>2, <3>1, <3>2 DEF Budgeted
  <2>3. CASE /\ FileEnds(loop.current, FALSE, "", "failed") /\ loop' = NoLoop
    <3>1. stage' = "done"
      BY <2>3 DEF FileEnds, End
    <3> QED
      <4>1. AttemptsBounded'
        BY <3>1 DEF AttemptsBounded
      <4>2. loop'.noProgress = 0 /\ 0 < MaxNoProgress
        <5>1. loop' = NoLoop /\ NoLoop.noProgress = 0
          BY <2>3, FreshLoop
        <5> QED
          BY <5>1, Numbers
      <4>3. flushes' <= 1
        BY <2>1
      <4> QED
        BY <3>1, <4>1, <4>2, <4>3 DEF Budgeted
  <2> QED
    BY <1>6, <2>2, <2>3 DEF Flush
<1>7. CASE GiveUp
  BY <1>1, <1>7, FileEndsLeaves, LoopOver DEF GiveUp
<1>8. CASE BackOff
  <2>1. /\ loop'.noProgress = loop.noProgress + 1 /\ loop'.current = loop.current
        /\ loop'.start = loop.start /\ loop'.attempts = loop.attempts
        /\ stage' = "backoff" /\ UNCHANGED <<flushed, flushes>>
    BY <1>1, <1>8 DEF BackOff, Stalls, Loops
  <2>2. loop.noProgress + 1 < MaxNoProgress
    BY <1>1, <1>4, <1>8 DEF BackOff, Spent, Stalls
  <2>3. AttemptsBounded' <=>
          loop.attempts <= gained + (loop.noProgress + 1)
                           + (IF flushed THEN MaxNoProgress ELSE 0) + 0
    BY <2>1 DEF AttemptsBounded
  <2> HIDE DEF gained
  <2> QED
    BY <1>1, <1>2, <1>3, <1>4, <2>1, <2>2, <2>3 DEF Budgeted
<1> QED
  BY <1>5, <1>6, <1>7, <1>8 DEF Weigh

LEMMA BudgetStep == Typed /\ Budgeted /\ [Next]_vars => Budgeted'
<1> SUFFICES ASSUME Typed, Budgeted, [Next]_vars PROVE Budgeted'
  OBVIOUS
<1>1. loop \in Loops /\ (stage \in InHand => at \in File)
  BY DEF Typed, WorkTyped, PlaceTyped
<1>2. CASE NextFile
  <2>1. stage = "next" /\ at \in File /\ UNCHANGED <<flushed, flushes>>
    BY <1>2 DEF NextFile, Typed, PlaceTyped, File
  <2>2. size[at] \in Nat
    BY <2>1, SizesTyped DEF Typed, ServerTyped
  <2>3. CASE UNCHANGED loop /\ stage' \notin InLoop
    BY <2>1, <2>3, LoopOver
  <2>4. CASE EnterLoop(size[at])
    BY <2>1, <2>2, <2>4, LoopEntered
  <2> QED
    BY <1>2, <2>3, <2>4, FileEndsLeaves DEF NextFile, NextData, NextTempdb, NextLog, BeginTruncate,
       Begin, End, InLoop
<1>3. CASE LastFile \/ PollReuse \/ BeginLog
  BY <1>3, FileEndsLeaves, LoopOver DEF LastFile, PollReuse, BeginLog, Begin, End, InLoop
<1>4. CASE Watched
  <2>1. stage = "watched" /\ at \in File /\ UNCHANGED <<flushed, flushes>>
    BY <1>1, <1>4 DEF Watched, InHand
  <2>2. size[at] \in Nat
    BY <2>1, SizesTyped DEF Typed, ServerTyped
  <2>3. CASE EnterLoop(size[at])
    BY <2>1, <2>2, <2>3, LoopEntered
  <2>4. CASE UNCHANGED loop /\ stage' \notin InLoop
    BY <2>1, <2>4, LoopOver
  <2>5. ASSUME NEW o \in Outcome, After(o) PROVE Budgeted'
    <3>1. CASE AfterData(o)
      BY <3>1, <2>3, <2>4, FileEndsLeaves DEF AfterData
    <3>2. CASE AfterTempdb(o)
      BY <3>2, <2>4 DEF AfterTempdb, End, GoOn, InLoop
    <3>3. CASE AfterLog(o)
      BY <3>3, <2>4, FileEndsLeaves DEF AfterLog
    <3> QED
      BY <2>5, <3>1, <3>2, <3>3 DEF After
  <2>6. CASE WatchedReturns
    BY <2>4, <2>5, <2>6, FileEndsLeaves DEF WatchedReturns, Outcome
  <2>7. CASE WatchedSample
    BY <2>1, <2>4, <2>5, <2>7 DEF WatchedSample, Outcome, InLoop
  <2>8. CASE WatchedBlind \/ WatchedStop
    BY <2>5, <2>8 DEF WatchedBlind, WatchedStop, Outcome
  <2> QED
    BY <1>4, <2>6, <2>7, <2>8 DEF Watched
<1>5. ASSUME NEW mb, NEW reason, NEW v, Leave(mb, reason, v), stage # "done" PROVE Budgeted'
  BY <1>5, FileEndsLeaves, LoopOver DEF Leave
<1>6. CASE LoopTop
  <2>1. CASE stage' = "issue" /\ UNCHANGED <<loop, flushed, flushes>>
    BY <1>6, <2>1, SameAccount DEF LoopTop, Account, InLoop, OnChunk
  <2> QED
    BY <1>5, <1>6, <2>1 DEF LoopTop, probe
<1>7. CASE IssueChunk
  <2>1. /\ loop'.attempts = loop.attempts + 1 /\ loop'.start = loop.start
        /\ loop'.current = loop.current /\ loop'.noProgress = loop.noProgress
        /\ loop.attempts \in Nat /\ loop.start \in Nat /\ loop.current \in Nat
        /\ loop.noProgress \in Nat
        /\ stage = "issue" /\ stage' = "chunk" /\ UNCHANGED <<flushed, flushes>>
    BY <1>1, <1>7 DEF IssueChunk, Begin, Loops
  <2> DEFINE gained == (loop.start - loop.current) * MaxNoProgress
  <2>2. gained \in Int /\ MaxNoProgress \in Nat
    BY <2>1, Numbers
  <2>3. loop.attempts <= gained + loop.noProgress + (IF flushed THEN MaxNoProgress ELSE 0) + 0
    BY <2>1 DEF Budgeted, AttemptsBounded
  <2>4. AttemptsBounded' <=>
          loop.attempts + 1 <= gained + loop.noProgress
                               + (IF flushed THEN MaxNoProgress ELSE 0) + 1
    BY <2>1 DEF AttemptsBounded
  <2> HIDE DEF gained
  <2> QED
    BY <2>1, <2>2, <2>3, <2>4 DEF Budgeted
<1>8. CASE Chunk
  <2>1. stage = "chunk" /\ stage' \in OnChunk /\ UNCHANGED <<flushed, flushes>>
    BY <1>8 DEF Chunk, ChunkFailed, ChunkDone, ChunkStopped, OnChunk
  <2>2. ASSUME NEW step, NEW seen, NEW cause, NEW maint \in BOOLEAN,
               loop' = [[loop EXCEPT !.step = step, !.seen = seen, !.cause = cause]
                          EXCEPT !.maint = @ \/ maint]
        PROVE  UNCHANGED Account
    BY <1>1, <2>2 DEF Loops, Account
  <2>3. UNCHANGED Account
    <3>1. CASE ChunkFailed
      <4>1. PICK maint \in BOOLEAN :
              loop' = [[loop EXCEPT !.step = HalveStep(@, Ceiling), !.seen = loop.current,
                                    !.cause = "none"] EXCEPT !.maint = @ \/ maint]
        BY <3>1 DEF ChunkFailed, ChunkEnds
      <4> QED
        BY <1>1, <4>1 DEF Loops, Account
    <3>2. ASSUME NEW cause, ChunkEnds([loop EXCEPT !.seen = size[at], !.cause = cause])
          PROVE  UNCHANGED Account
      BY <1>1, <3>2 DEF ChunkEnds, Loops, Account
    <3> QED
      BY <1>8, <3>1, <3>2 DEF Chunk, ChunkDone, ChunkStopped
  <2> QED
    BY <2>1, <2>3, SameAccount DEF InLoop, OnChunk
<1>9. CASE Relief
  <2>1. CASE Relieved
    BY <1>9, <2>1, SameAccount DEF Relief, Relieved, Account, InLoop, OnChunk
  <2> QED
    BY <1>5, <1>9, <2>1 DEF Relief, ReliefStopped, ReliefTimesOut, ReliefBlind
<1>10. CASE Waited
  <2>1. UNCHANGED <<Account, flushed, flushes>> /\ stage = "backoff" /\ stage' = "loop"
    BY <1>1, <1>10 DEF Waited, Loops, Account
  <2> QED
    BY <2>1, SameAccount DEF InLoop, OnChunk
<1>11. CASE Fails
  BY <1>11, LoopOver DEF Fails, End, InLoop
<1>12. CASE Environment
  <2>1. UNCHANGED <<loop, flushed, flushes, stage>> /\ stage # "done"
    BY <1>12 DEF Environment, Moves, Answers, Grows, AskStop, Hang
  <2> QED
    BY <2>1, SameAccount DEF Account
<1>13. CASE UNCHANGED vars
  BY <1>13 DEF vars, Budgeted, AttemptsBounded
<1> QED
  BY <1>2, <1>3, <1>4, <1>6, <1>7, <1>8, <1>9, <1>10, <1>11, <1>12, <1>13, BudgetWeigh
  DEF Next, Driver

----------------------------------------------------------------------------
(* The report *)

(* Ends of a file: the next one, or the end of the operation.                *)
LEMMA FileEndsPassing ==
  ASSUME Typed, Passing, at \in File, pass = "chunks", UNCHANGED op, verdict = "none",
         NEW mb, NEW noop, NEW reason, NEW v \in Verdicts \ {"none"},
         FileEnds(mb, noop, reason, v)
  PROVE  Passing'
  BY DEF FileEnds, GoOn, End, where, Passing, InLoop

(* What Append leaves where it was.                                          *)
LEMMA Appended ==
  ASSUME NEW S, NEW s \in Seq(S), NEW e \in S
  PROVE  /\ DOMAIN Append(s, e) = DOMAIN s \cup {Len(s) + 1}
         /\ Append(s, e)[Len(s) + 1] = e
         /\ \A i \in DOMAIN s : Append(s, e)[i] = s[i]
<1>1. Len(s) \in Nat /\ DOMAIN s = 1 .. Len(s)
  OBVIOUS
<1>2. Append(s, e) \in Seq(S) /\ Len(Append(s, e)) = Len(s) + 1
  OBVIOUS
<1>3. DOMAIN Append(s, e) = 1 .. Len(s) + 1
  BY <1>2
<1>4. 1 .. Len(s) + 1 = 1 .. Len(s) \cup {Len(s) + 1}
  BY <1>1
<1> QED
  BY <1>1, <1>3, <1>4

LEMMA FileEndsTold ==
  ASSUME Typed, Reported, at \in File, pass = "chunks", UNCHANGED op, verdict = "none",
         NEW mb \in Nat, NEW noop \in BOOLEAN, NEW reason \in Reasons,
         NEW v \in Verdicts \ {"none"}, FileEnds(mb, noop, reason, v),
         op.kind # "log" /\ v = "nil" /\ Short(mb) => Explained(noop, reason)
  PROVE  Reported'
<1> DEFINE r == Result(mb, noop, reason)
<1>1. r.file = at /\ r.mb = mb /\ r.target = final /\ r.noop = noop /\ r.reason = reason
  BY DEF Result
<1> HIDE DEF r
<1>2. CASE v = "nil"
  <2>1. /\ results' = Append(results, r) /\ at' = at + 1 /\ UNCHANGED <<pass, verdict>>
    BY <1>2 DEF FileEnds, GoOn, r
  <2>2. r \in Results
    BY FinalTyped DEF r, Result, Results, Typed, final
  <2>3. results \in Seq(Results)
    BY DEF Typed, WorkTyped
  <2>4. /\ DOMAIN results' = DOMAIN results \cup {Len(results) + 1}
        /\ results'[Len(results) + 1] = r
        /\ \A i \in DOMAIN results : results'[i] = results[i]
    <3>1. /\ DOMAIN Append(results, r) = DOMAIN results \cup {Len(results) + 1}
          /\ Append(results, r)[Len(results) + 1] = r
          /\ \A i \in DOMAIN results : Append(results, r)[i] = results[i]
      BY <2>2, <2>3, Appended
    <3> QED
      BY <2>1, <3>1
  <2>5. at \in Nat /\ at > 0
    BY Numbers DEF File
  <2>6. op.kind # "log" => Told(r)
    BY <1>1, <1>2 DEF Told, Short
  <2>7. op.kind # "log" => \A i \in DOMAIN results' : Told(results'[i])
    <3> SUFFICES ASSUME op.kind # "log", NEW i \in DOMAIN results' PROVE Told(results'[i])
      OBVIOUS
    <3>1. CASE i \in DOMAIN results
      <4>1. Told(results[i])
        BY <3>1 DEF Reported
      <4> QED
        BY <2>4, <3>1, <4>1
    <3>2. CASE i = Len(results) + 1
      BY <2>4, <2>6, <3>2
    <3> QED
      BY <2>4, <3>1, <3>2
  <2>8. FilesTold' = FilesTold \cup {at}
    <3>1. {results'[i].file : i \in DOMAIN results'} =
            {results'[i].file : i \in DOMAIN results} \cup {results'[Len(results) + 1].file}
      BY <2>4
    <3>2. {results'[i].file : i \in DOMAIN results} = {results[i].file : i \in DOMAIN results}
      BY <2>4
    <3>3. results'[Len(results) + 1].file = at
      BY <1>1, <2>4
    <3> QED
      BY <3>1, <3>2, <3>3 DEF FilesTold
  <2>9. op.kind # "log" => FilesTold' = 1 .. at' - 1
    <3>1. op.kind # "log" => FilesTold = 1 .. at - 1
      BY DEF Reported
    <3>2. at' - 1 = at
      BY <2>1, <2>5
    <3>3. (1 .. at - 1) \cup {at} = 1 .. at
      BY <2>5
    <3> QED
      BY <2>8, <3>1, <3>2, <3>3
  <2>10. verdict' = "none" /\ pass' = pass /\ UNCHANGED op
    BY <2>1
  <2> QED
    BY <2>7, <2>9, <2>10 DEF Reported
<1>3. CASE v # "nil"
  BY <1>3 DEF FileEnds, End, where, Reported, Verdicts
<1> QED
  BY <1>2, <1>3

(* What leaves the report and the place alone.                               *)
LEMMA SameReport ==
  ASSUME Passing, Reported, UNCHANGED <<where, report, op>>, stage # "done", stage' # "done",
         stage' \in InLoop => stage \in InLoop,
         stage' \in {"reuse", "logready", "watched"} => stage \in {"reuse", "logready"} \/ stage' = stage
  PROVE  Passing' /\ Reported'
  BY DEF where, report, Passing, Reported, FilesTold, InLoop

LEMMA ReportInit == Init => Passing /\ Reported
<1> SUFFICES ASSUME Init PROVE Passing /\ Reported
  OBVIOUS
<1>1. Passing
  BY DEF Init, Passing, InLoop
<1>2. DOMAIN results = {} /\ at = 1
  BY DEF Init
<1>3. FilesTold = {}
  BY <1>2 DEF FilesTold
<1> QED
  BY <1>1, <1>2, <1>3 DEF Init, Reported

LEMMA ReportLoop ==
  ASSUME Typed, Passing, Reported, at \in File, stage \in InLoop, UNCHANGED op,
         NEW mb \in Nat, NEW reason \in Reasons, NEW v \in Verdicts \ {"none"},
         FileEnds(mb, FALSE, reason, v), v = "nil" /\ Short(mb) => reason # ""
  PROVE  Passing' /\ Reported'
<1>1. pass = "chunks" /\ verdict = "none"
  BY DEF Passing, InLoop
<1> QED
  BY <1>1, FileEndsPassing, FileEndsTold DEF Explained

LEMMA ReportNextFile == ASSUME Typed, Passing, Reported, NextFile PROVE Passing' /\ Reported'
<1>1. /\ at \in File /\ stage = "next" /\ verdict = "none" /\ UNCHANGED op
      /\ snap[at] \in Nat /\ used[at] \in Nat /\ size[at] \in Nat
      /\ op.kind \in {"data", "log", "tempdb"}
  <2>1. op.kind \in {"data", "log", "tempdb"}
    BY DriverAssumption DEF Typed, ServerTyped, Op
  <2>2. at \in File /\ stage = "next" /\ UNCHANGED op
    BY Numbers DEF NextFile, fixed, Typed, PlaceTyped, File
  <2>3. verdict = "none"
    BY <2>2 DEF Passing
  <2> QED
    BY <2>1, <2>2, <2>3, SizesTyped DEF Typed, ServerTyped
<1>2. CASE /\ End("stopped")
           /\ results' = IF pass = "truncate" THEN <<>> ELSE results
  BY <1>1, <1>2 DEF End, where, Passing, Reported, InLoop
<1>3. CASE NextData
  <2>1. pass = "chunks" /\ op.kind = "data"
    BY <1>1, <1>3 DEF NextData, Passing, Typed, PlaceTyped
  <2>2. CASE FileEnds(snap[at], TRUE, "nothing to reclaim", "nil")
             /\ (snap[at] <= used[at] \/ final >= snap[at])
    <3>1. final = used[at] + Keep
      BY <2>1 DEF final, Final
    <3>2. ~Short(snap[at])
      <4>1. snap[at] <= used[at] \/ final >= snap[at]
        BY <2>2
      <4> QED
        BY <1>1, <3>1, <4>1, Numbers DEF Short
    <3> QED
      BY <1>1, <2>1, <2>2, <3>2, FileEndsPassing, FileEndsTold DEF Explained, Reasons, Verdicts
  <2>3. CASE BeginTruncate
    BY <1>1, <2>1, <2>3 DEF BeginTruncate, Begin, where, report, Passing, Reported, FilesTold, InLoop
  <2> QED
    BY <1>3, <2>2, <2>3 DEF NextData
<1>4. CASE NextTempdb
  <2>1. CASE pass = "truncate" /\ BeginTruncate
    BY <1>1, <2>1 DEF BeginTruncate, Begin, where, report, Passing, Reported, FilesTold, InLoop
  <2>2. CASE pass = "chunks" /\ size[at] <= final /\ FileEnds(size[at], TRUE, "already at target", "nil")
    <3>1. ~Short(size[at])
      <4>1. Final(at) \in Nat
        BY <1>1, FinalTyped DEF Typed
      <4> QED
        <5>1. size[at] <= final
          BY <2>2
        <5> QED
          BY <1>1, <4>1, <5>1 DEF Short, final
    <3> QED
      BY <1>1, <2>2, <3>1, FileEndsPassing, FileEndsTold DEF Explained, Reasons, Verdicts
  <2>3. CASE pass = "chunks" /\ EnterLoop(size[at])
    BY <1>1, <2>3 DEF EnterLoop, where, report, Passing, Reported, FilesTold, InLoop
  <2> QED
    BY <1>4, <2>1, <2>2, <2>3 DEF NextTempdb
<1>5. CASE NextLog
  BY <1>1, <1>5 DEF NextLog, where, report, Passing, Reported, FilesTold, InLoop
<1> QED
  BY <1>2, <1>3, <1>4, <1>5 DEF NextFile

LEMMA ReportLastFile == ASSUME Typed, Passing, Reported, LastFile PROVE Passing' /\ Reported'
<1>1. /\ at = Files + 1 /\ stage = "next" /\ verdict = "none" /\ UNCHANGED <<op, results>>
      /\ Files \in Nat
  BY Numbers DEF LastFile, fixed, Typed, PlaceTyped, Passing
<1>2. CASE pass = "truncate" /\ pass' = "chunks" /\ at' = 1 /\ UNCHANGED <<stage, verdict>>
  <2>1. DOMAIN results' = {} /\ FilesTold' = {}
    BY <1>1, <1>2 DEF Passing, FilesTold
  <2> QED
    BY <1>1, <1>2, <2>1 DEF Passing, Reported, InLoop
<1>3. CASE pass = "chunks" /\ End("nil")
  <2>1. FilesTold' = FilesTold
    BY <1>1 DEF FilesTold
  <2>2. op.kind # "log" => FilesTold = File
    BY <1>1, <1>3 DEF Reported, File
  <2> QED
    BY <1>1, <1>3, <2>1, <2>2 DEF End, where, Passing, Reported, InLoop
<1> QED
  BY <1>2, <1>3 DEF LastFile

LEMMA ReportWatched == ASSUME Typed, Passing, Reported, Watched PROVE Passing' /\ Reported'
<1>1. /\ at \in File /\ stage = "watched" /\ verdict = "none" /\ UNCHANGED op
      /\ size[at] \in Nat
  BY SizesTyped DEF Watched, fixed, Typed, ServerTyped, PlaceTyped, InHand, Passing
<1>2. op.kind # "tempdb" => pass = "chunks"
  BY DEF Passing, Typed, PlaceTyped
<1>3. ASSUME op.kind # "tempdb", NEW mb \in Nat, NEW reason \in Reasons, NEW v \in Verdicts \ {"none"},
             FileEnds(mb, FALSE, reason, v),
             op.kind # "log" /\ v = "nil" /\ Short(mb) => reason # ""
      PROVE  Passing' /\ Reported'
  BY <1>1, <1>2, <1>3, FileEndsPassing, FileEndsTold DEF Explained
<1>4. ASSUME NEW o \in Outcome, After(o) PROVE Passing' /\ Reported'
  <2>1. CASE op.kind = "data" /\ AfterData(o)
    <3>1. CASE EnterLoop(size[at])
      BY <1>1, <1>2, <2>1, <3>1 DEF EnterLoop, where, report, Passing, Reported, FilesTold, InLoop
    <3>2. CASE o \in {"stopped", "blind"}
      BY <1>1, <1>3, <2>1, <3>2 DEF AfterData, Reasons, Verdicts
    <3>3. CASE o \notin {"stopped", "blind"} /\ size[at] <= final
      <4>1. ~Short(size[at])
        <5>1. Final(at) \in Nat
          BY <1>1, FinalTyped DEF Typed
        <5> QED
          BY <1>1, <3>3, <5>1 DEF Short, final
      <4> QED
        BY <1>1, <1>3, <2>1, <3>3, <4>1 DEF AfterData, Reasons, Verdicts
    <3> QED
      BY <2>1, <3>1, <3>2, <3>3 DEF AfterData
  <2>2. CASE op.kind = "tempdb" /\ AfterTempdb(o)
    <3>1. pass = "truncate" /\ results = <<>> /\ results' = <<>>
      BY <1>1, <2>2 DEF AfterTempdb, Passing
    <3>2. DOMAIN results' = {}
      BY <3>1
    <3> QED
      BY <1>1, <2>2, <3>1, <3>2 DEF AfterTempdb, End, GoOn, where, Passing, Reported, InLoop
  <2>3. CASE op.kind = "log" /\ AfterLog(o)
    BY <1>1, <1>3, <2>3 DEF AfterLog, Outcome, Reasons, Verdicts
  <2> QED
    BY <1>4, <2>1, <2>2, <2>3 DEF After
<1>5. CASE WatchedReturns
  BY <1>3, <1>4, <1>5 DEF WatchedReturns, Outcome, Reasons, Verdicts
<1>6. CASE WatchedSample
  BY <1>1, <1>4, <1>6, SameReport DEF WatchedSample, Outcome, InLoop
<1>7. CASE WatchedBlind \/ WatchedStop
  BY <1>4, <1>7 DEF WatchedBlind, WatchedStop, Outcome
<1> QED
  BY <1>5, <1>6, <1>7 DEF Watched

LEMMA ReportStep == Typed /\ Passing /\ Reported /\ [Next]_vars => Passing' /\ Reported'
<1> SUFFICES ASSUME Typed, Passing, Reported, [Next]_vars PROVE Passing' /\ Reported'
  OBVIOUS
<1>1. stage \in InHand => at \in File /\ stage # "done"
  BY DEF Typed, PlaceTyped, InHand, InLoop
<1>2. loop.current \in Nat
  BY DEF Typed, WorkTyped, Loops
<1>3. ASSUME NEW reason \in Reasons, NEW v \in Verdicts \ {"none"}, stage \in InLoop,
             FileEnds(loop.current, FALSE, reason, v), UNCHANGED op,
             v = "nil" /\ Short(loop.current) => reason # ""
      PROVE  Passing' /\ Reported'
  BY <1>1, <1>2, <1>3, ReportLoop DEF InHand
<1>4. CASE PollReuse
  <2>1. CASE stage' \in {"reuse", "logready"} /\ UNCHANGED <<where, report>>
    <3>1. stage = "reuse" /\ UNCHANGED op
      BY <1>4 DEF PollReuse, fixed
    <3> QED
      BY <2>1, <3>1, SameReport DEF InLoop
  <2>2. CASE FileEnds(snap[at], FALSE, "log not truncatable", "nil")
    <3>1. /\ at \in File /\ pass = "chunks" /\ verdict = "none" /\ UNCHANGED op
          /\ snap[at] \in Nat
      BY <1>1, <1>4, SizesTyped DEF PollReuse, fixed, Passing, InHand, Typed, ServerTyped, PlaceTyped
    <3> QED
      BY <2>2, <3>1, FileEndsPassing, FileEndsTold DEF Explained, Reasons, Verdicts
  <2> QED
    BY <1>4, <2>1, <2>2 DEF PollReuse
<1>5. CASE BeginLog
  <2>1. op.kind = "log" /\ verdict = "none"
    BY <1>5 DEF BeginLog, Passing
  <2> QED
    BY <1>5, <2>1 DEF BeginLog, Begin, fixed, where, report, Passing, Reported, FilesTold, InLoop
<1>6. CASE LoopTop
  <2>1. CASE stage' = "issue" /\ UNCHANGED <<where, report>>
    BY <1>6, <2>1, SameReport DEF LoopTop, fixed, InLoop
  <2>2. CASE loop.current <= final /\ Leave(loop.current, "", "nil")
    <3>1. ~Short(loop.current)
      <4>1. Final(at) \in Nat
        BY <1>1, <1>6, FinalTyped DEF LoopTop, Typed, InHand, InLoop
      <4> QED
        <5>1. loop.current <= final
          BY <2>2
        <5> QED
          BY <1>2, <4>1, <5>1 DEF Short, final
    <3> QED
      BY <1>3, <1>6, <2>2, <3>1 DEF LoopTop, Leave, fixed, Reasons, Verdicts, InLoop
  <2>3. CASE Leave(loop.current, "stopped", "stopped")
    BY <1>3, <1>6, <2>3 DEF LoopTop, Leave, fixed, Reasons, Verdicts, InLoop
  <2> QED
    BY <1>6, <2>1, <2>2, <2>3 DEF LoopTop
<1>7. CASE IssueChunk \/ Chunk \/ Waited
  BY <1>7, SameReport DEF IssueChunk, Begin, Chunk, ChunkFailed, ChunkDone, ChunkStopped, Waited,
     fixed, InLoop
<1>8. CASE Relief
  <2>1. CASE Relieved
    BY <1>8, <2>1, SameReport DEF Relief, Relieved, fixed, InLoop
  <2> QED
    BY <1>3, <1>8, <2>1 DEF Relief, ReliefStopped, ReliefTimesOut, ReliefBlind, Leave, fixed,
       Reasons, Verdicts, InLoop
<1>9. CASE Weigh
  <2>1. stage = "weigh" /\ UNCHANGED op
    BY <1>9 DEF Weigh, fixed
  <2>2. CASE Progress \/ BackOff
    BY <2>1, <2>2, SameReport DEF Progress, BackOff, InLoop
  <2>3. CASE Flush
    BY <1>3, <2>1, <2>3, SameReport DEF Flush, Reasons, Verdicts, InLoop
  <2>4. CASE GiveUp
    <3>1. GiveUpReason \in Reasons /\ GiveUpReason # ""
      BY DEF GiveUpReason, Reasons
    <3> QED
      BY <1>3, <2>1, <2>4, <3>1 DEF GiveUp, Verdicts, InLoop
  <2> QED
    BY <1>9, <2>2, <2>3, <2>4 DEF Weigh
<1>10. CASE Fails
  BY <1>10 DEF Fails, End, where, fixed, Passing, Reported, FilesTold, InLoop
<1>11. CASE Environment
  <2>1. UNCHANGED <<where, report, op, stage>> /\ stage # "done"
    BY <1>11 DEF Environment, Moves, Answers, Grows, AskStop, Hang, fixed
  <2> QED
    BY <2>1, SameReport
<1>12. CASE UNCHANGED vars
  BY <1>12 DEF vars, fixed, where, report, Passing, Reported, FilesTold
<1> QED
  BY <1>4, <1>5, <1>6, <1>7, <1>8, <1>9, <1>10, <1>11, <1>12,
     ReportNextFile, ReportLastFile, ReportWatched DEF Next, Driver

----------------------------------------------------------------------------
(* What is seen of maintenance *)

(* Outside the loop nothing is suspected of the file in hand.                *)
LEMMA OutOfLoop ==
  ASSUME Watchful, stage' \notin InLoop, UNCHANGED <<recorded, seenMaint>>
  PROVE  Watchful'
  BY DEF Watchful, TransientIsOurs

LEMMA FreshWatch ==
  ASSUME Typed, Watchful, at \in File, NEW mb \in Nat, EnterLoop(mb),
         UNCHANGED <<recorded, seenMaint>>
  PROVE  Watchful'
<1>1. ~Suspected'
  BY EnterLoopTyped DEF Suspected
<1> QED
  BY <1>1 DEF Watchful, TransientIsOurs

LEMMA SameWatch ==
  ASSUME Watchful, stage \in InLoop, UNCHANGED <<at, recorded, seenMaint>>, Suspected' => Suspected
  PROVE  Watchful'
  BY DEF Watchful, TransientIsOurs

(* A blocker is recorded as the loop is left, from what was seen in it.      *)
LEMMA BlockerWatch ==
  ASSUME Watchful, stage \in InLoop, stage' \notin InLoop, UNCHANGED seenMaint,
         tail'.maint => Suspected, NEW fresh, recorded' \subseteq recorded \cup {Blocker(fresh)}
  PROVE  Watchful'
<1>1. Blocker(fresh).file = at /\ Blocker(fresh).transient = tail'.maint
  BY DEF Blocker
<1>2. tail'.maint => at \in seenMaint
  BY DEF Watchful
<1>3. \A r \in recorded : r.transient => r.file \in seenMaint
  BY DEF Watchful, TransientIsOurs
<1>4. ASSUME NEW r \in recorded', r.transient PROVE r.file \in seenMaint
  <2>1. CASE r \in recorded
    BY <1>3, <1>4, <2>1
  <2>2. CASE r = Blocker(fresh)
    <3>1. tail'.maint
      BY <1>1, <1>4, <2>2
    <3> QED
      BY <1>1, <1>2, <2>2, <3>1
  <2> QED
    BY <1>4, <2>1, <2>2
<1> QED
  BY <1>4 DEF Watchful, TransientIsOurs

LEMMA LeaveWatch ==
  ASSUME Watchful, stage \in InLoop, NEW mb, NEW reason, NEW v, Leave(mb, reason, v)
  PROVE  Watchful'
<1>1. UNCHANGED <<seenMaint, tail>> /\ recorded' \subseteq recorded \cup {Blocker(FALSE)}
  BY DEF Leave
<1>2. stage' \notin InLoop
  BY FileEndsLeaves DEF Leave
<1>3. tail'.maint => Suspected
  BY <1>1 DEF Suspected
<1> QED
  BY <1>1, <1>2, <1>3, BlockerWatch

LEMMA ChunkWatch == ASSUME Typed, Watchful, Chunk PROVE Watchful'
<1>1. stage \in InLoop /\ UNCHANGED <<at, tail, recorded>> /\ loop \in Loops
  BY DEF Chunk, InLoop, where, Typed, WorkTyped
<1>2. ASSUME NEW l, l.maint = loop.maint, DOMAIN l = DOMAIN loop, ChunkEnds(l)
      PROVE  Watchful'
  <2>1. PICK maint \in BOOLEAN :
          /\ loop' = [l EXCEPT !.maint = @ \/ maint]
          /\ seenMaint' = IF maint THEN seenMaint \cup {at} ELSE seenMaint
    BY <1>2 DEF ChunkEnds
  <2>2. CASE maint
    <3>1. seenMaint' = seenMaint \cup {at}
      BY <2>1, <2>2
    <3> QED
      BY <1>1, <3>1 DEF Watchful, TransientIsOurs
  <2>3. CASE ~maint
    <3>1. seenMaint' = seenMaint /\ loop'.maint = (l.maint \/ maint)
      BY <1>1, <1>2, <2>1, <2>3 DEF Loops
    <3>2. Suspected' => Suspected
      BY <1>1, <1>2, <2>3, <3>1 DEF Suspected
    <3> QED
      BY <1>1, <3>1, <3>2, SameWatch
  <2> QED
    BY <2>1, <2>2, <2>3
<1>3. CASE ChunkFailed
  <2> DEFINE l == [loop EXCEPT !.step = HalveStep(@, Ceiling), !.seen = loop.current, !.cause = "none"]
  <2>1. l.maint = loop.maint /\ DOMAIN l = DOMAIN loop
    BY <1>1 DEF Loops
  <2>2. ChunkEnds(l)
    BY <1>3 DEF ChunkFailed
  <2> QED
    BY <1>2, <2>1, <2>2
<1>4. ASSUME NEW cause, ChunkEnds([loop EXCEPT !.seen = size[at], !.cause = cause]) PROVE Watchful'
  <2> DEFINE l == [loop EXCEPT !.seen = size[at], !.cause = cause]
  <2>1. l.maint = loop.maint /\ DOMAIN l = DOMAIN loop
    BY <1>1 DEF Loops
  <2>2. ChunkEnds(l)
    BY <1>4
  <2> QED
    BY <1>2, <2>1, <2>2
<1> QED
  BY <1>3, <1>4 DEF Chunk, ChunkDone, ChunkStopped

LEMMA WeighWatch == ASSUME Typed, Watchful, Weigh PROVE Watchful'
<1>1. /\ stage \in InLoop /\ UNCHANGED <<op, seenMaint>> /\ loop \in Loops
      /\ tail \in [entry : BOOLEAN, maint : BOOLEAN]
  BY DEF Weigh, InLoop, fixed, Typed, WorkTyped
<1>2. CASE Progress
  <2>1. UNCHANGED <<at, tail, recorded>>
    BY <1>2 DEF Progress, where
  <2>2. PICK pressed, quick \in BOOLEAN :
          loop' = [loop EXCEPT !.noProgress = 0, !.backoff = Backoff, !.waited = 0,
                      !.current = loop.seen,
                      !.step = AdjustStep(@, loop.cause # "none" \/ pressed, quick, Ceiling)]
    BY <1>2 DEF Progress
  <2>3. loop'.maint = loop.maint
    BY <1>1, <2>2 DEF Loops
  <2> QED
    BY <1>1, <2>1, <2>3, SameWatch DEF Suspected
<1>3. CASE Flush
  <2>1. UNCHANGED <<tail, recorded>>
    BY <1>3 DEF Flush
  <2>2. CASE loop' = [loop EXCEPT !.noProgress = 0] /\ UNCHANGED where
    <3>1. loop'.maint = loop.maint
      BY <1>1, <2>2 DEF Loops
    <3> QED
      BY <1>1, <2>1, <2>2, <3>1, SameWatch DEF Suspected, where
  <2>3. CASE FileEnds(loop.current, FALSE, "", "failed")
    BY <1>1, <2>1, <2>3, FileEndsLeaves, OutOfLoop
  <2> QED
    BY <1>3, <2>2, <2>3 DEF Flush
<1>4. CASE GiveUp
  <2>1. tail' = [entry |-> FALSE, maint |-> tail.maint \/ loop.maint]
    BY <1>4 DEF GiveUp
  <2>2. tail'.maint => Suspected
    BY <2>1 DEF Suspected
  <2>3. recorded' \subseteq recorded \cup {Blocker(TRUE)}
    BY <1>4 DEF GiveUp
  <2>4. stage' \notin InLoop
    BY <1>4, FileEndsLeaves DEF GiveUp
  <2> QED
    BY <1>1, <2>2, <2>3, <2>4, BlockerWatch
<1>5. CASE BackOff
  <2>1. UNCHANGED <<at, recorded>>
    BY <1>5 DEF BackOff, where
  <2>2. loop'.maint = loop.maint /\ tail'.maint = (tail.maint \/ loop.maint)
    BY <1>1, <1>5 DEF BackOff, Loops
  <2>3. Suspected' => Suspected
    BY <2>2 DEF Suspected
  <2> QED
    BY <1>1, <2>1, <2>3, SameWatch
<1> QED
  BY <1>2, <1>3, <1>4, <1>5 DEF Weigh

LEMMA WatchStep == Typed /\ Watchful /\ [Next]_vars => Watchful'
<1> SUFFICES ASSUME Typed, Watchful, [Next]_vars PROVE Watchful'
  OBVIOUS
<1>1. loop \in Loops /\ (stage \in InHand => at \in File /\ size[at] \in Nat)
  BY SizesTyped DEF Typed, ServerTyped, WorkTyped, PlaceTyped
<1>2. CASE NextFile
  <2>1. at \in File /\ UNCHANGED <<recorded, seenMaint>>
    BY <1>2 DEF NextFile, Typed, PlaceTyped, File
  <2>2. size[at] \in Nat
    BY <2>1, SizesTyped DEF Typed, ServerTyped
  <2>3. CASE EnterLoop(size[at])
    BY <2>1, <2>2, <2>3, FreshWatch
  <2>4. CASE stage' \notin InLoop
    BY <2>1, <2>4, OutOfLoop
  <2> QED
    BY <1>2, <2>3, <2>4, FileEndsLeaves DEF NextFile, NextData, NextTempdb, NextLog, BeginTruncate,
       Begin, End, InLoop
<1>3. CASE LastFile \/ PollReuse \/ BeginLog
  <2>1. UNCHANGED <<recorded, seenMaint>>
    BY <1>3 DEF LastFile, PollReuse, BeginLog, probe
  <2>2. stage' \notin InLoop
    BY <1>3, FileEndsLeaves DEF LastFile, PollReuse, BeginLog, Begin, End, InLoop
  <2> QED
    BY <2>1, <2>2, OutOfLoop
<1>4. CASE Watched
  <2>1. stage = "watched" /\ at \in File /\ size[at] \in Nat /\ UNCHANGED <<recorded, seenMaint>>
    BY <1>1, <1>4 DEF Watched, InHand
  <2>2. CASE EnterLoop(size[at])
    BY <2>1, <2>2, FreshWatch
  <2>3. CASE stage' \notin InLoop
    BY <2>1, <2>3, OutOfLoop
  <2>4. ASSUME NEW o \in Outcome, After(o) PROVE Watchful'
    BY <2>2, <2>3, <2>4, FileEndsLeaves DEF After, AfterData, AfterTempdb, AfterLog, End, GoOn, InLoop
  <2>5. CASE WatchedReturns
    BY <2>3, <2>4, <2>5, FileEndsLeaves DEF WatchedReturns, Outcome
  <2>6. CASE WatchedSample
    BY <2>1, <2>3, <2>4, <2>6 DEF WatchedSample, Outcome, InLoop
  <2>7. CASE WatchedBlind \/ WatchedStop
    BY <2>4, <2>7 DEF WatchedBlind, WatchedStop, Outcome
  <2> QED
    BY <1>4, <2>5, <2>6, <2>7 DEF Watched
<1>5. CASE LoopTop
  <2>1. CASE UNCHANGED <<where, probe, loop>>
    BY <1>5, <2>1, SameWatch DEF LoopTop, where, probe, Suspected, InLoop
  <2> QED
    BY <1>5, <2>1, LeaveWatch DEF LoopTop, InLoop
<1>6. CASE IssueChunk
  <2>1. loop'.maint = loop.maint /\ UNCHANGED <<at, tail, recorded, seenMaint>> /\ stage \in InLoop
    BY <1>1, <1>6 DEF IssueChunk, Loops, where, probe, InLoop
  <2> QED
    BY <2>1, SameWatch DEF Suspected
<1>7. CASE Relief
  <2>1. CASE Relieved
    BY <1>7, <2>1, SameWatch DEF Relief, Relieved, where, probe, Suspected, InLoop
  <2> QED
    BY <1>7, <2>1, LeaveWatch DEF Relief, ReliefStopped, ReliefTimesOut, ReliefBlind, InLoop
<1>8. CASE Waited
  <2>1. loop'.maint = loop.maint /\ UNCHANGED <<at, tail, recorded, seenMaint>> /\ stage \in InLoop
    BY <1>1, <1>8 DEF Waited, Loops, where, probe, InLoop
  <2> QED
    BY <2>1, SameWatch DEF Suspected
<1>9. CASE Fails
  <2>1. UNCHANGED <<tail, seenMaint>> /\ stage' \notin InLoop
    BY <1>9 DEF Fails, End, InLoop
  <2>2. CASE stage \in InLoop
    <3>1. recorded' \subseteq recorded \cup {Blocker(FALSE)}
      BY <1>9 DEF Fails
    <3>2. tail'.maint => Suspected
      BY <2>1 DEF Suspected
    <3> QED
      BY <2>1, <2>2, <3>1, <3>2, BlockerWatch
  <2>3. CASE stage \notin InLoop
    <3>1. recorded' = recorded
      BY <1>9, <2>3 DEF Fails, InLoop
    <3> QED
      BY <2>1, <3>1, OutOfLoop
  <2> QED
    BY <2>2, <2>3
<1>10. CASE Environment
  BY <1>10 DEF Environment, Moves, Answers, Grows, AskStop, Hang, where, probe, Watchful,
     TransientIsOurs, Suspected
<1>11. CASE UNCHANGED vars
  BY <1>11 DEF vars, where, probe, Watchful, TransientIsOurs, Suspected
<1> QED
  BY <1>2, <1>3, <1>4, <1>5, <1>6, <1>7, <1>8, <1>9, <1>10, <1>11, ChunkWatch, WeighWatch
  DEF Next, Driver

----------------------------------------------------------------------------
(* Theorems *)

(* The inductive invariant of a shrink.                                      *)
LEMMA DriverInvariant == Spec => []DriverInv
<1>1. Init => DriverInv
  <2>1. Init => Watchful
    BY FreshLoop DEF Init, Watchful, TransientIsOurs, InLoop
  <2> QED
    BY <2>1, TypeInit, BudgetInit, ReportInit DEF DriverInv
<1>2. DriverInv /\ [Next]_vars => DriverInv'
  BY TypeStep, BudgetStep, ReportStep, WatchStep DEF DriverInv
<1> QED
  BY <1>1, <1>2, PTL DEF Spec

(* Every variable keeps its type: no step leaves a file's own bounds, the    *)
(* loop's step stays between MinStep and the file's ceiling, its wait under  *)
(* the longest backoff (chunkLoop, AdjustStep, InitialStep).                 *)
THEOREM DriverTyped == Spec => []TypeOK
<1>1. DriverInv => TypeOK
  <2> SUFFICES ASSUME Typed PROVE TypeOK
    BY DEF DriverInv
  <2>1. /\ op \in Op /\ {used, snap, size} \subseteq Sizes
        /\ statement.state \in {"idle", "running", "ended", "failed"} /\ statement.target \in Nat
        /\ drain \in BOOLEAN /\ hung \subseteq {"blocking", "log"}
    BY DEF Typed, ServerTyped, States
  <2>2. /\ at \in 1 .. Files + 1 /\ pass \in {"truncate", "chunks"}
        /\ stage \in {"next", "logready", "reuse", "watched", "loop", "issue", "chunk", "relief",
                      "weigh", "backoff", "done"}
    BY DEF Typed, PlaceTyped, InHand, InLoop
  <2>3. /\ waits \in Nat /\ flushed \in BOOLEAN /\ flushes \in Nat /\ seenMaint \subseteq File
        /\ verdict \in {"none", "nil", "stopped", "blind", "failed"}
    BY DEF Typed, WorkTyped, Verdicts
  <2>4. /\ {loop.start, loop.noProgress, loop.waited, loop.seen} \subseteq Nat
        /\ loop.attempts \in Nat /\ loop.cause \in {"none", "pressure", "blind"}
        /\ loop.current \in Nat /\ loop.step \in Nat /\ loop.backoff \in Nat \ {0}
    BY DEF Typed, WorkTyped, Loops
  <2>5. /\ loop.current \in 0 .. loop.start /\ loop.step \in MinStep .. Ceiling
        /\ loop.backoff \in 1 .. Greatest(Backoff, BackoffMax)
    <3>1. loop.start \in Nat
      BY <2>4
    <3>2. Ceiling \in Nat
      BY CeilingInLoop DEF Typed
    <3>3. Greatest(Backoff, BackoffMax) \in Nat
      BY Numbers DEF Greatest
    <3>4. /\ loop.current <= loop.start /\ MinStep <= loop.step /\ loop.step <= Ceiling
          /\ loop.backoff <= Greatest(Backoff, BackoffMax)
      BY DEF Typed, LoopBounded
    <3> QED
      BY <2>4, <3>1, <3>2, <3>3, <3>4, Numbers
  <2>6. {loop.maint, tail.entry, tail.maint} \subseteq BOOLEAN
    <3>1. loop.maint \in BOOLEAN /\ tail.entry \in BOOLEAN /\ tail.maint \in BOOLEAN
      BY DEF Typed, WorkTyped, Loops
    <3> QED
      BY <3>1
  <2>7. \A r \in recorded : r.file \in File
    BY DEF Typed, WorkTyped, Blockers
  <2>8. \A i \in DOMAIN results : results[i].file \in File /\ results[i].reason \in Reasons
    <3>1. results \in Seq(Results)
      BY DEF Typed, WorkTyped
    <3>2. \A i \in DOMAIN results : results[i] \in Results
      BY <3>1
    <3> QED
      BY <3>2 DEF Results
  <2> QED
    BY <2>1, <2>2, <2>3, <2>4, <2>5, <2>6, <2>7, <2>8 DEF TypeOK
<1> QED
  BY <1>1, DriverInvariant, PTL

(* The chunks of a file are paid for by what they gained and by one budget   *)
(* without a gain, or two when the caches were flushed; they are flushed at  *)
(* most once in an operation (stall, chunkLoop).                             *)
THEOREM EffortIsBounded == Spec => []EffortBounded
<1>1. DriverInv => EffortBounded
  BY DEF DriverInv, Budgeted, EffortBounded, FlushedOnce
<1> QED
  BY <1>1, DriverInvariant, PTL

(* An operation that ends without an error has a result for every file, and  *)
(* one that falls short says why; a blocker is called transient only when    *)
(* maintenance was seen blocking that file (keepsPartialResult, tailProbe).  *)
THEOREM FilesAreReported == Spec => []FilesReported
<1>1. DriverInv => FilesReported
  <2> SUFFICES ASSUME DriverInv PROVE ShortIsTold /\ TransientIsOurs
    BY DEF FilesReported
  <2>1. TransientIsOurs
    BY DEF DriverInv, Watchful
  <2>2. ASSUME verdict = "nil", op.kind # "log"
        PROVE  /\ {results[i].file : i \in DOMAIN results} = File
               /\ \A i \in DOMAIN results :
                    results[i].mb > results[i].target => results[i].reason # "" /\ ~results[i].noop
    <3>1. FilesTold = File /\ \A i \in DOMAIN results : Told(results[i])
      BY <2>2 DEF DriverInv, Reported
    <3> QED
      BY <3>1 DEF FilesTold, Told, Explained
  <2> QED
    BY <2>1, <2>2 DEF ShortIsTold
<1> QED
  BY <1>1, DriverInvariant, PTL

=============================================================================
