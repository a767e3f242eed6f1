------------------------- MODULE VictimKillerProofs -------------------------
(***************************************************************************)
(* The victim killer, for any number of sessions and offenders and any     *)
(* budget, dwell and grace window: no more KILLs reach an offender than    *)
(* were budgeted, the debt that justifies one was served under our eyes,   *)
(* and nobody is killed twice within the grace window.                     *)
(***************************************************************************)
EXTENDS VictimKiller, FiniteSetTheorems, WellFoundedInduction, TLAPS

Sessions == [who : Identity, eligible : BOOLEAN] \cup {NoSession}
Episodes == [state : {"none", "dwelling", "killed", "failed"}, age : 0..Grace]
Calls    == [stage : {"idle", "chosen", "killing", "reading"}, targets : Seq(Target),
             blocked : SUBSET Sid, waited : 0..KillTimeout]

FlagsTyped == /\ armed \in BOOLEAN /\ polled \in BOOLEAN /\ missed \in BOOLEAN
              /\ pump \in {"off", "on"} /\ (~armed => pump = "off")

ScanTyped == /\ session \in [Sid -> Sessions]
             /\ bucket \in [Identity -> Bucket] /\ \A i \in Identity : bucket[i].kills <= MaxKills
             /\ episode \in [Sid -> Episodes]

CallsTyped == /\ call \in [Pump -> Calls]
              /\ \A p \in Pump : call[p].stage \in {"chosen", "killing"} <=> call[p].targets # <<>>

HistoryTyped == /\ since \in Off..BlockingTimeout
                /\ landed \in [Identity -> Nat] /\ lost \in [Identity -> Nat]
                /\ stale \in [Identity -> Nat]
                /\ seenLast \in SUBSET Identity /\ gap \in 0..Dwell
                /\ witnessed \in [Identity -> 0..Dwell]
                /\ struck \in [Sid -> Off..(Grace - 1)]

Typed == FlagsTyped /\ ScanTyped /\ CallsTyped /\ HistoryTyped

(* Debt is banked only from a mark, a mark is left only by a poll that found   *)
(* the offender eligible, and it is no older than the last poll.               *)
Banked == \A i \in Identity :
            /\ bucket[i].accrued <= witnessed[i]
            /\ bucket[i].mark # Off => i \in seenLast /\ bucket[i].mark <= gap

TargetOf(p, n) == call[p].targets[n]
Places(p) == DOMAIN call[p].targets

(* No call kills a session twice.                                              *)
Distinct == \A p \in Pump : \A m, n \in Places(p) :
              TargetOf(p, m).sid = TargetOf(p, n).sid => m = n

(* The sessions a call has yet to kill on the budget of an offender.           *)
Ours(p, i) == {s \in Sid : \E n \in Places(p) :
                 LET t == TargetOf(p, n) IN t.sid = s /\ t.who = i /\ t.ours}

(* How many of them there are.                                                 *)
Share(p, i) == Cardinality(Ours(p, i))
Load(i) == Share("current", i) + Share("straggler", i)

(* A KILL is booked before it is issued, and leaves the book only as a refund; *)
(* one that was delivered and refunded is one that was lost.                   *)
Budgeted == \A i \in Identity : landed[i] + Load(i) <= bucket[i].kills + lost[i] + stale[i]

(* A session struck within the window has its episode, of the same age.        *)
Remembered == \A s \in Sid : struck[s] # Off =>
                episode[s].state = "killed" /\ episode[s].age = struck[s]

(* A reservation that may still take an episode back is the one that made it.  *)
Linked ==
  \A p \in Pump : \A n \in Places(p) : TargetOf(p, n).linked =>
    /\ episode[TargetOf(p, n).sid].state = "killed"
    /\ ~TargetOf(p, n).same => struck[TargetOf(p, n).sid] = Off

LinkedOnce ==
  \A s \in Sid : \A m \in Places("current") : \A n \in Places("straggler") :
    TargetOf("current", m).sid = s /\ TargetOf("straggler", n).sid = s
      => ~(TargetOf("current", m).linked /\ TargetOf("straggler", n).linked)

-----------------------------------------------------------------------------
(* Buckets.                                                                   *)

LEMMA Sizes ==
  /\ Dwell \in Nat /\ MaxKills \in Nat /\ MaxKills > 0 /\ Window \in Nat
  /\ Grace \in Nat /\ Grace > 0 /\ KillTimeout \in Nat /\ KillTimeout > 0
  /\ BlockingTimeout \in Nat /\ IsFiniteSet(Sid)
  BY VictimAssumption, RecidivismAssumption

LEMMA NoBucketTyped == NoBucket \in Bucket
  BY Sizes DEF NoBucket, Bucket, Off

LEMMA PruneTyped ==
  ASSUME NEW b \in Bucket
  PROVE  Prune(b) \in Bucket /\ (Prune(b) = b \/ Prune(b) = NoBucket)
  BY NoBucketTyped DEF Prune

(* What the writers of a bucket do to each of its fields.                     *)
LEMMA MarkForgotten ==
  ASSUME NEW b \in Bucket
  PROVE  /\ ForgetMark(b) \in Bucket /\ ForgetMark(b).kills = b.kills
         /\ ForgetMark(b).mark = Off /\ ForgetMark(b).accrued = b.accrued
  BY Sizes DEF ForgetMark, Bucket, Off

LEMMA AccruedSince ==
  ASSUME NEW b \in Bucket
  PROVE  /\ AccrueSince(b) \in Bucket /\ AccrueSince(b).kills = b.kills
         /\ AccrueSince(b).mark = 0
         /\ AccrueSince(b).accrued = UpTo(b.accrued + (IF b.mark = Off THEN 0 ELSE b.mark), Dwell)
<1> DEFINE d == IF b.mark = Off THEN 0 ELSE b.mark
           a == UpTo(b.accrued + d, Dwell)
<1>1. d \in 0..Dwell /\ a \in 0..Dwell
  BY Sizes DEF Bucket, Off, UpTo
<1>2. Touch(b) \in Bucket /\ Touch(b).kills = b.kills
  BY Sizes DEF Touch, Bucket, Off
<1>3. Accrue(b, d) \in Bucket /\ Accrue(b, d).kills = b.kills /\ Accrue(b, d).accrued = a
  BY <1>1, <1>2 DEF Accrue, Bucket
<1>4. AccrueSince(b) = [Accrue(b, d) EXCEPT !.mark = 0]
  BY DEF AccrueSince
<1> QED
  BY <1>3, <1>4, Sizes DEF Bucket, Off

LEMMA Touched ==
  ASSUME NEW b \in Bucket
  PROVE  /\ Touch(b) \in Bucket /\ Touch(b).kills = b.kills
         /\ Touch(b).mark = b.mark /\ Touch(b).accrued = b.accrued
  BY Sizes DEF Touch, Bucket, Off

LEMMA KillsRecorded ==
  ASSUME NEW b \in Bucket, NEW n \in Nat
  PROVE  /\ RecordKills(b, n) \in Bucket /\ RecordKills(b, n).kills = b.kills + n
         /\ RecordKills(b, n).mark = b.mark /\ RecordKills(b, n).accrued = b.accrued
  BY Touched DEF RecordKills, Bucket

LEMMA Escalated ==
  ASSUME NEW b \in Bucket
  PROVE  /\ Escalate(b) \in Bucket /\ Escalate(b).kills = b.kills
         /\ Escalate(b).mark = b.mark /\ Escalate(b).accrued = b.accrued
  BY Touched DEF Escalate, Bucket

LEMMA Undone ==
  ASSUME NEW b \in Bucket
  PROVE  /\ UndoKill(b) \in Bucket /\ UndoKill(b).mark = b.mark
         /\ UndoKill(b).accrued = b.accrued
         /\ UndoKill(b).kills = IF b.kills > 0 THEN b.kills - 1 ELSE 0
  BY DEF UndoKill, Bucket

LEMMA Aged ==
  ASSUME NEW b \in Bucket
  PROVE  /\ OlderBucket(b) \in Bucket /\ OlderBucket(b).kills = b.kills
         /\ OlderBucket(b).accrued = b.accrued
         /\ OlderBucket(b).mark = AgeUpTo(b.mark, Dwell)
<1>1. AgeUpTo(b.mark, Dwell) \in Off..Dwell /\ AgeUpTo(b.idle, Window + 1) \in Off..(Window + 1)
  BY Sizes DEF Bucket, AgeUpTo, UpTo, Off
<1> DEFINE c == [b EXCEPT !.mark = AgeUpTo(b.mark, Dwell)]
<1>2. c \in Bucket /\ c.kills = b.kills /\ c.accrued = b.accrued /\ c.mark = AgeUpTo(b.mark, Dwell)
      /\ c.idle = b.idle
  BY <1>1 DEF Bucket
<1>3. OlderBucket(b) = [c EXCEPT !.idle = AgeUpTo(b.idle, Window + 1)]
  BY Zenon DEF OlderBucket
<1> QED
  BY <1>1, <1>2, <1>3 DEF Bucket

-----------------------------------------------------------------------------
(* The scan.                                                                  *)

(* Something finite and not empty has an element of least value.              *)
LEMMA LeastValue ==
  ASSUME NEW C, C # {}, NEW f \in [C -> Nat]
  PROVE  \E s \in C : \A t \in C : f[s] <= f[t]
<1> DEFINE less == {p \in Nat \X Nat : p[1] < p[2]}
           V == {f[t] : t \in C}
<1>1. IsWellFoundedOn(less, Nat)
  BY NatLessThanWellFounded DEF OpToRel
<1>2. V \in SUBSET Nat /\ V # {}
  OBVIOUS
<1>3. PICK v \in V : \A w \in V : ~(<<w, v>> \in less)
  BY <1>1, <1>2, WFMin
<1>4. PICK s \in C : v = f[s]
  OBVIOUS
<1>5. ASSUME NEW t \in C PROVE f[s] <= f[t]
  <2>1. f[t] \in V /\ f[t] \in Nat /\ f[s] \in Nat
    OBVIOUS
  <2>2. ~(f[t] < f[s])
    BY <1>3, <1>4, <2>1
  <2> QED
    BY <2>1, <2>2
<1> QED
  BY <1>5

(* The place of a session in the snapshot is its own.                         *)
LEMMA PlaceFound ==
  ASSUME NEW S, IsFiniteSet(S), NEW order \in SetToSeqs(S), NEW s \in S
  PROVE  Place(order, s) \in 1..Cardinality(S) /\ order[Place(order, s)] = s
<1> DEFINE D == 1..Cardinality(S)
<1>1. Cardinality(S) \in Nat
  BY FS_CardinalityType
<1>2. order \in [D -> S] /\ \A m, n \in D : m # n => order[m] # order[n]
  BY DEF SetToSeqs
<1>3. IsFiniteSet(D) /\ Cardinality(D) = Cardinality(S)
  BY <1>1, FS_Interval
<1>4. order \in Injection(D, S)
  BY <1>2 DEF Injection, IsInjective
<1>5. order \in Surjection(D, S)
  BY <1>3, <1>4, FS_Injection
<1>6. \E n \in DOMAIN order : order[n] = s
  BY <1>2, <1>5 DEF Surjection
<1> QED
  BY <1>2, <1>6 DEF Place

Mine(i) == {s \in Eligible : session[s].who = i}
Booked(order, i) == Mine(i) \cap Chosen(order)

LEMMA EligibleFinite ==
  /\ IsFiniteSet(Eligible) /\ Eligible \subseteq Sid
  /\ \A T \in SUBSET Sid : IsFiniteSet(T) /\ Cardinality(T) \in Nat
<1>1. \A T \in SUBSET Sid : IsFiniteSet(T) /\ Cardinality(T) \in Nat
  BY Sizes, FS_Subset, FS_CardinalityType
<1> QED
  BY <1>1 DEF Eligible

LEMMA EligibleSession ==
  ASSUME ScanTyped, NEW s \in Eligible
  PROVE  session[s].who \in Identity /\ s \in Sid /\ session[s] # NoSession
<1>1. session[s] \in Sessions /\ session[s].eligible
  BY DEF Eligible, ScanTyped
<1>2. session[s] # NoSession
  BY <1>1 DEF NoSession
<1> QED
  BY <1>1, <1>2 DEF Sessions, Eligible

LEMMA PrunedTyped ==
  ASSUME ScanTyped, NEW i \in Identity
  PROVE  /\ Pruned[i] \in Bucket /\ Pruned[i].kills <= MaxKills
         /\ Forgotten(i) => Pruned[i] = NoBucket
         /\ ~Forgotten(i) => Pruned[i] = bucket[i]
<1>1. bucket[i] \in Bucket /\ bucket[i].kills <= MaxKills
  BY DEF ScanTyped
<1>2. Pruned[i] = Prune(bucket[i])
  BY DEF Pruned
<1>3. NoBucket.kills <= MaxKills
  BY Sizes DEF NoBucket
<1> QED
  BY <1>1, <1>2, <1>3, PruneTyped DEF Forgotten

(* The KILLs of a scan fit the budget that was left, in whatever order the    *)
(* snapshot lists the sessions.                                               *)
LEMMA ScanInBudget ==
  ASSUME ScanTyped, NEW order \in SetToSeqs(Eligible), NEW i \in Identity
  PROVE  /\ IsFiniteSet(Booked(order, i)) /\ Cardinality(Booked(order, i)) \in Nat
         /\ Pruned[i].kills + Cardinality(Booked(order, i)) <= MaxKills
<1> DEFINE C == Booked(order, i)
<1>0. C \subseteq Eligible /\ IsFiniteSet(C) /\ Cardinality(C) \in Nat
  BY EligibleFinite DEF Booked, Mine
<1>a. Pruned[i].kills \in Nat /\ Pruned[i].kills <= MaxKills /\ MaxKills \in Nat
  BY PrunedTyped, Sizes DEF Bucket
<1>1. CASE C = {}
  <2>1. Cardinality(C) = 0
    BY <1>1, FS_EmptySet
  <2> QED
    BY <1>0, <1>a, <2>1
<1>2. CASE C # {}
  <2> DEFINE N == Cardinality(Eligible)
             f == [t \in C |-> N - Place(order, t)]
  <2>1. N \in Nat /\ \A t \in Eligible : Place(order, t) \in 1..N /\ order[Place(order, t)] = t
    BY EligibleFinite, PlaceFound
  <2> HIDE DEF C, N
  <2>2. f \in [C -> Nat]
    BY <1>0, <2>1
  <2>3. PICK s \in C : \A t \in C : f[s] <= f[t]
    BY <1>2, <2>2, LeastValue
  <2>4. \A t \in C : t # s => Place(order, t) < Place(order, s)
    <3> SUFFICES ASSUME NEW t \in C, t # s PROVE Place(order, t) < Place(order, s)
      OBVIOUS
    <3>1. N - Place(order, s) <= N - Place(order, t)
      BY <2>3
    <3>2. Place(order, t) # Place(order, s)
      BY <1>0, <2>1
    <3> QED
      BY <1>0, <2>1, <3>1, <3>2
  <2> DEFINE B == {t \in Eligible : /\ Due(t) /\ session[t].who = session[s].who
                                    /\ Place(order, t) < Place(order, s)}
  <2>5. C \ {s} \subseteq B /\ SpentBefore(order, s) = Cardinality(B)
    BY <1>0, <2>4 DEF C, Booked, Mine, Chosen, SpentBefore
  <2>6. IsFiniteSet(B) /\ Cardinality(B) \in Nat
    <3>1. B \subseteq Sid
      BY EligibleFinite
    <3> QED
      BY <3>1, EligibleFinite
  <2>7. Pruned[i].kills + Cardinality(B) < MaxKills
    BY <2>5 DEF C, Booked, Mine, Chosen, InBudget
  <2> HIDE DEF B
  <2>8. Cardinality(C) - 1 <= Cardinality(B)
    <3>1. Cardinality(C \ {s}) = Cardinality(C) - 1
      BY <1>0, FS_RemoveElement
    <3>2. Cardinality(C \ {s}) <= Cardinality(B)
      BY <2>5, <2>6, FS_Subset
    <3> QED
      BY <3>1, <3>2
  <2>9. Pruned[i].kills + Cardinality(C) <= MaxKills
    BY <1>0, <1>a, <2>6, <2>7, <2>8
  <2> QED
    BY <1>0, <2>9 DEF C
<1> QED
  BY <1>1, <1>2

(* What a scan makes of a bucket.                                             *)
LEMMA BucketScanned ==
  ASSUME ScanTyped, NEW order \in SetToSeqs(Eligible), NEW i \in Identity
  PROVE  LET b == Pruned[i]
             c == ScannedBucket(order, i)
         IN /\ c \in Bucket /\ c.kills = b.kills + Cardinality(Booked(order, i))
            /\ i \notin Observed(order) => c.mark = Off /\ c.accrued = b.accrued
            /\ i \in Observed(order) =>
                 c.mark = 0 /\ c.accrued = AccrueSince(b).accrued
<1> DEFINE b == Pruned[i]
           banked == IF Mine(i) \cap InBudget(order) = {} THEN ForgetMark(b) ELSE AccrueSince(b)
           k == Cardinality(Booked(order, i))
           booked == RecordKills(banked, k)
           c == ScannedBucket(order, i)
<1>1. b \in Bucket /\ k \in Nat /\ b.kills \in Nat
  BY PrunedTyped, ScanInBudget DEF Bucket
<1>2. c = IF Mine(i) = {} THEN ForgetMark(b)
          ELSE IF Mine(i) \subseteq InBudget(order) THEN booked ELSE Escalate(booked)
  BY DEF ScannedBucket, Mine, Booked
<1>3. i \in Observed(order) <=> Mine(i) \cap InBudget(order) # {}
  BY DEF Observed, InBudget, Mine
<1>4. Mine(i) = {} => k = 0
  BY FS_EmptySet DEF Booked
<1> HIDE DEF b, c, k
<1>5. /\ banked \in Bucket /\ banked.kills = b.kills
      /\ i \notin Observed(order) => banked.mark = Off /\ banked.accrued = b.accrued
      /\ i \in Observed(order) => banked.mark = 0 /\ banked.accrued = AccrueSince(b).accrued
  BY <1>1, <1>3, MarkForgotten, AccruedSince
<1> HIDE DEF banked
<1>6. /\ booked \in Bucket /\ booked.kills = b.kills + k
      /\ booked.mark = banked.mark /\ booked.accrued = banked.accrued
  BY <1>1, <1>5, KillsRecorded
<1>7. CASE Mine(i) = {}
  <2>1. i \notin Observed(order) /\ c = ForgetMark(b) /\ k = 0
    BY <1>2, <1>3, <1>4, <1>7
  <2> QED
    BY <1>1, <2>1, MarkForgotten DEF b, c, k
<1>8. CASE Mine(i) # {}
  <2> HIDE DEF booked
  <2>1. c = booked \/ c = Escalate(booked)
    BY <1>2, <1>8
  <2>2. c \in Bucket /\ c.kills = booked.kills /\ c.mark = booked.mark /\ c.accrued = booked.accrued
    BY <1>6, <2>1, Escalated
  <2> QED
    BY <1>5, <1>6, <2>2 DEF b, c, k
<1> QED
  BY <1>7, <1>8

-----------------------------------------------------------------------------
(* Calls.                                                                     *)

LEMMA CallFields ==
  ASSUME CallsTyped, NEW p \in Pump
  PROVE  /\ call[p] \in Calls /\ call[p].targets \in Seq(Target)
         /\ call[p].blocked \in SUBSET Sid /\ call[p].waited \in 0..KillTimeout
         /\ Places(p) = 1..Len(call[p].targets) /\ Len(call[p].targets) \in Nat
         /\ \A n \in Places(p) : TargetOf(p, n) \in Target
         /\ call[p].targets = <<>> <=> Places(p) = {}
<1>1. call[p] \in Calls
  BY DEF CallsTyped
<1>2. call[p].targets \in Seq(Target)
  BY <1>1 DEF Calls
<1>3. call[p].targets = <<>> <=> Len(call[p].targets) = 0
  BY <1>2
<1>4. call[p].blocked \in SUBSET Sid /\ call[p].waited \in 0..KillTimeout
  BY <1>1 DEF Calls
<1>5. /\ Places(p) = 1..Len(call[p].targets) /\ Len(call[p].targets) \in Nat
      /\ \A n \in Places(p) : TargetOf(p, n) \in Target
  BY <1>2 DEF Places, TargetOf
<1>6. call[p].targets = <<>> <=> Places(p) = {}
  BY <1>3, <1>5
<1> QED
  BY <1>1, <1>2, <1>4, <1>5, <1>6

(* A rewriting of the targets of a call, one by one.                          *)
LEMMA SameShape ==
  ASSUME NEW S, NEW q \in Seq(S), NEW g \in [DOMAIN q -> Target]
  PROVE  g \in Seq(Target) /\ DOMAIN g = DOMAIN q /\ (g # <<>> <=> q # <<>>)
<1>1. DOMAIN q = 1..Len(q) /\ Len(q) \in Nat
  OBVIOUS
<1>2. g \in Seq(Target) /\ Len(g) = Len(q)
  BY <1>1
<1> QED
  BY <1>1, <1>2

LEMMA NoCallTyped == NoCall \in Calls /\ NoCall.targets = <<>> /\ NoCall.stage = "idle"
  BY Sizes DEF NoCall, Calls

(* After a KILL has settled: the rest of the targets, or the end of the call. *)
LEMMA NextKilled ==
  ASSUME CallsTyped, NEW p \in Pump, call[p].stage = "killing", NextKill(p)
  PROVE  /\ CallsTyped'
         /\ \A q \in Pump \ {p} : call'[q] = call[q]
         /\ 1 \in Places(p) /\ InFlight(p) = TargetOf(p, 1) /\ TargetOf(p, 1) \in Target
         /\ \A n \in Places(p)' : n \in Nat /\ n + 1 \in Places(p) /\ n + 1 # 1
                                  /\ TargetOf(p, n)' = TargetOf(p, n + 1)
<1> DEFINE q == call[p].targets
           c == call'[p]
<1>1. q \in Seq(Target) /\ Len(q) \in Nat /\ q # <<>> /\ Len(q) # 0 /\ Places(p) = 1..Len(q)
  BY CallFields DEF CallsTyped
<1>2. call[p] \in Calls
  BY CallFields
<1>3. \A r \in Pump \ {p} : call'[r] = call[r]
  BY DEF NextKill, CallsTyped
<1>4. 1 \in Places(p) /\ InFlight(p) = TargetOf(p, 1) /\ TargetOf(p, 1) \in Target
  BY <1>1, CallFields DEF InFlight, TargetOf
<1>5. CASE Len(q) = 1
  <2>1. c = EndCall(p)
    BY <1>5 DEF NextKill, CallsTyped
  <2>2. EndCall(p) \in Calls /\ EndCall(p).targets = <<>> /\ EndCall(p).stage \in {"reading", "idle"}
    <3> DEFINE d == [call[p] EXCEPT !.stage = "reading"]
               e == [d EXCEPT !.targets = <<>>]
               f == [e EXCEPT !.waited = 0]
    <3>1. d \in Calls /\ d.stage = "reading"
      BY <1>2 DEF Calls
    <3>2. e \in Calls /\ e.stage = "reading" /\ e.targets = <<>>
      <4> HIDE DEF d
      <4>1. <<>> \in Seq(Target)
        OBVIOUS
      <4> QED
        BY <3>1, <4>1 DEF Calls
    <3>3. f \in Calls /\ f.stage = "reading" /\ f.targets = <<>>
      <4> HIDE DEF e
      <4> QED
        BY <3>2, Sizes DEF Calls
    <3>4. EndCall(p) = f \/ EndCall(p) = NoCall
      BY Zenon DEF EndCall
    <3> HIDE DEF f
    <3> QED
      BY <3>3, <3>4, NoCallTyped
  <2> HIDE DEF c
  <2>3. c \in Calls /\ c.targets = <<>> /\ c.stage \in {"reading", "idle"}
    BY <2>1, <2>2
  <2>4. Places(p)' = {}
    BY <2>3 DEF Places, c
  <2>5. CallsTyped'
    BY <1>3, <2>3 DEF CallsTyped, NextKill, c
  <2> QED
    BY <1>3, <1>4, <2>4, <2>5
<1>6. CASE Len(q) # 1
  <2> DEFINE d == [call[p] EXCEPT !.targets = Tail(q)]
             e == [d EXCEPT !.waited = 0]
  <2>0. c = [call[p] EXCEPT !.targets = Tail(@), !.waited = 0]
    BY <1>6 DEF NextKill, CallsTyped
  <2>1. c = e
    BY <2>0, Zenon
  <2>2. Tail(q) \in Seq(Target) /\ Len(Tail(q)) = Len(q) - 1 /\ \A n \in 1..(Len(q) - 1) : Tail(q)[n] = q[n + 1]
    BY <1>1
  <2>a. Tail(q) # <<>> /\ DOMAIN Tail(q) = 1..(Len(q) - 1)
    <3> HIDE DEF q
    <3> QED
      BY <1>1, <1>6, <2>2
  <2>3. d \in Calls /\ d.targets = Tail(q) /\ d.stage = "killing"
    <3> HIDE DEF q
    <3> QED
      BY <1>2, <2>2 DEF Calls
  <2>4. e \in Calls /\ e.targets = Tail(q) /\ e.stage = "killing"
    <3> HIDE DEF d, q
    <3>1. e \in Calls /\ e.targets = d.targets /\ e.stage = d.stage
      BY <2>3, Sizes DEF Calls
    <3> QED
      BY <2>3, <3>1
  <2> HIDE DEF c, e
  <2>5. c \in Calls /\ c.targets = Tail(q) /\ c.stage = "killing"
    BY <2>1, <2>4
  <2>6. CallsTyped'
    BY <1>3, <2>a, <2>5 DEF CallsTyped, NextKill, c
  <2>7. ASSUME NEW n \in Places(p)' PROVE n \in Nat /\ n + 1 \in Places(p) /\ n + 1 # 1
                                          /\ TargetOf(p, n)' = TargetOf(p, n + 1)
    <3>1. n \in 1..(Len(q) - 1) /\ TargetOf(p, n)' = Tail(q)[n]
      BY <2>a, <2>5 DEF Places, TargetOf, c
    <3> QED
      BY <1>1, <2>2, <3>1 DEF TargetOf
  <2> QED
    BY <1>3, <1>4, <2>6, <2>7
<1> QED
  BY <1>5, <1>6

(* When a statement ends, its call is left over or gone.                      *)
LEMMA OrphanedCalls ==
  ASSUME CallsTyped, CanEnd
  PROVE  /\ Orphaned \in [Pump -> Calls]
         /\ \A p \in Pump : Orphaned[p].stage \in {"chosen", "killing"} <=> Orphaned[p].targets # <<>>
         /\ Orphaned["current"] = NoCall
         /\ \/ /\ Orphaned["straggler"].targets = call["current"].targets
               /\ call["straggler"] = NoCall
            \/ /\ Orphaned["straggler"] = call["straggler"]
               /\ call["current"].targets = <<>>
<1> DEFINE pending == call["current"].stage \in {"chosen", "killing"}
           left == [call["current"] EXCEPT !.blocked = {}]
<1>1. call \in [Pump -> Calls] /\ "current" \in Pump /\ "straggler" \in Pump
  BY DEF CallsTyped, Pump
<1>2. call["current"] \in Calls /\ (pending <=> call["current"].targets # <<>>)
  BY <1>1 DEF CallsTyped
<1>3. left \in Calls /\ left.targets = call["current"].targets /\ left.stage = call["current"].stage
  BY <1>2 DEF Calls
<1>4. /\ Orphaned = [call EXCEPT !["current"] = NoCall,
                                 !["straggler"] = IF pending THEN left ELSE call["straggler"]]
      /\ Orphaned \in [Pump -> Calls]
      /\ Orphaned["current"] = NoCall
      /\ Orphaned["straggler"] = IF pending THEN left ELSE call["straggler"]
  <2> DEFINE c == [call EXCEPT !["current"] = NoCall]
             d == [c EXCEPT !["straggler"] = IF pending THEN left ELSE call["straggler"]]
  <2> HIDE DEF left, pending
  <2>1. c \in [Pump -> Calls] /\ c["current"] = NoCall /\ c["straggler"] = call["straggler"]
    BY <1>1, NoCallTyped
  <2>2. d \in [Pump -> Calls] /\ d["current"] = NoCall
        /\ d["straggler"] = IF pending THEN left ELSE call["straggler"]
    <3> HIDE DEF c
    <3> QED
      BY <1>1, <1>3, <2>1
  <2>3. Orphaned = d
    BY <1>1, <2>1, Zenon DEF Orphaned, left, pending
  <2> QED
    BY <2>2, <2>3, Zenon
<1> HIDE DEF left
<1>5. \A p \in Pump : Orphaned[p].stage \in {"chosen", "killing"} <=> Orphaned[p].targets # <<>>
  BY <1>1, <1>2, <1>3, <1>4, NoCallTyped DEF CallsTyped, Pump
<1> QED
  BY <1>2, <1>3, <1>4, <1>5 DEF CanEnd

WithTargets(c, g) == [c EXCEPT !.targets = g]

LEMMA Rewritten ==
  ASSUME NEW c \in Calls, NEW g \in [DOMAIN c.targets -> Target]
  PROVE  /\ WithTargets(c, g) \in Calls /\ WithTargets(c, g).targets = g
         /\ WithTargets(c, g).stage = c.stage
         /\ DOMAIN g = DOMAIN c.targets /\ (g # <<>> <=> c.targets # <<>>)
<1>1. c.targets \in Seq(Target)
  BY DEF Calls
<1>2. g \in Seq(Target) /\ DOMAIN g = DOMAIN c.targets /\ (g # <<>> <=> c.targets # <<>>)
  BY <1>1, SameShape
<1> QED
  BY <1>2 DEF Calls, WithTargets

(* What the retelling of a target keeps of it.                                *)
Retell(t, a, b) == [t EXCEPT !.linked = a, !.ours = b]

LEMMA Retold ==
  ASSUME NEW t \in Target, NEW a \in BOOLEAN, NEW b \in BOOLEAN
  PROVE  /\ Retell(t, a, b) \in Target /\ Retell(t, a, b).sid = t.sid
         /\ Retell(t, a, b).who = t.who /\ Retell(t, a, b).same = t.same
         /\ Retell(t, a, b).linked = a /\ Retell(t, a, b).ours = b
<1> DEFINE d == [t EXCEPT !.linked = a]
           e == [d EXCEPT !.ours = b]
<1>1. d \in Target /\ d.sid = t.sid /\ d.who = t.who /\ d.linked = a /\ d.same = t.same
  BY DEF Target
<1>2. e \in Target /\ e.sid = d.sid /\ e.who = d.who /\ e.linked = d.linked /\ e.ours = b
      /\ e.same = d.same
  <2> HIDE DEF d
  <2> QED
    BY <1>1 DEF Target
<1>3. Retell(t, a, b) = e
  BY Zenon DEF Retell
<1> QED
  BY <1>1, <1>2, <1>3

LEMMA RereadCalls ==
  ASSUME CallsTyped, NEW order, NEW p \in Pump
  PROVE  LET d == Reread(order)[p]
         IN /\ d \in Calls /\ d.stage = call[p].stage /\ DOMAIN d.targets = Places(p)
            /\ d.targets # <<>> <=> call[p].targets # <<>>
            /\ \A n \in Places(p) :
                 /\ d.targets[n].sid = TargetOf(p, n).sid /\ d.targets[n].who = TargetOf(p, n).who
                 /\ d.targets[n].same = TargetOf(p, n).same
                 /\ d.targets[n].linked => TargetOf(p, n).linked
                      /\ ScannedEpisode(order, TargetOf(p, n).sid) # NoEpisode
                 /\ d.targets[n].ours => TargetOf(p, n).ours /\ ~Forgotten(TargetOf(p, n).who)
<1> DEFINE q == call[p].targets
           A(t) == t.linked /\ ScannedEpisode(order, t.sid) # NoEpisode
           B(t) == t.ours /\ ~Forgotten(t.who)
           u(t) == Retell(t, A(t), B(t))
           g == [n \in DOMAIN q |-> u(q[n])]
<1>1. call[p] \in Calls /\ DOMAIN q = Places(p) /\ \A n \in DOMAIN q : q[n] = TargetOf(p, n) /\ q[n] \in Target
  BY CallFields DEF Places, TargetOf
<1>2. Reread(order)[p] = WithTargets(call[p], g)
  BY Zenon DEF Reread, Retarget, WithTargets, Retell
<1>3. ASSUME NEW n \in DOMAIN q
      PROVE  /\ u(q[n]) \in Target /\ u(q[n]).sid = q[n].sid /\ u(q[n]).who = q[n].who
             /\ u(q[n]).linked = A(q[n]) /\ u(q[n]).ours = B(q[n]) /\ u(q[n]).same = q[n].same
  <2>1. A(q[n]) \in BOOLEAN /\ B(q[n]) \in BOOLEAN /\ q[n] \in Target
    BY <1>1, Zenon DEF Target
  <2> HIDE DEF A, B
  <2> QED
    BY <2>1, Retold
<1>4. g \in [DOMAIN call[p].targets -> Target] /\ \A n \in DOMAIN q : g[n] = u(q[n])
  <2> HIDE DEF u
  <2> QED
    BY <1>3
<1>5. LET d == Reread(order)[p]
      IN /\ d \in Calls /\ d.stage = call[p].stage /\ d.targets = g
         /\ DOMAIN d.targets = DOMAIN q /\ (d.targets # <<>> <=> q # <<>>)
  <2> HIDE DEF g
  <2> QED
    BY <1>1, <1>2, <1>4, Rewritten
<1> HIDE DEF u, g
<1>6. ASSUME NEW n \in Places(p)
      PROVE  LET d == Reread(order)[p]
             IN /\ d.targets[n].sid = TargetOf(p, n).sid /\ d.targets[n].who = TargetOf(p, n).who
                /\ d.targets[n].same = TargetOf(p, n).same
                /\ d.targets[n].linked => TargetOf(p, n).linked
                     /\ ScannedEpisode(order, TargetOf(p, n).sid) # NoEpisode
                /\ d.targets[n].ours => TargetOf(p, n).ours /\ ~Forgotten(TargetOf(p, n).who)
  <2>1. n \in DOMAIN q /\ q[n] = TargetOf(p, n) /\ Reread(order)[p].targets[n] = u(q[n])
    BY <1>1, <1>4, <1>5
  <2> QED
    BY <1>3, <2>1, Zenon
<1> QED
  BY <1>1, <1>5, <1>6, Zenon

LEMMA UnlinkedCalls ==
  ASSUME NEW c \in [Pump -> Calls], NEW p \in Pump
  PROVE  LET d == Unlinked(c)[p]
         IN /\ d \in Calls /\ d.stage = c[p].stage /\ DOMAIN d.targets = DOMAIN c[p].targets
            /\ d.targets # <<>> <=> c[p].targets # <<>>
            /\ \A n \in DOMAIN c[p].targets :
                 /\ d.targets[n].sid = c[p].targets[n].sid /\ d.targets[n].who = c[p].targets[n].who
                 /\ ~d.targets[n].linked /\ ~d.targets[n].ours
<1> DEFINE q == c[p].targets
           u(t) == Retell(t, FALSE, FALSE)
           g == [n \in DOMAIN q |-> u(q[n])]
<1>1. c[p] \in Calls /\ \A n \in DOMAIN q : q[n] \in Target
  BY DEF Calls
<1>2. Unlinked(c)[p] = WithTargets(c[p], g)
  BY Zenon DEF Unlinked, WithTargets, Retell
<1>3. ASSUME NEW n \in DOMAIN q
      PROVE  /\ u(q[n]) \in Target /\ u(q[n]).sid = q[n].sid /\ u(q[n]).who = q[n].who
             /\ ~u(q[n]).linked /\ ~u(q[n]).ours
  <2>1. FALSE \in BOOLEAN /\ q[n] \in Target
    BY <1>1
  <2>2. /\ u(q[n]) \in Target /\ u(q[n]).sid = q[n].sid /\ u(q[n]).who = q[n].who
        /\ u(q[n]).linked = FALSE /\ u(q[n]).ours = FALSE
    BY <2>1, Retold
  <2> QED
    BY <2>2, Zenon
<1>4. g \in [DOMAIN c[p].targets -> Target] /\ \A n \in DOMAIN q : g[n] = u(q[n])
  <2> HIDE DEF u
  <2> QED
    BY <1>3
<1>5. LET d == Unlinked(c)[p]
      IN /\ d \in Calls /\ d.stage = c[p].stage /\ d.targets = g
         /\ DOMAIN d.targets = DOMAIN q /\ (d.targets # <<>> <=> q # <<>>)
  <2> HIDE DEF g
  <2> QED
    BY <1>1, <1>2, <1>4, Rewritten
<1> HIDE DEF u, g
<1> QED
  BY <1>3, <1>4, <1>5, Zenon

(* A session under an id is replaced: what was reserved for it is not for it. *)
LEMMA ChangedCalls ==
  ASSUME CallsTyped, HistoryTyped, NEW s \in Sid, SessionChanges(s), NEW p \in Pump
  PROVE  LET d == call'[p]
         IN /\ d \in Calls /\ d.stage = call[p].stage /\ DOMAIN d.targets = Places(p)
            /\ d.targets # <<>> <=> call[p].targets # <<>>
            /\ \A n \in Places(p) :
                 /\ d.targets[n].sid = TargetOf(p, n).sid /\ d.targets[n].who = TargetOf(p, n).who
                 /\ d.targets[n].linked <=> TargetOf(p, n).linked
                 /\ d.targets[n].ours <=> TargetOf(p, n).ours
                 /\ d.targets[n].same \/ struck'[TargetOf(p, n).sid] = Off
                      \/ (~TargetOf(p, n).same /\ struck'[TargetOf(p, n).sid] = struck[TargetOf(p, n).sid])
<1>1. PICK new \in [who : Identity, eligible : BOOLEAN] \cup {NoSession} :
        LET other == new.who # session[s].who \/ new = NoSession
        IN /\ call' = Retarget(LAMBDA t : [t EXCEPT !.same = @ /\ ~(other /\ t.sid = s)])
           /\ struck' = [struck EXCEPT ![s] = IF other THEN Off ELSE @]
  BY Zenon DEF SessionChanges
<1> DEFINE other == new.who # session[s].who \/ new = NoSession
           q == call[p].targets
           A(t) == t.same /\ ~(other /\ t.sid = s)
           u(t) == [t EXCEPT !.same = A(t)]
           g == [n \in DOMAIN q |-> u(q[n])]
<1>2. call[p] \in Calls /\ DOMAIN q = Places(p) /\ \A n \in DOMAIN q : q[n] = TargetOf(p, n) /\ q[n] \in Target
  BY CallFields DEF Places, TargetOf
<1>3. call'[p] = WithTargets(call[p], g)
  BY <1>1, Zenon DEF Retarget, WithTargets
<1>a. struck' = [struck EXCEPT ![s] = IF other THEN Off ELSE struck[s]]
  BY <1>1, Zenon
<1> HIDE DEF other
<1>4. ASSUME NEW n \in DOMAIN q
      PROVE  /\ u(q[n]) \in Target /\ u(q[n]).sid = q[n].sid /\ u(q[n]).who = q[n].who
             /\ u(q[n]).linked = q[n].linked /\ u(q[n]).ours = q[n].ours /\ u(q[n]).same = A(q[n])
  <2>1. A(q[n]) \in BOOLEAN /\ q[n] \in Target
    BY <1>2, Zenon DEF Target
  <2> HIDE DEF A, q
  <2> QED
    BY <2>1 DEF Target
<1>5. g \in [DOMAIN call[p].targets -> Target] /\ \A n \in DOMAIN q : g[n] = u(q[n])
  <2> HIDE DEF u
  <2> QED
    BY <1>4
<1>6. LET d == call'[p]
      IN /\ d \in Calls /\ d.stage = call[p].stage /\ d.targets = g
         /\ DOMAIN d.targets = DOMAIN q /\ (d.targets # <<>> <=> q # <<>>)
  <2> HIDE DEF g
  <2> QED
    BY <1>2, <1>3, <1>5, Rewritten
<1> HIDE DEF u, g
<1>7. ASSUME NEW n \in Places(p)
      PROVE  LET d == call'[p]
             IN /\ d.targets[n].sid = TargetOf(p, n).sid /\ d.targets[n].who = TargetOf(p, n).who
                /\ d.targets[n].linked <=> TargetOf(p, n).linked
                /\ d.targets[n].ours <=> TargetOf(p, n).ours
                /\ d.targets[n].same \/ struck'[TargetOf(p, n).sid] = Off
                     \/ (~TargetOf(p, n).same /\ struck'[TargetOf(p, n).sid] = struck[TargetOf(p, n).sid])
  <2>1. n \in DOMAIN q /\ q[n] = TargetOf(p, n) /\ call'[p].targets[n] = u(q[n])
    BY <1>2, <1>5, <1>6
  <2>2. \/ other /\ TargetOf(p, n).sid = s /\ struck'[TargetOf(p, n).sid] = Off
        \/ /\ ~(other /\ TargetOf(p, n).sid = s)
           /\ struck'[TargetOf(p, n).sid] = struck[TargetOf(p, n).sid]
    <3>1. TargetOf(p, n).sid \in Sid /\ struck \in [Sid -> Off..(Grace - 1)]
      BY CallFields DEF Target, HistoryTyped
    <3> QED
      BY <1>a, <3>1
  <2> QED
    BY <1>4, <2>1, <2>2, Zenon
<1> QED
  BY <1>2, <1>6, <1>7, Zenon

(* The calls after a scan: what it reserved, and what earlier calls remember. *)
LEMMA ScanCalls ==
  ASSUME CallsTyped, ScanTyped, call["current"].stage = "idle",
         NEW order \in SetToSeqs(Eligible), NEW due \in SetToSeqs(Chosen(order)),
         Scan(order, due)
  PROVE  /\ CallsTyped'
         /\ call'["straggler"] = Reread(order)["straggler"]
         /\ Places("current") = {}
         /\ \A n \in Places("current")' : n \in DOMAIN due /\ due[n] \in Chosen(order)
              /\ TargetOf("current", n)' = Reserve(due[n])
         /\ \A m, n \in Places("current")' : due[m] = due[n] => m = n
<1> DEFINE D == 1..Cardinality(Chosen(order))
           q == [n \in DOMAIN due |-> Reserve(due[n])]
           c == [stage |-> IF due = <<>> THEN "reading" ELSE "chosen", targets |-> q,
                 blocked |-> {s \in Sid : session[s] # NoSession}, waited |-> 0]
<1>1. due \in [D -> Chosen(order)] /\ \A m, n \in D : m # n => due[m] # due[n]
  BY DEF SetToSeqs
<1>2. Chosen(order) \subseteq Eligible /\ Cardinality(Chosen(order)) \in Nat
  <2>1. Chosen(order) \subseteq Eligible
    BY DEF Chosen, InBudget
  <2> QED
    BY <2>1, EligibleFinite
<1>3. due \in Seq(Chosen(order))
  BY <1>1, <1>2
<1>4. ASSUME NEW s \in Chosen(order) PROVE Reserve(s) \in Target
  BY <1>2, EligibleSession, Zenon DEF Reserve, Target
<1>5. q \in [DOMAIN due -> Target]
  <2> SUFFICES ASSUME NEW n \in DOMAIN due PROVE Reserve(due[n]) \in Target
    OBVIOUS
  <2> QED
    BY <1>1, <1>4
<1>6. q \in Seq(Target) /\ DOMAIN q = DOMAIN due /\ (q # <<>> <=> due # <<>>)
  <2> HIDE DEF q
  <2> QED
    BY <1>3, <1>5, SameShape
<1>7. call'["current"] = c /\ call'["straggler"] = Reread(order)["straggler"]
      /\ call' = [Reread(order) EXCEPT !["current"] = c]
  BY DEF Scan, Pump, Reread, Retarget
<1> HIDE DEF q
<1>8. c \in Calls /\ (c.stage \in {"chosen", "killing"} <=> c.targets # <<>>) /\ c.targets = q
  BY <1>6, Sizes DEF Calls
<1> HIDE DEF c
<1>9. CallsTyped'
  <2>0. Pump = {"current", "straggler"} /\ "current" \in Pump /\ "straggler" \in Pump
    BY DEF Pump
  <2>1. LET d == Reread(order)["straggler"]
        IN d \in Calls /\ (d.stage \in {"chosen", "killing"} <=> d.targets # <<>>)
    BY <2>0, RereadCalls DEF CallsTyped
  <2>2. call' \in [Pump -> Calls]
    <3>1. DOMAIN Reread(order) = Pump
      BY DEF Reread, Retarget
    <3>2. \A p \in Pump : Reread(order)[p] \in Calls
      BY RereadCalls
    <3>3. Reread(order) = [p \in Pump |-> Reread(order)[p]]
      BY Zenon DEF Reread, Retarget
    <3>4. Reread(order) \in [Pump -> Calls]
      BY <3>2, <3>3
    <3> QED
      BY <1>7, <1>8, <3>4
  <2>3. \A p \in Pump : call'[p].stage \in {"chosen", "killing"} <=> call'[p].targets # <<>>
    BY <1>7, <1>8, <2>0, <2>1
  <2> QED
    BY <2>2, <2>3, Zenon DEF CallsTyped
<1>10. Places("current") = {}
  <2>1. "current" \in Pump /\ call["current"].targets = <<>>
    BY DEF CallsTyped, Pump
  <2> QED
    BY <2>1, CallFields
<1>11. Places("current")' = D /\ DOMAIN due = D /\ \A n \in D : TargetOf("current", n)' = Reserve(due[n])
  BY <1>1, <1>6, <1>7, <1>8 DEF Places, TargetOf, q
<1> QED
  BY <1>1, <1>7, <1>9, <1>10, <1>11

-----------------------------------------------------------------------------
(* Typing.                                                                    *)

LEMMA EpisodesAre ==
  /\ NoEpisode \in Episodes
  /\ [state |-> "killed", age |-> 0] \in Episodes
  /\ [state |-> "dwelling", age |-> 0] \in Episodes
  /\ [state |-> "failed", age |-> 0] \in Episodes
  BY Sizes DEF Episodes, NoEpisode

LEMMA EpisodeScanned ==
  ASSUME ScanTyped, NEW order, NEW s \in Sid
  PROVE  ScannedEpisode(order, s) \in Episodes
<1>1. episode[s] \in Episodes
  BY DEF ScanTyped
<1>2. \/ ScannedEpisode(order, s) = [state |-> "killed", age |-> 0]
      \/ ScannedEpisode(order, s) = [state |-> "dwelling", age |-> 0]
      \/ ScannedEpisode(order, s) = episode[s]
      \/ ScannedEpisode(order, s) = NoEpisode
  BY DEF ScannedEpisode
<1> QED
  BY <1>1, <1>2, EpisodesAre

(* A KILL that settles as a failure touches one episode and one session.      *)
LEMMA Withdrawn ==
  ASSUME Typed, NEW t \in Target, Withdraw(t)
  PROVE  /\ episode' \in [Sid -> Episodes] /\ struck' \in [Sid -> Off..(Grace - 1)]
         /\ t.sid \in Sid /\ \A s \in Sid : s # t.sid \/ ~t.linked =>
              episode'[s] = episode[s] /\ struck'[s] = struck[s]
         /\ t.linked => struck'[t.sid] = IF t.same THEN Off ELSE struck[t.sid]
<1>1. t.sid \in Sid
  BY DEF Target
<1>2. episode \in [Sid -> Episodes] /\ struck \in [Sid -> Off..(Grace - 1)]
  BY DEF Typed, ScanTyped, HistoryTyped
<1>3. Off \in Off..(Grace - 1)
  BY Sizes DEF Off
<1>4. CASE t.linked
  <2>1. episode' = [episode EXCEPT ![t.sid] = [state |-> "failed", age |-> 0]]
    BY <1>4, Zenon DEF Withdraw
  <2>2. struck' = [struck EXCEPT ![t.sid] = IF t.same THEN Off ELSE struck[t.sid]]
    BY <1>4, Zenon DEF Withdraw
  <2> QED
    BY <1>1, <1>2, <1>3, <1>4, <2>1, <2>2, EpisodesAre
<1>5. CASE ~t.linked
  <2>1. episode' = [episode EXCEPT ![t.sid] = episode[t.sid]]
    BY <1>5, Zenon DEF Withdraw
  <2>2. struck' = [struck EXCEPT ![t.sid] = struck[t.sid]]
    BY <1>5, Zenon DEF Withdraw
  <2> QED
    BY <1>1, <1>2, <1>5, <2>1, <2>2
<1> QED
  BY <1>4, <1>5

LEMMA ReachedTyped ==
  ASSUME Typed, NEW t \in Target, Reached(t)
  PROVE  /\ landed' \in [Identity -> Nat] /\ t.who \in Identity
         /\ \A i \in Identity : landed'[i] = IF i = t.who /\ t.ours THEN landed[i] + 1 ELSE landed[i]
<1>1. t.who \in Identity /\ landed \in [Identity -> Nat]
  BY DEF Target, Typed, HistoryTyped
<1>2. landed' = [landed EXCEPT ![t.who] = IF t.ours THEN landed[t.who] + 1 ELSE landed[t.who]]
  BY Zenon DEF Reached
<1> QED
  BY <1>1, <1>2

(* A refund that the answer justified, and one that it did not.               *)
LEMMA RefundedHow ==
  ASSUME Typed, NEW p \in Pump, KillRejected(p) \/ KillUnanswered(p)
  PROVE  /\ Refunded(p) /\ InFlight(p) \in Target
         /\ landed' \in [Identity -> Nat] /\ lost' \in [Identity -> Nat]
         /\ \A i \in Identity :
              \/ landed'[i] = landed[i] /\ lost'[i] = lost[i]
              \/ /\ i = InFlight(p).who /\ InFlight(p).ours
                 /\ landed'[i] = landed[i] + 1 /\ lost'[i] = lost[i] + 1
<1> DEFINE t == InFlight(p)
<1>1. Refunded(p)
  BY DEF KillRejected, KillUnanswered
<1>2. t \in Target
  BY <1>1, NextKilled DEF Refunded, Typed
<1>3. landed \in [Identity -> Nat] /\ lost \in [Identity -> Nat] /\ t.who \in Identity
  BY <1>2 DEF Typed, HistoryTyped, Target
<1>4. CASE KillRejected(p)
  BY <1>1, <1>2, <1>3, <1>4 DEF KillRejected
<1>5. CASE KillUnanswered(p)
  <2>1. Reached(t) /\ lost' = [lost EXCEPT ![t.who] = IF t.ours THEN lost[t.who] + 1 ELSE lost[t.who]]
    BY <1>5, Zenon DEF KillUnanswered
  <2>2. /\ landed' \in [Identity -> Nat]
        /\ \A i \in Identity : landed'[i] = IF i = t.who /\ t.ours THEN landed[i] + 1 ELSE landed[i]
    BY <1>2, <2>1, ReachedTyped
  <2> HIDE DEF t
  <2>3. /\ lost' \in [Identity -> Nat]
        /\ \A i \in Identity : lost'[i] = IF i = t.who /\ t.ours THEN lost[i] + 1 ELSE lost[i]
    BY <1>3, <2>1
  <2>4. ASSUME NEW i \in Identity
        PROVE  \/ landed'[i] = landed[i] /\ lost'[i] = lost[i]
               \/ i = t.who /\ t.ours /\ landed'[i] = landed[i] + 1 /\ lost'[i] = lost[i] + 1
    BY <2>2, <2>3
  <2> QED
    BY <1>1, <1>2, <2>2, <2>3, <2>4 DEF t
<1> QED
  BY <1>4, <1>5

(* A refund leaves a bucket a bucket, and one KILL richer at most.            *)
LEMMA RefundTyped ==
  ASSUME Typed, NEW w \in Identity, bucket' = [bucket EXCEPT ![w] = UndoKill(@)]
  PROVE  /\ bucket' \in [Identity -> Bucket]
         /\ \A i \in Identity :
              /\ bucket'[i].kills = IF i = w THEN (IF bucket[i].kills > 0 THEN bucket[i].kills - 1 ELSE 0)
                                    ELSE bucket[i].kills
              /\ bucket'[i].kills <= MaxKills
              /\ bucket'[i].mark = bucket[i].mark /\ bucket'[i].accrued = bucket[i].accrued
<1>1. bucket \in [Identity -> Bucket] /\ \A i \in Identity : bucket[i].kills \in Nat /\ bucket[i].kills <= MaxKills
  BY DEF Typed, ScanTyped, Bucket
<1>2. bucket' \in [Identity -> Bucket] /\ \A i \in Identity :
        bucket'[i] = IF i = w THEN UndoKill(bucket[i]) ELSE bucket[i]
  BY <1>1, Undone
<1>3. ASSUME NEW i \in Identity
      PROVE  /\ bucket'[i].kills = IF i = w THEN (IF bucket[i].kills > 0 THEN bucket[i].kills - 1 ELSE 0)
                                    ELSE bucket[i].kills
             /\ bucket'[i].kills <= MaxKills
             /\ bucket'[i].mark = bucket[i].mark /\ bucket'[i].accrued = bucket[i].accrued
  <2>1. bucket[i] \in Bucket /\ bucket[i].kills \in Nat /\ bucket[i].kills <= MaxKills
    BY <1>1
  <2> QED
    BY <1>2, <2>1, Undone, Sizes
<1> QED
  BY <1>2, <1>3

(* The whole of a call that was never started goes back at once.              *)
Held(p) == {TargetOf(p, n) : n \in Places(p)}
Refund(p, i) == Cardinality({t \in Held(p) : t.who = i})

LEMMA HeldFinite ==
  ASSUME CallsTyped, NEW p \in Pump
  PROVE  \A T \in SUBSET Held(p) : IsFiniteSet(T) /\ Cardinality(T) \in Nat
<1> DEFINE f == [n \in Places(p) |-> TargetOf(p, n)]
<1>1. Places(p) = 1..Len(call[p].targets) /\ Len(call[p].targets) \in Nat
  BY CallFields
<1>2. IsFiniteSet(Places(p))
  BY <1>1, FS_Interval
<1>3. f \in Surjection(Places(p), Held(p))
  BY DEF Surjection, Held
<1>4. IsFiniteSet(Held(p))
  <2> HIDE DEF f
  <2> QED
    BY <1>2, <1>3, FS_Surjection
<1> QED
  BY <1>4, FS_Subset, FS_CardinalityType

LEMMA AbandonIs ==
  ASSUME Typed, NEW p \in Pump, AbandonKills(p)
  PROVE  /\ bucket' \in [Identity -> Bucket]
         /\ \A i \in Identity :
              /\ Refund(p, i) \in Nat
              /\ bucket'[i].kills = IF bucket[i].kills > Refund(p, i)
                                    THEN bucket[i].kills - Refund(p, i) ELSE 0
              /\ bucket'[i].kills <= MaxKills
              /\ bucket'[i].mark = bucket[i].mark /\ bucket'[i].accrued = bucket[i].accrued
              /\ Cardinality({t \in Held(p) : t.who = i /\ ~t.ours}) \in Nat
              /\ stale'[i] = stale[i] + UpTo(Cardinality({t \in Held(p) : t.who = i /\ ~t.ours}),
                                             bucket[i].kills)
         /\ stale' \in [Identity -> Nat]
<1> DEFINE N(i) == Cardinality({t \in Held(p) : t.who = i /\ ~t.ours})
<1>1. bucket \in [Identity -> Bucket] /\ \A i \in Identity : bucket[i].kills \in Nat /\ bucket[i].kills <= MaxKills
  BY DEF Typed, ScanTyped, Bucket
<1>2. \A i \in Identity : Refund(p, i) \in Nat /\ N(i) \in Nat
  <2> SUFFICES ASSUME NEW i \in Identity PROVE Refund(p, i) \in Nat /\ N(i) \in Nat
    OBVIOUS
  <2>1. {t \in Held(p) : t.who = i} \in SUBSET Held(p) /\ {t \in Held(p) : t.who = i /\ ~t.ours} \in SUBSET Held(p)
    OBVIOUS
  <2> QED
    BY <2>1, HeldFinite DEF Refund, Typed
<1>3. {call[p].targets[n] : n \in DOMAIN call[p].targets} = Held(p)
  BY DEF Held, Places, TargetOf
<1>4. /\ bucket' = [i \in Identity |-> [bucket[i] EXCEPT !.kills =
                      IF bucket[i].kills > Refund(p, i) THEN bucket[i].kills - Refund(p, i) ELSE 0]]
      /\ stale' = [i \in Identity |-> stale[i] + UpTo(N(i), bucket[i].kills)]
  BY <1>3 DEF AbandonKills, Refund
<1> HIDE DEF N
<1>5. ASSUME NEW i \in Identity
      PROVE  /\ bucket'[i] \in Bucket
             /\ bucket'[i].kills = IF bucket[i].kills > Refund(p, i)
                                   THEN bucket[i].kills - Refund(p, i) ELSE 0
             /\ bucket'[i].kills <= MaxKills
             /\ bucket'[i].mark = bucket[i].mark /\ bucket'[i].accrued = bucket[i].accrued
  <2> DEFINE k == IF bucket[i].kills > Refund(p, i) THEN bucket[i].kills - Refund(p, i) ELSE 0
  <2>1. k \in Nat /\ k <= MaxKills
    BY <1>1, <1>2, Sizes
  <2>2. bucket'[i] = [bucket[i] EXCEPT !.kills = k]
    BY <1>4
  <2> HIDE DEF k
  <2>3. bucket'[i] \in Bucket /\ bucket'[i].kills = k
        /\ bucket'[i].mark = bucket[i].mark /\ bucket'[i].accrued = bucket[i].accrued
    BY <1>1, <2>1, <2>2 DEF Bucket
  <2> QED
    BY <2>1, <2>3 DEF k
<1>6. ASSUME NEW i \in Identity PROVE stale'[i] \in Nat /\ stale'[i] = stale[i] + UpTo(N(i), bucket[i].kills)
  BY <1>1, <1>2, <1>4 DEF UpTo, Typed, HistoryTyped
<1>7. bucket' \in [Identity -> Bucket]
  BY <1>4, <1>5
<1>8. stale' \in [Identity -> Nat]
  BY <1>4, <1>6
<1> QED
  BY <1>2, <1>5, <1>6, <1>7, <1>8 DEF N

LEMMA TypeInit == Init => Typed
<1> SUFFICES ASSUME Init PROVE Typed
  OBVIOUS
<1>1. FlagsTyped
  BY DEF Init, FlagsTyped
<1>2. ScanTyped
  BY NoBucketTyped, EpisodesAre, Sizes DEF Init, ScanTyped, Sessions, NoBucket
<1>3. CallsTyped
  BY NoCallTyped DEF Init, CallsTyped
<1>4. HistoryTyped
  BY Sizes DEF Init, HistoryTyped, Off
<1> QED
  BY <1>1, <1>2, <1>3, <1>4 DEF Typed

LEMMA TypeStep == Typed /\ [Next]_vars => Typed'
<1> SUFFICES ASSUME Typed, [Next]_vars PROVE Typed'
  OBVIOUS
<1> USE DEF Typed
<1>a. call \in [Pump -> Calls] /\ "current" \in Pump /\ "straggler" \in Pump
  BY DEF CallsTyped, Pump
<1>b. /\ bucket \in [Identity -> Bucket] /\ episode \in [Sid -> Episodes]
      /\ \A i \in Identity : bucket[i].kills \in Nat /\ bucket[i].kills <= MaxKills
  BY DEF ScanTyped, Bucket
<1>c. ASSUME ResetDebt
      PROVE  /\ bucket' \in [Identity -> Bucket] /\ \A i \in Identity : bucket'[i].kills <= MaxKills
             /\ episode' \in [Sid -> Episodes]
             /\ landed' \in [Identity -> Nat] /\ lost' \in [Identity -> Nat] /\ stale' \in [Identity -> Nat]
             /\ seenLast' \in SUBSET Identity /\ witnessed' \in [Identity -> 0..Dwell]
             /\ struck' \in [Sid -> Off..(Grace - 1)]
  <2>1. NoBucket.kills <= MaxKills /\ Off \in Off..(Grace - 1) /\ 0 \in 0..Dwell
    BY Sizes DEF NoBucket, Off
  <2> QED
    BY <1>c, <2>1, NoBucketTyped, EpisodesAre DEF ResetDebt
<1>1. CASE Poll
  <2>a. PICK order \in SetToSeqs(Eligible) : \E due \in SetToSeqs(Chosen(order)) : Scan(order, due)
    BY <1>1, Zenon DEF Poll
  <2>b. PICK due \in SetToSeqs(Chosen(order)) : Scan(order, due)
    BY <2>a
  <2>1. FlagsTyped'
    BY <1>1, Zenon DEF Poll, FlagsTyped
  <2>2. ScanTyped'
    <3>1. \A i \in Identity : ScannedBucket(order, i) \in Bucket /\ ScannedBucket(order, i).kills <= MaxKills
      BY BucketScanned, ScanInBudget
    <3>2. /\ bucket' = [i \in Identity |-> ScannedBucket(order, i)]
          /\ episode' = [s \in Sid |-> ScannedEpisode(order, s)]
      BY <2>b DEF Scan
    <3>3. bucket' \in [Identity -> Bucket] /\ \A i \in Identity : bucket'[i].kills <= MaxKills
      BY <3>1, <3>2
    <3>4. episode' \in [Sid -> Episodes]
      BY <3>2, EpisodeScanned
    <3> QED
      BY <1>1, <3>3, <3>4 DEF Poll, ScanTyped
  <2>3. CallsTyped'
    BY <1>1, <2>b, ScanCalls DEF Poll, PollDue
  <2>4. HistoryTyped'
    <3>1. Observed(order) \subseteq Identity
      BY EligibleSession DEF Observed, InBudget
    <3>2. landed' \in [Identity -> Nat] /\ lost' \in [Identity -> Nat] /\ stale' \in [Identity -> Nat]
      BY <2>b DEF Scan, HistoryTyped
    <3>3. witnessed' \in [Identity -> 0..Dwell]
      <4>1. \A i \in Identity : UpTo(witnessed[i] + gap, Dwell) \in 0..Dwell /\ witnessed[i] \in 0..Dwell /\ 0 \in 0..Dwell
        BY Sizes DEF UpTo, HistoryTyped
      <4> QED
        BY <2>b, <4>1 DEF Scan
    <3>4. struck' \in [Sid -> Off..(Grace - 1)]
      <4>1. 0 \in Off..(Grace - 1)
        BY Sizes DEF Off
      <4> QED
        BY <2>b, <4>1 DEF Scan, HistoryTyped
    <3> QED
      BY <1>1, <2>b, <3>1, <3>2, <3>3, <3>4, Sizes DEF Poll, Scan, HistoryTyped
  <2> QED
    BY <2>1, <2>2, <2>3, <2>4
<1>2. ASSUME NEW p \in Pump, AbandonKills(p) PROVE Typed'
  <2>1. FlagsTyped'
    BY <1>2, Zenon DEF AbandonKills, killer, pacing, history, FlagsTyped
  <2>2. ScanTyped'
    <3>1. bucket' \in [Identity -> Bucket] /\ \A i \in Identity : bucket'[i].kills <= MaxKills
      BY <1>2, AbandonIs
    <3>2. episode' \in [Sid -> Episodes]
      BY <1>2, <1>b, EpisodesAre DEF AbandonKills
    <3> QED
      BY <1>2, <3>1, <3>2 DEF AbandonKills, ScanTyped
  <2>3. CallsTyped'
    BY <1>2, NoCallTyped DEF AbandonKills, CallsTyped
  <2>4. HistoryTyped'
    <3>1. stale' \in [Identity -> Nat]
      BY <1>2, AbandonIs
    <3>2. struck' \in [Sid -> Off..(Grace - 1)]
      <4>1. Off \in Off..(Grace - 1) /\ struck \in [Sid -> Off..(Grace - 1)]
        BY Sizes DEF Off, HistoryTyped
      <4> QED
        BY <1>2, <4>1 DEF AbandonKills
    <3> QED
      BY <1>2, <3>1, <3>2 DEF AbandonKills, HistoryTyped
  <2> QED
    BY <2>1, <2>2, <2>3, <2>4
<1>3. ASSUME NEW p \in Pump, StartKills(p) PROVE Typed'
  <2>1. FlagsTyped'
    BY <1>3, Zenon DEF StartKills, killer, pacing, history, FlagsTyped
  <2>2. ScanTyped'
    BY <1>3 DEF StartKills, killer, pacing, history, ScanTyped
  <2>3. CallsTyped'
    <3>1. call' = [call EXCEPT ![p].stage = "killing"] /\ call[p].stage = "chosen"
      BY <1>3 DEF StartKills
    <3>2. call[p] \in Calls /\ call[p].targets # <<>>
      BY <1>3, <3>1 DEF CallsTyped
    <3>3. [call[p] EXCEPT !.stage = "killing"] \in Calls
      BY <3>2 DEF Calls
    <3>4. call'[p].targets = call[p].targets /\ call'[p].stage = "killing"
          /\ call' \in [Pump -> Calls] /\ \A q \in Pump \ {p} : call'[q] = call[q]
      BY <1>a, <3>1, <3>2, <3>3 DEF Calls
    <3> QED
      BY <3>2, <3>4 DEF CallsTyped
  <2>4. HistoryTyped'
    BY <1>3 DEF StartKills, killer, pacing, history, HistoryTyped
  <2> QED
    BY <2>1, <2>2, <2>3, <2>4
<1>4. ASSUME NEW p \in Pump, KillLands(p) PROVE Typed'
  <2>a. InFlight(p) \in Target /\ CallsTyped'
    BY <1>4, NextKilled DEF KillLands
  <2>1. FlagsTyped'
    BY <1>4, Zenon DEF KillLands, killer, pacing, history, FlagsTyped
  <2>2. ScanTyped'
    BY <1>4 DEF KillLands, killer, pacing, history, ScanTyped
  <2>3. CallsTyped'
    BY <2>a
  <2>4. HistoryTyped'
    <3>1. landed' \in [Identity -> Nat]
      BY <1>4, <2>a, ReachedTyped DEF KillLands
    <3> QED
      BY <1>4, <3>1 DEF KillLands, HistoryTyped
  <2> QED
    BY <2>1, <2>2, <2>3, <2>4
<1>5. ASSUME NEW p \in Pump, KillTimesOut(p) PROVE Typed'
  <2>a. InFlight(p) \in Target /\ CallsTyped'
    BY <1>5, NextKilled DEF KillTimesOut
  <2>1. FlagsTyped'
    BY <1>5, Zenon DEF KillTimesOut, killer, pacing, history, FlagsTyped
  <2>2. ScanTyped'
    <3>1. episode' \in [Sid -> Episodes]
      BY <1>5, <2>a, Withdrawn DEF KillTimesOut
    <3> QED
      BY <1>5, <3>1 DEF KillTimesOut, ScanTyped
  <2>3. CallsTyped'
    BY <2>a
  <2>4. HistoryTyped'
    <3>1. landed' \in [Identity -> Nat]
      BY <1>5, <2>a, ReachedTyped DEF KillTimesOut
    <3>2. struck' \in [Sid -> Off..(Grace - 1)]
      BY <1>5, <2>a, Withdrawn DEF KillTimesOut
    <3> QED
      BY <1>5, <3>1, <3>2 DEF KillTimesOut, HistoryTyped
  <2> QED
    BY <2>1, <2>2, <2>3, <2>4
<1>6. ASSUME NEW p \in Pump, KillRejected(p) \/ KillUnanswered(p) PROVE Typed'
  <2>0. /\ Refunded(p) /\ InFlight(p) \in Target
        /\ landed' \in [Identity -> Nat] /\ lost' \in [Identity -> Nat]
    BY <1>6, RefundedHow
  <2>a. InFlight(p) \in Target /\ CallsTyped'
    BY <2>0, NextKilled DEF Refunded
  <2>1. FlagsTyped'
    BY <2>0, Zenon DEF Refunded, killer, pacing, history, FlagsTyped
  <2>2. ScanTyped'
    <3>1. episode' \in [Sid -> Episodes]
      BY <2>0, <2>a, Withdrawn DEF Refunded
    <3>2. InFlight(p).who \in Identity
      BY <2>a DEF Target
    <3>3. bucket' \in [Identity -> Bucket] /\ \A i \in Identity : bucket'[i].kills <= MaxKills
      BY <2>0, <3>2, RefundTyped DEF Refunded
    <3> QED
      BY <2>0, <3>1, <3>3 DEF Refunded, ScanTyped
  <2>3. CallsTyped'
    BY <2>a
  <2>4. HistoryTyped'
    <3>1. struck' \in [Sid -> Off..(Grace - 1)]
      BY <2>0, <2>a, Withdrawn DEF Refunded
    <3>2. stale' \in [Identity -> Nat]
      <4>1. \/ stale' = [stale EXCEPT ![InFlight(p).who] = stale[InFlight(p).who] + 1]
            \/ stale' = [stale EXCEPT ![InFlight(p).who] = stale[InFlight(p).who]]
        BY <2>0, Zenon DEF Refunded
      <4> QED
        BY <4>1 DEF HistoryTyped
    <3> QED
      BY <2>0, <3>1, <3>2 DEF Refunded, HistoryTyped
  <2> QED
    BY <2>1, <2>2, <2>3, <2>4
<1>7. CASE StatementEnds
  <2>1. FlagsTyped'
    BY <1>7, Zenon DEF StatementEnds, killer, pacing, history, FlagsTyped
  <2>2. ScanTyped'
    BY <1>7 DEF StatementEnds, killer, pacing, history, ScanTyped
  <2>3. CallsTyped'
    BY <1>7, OrphanedCalls DEF StatementEnds, CallsTyped
  <2>4. HistoryTyped'
    BY <1>7, Sizes DEF StatementEnds, HistoryTyped, Off
  <2> QED
    BY <2>1, <2>2, <2>3, <2>4
<1>8. CASE Issue
  <2>1. FlagsTyped'
    BY <1>8, Zenon DEF Issue, killer, pacing, history, FlagsTyped
  <2>2. ScanTyped'
    BY <1>8 DEF Issue, killer, pacing, history, ScanTyped
  <2>3. CallsTyped'
    BY <1>8 DEF Issue, killer, pacing, history, CallsTyped
  <2>4. HistoryTyped'
    BY <1>8 DEF Issue, killer, pacing, history, HistoryTyped
  <2> QED
    BY <2>1, <2>2, <2>3, <2>4
<1>9. CASE PollFails
  <2>1. FlagsTyped'
    BY <1>9, Zenon DEF PollFails, killer, pacing, history, FlagsTyped
  <2>2. ScanTyped'
    BY <1>9 DEF PollFails, killer, pacing, history, ScanTyped
  <2>3. CallsTyped'
    BY <1>9 DEF PollFails, killer, pacing, history, CallsTyped
  <2>4. HistoryTyped'
    BY <1>9 DEF PollFails, killer, pacing, history, HistoryTyped
  <2> QED
    BY <2>1, <2>2, <2>3, <2>4
<1>10. CASE Sample
  <2>1. FlagsTyped'
    BY <1>10, Zenon DEF Sample, killer, pacing, history, FlagsTyped
  <2>2. ScanTyped'
    BY <1>10 DEF Sample, killer, pacing, history, ScanTyped
  <2>3. CallsTyped'
    BY <1>10, NoCallTyped DEF Sample, CallsTyped
  <2>4. HistoryTyped'
    BY <1>10, Sizes DEF Sample, HistoryTyped, Off
  <2> QED
    BY <2>1, <2>2, <2>3, <2>4
<1>11. CASE Disarm
  <2>1. FlagsTyped'
    BY <1>11, Zenon DEF Disarm, killer, pacing, history, FlagsTyped
  <2>2. ScanTyped'
    BY <1>11, <1>c DEF Disarm, ScanTyped
  <2>3. CallsTyped'
    <3>1. call' = Unlinked(Orphaned) /\ CanEnd
      BY <1>11 DEF Disarm
    <3>2. \A p \in Pump : call'[p] \in Calls /\ (call'[p].stage \in {"chosen", "killing"} <=> call'[p].targets # <<>>)
      BY <3>1, OrphanedCalls, UnlinkedCalls
    <3>3. call' = [p \in Pump |-> call'[p]]
      BY <3>1, Zenon DEF Unlinked
    <3>4. call' \in [Pump -> Calls]
      BY <3>2, <3>3
    <3> QED
      BY <3>2, <3>4 DEF CallsTyped
  <2>4. HistoryTyped'
    BY <1>11, <1>c, Sizes DEF Disarm, HistoryTyped, Off
  <2> QED
    BY <2>1, <2>2, <2>3, <2>4
<1>12. CASE Arm
  <2>1. FlagsTyped'
    BY <1>12, Zenon DEF Arm, killer, pacing, history, FlagsTyped
  <2>2. ScanTyped'
    BY <1>12, <1>c DEF Arm, ScanTyped
  <2>3. CallsTyped'
    <3>1. call' = Unlinked(call)
      BY <1>12 DEF Arm
    <3>2. \A p \in Pump : call'[p] \in Calls /\ (call'[p].stage \in {"chosen", "killing"} <=> call'[p].targets # <<>>)
      BY <1>a, <3>1, UnlinkedCalls DEF CallsTyped
    <3>3. call' = [p \in Pump |-> call'[p]]
      BY <3>1, Zenon DEF Unlinked
    <3>4. call' \in [Pump -> Calls]
      BY <3>2, <3>3
    <3> QED
      BY <3>2, <3>4 DEF CallsTyped
  <2>4. HistoryTyped'
    BY <1>12, <1>c DEF Arm, HistoryTyped, pacing
  <2> QED
    BY <2>1, <2>2, <2>3, <2>4
<1>13. ASSUME NEW s \in Sid, SessionChanges(s) PROVE Typed'
  <2>1. FlagsTyped'
    <3>1. armed' = armed /\ pump' = pump /\ polled' = polled /\ missed' = missed
      BY <1>13, Zenon DEF SessionChanges, pacing
    <3> QED
      BY <3>1, Zenon DEF FlagsTyped
  <2>2. ScanTyped'
    BY <1>13 DEF SessionChanges, ScanTyped, Sessions
  <2>3. CallsTyped'
    <3>2. \A p \in Pump : call'[p] \in Calls /\ (call'[p].stage \in {"chosen", "killing"} <=> call'[p].targets # <<>>)
      BY <1>13, ChangedCalls DEF CallsTyped
    <3>3. call' = [p \in Pump |-> call'[p]]
      BY <1>13 DEF SessionChanges, Retarget
    <3>4. call' \in [Pump -> Calls]
      BY <3>2, <3>3
    <3> QED
      BY <3>2, <3>4 DEF CallsTyped
  <2>4. HistoryTyped'
    <3>1. struck' \in [Sid -> Off..(Grace - 1)]
      BY <1>13, Sizes DEF SessionChanges, HistoryTyped, Off
    <3> QED
      BY <1>13, <3>1 DEF SessionChanges, HistoryTyped
  <2> QED
    BY <2>1, <2>2, <2>3, <2>4
<1>14. CASE Tick
  <2>1. FlagsTyped'
    BY <1>14, Zenon DEF Tick, killer, pacing, history, FlagsTyped
  <2>2. ScanTyped'
    <3>1. \A i \in Identity : OlderBucket(bucket[i]) \in Bucket /\ OlderBucket(bucket[i]).kills <= MaxKills
      BY <1>b, Aged
    <3>2. episode' \in [Sid -> Episodes]
      <4>1. ASSUME NEW e \in Episodes PROVE [e EXCEPT !.age = UpTo(e.age + 1, Grace)] \in Episodes
        <5>1. UpTo(e.age + 1, Grace) \in 0..Grace
          BY Sizes DEF Episodes, UpTo
        <5> QED
          BY <5>1 DEF Episodes
      <4>2. episode' = [s \in Sid |-> IF episode[s].state = "killed"
                                     THEN [episode[s] EXCEPT !.age = UpTo(episode[s].age + 1, Grace)]
                                     ELSE episode[s]]
        BY <1>14, Zenon DEF Tick
      <4> QED
        BY <1>b, <4>1, <4>2
    <3>3. bucket' = [i \in Identity |-> OlderBucket(bucket[i])]
      BY <1>14 DEF Tick
    <3>4. bucket' \in [Identity -> Bucket] /\ \A i \in Identity : bucket'[i].kills <= MaxKills
      BY <3>1, <3>3
    <3> QED
      BY <1>14, <3>2, <3>4 DEF Tick, ScanTyped
  <2>3. CallsTyped'
    <3>1. call' = [p \in Pump |-> IF call[p].stage = "killing" THEN [call[p] EXCEPT !.waited = call[p].waited + 1]
                                  ELSE call[p]]
      BY <1>14, Zenon DEF Tick
    <3>2. ASSUME NEW p \in Pump PROVE call'[p] \in Calls /\ call'[p].stage = call[p].stage
                                      /\ call'[p].targets = call[p].targets
      <4>1. call[p] \in Calls /\ (call[p].stage = "killing" => call[p].waited < KillTimeout)
        BY <1>14, <1>a DEF Tick
      <4>2. ASSUME NEW c \in Calls, c.waited < KillTimeout
            PROVE  [c EXCEPT !.waited = c.waited + 1] \in Calls
        <5>1. c.waited + 1 \in 0..KillTimeout
          BY <4>2, Sizes DEF Calls
        <5> QED
          BY <5>1 DEF Calls
      <4>3. CASE call[p].stage = "killing"
        <5>1. call'[p] = [call[p] EXCEPT !.waited = call[p].waited + 1]
          BY <3>1, <4>3
        <5> QED
          BY <4>1, <4>2, <4>3, <5>1 DEF Calls
      <4>4. CASE call[p].stage # "killing"
        BY <3>1, <4>1, <4>4
      <4> QED
        BY <4>3, <4>4
    <3>3. call' \in [Pump -> Calls]
      BY <3>1, <3>2
    <3> QED
      BY <3>2, <3>3 DEF CallsTyped
  <2>4. HistoryTyped'
    <3>1. struck' \in [Sid -> Off..(Grace - 1)]
      BY <1>14, Sizes DEF Tick, HistoryTyped, Off, AgeUpTo, UpTo
    <3>2. since' \in Off..BlockingTimeout /\ gap' \in 0..Dwell
      BY <1>14, Sizes DEF Tick, HistoryTyped, Off, AgeUpTo, UpTo
    <3> QED
      BY <1>14, <3>1, <3>2 DEF Tick, HistoryTyped
  <2> QED
    BY <2>1, <2>2, <2>3, <2>4
<1>15. CASE UNCHANGED vars
  <2>1. FlagsTyped'
    BY <1>15, Zenon DEF vars, killer, pacing, history, FlagsTyped
  <2>2. ScanTyped'
    BY <1>15 DEF vars, killer, pacing, history, ScanTyped
  <2>3. CallsTyped'
    BY <1>15 DEF vars, killer, pacing, history, CallsTyped
  <2>4. HistoryTyped'
    BY <1>15 DEF vars, killer, pacing, history, HistoryTyped
  <2> QED
    BY <2>1, <2>2, <2>3, <2>4
<1> QED
  BY <1>1, <1>2, <1>3, <1>4, <1>5, <1>6, <1>7, <1>8, <1>9, <1>10, <1>11, <1>12, <1>13, <1>14, <1>15 DEF Next, Kills

LEMMA TypedIsTypeOK == Typed => TypeOK
<1> SUFFICES ASSUME Typed PROVE TypeOK
  OBVIOUS
<1>1. \A p \in Pump :
       /\ call[p].stage \in {"idle", "chosen", "killing", "reading"}
       /\ call[p].targets \in Seq(Target)
       /\ call[p].stage \in {"chosen", "killing"} <=> call[p].targets # <<>>
       /\ call[p].blocked \subseteq Sid /\ call[p].waited \in 0..KillTimeout
  <2> SUFFICES ASSUME NEW p \in Pump
               PROVE  /\ call[p].stage \in {"idle", "chosen", "killing", "reading"}
                      /\ call[p].targets \in Seq(Target)
                      /\ call[p].stage \in {"chosen", "killing"} <=> call[p].targets # <<>>
                      /\ call[p].blocked \subseteq Sid /\ call[p].waited \in 0..KillTimeout
    OBVIOUS
  <2>1. call[p] \in Calls /\ (call[p].stage \in {"chosen", "killing"} <=> call[p].targets # <<>>)
    BY DEF Typed, CallsTyped
  <2> QED
    BY <2>1 DEF Calls
<1> QED
  BY <1>1, Zenon DEF Typed, TypeOK, FlagsTyped, ScanTyped, HistoryTyped, Sessions, Episodes

-----------------------------------------------------------------------------
(* The debt is served under our eyes.                                         *)

LEMMA BankedInit == Init => Banked
  BY Sizes DEF Init, Banked, NoBucket, Off

LEMMA BankedStep == Typed /\ Banked /\ [Next]_vars => Banked'
<1> SUFFICES ASSUME Typed, Banked, [Next]_vars PROVE Banked'
  OBVIOUS
<1>a. /\ bucket \in [Identity -> Bucket] /\ gap \in 0..Dwell
      /\ \A i \in Identity : /\ bucket[i].accrued \in 0..Dwell /\ bucket[i].mark \in Off..Dwell
                             /\ witnessed[i] \in 0..Dwell
  BY DEF Typed, ScanTyped, HistoryTyped, Bucket
<1>b. ASSUME \A i \in Identity : bucket'[i].mark = bucket[i].mark /\ bucket'[i].accrued = bucket[i].accrued,
             witnessed' = witnessed, seenLast' = seenLast, gap' = gap
      PROVE  Banked'
  BY <1>b DEF Banked
<1>c. ASSUME ResetDebt PROVE Banked'
  <2>1. \A i \in Identity : bucket'[i] = NoBucket /\ witnessed'[i] = 0
    BY <1>c DEF ResetDebt
  <2> QED
    BY <2>1, Sizes DEF Banked, NoBucket, Off
<1>1. CASE Poll
  <2>1. PICK order \in SetToSeqs(Eligible) : \E due \in SetToSeqs(Chosen(order)) : Scan(order, due)
    BY <1>1, Zenon DEF Poll
  <2>2. /\ bucket' = [i \in Identity |-> ScannedBucket(order, i)]
        /\ witnessed' = [i \in Identity |->
                           IF Forgotten(i) THEN 0
                           ELSE IF i \in Observed(order) \cap seenLast
                           THEN UpTo(witnessed[i] + gap, Dwell) ELSE witnessed[i]]
        /\ seenLast' = Observed(order) /\ gap' = 0
    BY <1>1, <2>1, Zenon DEF Poll, Scan
  <2>3. ASSUME NEW i \in Identity
        PROVE  bucket'[i].accrued <= witnessed'[i] /\ (bucket'[i].mark # Off => i \in seenLast' /\ bucket'[i].mark <= gap')
    <3>1. /\ bucket'[i] = ScannedBucket(order, i)
          /\ witnessed'[i] = IF Forgotten(i) THEN 0
                             ELSE IF i \in Observed(order) \cap seenLast
                             THEN UpTo(witnessed[i] + gap, Dwell) ELSE witnessed[i]
      BY <2>2
    <3>2. Pruned[i] \in Bucket /\ (Forgotten(i) => Pruned[i] = NoBucket) /\ (~Forgotten(i) => Pruned[i] = bucket[i])
      BY PrunedTyped DEF Typed
    <3>3. /\ i \notin Observed(order) => bucket'[i].mark = Off /\ bucket'[i].accrued = Pruned[i].accrued
          /\ i \in Observed(order) => bucket'[i].mark = 0 /\ bucket'[i].accrued = AccrueSince(Pruned[i]).accrued
      BY <3>1, BucketScanned DEF Typed
    <3>4. AccrueSince(Pruned[i]).accrued
            = UpTo(Pruned[i].accrued + (IF Pruned[i].mark = Off THEN 0 ELSE Pruned[i].mark), Dwell)
      BY <3>2, AccruedSince
    <3>5. bucket'[i].mark # Off => i \in seenLast' /\ bucket'[i].mark <= gap'
      BY <2>2, <3>3
    <3>6. CASE Forgotten(i)
      <4>1. Pruned[i].accrued = 0 /\ Pruned[i].mark = Off
        BY <3>2, <3>6 DEF NoBucket
      <4> QED
        BY <3>1, <3>3, <3>4, <3>5, <3>6, <4>1, Sizes DEF UpTo
    <3>7. CASE ~Forgotten(i)
      <4>1. Pruned[i] = bucket[i] /\ bucket[i].accrued <= witnessed[i]
            /\ (bucket[i].mark # Off => i \in seenLast /\ bucket[i].mark <= gap)
        BY <3>2, <3>7 DEF Banked
      <4>2. CASE i \notin Observed(order)
        BY <3>1, <3>3, <3>5, <3>7, <4>1, <4>2
      <4>3. CASE i \in Observed(order) /\ bucket[i].mark = Off
        BY <1>a, <3>1, <3>3, <3>4, <3>5, <3>7, <4>1, <4>3, Sizes DEF UpTo
      <4>4. CASE i \in Observed(order) /\ bucket[i].mark # Off
        <5>1. witnessed'[i] = UpTo(witnessed[i] + gap, Dwell)
          BY <3>1, <3>7, <4>1, <4>4
        <5>2. bucket'[i].accrued = UpTo(bucket[i].accrued + bucket[i].mark, Dwell)
          BY <3>3, <3>4, <4>1, <4>4
        <5>3. bucket[i].accrued + bucket[i].mark <= witnessed[i] + gap /\ bucket[i].mark \in Nat
          BY <1>a, <4>1, <4>4 DEF Off
        <5> QED
          BY <1>a, <3>5, <5>1, <5>2, <5>3, Sizes DEF UpTo
      <4> QED
        BY <4>2, <4>3, <4>4
    <3> QED
      BY <3>6, <3>7
  <2> QED
    BY <2>3, Zenon DEF Banked
<1>2. ASSUME NEW p \in Pump, AbandonKills(p) PROVE Banked'
  BY <1>2, <1>b, AbandonIs DEF AbandonKills
<1>3. ASSUME NEW p \in Pump, StartKills(p) \/ KillLands(p) \/ KillTimesOut(p) PROVE Banked'
  BY <1>3, <1>b DEF StartKills, KillLands, KillTimesOut
<1>4. ASSUME NEW p \in Pump, KillRejected(p) \/ KillUnanswered(p) PROVE Banked'
  <2>1. Refunded(p) /\ InFlight(p).who \in Identity
    BY <1>4, RefundedHow DEF Target
  <2> QED
    BY <1>b, <2>1, RefundTyped DEF Refunded
<1>5. CASE StatementEnds \/ Issue \/ PollFails \/ Sample
  BY <1>5, <1>b DEF StatementEnds, Issue, PollFails, Sample, killer, history
<1>6. CASE Disarm \/ Arm
  BY <1>6, <1>c DEF Disarm, Arm
<1>7. ASSUME NEW s \in Sid, SessionChanges(s) PROVE Banked'
  BY <1>7, <1>b DEF SessionChanges
<1>8. CASE Tick
  <2>1. \A i \in Identity : bucket'[i] = OlderBucket(bucket[i])
    BY <1>8 DEF Tick
  <2>2. witnessed' = witnessed /\ seenLast' = seenLast /\ gap' = UpTo(gap + 1, Dwell)
    BY <1>8 DEF Tick
  <2>3. \A i \in Identity : bucket'[i].accrued = bucket[i].accrued /\ bucket'[i].mark = AgeUpTo(bucket[i].mark, Dwell)
    BY <1>a, <2>1, Aged
  <2> QED
    BY <1>a, <2>2, <2>3, Sizes DEF Banked, AgeUpTo, UpTo, Off
<1>9. CASE UNCHANGED vars
  BY <1>9, <1>b DEF vars, killer, history
<1> QED
  BY <1>1, <1>2, <1>3, <1>4, <1>5, <1>6, <1>7, <1>8, <1>9 DEF Next, Kills

-----------------------------------------------------------------------------
(* Where the targets of a call come from.                                     *)

(* Every target of p is one q had, k places on; it is linked or on our books   *)
(* only if it was, and no longer the session it was decided for only if it     *)
(* already was not or that session is now safe to strike.                      *)
From(p, q, k) ==
  \A n \in Places(p)' :
    /\ n \in Nat /\ n + k \in Places(q)
    /\ TargetOf(p, n)'.sid = TargetOf(q, n + k).sid
    /\ TargetOf(p, n)'.who = TargetOf(q, n + k).who
    /\ TargetOf(p, n)'.linked => TargetOf(q, n + k).linked
    /\ TargetOf(p, n)'.ours => TargetOf(q, n + k).ours
    /\ TargetOf(p, n)'.same \/ ~TargetOf(q, n + k).same
         \/ struck'[TargetOf(p, n)'.sid] = Off \/ ~TargetOf(p, n)'.linked

LEMMA PlacesAre ==
  ASSUME CallsTyped, NEW p \in Pump
  PROVE  \A n \in Places(p) : n \in Nat /\ n + 0 = n /\ TargetOf(p, n) \in Target
  BY CallFields

LEMMA FromSame ==
  ASSUME CallsTyped, NEW p \in Pump, NEW q \in Pump, call'[p].targets = call[q].targets
  PROVE  From(p, q, 0)
<1>1. Places(p)' = Places(q) /\ \A n \in Places(q) : TargetOf(p, n)' = TargetOf(q, n)
  BY DEF Places, TargetOf
<1>2. \A n \in Places(q) : n \in Nat /\ n + 0 = n
  BY PlacesAre
<1> QED
  BY <1>1, <1>2, Zenon DEF From

LEMMA FromNothing ==
  ASSUME NEW p \in Pump, call'[p].targets = <<>>
  PROVE  Places(p)' = {} /\ From(p, p, 0)
<1>1. Places(p)' = {}
  BY DEF Places
<1> QED
  BY <1>1 DEF From

LEMMA FromNextKill ==
  ASSUME CallsTyped, NEW p \in Pump, call[p].stage = "killing", NextKill(p)
  PROVE  From(p, p, 1) /\ \A q \in Pump \ {p} : From(q, q, 0)
<1>1. From(p, p, 1)
  BY NextKilled, Zenon DEF From
<1>2. ASSUME NEW q \in Pump \ {p} PROVE From(q, q, 0)
  <2>1. call'[q].targets = call[q].targets
    BY NextKilled
  <2> QED
    BY <2>1, FromSame
<1> QED
  BY <1>1, <1>2

LEMMA FromUnlinked ==
  ASSUME CallsTyped, NEW c \in [Pump -> Calls], call' = Unlinked(c),
         NEW p \in Pump, NEW q \in Pump, c[p].targets = call[q].targets
  PROVE  From(p, q, 0) /\ \A n \in Places(p)' : ~TargetOf(p, n)'.linked /\ ~TargetOf(p, n)'.ours
<1>1. Places(p)' = Places(q)
  BY UnlinkedCalls DEF Places
<1>2. ASSUME NEW n \in Places(q)
      PROVE  /\ n \in Nat /\ n + 0 = n
             /\ TargetOf(p, n)'.sid = TargetOf(q, n).sid /\ TargetOf(p, n)'.who = TargetOf(q, n).who
             /\ ~TargetOf(p, n)'.linked /\ ~TargetOf(p, n)'.ours
  <2>1. n \in DOMAIN c[p].targets /\ TargetOf(p, n)' = Unlinked(c)[p].targets[n]
        /\ TargetOf(q, n) = c[p].targets[n]
    BY DEF Places, TargetOf
  <2>2. n \in Nat /\ n + 0 = n
    BY PlacesAre
  <2> QED
    <3>1. \A m \in DOMAIN c[p].targets :
            /\ Unlinked(c)[p].targets[m].sid = c[p].targets[m].sid
            /\ Unlinked(c)[p].targets[m].who = c[p].targets[m].who
            /\ ~Unlinked(c)[p].targets[m].linked /\ ~Unlinked(c)[p].targets[m].ours
      BY UnlinkedCalls
    <3> QED
      BY <2>1, <2>2, <3>1, Zenon
<1> QED
  BY <1>1, <1>2, Zenon DEF From

LEMMA FromUnlinkedNothing ==
  ASSUME NEW c \in [Pump -> Calls], call' = Unlinked(c), NEW p \in Pump, c[p].targets = <<>>
  PROVE  Places(p)' = {} /\ From(p, p, 0)
<1>1. Places(p)' = {}
  BY UnlinkedCalls DEF Places
<1> QED
  BY <1>1 DEF From

(* But for a scan, no call gets a target: it keeps or loses its own, or the    *)
(* call that is left over when a statement ends takes them with it.            *)
Moved == From("straggler", "current", 0) /\ Places("current")' = {} /\ Places("straggler") = {}
Kept == \A p \in Pump : \E k \in {0, 1} : From(p, p, k)

LEMMA PumpIs == Pump = {"current", "straggler"} /\ "current" \in Pump /\ "straggler" \in Pump
  BY DEF Pump

LEMMA StatementEndsMoves ==
  ASSUME CallsTyped, CanEnd, call' = Orphaned
  PROVE  Kept \/ Moved
<1>1. "current" \in Pump /\ "straggler" \in Pump /\ NoCall.targets = <<>>
  BY NoCallTyped, PumpIs
<1>2. Places("current")' = {} /\ From("current", "current", 0)
  BY <1>1, OrphanedCalls, FromNothing
<1>3. CASE call'["straggler"].targets = call["current"].targets /\ call["straggler"] = NoCall
  <2>1. Places("straggler") = {}
    BY <1>1, <1>3, CallFields
  <2> QED
    BY <1>1, <1>2, <1>3, <2>1, FromSame DEF Moved
<1>4. CASE call'["straggler"] = call["straggler"]
  <2>1. From("straggler", "straggler", 0)
    BY <1>1, <1>4, FromSame
  <2> QED
    BY <1>2, <2>1, PumpIs DEF Kept
<1> QED
  BY <1>3, <1>4, OrphanedCalls

LEMMA ScanKeeps ==
  ASSUME Typed, call["current"].stage = "idle",
         NEW order \in SetToSeqs(Eligible), NEW due \in SetToSeqs(Chosen(order)),
         Scan(order, due)
  PROVE  /\ From("straggler", "straggler", 0)
         /\ \A n \in Places("straggler")' :
              /\ TargetOf("straggler", n)'.linked =>
                   ScannedEpisode(order, TargetOf("straggler", n)'.sid) # NoEpisode
              /\ TargetOf("straggler", n)'.ours => ~Forgotten(TargetOf("straggler", n)'.who)
<1>1. call'["straggler"] = Reread(order)["straggler"] /\ "straggler" \in Pump
  BY ScanCalls, PumpIs DEF Typed
<1>2. Places("straggler")' = Places("straggler")
  BY <1>1, RereadCalls DEF Places, Typed
<1>3. ASSUME NEW n \in Places("straggler")
      PROVE  /\ n \in Nat /\ n + 0 = n
             /\ TargetOf("straggler", n)' = Reread(order)["straggler"].targets[n]
  BY <1>1, PlacesAre DEF TargetOf, Typed
<1>4. ASSUME NEW n \in Places("straggler")
      PROVE  LET t == TargetOf("straggler", n)'
                 u == TargetOf("straggler", n)
             IN /\ t.sid = u.sid /\ t.who = u.who /\ t.same = u.same
                /\ t.linked => u.linked /\ ScannedEpisode(order, u.sid) # NoEpisode
                /\ t.ours => u.ours /\ ~Forgotten(u.who)
  <2> DEFINE d == Reread(order)["straggler"]
  <2>1. \A m \in Places("straggler") :
          /\ d.targets[m].sid = TargetOf("straggler", m).sid
          /\ d.targets[m].who = TargetOf("straggler", m).who
          /\ d.targets[m].same = TargetOf("straggler", m).same
          /\ d.targets[m].linked => TargetOf("straggler", m).linked
               /\ ScannedEpisode(order, TargetOf("straggler", m).sid) # NoEpisode
          /\ d.targets[m].ours => TargetOf("straggler", m).ours /\ ~Forgotten(TargetOf("straggler", m).who)
    BY <1>1, RereadCalls DEF Typed
  <2> HIDE DEF d
  <2>2. TargetOf("straggler", n)' = d.targets[n]
    BY <1>3 DEF d
  <2> QED
    BY <2>1, <2>2, Zenon
<1>5. From("straggler", "straggler", 0)
  <2> SUFFICES ASSUME NEW n \in Places("straggler")'
               PROVE  /\ n \in Nat /\ n + 0 \in Places("straggler")
                      /\ TargetOf("straggler", n)'.sid = TargetOf("straggler", n + 0).sid
                      /\ TargetOf("straggler", n)'.who = TargetOf("straggler", n + 0).who
                      /\ TargetOf("straggler", n)'.linked => TargetOf("straggler", n + 0).linked
                      /\ TargetOf("straggler", n)'.ours => TargetOf("straggler", n + 0).ours
                      /\ TargetOf("straggler", n)'.same \/ ~TargetOf("straggler", n + 0).same
    BY Zenon DEF From
  <2>1. n \in Nat /\ n + 0 = n /\ n \in Places("straggler")
    BY <1>2, <1>3
  <2> QED
    BY <1>4, <2>1, Zenon
<1> QED
  BY <1>2, <1>4, <1>5, Zenon

LEMMA Thinned ==
  ASSUME Typed, [Next]_vars
  PROVE  Poll \/ Kept \/ Moved
<1>a. CallsTyped /\ call \in [Pump -> Calls]
  BY DEF Typed, CallsTyped
<1>b. ASSUME \A p \in Pump : call'[p].targets = call[p].targets PROVE Kept
  BY <1>a, <1>b, FromSame DEF Kept
<1>2. ASSUME NEW p \in Pump, AbandonKills(p) PROVE Kept
  <2>1. call'[p].targets = <<>> /\ \A q \in Pump \ {p} : call'[q].targets = call[q].targets
    BY <1>2, <1>a, NoCallTyped DEF AbandonKills
  <2> QED
    BY <1>a, <2>1, FromSame, FromNothing DEF Kept
<1>3. ASSUME NEW p \in Pump, StartKills(p) PROVE Kept
  <2>1. call' = [call EXCEPT ![p] = [call[p] EXCEPT !.stage = "killing"]]
    BY <1>3 DEF StartKills
  <2>2. [call[p] EXCEPT !.stage = "killing"].targets = call[p].targets
    BY <1>a DEF Calls
  <2> QED
    BY <1>a, <1>b, <2>1, <2>2
<1>4. ASSUME NEW p \in Pump, KillLands(p) \/ KillTimesOut(p) \/ Refunded(p) PROVE Kept
  BY <1>4, <1>a, FromNextKill DEF KillLands, KillTimesOut, Refunded, Kept
<1>5. CASE StatementEnds
  BY <1>5, <1>a, StatementEndsMoves DEF StatementEnds
<1>6. CASE Issue \/ PollFails
  BY <1>6, <1>b DEF Issue, PollFails, killer
<1>7. CASE Sample
  <2>1. call'["current"].targets = <<>> /\ call'["straggler"].targets = call["straggler"].targets
    BY <1>7, <1>a, NoCallTyped DEF Sample, Pump
  <2> QED
    BY <1>a, <2>1, FromSame, FromNothing, PumpIs DEF Kept
<1>8. CASE Disarm
  <2>1. CanEnd /\ call' = Unlinked(Orphaned)
    BY <1>8 DEF Disarm
  <2>2. Orphaned \in [Pump -> Calls] /\ Orphaned["current"].targets = <<>>
    BY <1>a, <2>1, OrphanedCalls, NoCallTyped
  <2>3. Places("current")' = {} /\ From("current", "current", 0)
    BY <2>1, <2>2, FromUnlinkedNothing, PumpIs
  <2>4. CASE Orphaned["straggler"].targets = call["current"].targets /\ call["straggler"] = NoCall
    <3>1. Places("straggler") = {}
      BY <1>a, <2>4, NoCallTyped, PumpIs, CallFields
    <3>2. From("straggler", "current", 0)
      BY <1>a, <2>1, <2>2, <2>4, FromUnlinked, PumpIs
    <3> QED
      BY <2>3, <3>1, <3>2 DEF Moved
  <2>5. CASE Orphaned["straggler"] = call["straggler"]
    <3>1. From("straggler", "straggler", 0)
      BY <1>a, <2>1, <2>2, <2>5, FromUnlinked, PumpIs
    <3> QED
      BY <2>3, <3>1, PumpIs DEF Kept
  <2> QED
    BY <1>a, <2>1, <2>4, <2>5, OrphanedCalls
<1>9. CASE Arm
  <2>1. call' = Unlinked(call)
    BY <1>9 DEF Arm
  <2> QED
    BY <1>a, <2>1, FromUnlinked DEF Kept
<1>10. ASSUME NEW s \in Sid, SessionChanges(s) PROVE Kept
  <2>1. ASSUME NEW p \in Pump PROVE From(p, p, 0)
    <3>1. Places(p)' = Places(p) /\ \A n \in Places(p) : TargetOf(p, n)' = call'[p].targets[n]
      BY <1>10, ChangedCalls DEF Places, TargetOf, Typed
    <3>2. \A n \in Places(p) : n \in Nat /\ n + 0 = n
      BY <1>a, PlacesAre
    <3>3. \A n \in Places(p) :
            /\ call'[p].targets[n].sid = TargetOf(p, n).sid /\ call'[p].targets[n].who = TargetOf(p, n).who
            /\ call'[p].targets[n].linked <=> TargetOf(p, n).linked
            /\ call'[p].targets[n].ours <=> TargetOf(p, n).ours
            /\ call'[p].targets[n].same \/ struck'[TargetOf(p, n).sid] = Off \/ ~TargetOf(p, n).same
      BY <1>10, ChangedCalls DEF Typed
    <3>4. ASSUME NEW n \in Places(p)
          PROVE  /\ n \in Nat /\ n + 0 \in Places(p)
                 /\ TargetOf(p, n)'.sid = TargetOf(p, n + 0).sid
                 /\ TargetOf(p, n)'.who = TargetOf(p, n + 0).who
                 /\ TargetOf(p, n)'.linked => TargetOf(p, n + 0).linked
                 /\ TargetOf(p, n)'.ours => TargetOf(p, n + 0).ours
                 /\ TargetOf(p, n)'.same \/ ~TargetOf(p, n + 0).same
                      \/ struck'[TargetOf(p, n)'.sid] = Off
      BY <3>1, <3>2, <3>3, Zenon
    <3> QED
      BY <3>1, <3>4, Zenon DEF From
  <2> QED
    BY <2>1 DEF Kept
<1>11. CASE Tick
  <2>1. call' = [p \in Pump |-> IF call[p].stage = "killing" THEN [call[p] EXCEPT !.waited = call[p].waited + 1]
                                ELSE call[p]]
    BY <1>11, Zenon DEF Tick
  <2>2. \A p \in Pump : [call[p] EXCEPT !.waited = call[p].waited + 1].targets = call[p].targets
    BY <1>a DEF Calls
  <2>3. \A p \in Pump : call'[p].targets = call[p].targets
    BY <2>1, <2>2
  <2> QED
    BY <1>b, <2>3
<1>12. CASE UNCHANGED vars
  BY <1>12, <1>b DEF vars, killer
<1> QED
  BY <1>2, <1>3, <1>4, <1>5, <1>6, <1>7, <1>8, <1>9, <1>10, <1>11, <1>12 DEF Next, Kills, KillRejected, KillUnanswered

-----------------------------------------------------------------------------
(* Nobody is killed twice within the grace window.                            *)

EpisodesKept == Distinct /\ Remembered /\ Linked /\ LinkedOnce

LEMMA EpisodesInit == Init => EpisodesKept
<1> SUFFICES ASSUME Init PROVE EpisodesKept
  OBVIOUS
<1>1. \A p \in Pump : Places(p) = {}
  BY NoCallTyped DEF Init, Places
<1> QED
  BY <1>1, PumpIs DEF Init, EpisodesKept, Distinct, Remembered, Linked, LinkedOnce, Off

(* Who is chosen has no KILL under way.                                       *)
LEMMA ChosenIsFree ==
  ASSUME NEW order, NEW s \in Chosen(order)
  PROVE  /\ s \in Sid /\ episode[s].state # "killed"
         /\ ScannedEpisode(order, s) = [state |-> "killed", age |-> 0]
<1>1. s \in Sid /\ episode[s].state \in {"none", "dwelling"}
  BY DEF Chosen, InBudget, Due, Eligible
<1>2. ScannedEpisode(order, s) = [state |-> "killed", age |-> 0]
  BY DEF ScannedEpisode
<1> QED
  BY <1>1, <1>2

(* A scan ends the episode of a killed session only after the window.         *)
LEMMA KilledIsKept ==
  ASSUME NEW order, NEW s \in Sid, episode[s].state = "killed"
  PROVE  /\ s \notin Chosen(order)
         /\ ScannedEpisode(order, s) # NoEpisode => ScannedEpisode(order, s) = episode[s]
         /\ episode[s].age < Grace => ScannedEpisode(order, s) = episode[s]
<1>1. s \notin Chosen(order)
  BY ChosenIsFree
<1> QED
  BY <1>1 DEF ScannedEpisode, InGrace

LEMMA DistinctStep ==
  ASSUME Typed, Distinct, [Next]_vars
  PROVE  Distinct'
<1>1. CASE Poll
  <2>1. PICK order \in SetToSeqs(Eligible) : \E due \in SetToSeqs(Chosen(order)) : Scan(order, due)
    BY <1>1, Zenon DEF Poll
  <2>2. PICK due \in SetToSeqs(Chosen(order)) : Scan(order, due)
    BY <2>1
  <2>3. call["current"].stage = "idle" /\ CallsTyped /\ ScanTyped
    BY <1>1 DEF Poll, PollDue, Typed
  <2>4. /\ \A n \in Places("current")' : TargetOf("current", n)'.sid = due[n]
        /\ \A m, n \in Places("current")' : due[m] = due[n] => m = n
    <3>1. \A n \in Places("current")' : TargetOf("current", n)' = Reserve(due[n])
      BY <2>2, <2>3, ScanCalls
    <3> QED
      BY <2>2, <2>3, <3>1, ScanCalls DEF Reserve
  <2>5. ASSUME NEW m \in Places("straggler")', NEW n \in Places("straggler")',
               TargetOf("straggler", m)'.sid = TargetOf("straggler", n)'.sid
        PROVE  m = n
    <3>1. From("straggler", "straggler", 0)
      BY <2>2, <2>3, ScanKeeps
    <3>2. /\ m \in Nat /\ n \in Nat /\ m + 0 \in Places("straggler") /\ n + 0 \in Places("straggler")
          /\ TargetOf("straggler", m)'.sid = TargetOf("straggler", m + 0).sid
          /\ TargetOf("straggler", n)'.sid = TargetOf("straggler", n + 0).sid
      BY <3>1, Zenon DEF From
    <3>3. m + 0 = n + 0
      BY <2>5, <3>2, PumpIs, Zenon DEF Distinct
    <3> QED
      BY <3>2, <3>3
  <2> QED
    BY <2>4, <2>5, PumpIs DEF Distinct
<1>2. ASSUME NEW p \in Pump, NEW q \in Pump, NEW k \in {0, 1}, From(p, q, k)
      PROVE  \A m, n \in Places(p)' : TargetOf(p, m)'.sid = TargetOf(p, n)'.sid => m = n
  <2> SUFFICES ASSUME NEW m \in Places(p)', NEW n \in Places(p)',
                      TargetOf(p, m)'.sid = TargetOf(p, n)'.sid
               PROVE  m = n
    OBVIOUS
  <2>1. /\ m \in Nat /\ n \in Nat /\ m + k \in Places(q) /\ n + k \in Places(q)
        /\ TargetOf(p, m)'.sid = TargetOf(q, m + k).sid
        /\ TargetOf(p, n)'.sid = TargetOf(q, n + k).sid
    BY <1>2, Zenon DEF From
  <2>2. m + k = n + k
    BY <2>1, Zenon DEF Distinct
  <2> QED
    BY <2>1, <2>2
<1>3. CASE Kept
  BY <1>2, <1>3 DEF Kept, Distinct
<1>4. CASE Moved
  <2>1. \A m, n \in Places("straggler")' : TargetOf("straggler", m)'.sid = TargetOf("straggler", n)'.sid => m = n
    BY <1>2, <1>4, PumpIs DEF Moved
  <2> QED
    BY <1>4, <2>1, PumpIs DEF Moved, Distinct
<1> QED
  BY <1>1, <1>3, <1>4, Thinned

LEMMA EpisodesPoll ==
  ASSUME Typed, EpisodesKept, Poll
  PROVE  Remembered' /\ Linked' /\ LinkedOnce'
<1>1. PICK order \in SetToSeqs(Eligible) : \E due \in SetToSeqs(Chosen(order)) : Scan(order, due)
  BY Zenon DEF Poll
<1>2. PICK due \in SetToSeqs(Chosen(order)) : Scan(order, due)
  BY <1>1
<1>3. call["current"].stage = "idle" /\ CallsTyped /\ ScanTyped
  BY DEF Poll, PollDue, Typed
<1>4. \A s \in Sid : /\ episode'[s] = ScannedEpisode(order, s)
                     /\ struck'[s] = IF s \in Chosen(order) THEN 0 ELSE struck[s]
  BY <1>2 DEF Scan
<1>5. Remembered'
  <2> SUFFICES ASSUME NEW s \in Sid, struck'[s] # Off
               PROVE  episode'[s].state = "killed" /\ episode'[s].age = struck'[s]
    BY DEF Remembered
  <2>1. CASE s \in Chosen(order)
    BY <1>4, <2>1, ChosenIsFree
  <2>2. CASE s \notin Chosen(order)
    <3>1. struck[s] # Off /\ episode[s].state = "killed" /\ episode[s].age = struck[s]
      BY <1>4, <2>2 DEF EpisodesKept, Remembered
    <3>2. episode[s].age < Grace
      BY <3>1, Sizes DEF Typed, HistoryTyped
    <3> QED
      BY <1>4, <2>2, <3>1, <3>2, KilledIsKept
  <2> QED
    BY <2>1, <2>2
<1>6. ASSUME NEW n \in Places("current")'
      PROVE  /\ TargetOf("current", n)'.sid \in Chosen(order) /\ TargetOf("current", n)'.same
  BY <1>2, <1>3, ScanCalls DEF Reserve
<1>7. ASSUME NEW n \in Places("straggler")', TargetOf("straggler", n)'.linked
      PROVE  /\ TargetOf("straggler", n)'.sid \in Sid \ Chosen(order)
             /\ episode'[TargetOf("straggler", n)'.sid].state = "killed"
             /\ ~TargetOf("straggler", n)'.same => struck'[TargetOf("straggler", n)'.sid] = Off
  <2> DEFINE t == TargetOf("straggler", n)'
             u == TargetOf("straggler", n + 0)
  <2>1. From("straggler", "straggler", 0) /\ ScannedEpisode(order, t.sid) # NoEpisode
    BY <1>2, <1>3, <1>7, ScanKeeps
  <2>2. /\ n + 0 \in Places("straggler") /\ t.sid = u.sid /\ u.linked
        /\ t.same \/ ~u.same \/ struck'[t.sid] = Off
    BY <1>7, <2>1, Zenon DEF From
  <2> HIDE DEF t, u
  <2>3. u \in Target
    BY <1>3, <2>2, PlacesAre, PumpIs DEF u
  <2>4. u.sid \in Sid /\ episode[u.sid].state = "killed" /\ (~u.same => struck[u.sid] = Off)
    BY <2>2, <2>3, PumpIs, Zenon DEF Target, EpisodesKept, Linked, u
  <2>5. t.sid \notin Chosen(order) /\ episode'[t.sid] = episode[t.sid] /\ struck'[t.sid] = struck[t.sid]
    BY <1>4, <2>1, <2>2, <2>4, KilledIsKept
  <2>6. t.sid \in Sid \ Chosen(order) /\ episode'[t.sid].state = "killed" /\ (~t.same => struck'[t.sid] = Off)
    BY <2>2, <2>4, <2>5, Zenon
  <2> QED
    BY <2>6 DEF t
<1>8. Linked'
  <2>1. ASSUME NEW n \in Places("current")'
        PROVE  episode'[TargetOf("current", n)'.sid].state = "killed"
    BY <1>4, <1>6, ChosenIsFree
  <2> QED
    BY <1>6, <1>7, <2>1, PumpIs DEF Linked
<1>9. LinkedOnce'
  BY <1>6, <1>7, Zenon DEF LinkedOnce
<1> QED
  BY <1>5, <1>8, <1>9

(* A session has one reservation that can take its episode back.              *)
LEMMA OneLink ==
  ASSUME Typed, EpisodesKept,
         NEW p \in Pump, NEW q \in Pump, NEW m \in Places(p), NEW n \in Places(q),
         TargetOf(p, m).linked, TargetOf(q, n).linked, TargetOf(p, m).sid = TargetOf(q, n).sid
  PROVE  p = q /\ m = n
<1>1. ASSUME p = q PROVE m = n
  BY <1>1, Zenon DEF EpisodesKept, Distinct
<1>a. TargetOf(p, m).sid \in Sid
  <2>1. TargetOf(p, m) \in Target
    BY PlacesAre DEF Typed
  <2> QED
    BY <2>1 DEF Target
<1>2. CASE p = "current" /\ q = "straggler"
  BY <1>a, <1>2, Zenon DEF EpisodesKept, LinkedOnce
<1>3. CASE p = "straggler" /\ q = "current"
  BY <1>a, <1>3, Zenon DEF EpisodesKept, LinkedOnce
<1> QED
  BY <1>1, <1>2, <1>3, PumpIs

(* But for a scan, an episode that is ended or forgotten can no longer be      *)
(* taken back by any call.                                                     *)
Spent(s) == \A p \in Pump : \A n \in Places(p)' : TargetOf(p, n)'.sid = s => ~TargetOf(p, n)'.linked

Survives(s) ==
  /\ struck[s] = Off => struck'[s] = Off
  /\ struck'[s] # Off => episode'[s].state = "killed" /\ episode'[s].age = struck'[s]
  /\ episode[s].state = "killed" => episode'[s].state = "killed" \/ Spent(s)

LEMMA SurvivesAlike ==
  ASSUME Remembered, NEW s \in Sid, episode'[s] = episode[s], struck'[s] \in {struck[s], Off}
  PROVE  Survives(s)
  BY DEF Remembered, Survives

LEMMA SpentByPump ==
  ASSUME Typed, EpisodesKept, NEW p \in Pump, NEW m \in Places(p), TargetOf(p, m).linked,
         \A q \in Pump \ {p} : call'[q] = call[q],
         \A n \in Places(p)' : \E k \in Places(p) : k # m /\ TargetOf(p, n)' = TargetOf(p, k)
  PROVE  Spent(TargetOf(p, m).sid)
<1> SUFFICES ASSUME NEW q \in Pump, NEW n \in Places(q)', TargetOf(q, n)'.sid = TargetOf(p, m).sid,
                    TargetOf(q, n)'.linked
             PROVE  FALSE
  BY Zenon DEF Spent
<1>1. CASE q = p
  <2>1. PICK k \in Places(p) : k # m /\ TargetOf(p, n)' = TargetOf(p, k)
    BY <1>1
  <2> QED
    BY <1>1, <2>1, OneLink
<1>2. CASE q # p
  <2>1. n \in Places(q) /\ TargetOf(q, n)' = TargetOf(q, n)
    BY <1>2 DEF Places, TargetOf
  <2> QED
    BY <1>2, <2>1, OneLink
<1> QED
  BY <1>1, <1>2

LEMMA SettledSurvives ==
  ASSUME Typed, EpisodesKept, NEW p \in Pump, KillTimesOut(p) \/ Refunded(p), NEW s \in Sid
  PROVE  Survives(s)
<1> DEFINE t == TargetOf(p, 1)
<1>1. /\ \A q \in Pump \ {p} : call'[q] = call[q]
      /\ 1 \in Places(p) /\ InFlight(p) = t /\ t \in Target
      /\ \A n \in Places(p)' : n + 1 \in Places(p) /\ n + 1 # 1 /\ TargetOf(p, n)' = TargetOf(p, n + 1)
  BY NextKilled DEF KillTimesOut, Refunded, Typed
<1>2. Withdraw(t)
  BY <1>1 DEF KillTimesOut, Refunded
<1>3. /\ s # t.sid \/ ~t.linked => episode'[s] = episode[s] /\ struck'[s] = struck[s]
      /\ t.linked => struck'[t.sid] = IF t.same THEN Off ELSE struck[t.sid]
  BY <1>1, <1>2, Withdrawn
<1>4. CASE s = t.sid /\ t.linked
  <2>1. struck'[s] = Off
    BY <1>1, <1>3, <1>4, Zenon DEF EpisodesKept, Linked
  <2>2. Spent(s)
    <3>1. \A n \in Places(p)' : \E k \in Places(p) : k # 1 /\ TargetOf(p, n)' = TargetOf(p, k)
      BY <1>1, Zenon
    <3> QED
      BY <1>1, <1>4, <3>1, SpentByPump
  <2> QED
    BY <2>1, <2>2 DEF Survives
<1>5. CASE s # t.sid \/ ~t.linked
  <2> HIDE DEF t
  <2> QED
    BY <1>3, <1>5, SurvivesAlike DEF EpisodesKept
<1> QED
  BY <1>4, <1>5

LEMMA AbandonedSurvives ==
  ASSUME Typed, EpisodesKept, NEW p \in Pump, AbandonKills(p), NEW s \in Sid
  PROVE  Survives(s)
<1> DEFINE held == \E n \in Places(p) : TargetOf(p, n).sid = s /\ TargetOf(p, n).linked
           still == \E n \in Places(p) : TargetOf(p, n).sid = s /\ TargetOf(p, n).same
<1>1. {call[p].targets[n] : n \in DOMAIN call[p].targets} = Held(p)
  BY DEF Held, Places, TargetOf
<1>2. /\ episode'[s] = IF \E t \in Held(p) : t.sid = s /\ t.linked
                       THEN [state |-> "dwelling", age |-> 0] ELSE episode[s]
      /\ struck'[s] = IF (\E t \in Held(p) : t.sid = s /\ t.linked) /\ (\E t \in Held(p) : t.sid = s /\ t.same)
                      THEN Off ELSE struck[s]
  BY <1>1 DEF AbandonKills
<1>3. /\ (\E t \in Held(p) : t.sid = s /\ t.linked) <=> held
      /\ (\E t \in Held(p) : t.sid = s /\ t.same) <=> still
  BY DEF Held
<1>4. /\ ~held => episode'[s] = episode[s]
      /\ struck'[s] = IF held /\ still THEN Off ELSE struck[s]
  BY <1>2, <1>3
<1>5. Places(p)' = {} /\ \A q \in Pump \ {p} : call'[q] = call[q]
  BY NoCallTyped DEF AbandonKills, Places, Typed, CallsTyped
<1>6. CASE held
  <2>1. PICK m \in Places(p) : TargetOf(p, m).sid = s /\ TargetOf(p, m).linked
    BY <1>6
  <2>2. TargetOf(p, m).same \/ struck[s] = Off
    BY <2>1, Zenon DEF EpisodesKept, Linked
  <2>3. struck'[s] = Off
    BY <1>4, <1>6, <2>1, <2>2
  <2>4. Spent(s)
    BY <1>5, <2>1, SpentByPump
  <2> QED
    BY <2>3, <2>4 DEF Survives
<1>7. CASE ~held
  <2>1. episode'[s] = episode[s] /\ struck'[s] = struck[s]
    BY <1>4, <1>7
  <2> QED
    BY <2>1, SurvivesAlike DEF EpisodesKept
<1> QED
  BY <1>6, <1>7

(* The episode of a session that was struck in the window ages with it.       *)
LEMMA AgedSurvives ==
  ASSUME Typed, Remembered, Tick, NEW s \in Sid
  PROVE  Survives(s)
<1>1. /\ episode'[s] = IF episode[s].state = "killed"
                       THEN [episode[s] EXCEPT !.age = UpTo(episode[s].age + 1, Grace)] ELSE episode[s]
      /\ struck'[s] = IF struck[s] + 1 = Grace THEN Off ELSE AgeUpTo(struck[s], Grace)
  <2>1. /\ episode' = [r \in Sid |-> IF episode[r].state = "killed"
                                  THEN [episode[r] EXCEPT !.age = UpTo(episode[r].age + 1, Grace)]
                                  ELSE episode[r]]
        /\ struck' = [r \in Sid |-> IF struck[r] + 1 = Grace THEN Off ELSE AgeUpTo(struck[r], Grace)]
    BY Zenon DEF Tick
  <2> QED
    BY <2>1
<1>2. episode[s] \in Episodes /\ struck[s] \in Off..(Grace - 1)
  BY DEF Typed, ScanTyped, HistoryTyped
<1>3. episode[s].state = "killed" =>
        episode'[s].state = "killed" /\ episode'[s].age = UpTo(episode[s].age + 1, Grace)
  BY <1>1, <1>2 DEF Episodes
<1>4. struck[s] = Off => struck'[s] = Off
  BY <1>1, Sizes DEF Off, AgeUpTo
<1>5. ASSUME struck'[s] # Off
      PROVE  episode'[s].state = "killed" /\ episode'[s].age = struck'[s]
  <2>1. struck[s] # Off /\ episode[s].state = "killed" /\ episode[s].age = struck[s]
    BY <1>4, <1>5 DEF Remembered
  <2> QED
    BY <1>1, <1>2, <1>3, <1>5, <2>1, Sizes DEF Off, AgeUpTo, UpTo
<1> QED
  BY <1>3, <1>4, <1>5 DEF Survives

LEMMA EpisodesSurvive ==
  ASSUME Typed, EpisodesKept, [Next]_vars
  PROVE  Poll \/ \A s \in Sid : Survives(s)
<1>a. ASSUME UNCHANGED <<episode, struck>>, NEW s \in Sid PROVE Survives(s)
  BY <1>a, SurvivesAlike DEF EpisodesKept
<1>b. ASSUME ResetDebt, NEW c \in [Pump -> Calls], call' = Unlinked(c), NEW s \in Sid
      PROVE  Survives(s)
  <2>1. struck'[s] = Off
    BY <1>b DEF ResetDebt
  <2>2. \A p \in Pump : \A n \in Places(p)' : ~TargetOf(p, n)'.linked
    BY <1>b, UnlinkedCalls DEF Places, TargetOf
  <2> QED
    BY <2>1, <2>2 DEF Survives, Spent
<1>1. ASSUME NEW p \in Pump, Kills(p), NEW s \in Sid PROVE Survives(s)
  <2>1. CASE StartKills(p) \/ KillLands(p)
    BY <1>a, <2>1 DEF StartKills, KillLands
  <2> QED
    BY <1>1, <2>1, AbandonedSurvives, SettledSurvives DEF Kills, KillRejected, KillUnanswered
<1>2. ASSUME StatementEnds \/ Issue \/ PollFails \/ Sample, NEW s \in Sid PROVE Survives(s)
  BY <1>a, <1>2 DEF StatementEnds, Issue, PollFails, Sample, killer, history
<1>3. ASSUME Disarm \/ Arm, NEW s \in Sid PROVE Survives(s)
  <2>1. CASE Disarm
    BY <1>b, <2>1, OrphanedCalls DEF Disarm, Typed
  <2>2. CASE Arm
    BY <1>b, <2>2 DEF Arm, Typed, CallsTyped
  <2> QED
    BY <1>3, <2>1, <2>2
<1>4. ASSUME NEW r \in Sid, SessionChanges(r), NEW s \in Sid PROVE Survives(s)
  <2>1. episode' = episode /\ struck'[s] \in {struck[s], Off}
    BY <1>4 DEF SessionChanges, Typed, HistoryTyped
  <2> QED
    BY <2>1, SurvivesAlike DEF EpisodesKept
<1>5. ASSUME UNCHANGED vars, NEW s \in Sid PROVE Survives(s)
  BY <1>5, <1>a DEF vars, killer, history
<1> QED
  BY <1>1, <1>2, <1>3, <1>4, <1>5, AgedSurvives DEF Next, EpisodesKept

LEMMA EpisodesStep ==
  ASSUME Typed, EpisodesKept, [Next]_vars
  PROVE  EpisodesKept'
<1>1. CASE Poll
  BY <1>1, EpisodesPoll, DistinctStep DEF EpisodesKept
<1>2. CASE ~Poll
  <2>0. (Kept \/ Moved) /\ \A s \in Sid : Survives(s)
    BY <1>2, Thinned, EpisodesSurvive
  <2>a. ASSUME NEW p \in Pump, NEW q \in Pump, NEW k \in {0, 1}, From(p, q, k),
               NEW n \in Places(p)', TargetOf(p, n)'.linked
        PROVE  /\ episode'[TargetOf(p, n)'.sid].state = "killed"
               /\ ~TargetOf(p, n)'.same => struck'[TargetOf(p, n)'.sid] = Off
    <3> DEFINE t == TargetOf(p, n)'
               u == TargetOf(q, n + k)
    <3>1. /\ n + k \in Places(q) /\ t.sid = u.sid /\ u.linked
          /\ t.same \/ ~u.same \/ struck'[t.sid] = Off
      BY <2>a, Zenon DEF From
    <3>2. u \in Target
      BY <3>1, PlacesAre DEF Typed
    <3>3. /\ u.sid \in Sid /\ episode[u.sid].state = "killed" /\ (~u.same => struck[u.sid] = Off)
      BY <3>1, <3>2, Zenon DEF Target, EpisodesKept, Linked
    <3>4. Survives(u.sid)
      BY <2>0, <3>3
    <3>5. ~Spent(u.sid)
      BY <2>a, <3>1, Zenon DEF Spent
    <3> HIDE DEF t, u
    <3>6. episode'[t.sid].state = "killed" /\ (~t.same => struck'[t.sid] = Off)
      BY <3>1, <3>3, <3>4, <3>5, Zenon DEF Survives
    <3> QED
      BY <3>6 DEF t
  <2>1. Remembered'
    BY <2>0 DEF Survives, Remembered
  <2>2. Linked'
    <3>1. CASE Kept
      BY <2>a, <3>1 DEF Kept, Linked
    <3>2. CASE Moved
      <4>1. \A n \in Places("straggler")' : TargetOf("straggler", n)'.linked =>
              /\ episode'[TargetOf("straggler", n)'.sid].state = "killed"
              /\ ~TargetOf("straggler", n)'.same => struck'[TargetOf("straggler", n)'.sid] = Off
        BY <2>a, <3>2, PumpIs DEF Moved
      <4> QED
        BY <3>2, <4>1, PumpIs DEF Moved, Linked
    <3> QED
      BY <2>0, <3>1, <3>2
  <2>3. LinkedOnce'
    <3>1. CASE Moved
      BY <3>1 DEF Moved, LinkedOnce
    <3>2. CASE Kept
      <4> SUFFICES ASSUME NEW m \in Places("current")', NEW n \in Places("straggler")',
                          TargetOf("current", m)'.sid = TargetOf("straggler", n)'.sid,
                          TargetOf("current", m)'.linked, TargetOf("straggler", n)'.linked
                   PROVE  FALSE
        BY Zenon DEF LinkedOnce
      <4>1. PICK j \in {0, 1} : From("current", "current", j)
        BY <3>2, PumpIs DEF Kept
      <4>2. PICK k \in {0, 1} : From("straggler", "straggler", k)
        BY <3>2, PumpIs DEF Kept
      <4>3. /\ m + j \in Places("current") /\ TargetOf("current", m + j).linked
            /\ TargetOf("current", m)'.sid = TargetOf("current", m + j).sid
        BY <4>1, Zenon DEF From
      <4>4. /\ n + k \in Places("straggler") /\ TargetOf("straggler", n + k).linked
            /\ TargetOf("straggler", n)'.sid = TargetOf("straggler", n + k).sid
        BY <4>2, Zenon DEF From
      <4> QED
        BY <4>3, <4>4, OneLink, PumpIs
    <3> QED
      BY <2>0, <3>1, <3>2
  <2> QED
    BY <2>1, <2>2, <2>3, DistinctStep DEF EpisodesKept
<1> QED
  BY <1>1, <1>2

-----------------------------------------------------------------------------
(* The budget of an offender.                                                 *)

LEMMA LoadTyped ==
  \A p \in Pump, i \in Identity :
    Ours(p, i) \in SUBSET Sid /\ IsFiniteSet(Ours(p, i)) /\ Share(p, i) \in Nat
  BY EligibleFinite DEF Ours, Share

LEMMA LoadTypedNext ==
  \A p \in Pump, i \in Identity :
    Ours(p, i)' \in SUBSET Sid /\ IsFiniteSet(Ours(p, i)') /\ Share(p, i)' \in Nat
  BY EligibleFinite DEF Ours, Share

LEMMA Fewer ==
  ASSUME NEW T \in SUBSET Sid, NEW U \in SUBSET T
  PROVE  Cardinality(U) <= Cardinality(T) /\ Cardinality(U) \in Nat /\ Cardinality(T) \in Nat
<1>1. U \in SUBSET Sid
  OBVIOUS
<1> QED
  BY <1>1, EligibleFinite, FS_Subset

LEMMA OursFrom ==
  ASSUME NEW p \in Pump, NEW q \in Pump, NEW k \in {0, 1}, From(p, q, k), NEW i \in Identity
  PROVE  Share(p, i)' <= Share(q, i)
<1>1. ASSUME NEW s \in Ours(p, i)' PROVE s \in Ours(q, i)
  <2>1. PICK n \in Places(p)' : /\ TargetOf(p, n)'.sid = s /\ TargetOf(p, n)'.who = i
                                /\ TargetOf(p, n)'.ours
    BY <1>1, Zenon DEF Ours
  <2>2. /\ n + k \in Places(q) /\ TargetOf(q, n + k).sid = s /\ TargetOf(q, n + k).who = i
        /\ TargetOf(q, n + k).ours
    BY <2>1, Zenon DEF From
  <2>3. s \in Sid
    BY <1>1, LoadTypedNext
  <2> QED
    BY <2>2, <2>3, Zenon DEF Ours
<1> QED
  BY <1>1, LoadTyped, Fewer DEF Share

LEMMA NoPlaceNoLoad ==
  ASSUME NEW p \in Pump, NEW i \in Identity
  PROVE  /\ Places(p) = {} => Share(p, i) = 0
         /\ (\A n \in Places(p)' : ~TargetOf(p, n)'.ours) => Share(p, i)' = 0
<1>1. Places(p) = {} => Ours(p, i) = {}
  BY DEF Ours
<1>2. (\A n \in Places(p)' : ~TargetOf(p, n)'.ours) => Ours(p, i)' = {}
  BY DEF Ours
<1> QED
  BY <1>1, <1>2, FS_EmptySet DEF Share

LEMMA Lighter ==
  ASSUME Kept \/ Moved, NEW i \in Identity
  PROVE  Load(i)' <= Load(i)
<1>1. \A p \in Pump : Share(p, i) \in Nat /\ Share(p, i)' \in Nat
  BY LoadTyped, LoadTypedNext
<1>2. CASE Kept
  <2>1. \A p \in Pump : Share(p, i)' <= Share(p, i)
    BY <1>2, OursFrom DEF Kept
  <2> QED
    BY <1>1, <2>1, PumpIs DEF Load
<1>3. CASE Moved
  <2>1. Share("straggler", i)' <= Share("current", i) /\ Share("current", i)' = 0
    BY <1>3, OursFrom, NoPlaceNoLoad, PumpIs DEF Moved
  <2> QED
    BY <1>1, <2>1, PumpIs DEF Load
<1> QED
  BY <1>2, <1>3

(* A KILL that settles was on the budget once.                                *)
LEMMA LoadSettled ==
  ASSUME Typed, Distinct, NEW p \in Pump, call[p].stage = "killing", NextKill(p),
         NEW i \in Identity
  PROVE  Load(i)' <= IF i = InFlight(p).who /\ InFlight(p).ours THEN Load(i) - 1 ELSE Load(i)
<1> DEFINE t == TargetOf(p, 1)
<1>1. /\ 1 \in Places(p) /\ InFlight(p) = t /\ t \in Target
      /\ \A n \in Places(p)' : n \in Nat /\ n + 1 \in Places(p) /\ n + 1 # 1
                               /\ TargetOf(p, n)' = TargetOf(p, n + 1)
  BY NextKilled DEF Typed
<1>2. From(p, p, 1) /\ \A q \in Pump \ {p} : From(q, q, 0)
  BY FromNextKill DEF Typed
<1>3. \A q \in Pump : Share(q, i)' <= Share(q, i)
  BY <1>2, OursFrom
<1>4. \A q \in Pump : Share(q, i) \in Nat /\ Share(q, i)' \in Nat
  BY LoadTyped, LoadTypedNext
<1>5. CASE i = t.who /\ t.ours
  <2>1. t.sid \in Ours(p, i)
    BY <1>1, <1>5 DEF Ours, Target
  <2>2. Ours(p, i)' \subseteq Ours(p, i) \ {t.sid}
    <3> SUFFICES ASSUME NEW s \in Ours(p, i)' PROVE s \in Ours(p, i) /\ s # t.sid
      OBVIOUS
    <3>1. PICK n \in Places(p)' : /\ TargetOf(p, n)'.sid = s /\ TargetOf(p, n)'.who = i
                                  /\ TargetOf(p, n)'.ours
      BY Zenon DEF Ours
    <3>2. /\ n + 1 \in Places(p) /\ n + 1 # 1 /\ TargetOf(p, n + 1).sid = s
          /\ TargetOf(p, n + 1).who = i /\ TargetOf(p, n + 1).ours
      BY <1>1, <3>1, Zenon
    <3>3. s # t.sid
      BY <1>1, <3>2, Zenon DEF Distinct
    <3>4. s \in Sid
      BY LoadTypedNext
    <3> QED
      BY <3>2, <3>3, <3>4, Zenon DEF Ours
  <2>3. Share(p, i)' <= Share(p, i) - 1
    <3>1. Cardinality(Ours(p, i) \ {t.sid}) = Share(p, i) - 1
      <4> HIDE DEF t
      <4>1. IsFiniteSet(Ours(p, i))
        BY LoadTyped
      <4> QED
        BY <2>1, <4>1, FS_RemoveElement DEF Share
    <3>2. Share(p, i)' <= Cardinality(Ours(p, i) \ {t.sid})
      BY <2>2, LoadTyped, Fewer DEF Share
    <3> QED
      BY <3>1, <3>2
  <2> HIDE DEF t
  <2>4. Share("current", i)' + Share("straggler", i)' <= Share("current", i) + Share("straggler", i) - 1
    BY <1>3, <1>4, <2>3, PumpIs
  <2>5. Load(i)' <= Load(i) - 1
    BY <1>4, <2>4, PumpIs DEF Load
  <2> QED
    BY <1>1, <1>5, <2>5
<1>6. CASE ~(i = t.who /\ t.ours)
  <2> HIDE DEF t
  <2>1. Share("current", i)' + Share("straggler", i)' <= Share("current", i) + Share("straggler", i)
    BY <1>3, <1>4, PumpIs
  <2>2. Load(i)' <= Load(i)
    BY <2>1 DEF Load
  <2> QED
    BY <1>1, <1>6, <2>2
<1> QED
  BY <1>5, <1>6

(* What a call that never started gives back is what it had on the budget,    *)
(* and what it had booked in buckets that are gone.                           *)
LEMMA RefundSplit ==
  ASSUME Typed, Distinct, NEW p \in Pump, NEW i \in Identity
  PROVE  LET N == Cardinality({t \in Held(p) : t.who = i /\ ~t.ours})
         IN /\ N \in Nat /\ N <= Refund(p, i) /\ Refund(p, i) \in Nat
            /\ Refund(p, i) <= N + Share(p, i)
<1> DEFINE A == {t \in Held(p) : t.who = i}
           B == {t \in Held(p) : t.who = i /\ ~t.ours}
           D == {t \in Held(p) : t.who = i /\ t.ours}
           f == [t \in D |-> t.sid]
<1>1. /\ IsFiniteSet(A) /\ IsFiniteSet(B) /\ IsFiniteSet(D)
      /\ Cardinality(A) \in Nat /\ Cardinality(B) \in Nat /\ Cardinality(D) \in Nat
  <2>1. A \in SUBSET Held(p) /\ B \in SUBSET Held(p) /\ D \in SUBSET Held(p)
    OBVIOUS
  <2> QED
    BY <2>1, HeldFinite DEF Typed
<1>2. B \in SUBSET A /\ A = B \cup D
  OBVIOUS
<1>3. f \in Injection(D, Ours(p, i))
  <2>1. ASSUME NEW t \in D PROVE t.sid \in Ours(p, i)
    <3>1. PICK n \in Places(p) : t = TargetOf(p, n)
      BY DEF Held
    <3>2. t \in Target
      BY <3>1, PlacesAre DEF Typed
    <3> QED
      BY <3>1, <3>2 DEF Ours, Target
  <2>2. ASSUME NEW t \in D, NEW u \in D, t.sid = u.sid PROVE t = u
    <3>1. PICK m \in Places(p) : t = TargetOf(p, m)
      BY DEF Held
    <3>2. PICK n \in Places(p) : u = TargetOf(p, n)
      BY DEF Held
    <3> QED
      BY <2>2, <3>1, <3>2 DEF Distinct
  <2>3. f \in [D -> Ours(p, i)]
    BY <2>1
  <2> HIDE DEF D
  <2>4. \A t, u \in D : t # u => f[t] # f[u]
    BY <2>2
  <2> QED
    BY <2>3, <2>4 DEF Injection, IsInjective
<1> HIDE DEF A, B, D, f
<1>4. Cardinality(D) <= Share(p, i)
  BY <1>3, LoadTyped, FS_Injection DEF Share
<1>5. Cardinality(B) <= Cardinality(A)
  BY <1>1, <1>2, FS_Subset
<1>6. Cardinality(A) <= Cardinality(B) + Cardinality(D)
  <2>1. Cardinality(A) = Cardinality(B) + Cardinality(D) - Cardinality(B \cap D)
    BY <1>1, <1>2, FS_Union
  <2>2. Cardinality(B \cap D) \in Nat
    <3>1. B \cap D \in SUBSET B
      OBVIOUS
    <3> QED
      BY <1>1, <3>1, FS_Subset, FS_CardinalityType
  <2> QED
    BY <1>1, <2>1, <2>2
<1>7. Share(p, i) \in Nat
  BY LoadTyped
<1>8. Cardinality(A) <= Cardinality(B) + Share(p, i)
  BY <1>1, <1>4, <1>6, <1>7
<1> QED
  BY <1>1, <1>5, <1>8 DEF A, B, Refund

LEMMA BudgetInit == Init => Budgeted
<1> SUFFICES ASSUME Init, NEW i \in Identity PROVE landed[i] + Load(i) <= bucket[i].kills + lost[i] + stale[i]
  BY DEF Budgeted
<1>1. Places("current") = {} /\ Places("straggler") = {}
  BY NoCallTyped, PumpIs DEF Init, Places
<1>2. Load(i) = 0
  BY <1>1, NoPlaceNoLoad, PumpIs DEF Load
<1>3. landed[i] = 0 /\ lost[i] = 0 /\ stale[i] = 0 /\ bucket[i].kills = 0
  BY DEF Init, NoBucket
<1> QED
  BY <1>2, <1>3

LEMMA BudgetPoll ==
  ASSUME Typed, Budgeted, Poll
  PROVE  Budgeted'
<1>1. PICK order \in SetToSeqs(Eligible) : \E due \in SetToSeqs(Chosen(order)) : Scan(order, due)
  BY Zenon DEF Poll
<1>2. PICK due \in SetToSeqs(Chosen(order)) : Scan(order, due)
  BY <1>1
<1>3. call["current"].stage = "idle" /\ CallsTyped /\ ScanTyped
  BY DEF Poll, PollDue, Typed
<1> SUFFICES ASSUME NEW i \in Identity PROVE landed'[i] + Load(i)' <= bucket'[i].kills + lost'[i] + stale'[i]
  BY DEF Budgeted
<1> DEFINE k == Cardinality(Booked(order, i))
<1>4. /\ bucket'[i] = ScannedBucket(order, i)
      /\ landed'[i] = IF Forgotten(i) THEN 0 ELSE landed[i]
      /\ lost'[i] = IF Forgotten(i) THEN 0 ELSE lost[i]
      /\ stale'[i] = IF Forgotten(i) THEN 0 ELSE stale[i]
  BY <1>2 DEF Scan
<1>5. bucket'[i].kills = Pruned[i].kills + k /\ k \in Nat
  BY <1>3, <1>4, BucketScanned, ScanInBudget
<1>6. Share("current", i)' <= k
  <2>1. Ours("current", i)' \subseteq Booked(order, i)
    <3> SUFFICES ASSUME NEW s \in Ours("current", i)' PROVE s \in Booked(order, i)
      OBVIOUS
    <3>1. PICK n \in Places("current")' : /\ TargetOf("current", n)'.sid = s
                                          /\ TargetOf("current", n)'.who = i
      BY Zenon DEF Ours
    <3>2. due[n] \in Chosen(order) /\ TargetOf("current", n)' = Reserve(due[n])
      BY <1>2, <1>3, ScanCalls
    <3>3. s \in Chosen(order) /\ session[s].who = i
      BY <3>1, <3>2 DEF Reserve
    <3> QED
      BY <3>3 DEF Booked, Mine, Chosen, InBudget
  <2>2. Booked(order, i) \in SUBSET Sid
    BY EligibleFinite DEF Booked, Mine
  <2> QED
    BY <2>1, <2>2, Fewer DEF Share
<1>7. From("straggler", "straggler", 0) /\
      \A n \in Places("straggler")' :
        TargetOf("straggler", n)'.ours => ~Forgotten(TargetOf("straggler", n)'.who)
  BY <1>2, <1>3, ScanKeeps
<1>8. Share("straggler", i)' <= Share("straggler", i)
  BY <1>7, OursFrom, PumpIs
<1>9. \A p \in Pump : Share(p, i) \in Nat /\ Share(p, i)' \in Nat
  BY LoadTyped, LoadTypedNext
<1>10. landed[i] + Load(i) <= bucket[i].kills + lost[i] + stale[i] /\ landed[i] \in Nat /\ lost[i] \in Nat /\ stale[i] \in Nat
  BY DEF Budgeted, Typed, HistoryTyped
<1>11. Pruned[i].kills \in Nat
  BY <1>3, PrunedTyped DEF Bucket
<1> HIDE DEF k
<1>12. CASE Forgotten(i)
  <2>1. Ours("straggler", i)' = {}
    <3> SUFFICES ASSUME NEW s \in Ours("straggler", i)' PROVE FALSE
      OBVIOUS
    <3>1. PICK n \in Places("straggler")' : TargetOf("straggler", n)'.who = i /\ TargetOf("straggler", n)'.ours
      BY Zenon DEF Ours
    <3> QED
      BY <1>7, <1>12, <3>1, Zenon
  <2>2. Share("straggler", i)' = 0
    BY <2>1, FS_EmptySet DEF Share
  <2> QED
    BY <1>4, <1>5, <1>6, <1>9, <1>11, <1>12, <2>2, PumpIs DEF Load
<1>13. CASE ~Forgotten(i)
  <2>1. Pruned[i] = bucket[i]
    BY <1>3, <1>13, PrunedTyped
  <2> QED
    BY <1>4, <1>5, <1>6, <1>8, <1>9, <1>10, <1>11, <1>13, <2>1, PumpIs DEF Load
<1> QED
  BY <1>12, <1>13

LEMMA BudgetStep ==
  ASSUME Typed, Distinct, Budgeted, [Next]_vars
  PROVE  Budgeted'
<1>a. \A i \in Identity :
        /\ landed[i] + Load(i) <= bucket[i].kills + lost[i] + stale[i]
        /\ landed[i] \in Nat /\ lost[i] \in Nat /\ stale[i] \in Nat /\ bucket[i].kills \in Nat
        /\ Load(i) \in Nat /\ Load(i)' \in Nat
  <2>1. \A i \in Identity : Load(i) \in Nat /\ Load(i)' \in Nat
    BY LoadTyped, LoadTypedNext, PumpIs DEF Load
  <2> QED
    BY <2>1 DEF Budgeted, Typed, HistoryTyped, ScanTyped, Bucket
<1>b. ASSUME Kept \/ Moved, landed' = landed, lost' = lost, stale' = stale,
             \A i \in Identity : bucket'[i].kills = bucket[i].kills
      PROVE  Budgeted'
  <2> SUFFICES ASSUME NEW i \in Identity PROVE landed'[i] + Load(i)' <= bucket'[i].kills + lost'[i] + stale'[i]
    BY DEF Budgeted
  <2>1. Load(i)' <= Load(i)
    BY <1>b, Lighter
  <2> QED
    BY <1>a, <1>b, <2>1
<1>c. ASSUME ResetDebt, NEW c \in [Pump -> Calls], call' = Unlinked(c) PROVE Budgeted'
  <2> SUFFICES ASSUME NEW i \in Identity PROVE landed'[i] + Load(i)' <= bucket'[i].kills + lost'[i] + stale'[i]
    BY DEF Budgeted
  <2>1. landed'[i] = 0 /\ lost'[i] = 0 /\ stale'[i] = 0 /\ bucket'[i].kills = 0
    BY <1>c DEF ResetDebt, NoBucket
  <2>2. \A p \in Pump : \A n \in Places(p)' : ~TargetOf(p, n)'.ours
    BY <1>c, UnlinkedCalls DEF Places, TargetOf
  <2>3. Load(i)' = 0
    BY <2>2, NoPlaceNoLoad, PumpIs DEF Load
  <2> QED
    BY <2>1, <2>3
<1>1. CASE Poll
  BY <1>1, BudgetPoll
<1>2. CASE ~Poll
  <2>0. Kept \/ Moved
    BY <1>2, Thinned
  <2>1. ASSUME NEW p \in Pump, AbandonKills(p) PROVE Budgeted'
    <3> SUFFICES ASSUME NEW i \in Identity PROVE landed'[i] + Load(i)' <= bucket'[i].kills + lost'[i] + stale'[i]
      BY DEF Budgeted
    <3> DEFINE N == Cardinality({t \in Held(p) : t.who = i /\ ~t.ours})
               R == Refund(p, i)
    <3>1. /\ bucket'[i].kills = IF bucket[i].kills > R THEN bucket[i].kills - R ELSE 0
          /\ stale'[i] = stale[i] + UpTo(N, bucket[i].kills) /\ landed' = landed /\ lost' = lost
      BY <2>1, AbandonIs DEF AbandonKills
    <3>2. N \in Nat /\ R \in Nat /\ N <= R /\ R <= N + Share(p, i)
      BY RefundSplit
    <3> HIDE DEF N, R
    <3>3. Load(i)' + Share(p, i) <= Load(i)
      <4>1. /\ \A q \in Pump \ {p} : call'[q].targets = call[q].targets
            /\ call'[p].targets = <<>>
        BY <2>1, NoCallTyped DEF AbandonKills, Typed, CallsTyped
      <4>2. \A q \in Pump \ {p} : Share(q, i)' <= Share(q, i)
        BY <4>1, FromSame, OursFrom DEF Typed
      <4>3. Share(p, i)' = 0
        BY <4>1, FromNothing, NoPlaceNoLoad
      <4>4. \A q \in Pump : Share(q, i) \in Nat /\ Share(q, i)' \in Nat
        BY LoadTyped, LoadTypedNext
      <4>5. CASE p = "current"
        BY <4>2, <4>3, <4>4, <4>5, PumpIs DEF Load
      <4>6. CASE p = "straggler"
        BY <4>2, <4>3, <4>4, <4>6, PumpIs DEF Load
      <4> QED
        BY <4>5, <4>6, PumpIs
    <3>4. Share(p, i) \in Nat
      BY LoadTyped
    <3> QED
      BY <1>a, <3>1, <3>2, <3>3, <3>4 DEF UpTo
  <2>2. ASSUME NEW p \in Pump, StartKills(p) PROVE Budgeted'
    BY <1>b, <2>0, <2>2 DEF StartKills
  <2>3. ASSUME NEW p \in Pump, KillLands(p) \/ KillTimesOut(p) PROVE Budgeted'
    <3> SUFFICES ASSUME NEW i \in Identity PROVE landed'[i] + Load(i)' <= bucket'[i].kills + lost'[i] + stale'[i]
      BY DEF Budgeted
    <3>1. InFlight(p) \in Target /\ Load(i)' <= IF i = InFlight(p).who /\ InFlight(p).ours THEN Load(i) - 1 ELSE Load(i)
      BY <2>3, NextKilled, LoadSettled DEF KillLands, KillTimesOut, Typed
    <3>2. /\ landed'[i] = IF i = InFlight(p).who /\ InFlight(p).ours THEN landed[i] + 1 ELSE landed[i]
          /\ bucket' = bucket /\ lost' = lost /\ stale' = stale
      BY <2>3, <3>1, ReachedTyped DEF KillLands, KillTimesOut
    <3> QED
      BY <1>a, <3>1, <3>2
  <2>4. ASSUME NEW p \in Pump, KillRejected(p) \/ KillUnanswered(p) PROVE Budgeted'
    <3> SUFFICES ASSUME NEW i \in Identity PROVE landed'[i] + Load(i)' <= bucket'[i].kills + lost'[i] + stale'[i]
      BY DEF Budgeted
    <3> DEFINE t == InFlight(p)
    <3>0. Refunded(p)
      BY <2>4, RefundedHow
    <3>1. t \in Target /\ Load(i)' <= IF i = t.who /\ t.ours THEN Load(i) - 1 ELSE Load(i)
      BY <3>0, NextKilled, LoadSettled DEF Refunded, Typed
    <3>2. /\ bucket' = [bucket EXCEPT ![t.who] = UndoKill(@)]
          /\ stale' = [stale EXCEPT ![t.who] = IF ~t.ours /\ bucket[t.who].kills > 0 THEN stale[t.who] + 1
                                               ELSE stale[t.who]]
      BY <3>0, Zenon DEF Refunded
    <3>3. t.who \in Identity
      BY <3>1 DEF Target
    <3>6. \/ landed'[i] = landed[i] /\ lost'[i] = lost[i]
          \/ i = t.who /\ t.ours /\ landed'[i] = landed[i] + 1 /\ lost'[i] = lost[i] + 1
      BY <2>4, RefundedHow
    <3> HIDE DEF t
    <3>4. bucket'[i].kills = IF i = t.who THEN (IF bucket[i].kills > 0 THEN bucket[i].kills - 1 ELSE 0)
                             ELSE bucket[i].kills
      BY <3>2, <3>3, RefundTyped
    <3>5. stale'[i] = IF i = t.who /\ ~t.ours /\ bucket[i].kills > 0 THEN stale[i] + 1 ELSE stale[i]
      BY <3>2, <3>3 DEF Typed, HistoryTyped
    <3> QED
      BY <1>a, <3>1, <3>4, <3>5, <3>6
  <2>5. CASE StatementEnds \/ Issue \/ PollFails \/ Sample
    BY <1>b, <2>0, <2>5 DEF StatementEnds, Issue, PollFails, Sample, killer, history
  <2>6. CASE Disarm
    BY <1>c, <2>6, OrphanedCalls DEF Disarm, Typed
  <2>7. CASE Arm
    BY <1>c, <2>7 DEF Arm, Typed, CallsTyped
  <2>8. ASSUME NEW s \in Sid, SessionChanges(s) PROVE Budgeted'
    BY <1>b, <2>0, <2>8 DEF SessionChanges
  <2>9. CASE Tick
    <3>1. \A i \in Identity : bucket[i] \in Bucket /\ bucket'[i] = OlderBucket(bucket[i])
      BY <2>9 DEF Tick, Typed, ScanTyped
    <3>2. \A i \in Identity : bucket'[i].kills = bucket[i].kills
      BY <3>1, Aged
    <3> QED
      BY <1>b, <2>0, <2>9, <3>2 DEF Tick
  <2>10. CASE UNCHANGED vars
    BY <1>b, <2>0, <2>10 DEF vars, killer, history
  <2> QED
    BY <1>2, <2>1, <2>2, <2>3, <2>4, <2>5, <2>6, <2>7, <2>8, <2>9, <2>10 DEF Next, Kills
<1> QED
  BY <1>1, <1>2

-----------------------------------------------------------------------------
(* The theorems.                                                              *)

(* What every reachable state satisfies, and every step keeps.                *)
KillerInv == Typed /\ Banked /\ EpisodesKept /\ Budgeted

LEMMA KillerInvariant == Spec => []KillerInv
<1>1. Init => KillerInv
  BY TypeInit, BankedInit, EpisodesInit, BudgetInit DEF KillerInv
<1>2. KillerInv /\ [Next]_vars => KillerInv'
  BY TypeStep, BankedStep, EpisodesStep, BudgetStep DEF KillerInv, EpisodesKept
<1> QED
  BY <1>1, <1>2, PTL DEF Spec

(* Every variable keeps its type, for any sessions, offenders and bounds.     *)
THEOREM VictimTyped == Spec => []TypeOK
<1>1. KillerInv => TypeOK
  BY TypedIsTypeOK DEF KillerInv
<1> QED
  BY <1>1, KillerInvariant, PTL

(* An offender never receives more KILLs than maxRepeatKills, but for those    *)
(* that two refunds bought, of an answer that was lost and of an earlier       *)
(* bucket: not by one snapshot that lists many of its sessions, not by KILLs   *)
(* that time out, and not by a call that is still at work when the next        *)
(* statement polls.                                                           *)
THEOREM BudgetIsKept == Spec => []KillBudget
<1>1. KillerInv => KillBudget
  <2> SUFFICES ASSUME KillerInv, NEW i \in Identity PROVE landed[i] <= MaxKills + lost[i] + stale[i]
    BY DEF KillBudget
  <2>1. landed[i] + Load(i) <= bucket[i].kills + lost[i] + stale[i] /\ bucket[i].kills <= MaxKills
    BY DEF KillerInv, Budgeted, Typed, ScanTyped
  <2>2. /\ landed[i] \in Nat /\ lost[i] \in Nat /\ stale[i] \in Nat /\ bucket[i].kills \in Nat /\ Load(i) \in Nat
        /\ MaxKills \in Nat
    BY Sizes, LoadTyped, PumpIs DEF KillerInv, Typed, HistoryTyped, ScanTyped, Bucket, Load
  <2> QED
    BY <2>1, <2>2
<1> QED
  BY <1>1, KillerInvariant, PTL

(* The debt of an offender is time between two polls in a row that both found  *)
(* it eligible: an absence, a failed poll or a second session adds nothing.    *)
THEOREM DebtIsWitnessed == Spec => []DebtWitnessed
<1>1. KillerInv => DebtWitnessed
  BY DEF KillerInv, Banked, DebtWitnessed
<1> QED
  BY <1>1, KillerInvariant, PTL

(* A session is not killed again within the grace window of its KILL, however  *)
(* many statements have come and gone and whatever became of the first call.   *)
THEOREM NobodyDiesTwice == Spec => NoDoubleKill
<1>1. ASSUME KillerInv, Poll, NEW n \in DOMAIN call'["current"].targets
      PROVE  struck[call'["current"].targets[n].sid] = Off
  <2>1. PICK order \in SetToSeqs(Eligible) : \E due \in SetToSeqs(Chosen(order)) : Scan(order, due)
    BY <1>1, Zenon DEF Poll
  <2>2. PICK due \in SetToSeqs(Chosen(order)) : Scan(order, due)
    BY <2>1
  <2>3. n \in Places("current")' /\ TargetOf("current", n)' = call'["current"].targets[n]
    BY DEF Places, TargetOf
  <2>4. due[n] \in Chosen(order) /\ TargetOf("current", n)' = Reserve(due[n])
    BY <1>1, <2>2, <2>3, ScanCalls DEF Poll, PollDue, KillerInv, Typed
  <2>5. due[n] \in Sid /\ episode[due[n]].state # "killed"
    BY <2>4, ChosenIsFree
  <2>6. struck[due[n]] = Off
    BY <1>1, <2>5 DEF KillerInv, EpisodesKept, Remembered
  <2> QED
    BY <2>3, <2>4, <2>6 DEF Reserve
<1>2. KillerInv /\ [Next]_vars =>
        [Poll => \A n \in DOMAIN call'["current"].targets :
                   struck[call'["current"].targets[n].sid] = Off]_vars
  BY <1>1
<1> QED
  BY <1>2, KillerInvariant, PTL DEF Spec, NoDoubleKill
=============================================================================
