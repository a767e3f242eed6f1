------------------------- MODULE ExecSessionProofs -------------------------
(***************************************************************************)
(* Proofs about the execution session, for any number of session ids,      *)
(* logins, claims, crashes and KILLs: the statements of a run come one at  *)
(* a time, carry the run's marker, and no KILL of the program ends a       *)
(* session that it had not verified to be its own.                         *)
(*                                                                         *)
(* The argument: a login is newer than every login_time the program has    *)
(* written down, so a recorded login_time can only ever name the session   *)
(* it was read from (LoginsOrdered, RecordsOurs).  Whatever executes is    *)
(* then the session that rec names, one that a manifest left in processing *)
(* names, or one the program lost sight of (AtMostOne), and where a        *)
(* statement is sent only the last two execute (QuietWhereNew).            *)
(*                                                                         *)
(* And proofs about the blocker killer of the same session, for any rules, *)
(* delays and caps: the mark that measures a charge never runs ahead of    *)
(* the time since the poll that saw this blocker (MarkWitnessed), and a    *)
(* KILL that reached the server is in the bucket of its rule or counted    *)
(* lost (Paid, FitsCap).                                                   *)
(***************************************************************************)
EXTENDS ExecSession, BlockerKiller, FiniteSetTheorems, WellFoundedInduction, TLAPS

(* Every login_time written down is that of a login that has happened. *)
LoginsOrdered ==
  /\ \A i \in Ids : server[i].login <= logins
  /\ conn.login <= logins /\ rec.login <= logins
  /\ \A k \in Killers : held[k].login <= logins /\ held[k].at <= logins

(* A session that answers to a login_time the program wrote down is its own. *)
RecordsOurs ==
  \A i \in Ids : server[i].login # 0 =>
    /\ server[i].login = rec.login => server[i].own
    /\ \A k \in Killers : server[i].login = held[k].login => server[i].own

(* The connection in hand is the one that rec describes. *)
LinkRecorded ==
  conn # NoLink => /\ conn.id \in Ids /\ conn.id = rec.spid
                   /\ conn.login # 0 /\ rec.login \in {0, conn.login}

(* What the stages of the execution goroutine know. *)
StagesKept ==
  /\ done => InStatement
  /\ pc \in {"ping", "probe", "wait", "pin"} => rec.suspect
  /\ pc \in {"probe", "wait"} => rec.login # 0
  /\ pc \in {"down", "sweep", "idle"} => sidecar = NoSidecar

(* The statements that a later run adopts or that nobody looks for. *)
Apart == Adopted \cup Astray

AtMostOne ==
  \A i \in Executing \ Apart :
    pc \notin {"down", "sweep"} /\ i = rec.spid /\ rec.login \in {0, server[i].login}

QuietWhereNew ==
  (\/ pc \in {"idle", "ready"} /\ ~rec.suspect
   \/ done /\ ~rec.suspect
   \/ pc \in {"pin", "send"})
    => Executing \subseteq Apart

(* Outside a statement the connection in hand is idle. *)
IdleBetween == Alive /\ (~InStatement \/ done) => ~Running(server[conn.id])

MarkerKept ==
  /\ sidecar.marker # 0 /\ pc \notin {"down", "sweep"} => rec.marker = sidecar.marker
  /\ Alive => server[conn.id].marker = rec.marker

(* A KILL about to be sent names a session of ours, or one that came later. *)
HeldVerified ==
  \A k \in Killers : held[k].step = "kill" =>
    /\ held[k].spid \in Ids
    /\ server[held[k].spid] # Free /\ ~server[held[k].spid].own =>
         server[held[k].spid].login > held[k].at

Inv ==
  /\ TypeOK
  /\ LoginsOrdered /\ RecordsOurs /\ LinkRecorded /\ StagesKept
  /\ AtMostOne /\ QuietWhereNew /\ IdleBetween
  /\ MarkerKept /\ HeldVerified


USE Bounds

LEMMA TypeInit == Init => TypeOK
<1> SUFFICES ASSUME Init PROVE TypeOK
  OBVIOUS
<1> USE DEF Init
<1>1. server \in [Ids -> Sessions]
  BY DEF Sessions, Free
<1>2. held \in [Killers -> Holds]
  BY DEF Unarmed, Holds
<1>3. sidecar \in Sidecars /\ left \subseteq Sidecars /\ todo \subseteq left
  BY DEF NoSidecar, Sidecars
<1>4. rec \in [spid : Ids \cup {0}, login : 0..MaxLogins, marker : 0..MaxClaims, suspect : BOOLEAN]
  BY DEF NoRecord
<1>5. /\ logins \in 0..MaxLogins /\ polls \in 0..OrphanPolls
     /\ claims \in 0..MaxClaims /\ crashes \in 0..MaxCrashes /\ pressed \in 0..MaxConsole
  OBVIOUS
<1>6. conn \in {NoLink} \cup [id : Ids, login : 1..MaxLogins]
  OBVIOUS
<1>7. done \in BOOLEAN /\ astray \subseteq 1..MaxLogins
     /\ pc \in {"down", "sweep", "idle", "ready", "ping", "probe", "wait", "pin", "send", "exec", "stop"}
  OBVIOUS
<1> HIDE DEF Init
<1> QED
  BY <1>1, <1>2, <1>3, <1>4, <1>5, <1>6, <1>7, Zenon DEF TypeOK

(* The end of the process, by itself or not, leaves everything typed. *)
LEMMA GoneTyped ==
  ASSUME TypeOK, Gone
  PROVE  /\ logins' \in 0..MaxLogins /\ conn' = NoLink
         /\ rec' \in [spid : Ids \cup {0}, login : 0..MaxLogins, marker : 0..MaxClaims, suspect : BOOLEAN]
         /\ pc' = "down" /\ done' = FALSE /\ polls' = 0 /\ polls' \in 0..OrphanPolls
         /\ held' \in [Killers -> Holds]
         /\ sidecar' \in Sidecars /\ left' \subseteq Sidecars /\ todo' \subseteq left'
         /\ claims' \in 0..MaxClaims /\ pressed' \in 0..MaxConsole
         /\ astray' \subseteq 1..MaxLogins
<1>1. rec' \in [spid : Ids \cup {0}, login : 0..MaxLogins, marker : 0..MaxClaims, suspect : BOOLEAN]
  BY DEF Gone, NoRecord
<1>2. held' \in [Killers -> Holds]
  BY DEF Gone, Holds, Unarmed
<1>3. sidecar' \in Sidecars /\ left' \subseteq Sidecars /\ todo' \subseteq left'
  <2>1. NoSidecar \in Sidecars
    BY DEF NoSidecar, Sidecars
  <2> QED
    BY <2>1 DEF Gone, TypeOK
<1>4. astray' \subseteq 1..MaxLogins
  <2>1. \A i \in Executing : server[i].login \in 1..MaxLogins
    BY DEF Executing, Running, TypeOK, Sessions
  <2>2. PICK S \in SUBSET Executing : LoseSight(S)
    BY Zenon DEF Gone
  <2>3. {server[i].login : i \in S} \subseteq 1..MaxLogins
    BY <2>1
  <2>4. astray \subseteq 1..MaxLogins /\ astray' = astray \cup {server[i].login : i \in S}
    BY <2>2 DEF LoseSight, TypeOK
  <2> QED
    BY <2>3, <2>4
<1> QED
  BY <1>1, <1>2, <1>3, <1>4 DEF Gone, TypeOK

(* Losing sight of what executes. *)
LEMMA LostTyped ==
  ASSUME TypeOK, NEW S, S \subseteq Executing, LoseSight(S)
  PROVE  astray' \subseteq 1..MaxLogins
<1>1. \A i \in Executing : server[i].login \in 1..MaxLogins
  BY DEF Executing, Running, TypeOK, Sessions
<1> QED
  BY <1>1 DEF LoseSight, TypeOK

(* Every step keeps the types. *)
LEMMA TypeStep == TypeOK /\ [Next]_vars => TypeOK'
<1> SUFFICES ASSUME TypeOK, [Next]_vars PROVE TypeOK'
  OBVIOUS
<1> USE DEF TypeOK, Sessions, Holds, Sidecars, budgets, found, Free, NoLink, NoSidecar, Unarmed
<1>1. CASE Stranger
  BY <1>1 DEF Stranger, LogIn
<1>2. CASE SessionEnds
  BY <1>2 DEF SessionEnds
<1>3. CASE OrphanStops
  BY <1>3 DEF OrphanStops, Becomes, Executing
<1>4. CASE LinkLost
  BY <1>4 DEF LinkLost
<1>5. CASE Open
  BY <1>5 DEF Open, LogIn, Pinned
<1>6. CASE Requeue \/ LeaveInProcessing
  BY <1>6 DEF Requeue, LeaveInProcessing
<1>7. CASE SweepEnds \/ Interrupted
  <2>1. NoSidecar \in Sidecars
    OBVIOUS
  <2>2. sidecar' \in Sidecars /\ left' \subseteq Sidecars /\ todo' \subseteq left'
    BY <1>7, <2>1 DEF SweepEnds, Interrupted
  <2>3. pc' = "idle" /\ UNCHANGED <<server, logins, conn, rec, done, polls, held, budgets, astray>>
    BY <1>7 DEF SweepEnds, Interrupted
  <2> HIDE DEF Sessions, Holds, Sidecars
  <2> QED
    BY <2>2, <2>3
<1>8. CASE Claim
  BY <1>8 DEF Claim, Alive, WithinBound
<1>9. CASE Conclude
  BY <1>9 DEF Conclude
<1>10. CASE Crash
  <2>1. server' = server /\ crashes' \in 0..MaxCrashes /\ Gone
    BY <1>10 DEF Crash
  <2> HIDE DEF Sessions, Holds
  <2> QED
    BY <2>1, GoneTyped
<1>11. CASE Issue
  BY <1>11 DEF Issue
<1>12. CASE Ping
  <2>1. astray' \subseteq 1..MaxLogins
    BY <1>12, LostTyped DEF Ping
  <2> QED
    BY <1>12, <2>1 DEF Ping, Alive
<1>13. CASE Probe
  <2>1. astray' \subseteq 1..MaxLogins
    BY <1>13, LostTyped DEF Probe
  <2> QED
    BY <1>13, <2>1 DEF Probe, AfterProbe, Expired, OrphanRuns, Identifies, Running, Killers
<1>14. CASE Wait
  BY <1>14 DEF Wait, Polled, Killers
<1>15. CASE Pin
  BY <1>15 DEF Pin, LogIn, Pinned
<1>16. CASE PinFails
  BY <1>16 DEF PinFails
<1>17. CASE Send
  <2>1. CASE Alive
    <3>1. conn.id \in Ids /\ server' = [server EXCEPT ![conn.id].busy = "run"]
      BY <1>17, <2>1 DEF Send, Becomes, Alive
    <3> QED
      BY <1>17, <2>1, <3>1 DEF Send
  <2>2. CASE ~Alive
    BY <1>17, <2>2 DEF Send
  <2> QED
    BY <2>1, <2>2
<1>18. CASE Finish
  BY <1>18 DEF Finish, Becomes, Alive, InStatement
<1>19. CASE Break
  BY <1>19 DEF Break, Alive, InStatement
<1>20. CASE Cancel
  BY <1>20 DEF Cancel
<1>21. CASE GraceExpires
  BY <1>21 DEF GraceExpires, Arm, Killers
<1>22. CASE Return
  <2>1. held' \in [Killers -> Holds]
    <3>1. Unarmed \in Holds
      OBVIOUS
    <3> QED
      BY <1>22, <3>1 DEF Return
  <2> QED
    BY <1>22, <2>1 DEF Return
<1>23. CASE PressKill
  BY <1>23 DEF PressKill, Arm, Killers
<1>24. ASSUME NEW k \in Killers, Verify(k) PROVE TypeOK'
  <2>1. PICK h : held' = [held EXCEPT ![k] = h] /\ h \in {[held[k] EXCEPT !.step = "kill", !.at = logins], Over(k)}
    BY <1>24 DEF Verify
  <2>2. [held[k] EXCEPT !.step = "kill", !.at = logins] \in Holds
    <3>1. held[k] \in Holds /\ logins \in 0..MaxLogins
      OBVIOUS
    <3> HIDE DEF TypeOK
    <3> QED
      BY <3>1
  <2>3. Over(k) \in Holds
    BY DEF Over
  <2> QED
    BY <1>24, <2>1, <2>2, <2>3 DEF Verify
<1>25. ASSUME NEW k \in Killers, Kill(k) PROVE TypeOK'
  <2>1. Over(k) \in Holds
    BY DEF Over
  <2>2. server' \in [Ids -> Sessions]
    <3>1. \A s \in Sessions : Killed(s) \in Sessions
      BY DEF Killed
    <3>2. PICK lands \in BOOLEAN :
            server' = IF lands THEN [server EXCEPT ![held[k].spid] = Killed(@)] ELSE server
      BY <1>25 DEF Kill
    <3> HIDE DEF Sessions
    <3> QED
      BY <3>1, <3>2
  <2> QED
    BY <1>25, <2>1, <2>2 DEF Kill
<1>27. CASE Quit
  <2>1. server' \in [Ids -> Sessions] /\ crashes' = crashes /\ Gone
    <3>1. server' \in {server, [server EXCEPT ![conn.id] = Free]} /\ crashes' = crashes /\ Gone
      BY <1>27, Zenon DEF Quit
    <3>2. Free \in Sessions
      OBVIOUS
    <3> HIDE DEF Sessions, Holds, Sidecars, Free
    <3> QED
      BY <3>1, <3>2
  <2> HIDE DEF Sessions, Holds
  <2> QED
    BY <2>1, GoneTyped
<1>28. CASE NextDatabase
  <2>1. astray' \subseteq 1..MaxLogins
    BY <1>28, LostTyped DEF NextDatabase
  <2> QED
    BY <1>28, <2>1 DEF NextDatabase, LogIn, Pinned
<1>26. CASE UNCHANGED vars
  BY <1>26 DEF vars, found
<1> QED
  BY <1>1, <1>2, <1>3, <1>4, <1>5, <1>6, <1>7, <1>8, <1>9, <1>10, <1>11, <1>12, <1>13, <1>14, <1>15, <1>16, <1>17, <1>18, <1>19, <1>20, <1>21, <1>22, <1>23, <1>24, <1>25, <1>26, <1>27, <1>28 DEF Next

(* No login_time is written down before its login. *)
LEMMA LoginsStep ==
  ASSUME TypeOK, LoginsOrdered, [Next]_vars
  PROVE  LoginsOrdered'
<1> USE DEF TypeOK, Sessions, Holds, budgets, found, Free, NoLink, NoSidecar, Unarmed, LoginsOrdered
<1>1. CASE Stranger
  BY <1>1 DEF Stranger, LogIn
<1>2. CASE SessionEnds
  BY <1>2 DEF SessionEnds
<1>3. CASE OrphanStops
  BY <1>3 DEF OrphanStops, Becomes, Executing
<1>4. CASE LinkLost
  BY <1>4 DEF LinkLost
<1>5. CASE Open
  BY <1>5 DEF Open, LogIn, Pinned
<1>6. CASE Requeue \/ LeaveInProcessing
  BY <1>6 DEF Requeue, LeaveInProcessing
<1>7. CASE SweepEnds \/ Interrupted
  BY <1>7 DEF SweepEnds, Interrupted
<1>8. CASE Claim
  BY <1>8 DEF Claim, Alive
<1>9. CASE Conclude
  BY <1>9 DEF Conclude
<1>10. CASE Crash
  BY <1>10 DEF Crash, Gone, NoRecord
<1>11. CASE Issue
  BY <1>11 DEF Issue
<1>12. CASE Ping
  BY <1>12 DEF Ping, Alive
<1>13. CASE Probe
  BY <1>13 DEF Probe, AfterProbe, Expired
<1>14. CASE Wait
  BY <1>14 DEF Wait, Polled
<1>15. CASE Pin
  BY <1>15 DEF Pin, LogIn, Pinned
<1>16. CASE PinFails
  BY <1>16 DEF PinFails
<1>17. CASE Send
  BY <1>17 DEF Send, Becomes, Alive
<1>18. CASE Finish
  BY <1>18 DEF Finish, Becomes, Alive
<1>19. CASE Break
  BY <1>19 DEF Break, Alive
<1>20. CASE Cancel
  BY <1>20 DEF Cancel
<1>21. CASE GraceExpires
  BY <1>21 DEF GraceExpires, Arm
<1>22. CASE Return
  BY <1>22 DEF Return
<1>23. CASE PressKill
  BY <1>23 DEF PressKill, Arm
<1>24. ASSUME NEW k \in Killers, Verify(k) PROVE LoginsOrdered'
  BY <1>24 DEF Verify, Over, KillSelfDecision, Identifies
<1>25. ASSUME NEW k \in Killers, Kill(k) PROVE LoginsOrdered'
  BY <1>25 DEF Kill, Over, Killed
<1>27. CASE Quit
  BY <1>27 DEF Quit, Gone, NoRecord, Alive
<1>28. CASE NextDatabase
  BY <1>28 DEF NextDatabase, LogIn, Pinned
<1>26. CASE UNCHANGED vars
  BY <1>26 DEF vars, found
<1> QED
  BY <1>1, <1>2, <1>3, <1>4, <1>5, <1>6, <1>7, <1>8, <1>9, <1>10, <1>11, <1>12, <1>13, <1>14, <1>15, <1>16, <1>17, <1>18, <1>19, <1>20, <1>21, <1>22, <1>23, <1>24, <1>25, <1>26, <1>27, <1>28 DEF Next

(* A recorded login_time names a session of ours. *)
LEMMA OursStep ==
  ASSUME TypeOK, LoginsOrdered, RecordsOurs, [Next]_vars
  PROVE  RecordsOurs'
<1> USE DEF TypeOK, Sessions, Holds, budgets, found, Free, NoLink, NoSidecar, Unarmed, LoginsOrdered, RecordsOurs
<1>1. CASE Stranger
  BY <1>1 DEF Stranger, LogIn
<1>2. CASE SessionEnds
  BY <1>2 DEF SessionEnds
<1>3. CASE OrphanStops
  BY <1>3 DEF OrphanStops, Becomes, Executing
<1>4. CASE LinkLost
  BY <1>4 DEF LinkLost
<1>5. CASE Open
  BY <1>5 DEF Open, LogIn, Pinned
<1>6. CASE Requeue \/ LeaveInProcessing
  BY <1>6 DEF Requeue, LeaveInProcessing
<1>7. CASE SweepEnds \/ Interrupted
  BY <1>7 DEF SweepEnds, Interrupted
<1>8. CASE Claim
  <2>1. \A i \in Ids : server'[i].login = server[i].login /\ server'[i].own = server[i].own
    BY <1>8 DEF Claim, Alive
  <2>2. UNCHANGED <<logins, held>> /\ rec'.login = rec.login
    BY <1>8 DEF Claim
  <2> HIDE DEF Sessions, Holds
  <2> QED
    BY <2>1, <2>2
<1>9. CASE Conclude
  BY <1>9 DEF Conclude
<1>10. CASE Crash
  BY <1>10 DEF Crash, Gone, NoRecord
<1>11. CASE Issue
  BY <1>11 DEF Issue
<1>12. CASE Ping
  BY <1>12 DEF Ping, Alive
<1>13. CASE Probe
  BY <1>13 DEF Probe, AfterProbe, Expired
<1>14. CASE Wait
  BY <1>14 DEF Wait, Polled
<1>15. CASE Pin
  BY <1>15 DEF Pin, LogIn, Pinned
<1>16. CASE PinFails
  BY <1>16 DEF PinFails
<1>17. CASE Send
  BY <1>17 DEF Send, Becomes, Alive
<1>18. CASE Finish
  BY <1>18 DEF Finish, Becomes, Alive
<1>19. CASE Break
  BY <1>19 DEF Break, Alive
<1>20. CASE Cancel
  BY <1>20 DEF Cancel
<1>21. CASE GraceExpires
  BY <1>21 DEF GraceExpires, Arm
<1>22. CASE Return
  BY <1>22 DEF Return
<1>23. CASE PressKill
  BY <1>23 DEF PressKill, Arm
<1>24. ASSUME NEW k \in Killers, Verify(k) PROVE RecordsOurs'
  BY <1>24 DEF Verify, Over, KillSelfDecision, Identifies
<1>25. ASSUME NEW k \in Killers, Kill(k) PROVE RecordsOurs'
  BY <1>25 DEF Kill, Over, Killed
<1>27. CASE Quit
  BY <1>27 DEF Quit, Gone, NoRecord, Alive
<1>28. CASE NextDatabase
  BY <1>28 DEF NextDatabase, LogIn, Pinned
<1>26. CASE UNCHANGED vars
  BY <1>26 DEF vars, found
<1> QED
  BY <1>1, <1>2, <1>3, <1>4, <1>5, <1>6, <1>7, <1>8, <1>9, <1>10, <1>11, <1>12, <1>13, <1>14, <1>15, <1>16, <1>17, <1>18, <1>19, <1>20, <1>21, <1>22, <1>23, <1>24, <1>25, <1>26, <1>27, <1>28 DEF Next

(* The connection in hand is the recorded one. *)
LEMMA LinkStep ==
  ASSUME TypeOK, LinkRecorded, [Next]_vars
  PROVE  LinkRecorded'
<1> USE DEF TypeOK, Sessions, Holds, budgets, found, Free, NoLink, NoSidecar, Unarmed, LinkRecorded
<1>1. CASE Stranger
  BY <1>1 DEF Stranger, LogIn
<1>2. CASE SessionEnds
  BY <1>2 DEF SessionEnds
<1>3. CASE OrphanStops
  BY <1>3 DEF OrphanStops, Becomes, Executing
<1>4. CASE LinkLost
  BY <1>4 DEF LinkLost
<1>5. CASE Open
  BY <1>5 DEF Open, LogIn, Pinned
<1>6. CASE Requeue \/ LeaveInProcessing
  BY <1>6 DEF Requeue, LeaveInProcessing
<1>7. CASE SweepEnds \/ Interrupted
  BY <1>7 DEF SweepEnds, Interrupted
<1>8. CASE Claim
  BY <1>8 DEF Claim, Alive
<1>9. CASE Conclude
  BY <1>9 DEF Conclude
<1>10. CASE Crash
  BY <1>10 DEF Crash, Gone, NoRecord
<1>11. CASE Issue
  BY <1>11 DEF Issue
<1>12. CASE Ping
  BY <1>12 DEF Ping, Alive
<1>13. CASE Probe
  BY <1>13 DEF Probe, AfterProbe, Expired
<1>14. CASE Wait
  BY <1>14 DEF Wait, Polled
<1>15. CASE Pin
  BY <1>15 DEF Pin, LogIn, Pinned
<1>16. CASE PinFails
  BY <1>16 DEF PinFails
<1>17. CASE Send
  BY <1>17 DEF Send, Becomes, Alive
<1>18. CASE Finish
  BY <1>18 DEF Finish, Becomes, Alive
<1>19. CASE Break
  BY <1>19 DEF Break, Alive
<1>20. CASE Cancel
  BY <1>20 DEF Cancel
<1>21. CASE GraceExpires
  BY <1>21 DEF GraceExpires, Arm
<1>22. CASE Return
  BY <1>22 DEF Return
<1>23. CASE PressKill
  BY <1>23 DEF PressKill, Arm
<1>24. ASSUME NEW k \in Killers, Verify(k) PROVE LinkRecorded'
  BY <1>24 DEF Verify, Over, KillSelfDecision, Identifies
<1>25. ASSUME NEW k \in Killers, Kill(k) PROVE LinkRecorded'
  BY <1>25 DEF Kill, Over, Killed
<1>27. CASE Quit
  BY <1>27 DEF Quit, Gone, NoRecord, Alive
<1>28. CASE NextDatabase
  BY <1>28 DEF NextDatabase, LogIn, Pinned
<1>26. CASE UNCHANGED vars
  BY <1>26 DEF vars, found
<1> QED
  BY <1>1, <1>2, <1>3, <1>4, <1>5, <1>6, <1>7, <1>8, <1>9, <1>10, <1>11, <1>12, <1>13, <1>14, <1>15, <1>16, <1>17, <1>18, <1>19, <1>20, <1>21, <1>22, <1>23, <1>24, <1>25, <1>26, <1>27, <1>28 DEF Next

(* The stages of a statement and of its repair. *)
LEMMA StageStep ==
  ASSUME TypeOK, StagesKept, [Next]_vars
  PROVE  StagesKept'
<1> USE DEF TypeOK, Sessions, Holds, budgets, found, Free, NoLink, NoSidecar, Unarmed, StagesKept, InStatement
<1>1. CASE Stranger
  BY <1>1 DEF Stranger, LogIn
<1>2. CASE SessionEnds
  BY <1>2 DEF SessionEnds
<1>3. CASE OrphanStops
  BY <1>3 DEF OrphanStops, Becomes, Executing
<1>4. CASE LinkLost
  BY <1>4 DEF LinkLost
<1>5. CASE Open
  BY <1>5 DEF Open, LogIn, Pinned
<1>6. CASE Requeue \/ LeaveInProcessing
  BY <1>6 DEF Requeue, LeaveInProcessing
<1>7. CASE SweepEnds \/ Interrupted
  BY <1>7 DEF SweepEnds, Interrupted
<1>8. CASE Claim
  BY <1>8 DEF Claim, Alive
<1>9. CASE Conclude
  BY <1>9 DEF Conclude
<1>10. CASE Crash
  BY <1>10 DEF Crash, Gone, NoRecord
<1>11. CASE Issue
  BY <1>11 DEF Issue
<1>12. CASE Ping
  BY <1>12 DEF Ping, Alive
<1>13. CASE Probe
  BY <1>13 DEF Probe, AfterProbe, Expired
<1>14. CASE Wait
  BY <1>14 DEF Wait, Polled
<1>15. CASE Pin
  BY <1>15 DEF Pin, LogIn, Pinned
<1>16. CASE PinFails
  BY <1>16 DEF PinFails
<1>17. CASE Send
  BY <1>17 DEF Send, Becomes, Alive
<1>18. CASE Finish
  BY <1>18 DEF Finish, Becomes, Alive
<1>19. CASE Break
  BY <1>19 DEF Break, Alive
<1>20. CASE Cancel
  BY <1>20 DEF Cancel
<1>21. CASE GraceExpires
  BY <1>21 DEF GraceExpires, Arm
<1>22. CASE Return
  BY <1>22 DEF Return
<1>23. CASE PressKill
  BY <1>23 DEF PressKill, Arm
<1>24. ASSUME NEW k \in Killers, Verify(k) PROVE StagesKept'
  BY <1>24 DEF Verify, Over, KillSelfDecision, Identifies
<1>25. ASSUME NEW k \in Killers, Kill(k) PROVE StagesKept'
  BY <1>25 DEF Kill, Over, Killed
<1>27. CASE Quit
  BY <1>27 DEF Quit, Gone, NoRecord, Alive
<1>28. CASE NextDatabase
  BY <1>28 DEF NextDatabase, LogIn, Pinned
<1>26. CASE UNCHANGED vars
  BY <1>26 DEF vars, found
<1> QED
  BY <1>1, <1>2, <1>3, <1>4, <1>5, <1>6, <1>7, <1>8, <1>9, <1>10, <1>11, <1>12, <1>13, <1>14, <1>15, <1>16, <1>17, <1>18, <1>19, <1>20, <1>21, <1>22, <1>23, <1>24, <1>25, <1>26, <1>27, <1>28 DEF Next

(* The session in hand carries the marker of the run. *)
LEMMA MarkerStep ==
  ASSUME TypeOK, LoginsOrdered, LinkRecorded, StagesKept, MarkerKept, [Next]_vars
  PROVE  MarkerKept'
<1> USE DEF TypeOK, Sessions, Holds, budgets, found, Free, NoLink, NoSidecar, Unarmed, LoginsOrdered, LinkRecorded, StagesKept, MarkerKept, Alive, Executing
<1>1. CASE Stranger
  BY <1>1 DEF Stranger, LogIn
<1>2. CASE SessionEnds
  BY <1>2 DEF SessionEnds
<1>3. CASE OrphanStops
  BY <1>3 DEF OrphanStops, Becomes
<1>4. CASE LinkLost
  BY <1>4 DEF LinkLost
<1>5. CASE Open
  BY <1>5 DEF Open, LogIn, Pinned
<1>6. CASE Requeue \/ LeaveInProcessing
  BY <1>6 DEF Requeue, LeaveInProcessing
<1>7. CASE SweepEnds \/ Interrupted
  BY <1>7 DEF SweepEnds, Interrupted
<1>8. CASE Claim
  BY <1>8 DEF Claim, Alive
<1>9. CASE Conclude
  BY <1>9 DEF Conclude
<1>10. CASE Crash
  BY <1>10 DEF Crash, Gone, NoRecord
<1>11. CASE Issue
  BY <1>11 DEF Issue
<1>12. CASE Ping
  BY <1>12 DEF Ping, Alive
<1>13. CASE Probe
  BY <1>13 DEF Probe, AfterProbe, Expired
<1>14. CASE Wait
  BY <1>14 DEF Wait, Polled
<1>15. CASE Pin
  BY <1>15 DEF Pin, LogIn, Pinned
<1>16. CASE PinFails
  BY <1>16 DEF PinFails
<1>17. CASE Send
  BY <1>17 DEF Send, Becomes, Alive
<1>18. CASE Finish
  BY <1>18 DEF Finish, Becomes, Alive
<1>19. CASE Break
  BY <1>19 DEF Break, Alive
<1>20. CASE Cancel
  BY <1>20 DEF Cancel
<1>21. CASE GraceExpires
  BY <1>21 DEF GraceExpires, Arm
<1>22. CASE Return
  BY <1>22 DEF Return, InStatement
<1>23. CASE PressKill
  BY <1>23 DEF PressKill, Arm
<1>24. ASSUME NEW k \in Killers, Verify(k) PROVE MarkerKept'
  BY <1>24 DEF Verify, Over, KillSelfDecision, Identifies
<1>25. ASSUME NEW k \in Killers, Kill(k) PROVE MarkerKept'
  BY <1>25 DEF Kill, Over, Killed
<1>27. CASE Quit
  BY <1>27 DEF Quit, Gone, NoRecord, Alive
<1>28. CASE NextDatabase
  BY <1>28 DEF NextDatabase, LogIn, Pinned
<1>26. CASE UNCHANGED vars
  BY <1>26 DEF vars, found
<1> QED
  BY <1>1, <1>2, <1>3, <1>4, <1>5, <1>6, <1>7, <1>8, <1>9, <1>10, <1>11, <1>12, <1>13, <1>14, <1>15, <1>16, <1>17, <1>18, <1>19, <1>20, <1>21, <1>22, <1>23, <1>24, <1>25, <1>26, <1>27, <1>28 DEF Next

(* A KILL about to be sent stays aimed at a session of ours, or a later one. *)
LEMMA HeldStep ==
  ASSUME TypeOK, LoginsOrdered, RecordsOurs, HeldVerified, [Next]_vars
  PROVE  HeldVerified'
<1> USE DEF TypeOK, Sessions, Holds, budgets, found, Free, NoLink, NoSidecar, Unarmed, LoginsOrdered, RecordsOurs, HeldVerified, Executing
<1>1. CASE Stranger
  BY <1>1 DEF Stranger, LogIn
<1>2. CASE SessionEnds
  BY <1>2 DEF SessionEnds
<1>3. CASE OrphanStops
  BY <1>3 DEF OrphanStops, Becomes
<1>4. CASE LinkLost
  BY <1>4 DEF LinkLost
<1>5. CASE Open
  BY <1>5 DEF Open, LogIn, Pinned
<1>6. CASE Requeue \/ LeaveInProcessing
  BY <1>6 DEF Requeue, LeaveInProcessing
<1>7. CASE SweepEnds \/ Interrupted
  BY <1>7 DEF SweepEnds, Interrupted
<1>8. CASE Claim
  BY <1>8 DEF Claim, Alive
<1>9. CASE Conclude
  BY <1>9 DEF Conclude
<1>10. CASE Crash
  BY <1>10 DEF Crash, Gone, NoRecord
<1>11. CASE Issue
  BY <1>11 DEF Issue
<1>12. CASE Ping
  BY <1>12 DEF Ping, Alive
<1>13. CASE Probe
  <2>1. /\ UNCHANGED <<server, logins, rec>>
        /\ \A k \in Killers \ {"orphan"} : held'[k] = held[k]
        /\ held'["orphan"] \in {Unarmed, held["orphan"],
              [step |-> "kill", spid |-> rec.spid, login |-> rec.login, at |-> logins]}
    BY <1>13 DEF Probe, Killers
  <2>2. held'["orphan"] = [step |-> "kill", spid |-> rec.spid, login |-> rec.login, at |-> logins]
          => held'["orphan"] = held["orphan"] \/ pc' = "wait"
    BY <1>13 DEF Probe, Killers
  <2>3. pc' = "wait" => Identifies(rec.spid, rec.login)
    BY <1>13 DEF Probe, AfterProbe, OrphanRuns
  <2> HIDE DEF Sessions, Holds
  <2> QED
    BY <2>1, <2>2, <2>3 DEF Identifies, Killers
<1>14. CASE Wait
  BY <1>14 DEF Wait, Polled
<1>15. CASE Pin
  BY <1>15 DEF Pin, LogIn, Pinned
<1>16. CASE PinFails
  BY <1>16 DEF PinFails
<1>17. CASE Send
  <2>1. /\ UNCHANGED <<logins, held>>
        /\ server' \in {server, [server EXCEPT ![conn.id].busy = "run"]}
    BY <1>17 DEF Send, Becomes
  <2>2. server' # server => server[conn.id] # Free
    BY <1>17 DEF Send, Becomes, Alive
  <2>3. \A i \in Ids : server'[i] = server[i] \/ (/\ server'[i].login = server[i].login
                                                /\ server'[i].own = server[i].own
                                                /\ server[i] # Free)
    <3>1. CASE server' = server
      BY <3>1
    <3>2. CASE server' # server
      <4>1. server' = [server EXCEPT ![conn.id].busy = "run"] /\ server[conn.id] # Free
        BY <2>1, <2>2, <3>2
      <4> HIDE DEF Free
      <4> QED
        BY <4>1
    <3> QED
      BY <3>1, <3>2
  <2> HIDE DEF Sessions, Holds, Free
  <2> QED
    BY <2>1, <2>3
<1>18. CASE Finish
  BY <1>18 DEF Finish, Becomes, Alive
<1>19. CASE Break
  BY <1>19 DEF Break, Alive
<1>20. CASE Cancel
  BY <1>20 DEF Cancel
<1>21. CASE GraceExpires
  BY <1>21 DEF GraceExpires, Arm
<1>22. CASE Return
  BY <1>22 DEF Return
<1>23. CASE PressKill
  BY <1>23 DEF PressKill, Arm
<1>24. ASSUME NEW k \in Killers, Verify(k) PROVE HeldVerified'
  BY <1>24 DEF Verify, Over, KillSelfDecision, Identifies
<1>25. ASSUME NEW k \in Killers, Kill(k) PROVE HeldVerified'
  <2>1. /\ held[k].spid \in Ids /\ UNCHANGED logins
        /\ server' \in {server, [server EXCEPT ![held[k].spid] = Killed(@)]}
        /\ held' = [held EXCEPT ![k] = Over(k)]
    BY <1>25 DEF Kill
  <2>2. Over(k).step # "kill"
    BY DEF Over
  <2>3. \A i \in Ids : server'[i] = Free \/ (/\ server'[i].login = server[i].login
                                            /\ server'[i].own = server[i].own
                                            /\ server[i] # Free)
                      \/ server'[i] = server[i]
    BY <2>1 DEF Killed, Running
  <2> HIDE DEF Sessions, Holds, Free
  <2> QED
    BY <2>1, <2>2, <2>3
<1>27. CASE Quit
  BY <1>27 DEF Quit, Gone, NoRecord, Alive
<1>28. CASE NextDatabase
  BY <1>28 DEF NextDatabase, LogIn, Pinned
<1>26. CASE UNCHANGED vars
  BY <1>26 DEF vars, found
<1> QED
  BY <1>1, <1>2, <1>3, <1>4, <1>5, <1>6, <1>7, <1>8, <1>9, <1>10, <1>11, <1>12, <1>13, <1>14, <1>15, <1>16, <1>17, <1>18, <1>19, <1>20, <1>21, <1>22, <1>23, <1>24, <1>25, <1>26, <1>27, <1>28 DEF Next

(* Between statements the session in hand is idle. *)
LEMMA IdleStep ==
  ASSUME TypeOK, LoginsOrdered, LinkRecorded, StagesKept, IdleBetween, [Next]_vars
  PROVE  IdleBetween'
<1> USE DEF TypeOK, Sessions, Holds, budgets, found, Free, NoLink, NoSidecar, Unarmed, LoginsOrdered, LinkRecorded, StagesKept, IdleBetween, Alive, InStatement, Running, Executing
<1>1. CASE Stranger
  BY <1>1 DEF Stranger, LogIn
<1>2. CASE SessionEnds
  BY <1>2 DEF SessionEnds
<1>3. CASE OrphanStops
  BY <1>3 DEF OrphanStops, Becomes
<1>4. CASE LinkLost
  BY <1>4 DEF LinkLost
<1>5. CASE Open
  BY <1>5 DEF Open, LogIn, Pinned
<1>6. CASE Requeue \/ LeaveInProcessing
  BY <1>6 DEF Requeue, LeaveInProcessing
<1>7. CASE SweepEnds \/ Interrupted
  BY <1>7 DEF SweepEnds, Interrupted
<1>8. CASE Claim
  BY <1>8 DEF Claim, Alive
<1>9. CASE Conclude
  BY <1>9 DEF Conclude
<1>10. CASE Crash
  BY <1>10 DEF Crash, Gone, NoRecord
<1>11. CASE Issue
  BY <1>11 DEF Issue
<1>12. CASE Ping
  BY <1>12 DEF Ping, Alive
<1>13. CASE Probe
  BY <1>13 DEF Probe, AfterProbe, Expired
<1>14. CASE Wait
  BY <1>14 DEF Wait, Polled
<1>15. CASE Pin
  BY <1>15 DEF Pin, LogIn, Pinned
<1>16. CASE PinFails
  BY <1>16 DEF PinFails
<1>17. CASE Send
  BY <1>17 DEF Send, Becomes, Alive
<1>18. CASE Finish
  BY <1>18 DEF Finish, Becomes, Alive
<1>19. CASE Break
  BY <1>19 DEF Break, Alive
<1>20. CASE Cancel
  BY <1>20 DEF Cancel
<1>21. CASE GraceExpires
  BY <1>21 DEF GraceExpires, Arm
<1>22. CASE Return
  BY <1>22 DEF Return
<1>23. CASE PressKill
  BY <1>23 DEF PressKill, Arm
<1>24. ASSUME NEW k \in Killers, Verify(k) PROVE IdleBetween'
  BY <1>24 DEF Verify, Over, KillSelfDecision, Identifies
<1>25. ASSUME NEW k \in Killers, Kill(k) PROVE IdleBetween'
  BY <1>25 DEF Kill, Over, Killed
<1>27. CASE Quit
  BY <1>27 DEF Quit, Gone, NoRecord, Alive
<1>28. CASE NextDatabase
  BY <1>28 DEF NextDatabase, LogIn, Pinned
<1>26. CASE UNCHANGED vars
  BY <1>26 DEF vars, found
<1> QED
  BY <1>1, <1>2, <1>3, <1>4, <1>5, <1>6, <1>7, <1>8, <1>9, <1>10, <1>11, <1>12, <1>13, <1>14, <1>15, <1>16, <1>17, <1>18, <1>19, <1>20, <1>21, <1>22, <1>23, <1>24, <1>25, <1>26, <1>27, <1>28 DEF Next

(* A statement that is apart stays so: what the sweep put back was not found
   running, and nobody's sight comes back. *)
Remembered == /\ astray \subseteq astray'
              /\ \A s \in left : s \in left' \/ ~MatchesOrphan(s)

LEMMA RememberedStep == TypeOK /\ [Next]_vars => Remembered
<1> SUFFICES ASSUME TypeOK, [Next]_vars PROVE Remembered
  OBVIOUS
<1> USE DEF Remembered
<1>1. CASE Requeue
  BY <1>1 DEF Requeue
<1>2. CASE Interrupted
  BY <1>2 DEF Interrupted, budgets
<1>3. CASE Quit \/ Crash
  BY <1>3 DEF Quit, Crash, Gone, LoseSight
<1>4. CASE Ping \/ Probe \/ NextDatabase
  BY <1>4 DEF Ping, Probe, NextDatabase, LoseSight, found, budgets
<1>5. CASE Stranger \/ SessionEnds \/ OrphanStops \/ LinkLost \/ Open \/ LeaveInProcessing
           \/ SweepEnds \/ Claim \/ Conclude
  BY <1>5 DEF Stranger, SessionEnds, OrphanStops, LinkLost, Open, LeaveInProcessing, SweepEnds,
              Claim, Conclude, found, budgets
<1>6. CASE Issue \/ Wait \/ Pin \/ PinFails \/ Send \/ Finish \/ Break \/ Cancel \/ GraceExpires
           \/ Return \/ PressKill
  BY <1>6 DEF Issue, Wait, Pin, PinFails, Send, Finish, Break, Cancel, GraceExpires, Return,
              PressKill, found, budgets
<1>7. ASSUME NEW k \in Killers, Verify(k) \/ Kill(k) PROVE Remembered
  BY <1>7 DEF Verify, Kill, found, budgets
<1>8. CASE UNCHANGED vars
  BY <1>8 DEF vars, found
<1> QED
  BY <1>1, <1>2, <1>3, <1>4, <1>5, <1>6, <1>7, <1>8 DEF Next

(* The same statement executed before the step. *)
Same(i) == i \in Executing /\ server'[i].login = server[i].login /\ server'[i].marker = server[i].marker

LEMMA ApartKept ==
  ASSUME TypeOK, Remembered, NEW i \in Executing', Same(i), i \in Apart
  PROVE  i \in Apart'
<1>1. CASE i \in Astray
  BY <1>1 DEF Astray, Remembered, Same, Apart
<1>2. CASE i \in Adopted
  <2>1. PICK s \in left : s.spid = i /\ MatchesOrphan(s)
    BY <1>2 DEF Adopted
  <2>2. s \in left'
    BY <2>1 DEF Remembered
  <2>3. MatchesOrphan(s)'
    BY <2>1 DEF MatchesOrphan, Identifies, Running, Executing, Same
  <2>4. i \in Adopted'
    BY <2>1, <2>2, <2>3 DEF Adopted, Executing
  <2> QED
    BY <2>4 DEF Apart
<1> QED
  BY <1>1, <1>2 DEF Apart

(* Only Send starts a statement, on the connection in hand. *)
LEMMA OnlySendStarts ==
  ASSUME TypeOK, LinkRecorded, StagesKept, IdleBetween, [Next]_vars, NEW i \in Executing'
  PROVE  Same(i) \/ (Send /\ Alive /\ i = conn.id)
<1> USE DEF TypeOK, Sessions, Holds, budgets, found, Free, NoLink, LinkRecorded, StagesKept,
           IdleBetween, Alive, InStatement, Running, Executing, Same
<1>1. CASE Stranger \/ Open \/ Pin \/ NextDatabase
  <2>1. PICK j \in Ids, own \in BOOLEAN, marker \in Nat : LogIn(j, own, marker)
    <3>1. 0 \in Nat /\ rec.marker \in Nat /\ TRUE \in BOOLEAN /\ FALSE \in BOOLEAN
      OBVIOUS
    <3>2. CASE Stranger
      BY <3>1, <3>2, Zenon DEF Stranger
    <3>3. CASE Open
      BY <3>1, <3>3, Zenon DEF Open
    <3>4. CASE Pin
      BY <3>1, <3>4, Zenon DEF Pin
    <3>5. CASE NextDatabase
      BY <3>1, <3>5, Zenon DEF NextDatabase
    <3> QED
      BY <1>1, <3>2, <3>3, <3>4, <3>5
  <2>2. i # j => server'[i] = server[i]
    BY <2>1 DEF LogIn
  <2>3. server'[j].busy = "idle"
    BY <2>1 DEF LogIn
  <2> QED
    BY <2>2, <2>3
<1>2. CASE SessionEnds \/ OrphanStops
  BY <1>2 DEF SessionEnds, OrphanStops, Becomes
<1>3. CASE LinkLost \/ Requeue \/ LeaveInProcessing \/ SweepEnds \/ Conclude \/ Interrupted
  BY <1>3 DEF LinkLost, Requeue, LeaveInProcessing, SweepEnds, Conclude, Interrupted
<1>4. CASE Claim
  BY <1>4 DEF Claim
<1>5. CASE Quit \/ Crash
  BY <1>5 DEF Quit, Crash
<1>6. CASE Issue \/ Ping \/ Probe \/ Wait \/ PinFails
  BY <1>6 DEF Issue, Ping, Probe, Wait, PinFails
<1>7. CASE Send
  BY <1>7 DEF Send, Becomes
<1>8. CASE Finish
  BY <1>8 DEF Finish, Becomes
<1>9. CASE Break \/ Cancel \/ GraceExpires \/ Return \/ PressKill
  BY <1>9 DEF Break, Cancel, GraceExpires, Return, PressKill
<1>10. ASSUME NEW k \in Killers, Verify(k) PROVE Same(i)
  BY <1>10 DEF Verify
<1>11. ASSUME NEW k \in Killers, Kill(k) PROVE Same(i)
  BY <1>11 DEF Kill, Killed
<1>12. CASE UNCHANGED vars
  BY <1>12 DEF vars
<1> QED
  BY <1>1, <1>2, <1>3, <1>4, <1>5, <1>6, <1>7, <1>8, <1>9, <1>10, <1>11, <1>12 DEF Next

(* When the process ends, whatever executes is adopted later or out of sight. *)
LEMMA GoneApart ==
  ASSUME TypeOK, Gone, NEW i \in Executing', Same(i)
  PROVE  i \in Apart'
<1>1. LoseSight({j \in Executing : ~\E s \in left' : s.spid = j /\ MatchesOrphan(s)})
  BY Zenon DEF Gone
<1>2. CASE \E s \in left' : s.spid = i /\ MatchesOrphan(s)
  <2>1. PICK s \in left' : s.spid = i /\ MatchesOrphan(s)
    BY <1>2
  <2>2. MatchesOrphan(s)'
    BY <2>1 DEF MatchesOrphan, Identifies, Running, Executing, Same
  <2>3. i \in Adopted'
    BY <2>1, <2>2 DEF Adopted, Executing
  <2> QED
    BY <2>3 DEF Apart
<1>3. CASE ~\E s \in left' : s.spid = i /\ MatchesOrphan(s)
  <2>1. server[i].login \in astray'
    BY <1>1, <1>3 DEF LoseSight, Same
  <2> QED
    BY <2>1 DEF Apart, Astray, Same, Executing
<1> QED
  BY <1>2, <1>3

(* Out of sight is apart. *)
LEMMA LostApart ==
  ASSUME LoseSight(Executing), NEW i \in Executing', Same(i)
  PROVE  i \in Apart'
  BY DEF LoseSight, Apart, Astray, Same, Executing

(* Whatever else executes is the session that rec names. *)
LEMMA OneStep ==
  ASSUME TypeOK, LinkRecorded, StagesKept, IdleBetween, AtMostOne, QuietWhereNew, [Next]_vars
  PROVE  AtMostOne'
<1> SUFFICES ASSUME NEW i \in Executing', i \notin Apart'
             PROVE  pc' \notin {"down", "sweep"} /\ i = rec'.spid /\ rec'.login \in {0, server'[i].login}
  BY DEF AtMostOne
<1>1. CASE Send /\ Alive /\ i = conn.id
  <2>1. server'[i].login = server[i].login /\ pc' = "exec" /\ rec' = rec /\ conn # NoLink
    BY <1>1 DEF Send, Becomes, Alive, TypeOK, Sessions, LinkRecorded
  <2> QED
    BY <1>1, <2>1 DEF LinkRecorded, Alive
<1>2. CASE Same(i)
  <2>1. i \notin Apart
    BY <1>2, ApartKept, RememberedStep
  <2>2. /\ pc \notin {"down", "sweep"} /\ i = rec.spid /\ rec.login \in {0, server'[i].login}
    BY <1>2, <2>1 DEF AtMostOne, Same
  <2>3. ~Gone /\ ~LoseSight(Executing)
    BY <1>2, GoneApart, LostApart
  <2>4. ~Pin
    BY <1>2, <2>1 DEF QuietWhereNew, Pin, Same
  <2>5. pc' \notin {"down", "sweep"} /\ rec'.spid = rec.spid /\ rec'.login = rec.login
    <3> USE DEF TypeOK, budgets, found
    <3>1. CASE Stranger \/ SessionEnds \/ OrphanStops \/ LinkLost \/ Conclude \/ Interrupted
      BY <2>2, <3>1 DEF Stranger, SessionEnds, OrphanStops, LinkLost, Conclude, Interrupted
    <3>2. CASE Open \/ Requeue \/ LeaveInProcessing \/ SweepEnds
      BY <2>2, <3>2 DEF Open, Requeue, LeaveInProcessing, SweepEnds
    <3>3. CASE NextDatabase \/ Quit \/ Crash \/ Pin
      BY <2>3, <2>4, <3>3 DEF NextDatabase, Quit, Crash
    <3>4. CASE Claim \/ Send \/ Finish \/ Break
      BY <2>2, <3>4 DEF Claim, Send, Finish, Break
    <3>5. CASE Issue \/ Ping \/ Probe \/ Wait \/ PinFails
      BY <2>2, <3>5 DEF Issue, Ping, Probe, AfterProbe, Wait, PinFails
    <3>6. CASE Cancel \/ GraceExpires \/ Return \/ PressKill
      BY <2>2, <3>6 DEF Cancel, GraceExpires, Return, PressKill
    <3>7. ASSUME NEW k \in Killers, Verify(k) \/ Kill(k)
          PROVE  pc' \notin {"down", "sweep"} /\ rec'.spid = rec.spid /\ rec'.login = rec.login
      BY <2>2, <3>7 DEF Verify, Kill
    <3>8. CASE UNCHANGED vars
      BY <2>2, <3>8 DEF vars
    <3> QED
      BY <3>1, <3>2, <3>3, <3>4, <3>5, <3>6, <3>7, <3>8 DEF Next
  <2> QED
    BY <2>2, <2>5
<1> QED
  BY <1>1, <1>2, OnlySendStarts

(* Where a statement is about to be sent, what executes is apart. *)
LEMMA QuietStep ==
  ASSUME TypeOK, LinkRecorded, StagesKept, IdleBetween, AtMostOne, QuietWhereNew, [Next]_vars
  PROVE  QuietWhereNew'
<1> DEFINE Quiet == \/ pc \in {"idle", "ready"} /\ ~rec.suspect
                    \/ done /\ ~rec.suspect
                    \/ pc \in {"pin", "send"}
<1> SUFFICES ASSUME NEW i \in Executing', Quiet', i \notin Apart' PROVE FALSE
  BY DEF QuietWhereNew
<1>1. CASE Send /\ Alive /\ i = conn.id
  BY <1>1 DEF Send, StagesKept, InStatement
<1>2. CASE Same(i)
  <2>1. i \in Executing /\ i \notin Apart
    BY <1>2, ApartKept, RememberedStep DEF Same
  <2>2. ~Quiet
    BY <2>1 DEF QuietWhereNew
  <2>3. ~Gone /\ ~LoseSight(Executing)
    BY <1>2, GoneApart, LostApart
  <2>4. /\ pc \notin {"down", "sweep"} /\ i = rec.spid /\ rec.login \in {0, server[i].login}
    BY <2>1 DEF AtMostOne
  <2> USE DEF TypeOK, budgets, found
  <2>5. CASE Stranger \/ SessionEnds \/ OrphanStops \/ LinkLost \/ Conclude \/ Interrupted
    BY <2>2, <2>5 DEF Stranger, SessionEnds, OrphanStops, LinkLost, Conclude, Interrupted, StagesKept,
                      InStatement
  <2>6. CASE Open \/ Requeue \/ LeaveInProcessing \/ SweepEnds
    BY <2>4, <2>6 DEF Open, Requeue, LeaveInProcessing, SweepEnds
  <2>7. CASE NextDatabase \/ Quit \/ Crash \/ Pin
    BY <2>2, <2>3, <2>7 DEF NextDatabase, Quit, Crash, Pin
  <2>8. CASE Claim \/ Send \/ Break
    BY <2>2, <2>8 DEF Claim, Send, Break
  <2>9. CASE Finish
    <3>1. i # conn.id \/ i \notin Executing'
      BY <2>9 DEF Finish, Becomes, Executing, Running, Alive, Sessions, LinkRecorded
    <3> QED
      BY <2>4, <2>9, <3>1 DEF Finish, Alive, LinkRecorded
  <2>10. CASE Ping
    <3>1. CASE Alive
      BY <2>1, <2>4, <2>10, <3>1 DEF Alive, IdleBetween, InStatement, StagesKept, LinkRecorded,
                                     Executing, Ping
    <3>2. CASE ~Alive
      BY <2>2, <2>3, <2>10, <3>2 DEF Ping, StagesKept
    <3> QED
      BY <2>10, <3>1, <3>2
  <2>11. CASE Probe
    <3>1. OrphanRuns
      BY <2>1, <2>4, <2>11 DEF OrphanRuns, Identifies, Executing, Running, Probe, StagesKept
    <3>2. PICK answered \in BOOLEAN :
            /\ pc' = AfterProbe(answered)
            /\ IF answered \/ Expired(polls) THEN UNCHANGED astray ELSE LoseSight(Executing)
      BY <2>11 DEF Probe
    <3>3. pc' \in {"ready", "wait"} /\ rec' = rec /\ done' = done
      BY <2>3, <2>11, <3>1, <3>2 DEF AfterProbe, Probe
    <3> QED
      BY <2>2, <2>11, <3>3 DEF Probe, StagesKept
  <2>12. CASE Issue \/ Wait \/ PinFails
    BY <2>2, <2>12 DEF Issue, Wait, PinFails, StagesKept
  <2>13. CASE Cancel \/ GraceExpires \/ Return \/ PressKill
    BY <2>2, <2>13 DEF Cancel, GraceExpires, Return, PressKill
  <2>14. ASSUME NEW k \in Killers, Verify(k) \/ Kill(k) PROVE FALSE
    BY <2>2, <2>14 DEF Verify, Kill
  <2>15. CASE UNCHANGED vars
    BY <2>2, <2>15 DEF vars
  <2> QED
    BY <2>5, <2>6, <2>7, <2>8, <2>9, <2>10, <2>11, <2>12, <2>13, <2>14, <2>15 DEF Next
<1> QED
  BY <1>1, <1>2, OnlySendStarts

THEOREM Invariance == Spec => []Inv
<1>1. Init => Inv
  <2> SUFFICES ASSUME Init PROVE Inv
    OBVIOUS
  <2>1. TypeOK
    BY TypeInit
  <2>2. Executing = {} /\ ~Alive
    BY DEF Init, Executing, Running, Free, Alive
  <2>3. LoginsOrdered /\ RecordsOurs /\ LinkRecorded /\ StagesKept /\ HeldVerified
    BY DEF Init, LoginsOrdered, RecordsOurs, LinkRecorded, StagesKept, HeldVerified, InStatement,
           Free, NoLink, NoRecord, Unarmed
  <2>4. AtMostOne /\ QuietWhereNew /\ IdleBetween /\ MarkerKept
    BY <2>2 DEF Init, AtMostOne, QuietWhereNew, IdleBetween, MarkerKept, NoSidecar
  <2> QED
    BY <2>1, <2>3, <2>4 DEF Inv
<1>2. Inv /\ [Next]_vars => Inv'
  BY TypeStep, LoginsStep, OursStep, LinkStep, StageStep, MarkerStep, HeldStep, IdleStep, OneStep,
     QuietStep DEF Inv
<1> QED
  BY <1>1, <1>2, PTL DEF Spec

(* Of the run's statements that execute, at most one is neither the work of a
   manifest left in processing nor out of the program's sight (matchesOrphan,
   stopOrphan). *)
THEOREM StatementsComeOneAtATime == Spec => []OneAtATime
<1>1. Inv => OneAtATime
  <2> SUFFICES ASSUME Inv PROVE OneAtATime
    OBVIOUS
  <2> DEFINE E == Executing \ (Adopted \cup Astray)
  <2>1. PICK x : E \subseteq {x}
    BY DEF Inv, AtMostOne, Apart
  <2>2. IsFiniteSet({x}) /\ Cardinality({x}) = 1
    BY FS_Singleton
  <2>3. Cardinality(E) <= 1
    BY <2>1, <2>2, FS_Subset
  <2> QED
    BY <2>3 DEF OneAtATime
<1> QED
  BY <1>1, Invariance, PTL

(* A statement runs in a session that carries the marker its sidecar records
   (SetMarker, repairIfBroken). *)
THEOREM MarkerSurvivesRepair == Spec => []MarkerFollows
<1>1. Inv => MarkerFollows
  BY DEF Inv, MarkerKept, MarkerFollows, InStatement
<1> QED
  BY <1>1, Invariance, PTL

(* Both at once. *)
THEOREM OneMarked == Spec => []OneMarkedStatement
<1>1. OneAtATime /\ MarkerFollows => OneMarkedStatement
  BY DEF OneMarkedStatement
<1> QED
  BY <1>1, StatementsComeOneAtATime, MarkerSurvivesRepair, PTL

(* No KILL the program sends ends a session of somebody else that was there
   when its identity was verified (KillSelf, stopOrphan). *)
THEOREM KillsOnlyOurs == Spec => OnlyOursKilled
<1> DEFINE Hits == \A k \in Killers :
              (held[k].step = "kill" /\ Kill(k) /\ server' # server /\ ~server[held[k].spid].own)
                => server[held[k].spid].login > held[k].at
<1>1. Inv /\ [Next]_vars => [Hits]_vars
  <2> SUFFICES ASSUME Inv, NEW k \in Killers, held[k].step = "kill", Kill(k), server' # server,
                      ~server[held[k].spid].own
               PROVE  server[held[k].spid].login > held[k].at
    BY DEF Hits
  <2>1. server[held[k].spid] # Free
    <3> SUFFICES ASSUME server[held[k].spid] = Free PROVE FALSE
      OBVIOUS
    <3>1. Killed(Free) = Free
      BY DEF Killed, Running, Free
    <3> QED
      BY <3>1 DEF Inv, TypeOK, Kill
  <2> QED
    BY <2>1 DEF Inv, HeldVerified
<1> QED
  BY <1>1, Invariance, PTL DEF Spec, OnlyOursKilled, Hits

----------------------------------------------------------------------------
(* The blocker killer *)

(* The mark never runs ahead of the time since the last poll, which saw the  *)
(* session of the episode; a KILL that reached the server is in the bucket   *)
(* or was lost, and one in flight still fits under the cap.                  *)
MarkWitnessed == mark # Off => current = lastSeen /\ mark <= gap
Paid == \A r \in Rule : landed[r] <= bucket[r].kills + lost[r]
FitsCap == killing # NoRule => bucket[killing].kills < MaxKills

BlockerInv == BlockerTypeOK /\ MarkWitnessed /\ Paid /\ FitsCap /\ DebtAccounted

LEMMA Delays ==
  /\ Dwell \in Nat /\ Dwell > 0 /\ MaxKills \in Nat /\ MaxKills > 0 /\ Window \in Nat
  /\ Rule = 1 .. Len(After) /\ Len(After) \in Nat /\ IsFiniteSet(Rule)
  /\ Cardinality(Rule) \in Nat /\ TimeCap \in Nat /\ NoRule \notin Rule
  /\ \A r \in Rule : After[r] \in 1..Dwell
<1>1. /\ Dwell \in Nat /\ Dwell > 0 /\ MaxKills \in Nat /\ MaxKills > 0 /\ Window \in Nat
  BY RecidivismAssumption
<1>2. After \in Seq(1..Dwell)
  BY BlockerAssumption
<1>3. Rule = 1 .. Len(After) /\ Len(After) \in Nat /\ \A r \in Rule : After[r] \in 1..Dwell
  <2> DEFINE delay == 1..Dwell
  <2> HIDE DEF delay
  <2>1. After \in Seq(delay)
    BY <1>2 DEF delay
  <2>2. Rule = 1 .. Len(After) /\ Len(After) \in Nat /\ \A r \in 1 .. Len(After) : After[r] \in delay
    BY <2>1 DEF Rule
  <2> QED
    BY <2>2 DEF delay
<1>4. IsFiniteSet(Rule)
  BY <1>3, FS_Interval
<1>5. Cardinality(Rule) \in Nat
  BY <1>4, FS_CardinalityType
<1>6. TimeCap \in Nat
  BY <1>1, <1>5 DEF TimeCap
<1>7. NoRule \notin Rule
  BY <1>3 DEF NoRule
<1> QED
  BY <1>1, <1>3, <1>4, <1>5, <1>6, <1>7

(* What the writers of a bucket do to its debt and to its count of KILLs.    *)
LEMMA PrunedBucket ==
  ASSUME NEW b \in Bucket
  PROVE  /\ Prune(b) \in Bucket /\ Prune(b).accrued <= b.accrued
         /\ Prune(b).kills <= b.kills
<1>1. NoBucket \in Bucket /\ NoBucket.accrued = 0 /\ NoBucket.kills = 0
  BY Delays DEF NoBucket, Bucket, Off
<1> QED
  BY <1>1, Delays DEF Prune, Bucket

LEMMA TouchedBucket ==
  ASSUME NEW b \in Bucket
  PROVE  /\ Touch(b) \in Bucket /\ Touch(b).accrued = b.accrued /\ Touch(b).kills = b.kills
<1>1. 0 \in Off..(Window + 1)
  BY Delays DEF Off
<1> QED
  BY <1>1 DEF Touch, Bucket

LEMMA AccruedBucket ==
  ASSUME NEW b \in Bucket, NEW d \in 0..Dwell
  PROVE  /\ Accrue(b, d) \in Bucket /\ Accrue(b, d).kills = b.kills
         /\ Accrue(b, d).accrued <= b.accrued + d
<1>1. /\ UpTo(b.accrued + d, Dwell) \in 0..Dwell
      /\ UpTo(b.accrued + d, Dwell) <= b.accrued + d
  BY Delays DEF UpTo, Bucket
<1> QED
  BY <1>1, TouchedBucket DEF Accrue, Bucket

LEMMA EscalatedBucket ==
  ASSUME NEW b \in Bucket
  PROVE  /\ Escalate(b) \in Bucket /\ Escalate(b).accrued = b.accrued
         /\ Escalate(b).kills = b.kills
  BY TouchedBucket DEF Escalate, Bucket

LEMMA ChargedBucket ==
  ASSUME NEW b \in Bucket
  PROVE  /\ RecordKills(b, 1) \in Bucket /\ RecordKills(b, 1).accrued = b.accrued
         /\ RecordKills(b, 1).kills = b.kills + 1
  BY TouchedBucket DEF RecordKills, Bucket

LEMMA AgedBucket ==
  ASSUME NEW b \in Bucket
  PROVE  /\ OlderBucket(b) \in Bucket /\ OlderBucket(b).accrued = b.accrued
         /\ OlderBucket(b).kills = b.kills
<1>1. AgeUpTo(b.mark, Dwell) \in Off..Dwell /\ AgeUpTo(b.idle, Window + 1) \in Off..(Window + 1)
  BY Delays DEF Bucket, AgeUpTo, UpTo, Off
<1> DEFINE c == [b EXCEPT !.mark = AgeUpTo(b.mark, Dwell)]
<1>2. c \in Bucket /\ c.accrued = b.accrued /\ c.kills = b.kills
  BY <1>1 DEF Bucket
<1>3. OlderBucket(b) = [c EXCEPT !.idle = AgeUpTo(b.idle, Window + 1)]
  BY Zenon DEF OlderBucket
<1> QED
  BY <1>1, <1>2, <1>3 DEF Bucket

(* The first rule that matches is a rule.                                    *)
LEMMA FirstRule ==
  ASSUME NEW M \in SUBSET Rule, M # {}
  PROVE  Min(M) \in Rule
<1> DEFINE less == {p \in Nat \X Nat : p[1] < p[2]}
<1>1. IsWellFoundedOn(less, Nat)
  BY NatLessThanWellFounded DEF OpToRel
<1>2. M \subseteq Nat
  BY Delays
<1>3. PICK r \in M : \A q \in M : ~(<<q, r>> \in less)
  BY <1>1, <1>2, WFMin
<1>4. ASSUME NEW q \in M PROVE r <= q
  <2>1. q \in Nat /\ r \in Nat /\ ~(<<q, r>> \in less)
    BY <1>2, <1>3
  <2>2. ~(q < r)
    BY <2>1
  <2> QED
    BY <2>1, <2>2
<1>5. \E x \in M : \A y \in M : x <= y
  BY <1>4
<1>6. Min(M) \in M
  BY <1>5, Zenon DEF Min
<1> QED
  BY <1>6

(* The debt as a set of ticks: it follows the buckets, and a rule that is    *)
(* charged d ticks adds d at most.                                           *)
DebtOf(b) == {d \in Rule \X (1..Dwell) : d[2] <= b[d[1]].accrued}

LEMMA DebtBounded ==
  ASSUME NEW b
  PROVE  /\ IsFiniteSet(DebtOf(b)) /\ Cardinality(DebtOf(b)) \in Nat
         /\ Cardinality(DebtOf(b)) <= TimeCap
<1>1. IsFiniteSet(1..Dwell) /\ Cardinality(1..Dwell) = Dwell
  <2>1. 1 \in Int /\ Dwell \in Int /\ ~(1 > Dwell) /\ Dwell - 1 + 1 = Dwell
    BY Delays
  <2> QED
    BY <2>1, FS_Interval
<1>2. /\ IsFiniteSet(Rule \X (1..Dwell))
      /\ Cardinality(Rule \X (1..Dwell)) = Cardinality(Rule) * Dwell
  BY <1>1, Delays, FS_Product
<1>3. DebtOf(b) \in SUBSET (Rule \X (1..Dwell))
  BY DEF DebtOf
<1>4. IsFiniteSet(DebtOf(b)) /\ Cardinality(DebtOf(b)) <= Cardinality(Rule) * Dwell
  BY <1>2, <1>3, FS_Subset
<1> QED
  BY <1>4, FS_CardinalityType DEF TimeCap

LEMMA DebtInNat ==
  ASSUME NEW b \in [Rule -> Bucket]
  PROVE  \A r \in Rule : b[r].accrued \in Nat
<1> SUFFICES ASSUME NEW r \in Rule PROVE b[r].accrued \in Nat
  OBVIOUS
<1>1. b[r] \in Bucket
  OBVIOUS
<1>2. b[r].accrued \in 0..Dwell
  BY <1>1 DEF Bucket
<1> QED
  BY <1>2, Delays

LEMMA DebtShrinks ==
  ASSUME NEW b \in [Rule -> Bucket], NEW c \in [Rule -> Bucket],
         \A r \in Rule : c[r].accrued <= b[r].accrued
  PROVE  Cardinality(DebtOf(c)) <= Cardinality(DebtOf(b))
<1>1. \A r \in Rule : c[r].accrued \in Nat /\ b[r].accrued \in Nat
  BY DebtInNat
<1>2. DebtOf(c) \in SUBSET DebtOf(b)
  BY <1>1, Delays DEF DebtOf
<1> QED
  BY <1>2, DebtBounded, FS_Subset

LEMMA DebtGrows ==
  ASSUME NEW b \in [Rule -> Bucket], NEW c \in [Rule -> Bucket], NEW r \in Rule, NEW d \in Nat,
         \A q \in Rule \ {r} : c[q].accrued <= b[q].accrued, c[r].accrued <= b[r].accrued + d
  PROVE  Cardinality(DebtOf(c)) <= Cardinality(DebtOf(b)) + d
<1> DEFINE a == b[r].accrued
           ticks == a + 1 .. a + d
           charge == {r} \X ticks
<1>1. a \in Nat /\ \A q \in Rule : c[q].accrued \in Nat /\ b[q].accrued \in Nat
  BY DebtInNat
<1>2. IsFiniteSet(ticks) /\ Cardinality(ticks) = d
  <2>1. IsFiniteSet(ticks)
        /\ Cardinality(ticks) = IF a + 1 > a + d THEN 0 ELSE (a + d) - (a + 1) + 1
    <3>1. a + 1 \in Int /\ a + d \in Int
      BY <1>1
    <3> QED
      BY <3>1, FS_Interval
  <2>2. (IF a + 1 > a + d THEN 0 ELSE (a + d) - (a + 1) + 1) = d
    BY <1>1
  <2> QED
    BY <2>1, <2>2
<1>3. IsFiniteSet({r}) /\ Cardinality({r}) = 1
  BY FS_Singleton
<1>4. IsFiniteSet(charge) /\ Cardinality(charge) = d
  <2>1. IsFiniteSet(charge) /\ Cardinality(charge) = Cardinality({r}) * Cardinality(ticks)
    BY <1>2, <1>3, FS_Product
  <2> QED
    BY <1>2, <1>3, <2>1
<1>5. DebtOf(c) \in SUBSET (DebtOf(b) \cup charge)
  <2> SUFFICES ASSUME NEW e \in DebtOf(c), e \notin DebtOf(b) PROVE e \in charge
    OBVIOUS
  <2>1. PICK q \in Rule, n \in 1..Dwell : e = <<q, n>>
    BY DEF DebtOf
  <2>2. n <= c[q].accrued /\ ~(n <= b[q].accrued) /\ n \in Nat
    BY <2>1, Delays DEF DebtOf
  <2>3. q = r
    BY <1>1, <2>2
  <2>4. n \in ticks
    BY <1>1, <2>2, <2>3
  <2> QED
    BY <2>1, <2>3, <2>4
<1>6. /\ IsFiniteSet(DebtOf(b) \cup charge)
      /\ Cardinality(DebtOf(b) \cup charge) =
           Cardinality(DebtOf(b)) + d - Cardinality(DebtOf(b) \cap charge)
  BY <1>4, DebtBounded, FS_Union
<1>7. Cardinality(DebtOf(b) \cap charge) \in Nat
  <2>1. IsFiniteSet(DebtOf(b) \cap charge)
    BY <1>4, FS_Subset
  <2> QED
    BY <2>1, FS_CardinalityType
<1>8. Cardinality(DebtOf(c)) <= Cardinality(DebtOf(b) \cup charge)
  BY <1>5, <1>6, FS_Subset
<1> HIDE DEF charge
<1> QED
  BY <1>6, <1>7, <1>8, DebtBounded

LEMMA BlockerStart == BlockerInit => BlockerInv
<1> SUFFICES ASSUME BlockerInit PROVE BlockerInv
  OBVIOUS
<1>1. NoBucket \in Bucket /\ NoBucket.accrued = 0 /\ NoBucket.kills = 0
  BY Delays DEF NoBucket, Bucket, Off
<1>2. BlockerTypeOK
  <2>1. /\ blocker = NoBlocker /\ pump = TRUE /\ sourced = TRUE /\ killed = FALSE
        /\ current = Nobody /\ mark = Off /\ killing = NoRule /\ gap = 0 /\ lastSeen = Nobody
        /\ matched = 0
    BY DEF BlockerInit
  <2>2. bucket \in [Rule -> Bucket] /\ \A r \in Rule : bucket[r].kills <= MaxKills
    BY <1>1, Delays DEF BlockerInit
  <2>3. landed \in [Rule -> Nat] /\ lost \in [Rule -> Nat]
    BY DEF BlockerInit
  <2>4. mark \in Off..Dwell /\ gap \in 0..Dwell /\ matched \in 0..TimeCap
    BY <2>1, Delays DEF Off
  <2> QED
    BY <2>1, <2>2, <2>3, <2>4 DEF BlockerTypeOK
<1>3. MarkWitnessed /\ Paid /\ FitsCap
  BY <1>1 DEF BlockerInit, MarkWitnessed, Paid, FitsCap
<1>4. DebtAccounted
  <2>1. Debt = {}
    BY <1>1, Delays DEF BlockerInit, Debt
  <2> QED
    BY <2>1, FS_EmptySet DEF BlockerInit, DebtAccounted
<1> QED
  BY <1>2, <1>3, <1>4 DEF BlockerInv

(* A poll forgets what is old, and charges at most one rule.                 *)
LEMMA PrunedBuckets ==
  ASSUME BlockerInv, NEW r \in Rule
  PROVE  /\ Pruned[r] \in Bucket /\ Pruned[r].accrued <= bucket[r].accrued
         /\ Pruned[r].kills <= MaxKills
         /\ ~Forgotten(r) => Pruned[r] = bucket[r]
<1>1. bucket[r] \in Bucket /\ bucket[r].kills <= MaxKills /\ Pruned[r] = Prune(bucket[r])
  BY DEF BlockerInv, BlockerTypeOK, Pruned
<1>2. bucket[r].kills \in Nat /\ Prune(bucket[r]).kills \in Nat
  BY <1>1, PrunedBucket DEF Bucket
<1> QED
  BY <1>1, <1>2, PrunedBucket, Delays DEF Forgotten

LEMMA PollPays ==
  ASSUME BlockerInv, Poll, bucket' \in [Rule -> Bucket],
         \A r \in Rule : bucket'[r].kills = Pruned[r].kills
  PROVE  /\ landed' \in [Rule -> Nat] /\ lost' \in [Rule -> Nat] /\ Paid'
         /\ \A r \in Rule : bucket'[r].kills <= MaxKills
<1>1. landed' = [r \in Rule |-> Charged(landed, r)] /\ lost' = [r \in Rule |-> Charged(lost, r)]
  BY DEF Poll
<1>2. landed \in [Rule -> Nat] /\ lost \in [Rule -> Nat]
  BY DEF BlockerInv, BlockerTypeOK
<1>3. ASSUME NEW r \in Rule
      PROVE  /\ landed'[r] \in Nat /\ lost'[r] \in Nat
             /\ landed'[r] <= bucket'[r].kills + lost'[r] /\ bucket'[r].kills <= MaxKills
  <2>1. bucket'[r].kills \in Nat /\ bucket'[r].kills = Pruned[r].kills
    BY DEF Bucket
  <2>2. landed[r] <= bucket[r].kills + lost[r]
    BY DEF BlockerInv, Paid
  <2>3. CASE Forgotten(r)
    <3>1. landed'[r] = 0 /\ lost'[r] = 0
      BY <1>1, <2>3 DEF Charged
    <3> QED
      BY <2>1, <3>1, PrunedBuckets
  <2>4. CASE ~Forgotten(r)
    <3>1. landed'[r] = landed[r] /\ lost'[r] = lost[r]
      BY <1>1, <2>4 DEF Charged
    <3>2. Pruned[r] = bucket[r]
      BY <2>4, PrunedBuckets
    <3> QED
      BY <1>2, <2>1, <2>2, <3>1, <3>2, PrunedBuckets
  <2> QED
    BY <2>3, <2>4
<1> QED
  BY <1>1, <1>3 DEF Paid

LEMMA PollKeeps == BlockerInv /\ Poll => BlockerInv'
<1> SUFFICES ASSUME BlockerInv, Poll PROVE BlockerInv'
  OBVIOUS
<1>1. /\ killing = NoRule /\ gap' = 0 /\ lastSeen' = blocker.sid
      /\ UNCHANGED <<blocker, pump, sourced>>
  BY DEF Poll
<1>2. /\ blocker \in [sid : Sid, matches : SUBSET Rule] \cup {NoBlocker}
      /\ pump \in BOOLEAN /\ sourced \in BOOLEAN /\ killed \in BOOLEAN
      /\ bucket \in [Rule -> Bucket] /\ mark \in Off..Dwell /\ gap \in 0..Dwell
      /\ matched \in 0..TimeCap /\ Cardinality(DebtOf(bucket)) <= matched
  BY DEF BlockerInv, BlockerTypeOK, DebtAccounted, Debt, DebtOf
<1>3. blocker.sid \in Sid \cup {Nobody} /\ blocker.matches \in SUBSET Rule
  BY <1>2 DEF NoBlocker
<1>4. ASSUME bucket' = Pruned, current' = blocker.sid, mark' \in {Off, 0}, killed' \in BOOLEAN,
             UNCHANGED <<killing, matched>>
      PROVE  BlockerInv'
  <2>1. bucket' \in [Rule -> Bucket] /\ \A r \in Rule : bucket'[r].accrued <= bucket[r].accrued
    BY <1>4, PrunedBuckets DEF Pruned
  <2>2. /\ landed' \in [Rule -> Nat] /\ lost' \in [Rule -> Nat] /\ Paid'
        /\ \A r \in Rule : bucket'[r].kills <= MaxKills
    BY <1>4, <2>1, PollPays
  <2>3. Cardinality(DebtOf(bucket')) <= matched'
    BY <1>2, <1>4, <2>1, DebtShrinks, DebtBounded, Delays
  <2>4. DebtAccounted'
    BY <2>3 DEF DebtAccounted, Debt, DebtOf
  <2>5. BlockerTypeOK'
    BY <1>1, <1>2, <1>3, <1>4, <2>1, <2>2, Delays DEF BlockerTypeOK, Off
  <2>6. MarkWitnessed' /\ FitsCap'
    BY <1>1, <1>4 DEF MarkWitnessed, FitsCap
  <2> QED
    BY <2>2, <2>4, <2>5, <2>6 DEF BlockerInv
<1>5. CASE PollNobody
  BY <1>4, <1>5 DEF PollNobody, NoBlocker
<1>6. CASE PollUnmatched
  <2>1. (SameEpisode /\ killed) \in BOOLEAN
    OBVIOUS
  <2> QED
    BY <1>4, <1>6, <2>1 DEF PollUnmatched, UnmatchedMark
<1>7. CASE PollMatched
  <2> DEFINE r       == Min(blocker.matches)
             due     == ~KilledBefore /\ Banked(r).accrued >= After[r]
             stopped == due /\ Spent(r)
             gain    == IF lastSeen = blocker.sid THEN gap ELSE 0
  <2>1. /\ blocker.matches # {}
        /\ bucket' = [Pruned EXCEPT ![r] = IF stopped THEN Escalate(Banked(r)) ELSE Banked(r)]
        /\ current' = blocker.sid /\ mark' = 0 /\ killed' = KilledBefore
        /\ killing' = IF due /\ ~stopped THEN r ELSE NoRule
        /\ matched' = UpTo(matched + gain, TimeCap)
    BY <1>7 DEF PollMatched
  <2>2. r \in Rule
    BY <1>3, <2>1, FirstRule
  <2>3. SincePoll \in 0..Dwell /\ SincePoll <= gain /\ gain \in Nat
    BY <1>2, Delays DEF SincePoll, SameEpisode, BlockerInv, MarkWitnessed, Off
  <2>4. /\ Banked(r) \in Bucket /\ Banked(r).kills = Pruned[r].kills
        /\ Banked(r).accrued <= Pruned[r].accrued + SincePoll
    BY <2>2, <2>3, PrunedBuckets, AccruedBucket DEF Banked
  <2> HIDE DEF r, gain
  <2>5. /\ bucket'[r] \in Bucket /\ bucket'[r].kills = Pruned[r].kills
        /\ bucket'[r].accrued <= Pruned[r].accrued + SincePoll
        /\ \A q \in Rule \ {r} : bucket'[q] = Pruned[q]
    BY <2>1, <2>2, <2>4, EscalatedBucket DEF Pruned
  <2>6. bucket' \in [Rule -> Bucket] /\ \A q \in Rule : bucket'[q].kills = Pruned[q].kills
    <3>1. DOMAIN bucket' = Rule /\ bucket' = [q \in Rule |-> bucket'[q]]
      BY <2>1 DEF Pruned
    <3>2. \A q \in Rule : bucket'[q] \in Bucket
      BY <2>5, PrunedBuckets
    <3> QED
      BY <2>5, <3>1, <3>2
  <2>7. /\ landed' \in [Rule -> Nat] /\ lost' \in [Rule -> Nat] /\ Paid'
        /\ \A q \in Rule : bucket'[q].kills <= MaxKills
    BY <2>6, PollPays
  <2>8. Cardinality(DebtOf(bucket')) <= Cardinality(DebtOf(bucket)) + gain
    <3>1. \A q \in Rule \ {r} : bucket'[q].accrued <= bucket[q].accrued
      BY <2>5, PrunedBuckets
    <3>2. bucket'[r].accrued <= bucket[r].accrued + gain
      <4>1. /\ bucket'[r].accrued \in Nat /\ Pruned[r].accrued \in Nat /\ bucket[r].accrued \in Nat
            /\ Pruned[r].accrued <= bucket[r].accrued
        <5>1. /\ bucket'[r] \in Bucket /\ Pruned[r] \in Bucket /\ bucket[r] \in Bucket
              /\ Pruned[r].accrued <= bucket[r].accrued
          BY <1>2, <2>2, <2>5, PrunedBuckets
        <5>2. \A d \in Bucket : d.accrued \in Nat
          BY Delays DEF Bucket
        <5> QED
          BY <5>1, <5>2
      <4> QED
        BY <2>3, <2>5, <4>1, Delays
    <3> QED
      BY <1>2, <2>2, <2>3, <2>6, <3>1, <3>2, DebtGrows
  <2>9. matched' \in 0..TimeCap /\ Cardinality(DebtOf(bucket')) <= matched'
    <3>1. /\ Cardinality(DebtOf(bucket')) \in Nat /\ Cardinality(DebtOf(bucket')) <= TimeCap
          /\ Cardinality(DebtOf(bucket)) \in Nat
      BY DebtBounded
    <3> QED
      BY <1>2, <2>1, <2>3, <2>8, <3>1, Delays DEF UpTo
  <2>10. DebtAccounted'
    BY <2>9 DEF DebtAccounted, Debt, DebtOf
  <2>11. killing' \in Rule \cup {NoRule} /\ FitsCap'
    <3>1. CASE due /\ ~stopped
      <4>1. killing' = r /\ ~Spent(r)
        BY <2>1, <3>1
      <4>2. bucket'[r] = Banked(r)
        BY <2>1, <2>2, <3>1 DEF Pruned
      <4>3. ~(Banked(r).kills >= MaxKills) /\ Banked(r).kills \in Nat
        BY <2>4, <4>1 DEF Spent, Capped, Bucket
      <4> QED
        BY <2>2, <4>1, <4>2, <4>3, Delays DEF FitsCap
    <3>2. CASE ~(due /\ ~stopped)
      BY <2>1, <3>2 DEF FitsCap
    <3> QED
      BY <3>1, <3>2
  <2>12. BlockerTypeOK'
    <3>1. killed' \in BOOLEAN
      BY <2>1 DEF KilledBefore
    <3> QED
      BY <1>1, <1>2, <1>3, <2>1, <2>6, <2>7, <2>9, <2>11, <3>1, Delays DEF BlockerTypeOK, Off
  <2>13. MarkWitnessed'
    BY <1>1, <2>1 DEF MarkWitnessed
  <2> QED
    BY <2>7, <2>10, <2>11, <2>12, <2>13 DEF BlockerInv
<1> QED
  BY <1>5, <1>6, <1>7 DEF Poll

LEMMA BlockerStep == BlockerInv /\ [BlockerNext]_blockerVars => BlockerInv'
<1> SUFFICES ASSUME BlockerInv, [BlockerNext]_blockerVars PROVE BlockerInv'
  OBVIOUS
<1>1. BlockerTypeOK /\ MarkWitnessed /\ Paid /\ FitsCap /\ DebtAccounted
  BY DEF BlockerInv
<1>2. /\ bucket \in [Rule -> Bucket] /\ landed \in [Rule -> Nat] /\ lost \in [Rule -> Nat]
      /\ killing \in Rule \cup {NoRule} /\ mark \in Off..Dwell /\ gap \in 0..Dwell
      /\ matched \in 0..TimeCap /\ \A r \in Rule : bucket[r].kills <= MaxKills
  BY <1>1 DEF BlockerTypeOK
<1>3. ASSUME bucket' \in [Rule -> Bucket], \A r \in Rule : bucket'[r].accrued = bucket[r].accrued,
             UNCHANGED matched
      PROVE  DebtAccounted'
  <2>1. \A r \in Rule : bucket'[r].accrued <= bucket[r].accrued
    BY <1>2, <1>3, Delays DEF Bucket
  <2>2. Cardinality(DebtOf(bucket')) <= Cardinality(DebtOf(bucket))
    BY <1>2, <1>3, <2>1, DebtShrinks
  <2>3. Cardinality(DebtOf(bucket)) <= matched
    BY <1>1 DEF DebtAccounted, Debt, DebtOf
  <2>4. Cardinality(DebtOf(bucket')) <= matched'
    BY <1>2, <1>3, <2>2, <2>3, DebtBounded, Delays
  <2> QED
    BY <2>4 DEF DebtAccounted, Debt, DebtOf
<1>4. CASE KillSucceeds
  <2>1. /\ killing \in Rule /\ killing' = NoRule /\ killed' = TRUE
        /\ bucket' = [bucket EXCEPT ![killing] = RecordKills(@, 1)]
        /\ landed' = [landed EXCEPT ![killing] = @ + 1]
        /\ UNCHANGED <<blocker, pump, sourced, current, mark, lost, gap, lastSeen, matched>>
    BY <1>2, <1>4 DEF KillSucceeds
  <2>2. /\ bucket'[killing] \in Bucket /\ bucket'[killing].accrued = bucket[killing].accrued
        /\ bucket'[killing].kills = bucket[killing].kills + 1
        /\ \A q \in Rule \ {killing} : bucket'[q] = bucket[q]
    BY <1>2, <2>1, ChargedBucket
  <2>3. bucket' \in [Rule -> Bucket] /\ \A q \in Rule : bucket'[q].accrued = bucket[q].accrued
    BY <1>2, <2>1, <2>2
  <2>4. /\ landed' \in [Rule -> Nat] /\ \A q \in Rule : bucket'[q].kills <= MaxKills
        /\ Paid'
    <3>1. bucket[killing].kills < MaxKills /\ bucket[killing].kills \in Nat
      BY <1>1, <1>2, <2>1, Delays DEF FitsCap, Bucket
    <3>2. landed' \in [Rule -> Nat] /\ landed'[killing] = landed[killing] + 1
          /\ \A q \in Rule \ {killing} : landed'[q] = landed[q]
      BY <1>2, <2>1
    <3>3. ASSUME NEW q \in Rule
          PROVE  bucket'[q].kills <= MaxKills /\ landed'[q] <= bucket'[q].kills + lost'[q]
      <4>1. landed[q] <= bucket[q].kills + lost[q] /\ lost'[q] = lost[q] /\ bucket[q].kills \in Nat
            /\ landed[q] \in Nat /\ lost[q] \in Nat
        BY <1>1, <1>2, <2>1 DEF Paid, Bucket
      <4>2. CASE q = killing
        <5>1. bucket'[q].kills = bucket[q].kills + 1 /\ bucket[q].kills < MaxKills
              /\ landed'[q] = landed[q] + 1
          BY <2>2, <3>1, <3>2, <4>2
        <5> QED
          BY <4>1, <5>1, Delays
      <4>3. CASE q # killing
        <5>1. bucket'[q].kills = bucket[q].kills /\ landed'[q] = landed[q]
              /\ bucket[q].kills <= MaxKills
          BY <1>2, <2>2, <3>2, <4>3
        <5> QED
          BY <4>1, <5>1
      <4> QED
        BY <4>2, <4>3
    <3> QED
      BY <3>2, <3>3 DEF Paid
  <2>5. BlockerTypeOK'
    BY <1>1, <2>1, <2>3, <2>4 DEF BlockerTypeOK
  <2>6. MarkWitnessed' /\ FitsCap' /\ DebtAccounted'
    BY <1>1, <1>3, <2>1, <2>3 DEF MarkWitnessed, FitsCap
  <2> QED
    BY <2>4, <2>5, <2>6 DEF BlockerInv
<1>5. CASE KillErrors
  <2>1. /\ killing \in Rule /\ killing' = NoRule
        /\ UNCHANGED <<blocker, pump, sourced, bucket, current, mark, killed, gap, lastSeen, matched>>
    BY <1>2, <1>5 DEF KillErrors, episode
  <2>2. \/ UNCHANGED <<landed, lost>>
        \/ /\ landed' = [landed EXCEPT ![killing] = @ + 1]
           /\ lost' = [lost EXCEPT ![killing] = @ + 1]
    BY <1>2, <1>5 DEF KillErrors
  <2>3. landed' \in [Rule -> Nat] /\ lost' \in [Rule -> Nat] /\ Paid'
    <3>1. \A q \in Rule : bucket[q].kills \in Nat
      BY <1>2 DEF Bucket
    <3> QED
      BY <1>1, <1>2, <2>1, <2>2, <3>1 DEF Paid
  <2>4. BlockerTypeOK'
    BY <1>1, <2>1, <2>3 DEF BlockerTypeOK
  <2>5. MarkWitnessed' /\ FitsCap' /\ DebtAccounted'
    BY <1>1, <1>2, <1>3, <2>1 DEF MarkWitnessed, FitsCap
  <2> QED
    BY <2>3, <2>4, <2>5 DEF BlockerInv
<1>6. CASE SetSource
  <2>1. /\ killing = NoRule /\ sourced' = ~sourced /\ bucket' = [r \in Rule |-> NoBucket]
        /\ current' = Nobody /\ mark' = Off /\ killed' = FALSE
        /\ landed' = [r \in Rule |-> 0] /\ lost' = [r \in Rule |-> 0]
        /\ lastSeen' = Nobody /\ matched' = 0 /\ UNCHANGED <<blocker, pump, killing, gap>>
    BY <1>6 DEF SetSource
  <2>2. NoBucket \in Bucket /\ NoBucket.accrued = 0 /\ NoBucket.kills = 0
    BY Delays DEF NoBucket, Bucket, Off
  <2>3. DebtAccounted'
    <3>1. Debt' = {}
      BY <2>1, <2>2, Delays DEF Debt
    <3> QED
      BY <2>1, <3>1, FS_EmptySet DEF DebtAccounted
  <2>4. BlockerTypeOK'
    <3>1. sourced' \in BOOLEAN /\ killed' \in BOOLEAN /\ pump' \in BOOLEAN
      BY <1>1, <2>1 DEF BlockerTypeOK
    <3>2. bucket' \in [Rule -> Bucket] /\ \A r \in Rule : bucket'[r].kills <= MaxKills
      BY <2>1, <2>2, Delays
    <3>3. landed' \in [Rule -> Nat] /\ lost' \in [Rule -> Nat]
      BY <2>1
    <3>4. mark' \in Off..Dwell /\ matched' \in 0..TimeCap
      BY <2>1, Delays DEF Off
    <3> QED
      BY <1>1, <2>1, <3>1, <3>2, <3>3, <3>4 DEF BlockerTypeOK
  <2>5. MarkWitnessed' /\ Paid' /\ FitsCap'
    BY <2>1, <2>2 DEF MarkWitnessed, Paid, FitsCap
  <2> QED
    BY <2>3, <2>4, <2>5 DEF BlockerInv
<1>7. CASE StatementTurns
  BY <1>1, <1>7 DEF StatementTurns, episode, history, BlockerInv, BlockerTypeOK, MarkWitnessed,
     Paid, FitsCap, DebtAccounted, Debt
<1>8. CASE BlockerChanges
  BY <1>1, <1>8 DEF BlockerChanges, episode, history, BlockerInv, BlockerTypeOK, MarkWitnessed,
     Paid, FitsCap, DebtAccounted, Debt
<1>9. CASE Tick
  <2>1. /\ bucket' = [r \in Rule |-> OlderBucket(bucket[r])]
        /\ mark' = AgeUpTo(mark, Dwell) /\ gap' = UpTo(gap + 1, Dwell)
        /\ UNCHANGED <<blocker, pump, sourced, current, killed, killing, landed, lost, lastSeen,
                       matched>>
    BY <1>9 DEF Tick
  <2>2. /\ bucket' \in [Rule -> Bucket]
        /\ \A r \in Rule : bucket'[r].accrued = bucket[r].accrued /\ bucket'[r].kills = bucket[r].kills
    BY <1>2, <2>1, AgedBucket
  <2>3. mark' \in Off..Dwell /\ gap' \in 0..Dwell /\ MarkWitnessed'
    BY <1>1, <1>2, <2>1, Delays DEF AgeUpTo, UpTo, Off, MarkWitnessed
  <2>4. BlockerTypeOK'
    BY <1>1, <2>1, <2>2, <2>3 DEF BlockerTypeOK
  <2>5. Paid' /\ FitsCap'
    BY <1>1, <1>2, <2>1, <2>2 DEF Paid, FitsCap
  <2> QED
    BY <1>3, <2>1, <2>2, <2>3, <2>4, <2>5 DEF BlockerInv
<1>10. CASE UNCHANGED blockerVars
  BY <1>1, <1>10 DEF blockerVars, episode, history, BlockerInv, BlockerTypeOK, MarkWitnessed,
     Paid, FitsCap, DebtAccounted, Debt
<1> QED
  BY <1>4, <1>5, <1>6, <1>7, <1>8, <1>9, <1>10, PollKeeps DEF BlockerNext

(* The invariant of the blocker killer holds in every reachable state.       *)
LEMMA BlockerInvariant == BlockerSpec => []BlockerInv
  BY BlockerStart, BlockerStep, PTL DEF BlockerSpec

(* Every variable keeps its type: no bucket counts more KILLs than the cap.  *)
THEOREM BlockerTyped == BlockerSpec => []BlockerTypeOK
<1>1. BlockerInv => BlockerTypeOK
  BY DEF BlockerInv
<1> QED
  BY <1>1, BlockerInvariant, PTL

(* A rule is charged only the time between polls that saw the same blocker,  *)
(* and spends no more KILLs than the cap and those whose answer was lost     *)
(* (considerLocked, sincePoll, recordKill).                                  *)
THEOREM KillsAreAccounted == BlockerSpec => []KillsAccounted
<1>1. BlockerInv => KillsAccounted
  <2> SUFFICES ASSUME BlockerInv PROVE DebtAccounted /\ BudgetHolds
    BY DEF KillsAccounted
  <2>1. ASSUME NEW r \in Rule PROVE landed[r] <= MaxKills + lost[r]
    <3>1. /\ landed[r] <= bucket[r].kills + lost[r] /\ bucket[r].kills <= MaxKills
          /\ landed[r] \in Nat /\ lost[r] \in Nat /\ bucket[r].kills \in Nat
      BY DEF BlockerInv, BlockerTypeOK, Paid, Bucket
    <3> QED
      BY <3>1, Delays
  <2> QED
    BY <2>1 DEF BlockerInv, BudgetHolds
<1> QED
  BY <1>1, BlockerInvariant, PTL

=============================================================================
