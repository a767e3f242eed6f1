---------------------------- MODULE ExecSession ----------------------------
(***************************************************************************)
(* The pinned execution session of internal/mssql/conn.go and the session  *)
(* ids it is known by.                                                     *)
(*                                                                         *)
(* SQL Server names a session by a small id that it reuses as soon as the  *)
(* session ends; only the id together with its login_time is an identity.  *)
(* Four parties act on that id: the execution goroutine, which pins a new  *)
(* session after an aborted statement poisoned the old one (repairIfBroken *)
(* and stopOrphan); the runner's fallback KILL after kill_grace and the    *)
(* operator's kill key, both through KillSelf; and, after a crash, the     *)
(* recovery sweep, which decides from the sidecar whether the statement of *)
(* each dead process still runs, and leaves its manifest alone if it does; *)
(* the rest of the queue then runs beside it.  Around them strangers log   *)
(* in, links break and sessions end at any moment.                         *)
(*                                                                         *)
(* Logins are numbered in the order they happen, which stands for          *)
(* login_time; 0 is the empty string of a login_time that was never read.  *)
(* A marker is the number of the claim that drew it, 0 where none was set. *)
(***************************************************************************)
EXTENDS Naturals, FiniteSets

CONSTANTS
  Ids,           \* the session ids the server hands out
  MaxLogins,     \* bound on logins, ours and strangers'
  MaxClaims,     \* bound on manifests claimed, a press of the kill key counting as one
  MaxCrashes,    \* bound on crashes of the process
  MaxConsole,    \* bound on presses of the kill key
  OrphanPolls,   \* polls that fit in orphanStopTimeout
  RepairPolls    \* polls that fit in the repair's own timeout

ASSUME Bounds ==
  /\ 0 \notin Ids
  /\ MaxLogins \in Nat /\ MaxClaims \in Nat /\ MaxCrashes \in Nat /\ MaxConsole \in Nat
  /\ OrphanPolls \in Nat \ {0} /\ RepairPolls \in Nat

VARIABLES
  server,      \* the session holding each id
  logins,      \* the newest login
  conn,        \* the session the driver holds a working link to
  rec,         \* what Conn records of it, under mu
  pc,          \* where the execution goroutine is
  done,        \* the driver has returned from the statement
  polls,       \* polls of the orphan in this repair
  held,        \* what each killer read of the session it is about to end
  sidecar,     \* the identity the sidecar of the manifest in hand records
  left,        \* the sidecars of the manifests in processing nobody has in hand
  todo,        \* those of them this sweep has not looked at
  claims,      \* manifests claimed so far, which numbers the markers
  crashes,     \* crashes so far
  pressed,     \* presses of the kill key so far
  astray       \* logins whose live statement the program lost sight of (history)

found == <<left, todo>>
vars == <<server, logins, conn, rec, pc, done, polls, held, sidecar, found, claims,
          crashes, pressed, astray>>
budgets == <<claims, crashes, pressed>>

Free == [login |-> 0, own |-> FALSE, busy |-> "idle", marker |-> 0]
NoSidecar == [spid |-> 0, login |-> 0, marker |-> 0]
Unarmed == [step |-> "none", spid |-> 0, login |-> 0, at |-> 0]
NoRecord == [spid |-> 0, login |-> 0, marker |-> 0, suspect |-> FALSE]
NoLink == [id |-> 0, login |-> 0]
Killers == {"grace", "console", "orphan"}

(* Bound: a press of the kill key counts as a claim. *)
WithinBound == claims + pressed < MaxClaims

(* The runner and the repair remember that they have had their one KILL. *)
Over(k) == IF k = "console" THEN Unarmed ELSE [Unarmed EXCEPT !.step = "spent"]

(* The session the driver talks to is still there and the link still works. *)
Alive == conn # NoLink /\ server[conn.id].login = conn.login

Running(s) == s.login # 0 /\ s.busy # "idle"

(* The run's sessions with a request in flight, the one in use and the ones
   left behind. *)
Executing == {i \in Ids : server[i].own /\ Running(server[i])}

(* SessionIdentity of a recorded id and login_time: the same session. *)
Identifies(spid, login) == login # 0 /\ spid \in Ids /\ server[spid].login = login

(* matchesOrphan: the session a sidecar records still exists under the recorded
   login_time and marker, and has a request in flight. *)
MatchesOrphan(s) ==
  /\ Identifies(s.spid, s.login)
  /\ Running(server[s.spid])
  /\ s.marker # 0 => server[s.spid].marker = s.marker

(* The run goes on, or ends, without an answer about the statements in S. *)
LoseSight(S) == astray' = astray \cup {server[i].login : i \in S}

-----------------------------------------------------------------------------
(* Sessions of the server. *)

LogIn(i, own, marker) ==
  /\ server[i] = Free
  /\ logins < MaxLogins
  /\ logins' = logins + 1
  /\ server' = [server EXCEPT ![i] = [login |-> logins + 1, own |-> own,
                                      busy |-> "idle", marker |-> marker]]

Becomes(i, busy) == server' = [server EXCEPT ![i].busy = busy]

(* A connection pinned on session id i.  Reading its login_time is best
   effort. *)
Pinned(i, marker) ==
  /\ conn' = [id |-> i, login |-> logins + 1]
  /\ \E login \in {0, logins + 1} :
       rec' = [spid |-> i, login |-> login, marker |-> marker, suspect |-> FALSE]

(* Somebody else logs in on an id the program has noted; on another one it
   would be nobody's concern. *)
Stranger ==
  /\ \E i \in Ids \cap ({rec.spid, sidecar.spid, held["console"].spid} \cup {s.spid : s \in left}) : LogIn(i, FALSE, 0)
  /\ UNCHANGED <<conn, rec, pc, done, polls, held, sidecar, found, budgets, astray>>

(* A session ends: its client left, somebody killed it, the server restarted,
   or its rollback is over. *)
SessionEnds ==
  /\ \E i \in Ids : server[i] # Free /\ server' = [server EXCEPT ![i] = Free]
  /\ UNCHANGED <<logins, conn, rec, pc, done, polls, held, sidecar, found, budgets, astray>>

(* A statement nobody waits for any more comes to its end. *)
OrphanStops ==
  /\ \E i \in Executing : (~Alive \/ i # conn.id) /\ Becomes(i, "idle")
  /\ UNCHANGED <<logins, conn, rec, pc, done, polls, held, sidecar, found, budgets, astray>>

LinkLost ==
  /\ conn # NoLink
  /\ conn' = NoLink
  /\ UNCHANGED <<server, logins, rec, pc, done, polls, held, sidecar, found, budgets, astray>>

-----------------------------------------------------------------------------
(* The life of the process: open, sweep, claim, conclude, end, crash. *)

Init ==
  /\ server = [i \in Ids |-> Free]
  /\ logins = 0
  /\ conn = NoLink /\ rec = NoRecord
  /\ pc = "down" /\ done = FALSE /\ polls = 0
  /\ held = [k \in Killers |-> Unarmed]
  /\ sidecar = NoSidecar /\ left = {} /\ todo = {}
  /\ claims = 0 /\ crashes = 0 /\ pressed = 0
  /\ astray = {}

Open ==
  /\ pc = "down"
  /\ \E i \in Ids : LogIn(i, TRUE, 0) /\ Pinned(i, 0)
  /\ pc' = "sweep" /\ todo' = left
  /\ UNCHANGED <<done, polls, held, sidecar, left, budgets, astray>>

(* mutant: the recorded session is not looked up *)
RequeueBlind ==
  /\ pc = "sweep"
  /\ \E s \in todo : todo' = todo \ {s} /\ left' = left \ {s}
  /\ UNCHANGED <<server, logins, conn, rec, pc, done, polls, held, sidecar, budgets, astray>>

(* The sweep puts a manifest back in to_run when its statement is not found
   running... *)
Requeue ==
  /\ pc = "sweep"
  /\ \E s \in todo : /\ ~MatchesOrphan(s)
                     /\ todo' = todo \ {s} /\ left' = left \ {s}
  /\ UNCHANGED <<server, logins, conn, rec, pc, done, polls, held, sidecar, budgets, astray>>

(* ...and leaves it in processing when it is, or when the probe fails, whatever
   the session does.  The sweep goes on. *)
LeaveInProcessing ==
  /\ pc = "sweep"
  /\ \E s \in todo : todo' = todo \ {s}
  /\ UNCHANGED <<server, logins, conn, rec, pc, done, polls, held, sidecar, left, budgets, astray>>

(* The run works through the rest of the queue, whatever the sweep left. *)
SweepEnds ==
  /\ pc = "sweep" /\ todo = {}
  /\ pc' = "idle"
  /\ UNCHANGED <<server, logins, conn, rec, done, polls, held, sidecar, found, budgets, astray>>

(* The manifests of another database run on a connection of their own, which
   knows nothing of what became of the one before. *)
NextDatabase ==
  /\ pc = "idle"
  /\ \E i \in Ids : LogIn(i, TRUE, 0) /\ Pinned(i, 0)
  /\ LoseSight(Executing)
  /\ UNCHANGED <<pc, done, polls, held, sidecar, found, budgets>>

(* writeSidecar: login_time and the marker go through the pinned connection as
   it is, without a repair; on a poisoned one both stay empty. *)
Claim ==
  /\ pc = "idle" /\ WithinBound
  /\ claims' = claims + 1
  /\ IF Alive
     THEN /\ sidecar' = [spid |-> rec.spid, login |-> conn.login, marker |-> claims + 1]
          /\ server' = [server EXCEPT ![conn.id].marker = claims + 1]
          /\ rec' = [rec EXCEPT !.marker = claims + 1]
     ELSE /\ sidecar' = [spid |-> rec.spid, login |-> 0, marker |-> 0]
          /\ UNCHANGED <<server, rec>>
  /\ pc' = "ready"
  /\ UNCHANGED <<logins, conn, done, polls, held, found, crashes, pressed, astray>>

Conclude ==
  /\ pc = "ready"
  /\ sidecar' = NoSidecar
  /\ pc' = "idle"
  /\ UNCHANGED <<server, logins, conn, rec, done, polls, held, found, budgets, astray>>

(* A drain, a closed window or a lost server: the manifest and its sidecar stay
   in processing, and the run turns to the next one. *)
Interrupted ==
  /\ pc = "ready"
  /\ left' = left \cup {sidecar} /\ sidecar' = NoSidecar
  /\ pc' = "idle"
  /\ UNCHANGED <<server, logins, conn, rec, done, polls, held, todo, budgets, astray>>

(* What is left is in processing, and the next sweep looks only there: a
   statement no sidecar names cannot be found. *)
Gone ==
  /\ left' = IF sidecar = NoSidecar THEN left ELSE left \cup {sidecar}
  /\ sidecar' = NoSidecar /\ todo' = {}
  /\ conn' = NoLink /\ rec' = NoRecord
  /\ held' = [k \in Killers |-> Unarmed]
  /\ pc' = "down" /\ done' = FALSE /\ polls' = 0
  /\ LoseSight({i \in Executing : ~\E s \in left' : s.spid = i /\ MatchesOrphan(s)})
  /\ UNCHANGED <<logins, claims, pressed>>

(* The queue is empty, the run is drained, or the sweep cannot requeue: the
   process ends and closes its session. *)
Quit ==
  /\ pc \in {"sweep", "idle"}
  /\ Gone
  /\ server' = IF Alive THEN [server EXCEPT ![conn.id] = Free] ELSE server
  /\ UNCHANGED crashes

(* The process dies; the server notices later, or never while the statement
   runs. *)
Crash ==
  /\ pc # "down" /\ crashes < MaxCrashes
  /\ Gone
  /\ crashes' = crashes + 1
  /\ UNCHANGED server

-----------------------------------------------------------------------------
(* execStatement: repair first when the statement before failed, then send. *)

Issue ==
  /\ pc = "ready"
  /\ pc' = IF rec.suspect THEN "ping" ELSE "send"
  /\ UNCHANGED <<server, logins, conn, rec, done, polls, held, sidecar, found, budgets, astray>>

(* repairIfBroken up to stopOrphan.  Without a recorded login_time the old
   session is not looked for. *)
Ping ==
  /\ pc = "ping"
  /\ IF Alive
     THEN /\ rec' = [rec EXCEPT !.suspect = FALSE]
          /\ pc' = "send"
          /\ UNCHANGED astray
     ELSE /\ pc' = IF rec.login = 0 THEN "pin" ELSE "probe"
          /\ IF rec.login = 0 THEN LoseSight(Executing) ELSE UNCHANGED astray
          /\ UNCHANGED rec
  /\ UNCHANGED <<server, logins, conn, done, polls, held, sidecar, found, budgets>>

(* What a probe of the old session that answers finds: it still runs. *)
OrphanRuns == Identifies(rec.spid, rec.login) /\ Running(server[rec.spid])

(* mutant: the budget is checked, and nothing is done about it *)
ExpiredNever(n) == FALSE

Expired(n) == n >= OrphanPolls

(* mutant: a KILL that was sent is taken for a session that ended *)
AfterProbeHasty(answered) ==
  IF answered /\ OrphanRuns /\ held["orphan"].step = "none" THEN "wait" ELSE "pin"

(* Where a probe sends the repair: the deadline is a refusal, checked before
   the answer is looked at. *)
AfterProbe(answered) ==
  IF Expired(polls) THEN "ready"
  ELSE IF answered /\ OrphanRuns THEN "wait" ELSE "pin"

Probe ==
  /\ pc = "probe"
  /\ \E answered \in BOOLEAN :
       /\ pc' = AfterProbe(answered)
       /\ IF answered \/ Expired(polls) THEN UNCHANGED astray ELSE LoseSight(Executing)
  /\ polls' = IF pc' = "ready" THEN 0 ELSE polls
  /\ held' = [held EXCEPT !["orphan"] =
                IF pc' # "wait" THEN Unarmed
                ELSE IF @.step = "spent" THEN @
                ELSE [step |-> "kill", spid |-> rec.spid, login |-> rec.login,
                      at |-> logins]]
  /\ UNCHANGED <<server, logins, conn, rec, done, sidecar, found, budgets>>

Polled(n) == IF n < OrphanPolls THEN n + 1 ELSE n

Wait ==
  /\ pc = "wait" /\ held["orphan"].step = "spent"
  /\ polls' = Polled(polls)
  /\ pc' = "probe"
  /\ UNCHANGED <<server, logins, conn, rec, done, held, sidecar, found, budgets, astray>>

(* The second half of repairIfBroken, published at once: a new session,
   hardened, identified and stamped with the marker of the run. *)
Pin ==
  /\ pc = "pin" /\ polls <= RepairPolls
  /\ \E i \in Ids : LogIn(i, TRUE, rec.marker) /\ Pinned(i, rec.marker)
  /\ pc' = "send" /\ polls' = 0
  /\ UNCHANGED <<done, held, sidecar, found, budgets, astray>>

(* The server cannot be reached, or the budget of the repair, which runs from
   before the orphan was waited for, is spent.  The statement fails. *)
PinFails ==
  /\ pc = "pin"
  /\ pc' = "ready" /\ polls' = 0
  /\ UNCHANGED <<server, logins, conn, rec, done, held, sidecar, found, budgets, astray>>

Send ==
  /\ pc = "send"
  /\ IF Alive
     THEN /\ Becomes(conn.id, "run")
          /\ pc' = "exec"
          /\ UNCHANGED rec
     ELSE /\ rec' = [rec EXCEPT !.suspect = TRUE]
          /\ pc' = "ready"
          /\ UNCHANGED server
  /\ UNCHANGED <<logins, conn, done, polls, held, sidecar, found, budgets, astray>>

-----------------------------------------------------------------------------
(* runStatement: the driver returns, or the runner stops the statement. *)

InStatement == pc \in {"exec", "stop"}

(* The statement ends on the server, well or badly. *)
Finish ==
  /\ InStatement /\ ~done /\ Alive /\ server[conn.id].busy = "run"
  /\ Becomes(conn.id, "idle")
  /\ \E failed \in BOOLEAN : rec' = [rec EXCEPT !.suspect = failed]
  /\ done' = TRUE
  /\ UNCHANGED <<logins, conn, pc, polls, held, sidecar, found, budgets, astray>>

(* The driver gives the connection up: the link is dead, or its attention was
   not confirmed while the statement runs on. *)
Break ==
  /\ InStatement /\ ~done
  /\ Alive => pc = "stop"
  /\ conn' = NoLink
  /\ rec' = [rec EXCEPT !.suspect = TRUE]
  /\ done' = TRUE
  /\ UNCHANGED <<server, logins, pc, polls, held, sidecar, found, budgets, astray>>

(* The supervisor pauses or cancels the statement. *)
Cancel ==
  /\ pc = "exec" /\ ~done
  /\ pc' = "stop"
  /\ UNCHANGED <<server, logins, conn, rec, done, polls, held, sidecar, found, budgets, astray>>

Arm(k) == held' = [held EXCEPT ![k] = [step |-> "read", spid |-> rec.spid,
                                       login |-> rec.login, at |-> 0]]

GraceExpires ==
  /\ pc = "stop" /\ ~done /\ held["grace"].step = "none"
  /\ Arm("grace")
  /\ UNCHANGED <<server, logins, conn, rec, pc, done, polls, sidecar, found, budgets, astray>>

Return ==
  /\ InStatement /\ done
  /\ held["grace"].step \in {"none", "spent"}
  /\ held' = [held EXCEPT !["grace"] = Unarmed]
  /\ pc' = "ready" /\ done' = FALSE
  /\ UNCHANGED <<server, logins, conn, rec, polls, sidecar, found, budgets, astray>>

-----------------------------------------------------------------------------
(* KillSelf: read the identity under mu, ask the server who holds the id, then
   send the KILL.  Each is a round trip, and anything may happen between. *)

(* The console is up while the queue is worked through. *)
PressKill ==
  /\ pc \notin {"down", "sweep"}
  /\ pressed < MaxConsole /\ WithinBound
  /\ held["console"] = Unarmed
  /\ pressed' = pressed + 1
  /\ Arm("console")
  /\ UNCHANGED <<server, logins, conn, rec, pc, done, polls, sidecar, found, claims, crashes,
                 astray>>

(* mutant: the id alone is taken for an identity *)
KillSelfById(h) == h.spid \in Ids /\ server[h.spid] # Free

(* killSelfDecision: anything but a positive match declines. *)
KillSelfDecision(h) == Identifies(h.spid, h.login)

Verify(k) ==
  /\ held[k].step = "read"
  /\ \E answered \in BOOLEAN :
       held' = [held EXCEPT ![k] = IF answered /\ KillSelfDecision(@)
                                   THEN [@ EXCEPT !.step = "kill", !.at = logins]
                                   ELSE Over(k)]
  /\ UNCHANGED <<server, logins, conn, rec, pc, done, polls, sidecar, found, budgets, astray>>

(* What a KILL does to the session holding the id: an idle one is gone, a busy
   one rolls back. *)
Killed(s) == IF Running(s) THEN [s EXCEPT !.busy = "rollback"] ELSE Free

(* A login without ALTER ANY CONNECTION cannot issue it. *)
Kill(k) ==
  /\ held[k].step = "kill"
  /\ held' = [held EXCEPT ![k] = Over(k)]
  /\ \E lands \in BOOLEAN :
       server' = IF lands THEN [server EXCEPT ![held[k].spid] = Killed(@)] ELSE server
  /\ UNCHANGED <<logins, conn, rec, pc, done, polls, sidecar, found, budgets, astray>>

-----------------------------------------------------------------------------

Repair == Ping \/ Probe \/ Wait \/ Kill("orphan") \/ Pin \/ PinFails

Next ==
  \/ Stranger \/ SessionEnds \/ OrphanStops \/ LinkLost
  \/ Open \/ Requeue \/ LeaveInProcessing \/ SweepEnds \/ NextDatabase
  \/ Claim \/ Conclude \/ Interrupted \/ Quit \/ Crash
  \/ Issue \/ Ping \/ Probe \/ Wait \/ Pin \/ PinFails \/ Send
  \/ Finish \/ Break \/ Cancel \/ GraceExpires \/ Return
  \/ PressKill
  \/ \E k \in Killers : Verify(k) \/ Kill(k)

Spec == Init /\ [][Next]_vars

(* Every step of a repair is a call with a timeout of its own. *)
FairSpec == Spec /\ WF_vars(Repair)

-----------------------------------------------------------------------------
(* Properties. *)

Sessions == [login : 0..MaxLogins, own : BOOLEAN, busy : {"idle", "run", "rollback"},
             marker : 0..MaxClaims]

Holds == [step : {"none", "read", "kill", "spent"}, spid : Ids \cup {0},
          login : 0..MaxLogins, at : 0..MaxLogins]

Sidecars == [spid : Ids \cup {0}, login : 0..MaxLogins, marker : 0..MaxClaims]

(* The types of the variables. *)
TypeOK ==
  /\ server \in [Ids -> Sessions]
  /\ logins \in 0..MaxLogins
  /\ conn \in {NoLink} \cup [id : Ids, login : 1..MaxLogins]
  /\ rec \in [spid : Ids \cup {0}, login : 0..MaxLogins, marker : 0..MaxClaims, suspect : BOOLEAN]
  /\ pc \in {"down", "sweep", "idle", "ready", "ping", "probe", "wait", "pin", "send", "exec", "stop"}
  /\ done \in BOOLEAN /\ astray \subseteq 1..MaxLogins
  /\ polls \in 0..OrphanPolls
  /\ held \in [Killers -> Holds]
  /\ sidecar \in Sidecars /\ left \subseteq Sidecars /\ todo \subseteq left
  /\ claims \in 0..MaxClaims /\ crashes \in 0..MaxCrashes /\ pressed \in 0..MaxConsole

(* The statements running on that a sweep finds, and the manifests of which it
   leaves in processing. *)
Adopted == {i \in Ids : \E s \in left : s.spid = i /\ MatchesOrphan(s)}
Astray == {i \in Ids : server[i].login \in astray}

(* Of the run's statements that execute, at most one is neither the work of a
   manifest left in processing, whose sidecar names its session, nor one the
   program lost sight of: by a probe that failed, a login_time never read, a
   change of database, or its end while no sidecar named the session.  Through
   canceled statements that run on, repairs, KILLs that do not land, restarts
   and manifests interrupted on the session the next one uses. *)
OneAtATime == Cardinality(Executing \ (Adopted \cup Astray)) <= 1

(* Does not hold: "at most one heavy DDL runs server-wide at a time"
   (main.go:295).  A manifest whose statement runs on stays in processing, and
   the run executes the next manifest beside it. *)
OneHeavyDDL == Cardinality(Executing \ Astray) <= 1

(* A KILL the program sends ends a session of somebody else only if that
   session logged in after the program had verified whose the id was. *)
OnlyOursKilled ==
  [][\A k \in Killers :
       LET victim == server[held[k].spid] IN
       (held[k].step = "kill" /\ Kill(k) /\ server' # server /\ ~victim.own)
         => victim.login > held[k].at]_vars

(* A statement of a manifest runs in a session that carries the marker the
   manifest's sidecar records, also when the session was replaced after the
   sidecar was written. *)
MarkerFollows ==
  (InStatement /\ Alive /\ Running(server[conn.id]) /\ sidecar.marker # 0)
    => server[conn.id].marker = sidecar.marker

(* The statements of a run come one at a time, in sessions that carry its
   marker. *)
OneMarkedStatement == OneAtATime /\ MarkerFollows

(* Every repair comes to an end: a new session, or a statement refused. *)
RepairSettles == pc \in {"ping", "probe", "wait", "pin"} ~> pc \notin {"ping", "probe", "wait", "pin"}

(***************************************************************************)
(* Does not hold: "without that, a crash after a repair leaves an orphan   *)
(* no run can claim" (conn.go:234).  The marker is stamped again, but the  *)
(* sidecar keeps the id and login_time of the first session, and the sweep *)
(* looks nowhere else.                                                     *)
(***************************************************************************)
OrphanClaimable ==
  pc = "sweep" =>
    \A s \in todo : (s.marker # 0 /\ \E i \in Executing : server[i].marker = s.marker)
                     => MatchesOrphan(s)

(* Does not hold: the sidecar of a claimed manifest identifies a session; one
   written over a poisoned connection records no login_time. *)
SidecarIdentifies == pc = "exec" => sidecar.login # 0

(* Does not hold: a repair that saw the orphan stop pins a new session.  The
   budget of the repair runs while stopOrphan waits on a longer one. *)
PatienceRewarded == pc = "pin" => polls <= RepairPolls

=============================================================================
