------------------------------ MODULE QueueLock ------------------------------
(***************************************************************************)
(* One run per queue: the lock on the processing directory, process by     *)
(* process and inode by inode, and what it protects -- the recovery sweep, *)
(* which takes a manifest in 02.processing with no request on the server   *)
(* for the leftover of a dead run.  One manifest stands for the queue; how *)
(* it is recorded and resumed is in ManifestLifecycle.                     *)
(***************************************************************************)
EXTENDS Naturals

CONSTANTS
  Proc,        \* processes that may be launched on the queue
  Inode,       \* inodes the file system may give the lock file
  None,        \* no process, no inode
  MaxCrashes   \* bound on the processes that die

ASSUME LockAssumption ==
  /\ Proc # {} /\ None \notin Proc /\ None \notin Inode
  /\ MaxCrashes \in Nat

VARIABLES
  file,       \* the inode the name .sqlgopace.lock refers to
  fd,         \* the inode each process has open
  lock,       \* the process whose open file holds the lock on an inode
  line,       \* the holder line written in an inode: a process, or nothing
  stage,         \* where each process is
  where,      \* the directory of the manifest
  runner,     \* the live process running the manifest
  executing,  \* a request of the manifest executes on the server
  crashes

lockVars == <<file, fd, lock, line>>
jobVars  == <<where, runner, executing>>
queueVars     == <<lockVars, stage, jobVars, crashes>>

Holding == {"won", "cleared", "held", "swept", "work", "unlock"}

LockInit ==
  /\ file = None
  /\ fd = [p \in Proc |-> None]
  /\ lock = [n \in Inode |-> None]
  /\ line = [n \in Inode |-> None]
  /\ stage = [p \in Proc |-> "idle"]
  /\ where = "to_run" /\ runner = None /\ executing = FALSE
  /\ crashes = 0

Closed(p) == [fd EXCEPT ![p] = None]

Goes(p, from, to) == stage[p] = from /\ stage' = [stage EXCEPT ![p] = to]

-----------------------------------------------------------------------------
(* LockQueue: open or create the file, try the lock, write the holder line. *)

(* os.OpenFile without O_TRUNC: the line of a holder stays. *)
OpenedLine == line

(* Without a file of that name, O_CREATE takes an inode nothing refers to. *)
Fresh(n) == n \in Inode /\ n # file /\ lock[n] = None /\ \A p \in Proc : fd[p] # n

OpenFile(p) ==
  /\ Goes(p, "idle", "opened")
  /\ \/ file # None /\ line' = OpenedLine /\ UNCHANGED file
     \/ /\ file = None
        /\ \E n \in Inode : Fresh(n) /\ file' = n /\ line' = [line EXCEPT ![n] = None]
  /\ fd' = [fd EXCEPT ![p] = file']
  /\ UNCHANGED <<lock, jobVars, crashes>>

FreeIfUnsigned(n) == line[n] = None   \* mutant: the file itself is the lock
Free(n) == lock[n] = None

TryLock(p) ==
  /\ \/ Goes(p, "opened", "won") /\ Free(fd[p]) /\ lock' = [lock EXCEPT ![fd[p]] = p]
     \/ Goes(p, "opened", "refused") /\ ~Free(fd[p]) /\ UNCHANGED lock
  /\ UNCHANGED <<file, fd, line, jobVars, crashes>>

Refused(p) ==
  /\ Goes(p, "refused", "idle")
  /\ fd' = Closed(p)
  /\ UNCHANGED <<file, lock, line, jobVars, crashes>>

ClearLine(p) ==
  /\ Goes(p, "won", "cleared")
  /\ line' = [line EXCEPT ![fd[p]] = None]
  /\ UNCHANGED <<file, fd, lock, jobVars, crashes>>

WriteLine(p) ==
  /\ Goes(p, "cleared", "held")
  /\ line' = [line EXCEPT ![fd[p]] = p]
  /\ UNCHANGED <<file, fd, lock, jobVars, crashes>>

(* The line cannot be truncated or written: the lock is given back. *)
LineFails(p) ==
  /\ stage[p] \in {"won", "cleared"} /\ stage' = [stage EXCEPT ![p] = "unlock"]
  /\ UNCHANGED <<lockVars, jobVars, crashes>>

-----------------------------------------------------------------------------
(* The run under the lock. *)

(* The sweep: what is in processing with no request on the server is requeued. *)
Sweep(p) ==
  /\ Goes(p, "held", "swept")
  /\ where' = IF where = "processing" /\ ~executing THEN "to_run" ELSE where
  /\ UNCHANGED <<lockVars, runner, executing, crashes>>

Take(p) ==
  /\ Goes(p, "swept", "work")
  /\ where = "to_run" /\ where' = "processing"
  /\ runner' = p
  /\ UNCHANGED <<lockVars, executing, crashes>>

NothingToDo(p) ==
  /\ Goes(p, "swept", "unlock")
  /\ where # "to_run"
  /\ UNCHANGED <<lockVars, jobVars, crashes>>

(* Between statements -- relief, chunks, batches -- nothing executes. *)
Execute(p) ==
  /\ stage[p] = "work" /\ ~executing /\ executing' = TRUE
  /\ UNCHANGED <<lockVars, stage, where, runner, crashes>>

StatementEnds ==
  /\ executing /\ executing' = FALSE
  /\ UNCHANGED <<lockVars, stage, where, runner, crashes>>

Conclude(p) ==
  /\ Goes(p, "work", "unlock") /\ ~executing
  /\ where' = "done" /\ runner' = None
  /\ UNCHANGED <<lockVars, executing, crashes>>

-----------------------------------------------------------------------------
(* Release: unlock, then close; the file stays. *)
Unlock(p) ==
  /\ Goes(p, "unlock", "close")
  /\ lock' = [lock EXCEPT ![fd[p]] = None]
  /\ UNCHANGED <<file, fd, line, jobVars, crashes>>

Unlinked == None   \* mutant: Release removes the file, as it used to
Remaining == file

Close(p) ==
  /\ Goes(p, "close", "idle")
  /\ fd' = Closed(p)
  /\ file' = Remaining
  /\ UNCHANGED <<lock, line, jobVars, crashes>>

(* The process dies: the kernel closes its files and drops their locks; its *)
(* statement may keep executing.                                            *)
Die(p) ==
  /\ stage[p] # "idle" /\ crashes < MaxCrashes
  /\ crashes' = crashes + 1
  /\ stage' = [stage EXCEPT ![p] = "idle"]
  /\ fd' = Closed(p)
  /\ lock' = [n \in Inode |-> IF lock[n] = p THEN None ELSE lock[n]]
  /\ runner' = IF runner = p THEN None ELSE runner
  /\ UNCHANGED <<file, line, where, executing>>

-----------------------------------------------------------------------------
Run(p) ==
  \/ OpenFile(p) \/ TryLock(p) \/ Refused(p) \/ ClearLine(p) \/ WriteLine(p)
  \/ LineFails(p) \/ Sweep(p) \/ Take(p) \/ NothingToDo(p) \/ Execute(p)
  \/ Conclude(p) \/ Unlock(p) \/ Close(p)

LockNext == StatementEnds \/ \E p \in Proc : Run(p) \/ Die(p)

LockSpec == LockInit /\ [][LockNext]_queueVars

(* Every launched process keeps running, it is launched again after it ends, *)
(* a statement ends, and the holder line can be written again and again      *)
(* until it succeeds; a run that got that far does conclude its manifest.    *)
FairLockSpec ==
  /\ LockSpec
  /\ WF_queueVars(StatementEnds)
  /\ \A p \in Proc : /\ WF_queueVars(Run(p))
                     /\ SF_queueVars(ClearLine(p)) /\ SF_queueVars(WriteLine(p))
                     /\ SF_queueVars(Conclude(p))

-----------------------------------------------------------------------------
(* A descriptor is open exactly while its process is in LockQueue or a run. *)
DescriptorsClosed == \A p \in Proc : fd[p] = None <=> stage[p] = "idle"

LockTypeOK ==
  /\ DescriptorsClosed
  /\ file \in Inode \cup {None}
  /\ fd \in [Proc -> Inode \cup {None}]
  /\ lock \in [Inode -> Proc \cup {None}]
  /\ line \in [Inode -> Proc \cup {None}]
  /\ stage \in [Proc -> Holding \cup {"idle", "opened", "refused", "close"}]
  /\ where \in {"to_run", "processing", "done"}
  /\ runner \in Proc \cup {None}
  /\ executing \in BOOLEAN
  /\ crashes \in 0..MaxCrashes

(* Two processes never both believe they own the queue, whatever they do to  *)
(* the lock file and whoever dies (LockQueue, Release).                      *)
MutualExclusion ==
  \A p, q \in Proc : stage[p] \in Holding /\ stage[q] \in Holding => p = q

(* The sweep of one run never takes the manifest another run is working on:  *)
(* what LockQueue exists for.                                                *)
InFlightUntouched ==
  runner # None => where = "processing" /\ stage[runner] = "work"

(* While a run works, the line a refused one reads names it: nobody else's    *)
(* open, refusal or crash clears or rewrites it (LockQueue, writeHolder).    *)
HolderNamed ==
  \A p \in Proc : stage[p] \in {"held", "swept", "work"} => line[fd[p]] = p

(* What the lock is for: one run at a time, named to whoever is refused, and  *)
(* its manifest left alone.                                                   *)
OneRun == MutualExclusion /\ InFlightUntouched /\ HolderNamed

(* A run that dies, or fails anywhere in LockQueue, never keeps the queue     *)
(* from the next one: the manifest is concluded in the end.                  *)
QueueNeverWedged == <>(where = "done")

=============================================================================
