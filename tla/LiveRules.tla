----------------------------- MODULE LiveRules -----------------------------
(***************************************************************************)
(* The session rules of a running manifest, read from a file that others   *)
(* write: the operator's editor, the console, and the engine that moves it *)
(* away at the end and writes a recovery manifest from what it said.       *)
(*                                                                         *)
(* Two sources follow the file, one for ignore_blocked_sessions and one    *)
(* for kill_blocking_sessions; each remembers the last modification time   *)
(* it has seen and the last rules it could read.                           *)
(***************************************************************************)
EXTENDS Integers

CONSTANTS
  Rule,        \* the session rules, opaque
  Initial,     \* [Kind -> SUBSET Rule]: the manifest as it was queued
  MaxWrites    \* bound on the writes to the file

Kind == {"ignore", "kill"}
Rules == [Kind -> SUBSET Rule]

ASSUME RulesAssumption ==
  Initial \in Rules /\ MaxWrites \in Nat

VARIABLES
  pc,        \* claimed | loaded | run | final | read | moved | ended
  end,       \* none | done | failed | partial | stays
  mem,       \* the rules of the manifest loaded at the start
  src,       \* per kind: [mod, cur], the source the monitoring asks
  armed,     \* the kinds whose source exists
  polling,   \* per kind: between the stat and the read of a poll
  disk,      \* the file in processing: [there, ok, rules]
  mtime,     \* its modification time
  clock,     \* the last time given to a write
  editor,    \* the operator's editor has truncated the file
  console,   \* the console's edit: none, or the rules it is about to write
  kept,      \* the ignore rules read for the recovery manifest
  recovery,  \* the recovery manifest's rules, or NoRules
  final,     \* what the file said when the operations were over (history)
  edited,    \* it was written after that (history)
  sharp,     \* the last write had a time of its own, and was not made between
             \* the load and the sources (history)
  settled,   \* per kind: a poll began, or ended, since the last write (history)
  steady     \* per kind: the rules every whole version so far had (history)

engine  == <<pc, end, mem, kept, recovery>>
sources == <<src, armed, polling>>
file    == <<disk, mtime, clock>>
history == <<final, edited, sharp, settled, steady>>
vars    == <<engine, sources, file, editor, console, history>>

NoRules == [k \in Kind |-> {"none"}]

Readable == disk.there /\ disk.ok

Init ==
  /\ pc = "claimed" /\ end = "none" /\ mem = Initial
  /\ src = [k \in Kind |-> [mod |-> 0, cur |-> {}]] /\ armed = {}
  /\ polling = [k \in Kind |-> FALSE]
  /\ disk = [there |-> TRUE, ok |-> TRUE, rules |-> Initial] /\ mtime = 0 /\ clock = 0
  /\ editor = "idle" /\ console = NoRules
  /\ kept = {} /\ recovery = NoRules
  /\ final = NoRules /\ edited = FALSE /\ sharp = TRUE
  /\ settled = [k \in Kind |-> "no"] /\ steady = Initial

-----------------------------------------------------------------------------
(* The engine.                                                              *)

\* A manifest that cannot be read fails before anything runs.
Load ==
  /\ pc = "claimed"
  /\ IF Readable THEN pc' = "loaded" /\ mem' = disk.rules /\ UNCHANGED end
                 ELSE pc' = "final" /\ end' = "failed" /\ UNCHANGED mem
  /\ UNCHANGED <<kept, recovery, sources, file, editor, console, history>>

\* After the expansion, the preflight and the plan: a source starts from the
\* rules loaded then and the file's time of now.
Arm(k) ==
  /\ pc = "loaded" /\ k \notin armed
  /\ armed' = armed \cup {k}
  /\ src' = [src EXCEPT ![k] = [mod |-> IF disk.there THEN mtime ELSE 0, cur |-> mem[k]]]
  /\ pc' = IF armed' = Kind THEN "run" ELSE "loaded"
  /\ settled' = [settled EXCEPT ![k] = "no"]
  /\ UNCHANGED <<end, mem, kept, recovery, polling, file, editor, console, final, edited,
                 sharp, steady>>

Finish(o) ==
  /\ pc = "run" /\ pc' = (IF o = "stays" THEN "ended" ELSE "final") /\ end' = o
  /\ final' = IF Readable THEN disk.rules ELSE NoRules
  /\ UNCHANGED <<mem, kept, recovery, sources, file, editor, console, edited, sharp, settled,
                 steady>>

Latest(k) == IF Readable THEN disk.rules[k] ELSE mem[k]

\* A mutant: the recovery manifest takes the exclusions loaded at the start.
KeepLoaded == mem["ignore"]

Keep == Latest("ignore")

\* finalizePartial reads the exclusions before the move.
ReadIgnore ==
  /\ pc = "final" /\ end = "partial" /\ pc' = "read"
  /\ kept' = Keep
  /\ UNCHANGED <<end, mem, recovery, sources, file, editor, console, history>>

Move ==
  /\ pc = (IF end = "partial" THEN "read" ELSE "final")
  /\ pc' = (IF end = "partial" THEN "moved" ELSE "ended")
  /\ disk' = [disk EXCEPT !.there = FALSE]
  /\ UNCHANGED <<end, mem, kept, recovery, sources, mtime, clock, editor, console, history>>

\* ... and the kill rules after it.
WriteRecovery ==
  /\ pc = "moved" /\ pc' = "ended"
  /\ recovery' = [ignore |-> kept, kill |-> Latest("kill")]
  /\ UNCHANGED <<end, mem, kept, sources, file, editor, console, history>>

-----------------------------------------------------------------------------
(* A blocking poll asks each source for its current rules.                  *)

Stat(k) ==
  /\ pc # "ended" /\ k \in armed /\ ~polling[k]
  /\ IF disk.there /\ mtime > src[k].mod
     THEN /\ src' = [src EXCEPT ![k].mod = mtime]
          /\ polling' = [polling EXCEPT ![k] = TRUE]
          /\ settled' = [settled EXCEPT ![k] = "stat"]
     ELSE /\ settled' = [settled EXCEPT ![k] = "yes"]
          /\ UNCHANGED <<src, polling>>
  /\ UNCHANGED <<engine, armed, file, editor, console, final, edited, sharp, steady>>

\* A mutant: what cannot be read has no rules.
RereadAnything(k) == IF Readable THEN disk.rules[k] ELSE {}

Reread(k) == IF Readable THEN disk.rules[k] ELSE src[k].cur

Read(k) ==
  /\ polling[k]
  /\ polling' = [polling EXCEPT ![k] = FALSE]
  /\ src' = [src EXCEPT ![k].cur = Reread(k)]
  /\ settled' = [settled EXCEPT ![k] = IF @ = "stat" THEN "yes" ELSE "no"]
  /\ UNCHANGED <<engine, armed, file, editor, console, final, edited, sharp, steady>>

-----------------------------------------------------------------------------
(* Those who write the file.                                                *)

Write(rules, ok, stamp) ==
  /\ clock < MaxWrites /\ clock' = clock + 1 /\ mtime' = stamp
  /\ disk' = [there |-> TRUE, ok |-> ok, rules |-> rules]
  /\ sharp' = (pc # "loaded" /\ stamp = clock + 1)
  /\ settled' = [k \in Kind |-> "no"]
  /\ edited' = (edited \/ pc \notin {"claimed", "loaded", "run"})
  /\ steady' = [k \in Kind |-> IF ok THEN steady[k] \cap rules[k] ELSE steady[k]]
  /\ UNCHANGED <<engine, sources, final>>

Adds(k)  == {[disk.rules EXCEPT ![k] = @ \cup {r}] : r \in Rule \ disk.rules[k]}
Drops(k) == {[disk.rules EXCEPT ![k] = @ \ {r}] : r \in disk.rules[k]}

\* An editor that replaces the file, perhaps by one saved earlier.
HandSave(rules) ==
  /\ disk.there /\ editor = "idle"
  /\ \/ Write(rules, TRUE, clock + 1)
     \/ Write(rules, TRUE, 0)
  /\ UNCHANGED <<editor, console>>

\* An editor that truncates the file and then writes it, perhaps within one
\* tick of the file clock.
HandTruncate ==
  /\ disk.there /\ editor = "idle" /\ editor' = "torn"
  /\ Write(disk.rules, FALSE, clock + 1)
  /\ UNCHANGED console

HandFinish(rules) ==
  /\ disk.there /\ editor = "torn" /\ editor' = "idle"
  /\ \/ Write(rules, TRUE, clock + 1)
     \/ Write(rules, TRUE, mtime)
  /\ UNCHANGED console

\* The console reads the manifest whose path it was given, changes one rule,
ConsoleReads ==
  /\ pc # "ended" /\ console = NoRules /\ Readable
  /\ console' \in Adds("ignore") \cup Adds("kill") \cup Drops("kill")
  /\ UNCHANGED <<engine, sources, file, editor, history>>

\* and puts it in place, wherever the manifest is by then.
ConsoleWrites ==
  /\ console # NoRules /\ console' = NoRules
  /\ Write(console, TRUE, clock + 1)
  /\ UNCHANGED editor

Next ==
  \/ Load \/ ReadIgnore \/ Move \/ WriteRecovery
  \/ \E o \in {"done", "failed", "partial", "stays"} : Finish(o)
  \/ \E k \in Kind : Arm(k) \/ Stat(k) \/ Read(k)
  \/ \E k \in Kind : \E rules \in Adds(k) \cup Drops(k) : HandSave(rules) \/ HandFinish(rules)
  \/ HandTruncate \/ ConsoleReads \/ ConsoleWrites

Spec == Init /\ [][Next]_vars

-----------------------------------------------------------------------------
(* Properties.                                                              *)

TypeOK ==
  /\ pc \in {"claimed", "loaded", "run", "final", "read", "moved", "ended"}
  /\ end \in {"none", "done", "failed", "partial", "stays"}
  /\ mem \in Rules /\ kept \subseteq Rule
  /\ armed \subseteq Kind /\ polling \in [Kind -> BOOLEAN]
  /\ clock \in 0..MaxWrites /\ mtime \in 0..clock
  /\ src \in [Kind -> [mod : 0..clock, cur : SUBSET Rule]]
  /\ disk \in [there : BOOLEAN, ok : BOOLEAN, rules : Rules]
  /\ editor \in {"idle", "torn"}
  /\ {console, recovery, final} \subseteq Rules \cup {NoRules}
  /\ {edited, sharp} \subseteq BOOLEAN /\ settled \in [Kind -> {"no", "stat", "yes"}]
  /\ steady \in Rules

\* ignore_source.go:11-14: an edit takes effect on the next blocking poll.  A
\* poll that began and ended after the last write left the source with what the
\* file says.  Does not hold of an edit made while the preflight runs.
EditNoticed ==
  \A k \in armed : (settled[k] = "yes" /\ Readable) => src[k].cur = disk.rules[k]

\* What holds of it: the next poll honours every edit made once both sources
\* exist, or before the load, that gave the file a newer time.
EditHonoured == sharp => EditNoticed

\* A rule that every whole version of the file has had is in force, through
\* half-written and missing files and writes that nobody noticed.
SteadyInForce == \A k \in armed : steady[k] \subseteq src[k].cur

\* Both: an edit is honoured by the next poll, and no reading of the file in the
\* middle of one costs a rule that was never taken away (ignore_source.go:25-28).
EditsCostNothing == EditHonoured /\ SteadyInForce

Carries(k) ==
  (recovery # NoRules /\ final # NoRules /\ ~edited) => recovery[k] = final[k]

\* The recovery manifest remembers every exclusion added while the operations
\* ran, so that the run resubmitted does not abort on the same sessions.
RecoveryCarriesIgnore == Carries("ignore")

\* engine.go says the same of the kill rules: "preferring the current on-disk
\* copy in processing (reflecting any mid-run TUI append)".
RecoveryCarriesKills == Carries("kill")

\* A manifest is in one directory: nothing is left in processing once it has
\* moved to done or failed.  Does not hold: a console edit that read it before
\* the move puts it back (edit.go:139).
InOnePlace ==
  (pc \in {"moved", "ended"} /\ end # "stays") => ~disk.there

=============================================================================
