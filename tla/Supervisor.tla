------------------------------ MODULE Supervisor -------------------------------
(***************************************************************************)
(* The development supervisor of the ingest server.  Puma's thread starts  *)
(* and stops it; a monitor thread per child waits for the child's end and  *)
(* starts another.  A child is a process group: a leader, which may wrap   *)
(* the server as `cargo run` does.  The child's stdin is its lifeline.     *)
(***************************************************************************)
EXTENDS Naturals

CONSTANTS
  Wrapped,         \* whether the leader is a process of its own
  RESPAWN_LIMIT,
  MaxSpawns, MaxStarts, MaxFaults     \* bounds

ASSUME SupervisorAssumption ==
  /\ Wrapped \in BOOLEAN
  /\ {RESPAWN_LIMIT, MaxSpawns, MaxStarts, MaxFaults} \subseteq Nat

VARIABLES
  puma,       \* whether the owner is alive
  call,       \* what its thread is doing: "idle", or a stage of stop
  started, stopping, child, attempts,   \* the supervisor's fields, under its mutex
  lifelines,  \* the children whose pipe has its writing end open
  monitor,    \* per child: "none", "waiting", "exited", "respawning", "done" or "failed"
  leader,     \* per child: "none", "running" or "gone"
  server,     \* per child: "none", "booting", "serving", "draining" or "gone"
  orphaned,   \* the children that found their lifeline closed
  spawned, starts, faults    \* counted for the bounds

callerVars == <<puma, call, started, stopping, starts>>
processVars == <<leader, server, orphaned>>
supervisorVars == <<callerVars, processVars, child, attempts, lifelines, monitor, spawned, faults>>

Children == 1 .. MaxSpawns
NoChild == 0

SupervisorInit ==
  /\ puma = TRUE /\ call = "idle"
  /\ started = FALSE /\ stopping = FALSE /\ child = NoChild /\ attempts = 0
  /\ lifelines = {} /\ orphaned = {}
  /\ monitor = [g \in Children |-> "none"]
  /\ leader = [g \in Children |-> "none"]
  /\ server = [g \in Children |-> "none"]
  /\ spawned = 0 /\ starts = 0 /\ faults = 0

Fault == faults < MaxFaults /\ faults' = faults + 1

-----------------------------------------------------------------------------
(* Spawning, under the mutex.                                              *)

\* Mutant: the last child's pipe is left to the garbage collector.
LifelinesKept(g) == lifelines \union {g}

\* The last child's pipe is closed; the new child does not inherit its own.
Lifelines(g) == {g}

Spawn ==
  LET g == spawned + 1
  IN /\ spawned < MaxSpawns
     /\ spawned' = g /\ child' = g
     /\ lifelines' = Lifelines(g)
     /\ monitor' = [monitor EXCEPT ![g] = "waiting"]
     /\ leader' = [leader EXCEPT ![g] = "running"]
     /\ server' = [server EXCEPT ![g] = "booting"]
     /\ UNCHANGED orphaned

-----------------------------------------------------------------------------
(* Puma's thread.                                                          *)

StartSupervisor ==
  /\ puma /\ call = "idle" /\ ~started /\ starts < MaxStarts
  /\ starts' = starts + 1
  /\ stopping' = FALSE /\ attempts' = 0 /\ started' = TRUE
  /\ Spawn
  /\ UNCHANGED <<puma, call, faults>>

\* The environment or the executable is wrong; the rescue finds nothing to stop.
StartSupervisorFails ==
  /\ puma /\ call = "idle" /\ ~started /\ child = NoChild /\ starts < MaxStarts
  /\ starts' = starts + 1
  /\ stopping' = FALSE /\ attempts' = 0
  /\ UNCHANGED <<puma, call, started, child, lifelines, monitor, processVars, spawned, faults>>

StopBegins ==
  /\ puma /\ call = "idle" /\ ~stopping /\ (started \/ child # NoChild)
  /\ stopping' = TRUE /\ call' = "terminating"
  /\ UNCHANGED <<puma, started, starts, child, attempts, lifelines, monitor, processVars,
                 spawned, faults>>

\* TERM to the group: a server that boots has no handler yet, and a wrapper
\* may end at once or wait for its server.
Terminate ==
  LET g == child
      end == CASE server[g] = "booting" -> "gone"
               [] server[g] = "serving" -> "draining"
               [] OTHER -> server[g]
  IN /\ call = "terminating"
     /\ server' = [server EXCEPT ![g] = end]
     /\ \/ leader' = [leader EXCEPT ![g] = "gone"] /\ (Wrapped \/ end = "gone")
        \/ UNCHANGED leader /\ (Wrapped \/ end # "gone")
     /\ call' = "settling"
     /\ UNCHANGED <<puma, started, stopping, starts, orphaned, child, attempts, lifelines,
                    monitor, spawned, faults>>

GroupAlive(g) == leader[g] = "running" \/ server[g] \in {"booting", "serving", "draining"}

Over(state) == state \in {"none", "done", "failed"}

\* Mutant: only the processes are waited for.
ProcessesSettled(g) == ~GroupAlive(g)

Settled(g) == Over(monitor[g]) /\ ~GroupAlive(g)

\* After SHUTDOWN_TIMEOUT whatever is left of the group is killed.
Kill ==
  /\ call = "settling" /\ GroupAlive(child)
  /\ leader' = [leader EXCEPT ![child] = "gone"]
  /\ server' = [server EXCEPT ![child] = "gone"]
  /\ UNCHANGED <<callerVars, orphaned, child, attempts, lifelines, monitor, spawned, faults>>

StopEnds ==
  /\ call = "settling" /\ Settled(child)
  /\ child' = NoChild /\ lifelines' = lifelines \ {child} /\ started' = FALSE /\ call' = "idle"
  /\ UNCHANGED <<puma, stopping, starts, attempts, monitor, processVars, spawned, faults>>

\* Puma ends, by SIGKILL perhaps: its threads and its ends of the pipes are gone.
PumaDies ==
  /\ puma
  /\ puma' = FALSE /\ call' = "idle" /\ started' = FALSE
  /\ lifelines' = {} /\ monitor' = [g \in Children |-> "done"]
  /\ UNCHANGED <<stopping, starts, processVars, child, attempts, spawned, faults>>

-----------------------------------------------------------------------------
(* A child's monitor.                                                      *)

\* wait2 returns.
Reap(g) ==
  /\ monitor[g] = "waiting" /\ leader[g] = "gone"
  /\ monitor' = [monitor EXCEPT ![g] = "exited"]
  /\ UNCHANGED <<callerVars, processVars, child, attempts, lifelines, spawned, faults>>

LookWhetherStopping(g) ==
  /\ monitor[g] = "exited"
  /\ monitor' = [monitor EXCEPT ![g] = IF stopping THEN "done" ELSE "respawning"]
  /\ UNCHANGED <<callerVars, processVars, child, attempts, lifelines, spawned, faults>>

\* Mutant: one attempt too few.
MayTryBefore(tried) == tried + 1 < RESPAWN_LIMIT

MayTry(tried) == tried < RESPAWN_LIMIT

\* A child that lived for RESPAWN_RESET_AFTER clears the count.
Respawn(g, tried) ==
  /\ monitor[g] = "respawning" /\ ~stopping
  /\ tried \in {0, attempts} /\ MayTry(tried)
  /\ attempts' = tried + 1
  /\ spawned < MaxSpawns
  /\ spawned' = spawned + 1 /\ child' = spawned + 1
  /\ lifelines' = Lifelines(spawned + 1)
  /\ monitor' = [monitor EXCEPT ![g] = "done", ![spawned + 1] = "waiting"]
  /\ leader' = [leader EXCEPT ![spawned + 1] = "running"]
  /\ server' = [server EXCEPT ![spawned + 1] = "booting"]
  /\ UNCHANGED <<callerVars, orphaned, faults>>

\* The executable is gone: the last pipe was closed for nothing.
RespawnFails(g) ==
  /\ monitor[g] = "respawning" /\ ~stopping /\ MayTry(attempts) /\ Fault
  /\ attempts' = attempts + 1
  /\ lifelines' = {}
  /\ monitor' = [monitor EXCEPT ![g] = "failed"]
  /\ UNCHANGED <<callerVars, processVars, child, spawned>>

\* stop was called meanwhile, or the child died too often.
RespawnNoMore(g) ==
  /\ monitor[g] = "respawning"
  /\ stopping \/ ~MayTry(attempts)
  /\ monitor' = [monitor EXCEPT ![g] = "done"]
  /\ UNCHANGED <<callerVars, processVars, child, attempts, lifelines, spawned, faults>>

-----------------------------------------------------------------------------
(* The processes.                                                          *)

Listening(g) == server[g] = "serving"

\* Unwrapped, the leader is the server.
ServerEnds(g) ==
  /\ server' = [server EXCEPT ![g] = "gone"]
  /\ leader' = IF Wrapped THEN leader ELSE [leader EXCEPT ![g] = "gone"]

ProcessesOnly == UNCHANGED <<callerVars, child, attempts, lifelines, monitor, spawned>>

\* The server binds its port, which only one can have.
Bind(g) ==
  /\ server[g] = "booting" /\ ~\E other \in Children : Listening(other)
  /\ server' = [server EXCEPT ![g] = "serving"]
  /\ UNCHANGED <<leader, orphaned, faults>> /\ ProcessesOnly

BindFails(g) ==
  /\ server[g] = "booting" /\ \E other \in Children : Listening(other)
  /\ ServerEnds(g)
  /\ UNCHANGED <<orphaned, faults>> /\ ProcessesOnly

\* The server cannot start, or dies.
ServerDies(g) ==
  /\ server[g] \in {"booting", "serving", "draining"} /\ Fault
  /\ ServerEnds(g)
  /\ UNCHANGED orphaned /\ ProcessesOnly

\* EOF on stdin: the port is freed, and a hard exit is set.
LifelineCloses(g) ==
  /\ server[g] = "serving" /\ g \notin lifelines
  /\ server' = [server EXCEPT ![g] = "draining"]
  /\ orphaned' = orphaned \union {g}
  /\ UNCHANGED <<leader, faults>> /\ ProcessesOnly

\* Every connection has ended,
Drain(g) ==
  /\ server[g] = "draining"
  /\ ServerEnds(g)
  /\ UNCHANGED <<orphaned, faults>> /\ ProcessesOnly

\* or ORPHAN_HARD_EXIT_TIMEOUT has passed.
HardExit(g) ==
  /\ server[g] = "draining" /\ g \in orphaned
  /\ ServerEnds(g)
  /\ UNCHANGED <<orphaned, faults>> /\ ProcessesOnly

\* A wrapper ends with its server, or dies before it.
LeaderEnds(g) ==
  /\ leader[g] = "running" /\ server[g] = "gone"
  /\ leader' = [leader EXCEPT ![g] = "gone"]
  /\ UNCHANGED <<server, orphaned, faults>> /\ ProcessesOnly

LeaderDies(g) ==
  /\ Wrapped /\ leader[g] = "running" /\ server[g] # "gone" /\ Fault
  /\ leader' = [leader EXCEPT ![g] = "gone"]
  /\ UNCHANGED <<server, orphaned>> /\ ProcessesOnly

Processes(g) ==
  \/ Bind(g) \/ BindFails(g) \/ LifelineCloses(g) \/ HardExit(g) \/ LeaderEnds(g)

Monitors(g) ==
  \/ Reap(g) \/ LookWhetherStopping(g) \/ RespawnNoMore(g)
  \/ \E tried \in 0 .. RESPAWN_LIMIT : Respawn(g, tried)

Stops == Terminate \/ Kill \/ StopEnds

SupervisorNext ==
  \/ StartSupervisor \/ StartSupervisorFails \/ StopBegins \/ Stops \/ PumaDies
  \/ \E g \in Children :
       Processes(g) \/ Monitors(g) \/ ServerDies(g) \/ Drain(g) \/ LeaderDies(g)
       \/ RespawnFails(g)

SupervisorSpec == SupervisorInit /\ [][SupervisorNext]_supervisorVars

-----------------------------------------------------------------------------
(* Properties.                                                             *)

\* Once stop has returned, nothing is left that could start another server:
\* no monitor that has yet to learn of it, no child that holds a lifeline.
NoneForgotten ==
  puma /\ call = "idle" /\ ~started =>
    lifelines = {} /\ \A g \in Children : Over(monitor[g])

\* "When the supervisor dies, even by SIGKILL, the pipe closes and the server
\* frees its port" (main.rs); so does a stop, for every child ever started.
PortIsFreed == []<>(started \/ ~\E g \in Children : Listening(g))

\* A started supervisor has a server up again, unless it could not start one or
\* has tried too often.
ServesAgain ==
  []<>(\/ ~started \/ call # "idle" \/ attempts = RESPAWN_LIMIT \/ spawned = MaxSpawns
       \/ child # NoChild /\ monitor[child] = "failed"
       \/ \E g \in Children : Listening(g))

=============================================================================
