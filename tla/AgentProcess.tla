----------------------------- MODULE AgentProcess -----------------------------
(***************************************************************************)
(* The life of the agent daemon (serve in src/session/agent.rs) and the    *)
(* commands that deal with it (src/commands/agent.rs): `start`, `stop` and *)
(* `status`.  They share a lock file, a PID file, a socket and a token     *)
(* file; daemons crash and leave their files behind, and the PID of a dead *)
(* one goes to a process that has nothing to do with it.                   *)
(***************************************************************************)
EXTENDS Integers, FiniteSets

CONSTANTS Pids,         \* process ids
          Cmds,         \* commands that may run at once
          None,         \* nobody, no file
          MaxTrouble    \* bound on crashes, other processes and commands

ASSUME PidsAssumption == None \notin Pids \cup Cmds /\ Pids \cap Cmds = {}
ASSUME MaxTroubleAssumption == MaxTrouble \in Nat

VARIABLES
    proc,      \* what runs under each PID: a daemon's stage, another process
    lock,      \* holder of the flock on agent.lock
    pidfile,   \* the PID in agent.pid, None if it is missing or empty
    sock,      \* the daemon that bound agent.sock
    token,     \* the daemon whose admin token agent.token holds
    cmd,       \* each command's locals
    struck,    \* history: `stop` has signalled an unrelated process
    trouble    \* disturbances so far (bound)

disk == <<pidfile, sock, token>>
vars == <<proc, lock, disk, cmd, struck, trouble>>

(* In the order a daemon goes through them; up to "bound" a SIGTERM kills. *)
Starting == {"spawned", "locked", "emptied", "recorded", "cleared", "bound"}
Stopping == {"stopping", "unlinked", "forgotten"}
Daemon == Starting \cup {"serving"} \cup Stopping

(* `stale`: the PID was read while the lock was held, but not by that PID. *)
Command == [does : {"start", "stop", "status"},
            at : {"idle", "probe", "free", "held", "spawn", "wait", "signal"},
            pid : Pids \cup {None}, stale : BOOLEAN]
Idle == [does |-> "status", at |-> "idle", pid |-> None, stale |-> FALSE]

(* The variables stay in their sets, whatever the steps.                   *)
TypeOK ==
    /\ proc \in [Pids -> Daemon \cup {"none", "other"}]
    /\ lock \in Pids \cup Cmds \cup {None}
    /\ pidfile \in Pids \cup {None}
    /\ sock \in Pids \cup {None} /\ token \in Pids \cup {None}
    /\ cmd \in [Cmds -> Command]
    /\ \A c \in Cmds : cmd[c].at \in {"wait", "signal"} => cmd[c].pid # None
    /\ struck \in BOOLEAN /\ trouble \in 0 .. MaxTrouble

Init ==
    /\ proc = [d \in Pids |-> "none"]
    /\ lock = None
    /\ pidfile = None /\ sock = None /\ token = None
    /\ cmd = [c \in Cmds |-> Idle]
    /\ struck = FALSE /\ trouble = 0

Trouble == trouble < MaxTrouble /\ trouble' = trouble + 1

-----------------------------------------------------------------------------
(* The daemon.                                                             *)

Becomes(d, stage) == proc' = [proc EXCEPT ![d] = stage]

(* Seeded fault: a PID file counts as a running agent.                     *)
AcquireRunLockByPid(d) ==
    /\ proc[d] = "spawned"
    /\ IF lock = None /\ pidfile = None THEN lock' = d /\ Becomes(d, "locked")
                                        ELSE Becomes(d, "none") /\ UNCHANGED lock
    /\ UNCHANGED <<disk, cmd, struck, trouble>>

(* The run lock is tried once; a process that does not get it exits.       *)
AcquireRunLock(d) ==
    /\ proc[d] = "spawned"
    /\ IF lock = None THEN lock' = d /\ Becomes(d, "locked")
                      ELSE Becomes(d, "none") /\ UNCHANGED lock
    /\ UNCHANGED <<disk, cmd, struck, trouble>>

(* write_private truncates the file, then writes it.                       *)
RecordPid(d) ==
    /\ \/ proc[d] = "locked" /\ Becomes(d, "emptied") /\ pidfile' = None
       \/ proc[d] = "emptied" /\ Becomes(d, "recorded") /\ pidfile' = d
    /\ UNCHANGED <<lock, sock, token, cmd, struck, trouble>>

(* The socket of a crashed run goes before the own one is bound.           *)
BindSocket(d) ==
    /\ \/ proc[d] = "recorded" /\ Becomes(d, "cleared") /\ sock' = None
       \/ proc[d] = "cleared" /\ Becomes(d, "bound") /\ sock' = d
    /\ UNCHANGED <<lock, pidfile, token, cmd, struck, trouble>>

Serve(d) ==
    /\ proc[d] = "bound"
    /\ Becomes(d, "serving")
    /\ token' = d
    /\ UNCHANGED <<lock, pidfile, sock, cmd, struck, trouble>>

(* Seeded fault: the lock is given up before the files are removed.        *)
ShutdownUnlocked(d) ==
    /\ \/ /\ proc[d] = "stopping" /\ Becomes(d, "unlinked")
          /\ lock' = None /\ UNCHANGED disk
       \/ /\ proc[d] = "unlinked" /\ Becomes(d, "forgotten")
          /\ sock' = None /\ pidfile' = None /\ UNCHANGED <<lock, token>>
       \/ /\ proc[d] = "forgotten" /\ Becomes(d, "none")
          /\ token' = None /\ UNCHANGED <<lock, pidfile, sock>>
    /\ UNCHANGED <<cmd, struck, trouble>>

(* The files go one by one, the lock with the process.                     *)
Shutdown(d) ==
    /\ \/ /\ proc[d] = "stopping" /\ Becomes(d, "unlinked")
          /\ sock' = None /\ UNCHANGED <<lock, pidfile, token>>
       \/ /\ proc[d] = "unlinked" /\ Becomes(d, "forgotten")
          /\ pidfile' = None /\ UNCHANGED <<lock, sock, token>>
       \/ /\ proc[d] = "forgotten" /\ Becomes(d, "none")
          /\ token' = None /\ lock' = None /\ UNCHANGED <<pidfile, sock>>
    /\ UNCHANGED <<cmd, struck, trouble>>

(* A process ends as it stands; the system drops its lock.                 *)
Dies(d) ==
    /\ Becomes(d, "none")
    /\ lock' = IF lock = d THEN None ELSE lock

(* Killed, or an error: a socket or listener that cannot be bound.         *)
Crash(d) ==
    /\ proc[d] \in Daemon
    /\ Trouble /\ Dies(d)
    /\ UNCHANGED <<disk, cmd, struck>>

(* A process that has nothing to do with the agent gets a dead one's PID.  *)
ReusePid(d) ==
    /\ proc[d] = "none"
    /\ Trouble /\ Becomes(d, "other")
    /\ UNCHANGED <<lock, disk, cmd, struck>>

OtherEnds(d) ==
    /\ proc[d] = "other" /\ Becomes(d, "none")
    /\ UNCHANGED <<lock, disk, cmd, struck, trouble>>

-----------------------------------------------------------------------------
(* The commands.                                                           *)

Goto(c, at) == cmd' = [cmd EXCEPT ![c].at = at]
Return(c) == cmd' = [cmd EXCEPT ![c] = Idle]

(* `start` alone is always possible.                                       *)
Invoke(c, does) ==
    /\ cmd[c].at = "idle"
    /\ cmd' = [cmd EXCEPT ![c] = [Idle EXCEPT !.does = does, !.at = "probe"]]
    /\ IF does = "start" /\ \A other \in Cmds : cmd[other].at = "idle"
       THEN UNCHANGED trouble ELSE Trouble
    /\ UNCHANGED <<proc, lock, disk, struck>>

(* Probing takes a free lock, if only for a moment.                        *)
RunLockHeld(c) ==
    /\ cmd[c].at = "probe"
    /\ IF lock = None
       THEN lock' = c /\ Goto(c, "free")
       ELSE Goto(c, "held") /\ UNCHANGED lock
    /\ UNCHANGED <<proc, disk, struck, trouble>>

NotRunning(c) ==
    /\ cmd[c].at = "free"
    /\ lock' = None
    /\ IF cmd[c].does = "start" THEN Goto(c, "spawn") ELSE Return(c)
    /\ UNCHANGED <<proc, disk, struck, trouble>>

Running(c) ==
    /\ cmd[c].at = "held" /\ cmd[c].does # "stop"
    /\ Return(c)
    /\ UNCHANGED <<proc, lock, disk, struck, trouble>>

ReadPid(c) ==
    /\ cmd[c].at = "held" /\ cmd[c].does = "stop"
    /\ IF pidfile = None THEN Return(c)
       ELSE cmd' = [cmd EXCEPT ![c].at = "signal", ![c].pid = pidfile,
                               ![c].stale = (lock \notin {None, pidfile})]
    /\ UNCHANGED <<proc, lock, disk, struck, trouble>>

(* SIGTERM to whoever has the PID now.  The handler is installed when the  *)
(* daemon waits for it; before that the signal kills.                      *)
Stop(c) ==
    /\ cmd[c].at = "signal"
    /\ LET d == cmd[c].pid
       IN /\ \/ proc[d] \in Starting /\ Dies(d)
             \/ proc[d] = "serving" /\ Becomes(d, "stopping") /\ UNCHANGED lock
             \/ proc[d] \in Stopping \cup {"none", "other"} /\ UNCHANGED <<proc, lock>>
          /\ struck' = (struck \/ (proc[d] = "other" /\ cmd[c].stale))
    /\ Return(c)
    /\ UNCHANGED <<disk, trouble>>

(* PIDs are handed out in turn: a new daemon's is not one still remembered.*)
Spawn(c) ==
    /\ cmd[c].at = "spawn"
    /\ \E d \in Pids \ ({pidfile} \cup {cmd[other].pid : other \in Cmds}) :
          /\ proc[d] = "none"
          /\ Becomes(d, "spawned")
          /\ cmd' = [cmd EXCEPT ![c].at = "wait", ![c].pid = d]
    /\ UNCHANGED <<lock, disk, struck, trouble>>

Ready(c) ==
    /\ cmd[c].at = "wait" /\ pidfile = cmd[c].pid
    /\ Return(c)
    /\ UNCHANGED <<proc, lock, disk, struck, trouble>>

(* Three seconds are over: the child is gone, or slow.                     *)
GiveUp(c) ==
    /\ cmd[c].at = "wait" /\ pidfile # cmd[c].pid
    /\ IF proc[cmd[c].pid] \in Daemon THEN Trouble ELSE UNCHANGED trouble
    /\ Return(c)
    /\ UNCHANGED <<proc, lock, disk, struck>>

DaemonStep(d) ==
    AcquireRunLock(d) \/ RecordPid(d) \/ BindSocket(d) \/ Serve(d) \/ Shutdown(d)

CommandStep(c) ==
    \/ RunLockHeld(c) \/ NotRunning(c) \/ Running(c) \/ ReadPid(c) \/ Stop(c)
    \/ Spawn(c) \/ Ready(c) \/ GiveUp(c)

Next ==
    \/ \E d \in Pids : DaemonStep(d) \/ Crash(d) \/ ReusePid(d) \/ OtherEnds(d)
    \/ \E c \in Cmds : CommandStep(c)
    \/ \E c \in Cmds, does \in {"start", "stop", "status"} : Invoke(c, does)

(* Processes go on unless they die, some PID is free again and again, and  *)
(* the user repeats `start`.                                               *)
Spec ==
    /\ Init /\ [][Next]_vars
    /\ \A d \in Pids : WF_vars(DaemonStep(d)) /\ WF_vars(OtherEnds(d))
    /\ \A c \in Cmds : WF_vars(CommandStep(c)) /\ WF_vars(Invoke(c, "start"))

-----------------------------------------------------------------------------

(* While a daemon serves, the socket is its own, and so are the PID and    *)
(* the token the commands find: no daemon that crashes, stops late or does *)
(* not get the lock takes them away.                                       *)
ServingIsReachable ==
    \A d \in Pids : proc[d] = "serving" => sock = d /\ pidfile = d /\ token = d

(* commands/agent.rs: `start` reports the daemon it spawned up, not the    *)
(* files of a crashed one: when it does, that daemon has the run lock (or  *)
(* is already gone again), so a `stop` that follows finds it.              *)
StartedHasLock ==
    [][\A c \in Cmds : Ready(c)
         => \/ lock = cmd[c].pid
            \/ proc[cmd[c].pid] \notin Daemon]_vars

(* A crashed agent never blocks the next start: whatever was killed and    *)
(* left behind, repeating `start` brings an agent up, and it stays.        *)
ComesUp == <>[](\E d \in Pids : proc[d] = "serving")

(* agent.rs:595-598: while the lock is held, the PID file was written by   *)
(* its holder, so that a recycled PID reads as no agent and never receives *)
(* a signal.                                                               *)
StopSparesOthers == ~struck
=============================================================================
