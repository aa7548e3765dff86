------------------------------- MODULE Daemon -------------------------------
(***************************************************************************)
(* The process tree of the server (server/Daemon.cpp).  The command        *)
(* "-k start" leaves a master behind that writes its pid to a file, forks  *)
(* the serving child and forks again when the child dies of a signal;      *)
(* "-k stop" reads the file and signals the master, whose handler signals  *)
(* the child; "-k restart" does both.                                      *)
(*                                                                         *)
(* Pids are given out in order and never again to this program; a stranger *)
(* may get the pid of a process that is gone.                              *)
(***************************************************************************)
EXTENDS Integers

CONSTANTS
  N,          \* bound of the pids this program ever gets
  Cmds,       \* commands a user runs, each once
  OpsOf,      \* what each command may be: "start", "stop", "restart"
  Waits,      \* commands that the user waits for before each command
  MaxFaults   \* bound of failing forks, crashes, kill -9 and reused pids

Pid == 1..N
Ops == {"start", "stop", "restart"}

ASSUME CountAssumption ==
  /\ N \in Nat /\ MaxFaults \in Nat
  /\ OpsOf \in [Cmds -> SUBSET Ops] /\ Waits \in [Cmds -> SUBSET Cmds]

VARIABLES
  st,        \* what each process is doing
  master,    \* of a child: the process that forked it, leader of its group
  childPid,  \* of a master: m_nChildPid
  forked,    \* of a master: what its last fork() returned
  shutdown,  \* of a child: m_bShutdown
  pending,   \* masters with a SIGTERM on its way
  file,      \* the pid file; 0: missing or empty
  op, cpc,   \* of a command: what it does and where it is
  target,    \* of a command: the pid it read
  reused,    \* pids that belong to strangers by now
  faults

tree == <<master, childPid, forked>>
cmds == <<op, cpc, target>>
vars == <<st, tree, shutdown, pending, file, cmds, reused, faults>>

Masters  == {"born", "write", "fork", "assign", "wait"}
Handling == {"init", "create", "listen", "serving"}  \* sigChildHandler is installed
Servers  == Handling \cup {"kid"}
Ends     == {"exited", "crashed", "killed"}          \* of a child: not reaped yet
States   == Masters \cup Servers \cup Ends \cup {"unborn", "reaped"}
Places   == {"ready", "start", "stop", "poll", "done", "failed", "killed"}

Init ==
  /\ st = [p \in Pid |-> "unborn"]
  /\ master = [p \in Pid |-> 0] /\ childPid = [p \in Pid |-> 0]
  /\ forked = [p \in Pid |-> 0] /\ shutdown = [p \in Pid |-> FALSE]
  /\ pending = {} /\ file = 0 /\ reused = {} /\ faults = 0
  /\ op \in [Cmds -> Ops] /\ \A c \in Cmds : op[c] \in OpsOf[c]
  /\ cpc = [c \in Cmds |-> "ready"] /\ target = [c \in Cmds |-> 0]

\* The pid that the next fork returns.
IsFresh(p) == st[p] = "unborn" /\ \A q \in 1..(p - 1) : st[q] # "unborn"

\* kill(p, 0) == 0; init reaps a master at once.
Alive(p) == p \in Pid /\ (st[p] \in Masters \/ p \in reused)

Fault == faults < MaxFaults /\ faults' = faults + 1

Becomes(p, s) == st' = [st EXCEPT ![p] = s]

-----------------------------------------------------------------------------
(* The commands.                                                           *)

Over(c) == cpc[c] \in {"done", "failed", "killed"}

\* run; start and stop both read the pid file first.
Begin(c) ==
  /\ cpc[c] = "ready"
  /\ \A d \in Waits[c] : Over(d)
  /\ cpc' = [cpc EXCEPT ![c] = IF op[c] = "start" THEN "start" ELSE "stop"]
  /\ target' = [target EXCEPT ![c] = file]
  /\ UNCHANGED <<st, tree, shutdown, pending, file, op, reused, faults>>

StartRefused(c) ==
  /\ cpc[c] = "start" /\ Alive(target[c])
  /\ cpc' = [cpc EXCEPT ![c] = "done"]
  /\ UNCHANGED <<st, tree, shutdown, pending, file, op, target, reused, faults>>

\* initAsDaemon: the command is over when the master is born, not when it
\* serves.  When this fork fails the command itself goes on as the master.
StartMaster(c) ==
  /\ cpc[c] = "start" /\ ~Alive(target[c])
  /\ \E m \in Pid : IsFresh(m) /\ Becomes(m, "born")
  /\ cpc' = [cpc EXCEPT ![c] = "done"]
  /\ UNCHANGED <<tree, shutdown, pending, file, op, target, reused, faults>>

\* stop returns true: restart goes on with start, which reads the file again.
Stopped(c) ==
  /\ cpc' = [cpc EXCEPT ![c] = IF op[c] = "restart" THEN "start" ELSE "done"]
  /\ target' = [target EXCEPT ![c] = file]
  /\ UNCHANGED <<st, tree, shutdown, pending, file, op, reused, faults>>

StopNobody(c) == cpc[c] = "stop" /\ ~Alive(target[c]) /\ Stopped(c)

\* One SIGTERM, to the master or to a stranger, who may die of it.
StopSignal(c) ==
  /\ cpc[c] = "stop" /\ Alive(target[c])
  /\ cpc' = [cpc EXCEPT ![c] = "poll"]
  /\ \/ /\ target[c] \in reused
        /\ reused' \in {reused, reused \ {target[c]}}
        /\ UNCHANGED pending
     \/ /\ target[c] \notin reused
        /\ pending' = pending \cup {target[c]}
        /\ UNCHANGED reused
  /\ UNCHANGED <<st, tree, shutdown, file, op, target, faults>>

StopPolled(c) == cpc[c] = "poll" /\ ~Alive(target[c]) /\ Stopped(c)

\* The 200 seconds may end before the server has.
StopTimesOut(c) ==
  /\ cpc[c] = "poll" /\ Alive(target[c])
  /\ cpc' = [cpc EXCEPT ![c] = "failed"]
  /\ UNCHANGED <<st, tree, shutdown, pending, file, op, target, reused, faults>>

-----------------------------------------------------------------------------
(* The master.                                                             *)

\* fopen(..., "w") empties the file, or fails and leaves it.
OpenFile(m) ==
  /\ st[m] = "born"
  /\ \/ file' = 0 /\ Becomes(m, "write")
     \/ file' = file /\ Becomes(m, "fork")
  /\ UNCHANGED <<tree, shutdown, pending, cmds, reused, faults>>

WriteFile(m) ==
  /\ st[m] = "write" /\ Becomes(m, "fork")
  /\ file' = m
  /\ UNCHANGED <<tree, shutdown, pending, cmds, reused, faults>>

Fork(m) ==
  /\ st[m] = "fork"
  /\ \E p \in Pid :
       /\ IsFresh(p)
       /\ st' = [st EXCEPT ![m] = "assign", ![p] = "kid"]
       /\ master' = [master EXCEPT ![p] = m]
       /\ forked' = [forked EXCEPT ![m] = p]
  /\ UNCHANGED <<childPid, shutdown, pending, file, cmds, reused, faults>>

ForkFails(m) ==
  /\ st[m] = "fork" /\ Becomes(m, "assign")
  /\ forked' = [forked EXCEPT ![m] = -1]
  /\ Fault
  /\ UNCHANGED <<master, childPid, shutdown, pending, file, cmds, reused>>

Assign(m) ==
  /\ st[m] = "assign" /\ Becomes(m, "wait")
  /\ childPid' = [childPid EXCEPT ![m] = forked[m]]
  /\ UNCHANGED <<master, forked, shutdown, pending, file, cmds, reused, faults>>

\* isAbnormalExit: the child died of a signal other than SIGKILL.
NeverAbnormal(p) == FALSE
IsAbnormalExit(p) == st[p] = "crashed"

\* wait returned: the master forks again, or its main returns.
Wait(m) ==
  LET p == forked[m]
  IN  /\ st[m] = "wait" /\ p \in Pid /\ st[p] \in Ends
      /\ st' = [st EXCEPT ![p] = "reaped",
                          ![m] = IF IsAbnormalExit(p) THEN "fork" ELSE "exited"]
      /\ UNCHANGED <<tree, shutdown, pending, file, cmds, reused, faults>>

\* After a failed fork there is no child to wait for, and status is not set.
WaitNobody(m) ==
  /\ st[m] = "wait" /\ forked[m] = -1
  /\ Becomes(m, "fork") \/ Becomes(m, "exited")
  /\ UNCHANGED <<tree, shutdown, pending, file, cmds, reused, faults>>

-----------------------------------------------------------------------------
(* The signals.                                                            *)

\* Who gets kill(m_nChildPid, SIGUSR1): the group of m when no child was ever
\* assigned, everybody else after a failed fork.
OnlyItself(m) == IF childPid[m] = 0 THEN {m} ELSE {childPid[m]}
KillTargets(m) ==
  CASE childPid[m] = 0  -> {p \in Pid : p = m \/ master[p] = m}
    [] childPid[m] = -1 -> Pid \ {m}
    [] OTHER            -> {childPid[m]}

\* sigMasterHandler, and sigChildHandler of a child that has installed it,
\* which sets the flag that ends runServer; SIGUSR1 kills any other process.
SigMaster(m) ==
  /\ m \in pending /\ st[m] \in Masters
  /\ pending' = pending \ {m}
  /\ LET to == KillTargets(m)
     IN  /\ st' = [p \in Pid |-> IF p \in to /\ st[p] \in Masters \cup {"kid"}
                                 THEN "crashed" ELSE st[p]]
         /\ shutdown' = [p \in Pid |-> \/ shutdown[p]
                                       \/ p \in to /\ st[p] \in Handling]
         /\ \E hit \in SUBSET (reused \cap to) : reused' = reused \ hit
  /\ cpc' = [c \in Cmds |-> IF childPid[m] = -1 /\ cpc[c] \in {"start", "stop", "poll"}
                            THEN "killed" ELSE cpc[c]]
  /\ UNCHANGED <<tree, file, op, target, faults>>

-----------------------------------------------------------------------------
(* The child.                                                              *)

InstallHandlers(p) ==
  /\ st[p] = "kid" /\ Becomes(p, "init")
  /\ UNCHANGED <<tree, shutdown, pending, file, cmds, reused, faults>>

\* initServer up to createServer; options may be missing.
FlagCleared == [p \in Pid |-> shutdown[p] /\ st[p] # "init"]
FlagKept == shutdown
InitServer(p) ==
  /\ st[p] = "init"
  /\ Becomes(p, "create") \/ Becomes(p, "exited")
  /\ shutdown' = FlagKept
  /\ UNCHANGED <<tree, pending, file, cmds, reused, faults>>

\* Another server takes connections on the port, whose socket is not closed.
NeverTaken(p) == FALSE
PortTaken(p) == \E q \in Pid \ {p} : st[q] = "serving" /\ ~shutdown[q]

\* createServer: the configuration, the host name cache, BindToLocalHost.
CreateServer(p) ==
  /\ st[p] = "create"
  /\ \/ ~PortTaken(p) /\ Becomes(p, "listen")
     \/ Becomes(p, "exited")
  /\ UNCHANGED <<tree, shutdown, pending, file, cmds, reused, faults>>

\* listen: it fails when another server was first, may fail while one that is
\* shut down has not closed its socket yet, and fails when a handler that ran
\* after bind has closed this one.
Listen(p) ==
  /\ st[p] = "listen"
  /\ \/ ~PortTaken(p) /\ Becomes(p, "serving")
     \/ /\ shutdown[p] \/ \E q \in Pid \ {p} : st[q] = "serving"
        /\ Becomes(p, "exited")
  /\ UNCHANGED <<tree, shutdown, pending, file, cmds, reused, faults>>

\* runServer saw the flag, all threads are joined, exit(0).  That it comes to
\* this is Server!ShutdownEnds, for clients and targets that end what they send.
Leave(p) ==
  /\ st[p] = "serving" /\ shutdown[p] /\ Becomes(p, "exited")
  /\ UNCHANGED <<tree, shutdown, pending, file, cmds, reused, faults>>

-----------------------------------------------------------------------------
(* What happens to processes.                                              *)

\* A child dies of a signal, kill -9 among them.
ChildDies(p) ==
  /\ st[p] \in Servers /\ Fault
  /\ Becomes(p, "crashed") \/ Becomes(p, "killed")
  /\ UNCHANGED <<tree, shutdown, pending, file, cmds, reused>>

MasterKilled(m) ==
  /\ st[m] \in Masters /\ Fault
  /\ Becomes(m, "killed")
  /\ UNCHANGED <<tree, shutdown, pending, file, cmds, reused>>

\* A process of somebody else gets the pid of one that is gone.
Reuse(p) ==
  /\ \/ st[p] = "reaped"
     \/ st[p] \in Ends /\ master[p] \in {0} \cup {m \in Pid : st[m] \in Ends}
  /\ p \notin reused /\ Fault
  /\ reused' = reused \cup {p}
  /\ UNCHANGED <<st, tree, shutdown, pending, file, cmds>>

-----------------------------------------------------------------------------
CmdStep(c) ==
  \/ StartRefused(c) \/ StartMaster(c)
  \/ StopNobody(c) \/ StopSignal(c) \/ StopPolled(c) \/ StopTimesOut(c)

MasterStep(m) ==
  OpenFile(m) \/ WriteFile(m) \/ Fork(m) \/ Assign(m) \/ Wait(m) \/ WaitNobody(m)

ServerStep(p) ==
  InstallHandlers(p) \/ InitServer(p) \/ CreateServer(p) \/ Listen(p) \/ Leave(p)

Next ==
  \/ \E c \in Cmds : Begin(c) \/ CmdStep(c)
  \/ \E p \in Pid : \/ MasterStep(p) \/ SigMaster(p) \/ ServerStep(p)
                    \/ ForkFails(p) \/ ChildDies(p) \/ MasterKilled(p) \/ Reuse(p)

Spec == Init /\ [][Next]_vars

FairSpec ==
  /\ Spec
  /\ \A c \in Cmds : WF_vars(CmdStep(c))
  /\ \A p \in Pid : WF_vars(MasterStep(p)) /\ WF_vars(SigMaster(p)) /\ WF_vars(ServerStep(p))

-----------------------------------------------------------------------------
TypeOK ==
  /\ st \in [Pid -> States] /\ master \in [Pid -> Pid \cup {0}]
  /\ childPid \in [Pid -> Pid \cup {0, -1}] /\ forked \in [Pid -> Pid \cup {0, -1}]
  /\ shutdown \in [Pid -> BOOLEAN]
  /\ pending \subseteq Pid /\ file \in Pid \cup {0} /\ reused \subseteq Pid
  /\ op \in [Cmds -> Ops] /\ cpc \in [Cmds -> Places] /\ target \in [Cmds -> Pid \cup {0}]
  /\ faults \in 0..MaxFaults

\* A child that will go on serving has a master that waits for it, so that a
\* stop can reach it and its death is seen, unless the master was killed with
\* SIGKILL: no SIGUSR1, at whatever moment and to whomever it goes, ends the
\* master of a child it does not end.
ServerHasMaster ==
  \A p \in Pid : st[p] \in Servers /\ ~shutdown[p] =>
    LET m == master[p]
    IN  m \in Pid /\ (st[m] = "killed" \/ (st[m] \in {"assign", "wait"} /\ forked[m] = p))

\* A server told to shut down takes its master with it, however early it was
\* told: it is not forked again, unless it dies of a signal before it is done.
MasterOver(p) == \E m \in Pid : m = master[p] /\ st[m] \in Ends
ShutdownTakesMaster ==
  \A p \in Pid : shutdown[p] /\ st[p] \in Handling ~> st[p] = "crashed" \/ MasterOver(p)

\* Daemon.cpp:72: "when son dies, father restart it": after a crash of its child
\* a master comes to have one again that serves, or that ended of itself or by
\* SIGKILL, unless the father is killed too or its fork fails.
LostChild(m) == st[m] = "wait" /\ \E p \in Pid : forked[m] = p /\ st[p] = "crashed"
CrashRestarted ==
  \A m \in Pid : LostChild(m) ~>
    \/ \E p \in Pid : master[p] = m /\ st[p] \in {"serving", "exited", "killed"}
    \/ st[m] \in {"crashed", "killed"} \/ forked[m] = -1

\* Two starts at once may both miss the pid file, and a master may be started
\* beside an orphan; only one of them gets the port, and the masters of the
\* others end, since the children they wait for exit.
OneMasterRemains ==
  <>[](\A l, m \in Pid : st[l] \in Masters /\ st[m] \in Masters => l = m)

\* readme:37: "stop" is to stop.  When the last command was a stop and is
\* over, whatever it reported, sooner or later nothing serves any more.
StopStops ==
  \A c \in Cmds : op[c] = "stop" /\ Waits[c] = Cmds \ {c} /\ Over(c)
                    ~> \A p \in Pid : st[p] \notin Servers
=============================================================================
