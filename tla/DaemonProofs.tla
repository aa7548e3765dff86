---------------------------- MODULE DaemonProofs ----------------------------
(***************************************************************************)
(* Proofs about Daemon for any number of processes, commands and faults:   *)
(* types, and that no serving child loses its master but by SIGKILL.       *)
(***************************************************************************)
EXTENDS Daemon, TLAPS

\* What a master and what a child may be doing.
AsMaster(s) == s \in Masters \cup Ends
AsChild(s)  == s \in Servers \cup Ends \cup {"reaped"}

\* A process is a master or a child for good, and what a master holds as the
\* pid of a child is one.
Kinds ==
  \A p \in Pid :
    /\ master[p] = 0 => AsMaster(st[p]) \/ st[p] = "unborn"
    /\ master[p] # 0 => /\ AsChild(st[p])
                        /\ master[master[p]] = 0 /\ st[master[p]] # "unborn"
    /\ childPid[p] \in Pid => master[childPid[p]] # 0
    /\ forked[p] \in Pid => master[forked[p]] = p

IInv == TypeOK /\ Kinds /\ ServerHasMaster

\* Nothing runs yet.
LEMMA InitInv == Init => IInv
BY CountAssumption
DEF Init, IInv, TypeOK, Kinds, ServerHasMaster, AsMaster, AsChild,
    Pid, States, Places, Ops, Masters, Handling, Servers, Ends

\* No pid is 0 or -1.
LEMMA PidPositive == 0 \notin Pid /\ -1 \notin Pid
BY DEF Pid

\* Every step keeps the types.
LEMMA TypeStep == IInv /\ [Next]_vars => TypeOK'
<1> SUFFICES ASSUME TypeOK, [Next]_vars PROVE TypeOK'
  BY DEF IInv
<1> USE DEF TypeOK, tree, cmds, Becomes
<1>1. ASSUME NEW c \in Cmds, Begin(c) PROVE TypeOK'
  <2>1. cpc' \in [Cmds -> Places]
    BY <1>1 DEF Begin, Places
  <2>2. target' \in [Cmds -> Pid \cup {0}] /\ pending' \subseteq Pid /\ reused' \subseteq Pid
    BY <1>1 DEF Begin
  <2>3. UNCHANGED <<st, tree, shutdown, file, op, faults>>
    BY <1>1 DEF Begin
  <2> QED
    BY <2>1, <2>2, <2>3
<1>2. ASSUME NEW c \in Cmds, StartRefused(c) PROVE TypeOK'
  BY <1>2 DEF StartRefused, Places, States, Masters
<1>3. ASSUME NEW c \in Cmds, StartMaster(c) PROVE TypeOK'
  BY <1>3 DEF StartMaster, Places, States, Masters, IsFresh
<1>4. ASSUME NEW c \in Cmds, StopNobody(c) PROVE TypeOK'
  <2>1. cpc' \in [Cmds -> Places]
    BY <1>4 DEF StopNobody, Places, Stopped
  <2>2. target' \in [Cmds -> Pid \cup {0}] /\ pending' \subseteq Pid /\ reused' \subseteq Pid
    BY <1>4 DEF StopNobody, Stopped
  <2>3. UNCHANGED <<st, tree, shutdown, file, op, faults>>
    BY <1>4 DEF StopNobody, Stopped
  <2> QED
    BY <2>1, <2>2, <2>3
<1>5. ASSUME NEW c \in Cmds, StopSignal(c) PROVE TypeOK'
  <2>1. cpc' \in [Cmds -> Places]
    BY <1>5 DEF StopSignal, Places
  <2>2. target' \in [Cmds -> Pid \cup {0}] /\ pending' \subseteq Pid /\ reused' \subseteq Pid
    BY <1>5 DEF StopSignal, Alive
  <2>3. UNCHANGED <<st, tree, shutdown, file, op, faults>>
    BY <1>5 DEF StopSignal
  <2> QED
    BY <2>1, <2>2, <2>3
<1>6. ASSUME NEW c \in Cmds, StopPolled(c) PROVE TypeOK'
  <2>1. cpc' \in [Cmds -> Places]
    BY <1>6 DEF StopPolled, Places, Stopped
  <2>2. target' \in [Cmds -> Pid \cup {0}] /\ pending' \subseteq Pid /\ reused' \subseteq Pid
    BY <1>6 DEF StopPolled, Stopped
  <2>3. UNCHANGED <<st, tree, shutdown, file, op, faults>>
    BY <1>6 DEF StopPolled, Stopped
  <2> QED
    BY <2>1, <2>2, <2>3
<1>7. ASSUME NEW c \in Cmds, StopTimesOut(c) PROVE TypeOK'
  BY <1>7 DEF StopTimesOut, Places, States, Masters
<1>8. ASSUME NEW x \in Pid, OpenFile(x) PROVE TypeOK'
  <2>1. st' \in [Pid -> States]
    BY <1>8 DEF OpenFile, States, Masters, Handling, Servers, Ends
  <2> QED
    BY <1>8, <2>1 DEF OpenFile
<1>9. ASSUME NEW x \in Pid, WriteFile(x) PROVE TypeOK'
  <2>1. st' \in [Pid -> States]
    BY <1>9 DEF WriteFile, States, Masters, Handling, Servers, Ends
  <2> QED
    BY <1>9, <2>1 DEF WriteFile
<1>10. ASSUME NEW x \in Pid, Fork(x) PROVE TypeOK'
  <2>1. st' \in [Pid -> States]
    BY <1>10 DEF Fork, States, Masters, Handling, Servers, Ends, IsFresh
  <2> QED
    BY <1>10, <2>1 DEF Fork
<1>11. ASSUME NEW x \in Pid, ForkFails(x) PROVE TypeOK'
  <2>1. st' \in [Pid -> States]
    BY <1>11 DEF ForkFails, States, Masters, Handling, Servers, Ends
  <2>2. faults' \in 0..MaxFaults
    BY <1>11, CountAssumption DEF ForkFails, Fault
  <2> QED
    BY <1>11, <2>1, <2>2 DEF ForkFails
<1>12. ASSUME NEW x \in Pid, Assign(x) PROVE TypeOK'
  <2>1. st' \in [Pid -> States]
    BY <1>12 DEF Assign, States, Masters, Handling, Servers, Ends
  <2> QED
    BY <1>12, <2>1 DEF Assign
<1>13. ASSUME NEW x \in Pid, Wait(x) PROVE TypeOK'
  <2>1. st' \in [Pid -> States]
    BY <1>13 DEF Wait, States, Masters, Handling, Servers, Ends
  <2> QED
    BY <1>13, <2>1 DEF Wait
<1>14. ASSUME NEW x \in Pid, WaitNobody(x) PROVE TypeOK'
  <2>1. st' \in [Pid -> States]
    BY <1>14 DEF WaitNobody, States, Masters, Handling, Servers, Ends
  <2> QED
    BY <1>14, <2>1 DEF WaitNobody
<1>15. ASSUME NEW x \in Pid, SigMaster(x) PROVE TypeOK'
  <2>1. st' \in [Pid -> States]
    BY <1>15 DEF SigMaster, States, Ends
  <2>2. cpc' \in [Cmds -> Places]
    BY <1>15 DEF SigMaster, Places
  <2> QED
    BY <1>15, <2>1, <2>2 DEF SigMaster
<1>16. ASSUME NEW x \in Pid, InstallHandlers(x) PROVE TypeOK'
  <2>1. st' \in [Pid -> States]
    BY <1>16 DEF InstallHandlers, States, Masters, Handling, Servers, Ends
  <2> QED
    BY <1>16, <2>1 DEF InstallHandlers
<1>17. ASSUME NEW x \in Pid, InitServer(x) PROVE TypeOK'
  <2>1. st' \in [Pid -> States]
    BY <1>17 DEF InitServer, States, Masters, Handling, Servers, Ends
  <2> QED
    BY <1>17, <2>1 DEF InitServer, FlagKept
<1>18. ASSUME NEW x \in Pid, CreateServer(x) PROVE TypeOK'
  <2>1. st' \in [Pid -> States]
    BY <1>18 DEF CreateServer, States, Masters, Handling, Servers, Ends
  <2> QED
    BY <1>18, <2>1 DEF CreateServer
<1>19. ASSUME NEW x \in Pid, Listen(x) PROVE TypeOK'
  <2>1. st' \in [Pid -> States]
    BY <1>19 DEF Listen, States, Masters, Handling, Servers, Ends
  <2> QED
    BY <1>19, <2>1 DEF Listen
<1>20. ASSUME NEW x \in Pid, Leave(x) PROVE TypeOK'
  <2>1. st' \in [Pid -> States]
    BY <1>20 DEF Leave, States, Masters, Handling, Servers, Ends
  <2> QED
    BY <1>20, <2>1 DEF Leave
<1>21. ASSUME NEW x \in Pid, ChildDies(x) PROVE TypeOK'
  <2>1. st' \in [Pid -> States]
    BY <1>21 DEF ChildDies, States, Masters, Handling, Servers, Ends
  <2>2. faults' \in 0..MaxFaults
    BY <1>21, CountAssumption DEF ChildDies, Fault
  <2> QED
    BY <1>21, <2>1, <2>2 DEF ChildDies
<1>22. ASSUME NEW x \in Pid, MasterKilled(x) PROVE TypeOK'
  <2>1. st' \in [Pid -> States]
    BY <1>22 DEF MasterKilled, States, Masters, Handling, Servers, Ends
  <2>2. faults' \in 0..MaxFaults
    BY <1>22, CountAssumption DEF MasterKilled, Fault
  <2> QED
    BY <1>22, <2>1, <2>2 DEF MasterKilled
<1>23. ASSUME NEW x \in Pid, Reuse(x) PROVE TypeOK'
  <2>1. st' \in [Pid -> States]
    BY <1>23 DEF Reuse, States, Masters, Handling, Servers, Ends
  <2>2. faults' \in 0..MaxFaults
    BY <1>23, CountAssumption DEF Reuse, Fault
  <2> QED
    BY <1>23, <2>1, <2>2 DEF Reuse
<1>24. CASE UNCHANGED vars
  BY <1>24 DEF vars
<1> QED
  BY <1>1, <1>2, <1>3, <1>4, <1>5, <1>6, <1>7, <1>8, <1>9, <1>10, <1>11, <1>12,
     <1>13, <1>14, <1>15, <1>16, <1>17, <1>18, <1>19, <1>20, <1>21, <1>22, <1>23, <1>24
  DEF Next, CmdStep, MasterStep, ServerStep

-----------------------------------------------------------------------------
(* Masters and children.                                                   *)

\* One process moves on and stays what it is.
LEMMA SameKind ==
  ASSUME IInv, TypeOK', NEW x \in Pid, NEW s, Becomes(x, s), master' = master,
         master[x] = 0 => AsMaster(s), master[x] # 0 => AsChild(s),
         \A p \in Pid : childPid'[p] \in {childPid[p], forked[p]},
         \A p \in Pid : forked'[p] \in {forked[p], -1}
  PROVE  Kinds'
<1> USE PidPositive DEF IInv, TypeOK
<1>1. s # "unborn"
  BY DEF AsMaster, AsChild, Masters, Servers, Handling, Ends
<1>2. \A p \in Pid : st'[p] = IF p = x THEN s ELSE st[p]
  BY DEF Becomes
<1>3. \A p \in Pid : /\ master[p] = 0 => AsMaster(st'[p]) \/ st'[p] = "unborn"
                     /\ master[p] # 0 => AsChild(st'[p])
  BY <1>2 DEF Kinds
<1>4. \A p \in Pid : master[p] # 0 => master[master[p]] = 0 /\ st'[master[p]] # "unborn"
  BY <1>1, <1>2 DEF Kinds
<1>5. \A p \in Pid : childPid'[p] \in Pid => master[childPid'[p]] # 0
  BY <1>1 DEF Kinds
<1>6. \A p \in Pid : forked'[p] \in Pid => master[forked'[p]] = p
  BY <1>1 DEF Kinds
<1> QED
  BY <1>3, <1>4, <1>5, <1>6 DEF Kinds

\* A process in a state of a master has no master; a server has one.
LEMMA KindOf ==
  ASSUME IInv, NEW x \in Pid
  PROVE  /\ st[x] \in Masters => master[x] = 0
         /\ st[x] \in Servers => master[x] # 0
         /\ st[x] = "unborn" => master[x] = 0
BY DEF IInv, Kinds, AsMaster, AsChild, Masters, Servers, Handling, Ends

\* The masters' own steps, and the children's, but for fork, wait and signals.
OwnStep(x) ==
  \/ OpenFile(x) \/ WriteFile(x) \/ ForkFails(x) \/ Assign(x) \/ WaitNobody(x)
  \/ InstallHandlers(x) \/ InitServer(x) \/ CreateServer(x) \/ Listen(x) \/ Leave(x)
  \/ ChildDies(x) \/ MasterKilled(x)

\* In such a step one process moves on, and m_nChildPid is what fork returned.
LEMMA OwnStepKeeps ==
  ASSUME IInv, TypeOK', NEW x \in Pid, OwnStep(x)
  PROVE  Kinds'
<1> DEFINE s == st'[x]
<1> USE DEF AsMaster, AsChild, Masters, Servers, Handling, Ends
<1>1. Becomes(x, s)
  BY DEF IInv, TypeOK, OwnStep, OpenFile, WriteFile, ForkFails, Assign, WaitNobody, InstallHandlers,
     InitServer, CreateServer, Listen, Leave, ChildDies, MasterKilled, Becomes
<1>2. (st[x] \in Masters /\ AsMaster(s)) \/ (st[x] \in Servers /\ AsChild(s))
  BY DEF IInv, TypeOK, OwnStep, OpenFile, WriteFile, ForkFails, Assign, WaitNobody, InstallHandlers,
     InitServer, CreateServer, Listen, Leave, ChildDies, MasterKilled, Becomes
<1>3. /\ master' = master
      /\ \A p \in Pid : childPid'[p] \in {childPid[p], forked[p]}
      /\ \A p \in Pid : forked'[p] \in {forked[p], -1}
  BY DEF IInv, TypeOK, OwnStep, OpenFile, WriteFile, ForkFails, Assign, WaitNobody, InstallHandlers,
     InitServer, CreateServer, Listen, Leave, ChildDies, MasterKilled, tree
<1> QED
  BY <1>1, <1>2, <1>3, SameKind, KindOf

\* Forks make children, starts make masters, and nothing changes sides.
LEMMA KindsStep == IInv /\ TypeOK' /\ [Next]_vars => Kinds'
<1> SUFFICES ASSUME IInv, TypeOK', [Next]_vars PROVE Kinds'
  OBVIOUS
<1> USE PidPositive
<1>1. ASSUME UNCHANGED <<st, tree>> PROVE Kinds'
  BY <1>1 DEF IInv, Kinds, tree
<1>2. ASSUME NEW c \in Cmds, CmdStep(c) \/ Begin(c) PROVE Kinds'
  <2>1. CASE StartMaster(c)
    <3>1. PICK m \in Pid : IsFresh(m) /\ Becomes(m, "born")
      BY <2>1 DEF StartMaster
    <3>2. AsMaster("born") /\ master[m] = 0
      BY <3>1, KindOf DEF IsFresh, AsMaster, Masters
    <3> QED
      BY <2>1, <3>1, <3>2, SameKind DEF StartMaster, tree
  <2> QED
    BY <1>1, <1>2, <2>1
    DEF CmdStep, Begin, StartRefused, StopNobody, StopPolled, Stopped, StopSignal, StopTimesOut
<1>3. ASSUME NEW x \in Pid, Fork(x) PROVE Kinds'
  <2>1. PICK q \in Pid : /\ IsFresh(q)
                         /\ st' = [st EXCEPT ![x] = "assign", ![q] = "kid"]
                         /\ master' = [master EXCEPT ![q] = x]
                         /\ forked' = [forked EXCEPT ![x] = q]
    BY <1>3 DEF Fork
  <2>2. /\ childPid' = childPid /\ st[x] = "fork" /\ st[q] = "unborn" /\ x # q
        /\ master[x] = 0 /\ master[q] = 0
    BY <1>3, <2>1, KindOf DEF Fork, IsFresh, Masters
  <2>3. /\ \A p \in Pid : st'[p] = IF p = q THEN "kid" ELSE IF p = x THEN "assign" ELSE st[p]
        /\ \A p \in Pid : master'[p] = IF p = q THEN x ELSE master[p]
        /\ \A p \in Pid : forked'[p] = IF p = x THEN q ELSE forked[p]
    BY <2>1, <2>2 DEF IInv, TypeOK
  <2>4. \A p \in Pid : /\ master'[p] = 0 => AsMaster(st'[p]) \/ st'[p] = "unborn"
                       /\ master'[p] # 0 => AsChild(st'[p])
    BY <2>2, <2>3 DEF IInv, Kinds, AsMaster, AsChild, Masters, Servers
  <2>5. \A p \in Pid : master'[p] # 0 => master'[master'[p]] = 0 /\ st'[master'[p]] # "unborn"
    BY <2>2, <2>3 DEF IInv, TypeOK, Kinds
  <2>6. \A p \in Pid : childPid'[p] \in Pid => master'[childPid'[p]] # 0
    BY <2>2, <2>3 DEF IInv, Kinds
  <2>7. \A p \in Pid : forked'[p] \in Pid => master'[forked'[p]] = p
    BY <2>2, <2>3 DEF IInv, Kinds
  <2> QED
    BY <2>4, <2>5, <2>6, <2>7 DEF Kinds
<1>4. ASSUME NEW x \in Pid, Wait(x) PROVE Kinds'
  <2> DEFINE c == forked[x]
             s == IF IsAbnormalExit(c) THEN "fork" ELSE "exited"
  <2>1. /\ c \in Pid /\ master[c] = x /\ x # 0 /\ master[x] = 0 /\ x # c /\ UNCHANGED tree
        /\ AsMaster(s) /\ AsChild("reaped")
    BY <1>4, KindOf DEF Wait, IInv, Kinds, Masters, Ends, AsMaster, AsChild
  <2>2. \A p \in Pid : st'[p] = IF p = x THEN s ELSE IF p = c THEN "reaped" ELSE st[p]
    BY <1>4, <2>1 DEF Wait, IInv, TypeOK
  <2>3. \A p \in Pid : /\ master[p] = 0 => AsMaster(st'[p]) \/ st'[p] = "unborn"
                       /\ master[p] # 0 => AsChild(st'[p])
    BY <2>1, <2>2 DEF IInv, Kinds
  <2>4. \A p \in Pid : st'[p] = "unborn" => st[p] = "unborn"
    BY <2>2
  <2> QED
    BY <2>1, <2>3, <2>4 DEF IInv, TypeOK, Kinds, tree
<1>5. ASSUME NEW x \in Pid, SigMaster(x) PROVE Kinds'
  <2>1. \A p \in Pid : \/ st'[p] = st[p]
                       \/ st[p] \in Masters \cup {"kid"} /\ st'[p] = "crashed"
    BY <1>5 DEF SigMaster
  <2>2. \A p \in Pid : /\ AsMaster(st[p]) => AsMaster(st'[p])
                       /\ AsChild(st[p]) => AsChild(st'[p])
                       /\ st[p] = "unborn" <=> st'[p] = "unborn"
    BY <2>1 DEF AsMaster, AsChild, Masters, Ends
  <2>3. UNCHANGED tree
    BY <1>5 DEF SigMaster
  <2> QED
    BY <2>2, <2>3 DEF IInv, TypeOK, Kinds, tree
<1>6. ASSUME NEW x \in Pid, Reuse(x) PROVE Kinds'
  BY <1>1, <1>6 DEF Reuse
<1> QED
  BY <1>1, <1>2, <1>3, <1>4, <1>5, <1>6, OwnStepKeeps
  DEF Next, MasterStep, ServerStep, OwnStep, vars

-----------------------------------------------------------------------------
(* Servers and their masters.                                              *)

\* p goes on serving.
GoesOn(p) == st[p] \in Servers /\ ~shutdown[p]
HasMaster(p) ==
  \/ st[master[p]] = "killed"
  \/ st[master[p]] \in {"assign", "wait"} /\ forked[master[p]] = p

\* A step after which nothing goes on serving that did not before, and which
\* leaves the masters of those that do.
LEMMA MastersStay ==
  ASSUME IInv, master' = master,
         \A p \in Pid : st'[p] \in Servers /\ ~shutdown'[p] =>
            /\ GoesOn(p)
            /\ HasMaster(p) => \/ st'[master[p]] = "killed"
                               \/ /\ st'[master[p]] \in {"assign", "wait"}
                                  /\ forked'[master[p]] = p
  PROVE  ServerHasMaster'
BY DEF IInv, GoesOn, HasMaster, ServerHasMaster

\* A signal ends a master only together with its child, or after the child was
\* told to shut down.
LEMMA SignalKeeps ==
  ASSUME IInv, NEW x \in Pid, SigMaster(x)
  PROVE  ServerHasMaster'
<1>1. UNCHANGED tree
  BY DEF SigMaster
<1>2. SUFFICES ASSUME NEW p \in Pid, st'[p] \in Servers, ~shutdown'[p]
               PROVE  /\ GoesOn(p)
                      /\ HasMaster(p) => \/ st'[master[p]] = "killed"
                                         \/ /\ st'[master[p]] \in {"assign", "wait"}
                                            /\ forked'[master[p]] = p
  BY <1>1, MastersStay DEF tree
<1>3. st'[p] = st[p] /\ ~shutdown[p] /\ p \notin KillTargets(x)
  BY <1>2 DEF SigMaster, Servers, Handling, IInv, TypeOK
<1>4. master[p] \in Pid /\ master[p] \notin KillTargets(x)
  <2>1. master[p] \in Pid /\ master[master[p]] = 0
    BY <1>2, <1>3, KindOf DEF IInv, TypeOK, Kinds
  <2>2. CASE childPid[x] = 0
    BY <1>3, <2>1, <2>2, PidPositive DEF KillTargets
  <2>3. CASE childPid[x] = -1
    <3>1. p = x
      BY <1>3, <2>3 DEF KillTargets
    <3> QED
      BY <1>2, <1>3, <3>1, KindOf DEF SigMaster, IInv, Kinds, AsMaster, AsChild, Masters, Servers, Handling
  <2>4. CASE childPid[x] \notin {0, -1}
    BY <2>1, <2>4 DEF KillTargets, IInv, TypeOK, Kinds
  <2> QED
    BY <2>2, <2>3, <2>4
<1> QED
  BY <1>1, <1>2, <1>3, <1>4 DEF SigMaster, GoesOn, HasMaster, IInv, TypeOK, tree

\* The children's own steps, and their death.
LEMMA ChildKeeps ==
  ASSUME IInv, NEW x \in Pid, ServerStep(x) \/ ChildDies(x)
  PROVE  ServerHasMaster'
<1>1. /\ UNCHANGED <<tree, shutdown>> /\ st[x] \in Servers
      /\ \A p \in Pid : p # x => st'[p] = st[p]
  BY DEF ServerStep, InstallHandlers, InitServer, FlagKept, CreateServer, Listen, Leave,
     ChildDies, Becomes, Servers, Handling, IInv, TypeOK
<1>2. \A p \in Pid : GoesOn(p) => master[p] \in Pid /\ master[p] # x
  BY <1>1, KindOf DEF IInv, TypeOK, Kinds, GoesOn
<1> QED
  BY <1>1, <1>2, MastersStay DEF GoesOn, HasMaster, tree

\* Those of a master, which waits for its child or has none.
LEMMA MasterKeeps ==
  ASSUME IInv, NEW x \in Pid,
         OpenFile(x) \/ WriteFile(x) \/ ForkFails(x) \/ Assign(x) \/ WaitNobody(x) \/ MasterKilled(x)
  PROVE  ServerHasMaster'
<1>1. /\ UNCHANGED <<master, shutdown>> /\ st[x] \in Masters
      /\ \A p \in Pid : p # x => st'[p] = st[p] /\ forked'[p] = forked[p]
      /\ st'[x] \notin Servers
  BY DEF OpenFile, WriteFile, ForkFails, Assign, WaitNobody, MasterKilled, Becomes, tree,
     Masters, Servers, Handling, IInv, TypeOK
<1>2. \/ st[x] \notin {"assign", "wait"}
      \/ forked[x] = -1
      \/ st'[x] \in {"wait", "killed"} /\ forked'[x] = forked[x]
  BY DEF OpenFile, WriteFile, ForkFails, Assign, WaitNobody, MasterKilled, Becomes, tree,
     IInv, TypeOK
<1>3. st[x] # "killed"
  BY <1>1 DEF Masters
<1>4. \A p \in Pid : st'[p] \in Servers /\ ~shutdown'[p] => GoesOn(p) /\ master[p] \in Pid
  BY <1>1 DEF GoesOn, IInv, ServerHasMaster
<1>5. \A p \in Pid : HasMaster(p) /\ master[p] = x =>
         st'[x] \in {"wait", "killed"} /\ forked'[x] = p
  BY <1>1, <1>2, <1>3, PidPositive DEF HasMaster
<1>6. \A p \in Pid : HasMaster(p) /\ master[p] \in Pid /\ master[p] # x =>
         \/ st'[master[p]] = "killed"
         \/ st'[master[p]] \in {"assign", "wait"} /\ forked'[master[p]] = p
  BY <1>1 DEF HasMaster
<1> QED
  BY <1>1, <1>4, <1>5, <1>6, MastersStay

\* The whole step.
LEMMA MasterStays == IInv /\ [Next]_vars => ServerHasMaster'
<1> SUFFICES ASSUME IInv, [Next]_vars PROVE ServerHasMaster'
  OBVIOUS
<1>1. ASSUME UNCHANGED <<st, tree, shutdown>> PROVE ServerHasMaster'
  BY <1>1 DEF IInv, ServerHasMaster, tree
<1>2. ASSUME NEW c \in Cmds, CmdStep(c) \/ Begin(c) PROVE ServerHasMaster'
  <2>1. CASE StartMaster(c)
    <3>1. PICK m \in Pid : IsFresh(m) /\ Becomes(m, "born")
      BY <2>1 DEF StartMaster
    <3>2. \A p \in Pid : st'[p] = IF p = m THEN "born" ELSE st[p]
      BY <3>1 DEF Becomes, IInv, TypeOK
    <3>3. st[m] = "unborn" /\ UNCHANGED <<tree, shutdown>>
      BY <2>1, <3>1 DEF IsFresh, StartMaster
    <3>4. \A p \in Pid : st'[p] \in Servers /\ ~shutdown'[p] => GoesOn(p) /\ master[p] \in Pid
      BY <3>2, <3>3 DEF GoesOn, Servers, Handling, IInv, ServerHasMaster
    <3>5. \A p \in Pid : HasMaster(p) => master[p] # m
      BY <3>3 DEF HasMaster
    <3> QED
      BY <3>2, <3>3, <3>4, <3>5, MastersStay DEF tree, HasMaster
  <2> QED
    BY <1>1, <1>2, <2>1
    DEF CmdStep, Begin, StartRefused, StopNobody, StopPolled, Stopped, StopSignal, StopTimesOut
<1>3. ASSUME NEW x \in Pid, Fork(x) PROVE ServerHasMaster'
  <2>1. PICK q \in Pid : /\ IsFresh(q)
                         /\ st' = [st EXCEPT ![x] = "assign", ![q] = "kid"]
                         /\ master' = [master EXCEPT ![q] = x]
                         /\ forked' = [forked EXCEPT ![x] = q]
    BY <1>3 DEF Fork
  <2>2. st[x] = "fork" /\ st[q] = "unborn" /\ x # q /\ shutdown' = shutdown
    BY <1>3, <2>1 DEF Fork, IsFresh
  <2>3. /\ \A p \in Pid : st'[p] = IF p = q THEN "kid" ELSE IF p = x THEN "assign" ELSE st[p]
        /\ \A p \in Pid : master'[p] = IF p = q THEN x ELSE master[p]
        /\ \A p \in Pid : forked'[p] = IF p = x THEN q ELSE forked[p]
    BY <2>1, <2>2 DEF IInv, TypeOK
  <2>4. SUFFICES ASSUME NEW p \in Pid, st'[p] \in Servers, ~shutdown'[p]
                 PROVE  /\ master'[p] \in Pid
                        /\ \/ st'[master'[p]] = "killed"
                           \/ /\ st'[master'[p]] \in {"assign", "wait"}
                              /\ forked'[master'[p]] = p
    BY DEF ServerHasMaster
  <2>5. CASE p = q
    BY <2>2, <2>3, <2>5
  <2>6. CASE p # q
    <3>1. GoesOn(p) /\ master'[p] = master[p]
      BY <2>2, <2>3, <2>4, <2>6 DEF GoesOn, Servers, Handling
    <3>2. master[p] \in Pid /\ HasMaster(p)
      BY <3>1 DEF IInv, ServerHasMaster, GoesOn, HasMaster
    <3>3. master[p] # x /\ master[p] # q
      BY <2>2, <3>2 DEF HasMaster
    <3> QED
      BY <2>3, <3>1, <3>2, <3>3 DEF HasMaster
  <2> QED
    BY <2>5, <2>6
<1>4. ASSUME NEW x \in Pid, Wait(x) PROVE ServerHasMaster'
  <2> DEFINE c == forked[x]
             s == IF IsAbnormalExit(c) THEN "fork" ELSE "exited"
  <2>1. /\ c \in Pid /\ st[c] \in Ends /\ master[c] = x /\ x # 0 /\ st[x] = "wait"
        /\ UNCHANGED <<tree, shutdown>>
    BY <1>4, PidPositive DEF Wait, IInv, Kinds
  <2>2. \A p \in Pid : p # x /\ p # c => st'[p] = st[p]
    BY <1>4 DEF Wait, IInv, TypeOK
  <2>3. st'[x] \notin Servers /\ st'[c] \notin Servers
    BY <1>4 DEF Wait, IInv, TypeOK, Servers, Handling, Ends
  <2>4. \A p \in Pid : GoesOn(p) => master[p] \in Pid /\ master[p] # x /\ master[p] # c
    <3>1. SUFFICES ASSUME NEW p \in Pid, GoesOn(p)
                   PROVE  master[p] \in Pid /\ master[p] # x /\ master[p] # c
      OBVIOUS
    <3>2. master[p] \in Pid /\ HasMaster(p) /\ master[master[p]] = 0
      BY <3>1, PidPositive DEF IInv, ServerHasMaster, GoesOn, HasMaster, Kinds
    <3>3. master[p] # c
      BY <2>1, <3>2
    <3>4. master[p] # x
      BY <2>1, <3>1, <3>2 DEF HasMaster, GoesOn, Ends, Servers, Handling
    <3> QED
      BY <3>2, <3>3, <3>4
  <2> QED
    BY <2>1, <2>2, <2>3, <2>4, MastersStay DEF tree, GoesOn, HasMaster
<1>5. ASSUME NEW x \in Pid, Reuse(x) PROVE ServerHasMaster'
  BY <1>1, <1>5 DEF Reuse
<1> QED
  BY <1>1, <1>2, <1>3, <1>4, <1>5, MasterKeeps, ChildKeeps, SignalKeeps
  DEF Next, MasterStep, vars

-----------------------------------------------------------------------------
\* The invariant holds in every behaviour.
THEOREM Invariance == Spec => []IInv
<1>1. IInv /\ [Next]_vars => IInv'
  BY TypeStep, KindsStep, MasterStays DEF IInv
<1> QED
  BY <1>1, InitInv, PTL DEF Spec

\* However commands, crashes and signals fall together, a child that will go on
\* serving has its master, unless the master was killed with SIGKILL.
THEOREM ServersHaveMasters == Spec => []ServerHasMaster
<1>1. IInv => ServerHasMaster
  BY DEF IInv
<1> QED
  BY <1>1, Invariance, PTL
====
