----------------------------- MODULE DhcpdTask -----------------------------
(***************************************************************************)
(* The life of the DHCP server task, components/net/dhcpd/dhcpd.c: it is   *)
(* started and stopped through the flag of g_dhcpd_ctrl, by every task     *)
(* that brings the soft AP up or down (netdev_set_state of ethernetif.c,   *)
(* called from the AT parser task and from the application's own task).    *)
(* There is no lock: the flag is all that keeps servers apart, and every   *)
(* task can be preempted between two statements.                           *)
(***************************************************************************)
EXTENDS Naturals, FiniteSets

CONSTANTS
  Controllers,   \* the tasks that start and stop the server
  Servers,       \* server tasks that can be created (a bound)
  NoServer,      \* an invalid thread handle
  FirstConfig    \* the configuration before the first dhcpd_curr_config_set

ASSUME TaskAssumption ==
  /\ NoServer \notin Servers
  /\ FirstConfig \in {"valid", "zero"}

VARIABLES
  flag,          \* g_dhcpd_ctrl.flag
  config,        \* is g_dhcpd_ctrl.server_config one that dhcpd_start accepts?
  thr,           \* the handle in g_dhcpd_ctrl.dhcpd_thr
  task,          \* where a server task is
  ctl,           \* where a controller is
  op,            \* what the controller is doing
  raced          \* history: the races met so far; no action depends on it

ctrlVars == <<flag, config, thr, task, ctl, op>>
taskVars == <<ctrlVars, raced>>

Flags == {"NOT_CREATED", "IS_CREATED", "IS_RUNNING", "SIGNAL_EXIT"}

\* "none": not created yet; "new": created, not yet run; "served": the loop is
\* left; "closed": the socket is closed; "exit": the flag is reset;
\* "deleted"; "returned": has returned from dhcpd_task.
ServerPc == {"none", "new", "opened", "loop", "served", "closed", "exit", "deleted", "returned"}

\* The server tasks from their creation to the reset of the flag.
Serving == {s \in Servers : task[s] \in {"new", "opened", "loop", "served", "closed"}}

At(c, l) == ctl' = [ctl EXCEPT ![c] = l]
Step(s, l) == task' = [task EXCEPT ![s] = l]

TaskInit ==
  /\ flag = "NOT_CREATED"
  /\ config = FirstConfig
  /\ thr = NoServer
  /\ task = [s \in Servers |-> "none"]
  /\ ctl = [c \in Controllers |-> "idle"]
  /\ op = [c \in Controllers |-> "none"]
  /\ raced = {}

----------------------------------------------------------------------------
(* The controllers: netdev_set_state stops the server when the interface   *)
(* goes down, and stops and starts it when it goes up.                     *)

SetState(c, o) ==
  /\ ctl[c] = "idle"
  /\ op' = [op EXCEPT ![c] = o]
  /\ At(c, "stop")
  /\ UNCHANGED <<flag, config, thr, task>>

\* dhcpd_curr_config_set.
ConfigSet(c) ==
  /\ ctl[c] = "idle"
  /\ flag # "IS_RUNNING"
  /\ config' = "valid"
  /\ op' = [op EXCEPT ![c] = "config"]
  /\ UNCHANGED <<flag, thr, task, ctl>>

\* Where a controller goes when dhcpd_stop has returned.
Stopped(c) == IF op[c] = "up" THEN "start" ELSE "idle"

\* dhcpd_stop: only a running server is stopped.
StopTest(c) ==
  /\ ctl[c] = "stop"
  /\ At(c, IF flag = "IS_RUNNING" THEN "signal" ELSE Stopped(c))
  /\ UNCHANGED <<flag, config, thr, task, op>>

StopSignal(c) ==
  /\ ctl[c] = "signal"
  /\ flag' = "SIGNAL_EXIT"
  /\ At(c, "poll")
  /\ UNCHANGED <<config, thr, task, op>>

\* The flag is polled every 10 ms.
StopPoll(c) ==
  /\ ctl[c] = "poll"
  /\ flag = "NOT_CREATED"
  /\ At(c, Stopped(c))
  /\ UNCHANGED <<flag, config, thr, task, op>>

\* Mutant: a server that is created and not yet running is started again.
StartTestRunning(c) ==
  /\ ctl[c] = "start"
  /\ At(c, IF flag # "IS_RUNNING" THEN "create" ELSE "idle")
  /\ UNCHANGED <<flag, config, thr, task, op>>

\* dhcpd_start: refused unless the flag is DHCPD_TASK_NOT_CREATED.
StartTest(c) ==
  /\ ctl[c] = "start"
  /\ At(c, IF flag = "NOT_CREATED" THEN "create" ELSE "idle")
  /\ UNCHANGED <<flag, config, thr, task, op>>

\* A configuration that is refused leaves the flag as it was set.
StartCreate(c) ==
  /\ ctl[c] = "create"
  /\ flag' = "IS_CREATED"
  /\ At(c, IF config = "valid" THEN "thread" ELSE "idle")
  /\ UNCHANGED <<config, thr, task, op>>

\* OS_ThreadCreate of dhcpd_task, which returns a handle not used before ...
Unused == {s \in Servers : task[s] = "none"}
StartThread(c) ==
  /\ ctl[c] = "thread"
  /\ Unused # {}
  /\ thr' = CHOOSE s \in Unused : TRUE
  /\ Step(thr', "new")
  /\ At(c, "idle")
  /\ UNCHANGED <<flag, config, op>>

\* ... which may fail.
StartThreadFails(c) ==
  /\ ctl[c] = "thread"
  /\ thr' = NoServer
  /\ flag' = "NOT_CREATED"
  /\ At(c, "idle")
  /\ UNCHANGED <<config, task, op>>

Control(c) ==
  \/ StopTest(c) \/ StopSignal(c) \/ StopPoll(c)
  \/ StartTest(c) \/ StartCreate(c) \/ StartThread(c) \/ StartThreadFails(c)

----------------------------------------------------------------------------
(* The server: dhcpd_task.                                                 *)

\* The socket is opened and bound, or that fails and the task goes out.
Open(s) ==
  /\ task[s] = "new"
  /\ \E l \in {"opened", "served"} : Step(s, l)
  /\ UNCHANGED <<flag, config, thr, ctl, op>>

Run(s) ==
  /\ task[s] = "opened"
  /\ flag' = "IS_RUNNING"
  /\ Step(s, "loop")
  /\ UNCHANGED <<config, thr, ctl, op>>

\* The test of the loop, at least every 50 ms; DhcpPool models what is served.
Leave(s) ==
  /\ task[s] = "loop"
  /\ flag # "IS_RUNNING"
  /\ Step(s, "served")
  /\ UNCHANGED <<flag, config, thr, ctl, op>>

Close(s) ==
  /\ task[s] = "served"
  /\ Step(s, "closed")
  /\ UNCHANGED <<flag, config, thr, ctl, op>>

\* OS_ThreadDelete of the handle: of the task itself, or of the server that
\* has been created since.
Deleted(s) ==
  IF thr = s
  THEN [task EXCEPT ![s] = "deleted"]
  ELSE [t \in Servers |-> IF t = s THEN "returned" ELSE IF t = thr THEN "deleted" ELSE task[t]]

\* Mutant: the flag is left at DHCPD_TASK_SIGNAL_EXIT.
ResetForgotten(s) ==
  /\ task[s] = "closed"
  /\ Step(s, "exit")
  /\ UNCHANGED <<flag, config, thr, ctl, op>>

\* The flag is reset, and from here on a new server may be started.
Reset(s) ==
  /\ task[s] = "closed"
  /\ flag' = "NOT_CREATED"
  /\ Step(s, "exit")
  /\ UNCHANGED <<config, thr, ctl, op>>

Delete(s) ==
  /\ task[s] = "exit"
  /\ task' = Deleted(s)
  /\ thr' = NoServer
  /\ UNCHANGED <<flag, config, ctl, op>>

Serve(s) == Open(s) \/ Run(s) \/ Leave(s) \/ Close(s) \/ Reset(s) \/ Delete(s)

----------------------------------------------------------------------------
\* The races that the unlocked flag leaves open, where they are met:
\* "start": two controllers have both found DHCPD_TASK_NOT_CREATED;
\* "stop":  two wait for, or are about to signal, the same server, or one does
\*          while the other starts the next;
\* "exit":  a server has reset the flag and not yet deleted itself, and the
\*          next is being started.
Racing ==
  LET Both(A, B) == \E c, d \in Controllers : c # d /\ ctl[c] \in A /\ ctl[d] \in B IN
  {k \in {"start", "stop", "exit"} :
     \/ k = "start" /\ Both({"create"}, {"create"})
     \/ k = "stop" /\ Both({"signal", "poll"}, {"signal", "poll", "create"})
     \/ /\ k = "exit"
        /\ \E c \in Controllers : ctl[c] = "create"
        /\ \E s \in Servers : task[s] = "exit"}

TaskNext ==
  /\ \/ \E c \in Controllers :
          \/ \E o \in {"up", "down"} : SetState(c, o)
          \/ ConfigSet(c)
          \/ Control(c)
     \/ \E s \in Servers : Serve(s)
  /\ raced' = raced \cup Racing'

\* Every task that can run does so again and again.
TaskSpec ==
  /\ TaskInit
  /\ [][TaskNext]_taskVars
  /\ \A c \in Controllers : WF_ctrlVars(Control(c))
  /\ \A s \in Servers : WF_ctrlVars(Serve(s))

----------------------------------------------------------------------------
(* Properties *)

TaskTypeOK ==
  /\ flag \in Flags
  /\ thr \in Servers \cup {NoServer}
  /\ task \in [Servers -> ServerPc]

\* Two server tasks serve at once only after two controllers have both passed
\* the test of dhcpd_start (dhcpd.c:186) before either set the flag.  No stop,
\* overtaken or not, and no preemption of a server in its last statements
\* (:166-167) leads there.
OneServer == "start" \notin raced => Cardinality(Serving) <= 1

\* The wait in dhcpd_stop ends, unless one of the races of the flag is met.
StopReturns ==
  \A c \in Controllers : ctl[c] = "poll" ~> (ctl[c] # "poll" \/ raced # {})

=============================================================================
