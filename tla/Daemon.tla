-------------------------------- MODULE Daemon --------------------------------
(***************************************************************************)
(* The start of the process, and with AgentLoop the whole of its life.     *)
(*                                                                         *)
(* main opens the databases, registers the plugins with the builder, takes *)
(* a sender, builds the agent and spawns it; the builder holds the         *)
(* interrupt channel from the first of these steps on.  A plugin's task is *)
(* only registered before build() spawns it, and its messages may arrive   *)
(* before the agent's task runs.  Toolbox has what the plugins contribute  *)
(* to the tools.                                                           *)
(***************************************************************************)
EXTENDS AgentLoop

VARIABLES
    boot,   \* the step that comes next
    tasks   \* the tasks that plugins have registered with the builder

daemonVars == <<vars, boot, tasks>>

-----------------------------------------------------------------------------

Steps == {"open", "register", "hold", "build", "spawn", "done"}

DaemonInit ==
    /\ Init
    /\ boot = "open"
    /\ tasks = {}

Step(from, to) ==
    /\ process = "starting"
    /\ boot = from
    /\ boot' = to

\* The provider's client and the databases are opened, then the builder is made
\* with its channel.
Open ==
    /\ Step("open", "register")
    /\ senders' = {"builder"}
    /\ UNCHANGED <<setup, queueVars, loopVars, agent, transport, process, tasks>>

\* Mutant of Register: the task is spawned when it is registered.
RegisterAndSpawn ==
    /\ Step("register", "hold")
    /\ tasks' = IF setup.transport THEN {"transport"} ELSE {}
    /\ senders' = senders \cup tasks'
    /\ transport' = IF setup.transport THEN "running" ELSE "none"
    /\ UNCHANGED <<setup, queueVars, loopVars, agent, process>>

\* with_plugin for each plugin that is configured; Discord's registers a task,
\* which holds a sender.
Register ==
    /\ Step("register", "hold")
    /\ tasks' = IF setup.transport THEN {"transport"} ELSE {}
    /\ senders' = senders \cup tasks'
    /\ UNCHANGED <<setup, queueVars, loopVars, agent, transport, process>>

\* Mutant of Hold: the daemon relies on the transport's sender.
HoldNone ==
    /\ Step("hold", "build")
    /\ senders' = IF setup.host = "embedder" THEN senders \cup {"host"} ELSE senders
    /\ UNCHANGED <<setup, queueVars, loopVars, agent, transport, process, tasks>>

\* interrupt_sender(): the daemon's, to keep the channel open without transports.
Hold ==
    /\ Step("hold", "build")
    /\ senders' = senders \cup {"host"}
    /\ UNCHANGED <<setup, queueVars, loopVars, agent, transport, process, tasks>>

\* build() spawns the tasks, and the builder is gone with its sender.
Build ==
    /\ Step("build", "spawn")
    /\ transport' = IF "transport" \in tasks THEN "running" ELSE "none"
    /\ senders' = senders \ {"builder"}
    /\ UNCHANGED <<setup, queueVars, loopVars, agent, process, tasks>>

\* The agent is spawned, and main comes to its select!.
SpawnAgent ==
    /\ Step("spawn", "done")
    /\ agent' = "running"
    /\ process' = "up"
    /\ UNCHANGED <<setup, queueVars, loopVars, transport, senders, tasks>>

\* A database cannot be opened, or an embedder's builder lacks its provider or
\* its soul: main returns the error, and all that was made is dropped.
StartFails ==
    /\ process = "starting"
    /\ boot = "open" \/ (boot = "build" /\ setup.host = "embedder")
    /\ process' = "startup"
    /\ senders' = {}
    /\ tasks' = {}
    /\ UNCHANGED <<setup, queueVars, loopVars, agent, transport, boot>>

Start ==
    \/ Open
    \/ Register
    \/ Hold
    \/ Build
    \/ SpawnAgent

Next ==
    \/ Start
    \/ StartFails
    \/ Run /\ UNCHANGED <<boot, tasks>>

Spec == DaemonInit /\ [][Next]_daemonVars

\* The runtime schedules main: it comes to its select!, which ends with the
\* first task that does.
Fairness ==
    /\ WF_daemonVars(Start)
    /\ WF_daemonVars((ExitWithAgent \/ ExitWithTransport) /\ UNCHANGED <<boot, tasks>>)

FairSpec == Spec /\ Fairness

-----------------------------------------------------------------------------

\* Every variable of the process has its type, and only build() makes a task
\* run: none does before it, and none of a start that failed.
DaemonTypeOK ==
    /\ TypeOK
    /\ boot \in Steps
    /\ tasks \subseteq {"transport"}
    /\ transport # "none" => boot \in {"spawn", "done"}
    /\ agent # "none" <=> boot = "done"

=============================================================================
