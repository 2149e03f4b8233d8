---------------------------- MODULE BreakRouting ----------------------------
(***************************************************************************)
(* How Ctrl-C to Ctrl-F reach the command in the foreground: the shell     *)
(* (RunCommand, shell_break_handler and broker_break_dispatch of           *)
(* src/src/native_command.c), the broker's task table and its two          *)
(* foreground fields (src/src/broker.c), and the command, which registers  *)
(* as a task when it first uses DOS (native_activate_task of               *)
(* src/src/native_dos.c).                                                  *)
(*                                                                         *)
(* Each shell has a session of its own.  A command is a process, named by  *)
(* its pid, which the model does not reuse.  The handler may run on the    *)
(* dispatch thread, so the mask RunCommand sets on its own thread around   *)
(* the fork does not keep a break from being handled in between.           *)
(* Ctrl-C stands for Ctrl-C, Ctrl-E and Ctrl-F, which are routed alike.    *)
(***************************************************************************)
EXTENDS Naturals, Sequences, FiniteSets

CONSTANTS
    Shell, Command,
    None,
    MaxTasks,       \* MAX_TASKS
    LastTask,       \* bound on the tasks ever registered
    MaxPipe         \* bound on the breaks waiting in break_pipe

ASSUME BreakConstants ==
    /\ None \notin Command
    /\ {MaxTasks, LastTask, MaxPipe} \subseteq Nat

Event == {"C", "D"}
Kind  == {"none", "ace", "lnx"}     \* enum ace_shell_foreground_kind

VARIABLES
    at,         \* where each shell's own thread is in RunCommand
    running,    \* the command each shell is running, as its thread knows it
    fgChild,    \* foreground_child
    fgKind,     \* foreground_kind
    pipe,       \* break_pipe
    disp,       \* the break the dispatch thread is asking the broker to route
    life, got,  \* of each command, and the breaks it was given
    fgPid,      \* broker: foreground_pid of each shell's session
    fgTask,     \* broker: foreground_task
    tasks,      \* broker: the task table, [id, pid]
    nextTask,
    unheard     \* shells whose running foreground command was not given a
                \*   break that the broker reported as routed (history)

shellVars == <<at, running, fgChild, fgKind, pipe, disp>>
vars == <<at, running, fgChild, fgKind, pipe, disp, life, got,
          fgPid, fgTask, tasks, nextTask, unheard>>

NoBreak == [event |-> "none", child |-> None]

TypeOK ==
    /\ at \in [Shell -> {"prompt", "forked", "named", "announcing",
                         "waiting", "reaped", "unnamed", "clearing"}]
    /\ running \in [Shell -> Command \cup {None}]
    /\ fgChild \in [Shell -> Command \cup {None}]
    /\ fgKind \in [Shell -> Kind]
    /\ pipe \in [Shell -> Seq(Event)]
    /\ \A s \in Shell : Len(pipe[s]) <= MaxPipe
    /\ disp \in [Shell -> {NoBreak} \cup [event : Event, child : Command]]
    /\ life \in [Command -> {"unborn", "running", "exited", "reaped"}]
    /\ got \in [Command -> SUBSET Event]
    /\ fgPid \in [Shell -> Command \cup {None}]
    /\ fgTask \in [Shell -> Nat]
    /\ tasks \subseteq [id : 1..LastTask, pid : Command]
    /\ Cardinality(tasks) <= MaxTasks
    /\ nextTask \in 1..(LastTask + 1)
    /\ unheard \subseteq Shell

Init ==
    /\ at = [s \in Shell |-> "prompt"]
    /\ running = [s \in Shell |-> None]
    /\ fgChild = [s \in Shell |-> None]
    /\ fgKind = [s \in Shell |-> "none"]
    /\ pipe = [s \in Shell |-> <<>>]
    /\ disp = [s \in Shell |-> NoBreak]
    /\ life = [c \in Command |-> "unborn"]
    /\ got = [c \in Command |-> {}]
    /\ fgPid = [s \in Shell |-> None]
    /\ fgTask = [s \in Shell |-> 0]
    /\ tasks = {}
    /\ nextTask = 1
    /\ unheard = {}

-----------------------------------------------------------------------------
\* The shell's own thread: RunCommand.

Fork(s, c) ==
    /\ at[s] = "prompt"
    /\ life[c] = "unborn"
    /\ life' = [life EXCEPT ![c] = "running"]
    /\ running' = [running EXCEPT ![s] = c]
    /\ at' = [at EXCEPT ![s] = "forked"]
    /\ UNCHANGED <<fgChild, fgKind, pipe, disp, got, fgPid, fgTask,
                   tasks, nextTask, unheard>>

\* ace_shell_break_set_foreground sets the shell's two variables in turn ...
SetChild(s) ==
    /\ \/ /\ at[s] = "forked"
          /\ at' = [at EXCEPT ![s] = "named"]
       \/ /\ at[s] = "reaped"
          /\ at' = [at EXCEPT ![s] = "unnamed"]
    /\ fgChild' = [fgChild EXCEPT ![s] = running[s]]
    /\ UNCHANGED <<running, fgKind, pipe, disp, life, got, fgPid,
                   fgTask, tasks, nextTask, unheard>>

SetKind(s) ==
    /\ \/ /\ at[s] = "named"
          /\ at' = [at EXCEPT ![s] = "announcing"]
          /\ \E k \in {"ace", "lnx"} : fgKind' = [fgKind EXCEPT ![s] = k]
       \/ /\ at[s] = "unnamed"
          /\ at' = [at EXCEPT ![s] = "clearing"]
          /\ fgKind' = [fgKind EXCEPT ![s] = "none"]
    /\ UNCHANGED <<running, fgChild, pipe, disp, life, got, fgPid,
                   fgTask, tasks, nextTask, unheard>>

\* The id of process c's task, or 0.
TaskOf(c) ==
    IF \E t \in tasks : t.pid = c
    THEN (CHOOSE t \in tasks : t.pid = c).id
    ELSE 0

\* ... and tells the broker (TASK_SET_FOREGROUND).
SetForeground(s) ==
    /\ \/ /\ at[s] = "announcing"
          /\ at' = [at EXCEPT ![s] = "waiting"]
       \/ /\ at[s] = "clearing"
          /\ at' = [at EXCEPT ![s] = "prompt"]
    /\ fgPid' = [fgPid EXCEPT ![s] = fgChild[s]]
    /\ fgTask' = [fgTask EXCEPT ![s] = TaskOf(fgChild[s])]
    /\ UNCHANGED <<running, fgChild, fgKind, pipe, disp, life, got,
                   tasks, nextTask, unheard>>

\* waitpid returns.
Reap(s) ==
    /\ at[s] = "waiting"
    /\ life[running[s]] = "exited"
    /\ life' = [life EXCEPT ![running[s]] = "reaped"]
    /\ running' = [running EXCEPT ![s] = None]
    /\ at' = [at EXCEPT ![s] = "reaped"]
    /\ UNCHANGED <<fgChild, fgKind, pipe, disp, got, fgPid, fgTask,
                   tasks, nextTask, unheard>>

-----------------------------------------------------------------------------
\* The signal handler and the dispatch thread.

\* A host signal: the break is for a process that has not been reaped.
Kill(c, e) ==
    got' = IF life[c] = "running" THEN [got EXCEPT ![c] = @ \cup {e}] ELSE got

\* shell_break_handler.  A break for the shell itself is left to Shell.c, which
\* looks for it between commands.
Press(s, e) ==
    /\ \/ /\ fgChild[s] # None /\ fgKind[s] = "lnx"
          /\ Kill(fgChild[s], e)
          /\ UNCHANGED pipe
       \/ /\ fgChild[s] # None /\ fgKind[s] # "lnx" /\ e = "C"
          /\ Len(pipe[s]) < MaxPipe
          /\ pipe' = [pipe EXCEPT ![s] = Append(@, e)]
          /\ UNCHANGED got
    /\ UNCHANGED <<at, running, fgChild, fgKind, disp, life, fgPid, fgTask,
                   tasks, nextTask, unheard>>

\* broker_break_dispatch reads the pipe; with no command in the foreground by
\* now the break is dropped.
Dispatch(s) ==
    /\ disp[s] = NoBreak
    /\ pipe[s] # <<>>
    /\ pipe' = [pipe EXCEPT ![s] = Tail(@)]
    /\ disp' = [disp EXCEPT ![s] =
                  IF fgChild[s] = None THEN NoBreak
                  ELSE [event |-> Head(pipe[s]), child |-> fgChild[s]]]
    /\ UNCHANGED <<at, running, fgChild, fgKind, life, got, fgPid,
                   fgTask, tasks, nextTask, unheard>>

\* Mutant: a break the broker did not route is dropped.
NoFallBack(s) == UNCHANGED <<got, unheard>>

\* The dispatch thread falls back on a host signal to the command it read from
\* foreground_child when the broker did not route the break.
FallBack(s) ==
    /\ Kill(disp[s].child, disp[s].event)
    /\ UNCHANGED unheard

\* The broker says it has routed the break, to the process in Reached.
Routed(s, Reached) ==
    /\ got' = [c \in Command |->
                 IF c \in Reached /\ life[c] = "running"
                 THEN got[c] \cup {disp[s].event} ELSE got[c]]
    /\ unheard' = IF fgPid[s] # None /\ fgPid[s] \notin Reached
                     /\ life[fgPid[s]] = "running"
                  THEN unheard \cup {s} ELSE unheard

\* TASK_BREAK_FOREGROUND.  find_task_id takes a free slot for the task whose id
\* is 0; its descriptor is 0 too, the broker's /dev/null.
BreakForeground(s) ==
    /\ disp[s] # NoBreak
    /\ disp' = [disp EXCEPT ![s] = NoBreak]
    /\ \/ /\ \E t \in tasks : t.id = fgTask[s] /\ Routed(s, {t.pid})
          /\ UNCHANGED fgPid
       \/ /\ \E t \in tasks : t.id = fgTask[s] /\ life[t.pid] # "running"
          /\ FallBack(s)        \* the task's connection is closed
          /\ UNCHANGED fgPid
       \/ /\ fgTask[s] = 0 /\ Cardinality(tasks) < MaxTasks
          /\ Routed(s, {})
          /\ UNCHANGED fgPid
       \/ /\ \A t \in tasks : t.id # fgTask[s]
          /\ fgTask[s] # 0 \/ Cardinality(tasks) = MaxTasks
          /\ IF fgPid[s] # None /\ life[fgPid[s]] # "reaped"
             THEN Routed(s, {fgPid[s]}) /\ UNCHANGED fgPid
             ELSE FallBack(s) /\ fgPid' = [fgPid EXCEPT ![s] = None]
    /\ UNCHANGED <<at, running, fgChild, fgKind, pipe, life, fgTask,
                   tasks, nextTask>>

\* "broker outage: retain break".
BreakUnrouted(s) ==
    /\ disp[s] # NoBreak
    /\ disp' = [disp EXCEPT ![s] = NoBreak]
    /\ FallBack(s)
    /\ UNCHANGED <<at, running, fgChild, fgKind, pipe, life, fgPid,
                   fgTask, tasks, nextTask>>

-----------------------------------------------------------------------------
\* The command and the broker.

\* Mutant: the table is not checked for room.
AttachTaskAnyway(s, c) ==
    /\ running[s] = c /\ life[c] = "running"
    /\ TaskOf(c) = 0
    /\ nextTask <= LastTask
    /\ tasks' = tasks \cup {[id |-> nextTask, pid |-> c]}
    /\ nextTask' = nextTask + 1
    /\ fgTask' = IF fgPid[s] = c THEN [fgTask EXCEPT ![s] = nextTask] ELSE fgTask
    /\ UNCHANGED <<shellVars, life, got, fgPid, unheard>>

\* Mutant: a command that attaches after it was put in the foreground stays
\* unknown.
AttachTaskLate(s, c) ==
    /\ running[s] = c /\ life[c] = "running"
    /\ TaskOf(c) = 0
    /\ nextTask <= LastTask
    /\ Cardinality(tasks) < MaxTasks
    /\ tasks' = tasks \cup {[id |-> nextTask, pid |-> c]}
    /\ nextTask' = nextTask + 1
    /\ UNCHANGED <<shellVars, life, got, fgPid, fgTask, unheard>>

\* TASK_ATTACH (attach_task), once per process.
AttachTask(s, c) ==
    /\ running[s] = c /\ life[c] = "running"
    /\ TaskOf(c) = 0
    /\ nextTask <= LastTask
    /\ Cardinality(tasks) < MaxTasks
    /\ tasks' = tasks \cup {[id |-> nextTask, pid |-> c]}
    /\ nextTask' = nextTask + 1
    /\ fgTask' = IF fgPid[s] = c THEN [fgTask EXCEPT ![s] = nextTask] ELSE fgTask
    /\ UNCHANGED <<shellVars, life, got, fgPid, unheard>>

Exit(c) ==
    /\ life[c] = "running"
    /\ life' = [life EXCEPT ![c] = "exited"]
    /\ UNCHANGED <<shellVars, got, fgPid, fgTask, tasks, nextTask, unheard>>

\* The broker finds the task's connection closed (drop_task_connection).
DropTask(t) ==
    /\ life[t.pid] \in {"exited", "reaped"}
    /\ tasks' = tasks \ {t}
    /\ UNCHANGED <<shellVars, life, got, fgPid, fgTask, nextTask, unheard>>

ShellThread(s) == SetChild(s) \/ SetKind(s) \/ SetForeground(s) \/ Reap(s)

DispatchThread(s) == Dispatch(s) \/ BreakForeground(s) \/ BreakUnrouted(s)

Next ==
    \/ \E s \in Shell :
         \/ \E c \in Command : Fork(s, c) \/ AttachTask(s, c)
         \/ \E e \in Event : Press(s, e)
         \/ ShellThread(s) \/ DispatchThread(s)
    \/ \E c \in Command : Exit(c)
    \/ \E t \in tasks : DropTask(t)

Spec == Init /\ [][Next]_vars

\* The dispatch thread is always there to read its pipe, and the broker answers.
FairSpec == Spec /\ \A s \in Shell : WF_vars(DispatchThread(s))

-----------------------------------------------------------------------------
\* Whichever comes first, the command's TASK_ATTACH or the shell's
\* TASK_SET_FOREGROUND, once both have happened the broker knows the foreground
\* command by its task; and it never takes the task of another process, one
\* that has finished or that runs in another window, for the foreground one.
ForegroundKnowsItsTask ==
    \A s \in Shell : \A t \in tasks :
      fgPid[s] = t.pid <=> fgTask[s] = t.id

\* A break for command c that shell s has not handed over yet.
BreakUnderway(s, c) ==
    /\ at[s] = "waiting" /\ running[s] = c
    /\ TaskOf(c) # 0
    /\ pipe[s] # <<>> \/ disp[s].child = c

BreakHeard(c) == "C" \in got[c] \/ life[c] # "running"

\* A break typed at a command that is registered and goes on running is given
\* to it, whether it is still in the pipe or already on its way to the broker.
RegisteredCommandGetsBreak ==
    \A s \in Shell : \A c \in Command : BreakUnderway(s, c) ~> BreakHeard(c)

\* A break for a foreground command the broker has no task of is handed "to the
\* host signal bridge instead of leaving it queued forever".
ForegroundIsHeard == unheard = {}
=============================================================================
