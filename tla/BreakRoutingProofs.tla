------------------------- MODULE BreakRoutingProofs -------------------------
(***************************************************************************)
(* Proofs about breaks, from the key to the command that takes them.  The  *)
(* first is about BreakRouting, for any sets of shells and commands: the   *)
(* broker's two notes about a session's foreground command, its process    *)
(* and its task, agree.  The second is about ExecSignals, the signals of   *)
(* the command's own process.                                              *)
(*                                                                         *)
(* The property relates the broker's tables only, but a TASK_ATTACH looks  *)
(* at one session alone, so it is needed that no other session can have    *)
(* the attaching process in the foreground.  That holds because a session  *)
(* keeps only a command its own shell runs, or one that has been reaped.   *)
(***************************************************************************)
EXTENDS BreakRouting, FiniteSetTheorems, TLAPS

\* The part of TypeOK the argument needs.
Shape ==
    /\ at \in [Shell -> {"prompt", "forked", "named", "announcing",
                         "waiting", "reaped", "unnamed", "clearing"}]
    /\ running \in [Shell -> Command \cup {None}]
    /\ fgChild \in [Shell -> Command \cup {None}]
    /\ life \in [Command -> {"unborn", "running", "exited", "reaped"}]
    /\ fgPid \in [Shell -> Command \cup {None}]
    /\ fgTask \in [Shell -> Nat]
    /\ nextTask \in Nat

\* The task table: numbers are given out once, and a process attaches once.
TableSound ==
    /\ \A t \in tasks : t.id \in Nat /\ 0 < t.id /\ t.id < nextTask /\ t.pid \in Command
    /\ \A t, u \in tasks : t.id = u.id \/ t.pid = u.pid => t = u
    /\ \A s \in Shell : fgTask[s] < nextTask
    /\ 0 < nextTask

\* Each shell has the command it runs to itself.
RunsAlone ==
    /\ \A s \in Shell :
         /\ at[s] \in {"prompt", "reaped", "unnamed", "clearing"} => running[s] = None
         /\ at[s] \in {"forked", "named", "announcing", "waiting"} => running[s] \in Command
         /\ running[s] \in Command => life[running[s]] \in {"running", "exited"}
    /\ \A r, s \in Shell : running[r] = running[s] /\ running[r] # None => r = s

\* A command the shell or the broker has on record is running there or is over.
OnRecord ==
    \A s \in Shell :
        /\ fgChild[s] \in Command => fgChild[s] = running[s] \/ life[fgChild[s]] = "reaped"
        /\ fgPid[s] \in Command => fgPid[s] = running[s] \/ life[fgPid[s]] = "reaped"

BreakInv == Shape /\ TableSound /\ RunsAlone /\ OnRecord /\ ForegroundKnowsItsTask

USE BreakConstants

\* The task of a process, as TASK_SET_FOREGROUND looks it up.
LEMMA TaskOfFinds ==
    ASSUME TableSound, Shape, NEW c \in Command \cup {None}
    PROVE  /\ TaskOf(c) \in Nat
           /\ TaskOf(c) < nextTask
           /\ \A t \in tasks : c = t.pid <=> TaskOf(c) = t.id
<1>1. CASE \E t \in tasks : t.pid = c
  <2>1. PICK t \in tasks : t.pid = c
    BY <1>1
  <2>2. (CHOOSE u \in tasks : u.pid = c) = t
    BY <2>1 DEF TableSound
  <2>3. TaskOf(c) = t.id
    BY ZenonT(40), SMTT(40), <1>1, <2>2 DEF TaskOf
  <2> QED BY <2>1, <2>3 DEF TableSound
<1>2. CASE ~\E t \in tasks : t.pid = c
  <2>1. TaskOf(c) = 0
    BY <1>2 DEF TaskOf
  <2> QED BY <1>2, <2>1 DEF TableSound, Shape
<1> QED BY <1>1, <1>2

\* A command that is forked is nobody else's.
LEMMA ForkKeeps ==
    ASSUME BreakInv, NEW s \in Shell, NEW c \in Command, Fork(s, c)
    PROVE  BreakInv'
<1> USE DEF BreakInv
<1>1. Shape'
  BY DEF Shape, Fork
<1>2. RunsAlone'
  BY DEF Shape, RunsAlone, Fork
<1>3. OnRecord'
  BY DEF Shape, RunsAlone, OnRecord, Fork
<1> QED BY <1>1, <1>2, <1>3 DEF TableSound, ForegroundKnowsItsTask, Fork

\* foreground_child follows what the shell runs.
LEMMA SetChildKeeps ==
    ASSUME BreakInv, NEW s \in Shell, SetChild(s)
    PROVE  BreakInv'
<1> USE DEF BreakInv
<1>1. Shape'
  BY DEF Shape, SetChild
<1>2. RunsAlone'
  BY DEF Shape, RunsAlone, SetChild
<1>3. OnRecord'
  BY DEF Shape, RunsAlone, OnRecord, SetChild
<1> QED BY <1>1, <1>2, <1>3 DEF TableSound, ForegroundKnowsItsTask, SetChild

\* foreground_kind is not looked at here.
LEMMA SetKindKeeps ==
    ASSUME BreakInv, NEW s \in Shell, SetKind(s)
    PROVE  BreakInv'
<1> USE DEF BreakInv
<1>1. /\ at' \in [Shell -> {"prompt", "forked", "named", "announcing",
                            "waiting", "reaped", "unnamed", "clearing"}]
      /\ \A r \in Shell \ {s} : at'[r] = at[r]
      /\ \/ at[s] = "named" /\ at'[s] = "announcing"
         \/ at[s] = "unnamed" /\ at'[s] = "clearing"
      /\ UNCHANGED <<running, fgChild, life, fgPid, fgTask, tasks, nextTask>>
  BY DEF Shape, SetKind
<1>2. Shape' /\ OnRecord'
  BY <1>1 DEF Shape, OnRecord
<1>3. RunsAlone'
  BY <1>1 DEF Shape, RunsAlone
<1> QED BY <1>1, <1>2, <1>3 DEF TableSound, ForegroundKnowsItsTask

\* TASK_SET_FOREGROUND takes both notes from one place.
LEMMA SetForegroundKeeps ==
    ASSUME BreakInv, NEW s \in Shell, SetForeground(s)
    PROVE  BreakInv'
<1> USE DEF BreakInv
<1>1. fgChild[s] \in Command \cup {None}
  BY DEF Shape
<1>2. /\ TaskOf(fgChild[s]) \in Nat
      /\ TaskOf(fgChild[s]) < nextTask
      /\ \A t \in tasks : fgChild[s] = t.pid <=> TaskOf(fgChild[s]) = t.id
  BY <1>1, TaskOfFinds
<1>3. /\ at' \in [Shell -> {"prompt", "forked", "named", "announcing",
                            "waiting", "reaped", "unnamed", "clearing"}]
      /\ \A r \in Shell \ {s} : at'[r] = at[r]
      /\ \/ at[s] = "announcing" /\ at'[s] = "waiting"
         \/ at[s] = "clearing" /\ at'[s] = "prompt"
      /\ fgPid' = [fgPid EXCEPT ![s] = fgChild[s]]
      /\ fgTask' = [fgTask EXCEPT ![s] = TaskOf(fgChild[s])]
      /\ UNCHANGED <<running, fgChild, life, tasks, nextTask>>
  BY DEF Shape, SetForeground
<1>4. Shape'
  BY <1>1, <1>2, <1>3 DEF Shape
<1>5. TableSound'
  BY <1>2, <1>3 DEF Shape, TableSound
<1>6. RunsAlone'
  BY <1>3 DEF Shape, RunsAlone
<1>7. OnRecord'
  BY <1>3 DEF Shape, OnRecord
<1>8. ForegroundKnowsItsTask'
  BY <1>2, <1>3 DEF Shape, ForegroundKnowsItsTask
<1> QED BY <1>4, <1>5, <1>6, <1>7, <1>8

\* A command is over when its shell has reaped it.
LEMMA ReapKeeps ==
    ASSUME BreakInv, NEW s \in Shell, Reap(s)
    PROVE  BreakInv'
<1> USE DEF BreakInv
<1>1. running[s] \in Command
  BY DEF RunsAlone, Reap
<1>2. Shape'
  BY <1>1 DEF Shape, Reap
<1>3. RunsAlone'
  BY <1>1 DEF Shape, RunsAlone, Reap
<1>4. OnRecord'
  BY <1>1 DEF Shape, RunsAlone, OnRecord, Reap
<1> QED BY <1>2, <1>3, <1>4 DEF TableSound, ForegroundKnowsItsTask, Reap

\* TASK_BREAK_FOREGROUND forgets the process only when it has no task.
LEMMA BreakForegroundKeeps ==
    ASSUME BreakInv, NEW s \in Shell, BreakForeground(s)
    PROVE  BreakInv'
<1> USE DEF BreakInv
<1>1. UNCHANGED <<at, running, fgChild, life, fgTask, tasks, nextTask>>
  BY DEF BreakForeground
<1>2. CASE UNCHANGED fgPid
  BY <1>1, <1>2 DEF Shape, TableSound, RunsAlone, OnRecord, ForegroundKnowsItsTask
<1>3. CASE /\ fgPid' = [fgPid EXCEPT ![s] = None]
           /\ \A t \in tasks : t.id # fgTask[s]
  <2>1. Shape' /\ OnRecord'
    BY <1>1, <1>3 DEF Shape, OnRecord
  <2>2. ForegroundKnowsItsTask'
    BY <1>1, <1>3 DEF Shape, TableSound, ForegroundKnowsItsTask
  <2> QED BY <1>1, <2>1, <2>2 DEF TableSound, RunsAlone
<1> QED BY <1>2, <1>3 DEF BreakForeground

\* TASK_ATTACH tells the one session that may be waiting for the task.
LEMMA AttachTaskKeeps ==
    ASSUME BreakInv, NEW s \in Shell, NEW c \in Command, AttachTask(s, c)
    PROVE  BreakInv'
<1> DEFINE new == [id |-> nextTask, pid |-> c]
<1>1. /\ running[s] = c /\ life[c] = "running"
      /\ tasks' = tasks \cup {new}
      /\ nextTask' = nextTask + 1
      /\ fgTask' = IF fgPid[s] = c THEN [fgTask EXCEPT ![s] = nextTask] ELSE fgTask
      /\ UNCHANGED <<at, running, fgChild, life, fgPid>>
  BY DEF AttachTask, shellVars
<1>2. \A t \in tasks : t.pid # c
  <2>1. TaskOf(c) = 0
    BY DEF AttachTask
  <2> QED BY <2>1, TaskOfFinds DEF BreakInv, TableSound
<1>3. new.id = nextTask /\ new.pid = c
  OBVIOUS
<1>4. Shape'
  BY <1>1 DEF BreakInv, Shape
<1>5. TableSound'
  <2>1. \A t \in tasks' : t.id \in Nat /\ 0 < t.id /\ t.id < nextTask' /\ t.pid \in Command
    BY <1>1, <1>3 DEF BreakInv, Shape, TableSound
  <2>2. \A t, u \in tasks' : t.id = u.id \/ t.pid = u.pid => t = u
    BY <1>1, <1>2, <1>3 DEF BreakInv, Shape, TableSound
  <2>3. \A r \in Shell : fgTask'[r] < nextTask'
    BY <1>1 DEF BreakInv, Shape, TableSound
  <2> QED BY <1>1, <2>1, <2>2, <2>3 DEF BreakInv, Shape, TableSound
<1>6. RunsAlone' /\ OnRecord'
  BY <1>1 DEF BreakInv, RunsAlone, OnRecord
<1>7. \A r \in Shell : fgPid[r] = c => r = s
  BY <1>1 DEF BreakInv, RunsAlone, OnRecord
<1>8. ForegroundKnowsItsTask'
  <2> SUFFICES ASSUME NEW r \in Shell, NEW t \in tasks'
               PROVE  fgPid[r] = t.pid <=> fgTask'[r] = t.id
    BY <1>1 DEF ForegroundKnowsItsTask
  <2>1. CASE t = new
    BY <1>1, <1>3, <1>7, <2>1 DEF BreakInv, Shape, TableSound
  <2>2. CASE t \in tasks
    <3>1. t.pid # c /\ t.id < nextTask /\ t.id \in Nat
      BY <1>2, <2>2 DEF BreakInv, TableSound
    <3>2. fgPid[r] = t.pid <=> fgTask[r] = t.id
      BY <2>2 DEF BreakInv, ForegroundKnowsItsTask
    <3>3. CASE r = s /\ fgPid[s] = c
      BY <1>1, <3>1, <3>3 DEF BreakInv, Shape
    <3>4. CASE ~(r = s /\ fgPid[s] = c)
      BY <1>1, <3>2, <3>4 DEF BreakInv, Shape
    <3> QED BY <3>3, <3>4
  <2> QED BY <1>1, <2>1, <2>2
<1> QED BY <1>4, <1>5, <1>6, <1>8 DEF BreakInv

\* Steps that leave the broker's tables and the shells' variables alone.
LEMMA OthersKeep ==
    ASSUME BreakInv,
           UNCHANGED <<at, running, fgChild, life, fgPid, fgTask, tasks, nextTask>>
    PROVE  BreakInv'
BY DEF BreakInv, Shape, TableSound, RunsAlone, OnRecord, ForegroundKnowsItsTask

\* A command exits; it is still its shell's until it is reaped.
LEMMA ExitKeeps ==
    ASSUME BreakInv, NEW c \in Command, Exit(c)
    PROVE  BreakInv'
<1>1. UNCHANGED <<at, running, fgChild, fgPid, fgTask, tasks, nextTask>>
  BY DEF Exit, shellVars
<1>2. Shape' /\ RunsAlone' /\ OnRecord'
  BY <1>1 DEF BreakInv, Shape, RunsAlone, OnRecord, Exit
<1> QED BY <1>1, <1>2 DEF BreakInv, TableSound, ForegroundKnowsItsTask

\* A task less in the table.
LEMMA DropTaskKeeps ==
    ASSUME BreakInv, NEW t \in tasks, DropTask(t)
    PROVE  BreakInv'
<1>1. /\ UNCHANGED <<at, running, fgChild, life, fgPid, fgTask, nextTask>>
      /\ tasks' \subseteq tasks
  BY DEF DropTask, shellVars
<1> QED BY <1>1
           DEF BreakInv, Shape, TableSound, RunsAlone, OnRecord, ForegroundKnowsItsTask

-----------------------------------------------------------------------------
\* BreakInv is inductive.
THEOREM BreaksInductive == Spec => []BreakInv
<1>1. Init => BreakInv
  BY DEF Init, BreakInv, Shape, TableSound, RunsAlone, OnRecord, ForegroundKnowsItsTask
<1>2. BreakInv /\ [Next]_vars => BreakInv'
  <2> SUFFICES ASSUME BreakInv, [Next]_vars PROVE BreakInv'
    OBVIOUS
  <2>1. ASSUME NEW s \in Shell, NEW c \in Command, Fork(s, c) \/ AttachTask(s, c)
        PROVE  BreakInv'
    BY <2>1, ForkKeeps, AttachTaskKeeps
  <2>2. ASSUME NEW s \in Shell, NEW e \in Event, Press(s, e)
        PROVE  BreakInv'
    BY <2>2, OthersKeep DEF Press
  <2>3. ASSUME NEW s \in Shell, ShellThread(s)
        PROVE  BreakInv'
    BY <2>3, SetChildKeeps, SetKindKeeps, SetForegroundKeeps, ReapKeeps DEF ShellThread
  <2>4. ASSUME NEW s \in Shell, DispatchThread(s)
        PROVE  BreakInv'
    <3>1. CASE Dispatch(s) \/ BreakUnrouted(s)
      BY <3>1, OthersKeep DEF Dispatch, BreakUnrouted
    <3>2. CASE BreakForeground(s)
      BY <3>2, BreakForegroundKeeps
    <3> QED BY <2>4, <3>1, <3>2 DEF DispatchThread
  <2>5. ASSUME NEW c \in Command, Exit(c)
        PROVE  BreakInv'
    BY <2>5, ExitKeeps
  <2>6. ASSUME NEW t \in tasks, DropTask(t)
        PROVE  BreakInv'
    BY <2>6, DropTaskKeeps
  <2>7. CASE UNCHANGED vars
    BY <2>7, OthersKeep DEF vars
  <2> QED BY <2>1, <2>2, <2>3, <2>4, <2>5, <2>6, <2>7 DEF Next
<1> QED BY <1>1, <1>2, PTL DEF Spec

\* The broker's note of the foreground task is the task of its note of the
\* foreground process, in whatever order they arrive.
THEOREM ForegroundIsKnown == Spec => []ForegroundKnowsItsTask
<1>1. BreakInv => ForegroundKnowsItsTask
  BY DEF BreakInv
<1> QED BY <1>1, BreaksInductive, PTL

-----------------------------------------------------------------------------
\* The bounds of the tables and pipes are part of TypeOK.

Stage == {"prompt", "forked", "named", "announcing",
          "waiting", "reaped", "unnamed", "clearing"}

Break == {NoBreak} \cup [event : Event, child : Command]

\* What the shells have, and what the broker has.
ShellTyped ==
    /\ at \in [Shell -> Stage]
    /\ running \in [Shell -> Command \cup {None}]
    /\ fgChild \in [Shell -> Command \cup {None}]
    /\ fgKind \in [Shell -> Kind]
    /\ pipe \in [Shell -> Seq(Event)]
    /\ \A s \in Shell : Len(pipe[s]) <= MaxPipe
    /\ disp \in [Shell -> Break]

BrokerTyped ==
    /\ life \in [Command -> {"unborn", "running", "exited", "reaped"}]
    /\ got \in [Command -> SUBSET Event]
    /\ fgPid \in [Shell -> Command \cup {None}]
    /\ fgTask \in [Shell -> Nat]
    /\ tasks \subseteq [id : 1..LastTask, pid : Command]
    /\ IsFiniteSet(tasks)
    /\ Cardinality(tasks) <= MaxTasks
    /\ nextTask \in 1..(LastTask + 1)
    /\ unheard \subseteq Shell

\* The break handler's process is one that exists.
LEMMA KillTyped ==
    ASSUME BrokerTyped, NEW c \in Command, NEW e \in Event, Kill(c, e)
    PROVE  got' \in [Command -> SUBSET Event]
BY DEF BrokerTyped, Kill

\* The shell's own thread, and the signal handler.
LEMMA ShellStepTyped ==
    ASSUME ShellTyped, BrokerTyped, BreakInv, NEW s \in Shell,
           \/ \E c \in Command : Fork(s, c)
           \/ \E e \in Event : Press(s, e)
           \/ ShellThread(s)
    PROVE  ShellTyped' /\ BrokerTyped'
<1>1. CASE \E c \in Command : Fork(s, c)
  BY SMTT(60), ZenonT(20), <1>1 DEF Fork, ShellTyped, BrokerTyped, Stage
<1>2. ASSUME NEW e \in Event, Press(s, e)
      PROVE  ShellTyped' /\ BrokerTyped'
  <2>1. /\ UNCHANGED <<at, running, fgChild, fgKind, disp, life, fgPid, fgTask,
                       tasks, nextTask, unheard>>
        /\ fgChild[s] \in Command
    BY SMTT(60), ZenonT(20), <1>2 DEF Press, ShellTyped
  <2>2. CASE Kill(fgChild[s], e) /\ UNCHANGED pipe
    BY SMTT(60), ZenonT(20), <2>1, <2>2, KillTyped DEF ShellTyped, BrokerTyped
  <2>3. CASE /\ Len(pipe[s]) < MaxPipe
             /\ pipe' = [pipe EXCEPT ![s] = Append(@, e)]
             /\ UNCHANGED got
    <3>1. pipe[s] \in Seq(Event)
      BY DEF ShellTyped
    <3>2. Append(pipe[s], e) \in Seq(Event) /\ Len(Append(pipe[s], e)) = Len(pipe[s]) + 1
      BY <3>1
    <3>3. Len(Append(pipe[s], e)) <= MaxPipe
      BY <2>3, <3>1, <3>2
    <3>4. pipe' \in [Shell -> Seq(Event)] /\ \A r \in Shell : Len(pipe'[r]) <= MaxPipe
      BY SMTT(60), ZenonT(20), <2>3, <3>2, <3>3 DEF ShellTyped
    <3> QED BY SMTT(60), ZenonT(20), <2>1, <2>3, <3>4 DEF ShellTyped, BrokerTyped
  <2> QED BY SMTT(30), ZenonT(20), <1>2, <2>2, <2>3 DEF Press
<1>3. CASE SetChild(s)
  BY ZenonT(40), SMTT(40), <1>3 DEF SetChild, ShellTyped, BrokerTyped, Stage
<1>4. CASE SetKind(s)
  <2>1. at' \in [Shell -> Stage] /\ fgKind' \in [Shell -> Kind]
    BY ZenonT(40), SMTT(40), <1>4 DEF SetKind, ShellTyped, Stage, Kind
  <2> QED BY <1>4, <2>1 DEF SetKind, ShellTyped, BrokerTyped
<1>5. CASE SetForeground(s)
  <2>1. fgChild[s] \in Command \cup {None}
    BY DEF ShellTyped
  <2>2. TaskOf(fgChild[s]) \in Nat
    BY SMTT(60), ZenonT(20), <2>1, TaskOfFinds DEF BreakInv
  <2>3. at' \in [Shell -> Stage]
    BY ZenonT(40), SMTT(40), <1>5 DEF SetForeground, ShellTyped, Stage
  <2>4. fgPid' \in [Shell -> Command \cup {None}] /\ fgTask' \in [Shell -> Nat]
    BY <1>5, <2>1, <2>2 DEF SetForeground, BrokerTyped
  <2> QED BY SMTT(30), ZenonT(20), <1>5, <2>3, <2>4
             DEF SetForeground, ShellTyped, BrokerTyped
<1>6. CASE Reap(s)
  BY ZenonT(40), SMTT(40), <1>6 DEF Reap, ShellTyped, BrokerTyped, Stage
<1> QED BY SMTT(60), ZenonT(20), <1>1, <1>2, <1>3, <1>4, <1>5, <1>6 DEF ShellThread

\* The dispatch thread.
LEMMA DispatchTyped ==
    ASSUME ShellTyped, BrokerTyped, NEW s \in Shell, DispatchThread(s)
    PROVE  ShellTyped' /\ BrokerTyped'
<1>1. CASE Dispatch(s)
  <2>1. pipe[s] \in Seq(Event) /\ pipe[s] # <<>> /\ Len(pipe[s]) <= MaxPipe
    BY <1>1 DEF Dispatch, ShellTyped
  <2>2. /\ Head(pipe[s]) \in Event
        /\ Tail(pipe[s]) \in Seq(Event)
        /\ Len(Tail(pipe[s])) <= MaxPipe
    BY <2>1
  <2>3. pipe' \in [Shell -> Seq(Event)] /\ \A r \in Shell : Len(pipe'[r]) <= MaxPipe
    BY SMTT(30), ZenonT(20), <1>1, <2>2 DEF Dispatch, ShellTyped
  <2>4. disp' \in [Shell -> Break]
    BY <1>1, <2>2 DEF Dispatch, ShellTyped, Break
  <2> QED BY SMTT(60), ZenonT(20), <1>1, <2>3, <2>4
             DEF Dispatch, ShellTyped, BrokerTyped
<1>2. CASE BreakForeground(s) \/ BreakUnrouted(s)
  <2>1. /\ disp[s] \in [event : Event, child : Command]
        /\ disp' = [disp EXCEPT ![s] = NoBreak]
        /\ UNCHANGED <<at, running, fgChild, fgKind, pipe, life, fgTask, tasks, nextTask>>
    BY SMTT(60), ZenonT(20), <1>2 DEF BreakForeground, BreakUnrouted, ShellTyped, Break
  <2>2. ShellTyped'
    BY <2>1 DEF ShellTyped, Break
  <2>3. disp[s].event \in Event /\ disp[s].child \in Command
    BY <2>1
  <2>4. FallBack(s) => got' \in [Command -> SUBSET Event] /\ unheard' \subseteq Shell
    BY <2>3, KillTyped DEF FallBack, BrokerTyped
  <2>5. ASSUME NEW Reached, Routed(s, Reached)
        PROVE  got' \in [Command -> SUBSET Event] /\ unheard' \subseteq Shell
    BY SMTT(60), ZenonT(20), <2>3, <2>5 DEF Routed, BrokerTyped
  <2>6. got' \in [Command -> SUBSET Event] /\ unheard' \subseteq Shell
    BY ZenonT(40), SMTT(40), <1>2, <2>4, <2>5 DEF BreakForeground, BreakUnrouted
  <2>7. fgPid' \in [Shell -> Command \cup {None}]
    BY <1>2 DEF BreakForeground, BreakUnrouted, BrokerTyped
  <2> QED BY SMTT(60), ZenonT(20), <2>1, <2>2, <2>6, <2>7 DEF BrokerTyped
<1> QED BY <1>1, <1>2 DEF DispatchThread

\* The broker's task table.
LEMMA TableTyped ==
    ASSUME ShellTyped, BrokerTyped,
           \/ \E s \in Shell : \E c \in Command : AttachTask(s, c)
           \/ \E c \in Command : Exit(c)
           \/ \E t \in tasks : DropTask(t)
    PROVE  ShellTyped' /\ BrokerTyped'
<1>1. Cardinality(tasks) \in Nat
  BY FS_CardinalityType DEF BrokerTyped
<1>2. ASSUME NEW s \in Shell, NEW c \in Command, AttachTask(s, c)
      PROVE  ShellTyped' /\ BrokerTyped'
  <2> DEFINE new == [id |-> nextTask, pid |-> c]
  <2>1. /\ nextTask <= LastTask /\ Cardinality(tasks) < MaxTasks
        /\ tasks' = tasks \cup {new}
        /\ nextTask' = nextTask + 1
        /\ fgTask' = IF fgPid[s] = c THEN [fgTask EXCEPT ![s] = nextTask] ELSE fgTask
        /\ UNCHANGED <<shellVars, life, got, fgPid, unheard>>
    BY SMTT(60), ZenonT(20), <1>2 DEF AttachTask
  <2>2. /\ IsFiniteSet(tasks')
        /\ Cardinality(tasks') = IF new \in tasks THEN Cardinality(tasks)
                                 ELSE Cardinality(tasks) + 1
    BY ZenonT(40), SMTT(40), <2>1, FS_AddElement DEF BrokerTyped
  <2>3. Cardinality(tasks') <= MaxTasks
    BY <1>1, <2>1, <2>2
  <2>4. /\ tasks' \subseteq [id : 1..LastTask, pid : Command]
        /\ nextTask' \in 1..(LastTask + 1)
        /\ fgTask' \in [Shell -> Nat]
    BY <2>1 DEF BrokerTyped
  <2> QED BY SMTT(60), ZenonT(20), <2>1, <2>2, <2>3, <2>4
             DEF ShellTyped, BrokerTyped, shellVars
<1>3. ASSUME NEW c \in Command, Exit(c)
      PROVE  ShellTyped' /\ BrokerTyped'
  BY SMTT(60), ZenonT(20), <1>3 DEF Exit, ShellTyped, BrokerTyped, shellVars
<1>4. ASSUME NEW t \in tasks, DropTask(t)
      PROVE  ShellTyped' /\ BrokerTyped'
  <2>1. tasks' = tasks \ {t} /\ UNCHANGED <<shellVars, life, got, fgPid, fgTask, nextTask, unheard>>
    BY <1>4 DEF DropTask
  <2>2. IsFiniteSet(tasks') /\ Cardinality(tasks') <= Cardinality(tasks)
    BY <2>1, FS_Subset DEF BrokerTyped
  <2>3. Cardinality(tasks') <= MaxTasks
    BY <1>1, <2>2, FS_CardinalityType DEF BrokerTyped
  <2> QED BY SMTT(60), ZenonT(20), <2>1, <2>2, <2>3
             DEF ShellTyped, BrokerTyped, shellVars
<1> QED BY <1>2, <1>3, <1>4

\* Every variable keeps its type: no more tasks than the table has room for, no
\* more breaks than the pipe holds, and a break is for a process that existed.
THEOREM BreaksAreTyped == Spec => []TypeOK
<1>1. Init => ShellTyped /\ BrokerTyped
  <2> SUFFICES ASSUME Init PROVE ShellTyped /\ BrokerTyped
    OBVIOUS
  <2>1. ShellTyped
    BY DEF Init, ShellTyped, Stage, Kind, Break
  <2>2. BrokerTyped
    BY FS_EmptySet DEF Init, BrokerTyped
  <2> QED BY <2>1, <2>2
<1>2. ShellTyped /\ BrokerTyped /\ BreakInv /\ [Next]_vars => ShellTyped' /\ BrokerTyped'
  <2> SUFFICES ASSUME ShellTyped, BrokerTyped, BreakInv, [Next]_vars
               PROVE  ShellTyped' /\ BrokerTyped'
    OBVIOUS
  <2>1. CASE Next
    BY SMTT(60), ZenonT(20), <2>1, ShellStepTyped, DispatchTyped, TableTyped DEF Next
  <2>2. CASE UNCHANGED vars
    BY SMTT(60), ZenonT(20), <2>2 DEF vars, ShellTyped, BrokerTyped
  <2> QED BY <2>1, <2>2
<1>3. ShellTyped /\ BrokerTyped => TypeOK
  BY SMTT(30), ZenonT(20) DEF ShellTyped, BrokerTyped, TypeOK, Stage, Break
<1> QED BY <1>1, <1>2, <1>3, BreaksInductive, PTL DEF Spec

-----------------------------------------------------------------------------
(***************************************************************************)
(* What becomes of a break in the command that got it (ExecSignals), for   *)
(* any number of breaks and messages.  No wake-up is lost is inductive     *)
(* with the types.  That a break is kept needs to know who a break can be  *)
(* for: nothing is delivered before the thread has become the process's    *)
(* task (OnlyTheProcess), so that taking that identity leaves no break     *)
(* behind with the old one.                                                *)
(***************************************************************************)
CONSTANTS MaxBreaks, MaxMessages
VARIABLES current_task, known, pending_signals, broker_pending_signals,
          host_pending_signals, host_signal_target, signalPipe, owner, queue,
          putting, place, woken, sent, seen, owed, messages

E == INSTANCE ExecSignals WITH tasks <- known, pipe <- signalPipe, at <- place

Types ==
    /\ current_task \in E!Task /\ known \subseteq E!Task
    /\ pending_signals \in [E!Task -> SUBSET E!Signals]
    /\ broker_pending_signals \subseteq {E!Break}
    /\ host_pending_signals \subseteq {E!Break}
    /\ host_signal_target \in {E!None, "process"} /\ owner \in E!Task \cup {E!None}
    /\ place \in {"running", "wait", "waitport", "emptied"} \X SUBSET E!Signals
    /\ putting \in BOOLEAN /\ woken \in BOOLEAN /\ owed \in BOOLEAN
    /\ queue \in Nat

\* Whatever can bring a break to the process, and a break that has come, are
\* there only once the thread goes by the process's task.
OnlyTheProcess ==
    current_task # "process" =>
        /\ "process" \notin known /\ owner # "process"
        /\ host_signal_target = E!None
        /\ host_pending_signals = {} /\ ~owed

\* PutMsg signals a port that has an owner.
PortIsOwned == (putting \/ place[1] \in {"waitport", "emptied"}) => owner # E!None

IInv == Types /\ OnlyTheProcess /\ PortIsOwned /\ E!NoLostWakeup /\ E!BreakIsKept

LEMMA SignalsInit == E!Init => IInv
<1> SUFFICES ASSUME E!Init PROVE IInv
  OBVIOUS
<1>1. Types
  BY ZenonT(40), SMTT(40) DEF E!Init, Types, E!Task, E!None, E!Signals
<1>2. place[1] = "running" /\ ~owed /\ ~putting /\ current_task = "implicit"
  BY DEF E!Init
<1>3. OnlyTheProcess
  BY <1>2 DEF E!Init, OnlyTheProcess, E!None
<1> QED
  BY <1>1, <1>2, <1>3 DEF IInv, PortIsOwned, E!NoLostWakeup, E!BreakIsKept

USE DEF E!Task, E!None, E!Break, E!PortBit, E!Signals

LEMMA BecomesProcess ==
    ASSUME IInv, E!ace_aros_runtime_set_current_task
    PROVE  IInv'
<1> USE DEF IInv, E!ace_aros_runtime_set_current_task, E!Running
<1>1. Types'
  BY DEF Types
<1>2. OnlyTheProcess' /\ PortIsOwned'
  BY DEF OnlyTheProcess, PortIsOwned
<1>3. E!NoLostWakeup'
  BY DEF E!NoLostWakeup, Types
<1>4. E!BreakIsKept'
  BY DEF E!BreakIsKept, OnlyTheProcess
<1> QED
  BY SMTT(60), ZenonT(20), <1>1, <1>2, <1>3, <1>4

LEMMA LocalBreak ==
    ASSUME IInv, E!ace_aros_runtime_signal_local_tasks
    PROVE  IInv'
<1> USE DEF IInv, E!ace_aros_runtime_signal_local_tasks, E!BroadcastToTasks
<1>1. Types'
  BY DEF Types
<1>2. OnlyTheProcess' /\ PortIsOwned'
  BY DEF OnlyTheProcess, PortIsOwned
<1>3. E!NoLostWakeup'
  BY ZenonT(40), SMTT(40) DEF E!NoLostWakeup, Types
<1>4. E!BreakIsKept'
  BY SMTT(30), ZenonT(20) DEF E!BreakIsKept
<1> QED
  BY SMTT(60), ZenonT(20), <1>1, <1>2, <1>3, <1>4

LEMMA HostBreak == ASSUME IInv, E!host_break_handler PROVE IInv'
BY DEF IInv, E!host_break_handler, Types, OnlyTheProcess, PortIsOwned,
       E!NoLostWakeup, E!BreakIsKept

LEMMA HostDispatch == ASSUME IInv, E!host_signal_dispatch PROVE IInv'
<1> USE DEF IInv, E!host_signal_dispatch, E!host_signal_broadcast
<1>1. Types'
  <2>1. CASE host_signal_target = E!None
    BY ZenonT(40), SMTT(40), <2>1 DEF Types
  <2>2. CASE host_signal_target = "process"
    <3>1. pending_signals' \in [E!Task -> SUBSET E!Signals]
      BY <2>2 DEF Types
    <3>2. woken' \in BOOLEAN /\ owed' \in BOOLEAN /\ host_pending_signals' = {}
      BY <2>2 DEF Types
    <3> QED
      BY SMTT(30), ZenonT(20), <3>1, <3>2 DEF Types
  <2> QED
    BY <2>1, <2>2 DEF Types
<1>2. OnlyTheProcess' /\ PortIsOwned'
  BY DEF OnlyTheProcess, PortIsOwned
<1>3. E!NoLostWakeup'
  BY ZenonT(40), SMTT(40) DEF E!NoLostWakeup, Types
<1>4. E!BreakIsKept'
  <2>1. CASE host_signal_target = E!None
    BY ZenonT(40), SMTT(40), <2>1 DEF E!BreakIsKept
  <2>2. CASE host_signal_target # E!None
    <3>1. host_signal_target = "process" /\ current_task = "process"
      BY <2>2 DEF Types, OnlyTheProcess
    <3> QED
      BY SMTT(30), ZenonT(20), <2>2, <3>1 DEF E!BreakIsKept, Types
  <2> QED
    BY <2>1, <2>2
<1> QED
  BY SMTT(60), ZenonT(20), <1>1, <1>2, <1>3, <1>4

LEMMA RaisedFromHost ==
    ASSUME IInv, E!ace_aros_runtime_raise_from_host
    PROVE  IInv'
<1> USE DEF IInv, E!ace_aros_runtime_raise_from_host
<1>1. Types'
  BY DEF Types
<1>2. OnlyTheProcess' /\ PortIsOwned' /\ E!NoLostWakeup' /\ E!BreakIsKept'
  BY DEF OnlyTheProcess, PortIsOwned, E!NoLostWakeup, E!BreakIsKept
<1> QED
  BY SMTT(30), ZenonT(20), <1>1, <1>2

\* What merge_host_signals_locked leaves in the caller's task state.
LEMMA MergedIs ==
    ASSUME Types
    PROVE  /\ E!Merged \in [E!Task -> SUBSET E!Signals]
           /\ E!Merged[current_task] = pending_signals[current_task]
                                       \cup host_pending_signals
BY ZenonT(40), SMTT(40) DEF Types, E!Merged

LEMMA Looks ==
    ASSUME IInv, NEW mask \in SUBSET E!Signals, E!WaitLooks(mask)
    PROVE  IInv'
<1> USE DEF IInv
<1>0. /\ E!Merged \in [E!Task -> SUBSET E!Signals]
      /\ E!Merged[current_task] = pending_signals[current_task]
                                  \cup host_pending_signals
  BY MergedIs
<1>1. CASE E!Found(mask) = {}
  <2>1. /\ pending_signals' = E!Merged /\ place' = <<"wait", mask>>
        /\ UNCHANGED <<broker_pending_signals, current_task, owner, putting,
                       host_signal_target, queue>>
        /\ owed' = (owed \/ host_pending_signals # {})
        /\ host_pending_signals' = {} /\ known' = known \cup {current_task}
        /\ woken' = FALSE
    BY <1>1 DEF E!WaitLooks
  <2>2. Types'
    BY ZenonT(40), SMTT(40), <1>0, <2>1 DEF Types
  <2>3. OnlyTheProcess'
    BY ZenonT(40), SMTT(40), <2>1 DEF OnlyTheProcess, Types
  <2>4. PortIsOwned'
    BY <2>1 DEF PortIsOwned
  <2>5. E!NoLostWakeup'
    BY SMTT(30), ZenonT(20), <1>0, <1>1, <2>1 DEF E!NoLostWakeup, E!Found
  <2>6. E!BreakIsKept'
    BY SMTT(60), ZenonT(20), <1>0, <2>1 DEF E!BreakIsKept, Types
  <2> QED
    BY SMTT(30), ZenonT(20), <2>2, <2>3, <2>4, <2>5, <2>6
<1>2. CASE E!Found(mask) # {}
  <2>1. /\ pending_signals' = [E!Merged EXCEPT ![current_task] = @ \ E!Found(mask)]
        /\ broker_pending_signals' = broker_pending_signals \ E!Found(mask)
        /\ owed' = ((owed \/ host_pending_signals # {}) /\ E!Break \notin E!Found(mask))
        /\ place' = <<"running", {}>>
        /\ UNCHANGED <<current_task, owner, putting, host_signal_target, queue>>
        /\ host_pending_signals' = {} /\ known' = known \cup {current_task}
        /\ woken' = FALSE
    BY <1>2 DEF E!WaitLooks, E!WaitClears, E!Took
  <2>2. Types'
    BY ZenonT(40), SMTT(40), <1>0, <2>1 DEF Types
  <2>3. OnlyTheProcess'
    BY ZenonT(40), SMTT(40), <2>1 DEF OnlyTheProcess, Types
  <2>4. PortIsOwned'
    BY SMTT(30), ZenonT(20), <2>1 DEF PortIsOwned
  <2>5. E!NoLostWakeup'
    BY <2>1 DEF E!NoLostWakeup
  <2>6. E!BreakIsKept'
    <3> SUFFICES ASSUME owed'
                 PROVE  E!Break \in pending_signals'[current_task]
                                    \cup broker_pending_signals'
      BY SMTT(30), ZenonT(20), <2>1 DEF E!BreakIsKept
    <3>1. E!Break \in E!Merged[current_task] \cup broker_pending_signals
      BY <1>0, <2>1 DEF E!BreakIsKept, Types
    <3>2. E!Break \notin E!Found(mask)
      BY ZenonT(40), SMTT(40), <2>1
    <3>3. pending_signals'[current_task] = E!Merged[current_task] \ E!Found(mask)
      BY <1>0, <2>1 DEF Types
    <3> QED
      BY SMTT(60), ZenonT(20), <2>1, <3>1, <3>2, <3>3
  <2> QED
    BY <2>2, <2>3, <2>4, <2>5, <2>6
<1> QED
  BY <1>1, <1>2

LEMMA Waits == ASSUME IInv, E!Wait PROVE IInv'
<1>1. ASSUME NEW mask \in E!Masks, E!WaitLooks(mask) PROVE IInv'
  BY <1>1, Looks DEF E!Masks
<1>2. place[2] \in SUBSET E!Signals
  BY DEF IInv, Types
<1> QED
  BY <1>1, <1>2, Looks DEF E!Wait

LEMMA SetsSignal == ASSUME IInv, E!ace_aros_runtime_set_signal PROVE IInv'
<1> USE DEF IInv
<1>0. /\ E!Merged \in [E!Task -> SUBSET E!Signals]
      /\ E!Merged[current_task] = pending_signals[current_task]
                                  \cup host_pending_signals
  BY MergedIs
<1>1. PICK clear \in SUBSET {E!Break} :
        /\ pending_signals' = [E!Merged EXCEPT ![current_task] = @ \ clear]
        /\ owed' = ((owed \/ host_pending_signals # {})
                      /\ E!Break \notin E!Merged[current_task] \cap clear)
  BY ZenonT(40), SMTT(40) DEF E!ace_aros_runtime_set_signal, E!Took
<1>2. /\ place[1] = "running" /\ current_task = "process"
      /\ host_pending_signals' = {}
      /\ UNCHANGED <<current_task, known, broker_pending_signals, owner, putting,
                     host_signal_target, queue, place, woken>>
  BY DEF E!ace_aros_runtime_set_signal, E!Running
<1>3. Types'
  BY SMTT(30), ZenonT(20), <1>0, <1>1, <1>2 DEF Types
<1>4. OnlyTheProcess' /\ PortIsOwned' /\ E!NoLostWakeup'
  BY <1>2 DEF OnlyTheProcess, PortIsOwned, E!NoLostWakeup
<1>5. E!BreakIsKept'
  <2> SUFFICES ASSUME owed'
               PROVE  E!Break \in pending_signals'[current_task]
                                  \cup broker_pending_signals
    BY SMTT(30), ZenonT(20), <1>2 DEF E!BreakIsKept
  <2>1. E!Break \in E!Merged[current_task] \cup broker_pending_signals
    BY <1>0, <1>1 DEF E!BreakIsKept, Types
  <2>2. E!Break \notin E!Merged[current_task] \cap clear
    BY ZenonT(40), SMTT(40), <1>1
  <2>3. pending_signals'[current_task] = E!Merged[current_task] \ clear
    BY <1>0, <1>1 DEF Types
  <2> QED
    BY SMTT(30), ZenonT(20), <2>1, <2>2, <2>3
<1> QED
  BY <1>3, <1>4, <1>5

LEMMA ChecksSignal == ASSUME IInv, E!ace_aros_runtime_check_signal PROVE IInv'
<1> USE DEF IInv
<1>0. /\ E!Merged \in [E!Task -> SUBSET E!Signals]
      /\ E!Merged[current_task] = pending_signals[current_task]
                                  \cup host_pending_signals
  BY MergedIs
<1>1. /\ place[1] = "running" /\ current_task = "process"
      /\ host_pending_signals # {} /\ host_pending_signals' = {}
      /\ pending_signals' = E!Merged /\ owed' = TRUE
      /\ UNCHANGED <<current_task, known, broker_pending_signals, owner, putting,
                     host_signal_target, queue, place, woken>>
  BY DEF E!ace_aros_runtime_check_signal, E!Running
<1>2. Types'
  BY SMTT(30), ZenonT(20), <1>0, <1>1 DEF Types
<1>3. OnlyTheProcess' /\ PortIsOwned' /\ E!NoLostWakeup'
  BY <1>1 DEF OnlyTheProcess, PortIsOwned, E!NoLostWakeup
<1>4. E!BreakIsKept'
  BY SMTT(60), ZenonT(20), <1>0, <1>1 DEF E!BreakIsKept, Types
<1> QED
  BY <1>2, <1>3, <1>4

\* The calls on the port take no break away and wake whoever waits for what
\* they bring.
LEMMA PortCalls ==
    ASSUME IInv, \/ E!CreateMsgPort \/ E!PutMsg \/ E!PutMsgSignals \/ E!WaitPort
                 \/ E!GetMsg \/ E!GetMsgClears
    PROVE  IInv'
<1> USE DEF IInv, Types
<1>1. CASE E!CreateMsgPort
  BY SMTT(60), ZenonT(20), <1>1
     DEF E!CreateMsgPort, E!Running, OnlyTheProcess, PortIsOwned, E!NoLostWakeup,
              E!BreakIsKept
<1>2. CASE E!PutMsg
  <2>1. Types'
    BY SMTT(60), ZenonT(20), <1>2 DEF E!PutMsg
  <2>2. OnlyTheProcess' /\ PortIsOwned' /\ E!BreakIsKept'
    BY <1>2 DEF E!PutMsg, OnlyTheProcess, PortIsOwned, E!BreakIsKept
  <2>3. E!NoLostWakeup'
    BY ZenonT(40), SMTT(40), <1>2 DEF E!PutMsg, E!NoLostWakeup
  <2> QED
    BY SMTT(60), ZenonT(20), <2>1, <2>2, <2>3
<1>3. CASE E!PutMsgSignals
  <2>1. owner \in E!Task
    BY <1>3 DEF E!PutMsgSignals, PortIsOwned
  <2>2. Types'
    BY ZenonT(40), SMTT(40), <1>3, <2>1 DEF E!PutMsgSignals
  <2>3. OnlyTheProcess' /\ PortIsOwned'
    BY <1>3 DEF E!PutMsgSignals, OnlyTheProcess, PortIsOwned
  <2>4. E!NoLostWakeup'
    BY ZenonT(40), SMTT(40), <1>3 DEF E!PutMsgSignals, E!NoLostWakeup
  <2>5. E!BreakIsKept'
    BY SMTT(60), ZenonT(20), <1>3, <2>1 DEF E!PutMsgSignals, E!BreakIsKept
  <2> QED
    BY SMTT(60), ZenonT(20), <2>2, <2>3, <2>4, <2>5
<1>4. CASE E!WaitPort
  <2>1. /\ place' = <<"running", {}>> \/ (place' = <<"waitport", {}>> /\ queue = 0)
        /\ woken' = FALSE /\ owner # E!None
        /\ UNCHANGED <<current_task, known, pending_signals, host_pending_signals,
                       broker_pending_signals, host_signal_target, owner, queue,
                       putting, owed>>
    BY <1>4 DEF E!WaitPort
  <2>2. Types'
    <3>1. place' \in {"running", "wait", "waitport", "emptied"} \X SUBSET E!Signals
      BY SMTT(60), ZenonT(20), <2>1
    <3> QED
      BY ZenonT(40), SMTT(40), <2>1, <3>1
  <2>3. OnlyTheProcess' /\ PortIsOwned' /\ E!BreakIsKept'
    BY SMTT(60), ZenonT(20), <2>1 DEF OnlyTheProcess, PortIsOwned, E!BreakIsKept
  <2>4. E!NoLostWakeup'
    BY SMTT(60), ZenonT(20), <2>1 DEF E!NoLostWakeup
  <2> QED
    BY <2>2, <2>3, <2>4
<1>5. CASE E!GetMsg
  BY SMTT(60), ZenonT(20), <1>5
     DEF E!GetMsg, E!Running, OnlyTheProcess, PortIsOwned, E!NoLostWakeup,
              E!BreakIsKept
<1>6. CASE E!GetMsgClears
  <2>1. owner \in E!Task
    BY SMTT(60), ZenonT(20), <1>6 DEF E!GetMsgClears, PortIsOwned
  <2>2. Types'
    BY SMTT(60), ZenonT(20), <1>6, <2>1 DEF E!GetMsgClears
  <2>3. OnlyTheProcess' /\ PortIsOwned' /\ E!NoLostWakeup'
    BY SMTT(60), ZenonT(20), <1>6
       DEF E!GetMsgClears, OnlyTheProcess, PortIsOwned, E!NoLostWakeup
  <2>4. E!BreakIsKept'
    BY <1>6, <2>1 DEF E!GetMsgClears, E!BreakIsKept
  <2> QED
    BY SMTT(60), ZenonT(20), <2>2, <2>3, <2>4
<1> QED
  BY SMTT(60), ZenonT(20), <1>1, <1>2, <1>3, <1>4, <1>5, <1>6

\* The invariant holds in every reachable state, whatever is sent and polled
\* in whatever order.
THEOREM SignalsInductive == E!Spec => []IInv
<1>1. IInv /\ [E!Next]_E!vars => IInv'
  <2> SUFFICES ASSUME IInv, [E!Next]_E!vars PROVE IInv'
    OBVIOUS
  <2>1. CASE UNCHANGED E!vars
    BY SMTT(30), ZenonT(20), <2>1
       DEF E!vars, IInv, Types, OnlyTheProcess, PortIsOwned, E!NoLostWakeup,
           E!BreakIsKept
  <2>2. CASE E!Next
    BY SMTT(60), ZenonT(20), <2>2, BecomesProcess, LocalBreak, HostBreak,
       HostDispatch, RaisedFromHost, Waits, SetsSignal, ChecksSignal, PortCalls DEF E!Next
  <2> QED
    BY <2>1, <2>2
<1> QED
  BY SignalsInit, <1>1, PTL DEF E!Spec

\* A thread that sleeps unwoken in Wait() or WaitPort() waits for what has not
\* come, however many breaks and messages there are.
THEOREM NoWakeupIsLost == E!Spec => []E!NoLostWakeup
BY SignalsInductive, PTL DEF IInv

\* A break that was delivered stays where the next Wait() finds it until the
\* command takes it, through polls, other waits and the change of identity of
\* the first DOS call.
THEOREM BreaksAreKept == E!Spec => []E!BreakIsKept
BY SignalsInductive, PTL DEF IInv
=============================================================================
