------------------------------ MODULE Supervisor ------------------------------
(***************************************************************************)
(* run_bounded of ci/native_process.py, called as this repository does,    *)
(* without a session and not interactive: one command, the processes that  *)
(* it starts, the pipe that holds their output and the loop that reads it, *)
(* polls the command and ends all of them.                                 *)
(*                                                                         *)
(* The processes and the clock are external.  A process may start others,  *)
(* write, close its output, leave the group or exit at any time, whatever  *)
(* it does with SIGTERM; SIGKILL is certain and takes its time.  A byte is *)
(* its author.                                                             *)
(*                                                                         *)
(* LaunchUnchecked, ReadKeepingHead, PollAtOnce and WaitGraceOnly are      *)
(* faults, part of no specification: the properties are tested against     *)
(* them.                                                                   *)
(***************************************************************************)
EXTENDS Naturals, Sequences, FiniteSets, SequencesExt

CONSTANTS Proc, Leader,
          OutputLimit,   \* output_limit
          ReadSize,      \* bytes taken by one os.read
          PipeCapacity,
          MaxInterrupts  \* exceptions raised by signal handlers (gate.py:42-45)

ASSUME SupervisorAssumption ==
    /\ Leader \in Proc
    /\ OutputLimit \in Nat \ {0} /\ ReadSize \in Nat \ {0} /\ PipeCapacity \in Nat \ {0}
    /\ MaxInterrupts \in Nat

VARIABLES
    proc,        \* state of each process
    group,       \* members of the command's process group
    holders,     \* processes with the output pipe open for writing
    pipe,
    pc,          \* of run_bounded
    late,        \* timeout seconds have passed
    registered,  \* the selector watches the pipe
    events,      \* what select returned
    polled,      \* the return code is known: the leader has been reaped
    tail, truncated,
    outcome,
    open,        \* process.stdout is open
    interrupts,
    written,     \* history: the last HistorySize bytes written
    fresh        \* history: bytes written since the last select, up to PipeCapacity

processes == <<proc, group, holders>>
loop == <<registered, events, tail, truncated>>
ended == <<polled, outcome, open>>
history == <<written, fresh>>
vars == <<processes, pipe, pc, late, loop, ended, interrupts, history>>

Smaller(a, b) == IF a < b THEN a ELSE b
LastOf(s, n) == SubSeq(s, Len(s) - Smaller(n, Len(s)) + 1, Len(s))

(* Enough to tell the tail and what is still in the pipe. *)
HistorySize == OutputLimit + PipeCapacity

Running == {p \in Proc : proc[p] = "running"}
Killable == {p \in Proc : proc[p] \in {"forked", "armed", "running"}}

-------------------------------------------------------------------------------
Init ==
    /\ proc = [p \in Proc |-> "unborn"] /\ group = {} /\ holders = {}
    /\ pipe = <<>> /\ written = <<>> /\ fresh = 0
    /\ pc = "start" /\ late = FALSE
    /\ registered = FALSE /\ events = FALSE /\ tail = <<>> /\ truncated = FALSE
    /\ polled = FALSE /\ outcome = "none" /\ open = FALSE
    /\ interrupts = 0

Goto(from, to) == pc = from /\ pc' = to

(* The processes and the clock. *)

(* What an ended process leaves: its parent reaps it unless it is the        *)
(* leader of a supervisor that lives.                                        *)
Remains(p) == IF p = Leader /\ pc # "dead" THEN "zombie" ELSE "gone"

End(p) ==
    /\ proc' = [proc EXCEPT ![p] = Remains(p)]
    /\ holders' = holders \ {p}
    /\ UNCHANGED <<group, pipe, pc, late, loop, ended, interrupts, history>>

(* parent_death_signal: prctl, then a look at the parent. *)
Arm ==
    /\ proc[Leader] = "forked"
    /\ \/ /\ proc' = [proc EXCEPT ![Leader] = "armed"]
          /\ UNCHANGED <<group, holders, pipe, pc, late, loop, ended, interrupts, history>>
       \/ End(Leader)

Runs(p) ==
    /\ proc' = [proc EXCEPT ![p] = "running"]
    /\ UNCHANGED <<group, holders, pipe, pc, late, loop, ended, interrupts, history>>

LaunchUnchecked ==
    /\ proc[Leader] = "armed"
    /\ Runs(Leader)

Launch ==
    /\ proc[Leader] = "armed"
    /\ IF pc = "dead" THEN End(Leader) ELSE Runs(Leader)

Start(p, q) ==
    /\ p \in Running /\ proc[q] = "unborn" /\ q # Leader
    /\ proc' = [proc EXCEPT ![q] = "running"]
    /\ group' = IF p \in group THEN group \cup {q} ELSE group
    /\ holders' = IF p \in holders THEN holders \cup {q} ELSE holders
    /\ UNCHANGED <<pipe, pc, late, loop, ended, interrupts, history>>

(* The leader leads the session and cannot leave its group. *)
LeaveGroup(p) ==
    /\ p \in Running \cap group /\ p # Leader
    /\ group' = group \ {p}
    /\ UNCHANGED <<proc, holders, pipe, pc, late, loop, ended, interrupts, history>>

Write(p) ==
    /\ p \in Running \cap holders /\ open /\ Len(pipe) < PipeCapacity
    /\ pipe' = Append(pipe, p)
    /\ written' = LastOf(Append(written, p), HistorySize)
    /\ fresh' = Smaller(fresh + 1, PipeCapacity)
    /\ UNCHANGED <<processes, pc, late, loop, ended, interrupts>>

CloseOutput(p) ==
    /\ p \in Running \cap holders
    /\ holders' = holders \ {p}
    /\ UNCHANGED <<proc, group, pipe, pc, late, loop, ended, interrupts, history>>

Exit(p) == p \in Running /\ End(p)

Die(p) == proc[p] = "dying" /\ End(p)

DeadlinePasses ==
    /\ ~late /\ late' = TRUE
    /\ UNCHANGED <<processes, pipe, pc, loop, ended, interrupts, history>>

World ==
    \/ Arm \/ Launch \/ DeadlinePasses
    \/ \E p \in Proc : LeaveGroup(p) \/ Write(p) \/ CloseOutput(p) \/ Exit(p) \/ Die(p)
    \/ \E p, q \in Proc : Start(p, q)

-------------------------------------------------------------------------------
(* The supervisor. *)

(* Popen forks, and returns when the child has started the command or died. *)
Spawn ==
    /\ Goto("start", "spawning")
    /\ proc' = [proc EXCEPT ![Leader] = "forked"]
    /\ group' = {Leader} /\ holders' = {Leader} /\ open' = TRUE
    /\ UNCHANGED <<pipe, late, loop, polled, outcome, interrupts, history>>

Spawned ==
    /\ Goto("spawning", "check") /\ proc[Leader] \notin {"forked", "armed"}
    /\ registered' = TRUE
    /\ UNCHANGED <<processes, pipe, late, events, tail, truncated, ended, interrupts, history>>

Raise(error) ==
    /\ pc' = "term" /\ outcome' = error
    /\ UNCHANGED <<processes, pipe, late, loop, polled, open, interrupts, history>>

Late == pc = "check" /\ late /\ Raise("deadline")

(* The watch is called when it is due, and returns or raises. *)
WatchDue ==
    /\ Goto("check", "watch") /\ ~late
    /\ UNCHANGED <<processes, pipe, late, loop, ended, interrupts, history>>

WatchReturns ==
    /\ Goto("watch", "select")
    /\ UNCHANGED <<processes, pipe, late, loop, ended, interrupts, history>>

WatchFails == pc = "watch" /\ Raise("watch")

NoWatchDue ==
    /\ Goto("check", "select") /\ ~late
    /\ UNCHANGED <<processes, pipe, late, loop, ended, interrupts, history>>

Readable == registered /\ (pipe # <<>> \/ holders = {})

(* select returns at once if there is something to read, else after 50 ms. *)
Select ==
    /\ Goto("select", IF Readable THEN "read" ELSE "poll")
    /\ events' = Readable /\ fresh' = 0
    /\ UNCHANGED <<processes, pipe, late, registered, tail, truncated, ended, interrupts, written>>

Chunk == SubSeq(pipe, 1, Smaller(ReadSize, Len(pipe)))

ReadKeepingHead ==
    /\ Goto("read", "poll")
    /\ pipe' = SubSeq(pipe, Len(Chunk) + 1, Len(pipe))
    /\ tail' = SubSeq(tail \o Chunk, 1, Smaller(OutputLimit, Len(tail \o Chunk)))
    /\ truncated' = (truncated \/ Len(tail \o Chunk) > OutputLimit)
    /\ registered' = (Chunk # <<>>)
    /\ UNCHANGED <<processes, late, events, ended, interrupts, history>>

(* os.read of what select found; no data is the end of the output. *)
Read ==
    /\ Goto("read", "poll")
    /\ pipe' = SubSeq(pipe, Len(Chunk) + 1, Len(pipe))
    /\ tail' = LastOf(tail \o Chunk, OutputLimit)
    /\ truncated' = (truncated \/ Len(tail \o Chunk) > OutputLimit)
    /\ registered' = (Chunk # <<>>)
    /\ UNCHANGED <<processes, late, events, ended, interrupts, history>>

(* process.poll() reaps the leader if it has ended. *)
Ended == polled \/ proc[Leader] = "zombie"

Reaping ==
    /\ polled' = Ended
    /\ proc' = IF Ended THEN [proc EXCEPT ![Leader] = "gone"] ELSE proc
    /\ UNCHANGED <<group, holders>>

PollAtOnce ==
    /\ Goto("poll", IF Ended THEN "result" ELSE "repoll")
    /\ Reaping
    /\ UNCHANGED <<pipe, late, loop, outcome, open, interrupts, history>>

Poll ==
    /\ Goto("poll", IF Ended /\ ~events THEN "result" ELSE "repoll")
    /\ Reaping
    /\ UNCHANGED <<pipe, late, loop, outcome, open, interrupts, history>>

Repoll ==
    /\ Goto("repoll", IF Ended /\ ~registered THEN "result" ELSE "check")
    /\ Reaping
    /\ UNCHANGED <<pipe, late, loop, outcome, open, interrupts, history>>

(* return Result(process.wait(), ...) *)
Return ==
    /\ Goto("result", "term") /\ Ended
    /\ Reaping
    /\ outcome' = "result"
    /\ UNCHANGED <<pipe, late, loop, open, interrupts, history>>

(* The finally clause.  A process may do with SIGTERM what it likes. *)
Term ==
    /\ Goto("term", "wait")
    /\ UNCHANGED <<processes, pipe, late, loop, ended, interrupts, history>>

WaitGraceOnly ==
    /\ Goto("wait", IF Ended THEN "reap" ELSE "kill")
    /\ Reaping
    /\ UNCHANGED <<pipe, late, loop, outcome, open, interrupts, history>>

(* process.wait(timeout=grace), whichever comes first *)
WaitGrace ==
    /\ Goto("wait", "kill")
    /\ Reaping
    /\ UNCHANGED <<pipe, late, loop, outcome, open, interrupts, history>>

Kill ==
    /\ Goto("kill", "reap")
    /\ proc' = [p \in Proc |-> IF p \in group \cap Killable THEN "dying" ELSE proc[p]]
    /\ UNCHANGED <<group, holders, pipe, late, loop, ended, interrupts, history>>

(* process.wait(timeout=5); if it expires stdout is left open. *)
Reap ==
    /\ Goto("reap", "returned")
    /\ Reaping
    /\ open' = ~Ended
    /\ outcome' = IF Ended THEN outcome ELSE "unreaped"
    /\ UNCHANGED <<pipe, late, loop, interrupts, history>>

(* A signal handler raises: in the loop this is a failure like others, in   *)
(* Popen and in the finally clause nothing of run_bounded runs any more.    *)
Interrupt ==
    /\ interrupts < MaxInterrupts /\ interrupts' = interrupts + 1
    /\ \/ /\ pc \in {"check", "watch", "select", "read", "poll", "repoll", "result"}
          /\ pc' = "term" /\ outcome' = "interrupted"
       \/ /\ pc \in {"spawning", "term", "wait", "kill", "reap"}
          /\ pc' = "returned" /\ outcome' = "abandoned"
    /\ UNCHANGED <<processes, pipe, late, loop, polled, open, history>>

(* The supervisor is killed: the leader that asked for it gets SIGKILL. *)
SupervisorDies ==
    /\ pc \notin {"start", "dead"} /\ pc' = "dead" /\ open' = FALSE
    /\ proc' = [proc EXCEPT ![Leader] = IF @ \in {"armed", "running"} THEN "dying"
                                        ELSE IF @ = "zombie" THEN "gone" ELSE @]
    /\ UNCHANGED <<group, holders, pipe, late, loop, polled, outcome, interrupts, history>>

Supervise ==
    \/ Spawn \/ Spawned \/ Late \/ WatchDue \/ WatchReturns \/ WatchFails \/ NoWatchDue
    \/ Select \/ Read \/ Poll \/ Repoll \/ Return
    \/ Term \/ WaitGrace \/ Kill \/ Reap

Next == World \/ Supervise \/ Interrupt \/ SupervisorDies

Spec == Init /\ [][Next]_vars

-------------------------------------------------------------------------------
(* The variables have their types; the tail never passes its limit.         *)
(* (native_process.py:94-101)                                               *)
TypeOK ==
    /\ proc \in [Proc -> {"unborn", "forked", "armed", "running", "dying", "zombie", "gone"}]
    /\ group \subseteq Proc /\ holders \subseteq Proc
    /\ pipe \in Seq(Proc) /\ Len(pipe) =< PipeCapacity
    /\ pc \in {"start", "spawning", "check", "watch", "select", "read", "poll", "repoll",
               "result", "term", "wait", "kill", "reap", "returned", "dead"}
    /\ {late, registered, events, polled, truncated, open} \subseteq BOOLEAN
    /\ tail \in Seq(Proc) /\ Len(tail) =< OutputLimit
    /\ outcome \in {"none", "result", "deadline", "watch", "interrupted", "abandoned", "unreaped"}
    /\ interrupts \in 0 .. MaxInterrupts
    /\ written \in Seq(Proc) /\ Len(written) =< HistorySize /\ fresh \in 0 .. PipeCapacity

(* The tail is the last of what was read, and no less than the limit unless *)
(* it is everything: truncated tells which.  (native_process.py:94-101)     *)
TailKept ==
    IF truncated THEN Len(tail) = OutputLimit /\ tail \o pipe = LastOf(written, Len(tail \o pipe))
    ELSE tail \o pipe = written

(* A result misses nothing that was written before the last select: the     *)
(* loop ends only when it has found the pipe empty after all that.          *)
(* (native_process.py:84-105)                                               *)
NothingSeenIsLost == outcome = "result" => Len(pipe) =< fresh

(* When run_bounded ends in its own way the command is reaped, the pipe is  *)
(* closed and every process that stayed in the group is on its way out,     *)
(* those that outlived the command included.  (native_process.py:113-124)   *)
CleanedUp ==
    pc = "returned" /\ outcome \notin {"abandoned", "unreaped"} =>
        polled /\ ~open /\ group \cap Killable = {}

(* The command never runs under a supervisor that is dead, even if that     *)
(* died between the fork and the prctl.  (native_process.py:25-31)          *)
NoOrphanCommand == pc = "dead" => proc[Leader] # "running"

(* What callers take from the flag: if the output was not cut to its tail,  *)
(* it is all that the command wrote.  (runner.py:49-50)                     *)
OutputWhole == outcome = "result" /\ ~truncated => \A i \in DOMAIN pipe : pipe[i] # Leader

(* "owned process cleanup" (native_process.py:4): no return leaves a member *)
(* of the group that was not killed.                                        *)
OwnedCleanup == pc = "returned" => group \cap Killable = {}
===============================================================================
