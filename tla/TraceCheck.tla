------------------------------- MODULE TraceCheck -------------------------------
(***************************************************************************)
(* The verdict of check_trace (ci/recorded_effects.py, with Scope.finish   *)
(* of collection_effects.py and Children of collection_processes.py) about *)
(* the traces of a run: first the run writes them, then they are checked.  *)
(*                                                                         *)
(* The run is external.  Its threads declare intervals by markers, "call"  *)
(* for a public operation and "scope" for one that may start commands,     *)
(* start children, wait for them, kill them and have effects that belong   *)
(* in no interval.  strace writes one trace per thread and process, with   *)
(* the time of each line.  As parse_trace (ci/recorded_trace.py) joins the *)
(* two lines of an interrupted call, an event has the time of its start    *)
(* and the place of its end: a spawn may return before its child is seen   *)
(* or after the child has ended.                                           *)
(*                                                                         *)
(* The checker knows a child by the process id the spawn returned, which   *)
(* is one of the container, and its trace by another one, of the host.     *)
(* Only times tell which trace is whose.  A child is both here, and its    *)
(* trace is what check_child looks at: when it begins and ends, whether it *)
(* was killed, and whether all in it is admitted (clean).                  *)
(*                                                                         *)
(* ReturnsLate, FitsLast, OverlapInScope and LeaveUnwaited are faults,     *)
(* part of no specification: the properties are tested against them.       *)
(***************************************************************************)
EXTENDS Naturals, Sequences, FiniteSets

CONSTANTS Threads,    \* the main thread and its workers: at most 3 at a time
          Child,
          None,
          Rows,       \* children a run may have: 128
          MaxEvents,  \* bound on the events of a thread but kills
          MaxOdd      \* bound on what is out of the ordinary in a run

ASSUME TraceAssumption ==
    /\ Threads \in Nat \ {0} /\ None \notin Child
    /\ IsFiniteSet(Child)
    /\ {Rows, MaxEvents, MaxOdd} \subseteq Nat

(* Numbered by their first events, the main thread first.  That is the      *)
(* order in which their traces are checked.                                 *)
Thread == 1 .. Threads

VARIABLES
    clock,
    odd,       \* events of the run that are counted against MaxOdd
    events,    \* by thread: its trace
    inside,    \* by thread: the interval it has declared
    calling,   \* by thread: the child it is starting, if any
    started,   \* by thread: when that call began
    life,      \* by child
    first, last, \* by child: the times its trace begins and ends
    killed,    \* by child: its trace ends with SIGKILL
    clean,     \* by child: one exec, and nothing that is not admitted
    phase,     \* "run", "check", "accepted", "refused"
    thread,    \* the thread whose trace is being checked
    next,      \* the event of it to be checked next
    interval,  \* state of check_trace
    spawned,   \* Scope.spawned: children of the open scope
    trace,     \* by child: the trace its spawn was matched to
    waited, killSeen  \* children with these flags in their row

children == <<life, first, last, killed, clean>>
run == <<clock, odd, events, inside, calling, started, children>>
place == <<thread, next, interval>>
rows == <<spawned, trace, waited, killSeen>>
vars == <<run, phase, place, rows>>

Init ==
    /\ clock = 0 /\ odd = 0
    /\ events = [t \in Thread |-> <<>>]
    /\ inside = [t \in Thread |-> "none"]
    /\ calling = [t \in Thread |-> {}] /\ started = [t \in Thread |-> 0]
    /\ life = [c \in Child |-> "unborn"]
    /\ first = [c \in Child |-> 0] /\ last = [c \in Child |-> 0]
    /\ killed = [c \in Child |-> FALSE] /\ clean = [c \in Child |-> TRUE]
    /\ phase = "run"
    /\ thread = 1 /\ next = 1 /\ interval = "none"
    /\ spawned = {} /\ trace = [c \in Child |-> None] /\ waited = {} /\ killSeen = {}

-------------------------------------------------------------------------------
(* The run. *)

(* A run may leave the ordinary way MaxOdd times. *)
OddIf(strange) == odd' = odd + (IF strange THEN 1 ELSE 0) /\ odd' =< MaxOdd

(* The ordinary is a later time for each line; two may have the same.       *)
Later(strange) ==
    /\ clock' \in {clock, clock + 1}
    /\ OddIf(strange \/ clock' = clock)

Idle(t) == phase = "run" /\ calling[t] = {}

Room(t) == Cardinality({i \in DOMAIN events[t] : events[t][i].is # "kill"}) < MaxEvents

(* where is the interval the thread has really declared. *)
Record(t, what, time, child) ==
    /\ Room(t) /\ (t > 1 => events[t - 1] # <<>>)
    /\ events' = [events EXCEPT ![t] =
          Append(@, [is |-> what, time |-> time, child |-> child, where |-> inside[t]])]

Has(t, what, child) ==
    \E i \in DOMAIN events[t] : events[t][i].is = what /\ events[t][i].child = child

Unchecked == UNCHANGED <<phase, place, rows>>

Enter(t, kind) ==
    /\ Idle(t) /\ inside[t] = "none"
    /\ Record(t, kind, 0, None)
    /\ OddIf(kind = "call")
    /\ inside' = [inside EXCEPT ![t] = kind]
    /\ UNCHANGED <<clock, calling, started, children>> /\ Unchecked

Leave(t) ==
    /\ Idle(t) /\ inside[t] # "none"
    /\ Later(FALSE)
    /\ Record(t, "END", clock', None)
    /\ inside' = [inside EXCEPT ![t] = "none"]
    /\ UNCHANGED <<calling, started, children>> /\ Unchecked

(* Anything that belongs in no interval. *)
Effect(t) ==
    /\ Idle(t)
    /\ Record(t, "effect", 0, None)
    /\ OddIf(TRUE)
    /\ UNCHANGED <<clock, inside, calling, started, children>> /\ Unchecked

Spawn(t, c) ==
    /\ Idle(t) /\ life[c] = "unborn" /\ Room(t) /\ events[t] # <<>>
    /\ Later(inside[t] # "scope")
    /\ calling' = [calling EXCEPT ![t] = {c}]
    /\ started' = [started EXCEPT ![t] = clock']
    /\ life' = [life EXCEPT ![c] = "spawned"]
    /\ UNCHANGED <<events, inside, first, last, killed, clean>> /\ Unchecked

ReturnsLate(t) ==
    /\ phase = "run"
    /\ \E c \in calling[t] : Record(t, "spawn", clock, c)
    /\ calling' = [calling EXCEPT ![t] = {}]
    /\ UNCHANGED <<clock, odd, inside, started, children>> /\ Unchecked

Returns(t) ==
    /\ phase = "run"
    /\ \E c \in calling[t] : Record(t, "spawn", started[t], c)
    /\ calling' = [calling EXCEPT ![t] = {}]
    /\ UNCHANGED <<clock, odd, inside, started, children>> /\ Unchecked

Appear(c) ==
    /\ phase = "run" /\ life[c] = "spawned"
    /\ Later(FALSE)
    /\ life' = [life EXCEPT ![c] = "alive"]
    /\ first' = [first EXCEPT ![c] = clock']
    /\ UNCHANGED <<events, inside, calling, started, last, killed, clean>> /\ Unchecked

(* The child does something it may not. *)
Stray(c) ==
    /\ phase = "run" /\ life[c] = "alive"
    /\ clean' = [clean EXCEPT ![c] = FALSE]
    /\ OddIf(TRUE)
    /\ UNCHANGED <<clock, events, inside, calling, started, life, first, last, killed>>
    /\ Unchecked

(* It starts a process of its own, which no thread knows of. *)
Fork(c, d) ==
    /\ phase = "run" /\ life[c] = "alive" /\ life[d] = "unborn"
    /\ clean' = [clean EXCEPT ![c] = FALSE]
    /\ life' = [life EXCEPT ![d] = "spawned"]
    /\ OddIf(TRUE)
    /\ UNCHANGED <<clock, events, inside, calling, started, first, last, killed>>
    /\ Unchecked

Exit(c) ==
    /\ phase = "run" /\ life[c] = "alive"
    /\ Later(FALSE)
    /\ life' = [life EXCEPT ![c] = "ended"]
    /\ last' = [last EXCEPT ![c] = clock']
    /\ UNCHANGED <<events, inside, calling, started, first, killed, clean>> /\ Unchecked

(* A child that has ended by itself can still be sent the signal. *)
Kill(t, c) ==
    /\ Idle(t) /\ life[c] \in {"alive", "ended"}
    /\ Record(t, "kill", 0, c)
    /\ OddIf(TRUE)
    /\ killed' = [killed EXCEPT ![c] = @ \/ life[c] = "alive"]
    /\ UNCHANGED <<clock, inside, calling, started, life, first, last, clean>> /\ Unchecked

(* A waitid that does not block returns 0 as well while the child lives,    *)
(* and after that its end can be waited for.                                *)
Wait(t, c) ==
    /\ Idle(t) /\ life[c] \in {"alive", "ended"}
    /\ Record(t, "wait", 0, c)
    /\ OddIf(life[c] = "alive" \/ ~Has(t, "spawn", c))
    /\ UNCHANGED <<clock, inside, calling, started, children>> /\ Unchecked

(* The traces are read when every process has ended. *)
RunEnds ==
    /\ phase = "run"
    /\ \A t \in Thread : calling[t] = {}
    /\ \A c \in Child : life[c] \in {"unborn", "ended"}
    /\ phase' = "check"
    /\ OddIf(\E t \in Thread : inside[t] # "none")
    /\ UNCHANGED <<clock, events, inside, calling, started, children, place, rows>>

-------------------------------------------------------------------------------
(* The checker. *)

Refuse == phase' = "refused" /\ UNCHANGED <<run, place, rows>>

Candidates == {c \in Child : life[c] # "unborn"}
Matched == {c \in Child : trace[c] # None}
Used == {trace[c] : c \in Matched}

Marked(t) == \E i \in DOMAIN events[t] : events[t][i].is \in {"call", "scope"}

(* The end of a trace: the intervals are closed, a worker has some.  (Its   *)
(* trace may pass for a child's else, and has no exec.)                     *)
EndOfTrace ==
    /\ phase = "check" /\ thread \in Thread /\ next > Len(events[thread])
    /\ LET whole == interval = "none" /\ (thread > 1 /\ events[thread] # <<>> => Marked(thread))
       IN  \/ ~whole /\ Refuse
           \/ whole /\ thread' = thread + 1 /\ next' = 1 /\ UNCHANGED <<run, phase, interval, rows>>

Event == events[thread][next]

At(kinds) ==
    /\ phase = "check" /\ thread \in Thread /\ next \in DOMAIN events[thread]
    /\ Event.is \in kinds

Onward == next' = next + 1 /\ UNCHANGED <<run, phase, thread>>

CheckEnter ==
    /\ At({"call", "scope"})
    /\ \/ interval # "none" /\ Refuse
       \/ /\ interval = "none" /\ interval' = Event.is
          /\ spawned' = {}
          /\ UNCHANGED <<trace, waited, killSeen>> /\ Onward

LeaveUnwaited(c, instant) ==
    /\ last[trace[c]] < instant
    /\ killed[trace[c]] = (c \in killSeen)

(* Scope.finish, of one child *)
Finished(c, instant) ==
    /\ last[trace[c]] < instant
    /\ c \in waited
    /\ killed[trace[c]] = (c \in killSeen)

CheckLeave ==
    /\ At({"END"})
    /\ LET whole == interval = "scope" => \A c \in spawned : Finished(c, Event.time)
       IN  \/ (interval = "none" \/ ~whole) /\ Refuse
           \/ /\ interval # "none" /\ whole
              /\ interval' = "none"
              /\ UNCHANGED rows /\ Onward

CheckEffect ==
    /\ At({"effect"})
    /\ \/ interval # "none" /\ Refuse
       \/ interval = "none" /\ UNCHANGED <<interval, rows>> /\ Onward

OverlapInScope(time) == \E c \in spawned : last[trace[c]] >= time

(* No trace that was matched before, in whatever scope and by whatever      *)
(* thread, may end after the call.                                          *)
Overlap(time) == \E c \in Matched : last[trace[c]] >= time

FitsLast(time) ==
    LET unused == {d \in Candidates \ Used : first[d] >= time}
    IN  {d \in unused : \A e \in unused : first[d] >= first[e]}

(* candidates[0]: of the unused traces that begin after the call, one that  *)
(* begins first.                                                            *)
Fits(time) ==
    LET unused == {d \in Candidates \ Used : first[d] >= time}
    IN  {d \in unused : \A e \in unused : first[d] =< first[e]}

CheckSpawn ==
    /\ At({"spawn"})
    /\ LET time == Event.time
           full == Cardinality(Matched) >= Rows
       IN  \/ /\ interval # "scope" \/ full \/ Overlap(time) \/ Fits(time) = {}
              /\ Refuse
           \/ /\ interval = "scope" /\ ~full /\ ~Overlap(time)
              /\ \E d \in Fits(time) :
                    \/ ~clean[d] /\ Refuse
                    \/ /\ clean[d]
                       /\ trace' = [trace EXCEPT ![Event.child] = d]
                       /\ spawned' = spawned \cup {Event.child}
                       /\ UNCHANGED <<interval, waited, killSeen>> /\ Onward

(* Outside every interval these calls are not looked at. *)
CheckWaitOrKill ==
    /\ At({"wait", "kill"})
    /\ LET c == Event.child
       IN  \/ /\ interval = "call" \/ (interval = "scope" /\ c \notin spawned)
              /\ Refuse
           \/ /\ interval = "scope" /\ c \in spawned
              /\ waited' = IF Event.is = "wait" THEN waited \cup {c} ELSE waited
              /\ killSeen' = IF Event.is = "kill" THEN killSeen \cup {c} ELSE killSeen
              /\ UNCHANGED <<interval, spawned, trace>> /\ Onward
           \/ interval = "none" /\ UNCHANGED <<interval, rows>> /\ Onward

(* Children.finish: every candidate was used. *)
Decide ==
    /\ phase = "check" /\ thread > Threads
    /\ phase' = IF Used = Candidates THEN "accepted" ELSE "refused"
    /\ UNCHANGED <<run, place, rows>>

-------------------------------------------------------------------------------
Run ==
    \/ \E t \in Thread :
          \/ Enter(t, "call") \/ Enter(t, "scope") \/ Leave(t) \/ Effect(t) \/ Returns(t)
          \/ \E c \in Child : Spawn(t, c) \/ Kill(t, c) \/ Wait(t, c)
    \/ \E c \in Child : Appear(c) \/ Stray(c) \/ Exit(c)
    \/ \E c, d \in Child : Fork(c, d)
    \/ RunEnds

Check == EndOfTrace \/ CheckEnter \/ CheckLeave \/ CheckEffect \/ CheckSpawn \/ CheckWaitOrKill \/ Decide

Next == Run \/ Check

Spec == Init /\ [][Next]_vars

-------------------------------------------------------------------------------
(* Everything a thread recorded. *)
Recorded == UNION {{<<t, i>> : i \in DOMAIN events[t]} : t \in Thread}

What(p) == events[p[1]][p[2]]

(* The marker that ended the interval of a place, if there is one. *)
EndsOf(p) ==
    LET ends == {i \in DOMAIN events[p[1]] : i > p[2] /\ events[p[1]][i].is = "END"}
    IN  {i \in ends : \A j \in ends : i =< j}

(* What was said of a child between its spawn and the end of that scope. *)
SaidOf(p, what) ==
    \E i \in DOMAIN events[p[1]] :
       /\ p[2] < i /\ \A j \in EndsOf(p) : i < j
       /\ events[p[1]][i].is = what /\ events[p[1]][i].child = What(p).child

(* The child of a spawn ended, and a wait for it was answered, within the   *)
(* scope.                                                                   *)
EndedWithin(p) ==
    /\ SaidOf(p, "wait")
    /\ \E i \in EndsOf(p) : last[What(p).child] < events[p[1]][i].time

-------------------------------------------------------------------------------
(* In a run that is accepted every spawn was matched to the trace of the    *)
(* very child it started, though only times tell the traces apart, threads  *)
(* spawn at the same time and a trace is checked after traces of later      *)
(* events; and no process was left out.  (collection_processes.py:60-74,    *)
(* 231-233)                                                                 *)
ChildrenAreTheirOwn ==
    phase = "accepted" =>
        /\ \A c \in Matched : trace[c] = c
        /\ Matched = Candidates

(* In a run that is accepted nothing happened within an interval but what   *)
(* the interval admits: no other effect; children only in a scope, clean,   *)
(* over and waited for before the scope is, killed only if that scope says  *)
(* so, and never two at a time in the whole run.  (recorded_effects.py:80-  *)
(* 151, collection_effects.py:153-156, collection_processes.py:60)          *)
AcceptedIsConfined ==
    phase = "accepted" =>
        /\ \A p \in Recorded :
              /\ What(p).is = "effect" => What(p).where = "none"
              /\ What(p).is = "spawn" =>
                    /\ What(p).where = "scope" /\ EndedWithin(p)
                    /\ clean[What(p).child]
                    /\ killed[What(p).child] => SaidOf(p, "kill")
        /\ \A c, d \in Candidates : c = d \/ last[c] < first[d] \/ last[d] < first[c]

CheckedBefore(p, q) == p[1] < q[1] \/ (p[1] = q[1] /\ p[2] < q[2])

(* A run in which every thread does as it should, and in which the threads  *)
(* start their children in the order in which they are checked.             *)
Honest ==
    /\ \A t \in Thread : inside[t] = "none" /\ (t > 1 /\ events[t] # <<>> => Marked(t))
    /\ \A p \in Recorded :
          LET c == What(p).child IN
          /\ What(p).is = "effect" => What(p).where = "none"
          /\ What(p).is = "spawn" =>
                /\ What(p).where = "scope" /\ EndedWithin(p)
                /\ clean[c] /\ (killed[c] <=> SaidOf(p, "kill"))
                /\ \A q \in Recorded :
                      What(q).is = "spawn" /\ CheckedBefore(p, q) => last[c] < What(q).time
          /\ What(p).is \in {"wait", "kill"} =>
                \E q \in Recorded : /\ What(q).is = "spawn" /\ What(q).child = c
                                    /\ q[1] = p[1] /\ q[2] < p[2]
                                    /\ \A i \in EndsOf(q) : p[2] < i
    /\ Cardinality({p \in Recorded : What(p).is = "spawn"}) = Cardinality(Candidates)
    /\ Cardinality(Candidates) =< Rows

(* Such a run is not refused: joined calls have the time at which their     *)
(* child could first be seen, and the first trace that fits is the child's. *)
(* (recorded_trace.py:65-79, recorded_effects.py:80-161,                    *)
(* collection_processes.py:60-74)                                           *)
HonestIsAccepted == phase = "refused" => ~Honest
===============================================================================
