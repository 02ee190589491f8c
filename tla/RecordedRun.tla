------------------------------ MODULE RecordedRun ------------------------------
(***************************************************************************)
(* execute of ci/installed_process.py, up to the trace check: a command    *)
(* under Supervisor that sends its receipt through a bounded channel       *)
(* (ci/recorded_channels.py).  The channel is drained by the watch of the  *)
(* supervisor and at the end.  Supervisor's variables keep their meaning   *)
(* and its actions are taken over; senders are the processes that have the *)
(* channel open for writing, as holders are for the output.                *)
(*                                                                         *)
(* The channel of the markers is a second one of the same kind.  Bytes are *)
(* counted, not told apart.                                                *)
(*                                                                         *)
(* ReadUnlimited, WatchUndrained and FinishAtEmpty are faults, part of no  *)
(* specification: the properties are tested against them.                  *)
(***************************************************************************)
EXTENDS Supervisor

CONSTANTS ChannelCapacity,  \* of the kernel's pipe
          ChannelLimit      \* Channel.limit

ASSUME RecordedAssumption == ChannelCapacity \in Nat \ {0} /\ ChannelLimit \in Nat \ {0}

VARIABLES
    sent,     \* bytes in the channel
    senders,
    writer,   \* the supervisor's own copy of the writing end is open
    got,      \* Len(Channel.data)
    eof,
    phase     \* of execute: "run", "finish", "accepted" or "refused"

channel == <<sent, senders, writer, got, eof, phase>>
rvars == <<vars, channel>>

RInit ==
    /\ Init
    /\ sent = 0 /\ senders = {} /\ writer = TRUE /\ got = 0 /\ eof = FALSE
    /\ phase = "run"

(* A process takes its copy of the writing end with it. *)
Survivors(S) == {p \in S : proc'[p] \in {"forked", "armed", "running", "dying"}}

-------------------------------------------------------------------------------
(* The processes. *)

ChannelUnused == UNCHANGED <<sent, writer, got, eof, phase>>

RStart(p, q) ==
    /\ Start(p, q)
    /\ senders' = IF p \in senders THEN senders \cup {q} ELSE senders
    /\ ChannelUnused

ROther ==
    /\ \/ Arm \/ Launch \/ DeadlinePasses
       \/ \E p \in Proc : LeaveGroup(p) \/ Write(p) \/ CloseOutput(p) \/ Exit(p) \/ Die(p)
    /\ senders' = Survivors(senders)
    /\ ChannelUnused

Send(p) ==
    /\ p \in Running \cap senders /\ sent < ChannelCapacity
    /\ sent' = sent + 1
    /\ UNCHANGED <<vars, senders, writer, got, eof, phase>>

CloseSender(p) ==
    /\ p \in Running \cap senders
    /\ senders' = senders \ {p}
    /\ UNCHANGED <<vars, sent, writer, got, eof, phase>>

-------------------------------------------------------------------------------
(* Channel.read: one os.read after the other until the pipe has no more.     *)
(* Other processes go on sending between two of them.                        *)

Exhausted == sent = 0

ReadUnlimited(limitExceeded) ==
    /\ sent > 0 /\ sent' = 0
    /\ got' = Smaller(got + sent, ChannelLimit)
    /\ UNCHANGED <<vars, senders, writer, eof, phase>>

(* add_bytes raises before the data is kept. *)
ReadChannel(limitExceeded) ==
    /\ sent > 0 /\ sent' = 0
    /\ \/ /\ sent =< ChannelLimit - got
          /\ got' = got + sent
          /\ UNCHANGED <<vars, senders, writer, eof, phase>>
       \/ /\ sent > ChannelLimit - got
          /\ limitExceeded
          /\ UNCHANGED <<got, senders, writer, eof>>

RSpawn ==
    /\ Spawn
    /\ senders' = {Leader}
    /\ ChannelUnused

(* The watch reads while the supervisor keeps its own writer: no end yet. *)
WatchReads ==
    /\ pc = "watch"
    /\ ReadChannel(WatchFails /\ phase' = phase)

WatchUndrained == WatchReturns /\ UNCHANGED channel

WatchDrained == WatchReturns /\ Exhausted /\ UNCHANGED channel

RSupervisor ==
    /\ \/ Spawned \/ Late \/ WatchDue \/ WatchFails \/ NoWatchDue
       \/ Select \/ Read \/ Poll \/ Repoll \/ Return
       \/ Term \/ WaitGrace \/ Kill \/ Reap
    /\ UNCHANGED channel

RInterrupt == Interrupt /\ UNCHANGED channel

RSupervisorDies ==
    /\ SupervisorDies
    /\ writer' = FALSE
    /\ UNCHANGED <<sent, senders, got, eof, phase>>

(* No result, one that is cut, or a return code that is not accepted; the   *)
(* channels are closed on the way out.                                      *)
Refuse ==
    /\ pc = "returned" /\ phase = "run"
    /\ phase' = "refused" /\ writer' = FALSE
    /\ UNCHANGED <<vars, sent, senders, got, eof>>

(* Channel.finish: the own writer is closed, the rest is read, ... *)
BeginFinish ==
    /\ pc = "returned" /\ outcome = "result" /\ ~truncated /\ phase = "run"
    /\ phase' = "finish" /\ writer' = FALSE
    /\ UNCHANGED <<vars, sent, senders, got, eof>>

FinishReads ==
    /\ phase = "finish" /\ pc = "returned"
    /\ ReadChannel(phase' = "refused" /\ UNCHANGED vars)

FinishAtEmpty ==
    /\ phase = "finish" /\ pc = "returned" /\ Exhausted
    /\ eof' = TRUE
    /\ phase' = IF got > 0 THEN "accepted" ELSE "refused"
    /\ UNCHANGED <<vars, sent, senders, writer, got>>

(* ... and only its end is accepted, not a pipe that is empty for now. *)
Finish ==
    /\ phase = "finish" /\ pc = "returned" /\ Exhausted
    /\ eof' = (senders = {} /\ ~writer)
    /\ phase' = IF eof' /\ got > 0 THEN "accepted" ELSE "refused"
    /\ UNCHANGED <<vars, sent, senders, writer, got>>

RSupervise ==
    \/ RSpawn \/ RSupervisor \/ WatchReads \/ WatchDrained
    \/ Refuse \/ BeginFinish \/ FinishReads \/ Finish

RNext ==
    \/ \E p, q \in Proc : RStart(p, q)
    \/ \E p \in Proc : Send(p) \/ CloseSender(p)
    \/ ROther
    \/ RSupervise \/ RInterrupt \/ RSupervisorDies

RSpec == RInit /\ [][RNext]_rvars

(* The supervisor runs, the watch is called again and again, and the fork   *)
(* runs to its exec.  Nothing is expected of the command, and time need not *)
(* pass.                                                                    *)
RLiveSpec ==
    /\ RSpec
    /\ WF_rvars(RSupervise) /\ SF_rvars(WatchDue /\ UNCHANGED channel)
    /\ WF_rvars(ROther /\ (Arm \/ Launch))

-------------------------------------------------------------------------------
(* The variables have their types; what is kept of the channel never passes *)
(* its limit.  (recorded_channels.py:10-12,30)                              *)
RTypeOK ==
    /\ TypeOK
    /\ sent \in 0 .. ChannelCapacity
    /\ senders \subseteq Proc
    /\ {writer, eof} \subseteq BOOLEAN
    /\ got \in 0 .. ChannelLimit
    /\ phase \in {"run", "finish", "accepted", "refused"}

(* An accepted receipt is all that was sent and all that ever will be: no   *)
(* process is left that could send more, killed or not.                     *)
(* (recorded_channels.py:38-43)                                             *)
AcceptedIsWhole == phase = "accepted" => sent = 0 /\ senders = {} /\ ~writer

(* Nobody waits for ever to send: a full channel is drained as long as the  *)
(* run goes on, and the run ends otherwise.  (installed_process.py:37-40)   *)
BackpressureEnds ==
    sent = ChannelCapacity ~> \/ sent < ChannelCapacity
                              \/ pc \notin {"check", "watch", "select", "read", "poll", "repoll"}

(* Once the deadline has passed run_bounded returns and execute accepts or  *)
(* refuses in the end, whatever the command and its children do with their  *)
(* output and with SIGTERM, even if they never stop sending while the watch *)
(* drains the channel.  (native_process.py:67-124, installed_process.py:36- *)
(* 53, recorded_channels.py:21-31)                                          *)
RunEnds == late ~> phase \in {"accepted", "refused"} \/ pc = "dead"
===============================================================================
