--------------------------- MODULE SupervisorProofs ---------------------------
(***************************************************************************)
(* Theorems about Supervisor and RecordedRun for any number of processes,  *)
(* every limit and every number of interruptions.                          *)
(***************************************************************************)
EXTENDS RecordedRun, TLAPS

(* Two sequences of the same length that agree everywhere. *)
LEMMA SameSequence ==
    ASSUME NEW s \in Seq(Proc), NEW t \in Seq(Proc),
           Len(s) = Len(t), \A i \in 1 .. Len(s) : s[i] = t[i]
    PROVE  s = t
<1>1. s = [i \in 1 .. Len(s) |-> s[i]] /\ t = [i \in 1 .. Len(t) |-> t[i]]
  OBVIOUS
<1> QED BY <1>1

(* The end of a sequence. *)
LEMMA LastOfLong ==
    ASSUME NEW s \in Seq(Proc), NEW n \in Nat, n =< Len(s)
    PROVE  /\ LastOf(s, n) \in Seq(Proc) /\ Len(LastOf(s, n)) = n
           /\ \A i \in 1 .. n : LastOf(s, n)[i] = s[Len(s) - n + i]
<1> DEFINE a == Len(s) - n + 1
<1>1. Smaller(n, Len(s)) = n
  BY DEF Smaller
<1>2. LastOf(s, n) = SubSeq(s, a, Len(s))
  BY <1>1 DEF LastOf
<1>3. a \in 1 .. Len(s) + 1 /\ Len(s) \in Nat /\ Len(s) - a + 1 = n
  OBVIOUS
<1> HIDE DEF a
<1>4. /\ SubSeq(s, a, Len(s)) \in Seq(Proc) /\ Len(SubSeq(s, a, Len(s))) = n
      /\ \A i \in 1 .. n : SubSeq(s, a, Len(s))[i] = s[a + i - 1]
  BY <1>3
<1>5. \A i \in 1 .. n : a + i - 1 = Len(s) - n + i
  BY <1>3
<1> QED BY <1>2, <1>4, <1>5

(* A sequence that is short enough is its own end. *)
LEMMA LastOfShort ==
    ASSUME NEW s \in Seq(Proc), NEW n \in Nat, Len(s) =< n
    PROVE  LastOf(s, n) = s
<1>1. Smaller(n, Len(s)) = Len(s)
  BY DEF Smaller
<1>2. LastOf(s, n) = SubSeq(s, 1, Len(s))
  BY <1>1 DEF LastOf
<1> QED BY <1>2

(* An end is a sequence no longer than asked for. *)
LEMMA LastOfBounded ==
    ASSUME NEW s \in Seq(Proc), NEW n \in Nat
    PROVE  LastOf(s, n) \in Seq(Proc) /\ Len(LastOf(s, n)) =< n
<1>1. CASE n =< Len(s)
  BY <1>1, LastOfLong
<1>2. CASE ~(n =< Len(s))
  BY <1>2, LastOfShort
<1> QED BY <1>1, <1>2

(* A sequence with one element more. *)
LEMMA AppendIs ==
    ASSUME NEW s \in Seq(Proc), NEW x \in Proc
    PROVE  /\ Append(s, x) \in Seq(Proc) /\ Len(Append(s, x)) = Len(s) + 1
           /\ \A i \in 1 .. Len(s) : Append(s, x)[i] = s[i]
           /\ Append(s, x)[Len(s) + 1] = x
  OBVIOUS

(* Two sequences after each other. *)
LEMMA ConcatIs ==
    ASSUME NEW s \in Seq(Proc), NEW t \in Seq(Proc)
    PROVE  /\ s \o t \in Seq(Proc) /\ Len(s \o t) = Len(s) + Len(t)
           /\ \A i \in 1 .. Len(s) : (s \o t)[i] = s[i]
           /\ \A i \in Len(s) + 1 .. Len(s) + Len(t) : (s \o t)[i] = t[i - Len(s)]
  OBVIOUS

(* What holds the last n places of a sequence is its end. *)
LEMMA LastIsLast ==
    ASSUME NEW s \in Seq(Proc), NEW t \in Seq(Proc), Len(t) =< Len(s),
           \A i \in 1 .. Len(t) : t[i] = s[Len(s) - Len(t) + i]
    PROVE  t = LastOf(s, Len(t))
<1>1. /\ LastOf(s, Len(t)) \in Seq(Proc) /\ Len(LastOf(s, Len(t))) = Len(t)
      /\ \A i \in 1 .. Len(t) : LastOf(s, Len(t))[i] = s[Len(s) - Len(t) + i]
  BY LastOfLong
<1> QED BY <1>1, SameSequence

(* The end of an end. *)
LEMMA LastOfLast ==
    ASSUME NEW s \in Seq(Proc), NEW m \in Nat, NEW n \in Nat, n =< m, n =< Len(s)
    PROVE  LastOf(LastOf(s, m), n) = LastOf(s, n)
<1>1. CASE Len(s) =< m
  BY <1>1, LastOfShort
<1>2. CASE m =< Len(s)
  <2> DEFINE e == LastOf(s, m)
  <2>1. e \in Seq(Proc) /\ Len(e) = m /\ \A i \in 1 .. m : e[i] = s[Len(s) - m + i]
    BY <1>2, LastOfLong
  <2> HIDE DEF e
  <2>2. /\ LastOf(e, n) \in Seq(Proc) /\ Len(LastOf(e, n)) = n
        /\ \A i \in 1 .. n : LastOf(e, n)[i] = e[m - n + i]
    BY <2>1, LastOfLong
  <2>3. \A i \in 1 .. n : e[m - n + i] = s[Len(s) - n + i]
    <3> SUFFICES ASSUME NEW i \in 1 .. n PROVE e[m - n + i] = s[Len(s) - n + i]
      OBVIOUS
    <3>1. m - n + i \in 1 .. m /\ Len(s) - m + (m - n + i) = Len(s) - n + i
      OBVIOUS
    <3> QED BY <2>1, <3>1
  <2>4. \A i \in 1 .. n : LastOf(e, n)[i] = s[Len(s) - n + i]
    BY <2>2, <2>3
  <2>5. LastOf(e, n) = LastOf(s, n)
    BY <2>2, <2>4, LastIsLast
  <2> QED BY <2>5 DEF e
<1> QED BY <1>1, <1>2

(* The end of a sequence, with what follows it. *)
LEMMA LastOfJoined ==
    ASSUME NEW s \in Seq(Proc), NEW t \in Seq(Proc), NEW n \in Nat, n =< Len(s)
    PROVE  LastOf(s, n) \o t = LastOf(s \o t, n + Len(t))
<1>0. Len(s) \in Nat /\ Len(t) \in Nat
  OBVIOUS
<1> DEFINE e == LastOf(s, n)
<1>2. e \in Seq(Proc) /\ Len(e) = n /\ \A i \in 1 .. n : e[i] = s[Len(s) - n + i]
  BY LastOfLong
<1> HIDE DEF e
<1>3. /\ e \o t \in Seq(Proc) /\ Len(e \o t) = n + Len(t)
      /\ \A i \in 1 .. n : (e \o t)[i] = e[i]
      /\ \A i \in n + 1 .. n + Len(t) : (e \o t)[i] = t[i - n]
  BY <1>2, ConcatIs
<1>4. /\ s \o t \in Seq(Proc) /\ Len(s \o t) = Len(s) + Len(t)
      /\ \A i \in 1 .. Len(s) : (s \o t)[i] = s[i]
      /\ \A i \in Len(s) + 1 .. Len(s) + Len(t) : (s \o t)[i] = t[i - Len(s)]
  BY ConcatIs
<1>5. \A i \in 1 .. n + Len(t) : (e \o t)[i] = (s \o t)[Len(s \o t) - (n + Len(t)) + i]
  <2> SUFFICES ASSUME NEW i \in 1 .. n + Len(t)
               PROVE  (e \o t)[i] = (s \o t)[Len(s) - n + i]
    <3>1. Len(s \o t) - (n + Len(t)) = Len(s) - n
      BY <1>0, <1>4
    <3> QED BY <3>1
  <2>1. CASE i =< n
    <3>1. i \in 1 .. n /\ Len(s) - n + i \in 1 .. Len(s)
      BY <2>1
    <3> QED BY <1>2, <1>3, <1>4, <3>1
  <2>2. CASE i > n
    <3>1. /\ i \in n + 1 .. n + Len(t) /\ Len(s) - n + i \in Len(s) + 1 .. Len(s) + Len(t)
          /\ (Len(s) - n + i) - Len(s) = i - n
      BY <1>0, <2>2
    <3>2. (e \o t)[i] = t[i - n]
      BY <1>3, <3>1
    <3>3. (s \o t)[Len(s) - n + i] = t[(Len(s) - n + i) - Len(s)]
      BY <1>4, <3>1
    <3> QED BY <3>1, <3>2, <3>3
  <2>3. i =< n \/ i > n
    BY <1>0
  <2> QED BY <2>1, <2>2, <2>3, Zenon
<1>6. Len(e \o t) =< Len(s \o t)
  BY <1>3, <1>4
<1>7. e \o t = LastOf(s \o t, n + Len(t))
  BY <1>3, <1>4, <1>5, <1>6, LastIsLast
<1> QED BY <1>7 DEF e

(* A sequence cut in two is the sequence, whatever stands before it. *)
LEMMA Rejoin ==
    ASSUME NEW s \in Seq(Proc), NEW t \in Seq(Proc), NEW n \in 0 .. Len(t)
    PROVE  (s \o SubSeq(t, 1, n)) \o SubSeq(t, n + 1, Len(t)) = s \o t
<1> DEFINE a == SubSeq(t, 1, n)
           b == SubSeq(t, n + 1, Len(t))
<1>10. /\ a \in Seq(Proc) /\ Len(a) = n /\ b \in Seq(Proc) /\ Len(b) = Len(t) - n
       /\ \A i \in 1 .. n : a[i] = t[i]
       /\ \A i \in 1 .. Len(t) - n : b[i] = t[n + i]
  OBVIOUS
<1> HIDE DEF a, b
<1>11. /\ Len(a) + Len(b) = Len(t)
       /\ \A i \in 1 .. Len(a) : a[i] = t[i]
       /\ \A i \in 1 .. Len(b) : b[i] = t[Len(a) + i]
  BY <1>10
<1>0. Len(s) \in Nat /\ Len(t) \in Nat /\ Len(a) \in Nat /\ Len(b) \in Nat
  BY <1>10
<1>1. /\ a \o b \in Seq(Proc) /\ Len(a \o b) = Len(a) + Len(b)
      /\ \A i \in 1 .. Len(a) : (a \o b)[i] = a[i]
      /\ \A i \in Len(a) + 1 .. Len(a) + Len(b) : (a \o b)[i] = b[i - Len(a)]
  BY <1>10, ConcatIs
<1>2. \A i \in 1 .. Len(t) : (a \o b)[i] = t[i]
  <2> SUFFICES ASSUME NEW i \in 1 .. Len(t) PROVE (a \o b)[i] = t[i]
    OBVIOUS
  <2>1. CASE i =< Len(a)
    BY <1>0, <1>1, <1>11, <2>1
  <2>2. CASE i > Len(a)
    <3>1. /\ i \in Len(a) + 1 .. Len(a) + Len(b) /\ i - Len(a) \in 1 .. Len(b)
          /\ Len(a) + (i - Len(a)) = i
      BY <1>0, <1>11, <2>2
    <3>2. (a \o b)[i] = b[i - Len(a)]
      BY <1>1, <3>1
    <3>3. b[i - Len(a)] = t[Len(a) + (i - Len(a))]
      BY <1>11, <3>1
    <3> QED BY <3>1, <3>2, <3>3
  <2>3. i =< Len(a) \/ i > Len(a)
    BY <1>0
  <2> QED BY <2>1, <2>2, <2>3, Zenon
<1>3. a \o b = t
  BY <1>1, <1>2, <1>11, SameSequence
<1>4. (s \o a) \o b = s \o (a \o b)
  BY <1>10
<1> QED BY <1>3, <1>4 DEF a, b

-------------------------------------------------------------------------------
(* Nobody is in the group before it is started. *)
GroupStarted == \A p \in group : proc[p] # "unborn"

(* From the SIGKILL on no member of the group can run again. *)
GroupKilled ==
    /\ pc = "reap" \/ (pc = "returned" /\ outcome # "abandoned") => group \cap Killable = {}
    /\ CleanedUp

IInv == TypeOK /\ TailKept /\ GroupStarted /\ GroupKilled /\ NoOrphanCommand

(* The limits are positive numbers. *)
LEMMA Limits ==
    /\ OutputLimit \in Nat \ {0} /\ ReadSize \in Nat \ {0} /\ PipeCapacity \in Nat \ {0}
    /\ HistorySize \in Nat /\ HistorySize = OutputLimit + PipeCapacity
    /\ Leader \in Proc /\ MaxInterrupts \in Nat
  BY SupervisorAssumption DEF HistorySize

(* The states of processes change to states, and nothing else does.         *)
LEMMA ProcessTypes ==
    ASSUME TypeOK, UNCHANGED <<pipe, pc, late, loop, ended, interrupts, history>>,
           proc' \in [Proc -> {"unborn", "forked", "armed", "running", "dying", "zombie", "gone"}],
           group' \subseteq Proc, holders' \subseteq Proc
    PROVE  TypeOK'
  BY DEF TypeOK, loop, ended, history

(* The end of a process keeps the types. *)
LEMMA EndTypes ==
    ASSUME TypeOK, NEW p \in Proc, End(p)
    PROVE  TypeOK'
<1>1. Remains(p) \in {"zombie", "gone"}
  BY DEF Remains
<1>2. /\ proc' \in [Proc -> {"unborn", "forked", "armed", "running", "dying", "zombie", "gone"}]
      /\ group' \subseteq Proc /\ holders' \subseteq Proc
  BY <1>1 DEF End, TypeOK
<1> QED BY <1>2, ProcessTypes DEF End

(* A write keeps the pipe within its capacity. *)
LEMMA WriteTypes ==
    ASSUME TypeOK, NEW p \in Proc, Write(p)
    PROVE  TypeOK'
<1>1. pipe' \in Seq(Proc) /\ Len(pipe') =< PipeCapacity
  BY Limits DEF Write, TypeOK
<1>2. Append(written, p) \in Seq(Proc)
  BY DEF TypeOK
<1>3. written' \in Seq(Proc) /\ Len(written') =< HistorySize
  <2>1. written' = LastOf(Append(written, p), HistorySize)
    BY DEF Write
  <2> QED BY <1>2, <2>1, Limits, LastOfBounded
<1>4. fresh' \in 0 .. PipeCapacity
  BY Limits DEF Write, Smaller, TypeOK
<1> QED
  BY <1>1, <1>3, <1>4 DEF Write, TypeOK, processes, loop, ended

(* The processes and the clock keep the types. *)
LEMMA WorldTypes == TypeOK /\ World => TypeOK'
<1> SUFFICES ASSUME TypeOK, World PROVE TypeOK'
  OBVIOUS
<1>1. CASE Arm \/ Launch
  <2>1. CASE End(Leader)
    BY <2>1, EndTypes, Limits
  <2>2. CASE proc' = [proc EXCEPT ![Leader] = "armed"] /\ Arm
    BY <2>2, ProcessTypes, Limits DEF TypeOK, Arm, End
  <2>3. CASE Runs(Leader)
    BY <2>3, ProcessTypes, Limits DEF TypeOK, Runs
  <2> QED BY <1>1, <2>1, <2>2, <2>3 DEF Arm, Launch
<1>2. CASE DeadlinePasses
  BY <1>2 DEF DeadlinePasses, TypeOK, processes, loop, ended, history
<1>3. ASSUME NEW p \in Proc, LeaveGroup(p) \/ Write(p) \/ CloseOutput(p) \/ Exit(p) \/ Die(p)
      PROVE  TypeOK'
  <2>1. CASE LeaveGroup(p) \/ CloseOutput(p)
    BY <2>1, ProcessTypes DEF LeaveGroup, CloseOutput, TypeOK
  <2>2. CASE Write(p)
    BY <2>2, WriteTypes
  <2>3. CASE Exit(p) \/ Die(p)
    BY <2>3, EndTypes DEF Exit, Die
  <2> QED BY <1>3, <2>1, <2>2, <2>3
<1>4. ASSUME NEW p \in Proc, NEW q \in Proc, Start(p, q)
      PROVE  TypeOK'
  BY <1>4, ProcessTypes DEF Start, TypeOK
<1> QED BY <1>1, <1>2, <1>3, <1>4 DEF World

(* What a read takes and leaves. *)
LEMMA ChunkIs ==
    ASSUME TypeOK
    PROVE  /\ Chunk \in Seq(Proc) /\ Len(Chunk) \in 0 .. Len(pipe)
           /\ Chunk = SubSeq(pipe, 1, Len(Chunk))
           /\ \A i \in 1 .. Len(Chunk) : Chunk[i] = pipe[i]
           /\ LET rest == SubSeq(pipe, Len(Chunk) + 1, Len(pipe))
              IN  /\ rest \in Seq(Proc) /\ Len(rest) = Len(pipe) - Len(Chunk)
                  /\ \A i \in 1 .. Len(rest) : rest[i] = pipe[Len(Chunk) + i]
<1>1. pipe \in Seq(Proc) /\ Smaller(ReadSize, Len(pipe)) \in 0 .. Len(pipe)
  BY Limits DEF TypeOK, Smaller
<1> DEFINE n == Smaller(ReadSize, Len(pipe))
<1>2. Chunk = SubSeq(pipe, 1, n)
  BY DEF Chunk
<1> HIDE DEF n
<1>3. n \in 0 .. Len(pipe)
  BY <1>1 DEF n
<1>4. Chunk \in Seq(Proc) /\ Len(Chunk) = n /\ \A i \in 1 .. n : Chunk[i] = pipe[i]
  BY <1>1, <1>2, <1>3
<1>5. /\ SubSeq(pipe, n + 1, Len(pipe)) \in Seq(Proc)
      /\ Len(SubSeq(pipe, n + 1, Len(pipe))) = Len(pipe) - n
      /\ \A i \in 1 .. Len(pipe) - n : SubSeq(pipe, n + 1, Len(pipe))[i] = pipe[n + i]
  BY <1>1, <1>3
<1> QED BY <1>2, <1>3, <1>4, <1>5

(* A read keeps the tail within its limit. *)
LEMMA ReadTypes ==
    ASSUME TypeOK, Read
    PROVE  TypeOK'
<1>1. pipe' \in Seq(Proc) /\ Len(pipe') =< PipeCapacity
  BY ChunkIs, Limits DEF Read, TypeOK
<1>2. tail \o Chunk \in Seq(Proc)
  BY ChunkIs DEF TypeOK
<1>3. tail' \in Seq(Proc) /\ Len(tail') =< OutputLimit
  <2>1. tail' = LastOf(tail \o Chunk, OutputLimit)
    BY DEF Read
  <2> QED BY <1>2, <2>1, Limits, LastOfBounded
<1>4. truncated' \in BOOLEAN /\ registered' \in BOOLEAN
  BY DEF Read, TypeOK
<1> QED
  BY <1>1, <1>3, <1>4 DEF Read, TypeOK, Goto, processes, ended, history

(* Reaping turns a zombie into nothing. *)
LEMMA ReapingTypes ==
    ASSUME TypeOK, Reaping
    PROVE  /\ polled' \in BOOLEAN /\ group' \subseteq Proc /\ holders' \subseteq Proc
           /\ proc' \in [Proc -> {"unborn", "forked", "armed", "running", "dying", "zombie", "gone"}]
  BY DEF TypeOK, Reaping, Ended

(* Every step of run_bounded keeps the types. *)
LEMMA SuperviseTypes == TypeOK /\ Supervise => TypeOK'
<1> SUFFICES ASSUME TypeOK, Supervise PROVE TypeOK'
  OBVIOUS
<1> USE Limits DEF Goto
<1>1. CASE Spawn
  BY <1>1 DEF Spawn, TypeOK, loop, history
<1>2. CASE Spawned
  BY <1>2 DEF Spawned, TypeOK, processes, ended, history
<1>3. CASE Late \/ WatchFails
  BY <1>3 DEF Late, WatchFails, Raise, TypeOK, processes, loop, history
<1>4. CASE WatchDue \/ WatchReturns \/ NoWatchDue \/ Term
  BY <1>4 DEF WatchDue, WatchReturns, NoWatchDue, Term, TypeOK, processes, loop, ended, history
<1>5. CASE Select
  BY <1>5 DEF Select, Readable, TypeOK, processes, ended
<1>6. CASE Read
  BY <1>6, ReadTypes
<1>7. CASE Poll \/ Repoll \/ WaitGrace
  BY <1>7, ReapingTypes DEF Poll, Repoll, WaitGrace, TypeOK, loop, history
<1>8. CASE Return
  BY <1>8, ReapingTypes DEF Return, TypeOK, loop, history
<1>9. CASE Kill
  BY <1>9 DEF Kill, TypeOK, loop, ended, history
<1>10. CASE Reap
  BY <1>10, ReapingTypes DEF Reap, Ended, TypeOK, loop, history
<1> QED
  BY <1>1, <1>2, <1>3, <1>4, <1>5, <1>6, <1>7, <1>8, <1>9, <1>10 DEF Supervise

(* Every step keeps the types. *)
LEMMA TypeStep == TypeOK /\ [Next]_vars => TypeOK'
<1> SUFFICES ASSUME TypeOK, [Next]_vars PROVE TypeOK'
  OBVIOUS
<1>1. CASE Interrupt
  BY <1>1, Limits DEF Interrupt, TypeOK, processes, loop, history
<1>2. CASE SupervisorDies
  BY <1>2, Limits DEF SupervisorDies, TypeOK, loop, history
<1>3. CASE UNCHANGED vars
  BY <1>3 DEF vars, TypeOK, processes, loop, ended, history
<1> QED
  BY <1>1, <1>2, <1>3, WorldTypes, SuperviseTypes DEF Next

-------------------------------------------------------------------------------
(* Nothing but a write and a read touches the output. *)
LEMMA TailStep == TypeOK /\ TailKept /\ [Next]_vars => TailKept'
<1> SUFFICES ASSUME TypeOK, TailKept, [Next]_vars PROVE TailKept'
  OBVIOUS
<1>0. /\ tail \in Seq(Proc) /\ pipe \in Seq(Proc) /\ written \in Seq(Proc)
      /\ Len(tail) =< OutputLimit /\ Len(pipe) =< PipeCapacity
      /\ Len(tail) \in Nat /\ Len(pipe) \in Nat /\ Len(written) \in Nat
      /\ truncated \in BOOLEAN
  BY DEF TypeOK
<1>1. CASE UNCHANGED <<tail, truncated, pipe, written>>
  BY <1>1 DEF TailKept
<1>2. ASSUME NEW p \in Proc, Write(p)
      PROVE  TailKept'
  <2>1. /\ tail' = tail /\ truncated' = truncated
        /\ pipe' = Append(pipe, p)
        /\ written' = LastOf(Append(written, p), HistorySize)
        /\ Len(pipe) < PipeCapacity
    BY <1>2 DEF Write, loop
  <2>2. tail \o Append(pipe, p) = Append(tail \o pipe, p)
    BY <1>0
  <2>3. Append(written, p) \in Seq(Proc) /\ Len(Append(written, p)) = Len(written) + 1
    BY <1>0
  <2>4. CASE ~truncated
    <3>1. written = tail \o pipe
      BY <2>4 DEF TailKept
    <3>2. Len(written) = Len(tail) + Len(pipe)
      BY <1>0, <3>1
    <3>3. Len(written) + 1 =< HistorySize
      BY <1>0, <2>1, <3>2, Limits
    <3>4. written' = Append(written, p)
      BY <2>1, <2>3, <3>3, Limits, LastOfShort
    <3> QED BY <2>1, <2>2, <2>4, <3>1, <3>4 DEF TailKept
  <2>5. CASE truncated
    <3>1. Len(tail) = OutputLimit /\ tail \o pipe = LastOf(written, Len(tail \o pipe))
      BY <2>5 DEF TailKept
    <3>2. tail \o Append(pipe, p) = LastOf(written', Len(tail \o Append(pipe, p)))
      <4> DEFINE kept == tail \o pipe
                 n == Len(kept)
                 w == Append(written, p)
      <4>1. kept \in Seq(Proc) /\ n \in Nat /\ n = Len(tail) + Len(pipe)
        BY <1>0
      <4>2. n + 1 =< HistorySize
        BY <1>0, <2>1, <4>1, Limits
      <4>0. kept = LastOf(written, n)
        BY <3>1
      <4> HIDE DEF kept, n
      <4>3. n =< Len(written)
        <5>1. CASE Len(written) =< n
          <6>1. kept = written
            BY <1>0, <4>0, <4>1, <5>1, LastOfShort
          <6> QED BY <1>0, <6>1 DEF n
        <5> QED BY <1>0, <4>1, <5>1
      <4>4. \A i \in 1 .. n : kept[i] = written[Len(written) - n + i]
        BY <1>0, <4>0, <4>1, <4>3, LastOfLong
      <4>5. /\ w \in Seq(Proc) /\ Len(w) = Len(written) + 1
            /\ \A i \in 1 .. Len(written) : w[i] = written[i]
            /\ w[Len(written) + 1] = p
        BY <1>0, AppendIs
      <4>6. /\ Append(kept, p) \in Seq(Proc) /\ Len(Append(kept, p)) = n + 1
            /\ \A i \in 1 .. n : Append(kept, p)[i] = kept[i]
            /\ Append(kept, p)[n + 1] = p
        BY <4>1, AppendIs DEF n
      <4> HIDE DEF w
      <4>7. Append(kept, p) = LastOf(w, n + 1)
        <5>1. \A i \in 1 .. n + 1 : Append(kept, p)[i] = w[Len(w) - (n + 1) + i]
          <6> SUFFICES ASSUME NEW i \in 1 .. n + 1
                       PROVE  Append(kept, p)[i] = w[Len(written) - n + i]
            <7>1. Len(w) - (n + 1) = Len(written) - n
              BY <1>0, <4>1, <4>5
            <7> QED BY <7>1
          <6>1. CASE i = n + 1
            <7>1. Len(written) - n + i = Len(written) + 1
              BY <1>0, <4>1, <6>1
            <7> QED BY <4>5, <4>6, <6>1, <7>1
          <6>2. CASE i # n + 1
            <7>1. i \in 1 .. n /\ Len(written) - n + i \in 1 .. Len(written)
              BY <1>0, <4>1, <4>3, <6>2
            <7> QED BY <4>4, <4>5, <4>6, <7>1
          <6> QED BY <6>1, <6>2
        <5>2. Len(Append(kept, p)) =< Len(w)
          BY <1>0, <4>1, <4>3, <4>5, <4>6
        <5> QED BY <4>5, <4>6, <5>1, <5>2, LastIsLast
      <4>8. written' = LastOf(w, HistorySize)
        BY <2>1 DEF w
      <4>9. LastOf(written', n + 1) = LastOf(w, n + 1)
        <5>1. n + 1 \in Nat /\ n + 1 =< Len(w)
          BY <1>0, <4>1, <4>3, <4>5
        <5> QED BY <4>2, <4>5, <4>8, <5>1, Limits, LastOfLast
      <4>10. tail \o Append(pipe, p) = Append(kept, p)
        BY <2>2 DEF kept
      <4> QED BY <4>6, <4>7, <4>9, <4>10
    <3> QED BY <2>1, <2>5, <3>1, <3>2 DEF TailKept
  <2> QED BY <1>0, <2>4, <2>5
<1>3. CASE Read
  <2> DEFINE rest == SubSeq(pipe, Len(Chunk) + 1, Len(pipe))
             all == tail \o Chunk
  <2>1. /\ pipe' = rest /\ tail' = LastOf(all, OutputLimit) /\ written' = written
        /\ truncated' = (truncated \/ Len(all) > OutputLimit)
    BY <1>3 DEF Read, history
  <2>2. /\ all \in Seq(Proc) /\ Len(all) = Len(tail) + Len(Chunk)
        /\ rest \in Seq(Proc) /\ Len(rest) = Len(pipe) - Len(Chunk)
        /\ Len(Chunk) \in Nat /\ Len(all) \in Nat /\ Len(rest) \in Nat
    BY <1>0, ChunkIs
  <2>3. all \o rest = tail \o pipe
    <3>1. Len(Chunk) \in 0 .. Len(pipe) /\ Chunk = SubSeq(pipe, 1, Len(Chunk))
      BY ChunkIs
    <3>2. (tail \o SubSeq(pipe, 1, Len(Chunk))) \o rest = tail \o pipe
      BY <1>0, <3>1, Rejoin
    <3> QED BY <3>1, <3>2
  <2> HIDE DEF rest, all
  <2>4. CASE ~truncated'
    <3>1. tail' = all
      <4>1. Len(all) =< OutputLimit
        <5>1. ~(Len(all) > OutputLimit)
          BY <2>1, <2>4, Zenon
        <5> QED BY <2>2, <5>1, Limits
      <4> QED BY <2>1, <2>2, <4>1, Limits, LastOfShort
    <3> QED BY <1>0, <2>1, <2>3, <2>4, <3>1 DEF TailKept
  <2>5. CASE truncated'
    <3>1. Len(all) >= OutputLimit
      BY <1>0, <2>1, <2>2, <2>5, Limits DEF TailKept
    <3>2. Len(tail') = OutputLimit /\ tail' \in Seq(Proc)
      BY <2>1, <2>2, <3>1, Limits, LastOfLong
    <3>3. tail \o pipe = LastOf(written, Len(tail \o pipe))
      <4>1. CASE truncated
        BY <4>1 DEF TailKept
      <4>2. CASE ~truncated
        BY <1>0, <4>2, LastOfShort DEF TailKept
      <4> QED BY <1>0, <4>1, <4>2
    <3>4. tail' \o rest = LastOf(all \o rest, OutputLimit + Len(rest))
      BY <2>1, <2>2, <3>1, Limits, LastOfJoined
    <3>5. all \o rest = LastOf(written, Len(all \o rest)) /\ all \o rest \in Seq(Proc)
      BY <1>0, <2>3, <3>3
    <3>6. Len(all \o rest) = Len(all) + Len(rest)
      BY <2>2
    <3>7. OutputLimit + Len(rest) \in Nat /\ OutputLimit + Len(rest) =< Len(all \o rest)
      BY <2>2, <3>1, <3>6, Limits
    <3>8. LastOf(all \o rest, OutputLimit + Len(rest)) = LastOf(written, OutputLimit + Len(rest))
      <4>1. Len(all \o rest) \in Nat
        BY <2>2, <3>6
      <4>2. OutputLimit + Len(rest) =< Len(written)
        <5>1. CASE Len(written) =< Len(all \o rest)
          <6>1. all \o rest = written
            BY <1>0, <3>5, <4>1, <5>1, LastOfShort
          <6> QED BY <3>7, <6>1
        <5>2. CASE Len(all \o rest) =< Len(written)
          BY <1>0, <2>2, <3>7, <4>1, <5>2, Limits
        <5> QED BY <1>0, <4>1, <5>1, <5>2
      <4> DEFINE m == Len(all \o rest)
                 k == OutputLimit + Len(rest)
      <4>3. m \in Nat /\ k \in Nat /\ k =< m /\ k =< Len(written) /\ all \o rest = LastOf(written, m)
        BY <3>5, <3>7, <4>1, <4>2
      <4> HIDE DEF m, k
      <4>4. LastOf(LastOf(written, m), k) = LastOf(written, k)
        BY <1>0, <4>3, LastOfLast
      <4> QED BY <4>3, <4>4 DEF k
    <3>9. Len(tail' \o rest) = OutputLimit + Len(rest)
      BY <2>2, <3>2, ConcatIs
    <3> QED BY <2>1, <2>5, <3>2, <3>4, <3>8, <3>9 DEF TailKept
  <2>6. truncated' \in BOOLEAN
    BY <1>0, <2>1
  <2> QED BY <2>4, <2>5, <2>6
<1>4. CASE World
  <2>1. CASE \E p \in Proc : Write(p)
    BY <1>2, <2>1
  <2>2. CASE ~\E p \in Proc : Write(p)
    <3>1. UNCHANGED <<pipe, loop, history>>
      BY <1>4, <2>2 DEF World, Arm, Launch, End, Runs, DeadlinePasses, LeaveGroup, CloseOutput,
                        Exit, Die, Start
    <3> QED BY <1>1, <3>1 DEF loop, history
  <2> QED BY <2>1, <2>2
<1>5. CASE Supervise /\ ~Read
  <2>1. UNCHANGED <<pipe, tail, truncated, written>>
    BY <1>5 DEF Supervise, Spawn, Spawned, Late, WatchDue, WatchReturns, WatchFails, NoWatchDue,
                Raise, Select, Poll, Repoll, Return, Term, WaitGrace, Kill, Reap, loop, history
  <2> QED BY <1>1, <2>1
<1>6. CASE Interrupt \/ SupervisorDies \/ UNCHANGED vars
  BY <1>1, <1>6 DEF Interrupt, SupervisorDies, vars, loop, history
<1> QED
  BY <1>3, <1>4, <1>5, <1>6 DEF Next

-------------------------------------------------------------------------------
(* A process of the group that can run comes from one that can. *)
LEMMA KilledStep ==
    ASSUME TypeOK, GroupStarted, group \cap Killable = {}, World \/ UNCHANGED vars
    PROVE  (group \cap Killable = {})'
<1>1. \A p \in group : proc[p] \notin {"forked", "armed", "running"}
  BY DEF Killable, TypeOK
<1>2. CASE Arm \/ Launch
  BY <1>1, <1>2, Limits DEF Arm, Launch, End, Runs, Remains, Killable, TypeOK
<1>3. CASE DeadlinePasses \/ UNCHANGED vars
  BY <1>3 DEF DeadlinePasses, vars, processes, Killable
<1>4. ASSUME NEW p \in Proc, LeaveGroup(p) \/ Write(p) \/ CloseOutput(p)
      PROVE  (group \cap Killable = {})'
  BY <1>4 DEF LeaveGroup, Write, CloseOutput, processes, Killable
<1>5. ASSUME NEW p \in Proc, Exit(p) \/ Die(p)
      PROVE  (group \cap Killable = {})'
  BY <1>1, <1>5 DEF Exit, Die, End, Remains, Killable, TypeOK
<1>6. ASSUME NEW p \in Proc, NEW q \in Proc, Start(p, q)
      PROVE  (group \cap Killable = {})'
  <2>1. p \notin group
    BY <1>1, <1>6 DEF Start, Running
  <2>2. group' = group /\ proc' = [proc EXCEPT ![q] = "running"] /\ q \notin group
    BY <1>6, <2>1 DEF Start, GroupStarted
  <2> QED BY <1>1, <2>2 DEF Killable, TypeOK
<1> QED BY <1>2, <1>3, <1>4, <1>5, <1>6 DEF World
(* No step takes a process back to before its start. *)
LEMMA StartedStep == TypeOK /\ GroupStarted /\ [Next]_vars => GroupStarted'
<1> SUFFICES ASSUME TypeOK, GroupStarted, [Next]_vars PROVE GroupStarted'
  OBVIOUS
<1> USE DEF GroupStarted
<1>1. CASE UNCHANGED <<proc, group>>
  BY <1>1
<1>2. ASSUME NEW p \in Proc, End(p)
      PROVE  GroupStarted'
  BY <1>2 DEF End, Remains, TypeOK
<1>3. CASE Arm \/ Launch
  BY <1>2, <1>3, Limits DEF Arm, Launch, Runs, TypeOK
<1>4. ASSUME NEW p \in Proc, LeaveGroup(p) \/ Write(p) \/ CloseOutput(p) \/ Exit(p) \/ Die(p)
      PROVE  GroupStarted'
  BY <1>1, <1>2, <1>4 DEF LeaveGroup, Write, CloseOutput, Exit, Die, processes
<1>5. ASSUME NEW p \in Proc, NEW q \in Proc, Start(p, q)
      PROVE  GroupStarted'
  BY <1>5 DEF Start, TypeOK
<1>6. CASE World
  BY <1>1, <1>3, <1>4, <1>5, <1>6 DEF World, DeadlinePasses, processes
<1>7. CASE Reaping
  BY <1>7 DEF Reaping, TypeOK
<1>8. CASE Spawn \/ Kill \/ SupervisorDies
  BY <1>8, Limits DEF Spawn, Kill, SupervisorDies, Killable, TypeOK
<1>9. CASE Supervise
  BY <1>1, <1>7, <1>8, <1>9
     DEF Supervise, Spawned, Late, WatchDue, WatchReturns, WatchFails, NoWatchDue, Raise, Select,
         Read, Poll, Repoll, Return, Term, WaitGrace, Reap, processes
<1> QED
  BY <1>1, <1>6, <1>8, <1>9 DEF Next, Interrupt, vars, processes

(* After the kill no member of the group is left to be killed. *)
LEMMA CleanStep == IInv /\ [Next]_vars => GroupKilled'
<1> SUFFICES ASSUME IInv, [Next]_vars PROVE GroupKilled'
  OBVIOUS
<1> USE DEF IInv, GroupKilled, CleanedUp
<1>1. CASE World \/ UNCHANGED vars
  <2>1. UNCHANGED <<pc, outcome, polled, open>>
    BY <1>1 DEF World, Arm, Launch, End, Runs, DeadlinePasses, LeaveGroup, Write, CloseOutput,
                Exit, Die, Start, vars, ended
  <2>2. CASE group \cap Killable = {}
    <3>1. (group \cap Killable = {})'
      BY <1>1, <2>2, KilledStep
    <3> QED BY <2>1, <3>1
  <2>3. CASE group \cap Killable # {}
    BY <2>1, <2>3
  <2> QED BY <2>2, <2>3
<1>2. CASE pc' \notin {"reap", "returned"}
  BY <1>2
<1>3. CASE Kill
  BY <1>3 DEF Kill, Goto, Killable, TypeOK
<1>4. CASE Reap
  <2>1. group \cap Killable = {} /\ pc = "reap"
    BY <1>4 DEF Reap, Goto
  <2>2. (group \cap Killable = {})'
    BY <1>4, <2>1 DEF Reap, Reaping, Killable, TypeOK
  <2>3. outcome' # "unreaped" => polled' /\ ~open'
    BY <1>4 DEF Reap, Reaping
  <2> QED BY <1>4, <2>2, <2>3 DEF Reap, Goto
<1>5. CASE Supervise /\ ~Kill /\ ~Reap
  <2>1. pc' \notin {"reap", "returned"}
    BY <1>5 DEF Supervise, Spawn, Spawned, Late, WatchDue, WatchReturns, WatchFails, NoWatchDue,
                Raise, Select, Read, Poll, Repoll, Return, Term, WaitGrace, Goto
  <2> QED BY <1>2, <2>1
<1>6. CASE Interrupt
  BY <1>6 DEF Interrupt
<1>7. CASE SupervisorDies
  BY <1>2, <1>7 DEF SupervisorDies
<1> QED BY <1>1, <1>3, <1>4, <1>5, <1>6, <1>7 DEF Next

(* No step leaves the command running under a dead supervisor. *)
LEMMA OrphanStep == IInv /\ [Next]_vars => NoOrphanCommand'
<1> SUFFICES ASSUME IInv, [Next]_vars, pc' = "dead" PROVE proc'[Leader] # "running"
  BY DEF NoOrphanCommand
<1> USE Limits DEF IInv, NoOrphanCommand
<1>1. CASE SupervisorDies
  BY <1>1 DEF SupervisorDies, TypeOK
<1>2. CASE World \/ UNCHANGED vars
  <2>1. pc = "dead" /\ proc[Leader] # "running"
    BY <1>2 DEF World, Arm, Launch, End, Runs, DeadlinePasses, LeaveGroup, Write, CloseOutput,
                Exit, Die, Start, vars
  <2>2. CASE UNCHANGED proc
    BY <2>1, <2>2
  <2>3. ASSUME NEW p \in Proc, End(p)
        PROVE  proc'[Leader] # "running"
    BY <2>1, <2>3 DEF End, Remains, TypeOK
  <2>4. CASE Arm \/ Launch
    BY <2>1, <2>3, <2>4 DEF Arm, Launch, TypeOK
  <2>5. ASSUME NEW p \in Proc, NEW q \in Proc, Start(p, q)
        PROVE  proc'[Leader] # "running"
    BY <2>1, <2>5 DEF Start, TypeOK
  <2>6. ASSUME NEW p \in Proc, LeaveGroup(p) \/ Write(p) \/ CloseOutput(p) \/ Exit(p) \/ Die(p)
        PROVE  proc'[Leader] # "running"
    BY <2>2, <2>3, <2>6 DEF LeaveGroup, Write, CloseOutput, Exit, Die, processes
  <2> QED
    BY <1>2, <2>2, <2>4, <2>5, <2>6 DEF World, DeadlinePasses, vars, processes
<1>3. CASE Supervise \/ Interrupt
  <2>1. FALSE
    BY <1>3 DEF Supervise, Interrupt, Spawn, Spawned, Late, WatchDue, WatchReturns, WatchFails,
                NoWatchDue, Raise, Select, Read, Poll, Repoll, Return, Term, WaitGrace, Kill,
                Reap, Goto
  <2> QED BY <2>1
<1> QED BY <1>1, <1>2, <1>3 DEF Next

(* The initial state satisfies the invariant. *)
LEMMA Initially == Init => IInv
<1> SUFFICES ASSUME Init PROVE IInv
  OBVIOUS
<1>1. TypeOK
  <2>1. proc \in [Proc -> {"unborn", "forked", "armed", "running", "dying", "zombie", "gone"}]
    BY DEF Init
  <2>2. <<>> \in Seq(Proc) /\ Len(<<>>) = 0
    OBVIOUS
  <2>3. pipe = <<>> /\ tail = <<>> /\ written = <<>>
    BY DEF Init
  <2>4. interrupts \in 0 .. MaxInterrupts /\ fresh \in 0 .. PipeCapacity
    BY Limits DEF Init
  <2>5. {late, registered, events, polled, truncated, open} \subseteq BOOLEAN
    BY DEF Init
  <2> QED
    BY <2>1, <2>2, <2>3, <2>4, <2>5, Limits DEF Init, TypeOK
<1>2. TailKept
  BY DEF Init, TailKept
<1>3. GroupStarted /\ GroupKilled /\ NoOrphanCommand
  BY DEF Init, GroupStarted, GroupKilled, CleanedUp, NoOrphanCommand
<1> QED BY <1>1, <1>2, <1>3 DEF IInv

(* The strengthened invariant of the supervisor. *)
THEOREM Invariance == Spec => []IInv
<1>1. IInv /\ [Next]_vars => IInv'
  BY TypeStep, TailStep, StartedStep, CleanStep, OrphanStep DEF IInv
<1> QED BY <1>1, Initially, PTL DEF Spec

(* The variables have their types: the tail is bounded, for every output.   *)
(* (native_process.py:96-98)                                                *)
THEOREM TypeCorrect == Spec => []TypeOK
<1>1. IInv => TypeOK
  BY DEF IInv
<1> QED BY <1>1, Invariance, PTL

(* For every limit, the tail is the end of what was read, and truncated     *)
(* tells whether it is all of it.  (native_process.py:94-101)               *)
THEOREM TailCorrect == Spec => []TailKept
<1>1. IInv => TailKept
  BY DEF IInv
<1> QED BY <1>1, Invariance, PTL

(* Whatever the processes do, run_bounded leaves none of the group behind   *)
(* when it ends in its own way.  (native_process.py:113-124)                *)
THEOREM CleanupCorrect == Spec => []CleanedUp
<1>1. IInv => CleanedUp
  BY DEF IInv, GroupKilled
<1> QED BY <1>1, Invariance, PTL

(* The command never runs under a dead supervisor.                          *)
(* (native_process.py:25-31)                                                *)
THEOREM OrphanCorrect == Spec => []NoOrphanCommand
<1>1. IInv => NoOrphanCommand
  BY DEF IInv
<1> QED BY <1>1, Invariance, PTL

(* What the loop knows of the pipe at each place.  Once the end of the      *)
(* output was read nobody is left to write, and what select did not find    *)
(* was written after it.                                                    *)
Looping == {"check", "watch", "select", "read", "poll", "repoll", "result"}

Finishing == {"term", "wait", "kill", "reap", "returned", "dead"}

SeenInv ==
    /\ pc \in Looping /\ ~registered => pipe = <<>> /\ holders = {}
    /\ pc = "read" => events /\ (pipe # <<>> \/ holders = {})
    /\ pc = "poll" /\ ~events => Len(pipe) =< fresh
    /\ pc = "result" => Len(pipe) =< fresh
    /\ outcome = "result" => pc \in Finishing /\ Len(pipe) =< fresh

(* Processes write only what is fresh, and no process gets hold of a pipe   *)
(* that none holds.                                                         *)
LEMMA SeenWorld == TypeOK /\ SeenInv /\ World => SeenInv'
<1> SUFFICES ASSUME TypeOK, SeenInv, World PROVE SeenInv'
  OBVIOUS
<1> USE DEF SeenInv, processes, loop, ended, history
<1>0. pipe \in Seq(Proc) /\ Len(pipe) \in Nat /\ fresh \in Nat
  BY Limits DEF TypeOK
<1>1. ASSUME UNCHANGED <<pipe, pc, registered, events, outcome, fresh>>,
             holders = {} => holders' = {}
      PROVE  SeenInv'
  BY <1>1
<1>2. ASSUME NEW p \in Proc, End(p) PROVE SeenInv'
  BY <1>1, <1>2 DEF End
<1>3. CASE Arm \/ Launch \/ DeadlinePasses
  BY <1>1, <1>2, <1>3, Limits DEF Arm, Launch, DeadlinePasses, Runs
<1>4. ASSUME NEW p \in Proc, LeaveGroup(p) \/ CloseOutput(p) \/ Exit(p) \/ Die(p) PROVE SeenInv'
  BY <1>1, <1>2, <1>4 DEF LeaveGroup, CloseOutput, Exit, Die
<1>5. ASSUME NEW p \in Proc, NEW q \in Proc, Start(p, q) PROVE SeenInv'
  BY <1>1, <1>5 DEF Start
<1>6. ASSUME NEW p \in Proc, Write(p) PROVE SeenInv'
  <2>1. /\ p \in holders /\ Len(pipe) < PipeCapacity
        /\ pipe' = Append(pipe, p) /\ fresh' = Smaller(fresh + 1, PipeCapacity)
        /\ UNCHANGED <<holders, pc, registered, events, outcome>>
    BY <1>6 DEF Write
  <2>2. Len(pipe') = Len(pipe) + 1 /\ pipe' # <<>>
    BY <1>0, <2>1
  <2>3. Len(pipe) =< fresh => Len(pipe') =< fresh'
    BY <1>0, <2>1, <2>2, Limits DEF Smaller
  <2> QED BY <2>1, <2>2, <2>3
<1> QED BY <1>3, <1>4, <1>5, <1>6 DEF World

(* The loop ends only when it finds nothing to read. *)
LEMMA SeenSupervise == TypeOK /\ SeenInv /\ Supervise => SeenInv'
<1> SUFFICES ASSUME TypeOK, SeenInv, Supervise PROVE SeenInv'
  OBVIOUS
<1> USE DEF SeenInv, processes, loop, ended, history, Looping, Finishing, Goto
<1>0. pipe \in Seq(Proc) /\ Len(pipe) \in Nat /\ fresh \in Nat /\ Len(<<>>) = 0
      /\ outcome \in {"none", "result", "deadline", "watch", "interrupted", "abandoned", "unreaped"}
  BY Limits DEF TypeOK
<1>1. CASE Spawn \/ Spawned
  BY <1>1 DEF Spawn, Spawned
<1>2. CASE Late \/ WatchFails
  BY <1>2 DEF Late, WatchFails, Raise
<1>3. CASE WatchDue \/ WatchReturns \/ NoWatchDue
  BY <1>3 DEF WatchDue, WatchReturns, NoWatchDue
<1>4. CASE Select
  <2>1. pc = "select" /\ pc' = (IF Readable THEN "read" ELSE "poll") /\ fresh' = 0
        /\ events' = Readable /\ UNCHANGED <<pipe, holders, registered, outcome>>
    BY <1>4 DEF Select
  <2>2. CASE Readable
    BY <2>1, <2>2 DEF Readable
  <2>3. CASE ~Readable
    <3>1. pipe = <<>>
      BY <2>1, <2>3 DEF Readable
    <3> QED BY <1>0, <2>1, <2>3, <3>1
  <2> QED BY <2>2, <2>3
<1>5. CASE Read
  <2>1. /\ pc = "read" /\ pc' = "poll" /\ registered' = (Chunk # <<>>)
        /\ pipe' = SubSeq(pipe, Len(Chunk) + 1, Len(pipe))
        /\ UNCHANGED <<holders, events, outcome, fresh>>
    BY <1>5 DEF Read
  <2>2. CASE Chunk # <<>>
    BY <2>1, <2>2
  <2>3. CASE Chunk = <<>>
    <3>1. Len(pipe) = 0
      BY <1>0, <2>3, ChunkIs, Limits DEF Smaller, Chunk
    <3>2. pipe = <<>> /\ pipe' = <<>>
      BY <1>0, <2>1, <2>3, <3>1
    <3> QED BY <2>1, <2>3, <3>2
  <2> QED BY <2>2, <2>3
<1>6. CASE Poll
  BY <1>0, <1>6 DEF Poll, Reaping
<1>7. CASE Repoll
  BY <1>0, <1>7 DEF Repoll, Reaping
<1>8. CASE Return
  BY <1>8 DEF Return, Reaping
<1>9. CASE Term \/ WaitGrace \/ Kill
  BY <1>9 DEF Term, WaitGrace, Kill, Reaping
<1>10. CASE Reap
  BY <1>10 DEF Reap, Reaping
<1> QED
  BY <1>1, <1>2, <1>3, <1>4, <1>5, <1>6, <1>7, <1>8, <1>9, <1>10 DEF Supervise

(* For every pipe, chunk and limit, a result misses nothing that was        *)
(* written before the last select.  (native_process.py:84-105)              *)
THEOREM NothingLostCorrect == Spec => []NothingSeenIsLost
<1>1. Init => SeenInv
  BY DEF Init, SeenInv, Looping
<1>2. TypeOK /\ SeenInv /\ [Next]_vars => SeenInv'
  <2>1. SeenInv /\ Interrupt => SeenInv'
    BY DEF SeenInv, Interrupt, processes, loop, history, Looping, Finishing
  <2>2. SeenInv /\ SupervisorDies => SeenInv'
    BY DEF SeenInv, SupervisorDies, loop, history, Looping, Finishing
  <2>3. SeenInv /\ UNCHANGED vars => SeenInv'
    BY DEF SeenInv, vars, processes, loop, ended, history
  <2> QED BY <2>1, <2>2, <2>3, SeenWorld, SeenSupervise DEF Next
<1>3. SeenInv => NothingSeenIsLost
  BY DEF SeenInv, NothingSeenIsLost
<1> QED BY <1>1, <1>2, <1>3, TypeCorrect, PTL DEF Spec

-------------------------------------------------------------------------------
(* The supervisor of a recorded run. *)

(* Every step of a recorded run is one of its supervisor, or none that the  *)
(* supervisor could tell.                                                   *)
LEMMA RecordedStep == [RNext]_rvars => [Next]_vars
<1> SUFFICES ASSUME [RNext]_rvars PROVE Next \/ UNCHANGED vars
  OBVIOUS
<1>1. ASSUME NEW p \in Proc, NEW q \in Proc, RStart(p, q) PROVE Next
  BY <1>1 DEF RStart, Next, World
<1>2. ASSUME NEW p \in Proc, Send(p) \/ CloseSender(p) PROVE UNCHANGED vars
  BY <1>2 DEF Send, CloseSender
<1>3. ASSUME ROther PROVE Next
  BY <1>3 DEF ROther, Next, World
<1>4. ASSUME WatchReads \/ FinishReads PROVE Next \/ UNCHANGED vars
  BY <1>4 DEF WatchReads, FinishReads, ReadChannel, Next, Supervise
<1>5. ASSUME RSpawn \/ RSupervisor \/ WatchDrained PROVE Next
  BY <1>5 DEF RSpawn, RSupervisor, WatchDrained, Next, Supervise
<1>6. ASSUME Refuse \/ BeginFinish \/ Finish PROVE UNCHANGED vars
  BY <1>6 DEF Refuse, BeginFinish, Finish
<1>7. ASSUME RInterrupt \/ RSupervisorDies PROVE Next
  BY <1>7 DEF RInterrupt, RSupervisorDies, Next
<1>8. ASSUME UNCHANGED rvars PROVE UNCHANGED vars
  BY <1>8 DEF rvars
<1> QED BY <1>1, <1>2, <1>3, <1>4, <1>5, <1>6, <1>7, <1>8 DEF RNext, RSupervise

(* A recorded run is a run of the supervisor, whatever the command and its  *)
(* children do with the channel.  (installed_process.py:36-53)              *)
THEOREM Supervised == RSpec => Spec
<1>1. RInit => Init
  BY DEF RInit
<1> QED BY <1>1, RecordedStep, PTL DEF RSpec, Spec

(* So it keeps what the supervisor promises of the command and its output.  *)
(* (native_process.py:25-31, 84-105, 113-124)                               *)
THEOREM RecordedIsSupervised ==
  RSpec => [](TailKept /\ NothingSeenIsLost /\ CleanedUp /\ NoOrphanCommand)
BY Supervised, TailCorrect, NothingLostCorrect, CleanupCorrect, OrphanCorrect, PTL

(* A run is decided when run_bounded has returned; once accepted nobody is  *)
(* left that could send.                                                    *)
ChannelInv ==
    /\ sent \in 0 .. ChannelCapacity /\ senders \subseteq Proc
    /\ {writer, eof} \subseteq BOOLEAN /\ got \in 0 .. ChannelLimit
    /\ phase \in {"run", "finish", "accepted", "refused"}
    /\ phase # "run" => pc \in {"returned", "dead"} /\ writer = FALSE
    /\ AcceptedIsWhole

(* The channel starts empty. *)
LEMMA ChannelInit == RInit => ChannelInv
<1> SUFFICES ASSUME RInit PROVE ChannelInv
  OBVIOUS
<1>1. 0 \in 0 .. ChannelCapacity /\ 0 \in 0 .. ChannelLimit
  BY RecordedAssumption
<1>2. /\ sent = 0 /\ senders = {} /\ writer = TRUE /\ got = 0 /\ eof = FALSE /\ phase = "run"
  BY DEF RInit
<1>3. {writer, eof} \subseteq BOOLEAN
  BY <1>2
<1> QED BY <1>1, <1>2, <1>3 DEF ChannelInv, AcceptedIsWhole

(* Reading takes no more than the limit. *)
LEMMA ReadWithinLimit ==
  ASSUME ChannelInv, NEW exceeded, ReadChannel(exceeded)
  PROVE  sent' = 0 /\ got' \in 0 .. ChannelLimit /\ UNCHANGED <<senders, writer, eof>>
BY RecordedAssumption DEF ChannelInv, ReadChannel

(* No step breaks it. *)
LEMMA ChannelStep == TypeOK /\ ChannelInv /\ [RNext]_rvars => ChannelInv'
<1> SUFFICES ASSUME TypeOK, ChannelInv, [RNext]_rvars PROVE ChannelInv'
  OBVIOUS
<1> USE RecordedAssumption DEF ChannelInv, AcceptedIsWhole
<1>1. ASSUME UNCHANGED channel, pc = "returned" \/ pc = "dead" => pc' = pc PROVE ChannelInv'
  BY <1>1 DEF channel
<1>2. ASSUME NEW p \in Proc, NEW q \in Proc, RStart(p, q) PROVE ChannelInv'
  BY <1>2 DEF RStart, Start, ChannelUnused
<1>3. ASSUME NEW p \in Proc, Send(p) PROVE ChannelInv'
  BY <1>3 DEF Send, vars
<1>4. ASSUME NEW p \in Proc, CloseSender(p) PROVE ChannelInv'
  BY <1>4 DEF CloseSender, vars
<1>5. ASSUME ROther PROVE ChannelInv'
  <2>1. pc' = pc
    BY <1>5 DEF ROther, Arm, Launch, DeadlinePasses, LeaveGroup, Write, CloseOutput, Exit, Die, End, Runs
  <2>2. senders' \subseteq senders /\ UNCHANGED <<sent, writer, got, eof, phase>>
    BY <1>5 DEF ROther, ChannelUnused, Survivors
  <2> QED BY <2>1, <2>2
<1>6. ASSUME RSpawn PROVE ChannelInv'
  BY <1>6, SupervisorAssumption DEF RSpawn, Spawn, Goto, ChannelUnused
<1>7. ASSUME RSupervisor \/ WatchDrained \/ RInterrupt PROVE ChannelInv'
  <2>1. UNCHANGED channel /\ (pc = "returned" \/ pc = "dead" => pc' = pc)
    BY <1>7 DEF RSupervisor, WatchDrained, RInterrupt, Spawned, Late, WatchDue, WatchFails, NoWatchDue,
                Select, Read, Poll, Repoll, Return, Term, WaitGrace, Kill, Reap, WatchReturns, Interrupt, Goto
  <2> QED BY <1>1, <2>1
<1>8. ASSUME WatchReads PROVE ChannelInv'
  <2>1. pc = "watch" /\ phase = "run"
    BY <1>8 DEF WatchReads
  <2>2. sent' = 0 /\ got' \in 0 .. ChannelLimit /\ UNCHANGED <<senders, writer, eof>>
    BY <1>8, ReadWithinLimit DEF WatchReads
  <2>3. phase' = phase
    BY <1>8 DEF WatchReads, ReadChannel
  <2> QED BY <2>1, <2>2, <2>3
<1>9. ASSUME RSupervisorDies PROVE ChannelInv'
  BY <1>9 DEF RSupervisorDies, SupervisorDies
<1>10. ASSUME Refuse \/ BeginFinish PROVE ChannelInv'
  BY <1>10 DEF Refuse, BeginFinish, vars
<1>11. ASSUME FinishReads PROVE ChannelInv'
  <2>1. /\ sent' = 0 /\ got' \in 0 .. ChannelLimit /\ UNCHANGED <<senders, writer, eof>>
        /\ phase = "finish"
    BY <1>11, ReadWithinLimit DEF FinishReads
  <2>2. phase' \in {"finish", "refused"} /\ pc' = pc
    BY <1>11 DEF FinishReads, ReadChannel, vars
  <2> QED BY <2>1, <2>2
<1>12. ASSUME Finish PROVE ChannelInv'
  <2>1. eof' \in BOOLEAN /\ phase' \in {"accepted", "refused"}
    BY <1>12 DEF Finish
  <2>2. phase' = "accepted" => sent = 0 /\ senders = {} /\ writer = FALSE
    BY <1>12 DEF Finish, Exhausted
  <2> QED BY <1>12, <2>1, <2>2 DEF Finish, vars
<1>13. ASSUME UNCHANGED rvars PROVE ChannelInv'
  BY <1>1, <1>13 DEF rvars, vars
<1> QED BY <1>2, <1>3, <1>4, <1>5, <1>6, <1>7, <1>8, <1>9, <1>10, <1>11, <1>12, <1>13 DEF RNext, RSupervise

(* In every state of a recorded run, for every size of the channel and for  *)
(* every limit: what the channel keeps is typed and bounded.                *)
(* (recorded_channels.py:10-12,30)                                          *)
THEOREM RecordedTypes == RSpec => []RTypeOK
<1>1. TypeOK /\ ChannelInv => RTypeOK
  BY DEF ChannelInv, RTypeOK
<1> QED BY <1>1, ChannelInit, Supervised, TypeCorrect, ChannelStep, PTL DEF RSpec

(* In every state of a recorded run: a receipt that was accepted is whole,  *)
(* and nobody is left to send more.  (recorded_channels.py:38-43)           *)
THEOREM ReceiptCorrect == RSpec => []AcceptedIsWhole
<1>1. ChannelInv => AcceptedIsWhole
  BY DEF ChannelInv
<1> QED BY <1>1, ChannelInit, Supervised, TypeCorrect, ChannelStep, PTL DEF RSpec
===============================================================================
