---------------------------- MODULE TraceCheckProofs ----------------------------
(***************************************************************************)
(* Theorems about TraceCheck for any number of threads and children, and   *)
(* for runs of any length.                                                 *)
(***************************************************************************)
EXTENDS TraceCheck, FiniteSetTheorems, TLAPS

Kinds == {"call", "scope", "END", "effect", "spawn", "kill", "wait"}

Entry == [is : Kinds, time : Nat, child : Child \cup {None}, where : {"none", "call", "scope"}]

Types ==
    /\ clock \in Nat
    /\ events \in [Thread -> Seq(Entry)]
    /\ inside \in [Thread -> {"none", "call", "scope"}]
    /\ calling \in [Thread -> SUBSET Child] /\ started \in [Thread -> Nat]
    /\ life \in [Child -> {"unborn", "spawned", "alive", "ended"}]
    /\ first \in [Child -> Nat] /\ last \in [Child -> Nat]
    /\ phase \in {"run", "check", "accepted", "refused"}
    /\ thread \in Nat /\ next \in Nat
    /\ trace \in [Child -> Child \cup {None}]

SpawnAt(t, i) == i \in DOMAIN events[t] /\ events[t][i].is = "spawn"

(* A call that started a child began when the child could not be seen yet.  *)
Precedes(time, c) ==
    /\ c \in Child /\ life[c] # "unborn" /\ time =< clock
    /\ life[c] \in {"alive", "ended"} => time =< first[c]

SpawnsPrecede ==
    /\ \A t \in Thread : \A i \in DOMAIN events[t] :
          SpawnAt(t, i) => Precedes(events[t][i].time, events[t][i].child)
    /\ \A t \in Thread : \A c \in calling[t] : Precedes(started[t], c)

(* A child is started once. *)
SpawnsDiffer ==
    /\ \A t, u \in Thread : \A i \in DOMAIN events[t], j \in DOMAIN events[u] :
          SpawnAt(t, i) /\ SpawnAt(u, j) /\ events[t][i].child = events[u][j].child =>
             t = u /\ i = j
    /\ \A t, u \in Thread : \A c \in calling[u] :
          /\ \A i \in DOMAIN events[t] : SpawnAt(t, i) => events[t][i].child # c
          /\ c \in calling[t] => t = u

LivesInOrder ==
    \A c \in Child : /\ life[c] \in {"alive", "ended"} => first[c] =< clock
                     /\ life[c] = "ended" => first[c] =< last[c]

AllOver == phase # "run" => \A c \in Child : life[c] \in {"unborn", "ended"}

RunInv == SpawnsPrecede /\ SpawnsDiffer /\ LivesInOrder /\ AllOver

(* The spawns of the part of the traces that has been checked. *)
Checked(t, i) == t < thread \/ (t = thread /\ i < next)

MatchedWereSpawned ==
    \A c \in Matched : \E t \in Thread : \E i \in DOMAIN events[t] :
       SpawnAt(t, i) /\ events[t][i].child = c /\ Checked(t, i)

(* Once a spawn has got a trace that is not its own, some child that was    *)
(* spawned keeps a trace that nobody has got.                               *)
OwnOrLeftOver ==
    \/ \A c \in Matched : trace[c] = c
    \/ \E c \in Matched : c \notin Used

Verdict ==
    /\ phase = "run" => Matched = {}
    /\ phase = "accepted" => Used = Candidates

IInv ==
    /\ Types /\ RunInv
    /\ MatchedWereSpawned /\ OwnOrLeftOver /\ Verdict

(* What is recorded comes after what was, and changes none of it. *)
LEMMA Recording ==
  ASSUME NEW old \in [Thread -> Seq(Entry)], NEW t \in Thread, NEW e \in Entry,
         NEW new, new = [old EXCEPT ![t] = Append(@, e)]
  PROVE  /\ new \in [Thread -> Seq(Entry)]
         /\ \A u \in Thread : \A i \in DOMAIN new[u] :
               \/ i \in DOMAIN old[u] /\ new[u][i] = old[u][i]
               \/ u = t /\ i = Len(old[t]) + 1 /\ new[u][i] = e
         /\ \A u \in Thread : \A i \in DOMAIN old[u] :
               i \in DOMAIN new[u] /\ new[u][i] = old[u][i]
<1>1. old[t] \in Seq(Entry) /\ Append(old[t], e) \in Seq(Entry) /\ Len(old[t]) \in Nat
  OBVIOUS
<1>2. new \in [Thread -> Seq(Entry)] /\ new[t] = Append(old[t], e)
  BY <1>1
<1>3. \A u \in Thread : u # t => new[u] = old[u]
  OBVIOUS
<1>4. DOMAIN new[t] = 1 .. Len(old[t]) + 1 /\ DOMAIN old[t] = 1 .. Len(old[t])
  BY <1>1, <1>2
<1>5. /\ \A i \in DOMAIN old[t] : new[t][i] = old[t][i]
      /\ new[t][Len(old[t]) + 1] = e
  BY <1>1, <1>2, <1>4
<1>6. \A i \in DOMAIN new[t] : i \in DOMAIN old[t] \/ i = Len(old[t]) + 1
  BY <1>1, <1>4
<1> QED BY <1>2, <1>3, <1>4, <1>5, <1>6

(* At first nothing has happened. *)
LEMMA InitIInv == Init => IInv
<1> SUFFICES ASSUME Init PROVE IInv
  OBVIOUS
<1> USE TraceAssumption DEF Init
<1>1. Types
  <2>1. events \in [Thread -> Seq(Entry)]
    OBVIOUS
  <2> QED BY <2>1 DEF Types, Thread
<1>2. RunInv
  BY DEF RunInv, SpawnsPrecede, SpawnsDiffer, LivesInOrder, AllOver, SpawnAt, Precedes
<1>3. Matched = {}
  BY DEF Matched
<1>4. MatchedWereSpawned /\ OwnOrLeftOver /\ Verdict
  BY <1>3 DEF MatchedWereSpawned, OwnOrLeftOver, Verdict
<1> QED BY <1>1, <1>2, <1>4 DEF IInv

-------------------------------------------------------------------------------
(* The steps of the run. *)

(* Time does not go back. *)
LEMMA Clock ==
  ASSUME clock \in Nat, NEW strange, Later(strange)
  PROVE  clock' \in Nat /\ clock =< clock'
BY DEF Later

(* What a step may do to the children. *)
LivesOn ==
    /\ clock' \in Nat /\ clock =< clock'
    /\ \A d \in Child :
          /\ life[d] # "unborn" => life'[d] # "unborn"
          /\ life'[d] \in {"alive", "ended"} =>
                \/ life[d] \in {"alive", "ended"} /\ first'[d] = first[d]
                \/ first'[d] = clock'

(* What preceded a child goes on doing so. *)
LEMMA StillPrecedes ==
  ASSUME Types, LivesOn
  PROVE  \A when \in Nat, d \in Child : Precedes(when, d) => Precedes(when, d)'
<1> SUFFICES ASSUME NEW when \in Nat, NEW d \in Child, Precedes(when, d)
             PROVE  Precedes(when, d)'
  OBVIOUS
<1> QED BY DEF Types, LivesOn, Precedes

(* An entry that is no spawn changes nothing that RunInv speaks of. *)
LEMMA RecordOther ==
  ASSUME IInv, NEW t \in Thread, NEW what \in Kinds \ {"spawn"}, NEW time \in Nat,
         NEW c \in Child \cup {None}, Record(t, what, time, c),
         clock' \in Nat, clock =< clock',
         UNCHANGED <<calling, started, life, first, last, phase>>
  PROVE  events' \in [Thread -> Seq(Entry)] /\ RunInv'
<1> DEFINE e == [is |-> what, time |-> time, child |-> c, where |-> inside[t]]
<1>1. e \in Entry
  BY DEF IInv, Types, Entry
<1>2. events' = [events EXCEPT ![t] = Append(@, e)] /\ events \in [Thread -> Seq(Entry)]
  BY DEF Record, IInv, Types
<1>3. e.is # "spawn"
  OBVIOUS
<1> HIDE DEF e
<1>4. /\ events' \in [Thread -> Seq(Entry)]
      /\ \A u \in Thread : \A i \in DOMAIN events'[u] :
            \/ i \in DOMAIN events[u] /\ events'[u][i] = events[u][i]
            \/ u = t /\ i = Len(events[t]) + 1 /\ events'[u][i] = e
  BY <1>1, <1>2, Recording
<1>5. \A u \in Thread : \A i \in DOMAIN events'[u] :
         SpawnAt(u, i)' => i \in DOMAIN events[u] /\ SpawnAt(u, i) /\ events'[u][i] = events[u][i]
  BY <1>3, <1>4 DEF SpawnAt
<1>6. \A u \in Thread : \A i \in DOMAIN events[u] : events[u][i].time \in Nat
  <2> TAKE u \in Thread
  <2> TAKE i \in DOMAIN events[u]
  <2>1. events[u] \in Seq(Entry)
    BY <1>2
  <2>2. events[u][i] \in Entry
    BY <2>1
  <2> QED BY <2>2 DEF Entry
<1>7. SpawnsPrecede'
  <2>1. \A when \in Nat, d \in Child : Precedes(when, d) => Precedes(when, d)'
    BY StillPrecedes DEF IInv, Types, LivesOn
  <2>2. ASSUME NEW u \in Thread, NEW i \in DOMAIN events'[u], SpawnAt(u, i)'
        PROVE  Precedes(events[u][i].time, events[u][i].child)'
    <3>1. i \in DOMAIN events[u] /\ SpawnAt(u, i) /\ events'[u][i] = events[u][i]
      BY <1>5, <2>2
    <3>2. Precedes(events[u][i].time, events[u][i].child)
      BY <3>1 DEF IInv, RunInv, SpawnsPrecede
    <3> QED BY <1>6, <2>1, <3>1, <3>2 DEF Precedes
  <2>3. \A u \in Thread : \A d \in calling[u] : Precedes(started[u], d)'
    BY <2>1 DEF IInv, Types, RunInv, SpawnsPrecede
  <2> QED BY <2>2, <2>3 DEF SpawnsPrecede
<1>8. SpawnsDiffer'
  BY <1>5 DEF IInv, RunInv, SpawnsDiffer
<1>9. LivesInOrder' /\ AllOver'
  BY DEF IInv, Types, RunInv, LivesInOrder, AllOver
<1> QED BY <1>4, <1>7, <1>8, <1>9 DEF RunInv

(* A call that returns takes its child from the calls under way to the      *)
(* trace, with the time at which it began.                                  *)
LEMMA RecordSpawn ==
  ASSUME IInv, NEW t \in Thread, Returns(t)
  PROVE  events' \in [Thread -> Seq(Entry)] /\ calling' \in [Thread -> SUBSET Child] /\ RunInv'
<1>1. PICK c \in calling[t] : Record(t, "spawn", started[t], c)
  BY DEF Returns
<1>2. c \in Child /\ started[t] \in Nat
  BY <1>1 DEF IInv, Types
<1> DEFINE e == [is |-> "spawn", time |-> started[t], child |-> c, where |-> inside[t]]
<1>3. e \in Entry
  BY <1>2 DEF IInv, Types, Entry, Kinds
<1>4. events' = [events EXCEPT ![t] = Append(@, e)] /\ events \in [Thread -> Seq(Entry)]
  BY <1>1 DEF Record, IInv, Types
<1>5. e.is = "spawn" /\ e.child = c /\ e.time = started[t]
  OBVIOUS
<1> HIDE DEF e
<1>6. /\ events' \in [Thread -> Seq(Entry)]
      /\ \A u \in Thread : \A i \in DOMAIN events'[u] :
            \/ i \in DOMAIN events[u] /\ events'[u][i] = events[u][i]
            \/ u = t /\ i = Len(events[t]) + 1 /\ events'[u][i] = e
  BY <1>3, <1>4, Recording
<1>7. calling' = [calling EXCEPT ![t] = {}] /\ calling' \in [Thread -> SUBSET Child]
  BY DEF Returns, IInv, Types
<1>8. UNCHANGED <<clock, started, life, first, last, phase>>
  BY DEF Returns, children, Unchecked
<1>9. \A u \in Thread : \A d \in calling'[u] : u # t /\ d \in calling[u]
  BY <1>7 DEF IInv, Types
<1>10. Precedes(started[t], c)
  BY <1>1 DEF IInv, RunInv, SpawnsPrecede
<1>11. SpawnsPrecede'
  <2>1. ASSUME NEW u \in Thread, NEW i \in DOMAIN events'[u], SpawnAt(u, i)'
        PROVE  Precedes(events'[u][i].time, events'[u][i].child)
    BY <1>5, <1>6, <1>10, <2>1 DEF IInv, RunInv, SpawnsPrecede, SpawnAt
  <2>2. \A u \in Thread : \A d \in calling'[u] : Precedes(started[u], d)
    BY <1>9 DEF IInv, RunInv, SpawnsPrecede
  <2> QED BY <1>8, <2>1, <2>2 DEF SpawnsPrecede, Precedes
<1>12. \A u \in Thread : \A i \in DOMAIN events[u] : SpawnAt(u, i) => events[u][i].child # c
  BY <1>1 DEF IInv, RunInv, SpawnsDiffer
<1>13. SpawnsDiffer'
  <2>1. ASSUME NEW u \in Thread, NEW v \in Thread, NEW i \in DOMAIN events'[u], NEW j \in DOMAIN events'[v],
               SpawnAt(u, i)', SpawnAt(v, j)', events'[u][i].child = events'[v][j].child
        PROVE  u = v /\ i = j
    <3>1. CASE i \in DOMAIN events[u] /\ events'[u][i] = events[u][i]
      <4>1. SpawnAt(u, i)
        BY <3>1, <2>1 DEF SpawnAt
      <4>2. j \in DOMAIN events[v] /\ events'[v][j] = events[v][j]
        BY <1>5, <1>6, <1>12, <2>1, <3>1, <4>1
      <4>3. SpawnAt(v, j)
        BY <4>2, <2>1 DEF SpawnAt
      <4> QED BY <2>1, <3>1, <4>1, <4>2, <4>3 DEF IInv, RunInv, SpawnsDiffer
    <3>2. CASE u = t /\ i = Len(events[t]) + 1 /\ events'[u][i] = e
      <4>1. ~(j \in DOMAIN events[v] /\ events'[v][j] = events[v][j])
        BY <1>5, <1>12, <2>1, <3>2 DEF SpawnAt
      <4> QED BY <1>6, <3>2, <4>1
    <3> QED BY <1>6, <3>1, <3>2
  <2>2. ASSUME NEW u \in Thread, NEW v \in Thread, NEW d \in calling'[v]
        PROVE  /\ \A i \in DOMAIN events'[u] : SpawnAt(u, i)' => events'[u][i].child # d
               /\ d \in calling'[u] => u = v
    <3>1. d \in calling[v] /\ v # t
      BY <1>9
    <3>2. d # c
      BY <1>1, <3>1 DEF IInv, RunInv, SpawnsDiffer
    <3>3. ASSUME NEW i \in DOMAIN events'[u], SpawnAt(u, i)'
          PROVE  events'[u][i].child # d
      BY <1>5, <1>6, <3>1, <3>2, <3>3 DEF IInv, RunInv, SpawnsDiffer, SpawnAt
    <3>4. d \in calling'[u] => u = v
      BY <1>9, <3>1 DEF IInv, RunInv, SpawnsDiffer
    <3> QED BY <3>3, <3>4
  <2> QED BY <2>1, <2>2 DEF SpawnsDiffer
<1>14. LivesInOrder' /\ AllOver'
  BY <1>8 DEF IInv, RunInv, LivesInOrder, AllOver
<1> QED BY <1>6, <1>7, <1>11, <1>13, <1>14 DEF RunInv

(* The lives of the children go on, and nothing is recorded. *)
LEMMA Living ==
  ASSUME IInv, LivesOn, UNCHANGED <<events, calling, started, phase>>, phase = "run",
         \A c \in Child : life'[c] = "ended" => first'[c] =< last'[c]
  PROVE  RunInv'
<1>1. \A when \in Nat, d \in Child : Precedes(when, d) => Precedes(when, d)'
  BY StillPrecedes DEF IInv
<1>2. SpawnsPrecede'
  <2>1. ASSUME NEW u \in Thread, NEW i \in DOMAIN events[u], SpawnAt(u, i)
        PROVE  Precedes(events[u][i].time, events[u][i].child)'
    <3>1. events[u] \in Seq(Entry)
      BY DEF IInv, Types
    <3>2. events[u][i] \in Entry
      BY <3>1
    <3>3. Precedes(events[u][i].time, events[u][i].child)
      BY <2>1 DEF IInv, RunInv, SpawnsPrecede
    <3> QED BY <1>1, <3>2, <3>3 DEF Precedes, Entry
  <2>2. \A u \in Thread : \A d \in calling[u] : Precedes(started[u], d)'
    BY <1>1 DEF IInv, Types, RunInv, SpawnsPrecede
  <2> QED BY <2>1, <2>2 DEF SpawnsPrecede, SpawnAt
<1>3. SpawnsDiffer'
  BY DEF IInv, RunInv, SpawnsDiffer, SpawnAt
<1>4. LivesInOrder'
  <2> SUFFICES ASSUME NEW c \in Child
               PROVE  /\ life'[c] \in {"alive", "ended"} => first'[c] =< clock'
                      /\ life'[c] = "ended" => first'[c] =< last'[c]
    BY DEF LivesInOrder
  <2>1. first[c] \in Nat /\ clock \in Nat /\ clock' \in Nat /\ clock =< clock'
    BY DEF IInv, Types, LivesOn
  <2>2. life[c] \in {"alive", "ended"} => first[c] =< clock
    BY DEF IInv, RunInv, LivesInOrder
  <2>3. life'[c] \in {"alive", "ended"} => first'[c] =< clock'
    BY <2>1, <2>2 DEF LivesOn
  <2> QED BY <2>3
<1>5. AllOver'
  BY DEF AllOver
<1> QED BY <1>2, <1>3, <1>4, <1>5 DEF RunInv

(* A call begins, and the child was in no trace and in no call before.      *)
LEMMA Calling ==
  ASSUME IInv, NEW t \in Thread, NEW c \in Child, Spawn(t, c)
  PROVE  Types' /\ RunInv'
<1>1. clock' \in Nat /\ clock =< clock'
  BY Clock DEF Spawn, IInv, Types
<1>2. Types'
  BY <1>1 DEF Spawn, Unchecked, place, rows, IInv, Types
<1>3. /\ phase = "run" /\ life[c] = "unborn" /\ calling[t] = {}
      /\ calling' = [calling EXCEPT ![t] = {c}] /\ started' = [started EXCEPT ![t] = clock']
      /\ life' = [life EXCEPT ![c] = "spawned"]
      /\ UNCHANGED <<events, first, last, phase>>
  BY DEF Spawn, Idle, Unchecked
<1>4. LivesOn
  BY <1>1, <1>3 DEF LivesOn, IInv, Types
<1>5. \A when \in Nat, d \in Child : Precedes(when, d) => Precedes(when, d)'
  BY <1>4, StillPrecedes DEF IInv
<1>6. \A when \in Nat, d \in Child : Precedes(when, d) => d # c
  BY <1>3 DEF Precedes
<1>7. \A u \in Thread : \A d \in calling[u] : Precedes(started[u], d) /\ d # c
  BY <1>6 DEF IInv, Types, RunInv, SpawnsPrecede
<1>8. \A u \in Thread : \A i \in DOMAIN events[u] : SpawnAt(u, i) =>
         /\ Precedes(events[u][i].time, events[u][i].child)
         /\ events[u][i].time \in Nat /\ events[u][i].child \in Child \ {c}
  <2> SUFFICES ASSUME NEW u \in Thread, NEW i \in DOMAIN events[u], SpawnAt(u, i)
               PROVE  /\ Precedes(events[u][i].time, events[u][i].child)
                      /\ events[u][i].time \in Nat /\ events[u][i].child \in Child \ {c}
    OBVIOUS
  <2>1. events[u] \in Seq(Entry)
    BY DEF IInv, Types
  <2>2. events[u][i] \in Entry
    BY <2>1
  <2>3. Precedes(events[u][i].time, events[u][i].child)
    BY DEF IInv, RunInv, SpawnsPrecede
  <2> QED BY <1>6, <2>2, <2>3 DEF Precedes, Entry
<1>9. \A u \in Thread : \A d \in calling'[u] :
         \/ u = t /\ d = c
         \/ u # t /\ d \in calling[u] /\ started'[u] = started[u]
  BY <1>3 DEF IInv, Types
<1>10. SpawnsPrecede'
  <2>1. ASSUME NEW u \in Thread, NEW i \in DOMAIN events[u], SpawnAt(u, i)
        PROVE  Precedes(events[u][i].time, events[u][i].child)'
    <3>1. Precedes(events[u][i].time, events[u][i].child)
      BY <1>8, <2>1
    <3>2. events[u][i].time \in Nat /\ events[u][i].child \in Child
      BY <1>8, <2>1
    <3> QED BY <1>3, <1>5, <3>1, <3>2 DEF Precedes
  <2>2. ASSUME NEW u \in Thread, NEW d \in calling'[u]
        PROVE  Precedes(started[u], d)'
    <3>1. CASE u = t /\ d = c
      BY <1>1, <1>3, <3>1 DEF Precedes, IInv, Types
    <3>2. CASE u # t /\ d \in calling[u] /\ started'[u] = started[u]
      <4>1. Precedes(started[u], d) /\ started[u] \in Nat /\ d \in Child
        BY <1>7, <3>2 DEF IInv, Types
      <4> QED BY <1>5, <3>2, <4>1 DEF Precedes
    <3> QED BY <1>9, <3>1, <3>2
  <2> QED BY <1>3, <2>1, <2>2 DEF SpawnsPrecede, SpawnAt
<1>11. SpawnsDiffer'
  <2>1. ASSUME NEW u \in Thread, NEW v \in Thread, NEW d \in calling'[v]
        PROVE  /\ \A i \in DOMAIN events[u] : SpawnAt(u, i) => events[u][i].child # d
               /\ d \in calling'[u] => u = v
    <3>1. CASE v = t /\ d = c
      BY <1>7, <1>8, <1>9, <3>1
    <3>2. CASE v # t /\ d \in calling[v]
      BY <1>7, <1>9, <3>2 DEF IInv, RunInv, SpawnsDiffer
    <3> QED BY <1>9, <3>1, <3>2
  <2> QED BY <1>3, <2>1 DEF SpawnsDiffer, SpawnAt, IInv, RunInv
<1>12. LivesInOrder'
  BY <1>1, <1>3 DEF LivesInOrder, IInv, Types, RunInv
<1>13. AllOver'
  BY <1>3 DEF AllOver
<1> QED BY <1>2, <1>10, <1>11, <1>12, <1>13 DEF RunInv

(* No step of the run breaks the invariant: nothing is matched yet. *)
LEMMA RunStep == IInv /\ Run => IInv'
<1> SUFFICES ASSUME IInv, Run PROVE IInv'
  OBVIOUS
<1> USE DEF IInv
<1>1. ASSUME NEW t \in Thread, NEW kind \in {"call", "scope"}, Enter(t, kind)
      PROVE  Types' /\ RunInv' /\ Unchecked /\ phase = "run"
  <2>1. Record(t, kind, 0, None) /\ UNCHANGED <<calling, started, life, first, last, phase, clock>>
    BY <1>1 DEF Enter, Unchecked, children
  <2>2. events' \in [Thread -> Seq(Entry)] /\ RunInv'
    BY <2>1, RecordOther DEF Kinds, Types
  <2> QED BY <1>1, <2>1, <2>2 DEF Enter, Idle, Unchecked, place, rows, Types
<1>2. ASSUME NEW t \in Thread, Leave(t)
      PROVE  Types' /\ RunInv' /\ Unchecked /\ phase = "run"
  <2>1. clock' \in Nat /\ clock =< clock'
    BY <1>2, Clock DEF Leave, Types
  <2>2. Record(t, "END", clock', None) /\ UNCHANGED <<calling, started, life, first, last, phase>>
    BY <1>2 DEF Leave, Unchecked, children
  <2>3. events' \in [Thread -> Seq(Entry)] /\ RunInv'
    BY <2>1, <2>2, RecordOther DEF Kinds, Types
  <2> QED BY <1>2, <2>1, <2>2, <2>3 DEF Leave, Idle, Unchecked, place, rows, Types
<1>3. ASSUME NEW t \in Thread, Effect(t)
      PROVE  Types' /\ RunInv' /\ Unchecked /\ phase = "run"
  <2>1. Record(t, "effect", 0, None) /\ UNCHANGED <<calling, started, life, first, last, phase, clock>>
    BY <1>3 DEF Effect, Unchecked, children
  <2>2. events' \in [Thread -> Seq(Entry)] /\ RunInv'
    BY <2>1, RecordOther DEF Kinds, Types
  <2> QED BY <1>3, <2>1, <2>2 DEF Effect, Idle, Unchecked, place, rows, Types
<1>4. ASSUME NEW t \in Thread, Returns(t)
      PROVE  Types' /\ RunInv' /\ Unchecked /\ phase = "run"
  BY <1>4, RecordSpawn DEF Returns, Unchecked, children, place, rows, Types
<1>5. ASSUME NEW t \in Thread, NEW c \in Child, Spawn(t, c)
      PROVE  Types' /\ RunInv' /\ Unchecked /\ phase = "run"
  BY <1>5, Calling DEF Spawn, Idle
<1>6. ASSUME NEW t \in Thread, NEW c \in Child, Kill(t, c)
      PROVE  Types' /\ RunInv' /\ Unchecked /\ phase = "run"
  <2>1. Record(t, "kill", 0, c) /\ UNCHANGED <<calling, started, life, first, last, phase, clock>>
    BY <1>6 DEF Kill, Unchecked
  <2>2. events' \in [Thread -> Seq(Entry)] /\ RunInv'
    BY <2>1, RecordOther DEF Kinds, Types
  <2> QED BY <1>6, <2>1, <2>2 DEF Kill, Idle, Unchecked, place, rows, Types
<1>7. ASSUME NEW t \in Thread, NEW c \in Child, Wait(t, c)
      PROVE  Types' /\ RunInv' /\ Unchecked /\ phase = "run"
  <2>1. Record(t, "wait", 0, c) /\ UNCHANGED <<calling, started, life, first, last, phase, clock>>
    BY <1>7 DEF Wait, Unchecked, children
  <2>2. events' \in [Thread -> Seq(Entry)] /\ RunInv'
    BY <2>1, RecordOther DEF Kinds, Types
  <2> QED BY <1>7, <2>1, <2>2 DEF Wait, Idle, Unchecked, place, rows, Types
<1>8. ASSUME NEW c \in Child, Appear(c)
      PROVE  Types' /\ RunInv' /\ Unchecked /\ phase = "run"
  <2>1. clock' \in Nat /\ clock =< clock'
    BY <1>8, Clock DEF Appear, Types
  <2>2. Types'
    BY <1>8, <2>1 DEF Appear, Unchecked, place, rows, Types
  <2>3. LivesOn
    BY <1>8, <2>1 DEF Appear, LivesOn, Types
  <2>4. \A d \in Child : life'[d] = "ended" => first'[d] =< last'[d]
    BY <1>8 DEF Appear, Types, RunInv, LivesInOrder
  <2> QED BY <1>8, <2>2, <2>3, <2>4, Living DEF Appear, Unchecked
<1>9. ASSUME NEW c \in Child, Stray(c)
      PROVE  Types' /\ RunInv' /\ Unchecked /\ phase = "run"
  <2>1. LivesOn
    BY <1>9 DEF Stray, LivesOn, Types
  <2>2. \A d \in Child : life'[d] = "ended" => first'[d] =< last'[d]
    BY <1>9 DEF Stray, RunInv, LivesInOrder
  <2>3. RunInv'
    BY <1>9, <2>1, <2>2, Living DEF Stray, Unchecked
  <2> QED BY <1>9, <2>3 DEF Stray, Unchecked, place, rows, Types
<1>10. ASSUME NEW c \in Child, NEW d \in Child, Fork(c, d)
       PROVE  Types' /\ RunInv' /\ Unchecked /\ phase = "run"
  <2>1. LivesOn
    BY <1>10 DEF Fork, LivesOn, Types
  <2>2. \A e \in Child : life'[e] = "ended" => first'[e] =< last'[e]
    BY <1>10 DEF Fork, Types, RunInv, LivesInOrder
  <2>3. RunInv'
    BY <1>10, <2>1, <2>2, Living DEF Fork, Unchecked
  <2> QED BY <1>10, <2>3 DEF Fork, Unchecked, place, rows, Types
<1>11. ASSUME NEW c \in Child, Exit(c)
       PROVE  Types' /\ RunInv' /\ Unchecked /\ phase = "run"
  <2>1. clock' \in Nat /\ clock =< clock'
    BY <1>11, Clock DEF Exit, Types
  <2>2. LivesOn
    BY <1>11, <2>1 DEF Exit, LivesOn, Types
  <2>3. \A d \in Child : life'[d] = "ended" => first'[d] =< last'[d]
    BY <1>11, <2>1 DEF Exit, Types, RunInv, LivesInOrder
  <2>4. RunInv'
    BY <1>11, <2>2, <2>3, Living DEF Exit, Unchecked
  <2> QED BY <1>11, <2>1, <2>4 DEF Exit, Unchecked, place, rows, Types
<1>12. CASE RunEnds
  <2>1. Types'
    BY <1>12 DEF RunEnds, children, place, rows, Types
  <2>2. RunInv'
    BY <1>12 DEF RunEnds, children, RunInv, SpawnsPrecede, SpawnsDiffer, LivesInOrder, AllOver, SpawnAt, Precedes
  <2>3. Matched' = {}
    BY <1>12 DEF RunEnds, rows, Matched, Verdict
  <2> QED BY <1>12, <2>1, <2>2, <2>3
          DEF RunEnds, MatchedWereSpawned, OwnOrLeftOver, Verdict
<1>13. CASE Types' /\ RunInv' /\ Unchecked /\ phase = "run"
  <2>1. Matched' = {}
    BY <1>13 DEF Unchecked, rows, Matched, Verdict
  <2> QED BY <1>13, <2>1 DEF Unchecked, MatchedWereSpawned, OwnOrLeftOver, Verdict
<1> QED
  BY <1>1, <1>2, <1>3, <1>4, <1>5, <1>6, <1>7, <1>8, <1>9, <1>10, <1>11, <1>12, <1>13 DEF Run

-------------------------------------------------------------------------------
(* The steps of the checker.  The run is over, and what it left stays. *)
LEMMA RunIsOver ==
  ASSUME IInv, phase = "check", UNCHANGED run
  PROVE  RunInv'
BY DEF IInv, RunInv, SpawnsPrecede, SpawnsDiffer, LivesInOrder, AllOver, SpawnAt, Precedes,
       run, children

(* What has been checked stays checked, and a step that matches no spawn    *)
(* keeps all that was said of the matches.                                  *)
LEMMA MatchingNothing ==
  ASSUME IInv, phase = "check", UNCHANGED <<run, trace>>, phase' \in {"check", "refused"},
         \A t \in Thread, i \in Nat : Checked(t, i) => Checked(t, i)'
  PROVE  RunInv' /\ MatchedWereSpawned' /\ OwnOrLeftOver' /\ Verdict'
<1>1. RunInv'
  BY RunIsOver
<1>2. Matched' = Matched /\ Used' = Used /\ Candidates' = Candidates
  BY DEF Matched, Used, Candidates, run, children
<1>3. OwnOrLeftOver' /\ Verdict'
  BY <1>2 DEF IInv, OwnOrLeftOver, Verdict
<1>4. MatchedWereSpawned'
  <2>1. SUFFICES ASSUME NEW c \in Matched
                 PROVE  \E t \in Thread : \E i \in DOMAIN events[t] :
                           SpawnAt(t, i) /\ events[t][i].child = c /\ Checked(t, i)'
    BY <1>2 DEF MatchedWereSpawned, SpawnAt, run
  <2>2. PICK t, i :
           /\ t \in Thread /\ i \in DOMAIN events[t]
           /\ SpawnAt(t, i) /\ events[t][i].child = c /\ Checked(t, i)
    BY DEF IInv, MatchedWereSpawned
  <2>3. events[t] \in Seq(Entry)
    BY <2>2 DEF IInv, Types
  <2>4. i \in Nat
    BY <2>2, <2>3
  <2> QED BY <2>2, <2>4
<1> QED BY <1>1, <1>3, <1>4

(* No trace that was matched ends after the call, so none is the child's:   *)
(* if the child gets another trace, its own one stays with nobody.          *)
LEMMA Matching ==
  ASSUME IInv, CheckSpawn, phase' = "check"
  PROVE  IInv'
<1> DEFINE s == Event.child
           time == Event.time
<1>1. /\ phase = "check" /\ thread \in Thread /\ next \in DOMAIN events[thread]
      /\ SpawnAt(thread, next)
  BY DEF CheckSpawn, At, SpawnAt, Event
<1>2. /\ ~Overlap(time)
      /\ thread' = thread /\ next' = next + 1 /\ UNCHANGED <<run, phase>>
      /\ \E d \in Fits(time) : trace' = [trace EXCEPT ![s] = d]
  BY <1>1 DEF CheckSpawn, Refuse, Onward
<1>3. PICK d \in Fits(time) : trace' = [trace EXCEPT ![s] = d]
  BY <1>2
<1>4. d \in Candidates \ Used
  BY DEF Fits
<1>5. Precedes(time, s)
  BY <1>1 DEF IInv, RunInv, SpawnsPrecede, Event
<1>6. events[thread] \in Seq(Entry)
  BY <1>1 DEF IInv, Types
<1>7. Event \in Entry
  BY <1>1, <1>6 DEF Event
<1>8. s \in Child /\ time \in Nat /\ last[s] \in Nat /\ first[s] \in Nat
  BY <1>5, <1>7 DEF Precedes, Entry, IInv, Types
<1>9. life[s] = "ended"
  BY <1>1, <1>5 DEF Precedes, IInv, RunInv, AllOver
<1>10. time =< last[s]
  BY <1>5, <1>8, <1>9 DEF Precedes, IInv, RunInv, LivesInOrder
<1>11. thread \in Nat /\ next \in Nat
  BY DEF IInv, Types
<1>12. s \notin Matched
  <2>1. SUFFICES ASSUME s \in Matched PROVE FALSE
    OBVIOUS
  <2>2. PICK t, i :
           /\ t \in Thread /\ i \in DOMAIN events[t]
           /\ SpawnAt(t, i) /\ events[t][i].child = s /\ Checked(t, i)
    BY <2>1 DEF IInv, MatchedWereSpawned
  <2>3. t = thread /\ i = next
    BY <1>1, <2>2 DEF IInv, RunInv, SpawnsDiffer, Event
  <2> QED BY <1>11, <2>2, <2>3 DEF Checked
<1>13. s \notin Used
  <2>1. ASSUME NEW c \in Matched, trace[c] = s PROVE FALSE
    <3>1. ~(last[s] >= time)
      BY <1>2, <2>1 DEF Overlap
    <3> QED BY <1>8, <1>10, <3>1
  <2> QED BY <2>1 DEF Used
<1> HIDE DEF s, time
<1>14. d \in Child /\ d # None
  BY <1>4, TraceAssumption DEF Candidates
<1>15. /\ trace' \in [Child -> Child \cup {None}]
       /\ trace'[s] = d /\ \A c \in Child \ {s} : trace'[c] = trace[c]
  BY <1>3, <1>8, <1>14 DEF IInv, Types
<1>16. Matched' = Matched \cup {s}
  BY <1>8, <1>14, <1>15 DEF Matched
<1>17. \A c \in Matched : c # s /\ trace'[c] = trace[c]
  BY <1>12, <1>15 DEF Matched
<1>18. Used' = Used \cup {d}
  BY <1>15, <1>16, <1>17 DEF Used
<1>19. OwnOrLeftOver'
  <2>1. CASE \A c \in Matched : trace[c] = c
    <3>1. CASE d = s
      BY <2>1, <3>1, <1>15, <1>16, <1>17 DEF OwnOrLeftOver
    <3>2. CASE d # s
      BY <3>2, <1>13, <1>16, <1>18 DEF OwnOrLeftOver
    <3> QED BY <3>1, <3>2
  <2>2. ASSUME NEW r \in Matched, r \notin Used PROVE OwnOrLeftOver'
    <3>1. CASE r = d
      BY <3>1, <1>12, <1>13, <1>16, <1>18 DEF OwnOrLeftOver
    <3>2. CASE r # d
      BY <2>2, <3>2, <1>16, <1>18 DEF OwnOrLeftOver
    <3> QED BY <3>1, <3>2
  <2> QED BY <2>1, <2>2 DEF IInv, OwnOrLeftOver
<1>20. MatchedWereSpawned'
  <2>1. SUFFICES ASSUME NEW c \in Matched \cup {s}
                 PROVE  \E t \in Thread : \E i \in DOMAIN events[t] :
                           SpawnAt(t, i) /\ events[t][i].child = c /\ Checked(t, i)'
    BY <1>2, <1>16 DEF MatchedWereSpawned, SpawnAt, run
  <2>2. CASE c = s
    BY <1>1, <1>2, <1>11, <2>2 DEF Checked, Event, s
  <2>3. CASE c \in Matched
    <3>1. PICK t, i :
             /\ t \in Thread /\ i \in DOMAIN events[t]
             /\ SpawnAt(t, i) /\ events[t][i].child = c /\ Checked(t, i)
      BY <2>3 DEF IInv, MatchedWereSpawned
    <3>2. events[t] \in Seq(Entry)
      BY <3>1 DEF IInv, Types
    <3>3. i \in Nat
      BY <3>1, <3>2
    <3>4. Checked(t, i)'
      BY <1>2, <1>11, <3>1, <3>3 DEF Checked
    <3> QED BY <3>1, <3>4
  <2> QED BY <2>1, <2>2, <2>3
<1>21. Verdict'
  BY DEF Verdict
<1>22. RunInv'
  BY <1>1, <1>2, RunIsOver
<1>23. Types'
  BY <1>2, <1>11, <1>15 DEF IInv, Types, run, children
<1> QED BY <1>19, <1>20, <1>21, <1>22, <1>23 DEF IInv

(* No step of the checker breaks the invariant. *)
LEMMA CheckStep == IInv /\ Check => IInv'
<1> SUFFICES ASSUME IInv, Check PROVE IInv'
  OBVIOUS
<1>1. thread \in Nat /\ next \in Nat /\ Thread \subseteq Nat
  BY DEF IInv, Types, Thread
<1>2. CASE Refuse /\ phase = "check"
  <2>1. UNCHANGED <<run, trace, thread, next>> /\ phase' = "refused"
    BY <1>2 DEF Refuse, place, rows
  <2>2. Types'
    BY <2>1 DEF IInv, Types, run, children
  <2>3. \A t \in Thread, i \in Nat : Checked(t, i) => Checked(t, i)'
    BY <2>1 DEF Checked
  <2> QED BY <1>2, <2>1, <2>2, <2>3, MatchingNothing DEF IInv
<1>3. ASSUME phase = "check", phase' = "check", UNCHANGED <<run, trace>>,
             \/ thread' = thread /\ next' = next + 1
             \/ thread' = thread + 1 /\ next' = 1
      PROVE  IInv'
  <2>1. Types'
    BY <1>1, <1>3 DEF IInv, Types, run, children
  <2>2. \A t \in Thread, i \in Nat : Checked(t, i) => Checked(t, i)'
    BY <1>1, <1>3 DEF Checked
  <2> QED BY <1>3, <2>1, <2>2, MatchingNothing DEF IInv
<1>4. CASE EndOfTrace
  BY <1>2, <1>3, <1>4 DEF EndOfTrace, rows
<1>5. CASE CheckEnter
  BY <1>2, <1>3, <1>5 DEF CheckEnter, At, Onward
<1>6. CASE CheckLeave
  BY <1>2, <1>3, <1>6 DEF CheckLeave, At, Onward, rows
<1>7. CASE CheckEffect
  BY <1>2, <1>3, <1>7 DEF CheckEffect, At, Onward, rows
<1>8. CASE CheckSpawn
  <2>1. Refuse \/ phase' = "check"
    BY <1>8 DEF CheckSpawn, At, Onward
  <2> QED BY <1>2, <1>8, <2>1, Matching DEF CheckSpawn, At
<1>9. CASE CheckWaitOrKill
  <2>1. phase = "check" /\ (Refuse \/ (Onward /\ UNCHANGED trace))
    BY <1>9 DEF CheckWaitOrKill, At, rows
  <2> QED BY <1>2, <1>3, <2>1 DEF Onward
<1>10. CASE Decide
  <2>1. phase = "check" /\ UNCHANGED <<run, place, rows>>
    BY <1>10 DEF Decide
  <2>2. Types'
    BY <1>10, <2>1 DEF Decide, IInv, Types, run, children, place, rows
  <2>3. RunInv'
    BY <2>1, RunIsOver
  <2>4. Matched' = Matched /\ Used' = Used /\ Candidates' = Candidates
    BY <2>1 DEF Matched, Used, Candidates, run, children, rows
  <2>5. OwnOrLeftOver'
    BY <2>1, <2>4 DEF IInv, OwnOrLeftOver, rows
  <2>6. MatchedWereSpawned'
    BY <2>1, <2>4 DEF IInv, MatchedWereSpawned, SpawnAt, Checked, run, place
  <2>7. Verdict'
    BY <1>10, <2>4 DEF Decide, Verdict
  <2> QED BY <2>2, <2>3, <2>5, <2>6, <2>7 DEF IInv
<1> QED BY <1>4, <1>5, <1>6, <1>7, <1>8, <1>9, <1>10 DEF Check

-------------------------------------------------------------------------------
(* The invariant holds as long as a run and its check go on. *)
LEMMA Invariance == Spec => []IInv
<1>1. ASSUME IInv, UNCHANGED vars PROVE IInv'
  <2>1. UNCHANGED <<run, phase, place, rows>>
    BY <1>1 DEF vars
  <2>2. Types'
    BY <1>1, <2>1 DEF IInv, Types, run, children, place, rows
  <2>3. RunInv'
    BY <1>1, <2>1 DEF IInv, RunInv, SpawnsPrecede, SpawnsDiffer, LivesInOrder, AllOver, SpawnAt,
                      Precedes, run, children
  <2>4. Matched' = Matched /\ Used' = Used /\ Candidates' = Candidates
    BY <2>1 DEF Matched, Used, Candidates, run, children, rows
  <2>5. OwnOrLeftOver' /\ Verdict'
    BY <1>1, <2>1, <2>4 DEF IInv, OwnOrLeftOver, Verdict, rows
  <2>6. MatchedWereSpawned'
    BY <1>1, <2>1, <2>4 DEF IInv, MatchedWereSpawned, SpawnAt, Checked, run, place
  <2> QED BY <2>2, <2>3, <2>5, <2>6 DEF IInv
<1>2. IInv /\ [Next]_vars => IInv'
  BY <1>1, RunStep, CheckStep DEF Next
<1> QED BY <1>2, InitIInv, PTL DEF Spec

(* The matches of a run that is accepted are the children's own. *)
LEMMA OwnWhenAccepted == IInv => ChildrenAreTheirOwn
<1> SUFFICES ASSUME IInv, phase = "accepted"
             PROVE  (\A c \in Matched : trace[c] = c) /\ Matched = Candidates
  BY DEF ChildrenAreTheirOwn
<1>1. Used = Candidates
  BY DEF IInv, Verdict
<1>2. Matched \subseteq Candidates
  <2>1. SUFFICES ASSUME NEW c \in Matched PROVE c \in Candidates
    OBVIOUS
  <2>2. PICK t, i : t \in Thread /\ i \in DOMAIN events[t] /\ SpawnAt(t, i) /\ events[t][i].child = c
    BY DEF IInv, MatchedWereSpawned
  <2>3. Precedes(events[t][i].time, c)
    BY <2>2 DEF IInv, RunInv, SpawnsPrecede
  <2> QED BY <2>3 DEF Precedes, Candidates
<1>3. \A c \in Matched : trace[c] = c
  BY <1>1, <1>2 DEF IInv, OwnOrLeftOver
<1>4. Used = Matched
  BY <1>3 DEF Used
<1> QED BY <1>1, <1>3, <1>4

(* In every state of a run and of its check, for any number of threads and  *)
(* children: traces that were accepted were matched each to the child whose *)
(* they are, and all were.  (collection_processes.py:60-74, 231-233)        *)
THEOREM ChildrenCorrect == Spec => []ChildrenAreTheirOwn
<1> QED BY Invariance, OwnWhenAccepted, PTL

-------------------------------------------------------------------------------
(* What a trace tells, and what of it has been checked. *)

(* The interval of a thread after i of its events, as it has declared it.   *)
After(t, i) == IF i = Len(events[t]) THEN inside[t] ELSE events[t][i + 1].where

Leaves(e) ==
    CASE e.is \in {"call", "scope"} -> e.is
      [] e.is = "END" -> "none"
      [] OTHER -> e.where

(* The markers of a trace tell the interval of every event in it. *)
MarkersTell ==
    \A t \in Thread :
       /\ After(t, 0) = "none"
       /\ \A i \in DOMAIN events[t] : After(t, i) = Leaves(events[t][i])

(* The checker knows the interval of what it checks next. *)
IntervalIsWhere ==
    thread \in Thread =>
       /\ next \in 1 .. Len(events[thread]) + 1
       /\ interval = After(thread, next - 1)

Untouched ==
    /\ phase = "run" => /\ thread = 1 /\ next = 1 /\ interval = "none"
                        /\ spawned = {} /\ waited = {} /\ killSeen = {}
    /\ phase = "accepted" => thread > Threads

(* A spawn in the scope whose end has not been checked. *)
Open(t, i) ==
    /\ t = thread /\ interval = "scope" /\ i < next
    /\ \A j \in DOMAIN events[t] : i < j /\ j < next => events[t][j].is # "END"

(* A scope that ended admits its child, as the trace shows it that the      *)
(* spawn was matched to.                                                    *)
Closed(t, i) ==
    LET d == trace[events[t][i].child] IN
    /\ SaidOf(<<t, i>>, "wait")
    /\ killed[d] => SaidOf(<<t, i>>, "kill")
    /\ \E j \in EndsOf(<<t, i>>) : last[d] < events[t][j].time

EffectsOutside ==
    \A t \in Thread : \A i \in DOMAIN events[t] :
       Checked(t, i) /\ events[t][i].is = "effect" => events[t][i].where = "none"

SpawnsConfined ==
    \A t \in Thread : \A i \in DOMAIN events[t] :
       SpawnAt(t, i) /\ Checked(t, i) =>
          LET c == events[t][i].child IN
          /\ events[t][i].where = "scope"
          /\ c \in Matched /\ clean[trace[c]]
          /\ Closed(t, i) \/ (Open(t, i) /\ c \in spawned)

OpenAreSpawned ==
    interval = "scope" =>
       \A c \in spawned : \E i \in DOMAIN events[thread] :
          SpawnAt(thread, i) /\ events[thread][i].child = c /\ Open(thread, i)

(* What the rows say of a child was said in the scope of its spawn. *)
RowsTell ==
    /\ waited \subseteq Matched /\ killSeen \subseteq Matched
    /\ \A t \in Thread : \A i \in DOMAIN events[t] :
          SpawnAt(t, i) /\ Checked(t, i) =>
             /\ events[t][i].child \in waited => SaidOf(<<t, i>>, "wait")
             /\ events[t][i].child \in killSeen => SaidOf(<<t, i>>, "kill")

(* The traces that were matched do not overlap. *)
OneAtATime ==
    \A c, d \in Matched : \/ c = d \/ last[trace[c]] < first[trace[d]]
                          \/ last[trace[d]] < first[trace[c]]

Confined ==
    /\ MarkersTell /\ IntervalIsWhere /\ Untouched
    /\ EffectsOutside /\ SpawnsConfined /\ OpenAreSpawned /\ RowsTell /\ OneAtATime

(* What a trace is made of. *)
LEMMA TraceIs ==
  ASSUME Types, NEW t \in Thread
  PROVE  /\ Len(events[t]) \in Nat /\ DOMAIN events[t] = 1 .. Len(events[t])
         /\ \A i \in DOMAIN events[t] : events[t][i] \in Entry
<1>1. events[t] \in Seq(Entry)
  BY DEF Types
<1> QED BY <1>1

(* A thread that records what it does, and is then where that leaves it,    *)
(* can be followed by its trace.                                            *)
LEMMA RecordTells ==
  ASSUME Types, MarkersTell, inside' \in [Thread -> {"none", "call", "scope"}],
         NEW t \in Thread, NEW e \in Entry, e.where = inside[t],
         events' = [events EXCEPT ![t] = Append(@, e)],
         inside'[t] = Leaves(e), \A u \in Thread \ {t} : inside'[u] = inside[u]
  PROVE  MarkersTell'
<1>1. events[t] \in Seq(Entry) /\ events \in [Thread -> Seq(Entry)]
  BY DEF Types
<1>2. /\ events'[t] = Append(events[t], e)
      /\ \A u \in Thread : u # t => events'[u] = events[u]
  BY <1>1
<1> PICK n \in Nat : n = Len(events[t])
  BY <1>1
<1>3. /\ n \in Nat /\ Len(events'[t]) = n + 1
      /\ DOMAIN events'[t] = 1 .. n + 1 /\ DOMAIN events[t] = 1 .. n
      /\ \A i \in 1 .. n : events'[t][i] = events[t][i]
      /\ events'[t][n + 1] = e
  BY <1>1, <1>2
<1>4. \A i \in 0 .. n : After(t, i)' = After(t, i)
  <2> SUFFICES ASSUME NEW i \in 0 .. n PROVE After(t, i)' = After(t, i)
    OBVIOUS
  <2>1. CASE i = n
    BY <2>1, <1>3 DEF After
  <2>2. CASE i < n
    BY <2>2, <1>3 DEF After
  <2> QED BY <1>3, <2>1, <2>2
<1>5. After(t, n + 1)' = Leaves(e)
  BY <1>3 DEF After
<1>6. ASSUME NEW u \in Thread, u # t
      PROVE  /\ After(u, 0)' = "none"
             /\ \A i \in DOMAIN events'[u] : After(u, i)' = Leaves(events'[u][i])
  BY <1>2, <1>6 DEF MarkersTell, After
<1>7. After(t, 0)' = "none"
  BY <1>3, <1>4 DEF MarkersTell
<1>8. ASSUME NEW i \in DOMAIN events'[t] PROVE After(t, i)' = Leaves(events'[t][i])
  <2>1. CASE i = n + 1
    BY <2>1, <1>3, <1>5
  <2>2. CASE i \in 1 .. n
    BY <2>2, <1>3, <1>4 DEF MarkersTell
  <2> QED BY <1>3, <1>8, <2>1, <2>2
<1> QED BY <1>6, <1>7, <1>8 DEF MarkersTell

(* Nothing has been checked as long as the run goes on. *)
LEMMA NothingChecked ==
  ASSUME Types', MarkersTell', thread' = 1, next' = 1, interval' = "none",
         spawned' = {}, waited' = {}, killSeen' = {}, Matched' = {}
  PROVE  /\ IntervalIsWhere' /\ EffectsOutside' /\ SpawnsConfined'
         /\ OpenAreSpawned' /\ RowsTell' /\ OneAtATime'
<1>1. \A t \in Thread : \A i \in DOMAIN events'[t] : ~Checked(t, i)'
  <2> SUFFICES ASSUME NEW t \in Thread, NEW i \in DOMAIN events'[t] PROVE ~Checked(t, i)'
    OBVIOUS
  <2>1. t \in Nat \ {0}
    BY TraceAssumption DEF Thread
  <2>2. events'[t] \in Seq(Entry)
    BY DEF Types
  <2>3. i \in Nat \ {0}
    BY <2>2
  <2> QED BY <2>1, <2>3 DEF Checked
<1>2. IntervalIsWhere'
  <2> SUFFICES ASSUME thread' \in Thread
               PROVE  next' \in 1 .. Len(events'[thread']) + 1 /\ interval' = After(thread, next - 1)'
    BY DEF IntervalIsWhere
  <2>1. events'[thread'] \in Seq(Entry)
    BY DEF Types
  <2>2. After(thread, 0)' = "none"
    BY DEF MarkersTell
  <2>3. Len(events'[thread']) \in Nat
    BY <2>1
  <2> QED BY <2>2, <2>3
<1>3. EffectsOutside' /\ SpawnsConfined' /\ OpenAreSpawned' /\ RowsTell'
  BY <1>1 DEF EffectsOutside, SpawnsConfined, OpenAreSpawned, RowsTell
<1>4. OneAtATime'
  BY DEF OneAtATime
<1> QED BY <1>2, <1>3, <1>4

(* At first nothing has happened. *)
LEMMA InitConfined == Init => Confined
<1> SUFFICES ASSUME Init PROVE Confined
  OBVIOUS
<1> USE TraceAssumption DEF Init
<1>1. Matched = {}
  BY DEF Matched
<1>2. \A t \in Thread : events[t] = <<>> /\ inside[t] = "none" /\ DOMAIN events[t] = {}
  OBVIOUS
<1>3. MarkersTell
  BY <1>2 DEF MarkersTell, After
<1>4. IntervalIsWhere
  BY <1>2 DEF IntervalIsWhere, After
<1>5. Untouched
  BY DEF Untouched
<1>6. EffectsOutside /\ SpawnsConfined /\ OpenAreSpawned
  BY <1>2 DEF EffectsOutside, SpawnsConfined, OpenAreSpawned
<1>7. RowsTell
  BY <1>2 DEF RowsTell
<1>8. OneAtATime
  BY <1>1 DEF OneAtATime
<1> QED BY <1>3, <1>4, <1>5, <1>6, <1>7, <1>8 DEF Confined

(* Nothing is checked by a step of the run. *)
LEMMA RunLeavesUnchecked ==
  ASSUME IInv, Untouched, Run
  PROVE  /\ phase = "run" /\ phase' \in {"run", "check"}
         /\ thread' = 1 /\ next' = 1 /\ interval' = "none"
         /\ spawned' = {} /\ waited' = {} /\ killSeen' = {} /\ Matched' = {}
<1>1. phase = "run"
  BY DEF Run, Enter, Leave, Effect, Returns, Spawn, Kill, Wait, Appear, Stray, Exit, Fork, RunEnds, Idle
<1>2. UNCHANGED <<place, rows>> /\ phase' \in {"run", "check"}
  BY <1>1 DEF Run, Enter, Leave, Effect, Returns, Spawn, Kill, Wait, Appear, Stray, Exit, Fork,
              RunEnds, Unchecked
<1> QED BY <1>1, <1>2 DEF IInv, Untouched, Verdict, Matched, place, rows

(* No step of the run breaks it: each records what tells its interval.      *)
LEMMA RunConfined ==
  ASSUME IInv, IInv', Confined, Run
  PROVE  Confined'
<1> USE DEF IInv, Confined
<1>1. Types /\ Types' /\ MarkersTell
  OBVIOUS
<1>2. ASSUME NEW t \in Thread, NEW what \in Kinds \ {"call", "scope", "END"}, NEW time \in Nat,
             NEW c \in Child \cup {None}, Record(t, what, time, c), inside' = inside
      PROVE  MarkersTell'
  <2> DEFINE e == [is |-> what, time |-> time, child |-> c, where |-> inside[t]]
  <2>1. e \in Entry /\ e.where = inside[t] /\ Leaves(e) = inside[t]
    BY <1>2 DEF Types, Entry, Leaves, Kinds
  <2>2. events' = [events EXCEPT ![t] = Append(@, e)]
    BY <1>2 DEF Record
  <2> HIDE DEF e
  <2> QED BY <1>1, <1>2, <2>1, <2>2, RecordTells DEF Types
<1>3. ASSUME NEW t \in Thread, NEW what \in {"call", "scope", "END"}, NEW time \in Nat,
             NEW now \in {"none", "call", "scope"}, now = (IF what = "END" THEN "none" ELSE what),
             Record(t, what, time, None), inside' = [inside EXCEPT ![t] = now]
      PROVE  MarkersTell'
  <2> DEFINE e == [is |-> what, time |-> time, child |-> None, where |-> inside[t]]
  <2>1. e \in Entry /\ e.where = inside[t] /\ Leaves(e) = now
    BY <1>3 DEF Types, Entry, Leaves, Kinds
  <2>2. events' = [events EXCEPT ![t] = Append(@, e)]
    BY <1>3 DEF Record
  <2> HIDE DEF e
  <2>3. inside'[t] = Leaves(e) /\ \A u \in Thread \ {t} : inside'[u] = inside[u]
    BY <1>3, <2>1 DEF Types
  <2> QED BY <1>1, <2>1, <2>2, <2>3, RecordTells DEF Types
<1>4. ASSUME UNCHANGED <<events, inside>> PROVE MarkersTell'
  BY <1>4 DEF MarkersTell, After
<1>5. ASSUME NEW t \in Thread, Enter(t, "call") \/ Enter(t, "scope") PROVE MarkersTell'
  BY <1>3, <1>5 DEF Enter
<1>6. ASSUME NEW t \in Thread, Leave(t) PROVE MarkersTell'
  <2>1. clock' \in Nat
    BY DEF Types
  <2> QED BY <1>3, <1>6, <2>1 DEF Leave
<1>7. ASSUME NEW t \in Thread, Effect(t) PROVE MarkersTell'
  BY <1>2, <1>7 DEF Effect, Kinds
<1>8. ASSUME NEW t \in Thread, Returns(t) PROVE MarkersTell'
  BY <1>2, <1>8 DEF Returns, Kinds, Types
<1>9. ASSUME NEW t \in Thread, NEW c \in Child, Spawn(t, c) \/ Kill(t, c) \/ Wait(t, c)
      PROVE  MarkersTell'
  BY <1>2, <1>4, <1>9 DEF Spawn, Kill, Wait, Kinds
<1>10. ASSUME NEW c \in Child, Appear(c) \/ Stray(c) \/ Exit(c) \/ \E d \in Child : Fork(c, d)
       PROVE  MarkersTell'
  BY <1>4, <1>10 DEF Appear, Stray, Exit, Fork
<1>11. ASSUME RunEnds PROVE MarkersTell'
  BY <1>4, <1>11 DEF RunEnds
<1>12. MarkersTell'
  BY <1>5, <1>6, <1>7, <1>8, <1>9, <1>10, <1>11 DEF Run
<1>13. /\ phase' \in {"run", "check"} /\ thread' = 1 /\ next' = 1 /\ interval' = "none"
       /\ spawned' = {} /\ waited' = {} /\ killSeen' = {} /\ Matched' = {}
  BY RunLeavesUnchecked
<1>14. Untouched'
  BY <1>13 DEF Untouched
<1> QED BY <1>1, <1>12, <1>13, <1>14, NothingChecked

-------------------------------------------------------------------------------
(* What is known of the event that is checked next. *)
LEMMA AtEvent ==
  ASSUME IInv, Confined, NEW kinds, At(kinds)
  PROVE  /\ phase = "check" /\ thread \in Thread /\ next \in DOMAIN events[thread]
         /\ Event = events[thread][next] /\ Event \in Entry /\ Event.is \in kinds
         /\ interval = Event.where /\ After(thread, next) = Leaves(Event)
         /\ next \in Nat /\ next + 1 \in 1 .. Len(events[thread]) + 1
<1>1. /\ phase = "check" /\ thread \in Thread /\ next \in DOMAIN events[thread]
      /\ Event = events[thread][next] /\ Event.is \in kinds
  BY DEF At, Event
<1>2. /\ Len(events[thread]) \in Nat /\ DOMAIN events[thread] = 1 .. Len(events[thread])
      /\ Event \in Entry
  BY <1>1, TraceIs DEF IInv
<1>3. next - 1 # Len(events[thread]) /\ (next - 1) + 1 = next
  BY <1>1, <1>2
<1>4. interval = Event.where
  BY <1>1, <1>3 DEF Confined, IntervalIsWhere, After
<1>5. After(thread, next) = Leaves(Event)
  BY <1>1 DEF Confined, MarkersTell
<1> QED BY <1>1, <1>2, <1>4, <1>5

(* What the traces say does not change any more. *)
LEMMA TracesStay ==
  ASSUME events' = events
  PROVE  /\ \A t, i, what : SaidOf(<<t, i>>, what)' = SaidOf(<<t, i>>, what)
         /\ \A t, i : EndsOf(<<t, i>>)' = EndsOf(<<t, i>>)
         /\ \A t, i : SpawnAt(t, i)' = SpawnAt(t, i)
<1>1. \A t, i : EndsOf(<<t, i>>)' = EndsOf(<<t, i>>)
  BY DEF EndsOf
<1>2. \A t, i, what : SaidOf(<<t, i>>, what)' = SaidOf(<<t, i>>, what)
  <2> TAKE t, i, what
  <2> QED BY <1>1 DEF SaidOf, What
<1>3. \A t, i : SpawnAt(t, i)' = SpawnAt(t, i)
  BY DEF SpawnAt
<1> QED BY <1>1, <1>2, <1>3

(* An event that is admitted is checked, and nothing else.                  *)
LEMMA GoesOn ==
  ASSUME IInv, Confined, At(Kinds), Onward, interval' = Leaves(Event)
  PROVE  /\ MarkersTell' /\ IntervalIsWhere' /\ Untouched'
         /\ \A t \in Thread : \A i \in DOMAIN events[t] :
               Checked(t, i)' => Checked(t, i) \/ (t = thread /\ i = next)
<1>1. /\ phase = "check" /\ thread \in Thread /\ next \in Nat
      /\ next + 1 \in 1 .. Len(events[thread]) + 1
      /\ After(thread, next) = Leaves(Event)
  BY AtEvent
<1>2. thread' = thread /\ next' = next + 1 /\ phase' = phase /\ events' = events /\ inside' = inside
  BY DEF Onward, run
<1>3. MarkersTell'
  BY <1>2 DEF Confined, MarkersTell, After
<1>4. IntervalIsWhere'
  <2>1. (next + 1) - 1 = next
    BY <1>1
  <2> QED BY <1>1, <1>2, <2>1 DEF IntervalIsWhere, After
<1>5. Untouched'
  BY <1>1, <1>2 DEF Untouched
<1>6. \A t \in Thread : \A i \in DOMAIN events[t] :
         Checked(t, i)' => Checked(t, i) \/ (t = thread /\ i = next)
  <2> SUFFICES ASSUME NEW t \in Thread, NEW i \in DOMAIN events[t], Checked(t, i)'
               PROVE  Checked(t, i) \/ (t = thread /\ i = next)
    OBVIOUS
  <2>1. i \in Nat
    BY TraceIs DEF IInv
  <2> QED BY <1>1, <1>2, <2>1 DEF Checked
<1> QED BY <1>3, <1>4, <1>5, <1>6

(* A scope is open until its end is checked. *)
LEMMA StaysOpen ==
  ASSUME IInv, Confined, At(Kinds \ {"END"}), Onward, interval' = interval
  PROVE  \A t \in Thread : \A i \in DOMAIN events[t] : Open(t, i) => Open(t, i)'
<1> SUFFICES ASSUME NEW t \in Thread, NEW i \in DOMAIN events[t], Open(t, i)
             PROVE  Open(t, i)'
  OBVIOUS
<1>1. thread \in Thread /\ next \in Nat /\ Event = events[thread][next] /\ Event.is # "END"
  BY AtEvent
<1>2. thread' = thread /\ next' = next + 1 /\ events' = events
  BY DEF Onward, run
<1>3. i \in Nat /\ \A j \in DOMAIN events[t] : j \in Nat
  BY TraceIs DEF IInv
<1>4. ASSUME NEW j \in DOMAIN events[t], i < j, j < next + 1 PROVE events[t][j].is # "END"
  <2>1. CASE j = next
    BY <1>1, <2>1 DEF Open
  <2>2. CASE j < next
    BY <1>4, <2>2 DEF Open
  <2> QED BY <1>1, <1>3, <1>4, <2>1, <2>2
<1> QED BY <1>1, <1>2, <1>3, <1>4 DEF Open

(* What is said while a scope is open was said before its end. *)
LEMMA SaidWhileOpen ==
  ASSUME IInv, Confined, NEW what \in {"wait", "kill"}, At({what}),
         NEW i \in DOMAIN events[thread], Open(thread, i), Event.child = events[thread][i].child
  PROVE  SaidOf(<<thread, i>>, what)
<1>1. /\ thread \in Thread /\ next \in DOMAIN events[thread]
      /\ Event = events[thread][next] /\ Event.is = what
  BY AtEvent
<1>2. \A j \in DOMAIN events[thread] : j \in Nat
  BY <1>1, TraceIs DEF IInv
<1>3. ASSUME NEW j \in EndsOf(<<thread, i>>) PROVE next < j
  <2>1. j \in DOMAIN events[thread] /\ i < j /\ events[thread][j].is = "END"
    BY DEF EndsOf
  <2>2. ~(j < next) /\ j # next
    BY <1>1, <2>1 DEF Open
  <2> QED BY <1>1, <1>2, <2>1, <2>2
<1>4. i < next
  BY DEF Open
<1> QED BY <1>1, <1>3, <1>4 DEF SaidOf, What

(* The end of a scope that has checked its children ends it.                *)
LEMMA Closes ==
  ASSUME IInv, Confined, At({"END"}), NEW i \in DOMAIN events[thread], SpawnAt(thread, i),
         Open(thread, i), Finished(events[thread][i].child, Event.time)
  PROVE  Closed(thread, i)
<1> DEFINE c == events[thread][i].child
<1>1. /\ thread \in Thread /\ next \in DOMAIN events[thread]
      /\ Event = events[thread][next] /\ Event.is = "END"
  BY AtEvent
<1>2. \A j \in DOMAIN events[thread] : j \in Nat
  BY <1>1, TraceIs DEF IInv
<1>3. i < next /\ \A j \in DOMAIN events[thread] : i < j /\ events[thread][j].is = "END" => next =< j
  BY <1>1, <1>2 DEF Open
<1>4. next \in EndsOf(<<thread, i>>)
  BY <1>1, <1>3 DEF EndsOf
<1>5. last[trace[c]] < Event.time /\ c \in waited /\ killed[trace[c]] = (c \in killSeen)
  BY DEF Finished
<1>6. Checked(thread, i)
  BY <1>3 DEF Checked
<1>7. SaidOf(<<thread, i>>, "wait") /\ (c \in killSeen => SaidOf(<<thread, i>>, "kill"))
  BY <1>1, <1>5, <1>6 DEF Confined, RowsTell
<1> QED BY <1>1, <1>4, <1>5, <1>7 DEF Closed

(* It is enough to look at the open scope when no spawn is checked.         *)
LEMMA NoSpawnChecked ==
  ASSUME IInv, Confined, At(Kinds \ {"spawn"}), Onward, UNCHANGED trace,
         interval' = Leaves(Event), Event.is = "effect" => interval = "none",
         \A i \in DOMAIN events[thread] :
            LET c == events[thread][i].child IN
            SpawnAt(thread, i) /\ Open(thread, i) /\ c \in spawned =>
               Closed(thread, i) \/ (Open(thread, i)' /\ c \in spawned'),
         OpenAreSpawned',
         waited' \subseteq Matched, killSeen' \subseteq Matched,
         \A t \in Thread : \A i \in DOMAIN events[t] :
            SpawnAt(t, i) /\ Checked(t, i) =>
               /\ events[t][i].child \in waited' => SaidOf(<<t, i>>, "wait")
               /\ events[t][i].child \in killSeen' => SaidOf(<<t, i>>, "kill")
  PROVE  Confined'
<1>1. /\ thread \in Thread /\ next \in DOMAIN events[thread]
      /\ Event = events[thread][next] /\ Event.is # "spawn" /\ interval = Event.where
  BY AtEvent
<1>2. /\ events' = events /\ last' = last /\ first' = first /\ killed' = killed /\ clean' = clean
      /\ trace' = trace /\ Matched' = Matched /\ thread' = thread
  BY DEF Onward, run, children, Matched
<1>3. /\ \A t, i, what : SaidOf(<<t, i>>, what)' = SaidOf(<<t, i>>, what)
      /\ \A t, i : EndsOf(<<t, i>>)' = EndsOf(<<t, i>>)
      /\ \A t, i : SpawnAt(t, i)' = SpawnAt(t, i)
  BY <1>2, TracesStay
<1>4. /\ MarkersTell' /\ IntervalIsWhere' /\ Untouched'
      /\ \A t \in Thread : \A i \in DOMAIN events[t] :
            Checked(t, i)' => Checked(t, i) \/ (t = thread /\ i = next)
  <2>1. At(Kinds)
    BY DEF At
  <2> QED BY <2>1, GoesOn
<1>5. \A t \in Thread : \A i \in DOMAIN events[t] : SpawnAt(t, i) /\ Checked(t, i)' => Checked(t, i)
  BY <1>1, <1>4 DEF SpawnAt
<1>6. EffectsOutside'
  BY <1>1, <1>2, <1>4 DEF Confined, EffectsOutside
<1>7. SpawnsConfined'
  <2> SUFFICES ASSUME NEW t \in Thread, NEW i \in DOMAIN events[t], SpawnAt(t, i), Checked(t, i)
               PROVE  LET c == events[t][i].child IN
                      /\ events[t][i].where = "scope"
                      /\ c \in Matched /\ clean[trace[c]]
                      /\ Closed(t, i)' \/ (Open(t, i)' /\ c \in spawned')
    BY <1>2, <1>3, <1>5 DEF SpawnsConfined
  <2> DEFINE c == events[t][i].child
  <2>1. /\ events[t][i].where = "scope" /\ c \in Matched /\ clean[trace[c]]
        /\ Closed(t, i) \/ (Open(t, i) /\ c \in spawned)
    BY DEF Confined, SpawnsConfined
  <2>2. Closed(t, i)' = Closed(t, i)
    BY <1>2, <1>3 DEF Closed
  <2>3. Open(t, i) => t = thread
    BY DEF Open
  <2> QED BY <1>2, <2>1, <2>2, <2>3
<1>8. RowsTell'
  BY <1>2, <1>3, <1>5 DEF RowsTell
<1>9. OneAtATime'
  BY <1>2 DEF Confined, OneAtATime
<1> QED BY <1>4, <1>6, <1>7, <1>8, <1>9 DEF Confined

(* A spawn that is matched starts what comes after all that were.           *)
LEMMA SpawnConfined ==
  ASSUME IInv, Confined, CheckSpawn, phase' = "check"
  PROVE  Confined'
<1> DEFINE s == Event.child
           time == Event.time
<1>1. At({"spawn"})
  BY DEF CheckSpawn
<1>2. /\ phase = "check" /\ thread \in Thread /\ next \in DOMAIN events[thread]
      /\ Event = events[thread][next] /\ Event \in Entry /\ Event.is = "spawn"
      /\ interval = Event.where
  BY <1>1, AtEvent
<1>3. /\ interval = "scope" /\ ~Overlap(time)
      /\ UNCHANGED <<interval, waited, killSeen>> /\ Onward
      /\ spawned' = spawned \cup {s}
      /\ \E d \in Fits(time) : clean[d] /\ trace' = [trace EXCEPT ![s] = d]
  BY <1>2 DEF CheckSpawn, Refuse
<1>4. PICK d \in Fits(time) : clean[d] /\ trace' = [trace EXCEPT ![s] = d]
  BY <1>3
<1>5. d \in Candidates \ Used /\ d \in Child /\ d # None /\ first[d] >= time
  BY TraceAssumption DEF Fits, Candidates
<1>6. SpawnAt(thread, next)
  BY <1>2 DEF SpawnAt
<1>7. s \in Child /\ time \in Nat
  <2>1. Precedes(time, s)
    BY <1>2, <1>6 DEF IInv, RunInv, SpawnsPrecede
  <2> QED BY <1>2, <2>1 DEF Precedes, Entry
<1>8. s \notin Matched
  <2>1. SUFFICES ASSUME s \in Matched PROVE FALSE
    OBVIOUS
  <2>2. PICK t, i :
           /\ t \in Thread /\ i \in DOMAIN events[t]
           /\ SpawnAt(t, i) /\ events[t][i].child = s /\ Checked(t, i)
    BY <2>1 DEF IInv, MatchedWereSpawned
  <2>3. t = thread /\ i = next
    BY <1>2, <1>6, <2>2 DEF IInv, RunInv, SpawnsDiffer
  <2> QED BY <2>2, <2>3 DEF Checked, IInv, Types
<1> HIDE DEF s, time
<1>9. /\ trace'[s] = d /\ \A c \in Child \ {s} : trace'[c] = trace[c]
      /\ Matched' = Matched \cup {s} /\ \A c \in Matched : c # s /\ trace'[c] = trace[c]
  <2>1. trace'[s] = d /\ \A c \in Child \ {s} : trace'[c] = trace[c]
    BY <1>4, <1>7 DEF IInv, Types
  <2>2. Matched' = Matched \cup {s}
    BY <1>5, <1>7, <2>1 DEF Matched
  <2> QED BY <1>8, <2>1, <2>2 DEF Matched
<1>10. /\ events' = events /\ last' = last /\ first' = first /\ killed' = killed /\ clean' = clean
  BY <1>3 DEF Onward, run, children
<1>11. /\ \A t, i, what : SaidOf(<<t, i>>, what)' = SaidOf(<<t, i>>, what)
       /\ \A t, i : EndsOf(<<t, i>>)' = EndsOf(<<t, i>>)
       /\ \A t, i : SpawnAt(t, i)' = SpawnAt(t, i)
  BY <1>10, TracesStay
<1>12. interval' = Leaves(Event)
  BY <1>2, <1>3 DEF Leaves
<1>13. /\ MarkersTell' /\ IntervalIsWhere' /\ Untouched'
       /\ \A t \in Thread : \A i \in DOMAIN events[t] :
             Checked(t, i)' => Checked(t, i) \/ (t = thread /\ i = next)
  <2>1. At(Kinds)
    BY <1>1 DEF At, Kinds
  <2> QED BY <1>3, <1>12, <2>1, GoesOn
<1>14. \A t \in Thread : \A i \in DOMAIN events[t] : Open(t, i) => Open(t, i)'
  <2>1. At(Kinds \ {"END"})
    BY <1>1 DEF At, Kinds
  <2> QED BY <1>3, <2>1, StaysOpen
<1>15. \A i \in DOMAIN events[thread] : i = next => Open(thread, i)'
  <2> SUFFICES ASSUME NEW i \in DOMAIN events[thread], i = next PROVE Open(thread, i)'
    OBVIOUS
  <2>1. thread' = thread /\ next' = next + 1 /\ next \in Nat
    BY <1>3 DEF Onward, IInv, Types
  <2>2. \A j \in DOMAIN events[thread] : j \in Nat
    BY <1>2, TraceIs DEF IInv
  <2> QED BY <1>3, <1>10, <2>1, <2>2 DEF Open
<1>16. EffectsOutside'
  BY <1>2, <1>10, <1>13 DEF Confined, EffectsOutside
<1>17. SpawnsConfined'
  <2> SUFFICES ASSUME NEW t \in Thread, NEW i \in DOMAIN events[t], SpawnAt(t, i), Checked(t, i)'
               PROVE  LET c == events[t][i].child IN
                      /\ events[t][i].where = "scope"
                      /\ c \in Matched' /\ clean[trace'[c]]
                      /\ Closed(t, i)' \/ (Open(t, i)' /\ c \in spawned')
    BY <1>10, <1>11 DEF SpawnsConfined
  <2>1. CASE t = thread /\ i = next
    <3>1. thread' = thread
      BY <1>3 DEF Onward
    <3>2. events[t][i].child = s /\ events[t][i].where = "scope"
      BY <2>1, <1>2, <1>3 DEF s
    <3> QED BY <2>1, <3>1, <3>2, <1>3, <1>4, <1>9, <1>15
  <2>2. CASE Checked(t, i)
    <3> DEFINE c == events[t][i].child
    <3>1. /\ events[t][i].where = "scope" /\ c \in Matched /\ clean[trace[c]]
          /\ Closed(t, i) \/ (Open(t, i) /\ c \in spawned)
      BY <2>2 DEF Confined, SpawnsConfined
    <3>2. trace'[c] = trace[c]
      BY <1>9, <3>1
    <3>3. Closed(t, i)' = Closed(t, i)
      BY <1>10, <1>11, <3>2 DEF Closed
    <3> QED BY <1>3, <1>9, <1>14, <3>1, <3>2, <3>3
  <2> QED BY <1>13, <2>1, <2>2
<1>18. OpenAreSpawned'
  <2> SUFFICES ASSUME NEW c \in spawned'
               PROVE  \E i \in DOMAIN events[thread] :
                         SpawnAt(thread, i) /\ events[thread][i].child = c /\ Open(thread, i)'
    BY <1>3, <1>10, <1>11 DEF OpenAreSpawned, Onward
  <2>1. thread' = thread
    BY <1>3 DEF Onward
  <2>2. CASE c = s
    BY <2>1, <2>2, <1>2, <1>6, <1>15 DEF s
  <2>3. CASE c \in spawned
    BY <2>1, <2>3, <1>2, <1>3, <1>14 DEF Confined, OpenAreSpawned
  <2> QED BY <1>3, <2>2, <2>3
<1>19. RowsTell'
  <2>1. waited' \subseteq Matched' /\ killSeen' \subseteq Matched'
    BY <1>3, <1>9 DEF Confined, RowsTell
  <2>2. s \notin waited' /\ s \notin killSeen'
    BY <1>3, <1>8 DEF Confined, RowsTell
  <2>3. ASSUME NEW t \in Thread, NEW i \in DOMAIN events[t], SpawnAt(t, i), Checked(t, i)'
        PROVE  /\ events[t][i].child \in waited' => SaidOf(<<t, i>>, "wait")
               /\ events[t][i].child \in killSeen' => SaidOf(<<t, i>>, "kill")
    <3>1. CASE t = thread /\ i = next
      BY <3>1, <1>2, <2>2 DEF s
    <3>2. CASE Checked(t, i)
      BY <3>2, <1>3, <2>3 DEF Confined, RowsTell
    <3> QED BY <1>13, <2>3, <3>1, <3>2
  <2> QED BY <1>10, <1>11, <2>1, <2>3 DEF RowsTell
<1>20. OneAtATime'
  <2>1. \A c \in Matched : last[trace[c]] < first[d]
    <3> SUFFICES ASSUME NEW c \in Matched PROVE last[trace[c]] < first[d]
      OBVIOUS
    <3>1. trace[c] \in Child /\ last[trace[c]] \in Nat /\ first[d] \in Nat
      BY <1>5 DEF Matched, IInv, Types
    <3>2. ~(last[trace[c]] >= time)
      BY <1>3 DEF Overlap
    <3> QED BY <1>5, <1>7, <3>1, <3>2
  <2> QED BY <1>9, <1>10, <2>1 DEF Confined, OneAtATime
<1> QED BY <1>13, <1>16, <1>17, <1>18, <1>19, <1>20 DEF Confined

(* A step that only decides breaks nothing. *)
LEMMA OnlyDecided ==
  ASSUME Confined, UNCHANGED <<run, place, rows>>, phase' = "accepted" => thread > Threads,
         phase' = "run" => phase = "run"
  PROVE  Confined'
<1>1. /\ events' = events /\ inside' = inside /\ last' = last /\ first' = first
      /\ killed' = killed /\ clean' = clean /\ trace' = trace /\ Matched' = Matched
      /\ thread' = thread /\ next' = next /\ interval' = interval
      /\ spawned' = spawned /\ waited' = waited /\ killSeen' = killSeen
  BY DEF run, children, place, rows, Matched
<1>2. /\ \A t, i, what : SaidOf(<<t, i>>, what)' = SaidOf(<<t, i>>, what)
      /\ \A t, i : EndsOf(<<t, i>>)' = EndsOf(<<t, i>>)
      /\ \A t, i : SpawnAt(t, i)' = SpawnAt(t, i)
  BY <1>1, TracesStay
<1>3. /\ \A t, i : Closed(t, i)' = Closed(t, i)
      /\ \A t, i : Open(t, i)' = Open(t, i) /\ Checked(t, i)' = Checked(t, i)
  BY <1>1, <1>2 DEF Closed, Open, Checked
<1>4. MarkersTell' /\ IntervalIsWhere' /\ Untouched'
  BY <1>1 DEF Confined, MarkersTell, IntervalIsWhere, Untouched, After
<1>5. EffectsOutside' /\ SpawnsConfined'
  BY <1>1, <1>2, <1>3 DEF Confined, EffectsOutside, SpawnsConfined
<1>6. OpenAreSpawned' /\ RowsTell' /\ OneAtATime'
  BY <1>1, <1>2, <1>3 DEF Confined, OpenAreSpawned, RowsTell, OneAtATime
<1> QED BY <1>4, <1>5, <1>6 DEF Confined

(* No step of the checker breaks it. *)
LEMMA CheckConfined ==
  ASSUME IInv, Confined, Check
  PROVE  Confined'
<1>2. CASE phase = "check" /\ Refuse
  BY <1>2, OnlyDecided DEF Refuse, Confined, Untouched
<1>3. CASE EndOfTrace /\ ~Refuse
  <2>1. /\ phase = "check" /\ thread \in Thread /\ interval = "none"
        /\ thread' = thread + 1 /\ next' = 1 /\ UNCHANGED <<run, phase, interval, rows>>
        /\ next > Len(events[thread])
    BY <1>3 DEF EndOfTrace
  <2>2. /\ events' = events /\ inside' = inside /\ last' = last /\ first' = first
        /\ killed' = killed /\ clean' = clean /\ trace' = trace /\ Matched' = Matched
        /\ spawned' = spawned /\ waited' = waited /\ killSeen' = killSeen
    BY <2>1 DEF run, children, rows, Matched
  <2>3. /\ \A t, i, what : SaidOf(<<t, i>>, what)' = SaidOf(<<t, i>>, what)
        /\ \A t, i : EndsOf(<<t, i>>)' = EndsOf(<<t, i>>)
        /\ \A t, i : SpawnAt(t, i)' = SpawnAt(t, i)
    BY <2>2, TracesStay
  <2>4. \A t \in Thread : \A i \in DOMAIN events[t] : Checked(t, i)' => Checked(t, i)
    <3> SUFFICES ASSUME NEW t \in Thread, NEW i \in DOMAIN events[t], Checked(t, i)'
                 PROVE  Checked(t, i)
      OBVIOUS
    <3>1. i \in Nat \ {0} /\ i =< Len(events[t]) /\ Len(events[t]) \in Nat
      BY TraceIs DEF IInv
    <3>2. t \in Nat /\ thread \in Nat /\ next \in Nat
      BY DEF IInv, Types, Thread
    <3> QED BY <2>1, <3>1, <3>2 DEF Checked
  <2>5. \A t, i : Closed(t, i)' = Closed(t, i) /\ ~Open(t, i)
    BY <2>1, <2>2, <2>3 DEF Closed, Open
  <2>6. MarkersTell'
    BY <2>2 DEF Confined, MarkersTell, After
  <2>7. IntervalIsWhere'
    <3> SUFFICES ASSUME thread' \in Thread
                 PROVE  next' \in 1 .. Len(events'[thread']) + 1 /\ interval' = After(thread, next - 1)'
      BY DEF IntervalIsWhere
    <3>1. Len(events[thread']) \in Nat
      BY TraceIs DEF IInv
    <3>2. After(thread, 0)' = "none"
      BY <2>6 DEF MarkersTell
    <3> QED BY <2>1, <2>2, <3>1, <3>2
  <2>8. Untouched' /\ OpenAreSpawned' /\ OneAtATime'
    BY <2>1, <2>2 DEF Confined, Untouched, OpenAreSpawned, OneAtATime
  <2>9. EffectsOutside' /\ SpawnsConfined'
    BY <2>2, <2>3, <2>4, <2>5 DEF Confined, EffectsOutside, SpawnsConfined
  <2>10. RowsTell'
    BY <2>2, <2>3, <2>4 DEF Confined, RowsTell
  <2> QED BY <2>6, <2>7, <2>8, <2>9, <2>10 DEF Confined
<1>4. ASSUME NEW kinds \in SUBSET (Kinds \ {"spawn"}), At(kinds) PROVE At(Kinds \ {"spawn"})
  BY <1>4 DEF At
<1>5. ASSUME UNCHANGED <<waited, killSeen>>
      PROVE  /\ waited' \subseteq Matched /\ killSeen' \subseteq Matched
             /\ \A t \in Thread : \A i \in DOMAIN events[t] :
                   SpawnAt(t, i) /\ Checked(t, i) =>
                      /\ events[t][i].child \in waited' => SaidOf(<<t, i>>, "wait")
                      /\ events[t][i].child \in killSeen' => SaidOf(<<t, i>>, "kill")
  BY <1>5 DEF Confined, RowsTell
<1>6. CASE CheckEnter /\ ~Refuse
  <2>1. At({"call", "scope"}) /\ At(Kinds \ {"spawn"})
    BY <1>4, <1>6 DEF CheckEnter, Kinds
  <2>2. /\ interval = "none" /\ interval' = Event.is /\ spawned' = {}
        /\ UNCHANGED <<trace, waited, killSeen>> /\ Onward
    BY <1>6 DEF CheckEnter
  <2>3. Event.is \in {"call", "scope"}
    BY <2>1, AtEvent
  <2>4. interval' = Leaves(Event)
    BY <2>2, <2>3 DEF Leaves
  <2>5. \A i : ~Open(thread, i)
    BY <2>2 DEF Open
  <2>6. OpenAreSpawned'
    BY <2>2 DEF OpenAreSpawned
  <2> QED BY <1>5, <2>1, <2>2, <2>3, <2>4, <2>5, <2>6, NoSpawnChecked
<1>7. CASE CheckLeave /\ ~Refuse
  <2>1. At({"END"}) /\ At(Kinds \ {"spawn"})
    BY <1>4, <1>7 DEF CheckLeave, Kinds
  <2>2. /\ interval = "scope" => \A c \in spawned : Finished(c, Event.time)
        /\ interval' = "none" /\ UNCHANGED rows /\ Onward
    BY <1>7 DEF CheckLeave
  <2>3. UNCHANGED <<trace, waited, killSeen>>
    BY <2>2 DEF rows
  <2>4. Event.is = "END"
    BY <2>1, AtEvent
  <2>5. interval' = Leaves(Event)
    BY <2>2, <2>4 DEF Leaves
  <2>6. \A i \in DOMAIN events[thread] :
           SpawnAt(thread, i) /\ Open(thread, i) /\ events[thread][i].child \in spawned => Closed(thread, i)
    BY <2>1, <2>2, Closes DEF Open
  <2>7. OpenAreSpawned'
    BY <2>2 DEF OpenAreSpawned
  <2> QED BY <1>5, <2>1, <2>2, <2>3, <2>4, <2>5, <2>6, <2>7, NoSpawnChecked
<1>8. ASSUME At(Kinds \ {"spawn", "END"}), Onward, UNCHANGED <<interval, spawned>>
      PROVE  /\ OpenAreSpawned'
             /\ \A i \in DOMAIN events[thread] : Open(thread, i) => Open(thread, i)'
  <2>1. At(Kinds \ {"END"}) /\ thread \in Thread
    BY <1>8 DEF At
  <2>2. \A t \in Thread : \A i \in DOMAIN events[t] : Open(t, i) => Open(t, i)'
    BY <1>8, <2>1, StaysOpen
  <2>3. thread' = thread /\ events' = events
    BY <1>8 DEF Onward, run
  <2>4. \A i \in DOMAIN events[thread] : Open(thread, i) => Open(thread, i)'
    BY <2>1, <2>2, <2>3
  <2>5. \A t, i : SpawnAt(t, i)' = SpawnAt(t, i)
    BY <2>3, TracesStay
  <2> QED BY <1>8, <2>3, <2>4, <2>5 DEF Confined, OpenAreSpawned
<1>9. CASE CheckEffect /\ ~Refuse
  <2>1. At({"effect"}) /\ At(Kinds \ {"spawn"}) /\ At(Kinds \ {"spawn", "END"})
    BY <1>4, <1>9 DEF CheckEffect, Kinds, At
  <2>2. interval = "none" /\ UNCHANGED <<interval, rows>> /\ Onward
    BY <1>9 DEF CheckEffect
  <2>3. UNCHANGED <<trace, spawned, waited, killSeen>>
    BY <2>2 DEF rows
  <2>4. interval' = Leaves(Event)
    BY <2>1, <2>2, AtEvent DEF Leaves
  <2>5. OpenAreSpawned' /\ \A i \in DOMAIN events[thread] : Open(thread, i) => Open(thread, i)'
    BY <1>8, <2>1, <2>2, <2>3
  <2> QED BY <1>5, <2>1, <2>2, <2>3, <2>4, <2>5, NoSpawnChecked
<1>10. CASE CheckWaitOrKill /\ ~Refuse
  <2>1. At({"wait", "kill"}) /\ At(Kinds \ {"spawn"}) /\ At(Kinds \ {"spawn", "END"})
    BY <1>4, <1>10 DEF CheckWaitOrKill, Kinds, At
  <2>2. UNCHANGED <<interval, spawned, trace>> /\ Onward
    BY <1>10 DEF CheckWaitOrKill, rows
  <2>3. /\ Event.is \in {"wait", "kill"} /\ interval = Event.where
        /\ thread \in Thread /\ Event = events[thread][next]
    BY <2>1, AtEvent
  <2>4. interval' = Leaves(Event)
    BY <2>2, <2>3 DEF Leaves
  <2>5. OpenAreSpawned' /\ \A i \in DOMAIN events[thread] : Open(thread, i) => Open(thread, i)'
    BY <1>8, <2>1, <2>2
  <2>6. /\ waited' \subseteq Matched /\ killSeen' \subseteq Matched
        /\ \A t \in Thread : \A i \in DOMAIN events[t] :
              SpawnAt(t, i) /\ Checked(t, i) =>
                 /\ events[t][i].child \in waited' => SaidOf(<<t, i>>, "wait")
                 /\ events[t][i].child \in killSeen' => SaidOf(<<t, i>>, "kill")
    <3>1. CASE UNCHANGED <<waited, killSeen>>
      BY <1>5, <3>1
    <3>2. ASSUME interval = "scope", Event.child \in spawned,
                 waited' = (IF Event.is = "wait" THEN waited \cup {Event.child} ELSE waited),
                 killSeen' = (IF Event.is = "kill" THEN killSeen \cup {Event.child} ELSE killSeen)
          PROVE  /\ waited' \subseteq Matched /\ killSeen' \subseteq Matched
                 /\ \A t \in Thread : \A i \in DOMAIN events[t] :
                       SpawnAt(t, i) /\ Checked(t, i) =>
                          /\ events[t][i].child \in waited' => SaidOf(<<t, i>>, "wait")
                          /\ events[t][i].child \in killSeen' => SaidOf(<<t, i>>, "kill")
      <4>1. PICK j \in DOMAIN events[thread] :
               SpawnAt(thread, j) /\ events[thread][j].child = Event.child /\ Open(thread, j)
        BY <3>2 DEF Confined, OpenAreSpawned
      <4>2. Checked(thread, j)
        BY <4>1 DEF Open, Checked
      <4>3. Event.child \in Matched
        BY <2>3, <4>1, <4>2 DEF Confined, SpawnsConfined
      <4>4. SaidOf(<<thread, j>>, Event.is)
        <5>1. At({Event.is})
          BY <2>1 DEF At
        <5> QED BY <2>3, <4>1, <5>1, SaidWhileOpen
      <4>5. \A t \in Thread : \A i \in DOMAIN events[t] :
               SpawnAt(t, i) /\ events[t][i].child = Event.child => t = thread /\ i = j
        BY <2>3, <4>1 DEF IInv, RunInv, SpawnsDiffer
      <4>6. /\ waited \subseteq Matched /\ killSeen \subseteq Matched
            /\ \A t \in Thread : \A i \in DOMAIN events[t] :
                  SpawnAt(t, i) /\ Checked(t, i) =>
                     /\ events[t][i].child \in waited => SaidOf(<<t, i>>, "wait")
                     /\ events[t][i].child \in killSeen => SaidOf(<<t, i>>, "kill")
        BY DEF Confined, RowsTell
      <4> QED BY <2>3, <3>2, <4>3, <4>4, <4>5, <4>6
    <3> QED BY <1>10, <3>1, <3>2 DEF CheckWaitOrKill, rows
  <2> QED BY <2>1, <2>2, <2>3, <2>4, <2>5, <2>6, NoSpawnChecked
<1>11. CASE CheckSpawn /\ ~Refuse
  BY <1>11, SpawnConfined DEF CheckSpawn, At, Onward
<1>12. CASE Decide
  <2>1. thread > Threads /\ UNCHANGED <<run, place, rows>> /\ phase' \in {"accepted", "refused"}
    BY <1>12 DEF Decide
  <2> QED BY <2>1, OnlyDecided
<1>13. phase = "check"
  BY DEF Check, EndOfTrace, CheckEnter, CheckLeave, CheckEffect, CheckSpawn, CheckWaitOrKill, Decide, At
<1> QED BY <1>2, <1>3, <1>6, <1>7, <1>9, <1>10, <1>11, <1>12, <1>13 DEF Check

(* A run that is accepted has been checked to the end, and every scope of   *)
(* it was closed.                                                           *)
LEMMA AcceptedWasConfined == IInv /\ Confined => AcceptedIsConfined
<1> SUFFICES ASSUME IInv, Confined, phase = "accepted"
             PROVE  /\ \A p \in Recorded :
                          /\ What(p).is = "effect" => What(p).where = "none"
                          /\ What(p).is = "spawn" =>
                                /\ What(p).where = "scope" /\ EndedWithin(p)
                                /\ clean[What(p).child]
                                /\ killed[What(p).child] => SaidOf(p, "kill")
                    /\ \A c, d \in Candidates : c = d \/ last[c] < first[d] \/ last[d] < first[c]
  BY DEF AcceptedIsConfined
<1>1. (\A c \in Matched : trace[c] = c) /\ Matched = Candidates
  BY OwnWhenAccepted DEF ChildrenAreTheirOwn
<1>2. \A t \in Thread : t # thread /\ \A i : Checked(t, i)
  <2>1. thread > Threads /\ thread \in Nat /\ Threads \in Nat
    BY TraceAssumption DEF Confined, Untouched, IInv, Types
  <2> QED BY <2>1 DEF Checked, Thread
<1>3. ASSUME NEW t \in Thread, NEW i \in DOMAIN events[t]
      PROVE  LET e == events[t][i] IN
             /\ e.is = "effect" => e.where = "none"
             /\ e.is = "spawn" =>
                   /\ e.where = "scope" /\ EndedWithin(<<t, i>>)
                   /\ clean[e.child]
                   /\ killed[e.child] => SaidOf(<<t, i>>, "kill")
  <2> DEFINE c == events[t][i].child
  <2>1. events[t][i].is = "effect" => events[t][i].where = "none"
    BY <1>2 DEF Confined, EffectsOutside
  <2>2. ASSUME events[t][i].is = "spawn"
        PROVE  /\ events[t][i].where = "scope" /\ EndedWithin(<<t, i>>)
               /\ clean[c] /\ (killed[c] => SaidOf(<<t, i>>, "kill"))
    <3>1. SpawnAt(t, i) /\ Checked(t, i) /\ ~Open(t, i)
      BY <1>2, <2>2 DEF SpawnAt, Open
    <3>2. events[t][i].where = "scope" /\ c \in Matched /\ clean[trace[c]] /\ Closed(t, i)
      BY <3>1 DEF Confined, SpawnsConfined
    <3>3. trace[c] = c
      BY <1>1, <3>2
    <3>4. /\ SaidOf(<<t, i>>, "wait") /\ (killed[c] => SaidOf(<<t, i>>, "kill"))
          /\ \E j \in EndsOf(<<t, i>>) : last[c] < events[t][j].time
      BY <3>2, <3>3 DEF Closed
    <3>5. What(<<t, i>>).child = c /\ <<t, i>>[1] = t
      BY DEF What
    <3>6. EndedWithin(<<t, i>>)
      BY <3>4, <3>5 DEF EndedWithin
    <3> QED BY <3>2, <3>3, <3>4, <3>6
  <2> QED BY <2>1, <2>2
<1>4. ASSUME NEW p \in Recorded
      PROVE  /\ What(p).is = "effect" => What(p).where = "none"
             /\ What(p).is = "spawn" =>
                   /\ What(p).where = "scope" /\ EndedWithin(p)
                   /\ clean[What(p).child]
                   /\ killed[What(p).child] => SaidOf(p, "kill")
  <2>1. PICK t \in Thread : p \in {<<t, i>> : i \in DOMAIN events[t]}
    BY DEF Recorded
  <2>2. PICK i \in DOMAIN events[t] : p = <<t, i>>
    BY <2>1
  <2>3. What(p) = events[t][i]
    BY <2>2 DEF What
  <2> QED BY <1>3, <2>2, <2>3
<1>5. \A c, d \in Candidates : c = d \/ last[c] < first[d] \/ last[d] < first[c]
  BY <1>1 DEF Confined, OneAtATime
<1> QED BY <1>4, <1>5

(* It holds as long as a run and its check go on. *)
LEMMA AlwaysConfined == Spec => []Confined
<1>1. Confined /\ UNCHANGED vars => Confined'
  BY OnlyDecided DEF vars, Confined, Untouched
<1>2. IInv /\ IInv' /\ Confined /\ [Next]_vars => Confined'
  <2>1. ASSUME IInv, IInv', Confined, Run PROVE Confined'
    BY <2>1, RunConfined
  <2>2. ASSUME IInv, Confined, Check PROVE Confined'
    BY <2>2, CheckConfined
  <2> QED BY <1>1, <2>1, <2>2 DEF Next
<1> QED BY <1>2, Invariance, InitConfined, PTL DEF Spec

(* In every state of a run and of its check, for any number of threads and  *)
(* children and traces of any length: what was accepted kept to its         *)
(* intervals.  (recorded_effects.py:80-151, collection_effects.py:153-156,  *)
(* collection_processes.py:60)                                              *)
THEOREM ConfinementCorrect == Spec => []AcceptedIsConfined
<1> QED BY Invariance, AlwaysConfined, AcceptedWasConfined, PTL

-------------------------------------------------------------------------------
(* Why an honest run is accepted. *)

(* Markers stand where they may: an interval is entered from none. *)
MarkersProper ==
    \A t \in Thread : \A i \in DOMAIN events[t] :
       /\ events[t][i].is \in {"call", "scope"} => events[t][i].where = "none"
       /\ events[t][i].is = "END" => events[t][i].where # "none"

(* No end was checked since. *)
Unended(i) ==
    /\ i < next
    /\ \A j \in DOMAIN events[thread] : i < j /\ j < next => events[thread][j].is # "END"

(* A spawn is in the open scope unless an end was checked after it. *)
UnendedAreOpen ==
    thread \in Thread =>
       \A i \in DOMAIN events[thread] :
          SpawnAt(thread, i) /\ Unended(i) => interval = "scope" /\ events[thread][i].child \in spawned

(* The rows of the open scope have all that was said of its children. *)
RowsHear ==
    thread \in Thread =>
       \A i, k \in DOMAIN events[thread] :
          LET c == events[thread][i].child IN
          SpawnAt(thread, i) /\ Unended(i) /\ i < k /\ k < next /\ events[thread][k].child = c =>
             /\ events[thread][k].is = "wait" => c \in waited
             /\ events[thread][k].is = "kill" => c \in killSeen

(* What the checker would do to a run of which every thread does as it      *)
(* should.                                                                  *)
KilledIs == killed \in [Child -> BOOLEAN]

OwnIfHonest == phase = "check" /\ Honest => \A c \in Matched : trace[c] = c

Heard == MarkersProper /\ KilledIs /\ UnendedAreOpen /\ RowsHear /\ OwnIfHonest /\ HonestIsAccepted

(* An entry that stands where it may leaves all where they may.             *)
LEMMA RecordProper ==
  ASSUME Types, MarkersProper, NEW t \in Thread, NEW e \in Entry,
         events' = [events EXCEPT ![t] = Append(@, e)],
         e.is \in {"call", "scope"} => e.where = "none", e.is = "END" => e.where # "none"
  PROVE  MarkersProper'
<1>1. \A u \in Thread : \A i \in DOMAIN events'[u] :
         (i \in DOMAIN events[u] /\ events'[u][i] = events[u][i]) \/ events'[u][i] = e
  BY Recording DEF Types
<1> QED BY <1>1 DEF MarkersProper

(* Neither the run nor what it says of itself changes when it is checked.   *)
LEMMA HonestStays ==
  ASSUME UNCHANGED run
  PROVE  Honest' = Honest
<1>1. /\ events' = events /\ inside' = inside /\ life' = life
      /\ last' = last /\ killed' = killed /\ clean' = clean
  BY DEF run, children
<1> QED BY <1>1 DEF Honest, Marked, Recorded, What, EndedWithin, SaidOf, EndsOf, Candidates

(* No step of the run breaks it. *)
LEMMA RunHeard ==
  ASSUME IInv, IInv', Confined', MarkersProper, KilledIs, Run, Matched' = {},
         thread' = 1, next' = 1, phase' \in {"run", "check"}
  PROVE  Heard'
<1> USE DEF IInv
<1>1. ASSUME NEW t \in Thread, NEW what \in Kinds, NEW time \in Nat, NEW c \in Child \cup {None},
             Record(t, what, time, c),
             what \in {"call", "scope"} => inside[t] = "none", what = "END" => inside[t] # "none"
      PROVE  MarkersProper'
  <2> DEFINE e == [is |-> what, time |-> time, child |-> c, where |-> inside[t]]
  <2>1. e \in Entry /\ e.is = what /\ e.where = inside[t]
    BY <1>1 DEF Types, Entry
  <2>2. events' = [events EXCEPT ![t] = Append(@, e)]
    BY <1>1 DEF Record
  <2> HIDE DEF e
  <2> QED BY <1>1, <2>1, <2>2, RecordProper
<1>2. ASSUME UNCHANGED events PROVE MarkersProper'
  BY <1>2 DEF MarkersProper
<1>3. ASSUME NEW t \in Thread, Enter(t, "call") \/ Enter(t, "scope") PROVE MarkersProper'
  BY <1>1, <1>3 DEF Enter, Kinds
<1>4. ASSUME NEW t \in Thread, Leave(t) PROVE MarkersProper'
  <2>1. clock' \in Nat
    BY DEF Types
  <2> QED BY <1>1, <1>4, <2>1 DEF Leave, Kinds
<1>5. ASSUME NEW t \in Thread, Effect(t) \/ Returns(t) PROVE MarkersProper'
  BY <1>1, <1>5 DEF Effect, Returns, Kinds, Types
<1>6. ASSUME NEW t \in Thread, NEW c \in Child, Spawn(t, c) \/ Kill(t, c) \/ Wait(t, c)
      PROVE  MarkersProper'
  BY <1>1, <1>2, <1>6 DEF Spawn, Kill, Wait, Kinds
<1>7. ASSUME NEW c \in Child, Appear(c) \/ Stray(c) \/ Exit(c) \/ \E d \in Child : Fork(c, d)
      PROVE  MarkersProper'
  BY <1>2, <1>7 DEF Appear, Stray, Exit, Fork
<1>8. ASSUME RunEnds PROVE MarkersProper'
  BY <1>2, <1>8 DEF RunEnds
<1>9. MarkersProper'
  BY <1>3, <1>4, <1>5, <1>6, <1>7, <1>8 DEF Run
<1>10. 1 \in Thread /\ \A i \in DOMAIN events'[1] : ~(i < 1)
  <2>1. 1 \in Thread
    BY TraceAssumption DEF Thread
  <2>2. events'[1] \in Seq(Entry)
    BY <2>1 DEF Types
  <2> QED BY <2>1, <2>2
<1>11. UnendedAreOpen' /\ RowsHear'
  BY <1>10 DEF UnendedAreOpen, RowsHear, Unended
<1>12. OwnIfHonest' /\ HonestIsAccepted'
  BY DEF OwnIfHonest, HonestIsAccepted
<1>13. KilledIs'
  BY DEF Run, Enter, Leave, Effect, Returns, Spawn, Kill, Wait, Appear, Stray, Exit, Fork, RunEnds,
         children, KilledIs
<1> QED BY <1>9, <1>11, <1>12, <1>13 DEF Heard

(* In an honest run every process is the child of a spawn that a trace has. *)
LEMMA AllWereSpawned ==
  ASSUME IInv, Honest
  PROVE  \A d \in Candidates : \E t \in Thread : \E i \in DOMAIN events[t] :
            SpawnAt(t, i) /\ events[t][i].child = d
<1> DEFINE S == {p \in Recorded : What(p).is = "spawn"}
           f == [p \in S |-> What(p).child]
<1>1. ASSUME NEW p \in S
      PROVE  \E t \in Thread : \E i \in DOMAIN events[t] :
                p = <<t, i>> /\ SpawnAt(t, i) /\ What(p) = events[t][i]
  <2>1. PICK t \in Thread : p \in {<<t, i>> : i \in DOMAIN events[t]}
    BY DEF Recorded
  <2>2. PICK i \in DOMAIN events[t] : p = <<t, i>>
    BY <2>1
  <2>3. What(p) = events[t][i]
    BY <2>2 DEF What
  <2> QED BY <2>2, <2>3 DEF SpawnAt
<1>2. IsFiniteSet(Candidates)
  BY TraceAssumption, FS_Subset DEF Candidates
<1>3. \A p \in S : f[p] \in Candidates
  BY <1>1 DEF IInv, RunInv, SpawnsPrecede, Precedes, Candidates
<1>4. \A p, q \in S : f[p] = f[q] => p = q
  <2> SUFFICES ASSUME NEW p \in S, NEW q \in S, What(p).child = What(q).child PROVE p = q
    OBVIOUS
  <2>1. PICK t, i : /\ t \in Thread /\ i \in DOMAIN events[t]
                    /\ p = <<t, i>> /\ SpawnAt(t, i) /\ What(p) = events[t][i]
    BY <1>1
  <2>2. PICK u, j : /\ u \in Thread /\ j \in DOMAIN events[u]
                    /\ q = <<u, j>> /\ SpawnAt(u, j) /\ What(q) = events[u][j]
    BY <1>1
  <2>3. t = u /\ i = j
    BY <2>1, <2>2 DEF IInv, RunInv, SpawnsDiffer
  <2> QED BY <2>1, <2>2, <2>3
<1>5. f \in Injection(S, Candidates)
  BY <1>3, <1>4 DEF Injection, IsInjective
<1>6. Cardinality(S) = Cardinality(Candidates)
  BY DEF Honest
<1>7. f \in Surjection(S, Candidates)
  BY <1>2, <1>5, <1>6, FS_Injection
<1>8. \A d \in Candidates : \E p \in S : f[p] = d
  BY <1>7 DEF Surjection
<1> SUFFICES ASSUME NEW d \in Candidates
             PROVE  \E t \in Thread : \E i \in DOMAIN events[t] : SpawnAt(t, i) /\ events[t][i].child = d
  OBVIOUS
<1>9. PICK p \in S : What(p).child = d
  BY <1>8
<1> QED BY <1>1, <1>9

(* What is asked of a place of an honest run. *)
LEMMA HonestAt ==
  ASSUME Honest, NEW t \in Thread, NEW i \in DOMAIN events[t]
  PROVE  LET e == events[t][i] IN
         /\ e.is = "effect" => e.where = "none"
         /\ e.is = "spawn" =>
               /\ e.where = "scope" /\ EndedWithin(<<t, i>>)
               /\ clean[e.child] /\ (killed[e.child] <=> SaidOf(<<t, i>>, "kill"))
               /\ \A u \in Thread : \A j \in DOMAIN events[u] :
                     SpawnAt(u, j) /\ (t < u \/ (t = u /\ i < j)) => last[e.child] < events[u][j].time
         /\ e.is \in {"wait", "kill"} =>
               \E j \in DOMAIN events[t] :
                  /\ SpawnAt(t, j) /\ events[t][j].child = e.child /\ j < i
                  /\ \A k \in EndsOf(<<t, j>>) : i < k
<1> DEFINE e == events[t][i]
           p == <<t, i>>
<1>1. \A u \in Thread : \A j \in DOMAIN events[u] :
         <<u, j>> \in Recorded /\ What(<<u, j>>) = events[u][j]
  BY DEF Recorded, What
<1>2. /\ e.is = "effect" => e.where = "none"
      /\ e.is = "spawn" =>
            /\ e.where = "scope" /\ EndedWithin(p)
            /\ clean[e.child] /\ (killed[e.child] <=> SaidOf(p, "kill"))
            /\ \A q \in Recorded :
                  What(q).is = "spawn" /\ CheckedBefore(p, q) => last[e.child] < What(q).time
      /\ e.is \in {"wait", "kill"} =>
            \E q \in Recorded : /\ What(q).is = "spawn" /\ What(q).child = e.child
                                /\ q[1] = p[1] /\ q[2] < p[2]
                                /\ \A k \in EndsOf(q) : p[2] < k
  BY <1>1 DEF Honest
<1>3. ASSUME e.is = "spawn", NEW u \in Thread, NEW j \in DOMAIN events[u],
             SpawnAt(u, j), t < u \/ (t = u /\ i < j)
      PROVE  last[e.child] < events[u][j].time
  <2>1. CheckedBefore(p, <<u, j>>)
    BY <1>3 DEF CheckedBefore
  <2> QED BY <1>1, <1>2, <1>3, <2>1 DEF SpawnAt
<1>4. ASSUME e.is \in {"wait", "kill"}
      PROVE  \E j \in DOMAIN events[t] :
                /\ SpawnAt(t, j) /\ events[t][j].child = e.child /\ j < i
                /\ \A k \in EndsOf(<<t, j>>) : i < k
  <2>1. PICK q \in Recorded : /\ What(q).is = "spawn" /\ What(q).child = e.child
                              /\ q[1] = t /\ q[2] < i
                              /\ \A k \in EndsOf(q) : i < k
    BY <1>2, <1>4
  <2>2. PICK u \in Thread : q \in {<<u, j>> : j \in DOMAIN events[u]}
    BY DEF Recorded
  <2>3. PICK j \in DOMAIN events[u] : q = <<u, j>>
    BY <2>2
  <2>4. u = t
    BY <2>1, <2>3
  <2> QED BY <1>1, <2>1, <2>3, <2>4 DEF SpawnAt
<1> QED BY <1>2, <1>3, <1>4

(* In an honest run the first trace that fits a spawn is the child's, and   *)
(* nothing speaks against it.                                               *)
LEMMA ChildFits ==
  ASSUME IInv, Confined, Heard, Honest, At({"spawn"})
  PROVE  /\ interval = "scope" /\ Cardinality(Matched) < Rows /\ ~Overlap(Event.time)
         /\ Fits(Event.time) = {Event.child} /\ clean[Event.child]
<1> DEFINE s == Event.child
           time == Event.time
<1>1. /\ phase = "check" /\ thread \in Thread /\ next \in DOMAIN events[thread]
      /\ Event = events[thread][next] /\ Event \in Entry /\ Event.is = "spawn"
      /\ interval = Event.where
  BY AtEvent
<1>2. SpawnAt(thread, next)
  BY <1>1 DEF SpawnAt
<1>3. interval = "scope" /\ clean[s]
  BY <1>1, HonestAt
<1>4. Precedes(time, s)
  BY <1>1, <1>2 DEF IInv, RunInv, SpawnsPrecede
<1>5. s \in Child /\ life[s] = "ended" /\ time \in Nat /\ first[s] \in Nat /\ last[s] \in Nat
  BY <1>1, <1>4 DEF Precedes, IInv, RunInv, AllOver, Types, Entry
<1>6. time =< first[s] /\ first[s] =< last[s]
  BY <1>4, <1>5 DEF Precedes, IInv, RunInv, LivesInOrder
<1>7. \A c \in Matched : trace[c] = c
  BY <1>1 DEF Heard, OwnIfHonest
<1>8. thread \in Nat /\ next \in Nat
  BY DEF IInv, Types
<1>9. ASSUME NEW c \in Matched PROVE last[c] < time /\ c \in Candidates \ {s}
  <2>1. PICK t, i :
           /\ t \in Thread /\ i \in DOMAIN events[t]
           /\ SpawnAt(t, i) /\ events[t][i].child = c /\ Checked(t, i)
    BY DEF IInv, MatchedWereSpawned
  <2>2. last[c] < time
    BY <1>1, <1>2, <2>1, HonestAt DEF Checked, SpawnAt
  <2>3. Precedes(events[t][i].time, c)
    BY <2>1 DEF IInv, RunInv, SpawnsPrecede
  <2> QED BY <1>5, <1>6, <2>2, <2>3 DEF Precedes, Candidates
<1>10. ~Overlap(time)
  <2> SUFFICES ASSUME NEW c \in Matched PROVE ~(last[trace[c]] >= time)
    BY DEF Overlap
  <2>1. last[c] \in Nat
    BY DEF Matched, IInv, Types
  <2> QED BY <1>5, <1>7, <1>9, <2>1
<1>11. s \in Candidates /\ s \notin Used
  BY <1>5, <1>7, <1>9 DEF Candidates, Used
<1>12. ASSUME NEW d \in Candidates \ Used, d # s PROVE last[s] < first[d]
  <2>1. PICK t \in Thread : \E i \in DOMAIN events[t] : SpawnAt(t, i) /\ events[t][i].child = d
    BY AllWereSpawned
  <2>2. PICK i \in DOMAIN events[t] : SpawnAt(t, i) /\ events[t][i].child = d
    BY <2>1
  <2>3. ~Checked(t, i)
    <3>1. SUFFICES ASSUME Checked(t, i) PROVE FALSE
      OBVIOUS
    <3>2. d \in Matched
      BY <2>2, <3>1 DEF Confined, SpawnsConfined
    <3> QED BY <1>7, <1>12, <3>2 DEF Used
  <2>4. t \in Nat /\ i \in Nat
    BY TraceIs DEF IInv, Thread
  <2>5. ~(t = thread /\ i = next)
    BY <1>1, <1>12, <2>2
  <2>6. thread < t \/ (thread = t /\ next < i)
    BY <1>8, <2>3, <2>4, <2>5 DEF Checked
  <2>7. last[s] < events[t][i].time
    BY <1>1, <2>2, <2>6, HonestAt
  <2>8. Precedes(events[t][i].time, d)
    BY <2>2 DEF IInv, RunInv, SpawnsPrecede
  <2>9. d \in Child /\ life[d] = "ended" /\ first[d] \in Nat
    BY <1>1, <2>8 DEF Precedes, IInv, RunInv, AllOver, Types
  <2>10. events[t][i].time =< first[d]
    BY <2>8, <2>9 DEF Precedes
  <2>11. events[t][i].time \in Nat
    <3>1. events[t][i] \in Entry
      BY TraceIs DEF IInv
    <3> QED BY <3>1 DEF Entry
  <2> QED BY <1>5, <2>7, <2>9, <2>10, <2>11
<1> HIDE DEF s, time
<1>13. Fits(time) = {s}
  <2> DEFINE unused == {d \in Candidates \ Used : first[d] >= time}
  <2>1. Fits(time) = {d \in unused : \A e \in unused : first[d] =< first[e]}
    BY DEF Fits
  <2>2. s \in unused
    BY <1>5, <1>6, <1>11
  <2>3. \A d \in unused : d # s => first[s] < first[d] /\ first[d] \in Nat
    <3> SUFFICES ASSUME NEW d \in unused, d # s PROVE first[s] < first[d] /\ first[d] \in Nat
      OBVIOUS
    <3>1. last[s] < first[d]
      BY <1>12
    <3>2. first[d] \in Nat
      BY DEF Candidates, IInv, Types
    <3> QED BY <1>5, <1>6, <3>1, <3>2
  <2>4. ~(\E d \in unused : d # s /\ first[d] =< first[s])
    BY <1>5, <2>3
  <2> HIDE DEF unused
  <2>5. \A d \in unused : first[s] =< first[d]
    BY <1>5, <2>3
  <2> QED BY <2>1, <2>2, <2>4, <2>5
<1>14. Cardinality(Matched) < Rows
  <2>1. IsFiniteSet(Candidates)
    BY TraceAssumption, FS_Subset DEF Candidates
  <2>2. IsFiniteSet(Candidates \ {s}) /\ Cardinality(Candidates \ {s}) = Cardinality(Candidates) - 1
    BY <1>11, <2>1, FS_RemoveElement
  <2>3. Matched \subseteq Candidates \ {s}
    BY <1>9 DEF s
  <2>4. Cardinality(Matched) =< Cardinality(Candidates \ {s}) /\ IsFiniteSet(Matched)
    BY <2>2, <2>3, FS_Subset
  <2>5. Cardinality(Matched) \in Nat /\ Cardinality(Candidates) \in Nat
    BY <2>1, <2>4, FS_CardinalityType
  <2>6. Cardinality(Candidates) =< Rows /\ Rows \in Nat
    BY TraceAssumption DEF Honest
  <2> QED BY <2>2, <2>4, <2>5, <2>6
<1> QED BY <1>3, <1>10, <1>13, <1>14 DEF s, time

(* Whoever was matched lived. *)
LEMMA MatchedLived == IInv => Matched \subseteq Candidates
<1> SUFFICES ASSUME IInv, NEW c \in Matched PROVE c \in Candidates
  OBVIOUS
<1>1. PICK t, i : t \in Thread /\ i \in DOMAIN events[t] /\ SpawnAt(t, i) /\ events[t][i].child = c
  BY DEF IInv, MatchedWereSpawned
<1>2. Precedes(events[t][i].time, c)
  BY <1>1 DEF IInv, RunInv, SpawnsPrecede
<1> QED BY <1>2 DEF Precedes, Candidates

(* When a scope of an honest run ends, its children are over.               *)
LEMMA ChildFinishes ==
  ASSUME IInv, Confined, Heard, Honest, At({"END"}), interval = "scope", NEW c \in spawned
  PROVE  Finished(c, Event.time)
<1>1. /\ phase = "check" /\ thread \in Thread /\ next \in DOMAIN events[thread]
      /\ Event = events[thread][next] /\ Event.is = "END"
  BY AtEvent
<1>2. PICK i \in DOMAIN events[thread] :
         SpawnAt(thread, i) /\ events[thread][i].child = c /\ Open(thread, i)
  BY DEF Confined, OpenAreSpawned
<1>3. \A j \in DOMAIN events[thread] : j \in Nat
  BY <1>1, TraceIs DEF IInv
<1>4. Unended(i) /\ i < next
  BY <1>2 DEF Open, Unended
<1>5. \A j \in EndsOf(<<thread, i>>) : j = next
  <2> SUFFICES ASSUME NEW j \in EndsOf(<<thread, i>>) PROVE j = next
    OBVIOUS
  <2>1. /\ j \in DOMAIN events[thread] /\ i < j /\ events[thread][j].is = "END"
        /\ (i < next => j =< next)
    BY <1>1 DEF EndsOf
  <2>2. ~(j < next)
    BY <1>4, <2>1 DEF Unended
  <2> QED BY <1>1, <1>3, <1>4, <2>1, <2>2
<1>6. /\ EndedWithin(<<thread, i>>) /\ (killed[c] <=> SaidOf(<<thread, i>>, "kill"))
  BY <1>1, <1>2, HonestAt DEF SpawnAt
<1>7. What(<<thread, i>>) = events[thread][i]
  BY DEF What
<1>8. SaidOf(<<thread, i>>, "wait") /\ last[c] < Event.time
  BY <1>1, <1>2, <1>5, <1>6, <1>7 DEF EndedWithin
<1>9. c \in Matched /\ trace[c] = c
  <2>1. Checked(thread, i)
    BY <1>4 DEF Checked
  <2>2. c \in Matched
    BY <1>1, <1>2, <2>1 DEF Confined, SpawnsConfined
  <2> QED BY <1>1, <2>2 DEF Heard, OwnIfHonest
<1>10. next \in EndsOf(<<thread, i>>)
  BY <1>1, <1>3, <1>4 DEF EndsOf, Unended
<1>11. ASSUME NEW what, SaidOf(<<thread, i>>, what)
       PROVE  \E k \in DOMAIN events[thread] :
                 i < k /\ k < next /\ events[thread][k].is = what /\ events[thread][k].child = c
  BY <1>2, <1>7, <1>10, <1>11 DEF SaidOf
<1>12. c \in waited
  <2>1. PICK k \in DOMAIN events[thread] :
           i < k /\ k < next /\ events[thread][k].is = "wait" /\ events[thread][k].child = c
    BY <1>8, <1>11
  <2> QED BY <1>1, <1>2, <1>4, <2>1 DEF Heard, RowsHear
<1>13. SaidOf(<<thread, i>>, "kill") => c \in killSeen
  <2>1. SUFFICES ASSUME SaidOf(<<thread, i>>, "kill") PROVE c \in killSeen
    OBVIOUS
  <2>2. PICK k \in DOMAIN events[thread] :
           i < k /\ k < next /\ events[thread][k].is = "kill" /\ events[thread][k].child = c
    BY <1>11, <2>1
  <2> QED BY <1>1, <1>2, <1>4, <2>2 DEF Heard, RowsHear
<1>14. c \in killSeen => SaidOf(<<thread, i>>, "kill")
  <2>1. Checked(thread, i)
    BY <1>4 DEF Checked
  <2> QED BY <1>1, <1>2, <2>1 DEF Confined, RowsTell
<1>15. killed[c] \in BOOLEAN
  BY <1>9 DEF Heard, KilledIs, Matched
<1> QED BY <1>6, <1>8, <1>9, <1>12, <1>13, <1>14, <1>15 DEF Finished

(* In an honest run a child is waited for and killed in its scope.          *)
LEMMA SaidInScope ==
  ASSUME IInv, Confined, Heard, Honest, At({"wait", "kill"})
  PROVE  interval = "scope" /\ Event.child \in spawned
<1>1. /\ phase = "check" /\ thread \in Thread /\ next \in DOMAIN events[thread]
      /\ Event = events[thread][next] /\ Event.is \in {"wait", "kill"}
  BY AtEvent
<1>2. PICK j \in DOMAIN events[thread] :
         /\ SpawnAt(thread, j) /\ events[thread][j].child = Event.child /\ j < next
         /\ \A k \in EndsOf(<<thread, j>>) : next < k
  BY <1>1, HonestAt
<1>3. Unended(j)
  <2>1. SUFFICES ASSUME NEW m \in DOMAIN events[thread], j < m, m < next, events[thread][m].is = "END"
                 PROVE  FALSE
    BY <1>2 DEF Unended
  <2>2. EndedWithin(<<thread, j>>)
    BY <1>1, <1>2, HonestAt DEF SpawnAt
  <2>3. PICK k \in EndsOf(<<thread, j>>) : TRUE
    BY <2>2 DEF EndedWithin
  <2>4. k \in DOMAIN events[thread] /\ k =< m
    BY <2>1, <2>3 DEF EndsOf
  <2>5. next < k
    BY <1>2, <2>3
  <2> QED BY <1>1, <2>1, <2>4, <2>5, TraceIs DEF IInv
<1> QED BY <1>1, <1>2, <1>3 DEF Heard, UnendedAreOpen

(* The checker does not refuse an honest run. *)
LEMMA HonestNotRefused ==
  ASSUME IInv, Confined, Heard, Honest, Check
  PROVE  phase' # "refused"
<1>1. ASSUME EndOfTrace PROVE phase' # "refused"
  <2>1. phase = "check" /\ thread \in Thread /\ next > Len(events[thread])
    BY <1>1 DEF EndOfTrace
  <2>2. next \in 1 .. Len(events[thread]) + 1 /\ interval = After(thread, next - 1)
    BY <2>1 DEF Confined, IntervalIsWhere
  <2>3. Len(events[thread]) \in Nat
    BY <2>1, TraceIs DEF IInv
  <2>4. next - 1 = Len(events[thread])
    BY <2>1, <2>2, <2>3
  <2>5. interval = "none" /\ (thread > 1 /\ events[thread] # <<>> => Marked(thread))
    BY <2>1, <2>2, <2>4 DEF After, Honest
  <2> QED BY <1>1, <2>1, <2>5 DEF EndOfTrace
<1>2. ASSUME CheckEnter PROVE phase' # "refused"
  <2>1. At({"call", "scope"})
    BY <1>2 DEF CheckEnter
  <2>2. phase = "check" /\ interval = "none"
    BY <2>1, AtEvent DEF Heard, MarkersProper
  <2> QED BY <1>2, <2>2 DEF CheckEnter, Onward
<1>3. ASSUME CheckLeave PROVE phase' # "refused"
  <2>1. At({"END"})
    BY <1>3 DEF CheckLeave
  <2>2. phase = "check" /\ interval # "none"
    BY <2>1, AtEvent DEF Heard, MarkersProper
  <2>3. interval = "scope" => \A c \in spawned : Finished(c, Event.time)
    BY <2>1, ChildFinishes
  <2> QED BY <1>3, <2>2, <2>3 DEF CheckLeave, Onward
<1>4. ASSUME CheckEffect PROVE phase' # "refused"
  <2>1. At({"effect"})
    BY <1>4 DEF CheckEffect
  <2>2. /\ phase = "check" /\ thread \in Thread /\ next \in DOMAIN events[thread]
        /\ Event = events[thread][next] /\ Event.is = "effect" /\ interval = Event.where
    BY <2>1, AtEvent
  <2>3. interval = "none"
    BY <2>2, HonestAt
  <2> QED BY <1>4, <2>2, <2>3 DEF CheckEffect, Onward
<1>5. ASSUME CheckSpawn PROVE phase' # "refused"
  <2>1. At({"spawn"})
    BY <1>5 DEF CheckSpawn
  <2>2. phase = "check" /\ Cardinality(Matched) \in Nat /\ Rows \in Nat
    <3>1. IsFiniteSet(Matched)
      BY TraceAssumption, FS_Subset DEF Matched
    <3> QED BY <2>1, <3>1, AtEvent, TraceAssumption, FS_CardinalityType
  <2>3. /\ interval = "scope" /\ ~(Cardinality(Matched) >= Rows) /\ ~Overlap(Event.time)
        /\ Fits(Event.time) = {Event.child} /\ clean[Event.child]
    BY <2>1, <2>2, ChildFits
  <2> QED BY <1>5, <2>2, <2>3 DEF CheckSpawn, Onward
<1>6. ASSUME CheckWaitOrKill PROVE phase' # "refused"
  <2>1. At({"wait", "kill"})
    BY <1>6 DEF CheckWaitOrKill
  <2>2. phase = "check"
    BY <2>1, AtEvent
  <2> QED BY <1>6, <2>1, <2>2, SaidInScope DEF CheckWaitOrKill, Onward
<1>7. ASSUME Decide PROVE phase' # "refused"
  <2>1. phase = "check" /\ thread > Threads
    BY <1>7 DEF Decide
  <2>2. Candidates \subseteq Matched
    <3>1. SUFFICES ASSUME NEW d \in Candidates PROVE d \in Matched
      OBVIOUS
    <3>2. PICK t \in Thread : \E i \in DOMAIN events[t] : SpawnAt(t, i) /\ events[t][i].child = d
      BY AllWereSpawned
    <3>3. PICK i \in DOMAIN events[t] : SpawnAt(t, i) /\ events[t][i].child = d
      BY <3>2
    <3>4. Checked(t, i)
      BY <2>1, TraceAssumption DEF Checked, Thread, IInv, Types
    <3> QED BY <3>3, <3>4 DEF Confined, SpawnsConfined
  <2>3. Matched \subseteq Candidates
    BY MatchedLived
  <2>4. \A c \in Matched : trace[c] = c
    BY <2>1 DEF Heard, OwnIfHonest
  <2>5. Used = Candidates
    BY <2>2, <2>3, <2>4 DEF Used
  <2> QED BY <1>7, <2>5 DEF Decide
<1> QED BY <1>1, <1>2, <1>3, <1>4, <1>5, <1>6, <1>7 DEF Check

(* No step of the checker breaks it. *)
LEMMA CheckHeard ==
  ASSUME IInv, IInv', Confined, Confined', Heard, Check
  PROVE  Heard'
<1>1. phase = "check" /\ UNCHANGED run
  BY DEF Check, EndOfTrace, CheckEnter, CheckLeave, CheckEffect, CheckSpawn, CheckWaitOrKill, Decide,
         At, Refuse, Onward
<1>2. /\ events' = events /\ killed' = killed /\ Honest' = Honest
      /\ \A t, i : SpawnAt(t, i)' = SpawnAt(t, i)
  BY <1>1, HonestStays, TracesStay DEF run, children
<1>3. MarkersProper' /\ KilledIs'
  BY <1>2 DEF Heard, MarkersProper, KilledIs
<1>4. HonestIsAccepted'
  BY <1>2, HonestNotRefused DEF HonestIsAccepted
<1>5. ASSUME UNCHANGED trace PROVE OwnIfHonest'
  BY <1>1, <1>2, <1>5 DEF Heard, OwnIfHonest, Matched
<1>6. ASSUME UNCHANGED <<place, rows>> PROVE Heard'
  <2>1. /\ thread' = thread /\ next' = next /\ interval' = interval /\ trace' = trace
        /\ spawned' = spawned /\ waited' = waited /\ killSeen' = killSeen
    BY <1>6 DEF place, rows
  <2>2. UnendedAreOpen' /\ RowsHear'
    BY <1>2, <2>1 DEF Heard, UnendedAreOpen, RowsHear, Unended
  <2> QED BY <1>3, <1>4, <1>5, <2>1, <2>2 DEF Heard
<1>7. CASE Refuse \/ Decide
  BY <1>6, <1>7 DEF Refuse, Decide
<1>8. CASE EndOfTrace /\ ~Refuse
  <2>1. next' = 1 /\ UNCHANGED rows
    BY <1>8 DEF EndOfTrace
  <2>2. \A t \in Thread : \A i \in DOMAIN events[t] : ~(i < 1)
    <3> SUFFICES ASSUME NEW t \in Thread, NEW i \in DOMAIN events[t] PROVE ~(i < 1)
      OBVIOUS
    <3> QED BY TraceIs DEF IInv
  <2>3. UnendedAreOpen' /\ RowsHear'
    BY <1>2, <2>1, <2>2 DEF UnendedAreOpen, RowsHear, Unended
  <2> QED BY <1>3, <1>4, <1>5, <2>1, <2>3 DEF Heard, rows
<1>9. ASSUME Onward, At(Kinds) PROVE /\ thread' = thread /\ thread \in Thread
                                     /\ \A i \in DOMAIN events[thread] :
                                           Unended(i)' => \/ i = next
                                                          \/ Unended(i) /\ Event.is # "END"
                                     /\ \A i \in DOMAIN events[thread] : i < next' <=> i < next \/ i = next
  <2>1. /\ thread' = thread /\ next' = next + 1 /\ next \in Nat
        /\ thread \in Thread /\ next \in DOMAIN events[thread] /\ Event = events[thread][next]
    BY <1>9, AtEvent DEF Onward
  <2>2. \A i \in DOMAIN events[thread] : i \in Nat
    BY <2>1, TraceIs DEF IInv
  <2>3. \A i \in DOMAIN events[thread] : i < next' <=> i < next \/ i = next
    BY <2>1, <2>2
  <2>4. ASSUME NEW i \in DOMAIN events[thread], Unended(i)', i # next
        PROVE  Unended(i) /\ Event.is # "END"
    <3>1. i < next' /\ \A j \in DOMAIN events[thread] : i < j /\ j < next' => events[thread][j].is # "END"
      BY <1>2, <2>1, <2>4 DEF Unended
    <3>2. i < next
      BY <2>3, <2>4, <3>1
    <3> QED BY <2>1, <2>3, <3>1, <3>2 DEF Unended
  <2> QED BY <2>1, <2>3, <2>4
<1>10. ASSUME Onward, At(Kinds \ {"spawn"}),
              Event.is = "END" \/ (interval = "scope" => UNCHANGED <<interval, spawned>>),
              \A c : /\ c \in waited => c \in waited'
                     /\ c \in killSeen => c \in killSeen',
              interval = "scope" /\ Event.is = "wait" => Event.child \in waited',
              interval = "scope" /\ Event.is = "kill" => Event.child \in killSeen'
       PROVE  UnendedAreOpen' /\ RowsHear'
  <2>1. At(Kinds)
    BY <1>10 DEF At
  <2>2. /\ thread' = thread /\ thread \in Thread
        /\ \A i \in DOMAIN events[thread] :
              Unended(i)' => i = next \/ (Unended(i) /\ Event.is # "END")
        /\ \A i \in DOMAIN events[thread] : i < next' <=> i < next \/ i = next
    BY <1>9, <1>10, <2>1
  <2>3. Event = events[thread][next] /\ Event.is # "spawn"
    BY <1>10, AtEvent
  <2>4. \A i \in DOMAIN events[thread] :
           SpawnAt(thread, i) /\ Unended(i)' =>
              Unended(i) /\ Event.is # "END" /\ interval = "scope" /\ events[thread][i].child \in spawned
    BY <2>2, <2>3 DEF SpawnAt, Heard, UnendedAreOpen
  <2>5. UnendedAreOpen'
    <3> SUFFICES ASSUME NEW i \in DOMAIN events[thread], SpawnAt(thread, i), Unended(i)'
                 PROVE  interval' = "scope" /\ events[thread][i].child \in spawned'
      BY <1>2, <2>2 DEF UnendedAreOpen
    <3> QED BY <1>10, <2>4
  <2>6. RowsHear'
    <3> SUFFICES ASSUME NEW i \in DOMAIN events[thread], NEW k \in DOMAIN events[thread],
                        SpawnAt(thread, i), Unended(i)', i < k, k < next',
                        events[thread][k].child = events[thread][i].child
                 PROVE  /\ events[thread][k].is = "wait" => events[thread][i].child \in waited'
                        /\ events[thread][k].is = "kill" => events[thread][i].child \in killSeen'
      BY <1>2, <2>2 DEF RowsHear
    <3>1. CASE k = next
      BY <1>10, <2>3, <2>4, <3>1
    <3>2. CASE k < next
      <4>1. Unended(i)
        BY <2>4
      <4>2. /\ events[thread][k].is = "wait" => events[thread][i].child \in waited
            /\ events[thread][k].is = "kill" => events[thread][i].child \in killSeen
        BY <2>2, <3>2, <4>1 DEF Heard, RowsHear
      <4> QED BY <1>10, <4>2
    <3> QED BY <2>2, <3>1, <3>2
  <2> QED BY <2>5, <2>6
<1>11. ASSUME NEW kinds \in SUBSET (Kinds \ {"spawn"}), At(kinds) PROVE At(Kinds \ {"spawn"})
  BY <1>11 DEF At
<1>12. CASE CheckEnter /\ ~Refuse
  <2>1. At({"call", "scope"}) /\ At(Kinds \ {"spawn"})
    BY <1>11, <1>12 DEF CheckEnter, Kinds
  <2>2. interval = "none" /\ UNCHANGED <<trace, waited, killSeen>> /\ Onward
    BY <1>12 DEF CheckEnter
  <2>3. UnendedAreOpen' /\ RowsHear'
    BY <1>10, <2>1, <2>2
  <2> QED BY <1>3, <1>4, <1>5, <2>2, <2>3 DEF Heard
<1>13. CASE CheckLeave /\ ~Refuse
  <2>1. At({"END"}) /\ At(Kinds \ {"spawn"})
    BY <1>11, <1>13 DEF CheckLeave, Kinds
  <2>2. UNCHANGED <<trace, waited, killSeen>> /\ Onward
    BY <1>13 DEF CheckLeave, rows
  <2>3. Event.is = "END"
    BY <2>1, AtEvent
  <2>4. UnendedAreOpen' /\ RowsHear'
    BY <1>10, <2>1, <2>2, <2>3
  <2> QED BY <1>3, <1>4, <1>5, <2>2, <2>4 DEF Heard
<1>14. CASE CheckEffect /\ ~Refuse
  <2>1. At({"effect"}) /\ At(Kinds \ {"spawn"})
    BY <1>11, <1>14 DEF CheckEffect, Kinds
  <2>2. interval = "none" /\ UNCHANGED <<trace, waited, killSeen>> /\ Onward
    BY <1>14 DEF CheckEffect, rows
  <2>3. UnendedAreOpen' /\ RowsHear'
    BY <1>10, <2>1, <2>2
  <2> QED BY <1>3, <1>4, <1>5, <2>2, <2>3 DEF Heard
<1>15. CASE CheckWaitOrKill /\ ~Refuse
  <2>1. At({"wait", "kill"}) /\ At(Kinds \ {"spawn"})
    BY <1>11, <1>15 DEF CheckWaitOrKill, Kinds
  <2>2. /\ UNCHANGED <<interval, spawned, trace>> /\ Onward
        /\ \/ /\ waited' = IF Event.is = "wait" THEN waited \cup {Event.child} ELSE waited
              /\ killSeen' = IF Event.is = "kill" THEN killSeen \cup {Event.child} ELSE killSeen
           \/ interval = "none" /\ UNCHANGED <<waited, killSeen>>
    BY <1>15 DEF CheckWaitOrKill, rows
  <2>3. /\ \A c : (c \in waited => c \in waited') /\ (c \in killSeen => c \in killSeen')
        /\ interval = "scope" /\ Event.is = "wait" => Event.child \in waited'
        /\ interval = "scope" /\ Event.is = "kill" => Event.child \in killSeen'
    BY <2>2
  <2>4. UnendedAreOpen' /\ RowsHear'
    BY <1>10, <2>1, <2>2, <2>3
  <2> QED BY <1>3, <1>4, <1>5, <2>2, <2>4 DEF Heard
<1>16. CASE CheckSpawn /\ ~Refuse
  <2>1. At({"spawn"}) /\ At(Kinds)
    BY <1>16 DEF CheckSpawn, Kinds, At
  <2>2. /\ thread \in Thread /\ next \in DOMAIN events[thread] /\ next \in Nat
        /\ Event = events[thread][next] /\ Event.is = "spawn"
    BY <2>1, AtEvent
  <2>3. /\ interval = "scope" /\ UNCHANGED <<interval, waited, killSeen>> /\ Onward
        /\ spawned' = spawned \cup {Event.child}
        /\ \E d \in Fits(Event.time) : trace' = [trace EXCEPT ![Event.child] = d]
    BY <1>16, <2>2 DEF CheckSpawn
  <2>4. /\ thread' = thread
        /\ \A i \in DOMAIN events[thread] : Unended(i)' => i = next \/ (Unended(i) /\ Event.is # "END")
        /\ \A i \in DOMAIN events[thread] : i < next' <=> i < next \/ i = next
    BY <1>9, <2>1, <2>3
  <2>5. UnendedAreOpen'
    <3> SUFFICES ASSUME NEW i \in DOMAIN events[thread], SpawnAt(thread, i), Unended(i)'
                 PROVE  interval' = "scope" /\ events[thread][i].child \in spawned'
      BY <1>2, <2>4 DEF UnendedAreOpen
    <3>1. CASE i = next
      BY <2>2, <2>3, <3>1
    <3>2. CASE Unended(i)
      BY <2>2, <2>3, <3>2 DEF Heard, UnendedAreOpen
    <3> QED BY <2>4, <3>1, <3>2
  <2>6. RowsHear'
    <3> SUFFICES ASSUME NEW i \in DOMAIN events[thread], NEW k \in DOMAIN events[thread],
                        SpawnAt(thread, i), Unended(i)', i < k, k < next',
                        events[thread][k].child = events[thread][i].child
                 PROVE  /\ events[thread][k].is = "wait" => events[thread][i].child \in waited'
                        /\ events[thread][k].is = "kill" => events[thread][i].child \in killSeen'
      BY <1>2, <2>4 DEF RowsHear
    <3>1. CASE k = next
      BY <2>2, <3>1
    <3>2. CASE k < next
      <4>1. i # next /\ i \in Nat /\ k \in Nat
        BY <2>2, <3>2, TraceIs DEF IInv
      <4>2. Unended(i)
        BY <2>4, <4>1
      <4> QED BY <2>2, <2>3, <3>2, <4>2 DEF Heard, RowsHear
    <3> QED BY <2>4, <3>1, <3>2
  <2>7. OwnIfHonest'
    <3> SUFFICES ASSUME Honest, NEW c \in Matched' PROVE trace'[c] = c
      BY <1>2 DEF OwnIfHonest
    <3>1. trace' = [trace EXCEPT ![Event.child] = Event.child]
      BY <2>1, <2>3, ChildFits
    <3>2. c = Event.child \/ c \in Matched
      BY <3>1 DEF Matched, IInv, Types
    <3>3. \A d \in Matched : trace[d] = d
      BY <1>1 DEF Heard, OwnIfHonest
    <3> QED BY <3>1, <3>2, <3>3 DEF Matched, IInv, Types
  <2> QED BY <1>3, <1>4, <2>5, <2>6, <2>7 DEF Heard
<1> QED BY <1>7, <1>8, <1>12, <1>13, <1>14, <1>15, <1>16 DEF Check

(* In every state of a run and of its check, for any number of threads and  *)
(* children: a run in which every thread does as it should is not refused.  *)
(* (recorded_trace.py:65-79, recorded_effects.py:80-161,                    *)
(* collection_processes.py:60-74)                                           *)
THEOREM HonestyCorrect == Spec => []HonestIsAccepted
<1>1. Init => Heard
  <2> SUFFICES ASSUME Init PROVE Heard
    OBVIOUS
  <2>1. \A t \in Thread : DOMAIN events[t] = {}
    BY DEF Init
  <2>2. MarkersProper /\ UnendedAreOpen /\ RowsHear
    BY <2>1 DEF MarkersProper, UnendedAreOpen, RowsHear
  <2>3. KilledIs /\ OwnIfHonest /\ HonestIsAccepted
    BY DEF Init, KilledIs, OwnIfHonest, HonestIsAccepted
  <2> QED BY <2>2, <2>3 DEF Heard
<1>2. ASSUME IInv, IInv', Confined, Confined', Heard, [Next]_vars PROVE Heard'
  <2>1. ASSUME Run PROVE Heard'
    <3>1. /\ phase' \in {"run", "check"} /\ thread' = 1 /\ next' = 1 /\ Matched' = {}
          /\ MarkersProper /\ KilledIs
      BY <1>2, <2>1, RunLeavesUnchecked DEF Confined, Heard
    <3> QED BY <1>2, <2>1, <3>1, RunHeard
  <2>2. ASSUME Check PROVE Heard'
    BY <1>2, <2>2, CheckHeard
  <2>3. ASSUME UNCHANGED vars PROVE Heard'
    <3>1. /\ UNCHANGED run /\ events' = events /\ killed' = killed /\ Honest' = Honest
          /\ thread' = thread /\ next' = next /\ interval' = interval /\ trace' = trace
          /\ spawned' = spawned /\ waited' = waited /\ killSeen' = killSeen /\ phase' = phase
          /\ \A t, i : SpawnAt(t, i)' = SpawnAt(t, i)
      BY <2>3, HonestStays, TracesStay DEF vars, run, children, place, rows
    <3>2. MarkersProper' /\ KilledIs' /\ UnendedAreOpen' /\ RowsHear'
      BY <1>2, <3>1 DEF Heard, MarkersProper, KilledIs, UnendedAreOpen, RowsHear, Unended
    <3>3. OwnIfHonest' /\ HonestIsAccepted'
      BY <1>2, <3>1 DEF Heard, OwnIfHonest, HonestIsAccepted, Matched
    <3> QED BY <3>2, <3>3 DEF Heard
  <2> QED BY <1>2, <2>1, <2>2, <2>3 DEF Next
<1>3. Heard => HonestIsAccepted
  BY DEF Heard
<1> QED BY <1>1, <1>2, <1>3, Invariance, AlwaysConfined, PTL DEF Spec
===============================================================================
