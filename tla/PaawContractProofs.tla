------------------------- MODULE PaawContractProofs -------------------------
(***************************************************************************)
(* Theorems about PaawControl that speak of the requests waiting for a     *)
(* stop: none is lost, none goes on next to a server it does not know of,  *)
(* and what they are told is what ServerContract allows.  For any set of   *)
(* requests and any outcome of spawn and of child.kill.                    *)
(***************************************************************************)
EXTENDS PaawControlProofs, FiniteSetTheorems

-----------------------------------------------------------------------------
(* How often a request stands in a queue                                   *)

\* A count of places is a natural number, zero for a request that is not there.
LEMMA PlacesZero ==
  ASSUME NEW q \in Seq(Requests), NEW r \in Requests
  PROVE  /\ Places(q, r) \in Nat
         /\ Places(q, r) = 0 <=> \A i \in 1..Len(q) : q[i] # r
<1> DEFINE P == {i \in DOMAIN q : q[i] = r}
<1>1. DOMAIN q = 1..Len(q) /\ Len(q) \in Nat
  OBVIOUS
<1>2. IsFiniteSet(1..Len(q))
  BY <1>1, FS_Interval
<1>3. IsFiniteSet(P)
  BY <1>1, <1>2, FS_Subset
<1>4. Cardinality(P) \in Nat
  BY <1>3, FS_CardinalityType
<1>5. Cardinality(P) = 0 <=> P = {}
  BY <1>3, FS_EmptySet
<1> QED BY <1>1, <1>4, <1>5 DEF Places

\* The empty queue has no place.
LEMMA PlacesEmpty == ASSUME NEW r \in Requests PROVE Places(<<>>, r) = 0
<1>1. <<>> \in Seq(Requests) /\ Len(<<>>) = 0
  OBVIOUS
<1>2. \A i \in 1..Len(<<>>) : <<>>[i] # r
  BY <1>1
<1> QED BY <1>1, <1>2, PlacesZero

\* A request that comes in takes one place.
LEMMA PlacesAppend ==
  ASSUME NEW q \in Seq(Requests), NEW x \in Requests, NEW r \in Requests
  PROVE  Places(Append(q, x), r) = Places(q, r) + (IF x = r THEN 1 ELSE 0)
<1> DEFINE P == {i \in DOMAIN q : q[i] = r}
           A == {i \in DOMAIN Append(q, x) : Append(q, x)[i] = r}
<1>1. DOMAIN q = 1..Len(q) /\ Len(q) \in Nat
  OBVIOUS
<1>2. DOMAIN Append(q, x) = 1..(Len(q) + 1)
  BY <1>1
<1>3. /\ \A i \in 1..Len(q) : Append(q, x)[i] = q[i]
      /\ Append(q, x)[Len(q) + 1] = x
  BY <1>1
<1>4. 1..(Len(q) + 1) = (1..Len(q)) \cup {Len(q) + 1} /\ Len(q) + 1 \notin 1..Len(q)
  BY <1>1
<1>5. A = IF x = r THEN P \cup {Len(q) + 1} ELSE P
  BY <1>1, <1>2, <1>3, <1>4
<1>6. IsFiniteSet(P) /\ Len(q) + 1 \notin P
  <2>1. IsFiniteSet(1..Len(q)) /\ P \in SUBSET (1..Len(q))
    BY <1>1, FS_Interval
  <2> QED BY <2>1, <1>4, FS_Subset
<1>7. Cardinality(P \cup {Len(q) + 1}) = Cardinality(P) + 1
  BY <1>6, FS_AddElement
<1>8. Cardinality(P) \in Nat
  BY <1>6, FS_CardinalityType
<1> HIDE DEF P, A
<1>9. Cardinality(A) = Cardinality(P) + (IF x = r THEN 1 ELSE 0)
  BY <1>5, <1>7, <1>8
<1> QED BY <1>9 DEF Places, P, A

\* The first of a queue leaves one place.
LEMMA PlacesTail ==
  ASSUME NEW q \in Seq(Requests), q # <<>>, NEW r \in Requests
  PROVE  Places(q, r) = Places(Tail(q), r) + (IF Head(q) = r THEN 1 ELSE 0)
<1> DEFINE P == {i \in DOMAIN q : q[i] = r}
           T == {i \in DOMAIN Tail(q) : Tail(q)[i] = r}
           S == P \ {1}
           f == [i \in T |-> i + 1]
<1>1. DOMAIN q = 1..Len(q) /\ Len(q) \in Nat /\ Len(q) > 0 /\ Head(q) = q[1]
  OBVIOUS
<1>2. DOMAIN Tail(q) = 1..(Len(q) - 1)
  BY <1>1
<1>3. \A i \in 1..(Len(q) - 1) : Tail(q)[i] = q[i + 1]
  BY <1>1
<1>4. IsFiniteSet(P) /\ IsFiniteSet(S) /\ IsFiniteSet(T)
  <2>1. IsFiniteSet(1..Len(q)) /\ IsFiniteSet(1..(Len(q) - 1))
    BY <1>1, FS_Interval
  <2>2. P \in SUBSET (1..Len(q)) /\ S \in SUBSET (1..Len(q)) /\ T \in SUBSET (1..(Len(q) - 1))
    BY <1>1, <1>2
  <2> QED BY <2>1, <2>2, FS_Subset
<1>5. Cardinality(S) = Cardinality(T)
  <2>1. f \in [T -> S]
    BY <1>1, <1>2, <1>3
  <2>2. \A i, j \in T : f[i] = f[j] => i = j
    BY <1>2
  <2>3. \A k \in S : k - 1 \in T /\ f[k - 1] = k
    BY <1>1, <1>2, <1>3
  <2>4. f \in Bijection(T, S)
    BY <2>1, <2>2, <2>3 DEF Bijection, Injection, Surjection, IsInjective
  <2> QED BY <2>4, <1>4, FS_Bijection DEF ExistsBijection
<1>6. Cardinality(S) \in Nat /\ Cardinality(S \cup {1}) = Cardinality(S) + 1
  BY <1>4, FS_AddElement, FS_CardinalityType
<1>7. P = IF Head(q) = r THEN S \cup {1} ELSE S
  BY <1>1
<1> HIDE DEF P, T, S, f
<1>8. Cardinality(P) = Cardinality(T) + (IF Head(q) = r THEN 1 ELSE 0)
  BY <1>5, <1>6, <1>7
<1> QED BY <1>8 DEF Places, P, T
-----------------------------------------------------------------------------
(* The invariant of the queues                                             *)

\* A request that has not been taken up awaits nothing, one that waits has no
\* reply yet, and a stop that is awaited has begun.
JoinInv ==
  \A r \in Requests :
    /\ pc[r] = "idle" => joined[r] = None
    /\ pc[r] \in {"idle", "stopping"} => result[r] = "none"
    /\ joined[r] # None => stop[joined[r]].outcome # "none"

\* A stop that was shared and is over went wrong as it began.
SharedInv == stoppingPromise # None => stop[stoppingPromise].outcome \in {"pending", "failed"}

\* Waiters await the one promise that is pending.
WaitingInv ==
  waiting # <<>> =>
    /\ stoppingPromise # None /\ stop[stoppingPromise].outcome = "pending"
    /\ \A i \in 1..Len(waiting) : joined[waiting[i]] = stoppingPromise

\* Requests that are due shared one stop; if it was confirmed, a child that is
\* alive since is of one of them, unless a kill has emitted 'error'.
BatchInv ==
  \A i \in 1..Len(resume) :
    /\ joined[resume[i]] # None
    /\ \A j \in 1..Len(resume) : joined[resume[j]] = joined[resume[i]]
    /\ stop[joined[resume[i]]].outcome = "ok" /\ ~killErrored =>
         \A c \in Requests : os[c] \in {"unborn", "alive"} => joined[c] = joined[resume[i]]

PlacesInv ==
  admin = "up" =>
    \A r \in Requests :
      Places(waiting, r) + Places(resume, r) = IF pc[r] = "stopping" THEN 1 ELSE 0

QueueInv == JoinInv /\ SharedInv /\ WaitingInv /\ BatchInv /\ PlacesInv

\* What a request does once nothing is in its way touches no other request, and
\* leaves it waiting only if the process goes down.
LEMMA ProceedFrame ==
  ASSUME TypeOK, NEW r \in Requests, NEW o \in Ops, Proceed(r, o)
  PROVE  /\ \A c \in Requests : c # r => pc'[c] = pc[c] /\ result'[c] = result[c]
         /\ \/ pc'[r] \in {"done", "verifying"}
            \/ admin' = "crashed" /\ UNCHANGED <<pc, result>>
<1> USE DEF TypeOK
<1>1. ASSUME NEW word, Reply(r, word)
      PROVE  pc'[r] = "done" /\ \A c \in Requests : c # r => pc'[c] = pc[c] /\ result'[c] = result[c]
  BY <1>1 DEF Reply
<1>2. CASE pc' = [pc EXCEPT ![r] = "verifying"] /\ UNCHANGED result
  BY <1>2
<1>3. CASE PlainStart(r)
  BY <1>1, <1>3 DEF PlainStart
<1>4. CASE UpgradeWork(r)
  BY <1>1, <1>2, <1>4 DEF UpgradeWork
<1>5. CASE RestoreBackup(r)
  BY <1>1, <1>5 DEF RestoreBackup
<1>6. CASE Reply(r, IF joined[r] = None THEN "refused" ELSE "ok")
  BY <1>1, <1>6
<1> QED BY <1>3, <1>4, <1>5, <1>6 DEF Proceed

\* A stop settles: its waiters are due, and no child is alive if it was confirmed.
LEMMA SettleQueues ==
  ASSUME IInv, QueueInv, resume = <<>>, NEW s \in Requests, NEW ok \in BOOLEAN,
         stop[s].outcome = "pending", Settle(s, ok), UNCHANGED <<admin, joined, pc, result>>,
         ok /\ ~killErrored' => \A c \in Requests : os'[c] \notin {"unborn", "alive"}
  PROVE  QueueInv'
<1>1. stoppingPromise = s
  BY DEF IInv, StopInv, PendingIsShared
<1>2. waiting \in Seq(Requests)
  BY DEF IInv, TypeOK
<1>3. resume' = waiting /\ waiting' = <<>> /\ stoppingPromise' = None
  BY <1>2 DEF Settle
<1>4. \A q \in Requests : q # s => stop'[q] = stop[q]
  BY DEF IInv, TypeOK, Settle
<1>5. stop'[s].outcome = IF ok THEN "ok" ELSE "failed"
  BY DEF IInv, TypeOK, Settle, Settled, StopRecords
<1>6. JoinInv'
  <2> SUFFICES ASSUME NEW r \in Requests, joined[r] # None
               PROVE  stop'[joined[r]].outcome # "none"
    BY DEF QueueInv, JoinInv
  <2>1. joined[r] \in Requests
    BY DEF IInv, TypeOK
  <2> QED BY <2>1, <1>4, <1>5 DEF QueueInv, JoinInv
<1>7. SharedInv' /\ WaitingInv'
  BY <1>3 DEF SharedInv, WaitingInv
<1>8. BatchInv'
  <2> SUFFICES ASSUME NEW i \in 1..Len(waiting)
               PROVE  /\ joined[waiting[i]] # None
                      /\ \A j \in 1..Len(waiting) : joined[waiting[j]] = joined[waiting[i]]
                      /\ stop'[joined[waiting[i]]].outcome = "ok" /\ ~killErrored' =>
                           \A c \in Requests : os'[c] \notin {"unborn", "alive"}
    BY <1>3 DEF BatchInv
  <2>1. waiting # <<>>
    BY <1>2
  <2>2. \A j \in 1..Len(waiting) : joined[waiting[j]] = s
    BY <1>1, <2>1 DEF QueueInv, WaitingInv
  <2> QED BY <2>2, <1>5, NoneAssumption
<1>9. PlacesInv'
  <2>1. \A r \in Requests : Places(<<>>, r) = 0 /\ Places(waiting, r) \in Nat
    BY <1>2, PlacesEmpty, PlacesZero
  <2> QED BY <2>1, <1>3 DEF QueueInv, PlacesInv
<1> QED BY <1>6, <1>7, <1>8, <1>9 DEF QueueInv

\* Steps that touch neither the queues nor who awaits what, settle no stop,
\* and bring no child to life.
LEMMA QueuesUntouched ==
  ASSUME IInv, QueueInv, UNCHANGED <<admin, joined, waiting, resume, stoppingPromise>>,
         killErrored => killErrored',
         \A s \in Requests : stop'[s].outcome = stop[s].outcome,
         \A c \in Requests : os'[c] \in {"unborn", "alive"} => os[c] \in {"unborn", "alive"},
         \A r \in Requests : \/ pc'[r] = pc[r] /\ result'[r] = result[r]
                             \/ {pc[r], pc'[r]} \subseteq {"verifying", "probing", "done"}
  PROVE  QueueInv'
<1>1. /\ \A r \in Requests : joined[r] \in Requests \cup {None}
      /\ stoppingPromise \in Requests \cup {None}
      /\ waiting \in Seq(Requests) /\ resume \in Seq(Requests)
  BY DEF IInv, TypeOK
<1>2. JoinInv'
  BY <1>1 DEF QueueInv, JoinInv
<1>3. SharedInv' /\ WaitingInv'
  BY <1>1 DEF QueueInv, SharedInv, WaitingInv
<1>4. BatchInv'
  <2> SUFFICES ASSUME NEW i \in 1..Len(resume)
               PROVE  /\ joined[resume[i]] # None
                      /\ \A j \in 1..Len(resume) : joined[resume[j]] = joined[resume[i]]
                      /\ stop'[joined[resume[i]]].outcome = "ok" /\ ~killErrored' =>
                           \A c \in Requests : os'[c] \in {"unborn", "alive"} => joined[c] = joined[resume[i]]
    BY DEF BatchInv
  <2>1. joined[resume[i]] \in Requests
    BY <1>1 DEF QueueInv, BatchInv
  <2> QED BY <2>1 DEF QueueInv, BatchInv
<1>5. PlacesInv'
  BY DEF QueueInv, PlacesInv
<1> QED BY <1>2, <1>3, <1>4, <1>5 DEF QueueInv

\* A request that joins or begins a stop is queued once, behind that stop.
LEMMA StopQueues ==
  ASSUME IInv, QueueInv, Quiet, NEW r \in Requests, pc[r] = "idle",
         paawProcess # None, StopPaaw(r), pc' = [pc EXCEPT ![r] = "stopping"],
         UNCHANGED <<admin, result>>
  PROVE  QueueInv'
<1>1. /\ waiting \in Seq(Requests) /\ resume = <<>> /\ os' = os /\ admin = "up"
      /\ joined[r] = None /\ stop[r] = NoStop
  BY DEF IInv, TypeOK, Quiet, QueueInv, JoinInv, NamesUnused, StopPaaw, JoinStop, BeginStop, lifecycle
<1>2. pc'[r] = "stopping" /\ \A c \in Requests : c # r => pc'[c] = pc[c]
  BY DEF IInv, TypeOK
<1>3. \A c \in Requests : Places(resume, c) = 0 /\ Places(waiting, c) \in Nat
  BY <1>1, PlacesEmpty, PlacesZero
<1>4. Places(waiting, r) = 0
  BY <1>1, <1>3 DEF QueueInv, PlacesInv
<1>5. \A i \in 1..Len(waiting) : waiting[i] # r /\ waiting[i] \in Requests
  BY <1>1, <1>4, PlacesZero
<1>6. \/ waiting' = Append(waiting, r) /\ resume' = <<>>
      \/ waiting' = waiting /\ resume' = <<r>>
  BY <1>1 DEF StopPaaw, JoinStop, BeginStop
<1>7. PlacesInv'
  <2> SUFFICES ASSUME NEW c \in Requests
               PROVE  Places(waiting', c) + Places(resume', c) = IF pc'[c] = "stopping" THEN 1 ELSE 0
    BY DEF PlacesInv
  <2>1. Places(waiting, c) = IF pc[c] = "stopping" THEN 1 ELSE 0
    BY <1>1, <1>3 DEF QueueInv, PlacesInv
  <2>2. Places(waiting', c) + Places(resume', c) = Places(waiting, c) + (IF r = c THEN 1 ELSE 0)
    <3>1. CASE waiting' = Append(waiting, r) /\ resume' = <<>>
      BY <1>1, <1>3, <3>1, PlacesAppend, PlacesEmpty
    <3>2. CASE waiting' = waiting /\ resume' = <<r>>
      <4>1. <<>> \in Seq(Requests) /\ <<r>> = Append(<<>>, r)
        OBVIOUS
      <4>2. Places(<<r>>, c) = IF r = c THEN 1 ELSE 0
        <5>1. Places(<<>>, c) = 0
          BY PlacesEmpty
        <5>2. Places(Append(<<>>, r), c) = Places(<<>>, c) + (IF r = c THEN 1 ELSE 0)
          BY <4>1, PlacesAppend
        <5> QED BY <5>1, <5>2, <4>1
      <4> QED BY <1>3, <3>2, <4>2
    <3> QED BY <1>6, <3>1, <3>2
  <2>3. CASE c = r
    BY <2>1, <2>2, <2>3, <1>2
  <2>4. CASE c # r
    BY <2>1, <2>2, <2>4, <1>2
  <2> QED BY <2>3, <2>4
<1>8. CASE stoppingPromise # None /\ JoinStop(r)
  <2>1. /\ stoppingPromise \in Requests /\ stoppingPromise' = stoppingPromise /\ stop' = stop
        /\ joined'[r] = stoppingPromise /\ \A c \in Requests : c # r => joined'[c] = joined[c]
    BY <1>8 DEF JoinStop, IInv, TypeOK
  <2>2. JoinInv' /\ SharedInv'
    BY <2>1, <1>2 DEF QueueInv, JoinInv, SharedInv
  <2>3. CASE stop[stoppingPromise].outcome = "pending"
    <3>1. waiting' = Append(waiting, r) /\ resume' = <<>>
      BY <1>1, <1>8, <2>3 DEF JoinStop
    <3>2. \A i \in 1..Len(waiting) : joined'[waiting[i]] = stoppingPromise
      BY <1>1, <1>5, <2>1 DEF QueueInv, WaitingInv
    <3>3. WaitingInv'
      <4>1. \A i \in 1..Len(waiting') : waiting'[i] = r \/ \E j \in 1..Len(waiting) : waiting'[i] = waiting[j]
        BY <1>1, <3>1
      <4> QED BY <1>8, <2>1, <2>3, <3>2, <4>1 DEF WaitingInv
    <3> QED BY <1>7, <2>2, <3>1, <3>3 DEF QueueInv, BatchInv
  <2>4. CASE stop[stoppingPromise].outcome # "pending"
    <3>1. waiting = <<>> /\ waiting' = <<>> /\ resume' = <<r>>
      BY <1>1, <1>8, <2>4 DEF JoinStop, QueueInv, WaitingInv
    <3>2. stop'[joined'[r]].outcome = "failed"
      BY <2>1, <2>4, <1>8 DEF QueueInv, SharedInv
    <3>3. BatchInv'
      BY <3>1, <3>2, <2>1, <1>8 DEF BatchInv
    <3> QED BY <1>7, <2>2, <3>1, <3>3 DEF QueueInv, WaitingInv
  <2> QED BY <2>3, <2>4
<1>9. CASE stoppingPromise = None /\ BeginStop(r)
  <2>1. /\ stoppingPromise' = r /\ waiting = <<>>
        /\ joined'[r] = r /\ \A c \in Requests : c # r => joined'[c] = joined[c]
    BY <1>9 DEF BeginStop, IInv, TypeOK, QueueInv, WaitingInv
  <2>2. \A s \in Requests : s # r => stop'[s] = stop[s]
    BY <1>9 DEF BeginStop, IInv, TypeOK
  <2>3. \/ stop'[r].outcome = "pending" /\ resume' = <<>> /\ waiting' = <<r>>
        \/ stop'[r].outcome = "failed" /\ resume' = <<r>> /\ waiting' = <<>>
    <3>1. \/ stop' = [stop EXCEPT ![r] = Begun("pending", "grace")] /\ resume' = <<>> /\ waiting' = <<r>>
          \/ stop' = [stop EXCEPT ![r] = Begun("failed", "off")] /\ resume' = <<r>> /\ waiting' = <<>>
      BY <1>1, <1>9, <2>1 DEF BeginStop
    <3> QED BY <3>1 DEF IInv, TypeOK, Begun
  <2>4. JoinInv'
    <3> SUFFICES ASSUME NEW c \in Requests
                 PROVE  /\ pc'[c] = "idle" => joined'[c] = None
                        /\ pc'[c] \in {"idle", "stopping"} => result'[c] = "none"
                        /\ joined'[c] # None => stop'[joined'[c]].outcome # "none"
      BY DEF JoinInv
    <3>1. CASE c = r
      BY <3>1, <1>2, <2>1, <2>3 DEF QueueInv, JoinInv
    <3>2. CASE c # r
      <4>1. joined[c] \in Requests \cup {None} /\ joined'[c] = joined[c] /\ pc'[c] = pc[c]
        BY <3>2, <1>2, <2>1 DEF IInv, TypeOK
      <4>2. joined[c] # r
        BY <1>1, NoneAssumption DEF QueueInv, JoinInv, NoStop
      <4> QED BY <4>1, <4>2, <2>2 DEF QueueInv, JoinInv
    <3> QED BY <3>1, <3>2
  <2>5. SharedInv'
    BY <2>1, <2>3 DEF SharedInv
  <2>6. WaitingInv' /\ BatchInv'
    BY <2>1, <2>3, NoneAssumption DEF WaitingInv, BatchInv
  <2> QED BY <1>7, <2>4, <2>5, <2>6 DEF QueueInv
<1> QED BY <1>8, <1>9 DEF StopPaaw

\* The first of the batch goes on: a child it starts is one of the batch.
LEMMA ResumeQueues ==
  ASSUME IInv, QueueInv, NEW r \in Requests, Resume(r) PROVE QueueInv'
<1>1. /\ admin = "up" /\ pc[r] = "stopping" /\ resume # <<>> /\ r = Head(resume)
      /\ resume' = Tail(resume) /\ UNCHANGED <<stop, stoppingPromise, waiting, joined, killErrored>>
  BY DEF Resume, stopping
<1>2. resume \in Seq(Requests) /\ waiting \in Seq(Requests) /\ os[r] = "none"
  BY <1>1 DEF IInv, TypeOK, NamesUnused
<1>3. /\ \A c \in Requests : c # r => /\ pc'[c] = pc[c] /\ result'[c] = result[c]
                                      /\ os'[c] = os[c]
      /\ \/ pc'[r] \in {"done", "verifying"}
         \/ admin' = "crashed" /\ UNCHANGED <<pc, result>>
  <2>1. CASE Proceed(r, op[r])
    <3>1. op[r] \in Ops
      BY <2>1 DEF Proceed, IInv, TypeOK, Ops
    <3> QED BY <1>1, <1>2, <2>1, <3>1, ProceedFrame, ProceedKeeps DEF IInv
  <2>2. CASE Reply(r, "stopFailed") /\ UNCHANGED <<admin, lifecycle>>
    BY <2>2 DEF Reply, lifecycle, IInv, TypeOK
  <2> QED BY <2>1, <2>2 DEF Resume
<1>4. JoinInv'
  BY <1>1, <1>3 DEF QueueInv, JoinInv
<1>5. SharedInv' /\ WaitingInv'
  BY <1>1 DEF QueueInv, SharedInv, WaitingInv
<1>6. BatchInv'
  <2> SUFFICES ASSUME NEW i \in 1..Len(resume')
               PROVE  /\ joined[resume'[i]] # None
                      /\ \A j \in 1..Len(resume') : joined[resume'[j]] = joined[resume'[i]]
                      /\ stop[joined[resume'[i]]].outcome = "ok" /\ ~killErrored =>
                           \A c \in Requests : os'[c] \in {"unborn", "alive"} => joined[c] = joined[resume'[i]]
    BY <1>1 DEF BatchInv
  <2>1. \A j \in 1..Len(resume') : j + 1 \in 1..Len(resume) /\ resume'[j] = resume[j + 1]
    BY <1>1, <1>2
  <2>2. 1 \in 1..Len(resume) /\ resume[1] = r
    BY <1>1, <1>2
  <2>3. joined[r] = joined[resume'[i]]
    BY <2>1, <2>2 DEF QueueInv, BatchInv
  <2> QED BY <2>1, <2>3, <1>3 DEF QueueInv, BatchInv
<1>7. PlacesInv'
  <2> SUFFICES ASSUME admin' = "up", NEW c \in Requests
               PROVE  Places(waiting, c) + Places(resume', c) = IF pc'[c] = "stopping" THEN 1 ELSE 0
    BY <1>1 DEF PlacesInv
  <2>1. Places(resume, c) = Places(resume', c) + (IF r = c THEN 1 ELSE 0)
    BY <1>1, <1>2, PlacesTail
  <2>2. Places(waiting, c) + Places(resume, c) = IF pc[c] = "stopping" THEN 1 ELSE 0
    BY <1>1 DEF QueueInv, PlacesInv
  <2>3. Places(waiting, c) \in Nat /\ Places(resume', c) \in Nat
    <3>1. resume' \in Seq(Requests)
      BY <1>1, <1>2
    <3> QED BY <3>1, <1>2, PlacesZero
  <2>4. CASE c = r
    BY <2>1, <2>2, <2>3, <2>4, <1>1, <1>3
  <2>5. CASE c # r
    BY <2>1, <2>2, <2>3, <2>5, <1>3
  <2> QED BY <2>4, <2>5
<1> QED BY <1>4, <1>5, <1>6, <1>7 DEF QueueInv

\* A request taken up with no stop in its way.
LEMMA StartQueues ==
  ASSUME IInv, QueueInv, Quiet, NEW r \in Requests, NEW o \in Ops, pc[r] = "idle",
         Proceed(r, o), UNCHANGED <<stopping, joined, resume>>
  PROVE  QueueInv'
<1>1. UNCHANGED <<stop, stoppingPromise, waiting>> /\ resume = <<>> /\ admin = "up"
  BY DEF stopping, Quiet
<1>2. /\ \A c \in Requests : c # r => pc'[c] = pc[c] /\ result'[c] = result[c]
      /\ \/ pc'[r] \in {"done", "verifying"}
         \/ admin' = "crashed" /\ UNCHANGED <<pc, result>>
  BY ProceedFrame DEF IInv
<1>3. JoinInv'
  BY <1>1, <1>2 DEF QueueInv, JoinInv
<1>4. SharedInv' /\ WaitingInv' /\ BatchInv'
  BY <1>1 DEF QueueInv, SharedInv, WaitingInv, BatchInv
<1>5. PlacesInv'
  BY <1>1, <1>2 DEF QueueInv, PlacesInv
<1> QED BY <1>3, <1>4, <1>5 DEF QueueInv

\* Every step keeps the queues.
LEMMA QueueStep == IInv /\ QueueInv /\ [Next]_vars => QueueInv'
<1> SUFFICES ASSUME IInv, QueueInv, [Next]_vars PROVE QueueInv'
  OBVIOUS
<1>1. CASE UNCHANGED vars
  BY <1>1, QueuesUntouched DEF vars, lifecycle, stopping, requests
<1>2. ASSUME NEW r \in Requests, NEW o \in Ops, Handle(r, o) PROVE QueueInv'
  BY <1>2, StartQueues, StopQueues DEF Handle
<1>3. ASSUME NEW r \in Requests, Resume(r) PROVE QueueInv'
  BY <1>3, ResumeQueues
<1>4. ASSUME NEW c \in Requests, Die(c) \/ SpawnError(c) PROVE QueueInv'
  <2>1. /\ UNCHANGED <<admin, joined, waiting, resume, stoppingPromise, stop, pc, result,
                        killErrored>>
        /\ \A d \in Requests : os'[d] \in {"unborn", "alive"} => os[d] \in {"unborn", "alive"}
    BY <1>4 DEF Die, SpawnError, stopping, requests, IInv, TypeOK
  <2> QED BY <2>1, QueuesUntouched
<1>5. ASSUME NEW c \in Requests, ExitEvent(c) PROVE QueueInv'
  <2>1. /\ UNCHANGED <<admin, joined, pc, result, killErrored>> /\ resume = <<>>
        /\ os[c] = "dead" /\ os' = [os EXCEPT ![c] = "reaped"]
    BY <1>5 DEF ExitEvent, Quiet, requests
  <2>2. /\ ~killErrored' => \A d \in Requests : os'[d] \notin {"unborn", "alive"}
        /\ \A d \in Requests : os'[d] \in {"unborn", "alive"} => os[d] \in {"unborn", "alive"}
    BY <2>1 DEF IInv, TypeOK, LifeInv, HandleOwnsServer, MayLive
  <2>3. CASE UNCHANGED <<stopping, resume>>
    BY <2>1, <2>2, <2>3, QueuesUntouched DEF stopping
  <2>4. ASSUME NEW s \in Listeners(c), Finish(s, TRUE) PROVE QueueInv'
    BY <2>1, <2>2, <2>4, SettleQueues DEF Listeners, Finish
  <2> QED BY <1>5, <2>3, <2>4 DEF ExitEvent
<1>6. ASSUME NEW s \in Requests, Finish(s, FALSE), stop[s].timer # "off", Quiet,
             UNCHANGED <<admin, requests, joined>>
      PROVE  QueueInv'
  <2>1. stop[s].outcome = "pending"
    BY <1>6 DEF IInv, StopInv, StopsWellFormed
  <2> QED BY <1>6, <2>1, SettleQueues DEF Finish, Quiet, requests
<1>7. ASSUME NEW s \in Requests, SigkillTimer(s) PROVE QueueInv'
  <2>1. CASE Finish(s, FALSE)
    BY <1>6, <1>7, <2>1 DEF SigkillTimer
  <2>2. CASE /\ stop' = [stop EXCEPT ![s].timer = "last"]
             /\ UNCHANGED <<stoppingPromise, waiting, resume>>
             /\ killErrored' \in {killErrored, TRUE}
    <3>1. \A q \in Requests : stop'[q].outcome = stop[q].outcome
      BY <2>2 DEF IInv, TypeOK, StopRecords
    <3>2. killErrored => killErrored'
      BY <2>2
    <3>3. UNCHANGED <<admin, joined, os, pc, result>>
      BY <1>7 DEF SigkillTimer, requests
    <3> QED BY <2>2, <3>1, <3>2, <3>3, QueuesUntouched
  <2> QED BY <1>7, <2>1, <2>2 DEF SigkillTimer
<1>8. ASSUME NEW s \in Requests, FailsafeTimer(s) PROVE QueueInv'
  BY <1>6, <1>8 DEF FailsafeTimer
<1>9. ASSUME NEW r \in Requests, VerifyUpgrade(r) \/ HealthAnswer(r) PROVE QueueInv'
  <2>1. UNCHANGED <<admin, joined, waiting, resume, stoppingPromise, stop, os, killErrored>>
    BY <1>9 DEF VerifyUpgrade, HealthAnswer, lifecycle, stopping
  <2>2. \A c \in Requests : \/ pc'[c] = pc[c] /\ result'[c] = result[c]
                           \/ {pc[c], pc'[c]} \subseteq {"verifying", "probing", "done"}
    BY <1>9 DEF VerifyUpgrade, HealthAnswer, Reply, IInv, TypeOK
  <2> QED BY <2>1, <2>2, QueuesUntouched
<1> QED BY <1>1, <1>2, <1>3, <1>4, <1>5, <1>7, <1>8, <1>9 DEF Next, Task

\* The queues are in order in every state.
THEOREM QueueInvariance == Spec => [](IInv /\ QueueInv)
<1>1. Init => QueueInv
  <2>1. \A r \in Requests : Places(<<>>, r) = 0
    BY PlacesEmpty
  <2> QED BY <2>1 DEF Init, QueueInv, JoinInv, SharedInv, WaitingInv, BatchInv, PlacesInv
<1>2. IInv /\ QueueInv /\ [Next]_vars => QueueInv'
  BY QueueStep
<1> QED BY <1>1, <1>2, Invariance, PTL DEF Spec

\* No request that awaits a stop is lost or resumed twice.
THEOREM NoWaiterLost == Spec => []WaitersAccountedFor
<1>1. IInv /\ QueueInv => WaitersAccountedFor
  BY DEF WaitersAccountedFor, QueueInv, PlacesInv, WaitingInv, IInv, TypeOK, StopInv,
         StopsWellFormed
<1> QED BY <1>1, QueueInvariance, PTL

-----------------------------------------------------------------------------
(* What a restore and an upgrade may do                                    *)

\* Which steps unpack an archive or work on the tree: those that go on with it.
LEMMA WorkSteps ==
  ASSUME IInv, QueueInv, [Next]_vars, NEW r \in Requests, RestoreWorks(r) \/ UpgradeWorks(r)
  PROVE  /\ (Quiet /\ paawProcess = None) \/ Resume(r)
         /\ RestoreWorks(r) => paawProcess = None
<1>1. TypeOK
  BY DEF IInv
<1>2. pc[r] \in {"idle", "stopping"} => result[r] = "none"
  BY DEF QueueInv, JoinInv
<1>3. CASE /\ pc'[r] = pc[r] /\ result'[r] = result[r]
  BY <1>2, <1>3 DEF RestoreWorks, UpgradeWorks
<1>4. ASSUME NEW o \in Ops, Proceed(r, o), op'[r] = o
      PROVE  RestoreWorks(r) => paawProcess = None
  <2> SUFFICES ASSUME RestoreWorks(r), paawProcess # None PROVE FALSE
    OBVIOUS
  <2>1. o = "restore" /\ result'[r] = "ok"
    BY <1>4 DEF RestoreWorks
  <2>2. Reply(r, "notRestored")
    BY <1>4, <2>1 DEF Proceed, RestoreBackup
  <2> QED BY <1>1, <2>1, <2>2 DEF Reply, TypeOK
<1>5. ASSUME NEW q \in Requests, NEW o \in Ops, Handle(q, o)
      PROVE  /\ Quiet /\ paawProcess = None
             /\ RestoreWorks(r) => paawProcess = None
  <2>1. CASE q # r
    <3>1. pc'[r] = pc[r] /\ result'[r] = result[r]
      <4>1. CASE Proceed(q, o)
        BY <1>1, <2>1, <4>1, ProceedFrame
      <4>2. CASE pc' = [pc EXCEPT ![q] = "stopping"] /\ UNCHANGED result
        BY <2>1, <4>2
      <4> QED BY <1>5, <4>1, <4>2 DEF Handle
    <3> QED BY <3>1, <1>2 DEF RestoreWorks, UpgradeWorks
  <2>2. CASE q = r
    <3>1. op'[r] = o /\ Quiet /\ pc[r] = "idle"
      BY <1>1, <1>5, <2>2 DEF Handle, TypeOK
    <3>2. CASE pc' = [pc EXCEPT ![r] = "stopping"] /\ UNCHANGED result
      BY <1>1, <1>2, <3>1, <3>2 DEF RestoreWorks, UpgradeWorks
    <3>3. CASE Proceed(r, o) /\ (o = "start" \/ paawProcess = None)
      BY <1>4, <3>1, <3>3 DEF RestoreWorks, UpgradeWorks
    <3> QED BY <1>5, <2>2, <3>1, <3>2, <3>3 DEF Handle
  <2> QED BY <2>1, <2>2
<1>6. ASSUME NEW q \in Requests, Resume(q)
      PROVE  Resume(r) /\ (RestoreWorks(r) => paawProcess = None)
  <2>1. CASE Proceed(q, op[q])
    <3>1. op[q] \in Ops /\ op' = op
      BY <1>1, <1>6, <2>1 DEF Proceed, TypeOK, Ops, Resume
    <3>2. CASE q # r
      <4>1. pc'[r] = pc[r] /\ result'[r] = result[r]
        BY <1>1, <2>1, <3>1, <3>2, ProceedFrame
      <4> QED BY <4>1, <1>2 DEF RestoreWorks, UpgradeWorks
    <3>3. CASE q = r
      BY <1>4, <1>6, <2>1, <3>1, <3>3
    <3> QED BY <3>2, <3>3
  <2>2. CASE Reply(q, "stopFailed")
    BY <1>1, <1>2, <2>2 DEF Reply, RestoreWorks, UpgradeWorks
  <2> QED BY <1>6, <2>1, <2>2 DEF Resume
<1>7. ASSUME NEW q \in Requests,
             Die(q) \/ SpawnError(q) \/ ExitEvent(q) \/ SigkillTimer(q) \/ FailsafeTimer(q)
      PROVE  FALSE
  BY <1>2, <1>7 DEF Die, SpawnError, ExitEvent, SigkillTimer, FailsafeTimer, requests, RestoreWorks,
                    UpgradeWorks
<1>8. ASSUME NEW q \in Requests, VerifyUpgrade(q) \/ HealthAnswer(q) PROVE FALSE
  <2>1. CASE q = r
    <3>1. pc[r] \in {"verifying", "probing"} /\ result'[r] \in {result[r], "upgraded"}
      BY <1>1, <1>8, <2>1 DEF VerifyUpgrade, HealthAnswer, Reply, TypeOK
    <3> QED BY <3>1 DEF RestoreWorks, UpgradeWorks
  <2>2. CASE q # r
    <3>1. pc'[r] = pc[r] /\ result'[r] = result[r]
      BY <1>1, <1>8, <2>2 DEF VerifyUpgrade, HealthAnswer, Reply, TypeOK
    <3> QED BY <3>1, <1>2 DEF RestoreWorks, UpgradeWorks
  <2> QED BY <2>1, <2>2
<1>9. CASE UNCHANGED vars
  BY <1>3, <1>9 DEF vars, requests
<1> QED BY <1>5, <1>6, <1>7, <1>8, <1>9 DEF Next, Task

\* No child is alive while no process is held, before a kill emits 'error'.
LEMMA NoHandleNoServer == IInv /\ paawProcess = None => NoServerAlive \/ killErrored
BY NoneAssumption DEF IInv, LifeInv, HandleOwnsServer, MayLive, NoServerAlive

\* An archive is unpacked only while no server is alive, however requests share
\* stops, before a kill emits 'error'.
THEOREM RestoreNeverOverServer == Spec => RestoreOnlyWhileDown
<1>1. IInv /\ QueueInv /\ [Next]_vars =>
        \A r \in Requests : RestoreWorks(r) => NoServerAlive \/ killErrored
  BY WorkSteps, NoHandleNoServer
<1>2. IInv /\ QueueInv /\ [Next]_vars =>
        [\A r \in Requests : RestoreWorks(r) => NoServerAlive \/ killErrored]_vars
  BY <1>1
<1> QED BY <1>2, QueueInvariance, PTL DEF Spec, RestoreOnlyWhileDown

\* A server that is alive when an upgrade works on the tree is one that a
\* request of the upgrade's own stop has started, before a kill emits 'error'.
THEOREM UpgradeSharesOnly == Spec => UpgradeOverlapsOnlyItsBatch
<1>1. ASSUME IInv, QueueInv, [Next]_vars, NEW r \in Requests, NEW c \in Requests,
             UpgradeWorks(r), os[c] = "alive", ~killErrored
      PROVE  SharesStop(c, r)
  <2>1. Resume(r)
    BY <1>1, WorkSteps, NoHandleNoServer DEF NoServerAlive
  <2>2. /\ resume # <<>> /\ resume \in Seq(Requests) /\ r = Head(resume)
        /\ TypeOK /\ result[r] = "none"
    BY <1>1, <2>1 DEF Resume, IInv, TypeOK, QueueInv, JoinInv
  <2>3. 1 \in 1..Len(resume) /\ resume[1] = r
    BY <2>2
  <2>4. stop[joined[r]].outcome = "ok"
    <3>1. ~Reply(r, "stopFailed")
      BY <1>1, <2>2 DEF Reply, UpgradeWorks, TypeOK
    <3> QED BY <2>1, <3>1 DEF Resume
  <2> QED BY <1>1, <2>3, <2>4 DEF QueueInv, BatchInv, SharesStop
<1>2. IInv /\ QueueInv /\ [Next]_vars =>
        [\A r, c \in Requests :
           UpgradeWorks(r) /\ os[c] = "alive" => SharesStop(c, r) \/ killErrored]_vars
  BY <1>1
<1> QED BY <1>2, QueueInvariance, PTL DEF Spec, UpgradeOverlapsOnlyItsBatch

-----------------------------------------------------------------------------
(* The contract                                                            *)

Server == IF killErrored THEN "lost" ELSE IF NoServerAlive THEN "down" ELSE "up"
Answer == [r \in Requests |-> Told(joined[r])]

\* The steps of the contract, in terms of the implementation's state.
LEMMA ContractSteps ==
  /\ Server' = Server /\ Answer' = Answer => UNCHANGED Contract!vars
  /\ Server = "down" /\ Server' = "up" /\ Answer' = Answer => Contract!Next
  /\ Server = "up" /\ Server' = "down" /\ Answer' = Answer => Contract!Next
  /\ Server = "up" /\ Server' = "lost" /\ Answer' = Answer => Contract!Next
  /\ \A R \in SUBSET Requests :
       /\ /\ \A r \in R : Answer[r] \in {"none", "asked"}
          /\ Answer' = [r \in Requests |-> IF r \in R THEN "failed" ELSE Answer[r]]
          /\ Server' = Server
          => Contract!Next
       /\ /\ \A r \in R : Answer[r] = "asked"
          /\ Answer' = [r \in Requests |-> IF r \in R THEN "stopped" ELSE Answer[r]]
          /\ Server # "up" /\ Server' = Server
          => Contract!Next
  /\ \A r \in Requests :
       /\ Answer[r] = "none"
       /\ Answer' = [Answer EXCEPT ![r] = "asked"]
       /\ Server' = Server \/ (Server = "up" /\ Server' = "lost")
       => Contract!Next
<1>1. Server' = Server /\ Answer' = Answer => UNCHANGED Contract!vars
  BY DEF Server, Answer, Contract!vars
<1>2. Server = "down" /\ Server' = "up" /\ Answer' = Answer => Contract!Next
  BY DEF Server, Answer, Contract!Next, Contract!Boot
<1>3. Server = "up" /\ Server' = "down" /\ Answer' = Answer => Contract!Next
  BY DEF Server, Answer, Contract!Next, Contract!Die
<1>4. ASSUME NEW R \in SUBSET Requests, \A r \in R : Answer[r] \in {"none", "asked"},
             Answer' = [r \in Requests |-> IF r \in R THEN "failed" ELSE Answer[r]],
             Server' = Server
      PROVE  Contract!Next
  <2>1. R \in SUBSET {r \in Requests : Answer[r] \in {"none", "asked"}}
    BY <1>4
  <2> QED BY <1>4, <2>1 DEF Server, Answer, Contract!Next, Contract!Deny, Contract!Tell
<1>5. ASSUME NEW R \in SUBSET Requests, \A r \in R : Answer[r] = "asked",
             Answer' = [r \in Requests |-> IF r \in R THEN "stopped" ELSE Answer[r]],
             Server # "up", Server' = Server
      PROVE  Contract!Next
  <2>1. R \in SUBSET {r \in Requests : Answer[r] = "asked"}
    BY <1>5
  <2> QED BY <1>5, <2>1 DEF Server, Answer, Contract!Next, Contract!Confirm, Contract!Tell
<1>6. ASSUME NEW r \in Requests, Answer[r] = "none", Answer' = [Answer EXCEPT ![r] = "asked"],
             Server' = Server \/ (Server = "up" /\ Server' = "lost")
      PROVE  Contract!Next
  BY <1>6 DEF Server, Answer, Contract!Next, Contract!Ask, Contract!Lost
<1>7. Server = "up" /\ Server' = "lost" /\ Answer' = Answer => Contract!Next
  BY DEF Server, Answer, Contract!Next, Contract!Lose, Contract!Lost
<1> QED BY <1>1, <1>2, <1>3, <1>4, <1>5, <1>6, <1>7

\* What the callers have been told stays, as long as no stop's outcome changes.
LEMMA SameAnswer ==
  ASSUME IInv, joined' = joined, \A s \in Requests : stop'[s].outcome = stop[s].outcome
  PROVE  Answer' = Answer
BY DEF IInv, TypeOK, Answer, Told

\* startPaaw boots a server only where there is none.
LEMMA ProceedBoots ==
  ASSUME IInv, NEW r \in Requests, NEW o \in Ops, Proceed(r, o), pc[r] \in {"idle", "stopping"},
         UNCHANGED killErrored
  PROVE  Server' = Server \/ (Server = "down" /\ Server' = "up")
<1>1. os[r] = "none"
  BY DEF IInv, NamesUnused
<1>2. LifeInv' /\ \A c \in Requests : c # r => os'[c] = os[c]
  BY <1>1, ProceedKeeps
<1>3. NoServerAlive' => NoServerAlive
  BY <1>1, <1>2 DEF NoServerAlive
<1> QED BY <1>3 DEF Server

\* A stop settles: everyone who shares it is told in one step.
LEMMA SettleTells ==
  ASSUME IInv, NEW s \in Requests, NEW ok \in BOOLEAN, stop[s].outcome = "pending", Settle(s, ok),
         joined' = joined, Server' = Server, ok => Server # "up"
  PROVE  Contract!Next
<1> DEFINE R == {r \in Requests : joined[r] = s}
           word == IF ok THEN "stopped" ELSE "failed"
<1>1. \A q \in Requests : q # s => stop'[q] = stop[q]
  BY DEF IInv, TypeOK, Settle
<1>2. stop'[s].outcome = IF ok THEN "ok" ELSE "failed"
  BY DEF IInv, TypeOK, Settle, Settled, StopRecords
<1>3. \A r \in Requests : joined[r] \in Requests \cup {None}
  BY DEF IInv, TypeOK
<1>4. \A r \in R : Answer[r] = "asked"
  BY NoneAssumption DEF Answer, Told
<1>5. Answer' = [r \in Requests |-> IF r \in R THEN word ELSE Answer[r]]
  <2>1. \A r \in Requests : Told(joined[r])' = IF r \in R THEN word ELSE Answer[r]
    <3> SUFFICES ASSUME NEW r \in Requests
                 PROVE  Told(joined[r])' = IF r \in R THEN word ELSE Answer[r]
      OBVIOUS
    <3>1. CASE joined[r] = s
      BY <3>1, <1>2, NoneAssumption DEF Told
    <3>2. CASE joined[r] # s
      BY <3>2, <1>1, <1>3 DEF Told, Answer
    <3> QED BY <3>1, <3>2
  <2> QED BY <2>1 DEF Answer
<1>6. R \in SUBSET Requests
  OBVIOUS
<1> HIDE DEF R
<1>7. CASE ok = TRUE
  BY <1>4, <1>5, <1>6, <1>7, ContractSteps
<1>8. CASE ok = FALSE
  BY <1>4, <1>5, <1>6, <1>8, ContractSteps
<1> QED BY <1>7, <1>8

\* A request that joins or begins a stop asks, or learns at once that it failed.
LEMMA StopAsks ==
  ASSUME IInv, QueueInv, NEW r \in Requests, pc[r] = "idle", paawProcess # None, StopPaaw(r)
  PROVE  Contract!Next
<1>1. joined[r] = None /\ stop[r] = NoStop /\ Answer[r] = "none"
  BY DEF IInv, NamesUnused, QueueInv, JoinInv, Answer, Told
<1>2. os' = os
  BY DEF StopPaaw, JoinStop, BeginStop, lifecycle
<1>3. Server' = Server \/ (Server = "up" /\ Server' = "lost" /\ stop'[joined'[r]].outcome = "pending")
  <2>1. CASE killErrored' = killErrored
    BY <1>2, <2>1 DEF Server, NoServerAlive
  <2>2. CASE killErrored' # killErrored
    <3>1. /\ killErrored' = TRUE /\ stop' = [stop EXCEPT ![r] = Begun("pending", "grace")]
          /\ joined' = [joined EXCEPT ![r] = r]
          /\ paawProcess \in Requests /\ os[paawProcess] = "alive"
      BY <2>2 DEF StopPaaw, JoinStop, BeginStop, IInv, TypeOK
    <3>2. killErrored = FALSE /\ ~NoServerAlive
      BY <2>2, <3>1 DEF NoServerAlive, IInv, TypeOK
    <3> QED BY <3>1, <3>2 DEF IInv, TypeOK, Begun, Server
  <2> QED BY <2>1, <2>2
<1>4. \A c \in Requests : c # r => joined'[c] = joined[c] /\ joined[c] \in Requests \cup {None}
  BY DEF IInv, TypeOK, StopPaaw, JoinStop, BeginStop
<1>5. /\ joined'[r] \in Requests
      /\ stop'[joined'[r]].outcome \in {"pending", "failed"}
      /\ \A c \in Requests : c # r /\ joined[c] # None => stop'[joined[c]].outcome = stop[joined[c]].outcome
  <2>1. CASE stoppingPromise # None /\ JoinStop(r)
    BY <2>1 DEF JoinStop, IInv, TypeOK, QueueInv, SharedInv
  <2>2. CASE BeginStop(r)
    <3>1. PICK b \in {Begun("pending", "grace"), Begun("failed", "off")} : stop' = [stop EXCEPT ![r] = b]
      BY <2>2 DEF BeginStop
    <3>2. stop'[r] = b /\ \A s \in Requests : s # r => stop'[s] = stop[s]
      BY <3>1 DEF IInv, TypeOK
    <3>3. stop'[r].outcome \in {"pending", "failed"} /\ joined'[r] = r
      BY <2>2, <3>1, <3>2 DEF BeginStop, Begun, IInv, TypeOK
    <3>4. \A c \in Requests : joined[c] # r
      BY <1>1, NoneAssumption DEF QueueInv, JoinInv, NoStop
    <3> QED BY <1>4, <3>2, <3>3, <3>4
  <2> QED BY <2>1, <2>2 DEF StopPaaw
<1>6. \A c \in Requests : c # r => Told(joined[c])' = Answer[c]
  BY <1>4, <1>5 DEF Told, Answer
<1>7. Told(joined[r])' = IF stop'[joined'[r]].outcome = "failed" THEN "failed" ELSE "asked"
  BY <1>5, NoneAssumption DEF Told
<1>8. CASE stop'[joined'[r]].outcome = "failed"
  <2>1. Answer' = [c \in Requests |-> IF c \in {r} THEN "failed" ELSE Answer[c]]
    BY <1>6, <1>7, <1>8 DEF Answer
  <2>2. {r} \in SUBSET Requests /\ \A c \in {r} : Answer[c] \in {"none", "asked"}
    BY <1>1
  <2>3. Server' = Server
    BY <1>3, <1>8
  <2> QED BY <2>1, <2>2, <2>3, ContractSteps
<1>9. CASE stop'[joined'[r]].outcome # "failed"
  <2>1. Answer' = [Answer EXCEPT ![r] = "asked"]
    BY <1>6, <1>7, <1>9 DEF Answer
  <2> QED BY <2>1, <1>1, <1>3, ContractSteps
<1> QED BY <1>8, <1>9

\* Every step of the process manager is one of the contract or changes nothing of it.
LEMMA StepRefines ==
  IInv /\ QueueInv /\ [Next]_vars => [Contract!Next]_(Contract!vars)
<1> SUFFICES ASSUME IInv, QueueInv, [Next]_vars, ~Contract!Next
             PROVE  UNCHANGED Contract!vars
  OBVIOUS
<1>1. CASE UNCHANGED vars
  <2>1. Server' = Server /\ Answer' = Answer
    BY <1>1, SameAnswer DEF vars, lifecycle, stopping, Server, NoServerAlive
  <2> QED BY <2>1, ContractSteps
<1>2. ASSUME NEW r \in Requests, NEW o \in Ops, Proceed(r, o), pc[r] \in {"idle", "stopping"},
             UNCHANGED <<stopping, joined, killErrored>>
      PROVE  UNCHANGED Contract!vars
  <2>1. Answer' = Answer
    BY <1>2, SameAnswer DEF stopping
  <2> QED BY <1>2, <2>1, ProceedBoots, ContractSteps
<1>3. ASSUME NEW r \in Requests, NEW o \in Ops, Handle(r, o) PROVE UNCHANGED Contract!vars
  BY <1>2, <1>3, StopAsks DEF Handle
<1>4. ASSUME NEW r \in Requests, Resume(r) PROVE UNCHANGED Contract!vars
  <2>1. CASE Proceed(r, op[r])
    <3>1. op[r] \in Ops
      BY <2>1 DEF Proceed, IInv, TypeOK, Ops
    <3> QED BY <1>2, <1>4, <2>1, <3>1 DEF Resume
  <2>2. CASE UNCHANGED lifecycle
    <3>1. Server' = Server /\ Answer' = Answer
      BY <1>4, <2>2, SameAnswer DEF Resume, lifecycle, stopping, Server, NoServerAlive
    <3> QED BY <3>1, ContractSteps
  <2> QED BY <1>4, <2>1, <2>2 DEF Resume
<1>5. ASSUME NEW c \in Requests, Die(c) PROVE UNCHANGED Contract!vars
  <2>1. Answer' = Answer
    BY <1>5, SameAnswer DEF Die, stopping
  <2>2. ~NoServerAlive
    BY <1>5 DEF Die, NoServerAlive
  <2>3. Server' = Server \/ (Server = "up" /\ Server' = "down")
    BY <1>5, <2>2 DEF Server, Die
  <2> QED BY <2>1, <2>3, ContractSteps
<1>6. ASSUME NEW c \in Requests, SpawnError(c) PROVE UNCHANGED Contract!vars
  <2>1. Answer' = Answer
    BY <1>6, SameAnswer DEF SpawnError, stopping
  <2>2. NoServerAlive' = NoServerAlive
    BY <1>6 DEF SpawnError, NoServerAlive, IInv, TypeOK
  <2>3. Server' = Server
    BY <1>6, <2>2 DEF Server, SpawnError
  <2> QED BY <2>1, <2>3, ContractSteps
<1>7. ASSUME NEW c \in Requests, ExitEvent(c) PROVE UNCHANGED Contract!vars
  <2>1. /\ os[c] = "dead" /\ os' = [os EXCEPT ![c] = "reaped"]
        /\ joined' = joined /\ killErrored' = killErrored
    BY <1>7 DEF ExitEvent
  <2>2. NoServerAlive' = NoServerAlive /\ (NoServerAlive \/ killErrored)
    BY <2>1 DEF NoServerAlive, IInv, TypeOK, LifeInv, HandleOwnsServer, MayLive
  <2>3. Server # "up" /\ Server' = Server
    BY <2>1, <2>2 DEF Server
  <2>4. CASE UNCHANGED stopping
    <3>1. Answer' = Answer
      BY <2>1, <2>4, SameAnswer DEF stopping
    <3> QED BY <2>3, <3>1, ContractSteps
  <2>5. ASSUME NEW s \in Listeners(c), Finish(s, TRUE) PROVE UNCHANGED Contract!vars
    BY <2>1, <2>3, <2>5, SettleTells DEF Listeners, Finish
  <2> QED BY <1>7, <2>4, <2>5 DEF ExitEvent
<1>8. ASSUME NEW s \in Requests, Finish(s, FALSE), stop[s].timer # "off",
             UNCHANGED <<os, joined, killErrored>>
      PROVE  UNCHANGED Contract!vars
  <2>1. stop[s].outcome = "pending"
    BY <1>8 DEF IInv, StopInv, StopsWellFormed
  <2>2. Server' = Server
    BY <1>8 DEF Server, NoServerAlive
  <2> QED BY <1>8, <2>1, <2>2, SettleTells DEF Finish
<1>9. ASSUME NEW s \in Requests, SigkillTimer(s) PROVE UNCHANGED Contract!vars
  <2>1. CASE Finish(s, FALSE) /\ UNCHANGED killErrored
    BY <1>8, <1>9, <2>1 DEF SigkillTimer
  <2>2. CASE /\ stop' = [stop EXCEPT ![s].timer = "last"]
             /\ killErrored' = killErrored \/ (killErrored' = TRUE /\ os[stop[s].proc] = "alive")
    <3>1. \A q \in Requests : stop'[q].outcome = stop[q].outcome
      BY <2>2 DEF IInv, TypeOK, StopRecords
    <3>2. Answer' = Answer
      BY <1>9, <3>1, SameAnswer DEF SigkillTimer
    <3>3. os' = os
      BY <1>9 DEF SigkillTimer
    <3>4. Server' = Server \/ (Server = "up" /\ Server' = "lost")
      <4>1. CASE killErrored' = TRUE /\ os[stop[s].proc] = "alive"
        <5>1. stop[s].proc \in Requests
          BY <1>9 DEF SigkillTimer, IInv, StopInv, StopsWellFormed
        <5> QED BY <4>1, <5>1 DEF Server, NoServerAlive
      <4>2. CASE killErrored' = killErrored
        BY <3>3, <4>2 DEF Server, NoServerAlive
      <4> QED BY <2>2, <4>1, <4>2
    <3> QED BY <3>2, <3>4, ContractSteps
  <2> QED BY <1>9, <2>1, <2>2 DEF SigkillTimer
<1>10. ASSUME NEW s \in Requests, FailsafeTimer(s) PROVE UNCHANGED Contract!vars
  BY <1>8, <1>10 DEF FailsafeTimer
<1>11. ASSUME NEW r \in Requests, VerifyUpgrade(r) \/ HealthAnswer(r) PROVE UNCHANGED Contract!vars
  <2>1. Server' = Server /\ Answer' = Answer
    BY <1>11, SameAnswer DEF VerifyUpgrade, HealthAnswer, lifecycle, stopping, Server, NoServerAlive
  <2> QED BY <2>1, ContractSteps
<1> QED BY <1>1, <1>3, <1>4, <1>5, <1>6, <1>7, <1>9, <1>10, <1>11 DEF Next, Task

\* The process manager keeps what ServerContract promises, for any number of
\* requests that start, stop, restart, upgrade and restore at once.
THEOREM ContractKept == Spec => ImplementsContract
<1>1. Init => Contract!Init
  BY DEF Init, Contract!Init, NoServerAlive, Told
<1>2. IInv /\ QueueInv /\ [Next]_vars => [Contract!Next]_(Contract!vars)
  BY StepRefines
<1> QED BY <1>1, <1>2, QueueInvariance, PTL DEF Spec, ImplementsContract, Contract!Spec
=============================================================================
