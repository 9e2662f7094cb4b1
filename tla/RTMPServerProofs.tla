-------------------------- MODULE RTMPServerProofs --------------------------
(***************************************************************************)
(* Proofs about RTMPServer, for every set of workers and descriptors.      *)
(*                                                                         *)
(* OneOwner is not inductive by itself: what makes front() and pop() name  *)
(* the same entry is that the mutex is held from one to the other.         *)
(* MutexInv says who holds the mutex, PopInv that the entry a worker read  *)
(* is still at the head of the queue when it pops.                         *)
(***************************************************************************)
EXTENDS RTMPServer, FiniteSetTheorems, SequenceTheorems, TLAPS

MutexInv ==
    /\ mutex = Main <=> mpc = "push"
    /\ \A w \in Workers : mutex = w <=> wpc[w] \in {"wait", "check", "pop"}

PopInv ==
    \A w \in Workers :
        wpc[w] = "pop" => queue # <<>> /\ wfd[w] = Head(queue)

-----------------------------------------------------------------------------
(* Type correctness.                                                       *)

LEMMA TypeStep == ASSUME TypeOK, PopInv, [Next]_vars PROVE TypeOK'
<1> USE ServerAssumption DEF TypeOK, mainVars, workerVars
<1>1. CASE StartUp
  BY <1>1 DEF StartUp, SocketFails, BindFails, ListenFails, Listen, CreateThread, NewQueue,
              FreeFDs, MainPC, WorkerPC
<1>2. CASE AcceptLoop
  BY <1>2 DEF AcceptLoop, AcceptClient, AcceptFails, LockToPush, Push, Notify,
              FreeFDs, At, MainPC, WorkerPC
<1>3. ASSUME NEW w \in Workers, Worker(w) PROVE TypeOK'
  <2>1. CASE Lock(w) \/ Wait(w) \/ SpuriousWakeup(w) \/ Reacquire(w)
    BY <2>1 DEF Lock, Wait, SpuriousWakeup, Reacquire, WorkerPC
  <2>2. CASE NullQueue(w) \/ ReturnEmpty(w) \/ Front(w)
    <3>1. queue # <<>> => Head(queue) \in FDs \cup {NoFD}
      BY HeadTailProperties
    <3>2. QED
      BY <2>2, <3>1 DEF NullQueue, ReturnEmpty, Front, WorkerPC
  <2>3. CASE Pop(w)
    <3>1. Tail(queue) \in Seq(FDs \cup {NoFD})
      BY <2>3, HeadTailProperties DEF Pop, PopInv
    <3>2. QED
      BY <2>3, <3>1 DEF Pop, WorkerPC
  <2>4. CASE CloseConnexion(w) \/ CrashConnexion(w)
    BY <2>4 DEF CloseConnexion, CrashConnexion, WorkerPC
  <2>5. QED
    BY <1>3, <2>1, <2>2, <2>3, <2>4 DEF Worker
<1>4. CASE UNCHANGED vars
  BY <1>4 DEF vars
<1>5. QED
  BY <1>1, <1>2, <1>3, <1>4 DEF Next

-----------------------------------------------------------------------------
(* Mutual exclusion and the entry between front() and pop().               *)

LEMMA MutexStep == ASSUME TypeOK, MutexInv, [Next]_vars PROVE MutexInv'
<1> USE ServerAssumption DEF TypeOK, MutexInv, mainVars, workerVars, Main, Free
<1>1. CASE StartUp
  BY <1>1 DEF StartUp, SocketFails, BindFails, ListenFails, Listen, CreateThread, NewQueue
<1>2. CASE AcceptLoop
  BY <1>2 DEF AcceptLoop, AcceptClient, AcceptFails, LockToPush, Push, Notify,
              At
<1>3. ASSUME NEW w \in Workers, Worker(w) PROVE MutexInv'
  <2>1. CASE Lock(w) \/ Wait(w) \/ SpuriousWakeup(w) \/ Reacquire(w)
    BY <2>1 DEF Lock, Wait, SpuriousWakeup, Reacquire
  <2>2. CASE NullQueue(w) \/ ReturnEmpty(w) \/ Front(w)
    BY <2>2 DEF NullQueue, ReturnEmpty, Front
  <2>3. CASE Pop(w)
    BY <2>3 DEF Pop
  <2>4. CASE CloseConnexion(w) \/ CrashConnexion(w)
    BY <2>4 DEF CloseConnexion, CrashConnexion
  <2>5. QED
    BY <1>3, <2>1, <2>2, <2>3, <2>4 DEF Worker
<1>4. CASE UNCHANGED vars
  BY <1>4 DEF vars
<1>5. QED
  BY <1>1, <1>2, <1>3, <1>4 DEF Next

\* Only push() and pop() change the queue, and neither can run between
\* another worker's front() and pop().
LEMMA PopStep == ASSUME TypeOK, MutexInv, PopInv, [Next]_vars PROVE PopInv'
<1> USE ServerAssumption DEF TypeOK, MutexInv, PopInv, mainVars, workerVars,
                             Main, Free
<1>1. CASE StartUp
  BY <1>1 DEF StartUp, SocketFails, BindFails, ListenFails, Listen, CreateThread, NewQueue
<1>2. CASE AcceptLoop
  <2>1. CASE Push
    BY <2>1 DEF Push
  <2>2. CASE ~Push
    BY <1>2, <2>2 DEF AcceptLoop, AcceptClient, AcceptFails, LockToPush, Notify,
                      At
  <2>3. QED
    BY <2>1, <2>2
<1>3. ASSUME NEW w \in Workers, Worker(w) PROVE PopInv'
  <2>1. CASE Lock(w) \/ Wait(w) \/ SpuriousWakeup(w) \/ Reacquire(w)
    BY <2>1 DEF Lock, Wait, SpuriousWakeup, Reacquire
  <2>2. CASE NullQueue(w) \/ ReturnEmpty(w) \/ Front(w)
    BY <2>2 DEF NullQueue, ReturnEmpty, Front
  <2>3. CASE Pop(w)
    BY <2>3 DEF Pop
  <2>4. CASE CloseConnexion(w) \/ CrashConnexion(w)
    BY <2>4 DEF CloseConnexion, CrashConnexion
  <2>5. QED
    BY <1>3, <2>1, <2>2, <2>3, <2>4 DEF Worker
<1>4. CASE UNCHANGED vars
  BY <1>4 DEF vars
<1>5. QED
  BY <1>1, <1>2, <1>3, <1>4 DEF Next

\* The three together are inductive.
CoreInv == TypeOK /\ MutexInv /\ PopInv

LEMMA CoreInit == Init => CoreInv
  BY ServerAssumption DEF Init, CoreInv, TypeOK, MutexInv, PopInv, MainPC, WorkerPC,
                          Main, Free

LEMMA CoreStep == CoreInv /\ [Next]_vars => CoreInv'
  BY TypeStep, MutexStep, PopStep DEF CoreInv

\* Every variable stays within its type: the queue never loses an entry it does
\* not have, because pop() only follows a front() under the same lock.
THEOREM TypeCorrect == Spec => []TypeOK
<1>1. CoreInv => TypeOK
  BY DEF CoreInv
<1>2. QED
  BY <1>1, CoreInit, CoreStep, PTL DEF Spec

-----------------------------------------------------------------------------
(* One owner for every open client socket.                                 *)

\* The entries of a queue after push() and after pop().
LEMMA QueuedAfterPush ==
    ASSUME TypeOK, queue' = Append(queue, mfd)
    PROVE  /\ Queued' = Queued \cup ({mfd} \ {NoFD})
           /\ DOMAIN queue' = 1 .. Len(queue) + 1
           /\ \A i \in DOMAIN queue : queue'[i] = queue[i]
           /\ queue'[Len(queue) + 1] = mfd
<1>1. /\ Len(queue) \in Nat
      /\ DOMAIN queue = 1 .. Len(queue)
  BY LenProperties DEF TypeOK
<1>2. /\ DOMAIN queue' = 1 .. Len(queue) + 1
      /\ \A i \in DOMAIN queue : queue'[i] = queue[i]
      /\ queue'[Len(queue) + 1] = mfd
  BY <1>1, AppendProperties DEF TypeOK
<1>3. DOMAIN queue' = DOMAIN queue \cup {Len(queue) + 1}
  BY <1>1, <1>2
<1>4. {queue'[i] : i \in DOMAIN queue'} = {queue[i] : i \in DOMAIN queue} \cup {mfd}
  BY <1>2, <1>3
<1>5. QED
  BY <1>2, <1>4 DEF Queued

LEMMA QueuedAfterPop ==
    ASSUME TypeOK, OneOwner, queue # <<>>, queue' = Tail(queue)
    PROVE  /\ Queued' = Queued \ {Head(queue)}
           /\ \A i \in DOMAIN queue' : /\ i + 1 \in DOMAIN queue
                                       /\ queue'[i] = queue[i + 1]
           /\ DOMAIN queue' \subseteq Nat
           /\ Head(queue) # NoFD => Head(queue) \in Queued
<1>1. /\ Len(queue) \in Nat \ {0}
      /\ DOMAIN queue = 1 .. Len(queue)
      /\ queue' \in Seq(FDs \cup {NoFD})
      /\ Len(queue') = Len(queue) - 1
      /\ DOMAIN queue' = 1 .. Len(queue) - 1
      /\ \A i \in 1 .. Len(queue') : queue'[i] = queue[i + 1]
  BY LenProperties, HeadTailProperties, EmptySeq DEF TypeOK
<1>2. \A i \in DOMAIN queue' : /\ i + 1 \in DOMAIN queue
                               /\ i + 1 # 1
                               /\ queue'[i] = queue[i + 1]
  BY <1>1
<1>3. Head(queue) = queue[1] /\ 1 \in DOMAIN queue
  BY <1>1 DEF TypeOK
<1>4. \A j \in DOMAIN queue : j # 1 => /\ j - 1 \in DOMAIN queue'
                                       /\ queue'[j - 1] = queue[j]
  BY <1>1
<1>5. \A j \in DOMAIN queue :
        j # 1 /\ queue[j] # NoFD => queue[j] # Head(queue)
  BY <1>3 DEF OneOwner
<1>6. ASSUME NEW f PROVE f \in Queued' <=> f \in Queued \ {Head(queue)}
  <2>1. ASSUME f \in Queued' PROVE f \in Queued \ {Head(queue)}
    <3>1. PICK i \in DOMAIN queue' : f = queue'[i] /\ f # NoFD
      BY <2>1 DEF Queued
    <3>2. QED
      BY <3>1, <1>2, <1>5 DEF Queued
  <2>2. ASSUME f \in Queued, f # Head(queue) PROVE f \in Queued'
    <3>1. PICK j \in DOMAIN queue : f = queue[j] /\ f # NoFD
      BY <2>2 DEF Queued
    <3>2. j # 1
      BY <3>1, <2>2, <1>3
    <3>3. PICK i \in DOMAIN queue' : queue'[i] = f
      BY <1>4, <3>1, <3>2
    <3>4. QED
      BY <3>3, <3>1 DEF Queued
  <2>3. QED
    BY <2>1, <2>2
<1>7. QED
  BY <1>1, <1>2, <1>3, <1>6 DEF Queued

\* A step that leaves the three owners and the open sockets alone.
LEMMA OwnersKept ==
    ASSUME OneOwner,
           UNCHANGED <<queue, clientFDs>>,
           clientFDs \cap serverFDs' = {},
           At("serve")' = At("serve"),
           \A w \in At("serve") : wfd'[w] = wfd[w],
           InHand' = InHand
    PROVE  OneOwner'
<1>1. Queued' = Queued /\ Served' = Served
  BY DEF Queued, Served
<1>2. QED
  BY <1>1 DEF OneOwner

\* The accept loop passes each socket from its own hands to the queue.
LEMMA OwnersInMain ==
    ASSUME CoreInv, OneOwner, StartUp \/ AcceptLoop PROVE OneOwner'
<1> USE ServerAssumption DEF CoreInv, TypeOK, mainVars, workerVars
<1>1. CASE StartUp
  <2>1. /\ UNCHANGED <<queue, clientFDs, wfd>>
        /\ InHand' = InHand
        /\ clientFDs \cap serverFDs' = {}
        /\ At("serve")' = At("serve")
    BY <1>1 DEF StartUp, SocketFails, BindFails, ListenFails, Listen, CreateThread, NewQueue,
                InHand, At, FreeFDs, OneOwner
  <2>2. QED
    BY <2>1, OwnersKept
<1>2. CASE AcceptFails \/ LockToPush \/ Notify
  <2>1. /\ UNCHANGED <<queue, clientFDs, serverFDs, wfd>>
        /\ InHand' = InHand
        /\ At("serve")' = At("serve")
    BY <1>2 DEF AcceptFails, LockToPush, Notify, InHand, At
  <2>2. QED
    BY <2>1, OwnersKept DEF OneOwner
<1>3. ASSUME NEW f \in FDs, AcceptClient(f) PROVE OneOwner'
  <2>1. Queued' = Queued /\ Served' = Served /\ At("serve")' = At("serve")
    BY <1>3 DEF AcceptClient, Queued, Served, At
  <2>2. InHand = {} /\ InHand' = {f}
    BY <1>3 DEF AcceptClient, InHand
  <2>3. QED
    BY <1>3, <2>1, <2>2 DEF AcceptClient, OneOwner, FreeFDs
<1>4. CASE Push
  <2>1. Served' = Served /\ At("serve")' = At("serve") /\ UNCHANGED wfd
    BY <1>4 DEF Push, Served, At
  <2>2. InHand = {mfd} \ {NoFD} /\ InHand' = {}
    BY <1>4 DEF Push, InHand
  <2>3. /\ Queued' = Queued \cup InHand
        /\ DOMAIN queue' = 1 .. Len(queue) + 1
        /\ \A i \in DOMAIN queue : queue'[i] = queue[i]
        /\ queue'[Len(queue) + 1] = mfd
    BY <1>4, <2>2, QueuedAfterPush DEF Push
  <2>4. Len(queue) \in Nat /\ DOMAIN queue = 1 .. Len(queue)
    BY LenProperties
  <2>5. ASSUME NEW i \in DOMAIN queue', NEW j \in DOMAIN queue',
               queue'[i] = queue'[j], queue'[i] # NoFD
        PROVE  i = j
    <3>1. \A k \in DOMAIN queue : queue[k] # NoFD => queue[k] # mfd
      BY <2>2 DEF OneOwner, Queued
    <3>2. \A k \in DOMAIN queue' : k \in DOMAIN queue \/ k = Len(queue) + 1
      BY <2>3, <2>4
    <3>3. CASE i \in DOMAIN queue /\ j \in DOMAIN queue
      BY <3>3, <2>3, <2>5 DEF OneOwner
    <3>4. CASE ~(i \in DOMAIN queue /\ j \in DOMAIN queue)
      BY <3>1, <3>2, <3>4, <2>3, <2>5
    <3>5. QED
      BY <3>3, <3>4
  <2>6. QED
    BY <1>4, <2>1, <2>2, <2>3, <2>5 DEF Push, OneOwner
<1>5. QED
  BY <1>1, <1>2, <1>3, <1>4 DEF AcceptLoop

\* A worker takes the socket at the head of the queue, and closes it.
LEMMA OwnersInWorker ==
    ASSUME CoreInv, OneOwner, NEW w \in Workers, Worker(w) PROVE OneOwner'
<1> USE ServerAssumption DEF CoreInv, TypeOK, mainVars, workerVars
<1>1. CASE Lock(w) \/ Wait(w) \/ SpuriousWakeup(w) \/ Reacquire(w) \/ NullQueue(w)
             \/ CrashConnexion(w)
  <2>1. /\ UNCHANGED <<queue, clientFDs, serverFDs, wfd>>
        /\ InHand' = InHand
        /\ At("serve")' = At("serve")
    BY <1>1 DEF Lock, Wait, SpuriousWakeup, Reacquire, NullQueue, CrashConnexion,
                InHand, At
  <2>2. QED
    BY <2>1, OwnersKept DEF OneOwner
<1>2. CASE ReturnEmpty(w) \/ Front(w)
  <2>1. /\ UNCHANGED <<queue, clientFDs, serverFDs>>
        /\ InHand' = InHand
        /\ At("serve")' = At("serve")
        /\ \A v \in At("serve") : wfd'[v] = wfd[v]
    BY <1>2 DEF ReturnEmpty, Front, InHand, At
  <2>2. QED
    BY <2>1, OwnersKept DEF OneOwner
<1>3. CASE Pop(w)
  <2>1. /\ queue # <<>>
        /\ wfd[w] = Head(queue)
        /\ queue' = Tail(queue)
        /\ UNCHANGED <<clientFDs, serverFDs, wfd>>
    BY <1>3 DEF Pop, PopInv
  <2>2. InHand' = InHand
    BY <1>3 DEF Pop, InHand
  <2>3. /\ Queued' = Queued \ {wfd[w]}
        /\ \A i \in DOMAIN queue' : /\ i + 1 \in DOMAIN queue
                                    /\ queue'[i] = queue[i + 1]
        /\ DOMAIN queue' \subseteq Nat
        /\ wfd[w] # NoFD => wfd[w] \in Queued
    BY <2>1, QueuedAfterPop
  <2>4. At("serve")' = IF wfd[w] = NoFD THEN At("serve") ELSE At("serve") \cup {w}
    BY <1>3 DEF Pop, At
  <2>5. Served' = IF wfd[w] = NoFD THEN Served ELSE Served \cup {wfd[w]}
    BY <2>1, <2>4 DEF Served
  <2>6. NoFD \notin Queued
    BY DEF Queued
  <2>7. \A i, j \in DOMAIN queue' :
          queue'[i] = queue'[j] => i = j \/ queue'[i] = NoFD
    BY <2>3 DEF OneOwner
  <2>8. \A u, v \in At("serve")' : wfd'[u] = wfd'[v] => u = v
    BY <2>1, <2>3, <2>4 DEF OneOwner, Served
  <2>9. QED
    BY <2>1, <2>2, <2>3, <2>5, <2>6, <2>7, <2>8 DEF OneOwner
<1>4. CASE CloseConnexion(w)
  <2>1. /\ UNCHANGED <<queue, serverFDs, wfd>>
        /\ clientFDs' = clientFDs \ {wfd[w]}
        /\ w \in At("serve")
    BY <1>4 DEF CloseConnexion, At
  <2>2. Queued' = Queued /\ InHand' = InHand
    BY <1>4 DEF CloseConnexion, Queued, InHand
  <2>3. At("serve")' = At("serve") \ {w}
    BY <1>4 DEF CloseConnexion, At
  <2>4. Served' = Served \ {wfd[w]} /\ wfd[w] \in Served
    BY <2>1, <2>3 DEF Served, OneOwner
  <2>5. QED
    BY <2>1, <2>2, <2>3, <2>4 DEF OneOwner
<1>5. QED
  BY <1>1, <1>2, <1>3, <1>4 DEF Worker

\* Every open client socket has one owner, for any number of workers and
\* whatever the order in which main and the workers run.
THEOREM OneOwnerAlways == Spec => []OneOwner
<1>1. Init => OneOwner
  BY DEF Init, OneOwner, Queued, Served, InHand, At
<1>2. CoreInv /\ OneOwner /\ [Next]_vars => OneOwner'
  <2> SUFFICES ASSUME CoreInv, OneOwner, [Next]_vars PROVE OneOwner'
    OBVIOUS
  <2>1. CASE UNCHANGED vars
    BY <2>1 DEF vars, mainVars, workerVars, OneOwner, Queued, Served, InHand, At
  <2>2. QED
    BY <2>1, OwnersInMain, OwnersInWorker DEF Next
<1>3. QED
  BY <1>1, <1>2, CoreInit, CoreStep, PTL DEF Spec

-----------------------------------------------------------------------------
(* Wakeups and the entries that back them.                                 *)

\* The notification main has yet to send.
Notifying == IF mpc = "notify" THEN 1 ELSE 0

LEMMA AwakeFinite == ASSUME TypeOK PROVE IsFiniteSet(Awake) /\ Cardinality(Awake) \in Nat
  BY ServerAssumption, FS_Subset, FS_CardinalityType DEF Awake

\* A worker that wakes, and one that goes back to the lock or to its client.
LEMMA OneMoreAwake ==
    ASSUME TypeOK, NEW w \in Workers, w \notin Awake, Awake' = Awake \cup {w}
    PROVE  Cardinality(Awake') = Cardinality(Awake) + 1
  BY AwakeFinite, FS_AddElement

LEMMA OneLessAwake ==
    ASSUME TypeOK, NEW w \in Workers, w \in Awake, Awake' = Awake \ {w}
    PROVE  Cardinality(Awake') = Cardinality(Awake) - 1
  BY AwakeFinite, FS_RemoveElement

LEMMA WakeupsInMain ==
    ASSUME TypeOK, WakeupsBacked, StartUp \/ AcceptLoop PROVE WakeupsBacked'
<1> USE ServerAssumption DEF TypeOK, mainVars, workerVars
<1>1. CASE StartUp
  <2>1. Awake' = Awake /\ Notifying' = 0 /\ Notifying = 0
    BY <1>1 DEF StartUp, SocketFails, BindFails, ListenFails, Listen, CreateThread, NewQueue,
                Awake, Notifying
  <2>2. UNCHANGED <<queue, spurious>>
    BY <1>1 DEF StartUp, SocketFails, BindFails, ListenFails, Listen, CreateThread, NewQueue
  <2>3. QED
    BY <2>1, <2>2 DEF WakeupsBacked, Notifying
<1>2. CASE AcceptFails \/ LockToPush \/ \E f \in FDs : AcceptClient(f)
  <2>1. Awake' = Awake /\ Notifying' = 0 /\ Notifying = 0
    BY <1>2 DEF AcceptFails, LockToPush, AcceptClient, Awake, Notifying
  <2>2. UNCHANGED <<queue, spurious>>
    BY <1>2 DEF AcceptFails, LockToPush, AcceptClient
  <2>3. QED
    BY <2>1, <2>2 DEF WakeupsBacked, Notifying
<1>3. CASE Push
  <2>1. Awake' = Awake /\ Notifying = 0 /\ Notifying' = 1
    BY <1>3 DEF Push, Awake, Notifying
  <2>2. Len(queue') = Len(queue) + 1 /\ Len(queue) \in Nat /\ UNCHANGED spurious
    BY <1>3, AppendProperties, LenProperties DEF Push
  <2>3. QED
    BY <2>1, <2>2, AwakeFinite DEF WakeupsBacked, Notifying
<1>4. CASE Notify
  <2>1. Notifying = 1 /\ Notifying' = 0 /\ UNCHANGED <<queue, spurious>>
    BY <1>4 DEF Notify, Notifying
  <2>2. CASE UNCHANGED wpc
    <3>1. Awake' = Awake
      BY <2>2 DEF Awake
    <3>2. QED
      BY <2>1, <3>1, AwakeFinite, LenProperties DEF WakeupsBacked, Notifying
  <2>3. ASSUME NEW w \in At("asleep"), wpc' = [wpc EXCEPT ![w] = "woken"]
        PROVE  WakeupsBacked'
    <3>1. w \in Workers /\ w \notin Awake /\ Awake' = Awake \cup {w}
      BY <2>3 DEF At, Awake
    <3>2. Cardinality(Awake') = Cardinality(Awake) + 1
      BY <3>1, OneMoreAwake
    <3>3. Cardinality(Awake) \in Nat /\ Len(queue) \in Nat
      BY AwakeFinite, LenProperties
    <3>4. QED
      BY <2>1, <3>2, <3>3 DEF WakeupsBacked, Notifying
  <2>4. QED
    BY <1>4, <2>2, <2>3 DEF Notify
<1>5. QED
  BY <1>1, <1>2, <1>3, <1>4 DEF AcceptLoop

LEMMA WakeupsInWorker ==
    ASSUME CoreInv, WakeupsBacked, NEW w \in Workers, Worker(w) PROVE WakeupsBacked'
<1> USE DEF mainVars, workerVars
<1>1. UNCHANGED mpc
  BY DEF Worker, Lock, Wait, SpuriousWakeup, Reacquire, NullQueue, ReturnEmpty,
         Front, Pop, CloseConnexion, CrashConnexion
<1>2. /\ TypeOK
      /\ spurious \in Nat
      /\ Len(queue) \in Nat
      /\ Cardinality(Awake) \in Nat
      /\ wpc \in [Workers -> WorkerPC]
  BY AwakeFinite, LenProperties DEF CoreInv, TypeOK
<1>3. CASE ~(SpuriousWakeup(w) \/ ReturnEmpty(w) \/ Pop(w))
  <2>1. Awake' = Awake /\ UNCHANGED <<queue, spurious>>
    BY <1>2, <1>3 DEF Worker, Lock, Wait, Reacquire, NullQueue, Front,
                      CloseConnexion, CrashConnexion, Awake
  <2>2. QED
    BY <1>1, <2>1 DEF WakeupsBacked
<1>4. CASE SpuriousWakeup(w)
  <2>1. /\ w \notin Awake /\ Awake' = Awake \cup {w}
        /\ spurious' = spurious + 1 /\ UNCHANGED queue
    BY <1>2, <1>4 DEF SpuriousWakeup, Awake
  <2>2. Cardinality(Awake') = Cardinality(Awake) + 1
    BY <1>2, <2>1, OneMoreAwake
  <2>3. QED
    BY <1>1, <1>2, <2>1, <2>2 DEF WakeupsBacked
<1>5. CASE ReturnEmpty(w)
  <2>1. w \in Awake /\ Awake' = Awake \ {w} /\ UNCHANGED <<queue, spurious>>
    BY <1>2, <1>5 DEF ReturnEmpty, Awake
  <2>2. Cardinality(Awake') = Cardinality(Awake) - 1
    BY <1>2, <2>1, OneLessAwake
  <2>3. QED
    BY <1>1, <1>2, <2>1, <2>2 DEF WakeupsBacked
<1>6. CASE Pop(w)
  <2>1. w \in Awake /\ Awake' = Awake \ {w} /\ UNCHANGED spurious
    BY <1>2, <1>6 DEF Pop, Awake
  <2>2. Cardinality(Awake') = Cardinality(Awake) - 1
    BY <1>2, <2>1, OneLessAwake
  <2>3. Len(queue') = Len(queue) - 1
    BY <1>6, HeadTailProperties DEF Pop, PopInv, CoreInv, TypeOK
  <2>4. QED
    BY <1>1, <1>2, <2>1, <2>2, <2>3 DEF WakeupsBacked
<1>7. QED
  BY <1>3, <1>4, <1>5, <1>6

\* Wakeups never outnumber the entries that caused them, spurious ones aside,
\* for any number of workers.
THEOREM WakeupsBackedAlways == Spec => []WakeupsBacked
<1>1. Init => WakeupsBacked
  <2> SUFFICES ASSUME Init PROVE WakeupsBacked
    OBVIOUS
  <2>1. Awake = {} /\ mpc # "notify" /\ queue = <<>> /\ spurious = 0
    BY DEF Init, Awake
  <2>2. QED
    BY <2>1, FS_EmptySet DEF WakeupsBacked
<1>2. CoreInv /\ WakeupsBacked /\ [Next]_vars => WakeupsBacked'
  <2> SUFFICES ASSUME CoreInv, WakeupsBacked, [Next]_vars PROVE WakeupsBacked'
    OBVIOUS
  <2>1. CASE UNCHANGED vars
    BY <2>1 DEF vars, mainVars, workerVars, WakeupsBacked, Awake
  <2>2. QED
    BY <2>1, WakeupsInMain, WakeupsInWorker DEF Next, CoreInv
<1>3. QED
  BY <1>1, <1>2, CoreInit, CoreStep, PTL DEF Spec

-----------------------------------------------------------------------------
(* RTMPServer implements HandOff.                                          *)

\* The connection a worker serves, as HandOff sees it.
Serving == [w \in Workers |-> IF wpc[w] = "serve" THEN wfd[w] ELSE NoFD]

\* A step that HandOff does not see.
LEMMA Stutter ==
    ASSUME UNCHANGED <<process, queue>>,
           \A w \in Workers : /\ wpc'[w] = "serve" <=> wpc[w] = "serve"
                              /\ wpc[w] = "serve" => wfd'[w] = wfd[w]
    PROVE  UNCHANGED Abstract!vars
<1>1. Serving' = Serving
  BY DEF Serving
<1>2. QED
  BY <1>1 DEF Abstract!vars, Serving

LEMMA MainImplements ==
    ASSUME CoreInv, OneOwner, StartUp \/ AcceptLoop PROVE [Abstract!Next]_(Abstract!vars)
<1> USE ServerAssumption DEF CoreInv, TypeOK, mainVars, workerVars
<1>1. CASE Push
  <2>1. /\ Running
        /\ queue' = Append(queue, mfd)
        /\ UNCHANGED <<process, wpc, wfd>>
        /\ InHand = {mfd} \ {NoFD}
    BY <1>1 DEF Push, InHand
  <2>2. Serving' = Serving
    BY <2>1 DEF Serving
  <2>3. mfd # NoFD => ~Abstract!Held(mfd)
    <3>1. SUFFICES ASSUME mfd # NoFD, Abstract!Held(mfd) PROVE FALSE
      OBVIOUS
    <3>2. mfd \notin Queued /\ mfd \notin Served
      BY <2>1, <3>1 DEF OneOwner
    <3>3. CASE \E i \in DOMAIN queue : queue[i] = mfd
      BY <3>1, <3>2, <3>3 DEF Queued
    <3>4. CASE \E w \in Workers : Serving[w] = mfd
      BY <3>1, <3>2, <3>4 DEF Served, At, Serving
    <3>5. QED
      BY <3>1, <3>3, <3>4 DEF Abstract!Held, Serving
  <2>4. Abstract!Arrive(mfd)
    BY <2>1, <2>2, <2>3 DEF Abstract!Arrive, Abstract!Running, Running, Serving
  <2>5. QED
    BY <2>4 DEF Abstract!Next
<1>2. CASE ~Push
  <2>1. /\ UNCHANGED <<process, queue, wfd>>
        /\ \A w \in Workers : wpc'[w] = "serve" <=> wpc[w] = "serve"
    BY <1>2 DEF StartUp, SocketFails, BindFails, ListenFails, Listen, CreateThread, NewQueue,
                AcceptLoop, AcceptClient, AcceptFails, LockToPush, Notify, At
  <2>2. QED
    BY <2>1, Stutter
<1>3. QED
  BY <1>1, <1>2

LEMMA WorkerImplements ==
    ASSUME CoreInv, OneOwner, NEW w \in Workers, Worker(w)
    PROVE  [Abstract!Next]_(Abstract!vars)
<1> USE ServerAssumption DEF CoreInv, TypeOK, mainVars, workerVars
<1>1. CASE Lock(w) \/ Wait(w) \/ SpuriousWakeup(w) \/ Reacquire(w) \/ ReturnEmpty(w)
             \/ Front(w)
  <2>1. /\ UNCHANGED <<process, queue>>
        /\ \A v \in Workers : /\ wpc'[v] = "serve" <=> wpc[v] = "serve"
                              /\ wpc[v] = "serve" => wfd'[v] = wfd[v]
    BY <1>1 DEF Lock, Wait, SpuriousWakeup, Reacquire, ReturnEmpty, Front
  <2>2. QED
    BY <2>1, Stutter
<1>2. CASE NullQueue(w) \/ CrashConnexion(w)
  <2>1. Running /\ process' = "dead" /\ UNCHANGED <<queue, wpc, wfd>>
    BY <1>2 DEF NullQueue, CrashConnexion
  <2>2. Serving' = Serving
    BY <2>1 DEF Serving
  <2>3. Abstract!Die
    BY <2>1, <2>2 DEF Abstract!Die, Abstract!Running, Running, Serving
  <2>4. QED
    BY <2>3 DEF Abstract!Next
<1>3. CASE Pop(w)
  <2>1. /\ Running
        /\ queue # <<>>
        /\ wfd[w] = Head(queue)
        /\ queue' = Tail(queue)
        /\ wpc' = [wpc EXCEPT ![w] = IF wfd[w] = NoFD THEN "lock" ELSE "serve"]
        /\ wpc[w] = "pop"
        /\ UNCHANGED <<process, wfd>>
    BY <1>3 DEF Pop, PopInv
  <2>2. CASE wfd[w] = NoFD
    <3>1. Serving' = Serving
      BY <2>1, <2>2 DEF Serving
    <3>2. Abstract!Discard
      BY <2>1, <2>2, <3>1 DEF Abstract!Discard, Abstract!Running, Running, Serving
    <3>3. QED
      BY <3>2 DEF Abstract!Next
  <2>3. CASE wfd[w] # NoFD
    <3>1. Serving[w] = NoFD /\ Serving' = [Serving EXCEPT ![w] = Head(queue)]
      BY <2>1, <2>3 DEF Serving
    <3>2. Abstract!Start(w)
      BY <2>1, <2>3, <3>1 DEF Abstract!Start, Abstract!Idle, Abstract!Running, Running,
                              Serving
    <3>3. QED
      BY <3>2 DEF Abstract!Next
  <2>4. QED
    BY <2>2, <2>3
<1>4. CASE CloseConnexion(w)
  <2>1. /\ Running
        /\ wpc[w] = "serve"
        /\ wpc' = [wpc EXCEPT ![w] = "lock"]
        /\ UNCHANGED <<process, queue, wfd>>
    BY <1>4 DEF CloseConnexion
  <2>2. wfd[w] # NoFD
    BY <2>1 DEF OneOwner, Served, At
  <2>3. Serving[w] # NoFD /\ Serving' = [Serving EXCEPT ![w] = NoFD]
    BY <2>1, <2>2 DEF Serving
  <2>4. Abstract!Finish(w)
    BY <2>1, <2>3 DEF Abstract!Finish, Abstract!Idle, Abstract!Running, Running, Serving
  <2>5. QED
    BY <2>4 DEF Abstract!Next
<1>5. QED
  BY <1>1, <1>2, <1>3, <1>4 DEF Worker

\* The server hands connections over as HandOff says: in the order of
\* acceptance, each to one worker, with the front of the queue read and removed
\* in two steps and the pool of any size.
THEOREM ImplementsHandOff == Spec => HandOffSpec
<1>1. Init => Abstract!Init
  BY DEF Init, Abstract!Init
<1>2. CoreInv /\ OneOwner /\ [Next]_vars => [Abstract!Next]_(Abstract!vars)
  <2> SUFFICES ASSUME CoreInv, OneOwner, [Next]_vars
               PROVE  [Abstract!Next]_(Abstract!vars)
    OBVIOUS
  <2>1. CASE UNCHANGED vars
    BY <2>1, Stutter DEF vars, mainVars, workerVars
  <2>2. QED
    BY <2>1, MainImplements, WorkerImplements DEF Next
<1>3. Spec => []CoreInv
  BY CoreInit, CoreStep, PTL DEF Spec
<1>4. QED
  BY <1>1, <1>2, <1>3, OneOwnerAlways, PTL DEF Spec, HandOffSpec, Abstract!Spec
=============================================================================
