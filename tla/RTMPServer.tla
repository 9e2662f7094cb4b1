----------------------------- MODULE RTMPServer -----------------------------
(***************************************************************************)
(* The server process: the start-up of the listening socket (Server), the  *)
(* accept loop of the main thread (RTMPServer::run), the queue of client   *)
(* descriptors guarded by `mutex`, and the pool of worker threads that are *)
(* woken through `condition`.                                              *)
(*                                                                         *)
(* What a worker does with its connection is one phase here ("serve"):     *)
(* RTMPConnexion either closes the socket and returns, or takes the whole  *)
(* process down.                                                           *)
(***************************************************************************)
EXTENDS Integers, Sequences, FiniteSets

CONSTANTS
    Workers,      \* connection_threads
    FDs,          \* the descriptors the kernel can give this process
    NoFD,         \* -1
    MaxQueue,     \* bound: accept does not fail with this many entries queued
    MaxSpurious   \* bound: spurious wakeups of the condition variable

\* Names for the mutex's owner when it is not a worker.
Main == "main"
Free == "free"

ASSUME ServerAssumption ==
    /\ NoFD \notin FDs
    /\ Main \notin Workers
    /\ Free \notin Workers
    /\ IsFiniteSet(Workers)
    /\ MaxQueue \in Nat
    /\ MaxSpurious \in Nat

VARIABLES
    process,      \* "running", or "dead" once it crashed
    mpc,          \* control point of the main thread
    serverFD,     \* Server::_server_fd
    serverFDs,    \* every socket of the start-up: none is ever closed
    portFD,       \* the one of them that is bound to the port, or NoFD
    clientFDs,    \* the client sockets that are open
    queuePtr,     \* the global `queue`: "null" until run() assigns it
    queue,        \* the descriptors (and failed accepts) in *queue
    mutex,        \* the owner of the global mutex
    mfd,          \* _client_fd in run()
    wpc,          \* control point of each worker
    wfd,          \* p_client of each worker
    spurious      \* spurious wakeups so far

mainVars   == <<mpc, mfd, serverFD, serverFDs, portFD>>
workerVars == <<wpc, wfd>>
vars == <<process, mainVars, clientFDs, queuePtr, queue, mutex, workerVars, spurious>>

MainPC   == {"init", "spawn", "new", "accept", "lock", "push", "notify"}
WorkerPC == {"unborn", "failed", "lock", "wait", "asleep", "woken", "check",
             "pop", "serve"}

Running == process = "running"

At(pc) == {w \in Workers : wpc[w] = pc}

\* socket() and accept() return a descriptor that is not in use.
FreeFDs == FDs \ (serverFDs \cup clientFDs)

Init ==
    /\ process = "running"
    /\ mpc = "init"
    /\ serverFD = NoFD
    /\ serverFDs = {}
    /\ portFD = NoFD
    /\ clientFDs = {}
    /\ queuePtr = "null"
    /\ queue = <<>>
    /\ mutex = Free
    /\ mfd = NoFD
    /\ wpc = [w \in Workers |-> "unborn"]
    /\ wfd = [w \in Workers |-> NoFD]
    /\ spurious = 0

-----------------------------------------------------------------------------
(* Mistakes: what a plausible error would make of six of the actions     *)
(* below.  PROJECT.json pairs each with the property that notices it.      *)

\* The descriptor of a failed accept is taken for an open socket.
AcceptFailsAsClient ==
    /\ Running /\ mpc = "accept"
    /\ Len(queue) < MaxQueue
    /\ clientFDs' = clientFDs \cup {NoFD}
    /\ mfd' = NoFD
    /\ mpc' = "lock"
    /\ UNCHANGED <<process, serverFD, serverFDs, portFD, queuePtr, queue, mutex, workerVars,
                   spurious>>

\* A connection that ends in an exception keeps its socket.
CloseUnlessException(w) ==
    /\ Running /\ wpc[w] = "serve"
    /\ \E closed \in {{}, {wfd[w]}} : clientFDs' = clientFDs \ closed
    /\ wpc' = [wpc EXCEPT ![w] = "lock"]
    /\ UNCHANGED <<process, mainVars, queuePtr, queue, mutex, wfd, spurious>>

\* notify_all in the place of notify_one.
NotifyAll ==
    /\ Running /\ mpc = "notify"
    /\ wpc' = [w \in Workers |-> IF wpc[w] = "asleep" THEN "woken" ELSE wpc[w]]
    /\ mpc' = "accept"
    /\ UNCHANGED <<process, mfd, serverFD, serverFDs, portFD, clientFDs, queuePtr, queue,
                   mutex, wfd, spurious>>

\* A stack in the place of the queue.
PushOnTop ==
    /\ Running /\ mpc = "push"
    /\ queue' = <<mfd>> \o queue
    /\ mutex' = Free
    /\ mpc' = "notify"
    /\ UNCHANGED <<process, mfd, serverFD, serverFDs, portFD, clientFDs, queuePtr,
                   workerVars, spurious>>

\* A bounded queue: no client is queued while every worker serves one.
PushToIdle ==
    /\ Running /\ mpc = "push"
    /\ At("serve") # Workers
    /\ queue' = Append(queue, mfd)
    /\ mutex' = Free
    /\ mpc' = "notify"
    /\ UNCHANGED <<process, mfd, serverFD, serverFDs, portFD, clientFDs, queuePtr,
                   workerVars, spurious>>

\* The test for -1 the wrong way round.
PopInverted(w) ==
    /\ Running /\ wpc[w] = "pop"
    /\ queue' = Tail(queue)
    /\ mutex' = Free
    /\ wpc' = [wpc EXCEPT ![w] = IF wfd[w] = NoFD THEN "serve" ELSE "lock"]
    /\ UNCHANGED <<process, mainVars, clientFDs, queuePtr, wfd, spurious>>

-----------------------------------------------------------------------------
(* The main thread: start-up.  After a failure run() sleeps and tries      *)
(* again; the exception leaves the new socket open, and bound if it was.   *)

\* socket() fails: _server_fd is -1.
SocketFails ==
    /\ Running /\ mpc = "init"
    /\ serverFD' = NoFD
    /\ UNCHANGED <<process, mpc, mfd, serverFDs, portFD, clientFDs, queuePtr, queue,
                   mutex, workerVars, spurious>>

\* bind() fails, as it always does while a socket of an earlier attempt is
\* bound to the port.
BindFails(f) ==
    /\ Running /\ mpc = "init"
    /\ f \in FreeFDs
    /\ serverFD' = f
    /\ serverFDs' = serverFDs \cup {f}
    /\ UNCHANGED <<process, mpc, mfd, portFD, clientFDs, queuePtr, queue, mutex,
                   workerVars, spurious>>

\* listen() fails: the socket stays bound.
ListenFails(f) ==
    /\ Running /\ mpc = "init"
    /\ f \in FreeFDs
    /\ portFD = NoFD
    /\ portFD' = f
    /\ serverFD' = f
    /\ serverFDs' = serverFDs \cup {f}
    /\ UNCHANGED <<process, mpc, mfd, clientFDs, queuePtr, queue, mutex,
                   workerVars, spurious>>

Listen(f) ==
    /\ Running /\ mpc = "init"
    /\ f \in FreeFDs
    /\ portFD = NoFD
    /\ portFD' = f
    /\ serverFD' = f
    /\ serverFDs' = serverFDs \cup {f}
    /\ mpc' = "spawn"
    /\ UNCHANGED <<process, mfd, clientFDs, queuePtr, queue, mutex, workerVars,
                   spurious>>

\* ThreadInitializer: pthread_create for one thread, whose result nobody
\* looks at: a thread that could not be created is missing from the pool.
CreateThread(w) ==
    /\ Running /\ mpc = "spawn"
    /\ wpc[w] = "unborn"
    /\ \E pc \in {"lock", "failed"} : wpc' = [wpc EXCEPT ![w] = pc]
    /\ mpc' = IF At("unborn") = {w} THEN "new" ELSE "spawn"
    /\ UNCHANGED <<process, mfd, serverFD, serverFDs, portFD, clientFDs, queuePtr, queue,
                   mutex, wfd, spurious>>

\* queue = new std::queue<int>(), after the workers were started.
NewQueue ==
    /\ Running /\ mpc = "new"
    /\ queuePtr' = "set"
    /\ mpc' = "accept"
    /\ UNCHANGED <<process, mfd, serverFD, serverFDs, portFD, clientFDs, queue, mutex,
                   workerVars, spurious>>

-----------------------------------------------------------------------------
(* The main thread: the accept loop.                                       *)

AcceptClient(f) ==
    /\ Running /\ mpc = "accept"
    /\ f \in FreeFDs
    /\ clientFDs' = clientFDs \cup {f}
    /\ mfd' = f
    /\ mpc' = "lock"
    /\ UNCHANGED <<process, serverFD, serverFDs, portFD, queuePtr, queue, mutex, workerVars,
                   spurious>>

\* accept() returns -1, and run() queues it like a descriptor.
AcceptFails ==
    /\ Running /\ mpc = "accept"
    /\ Len(queue) < MaxQueue
    /\ mfd' = NoFD
    /\ mpc' = "lock"
    /\ UNCHANGED <<process, serverFD, serverFDs, portFD, clientFDs, queuePtr, queue, mutex,
                   workerVars, spurious>>

\* setThreadSafeClientFD: the lock_guard, then push and the unlock.
LockToPush ==
    /\ Running /\ mpc = "lock"
    /\ mutex = Free
    /\ mutex' = Main
    /\ mpc' = "push"
    /\ UNCHANGED <<process, mfd, serverFD, serverFDs, portFD, clientFDs, queuePtr, queue,
                   workerVars, spurious>>

Push ==
    /\ Running /\ mpc = "push"
    /\ queue' = Append(queue, mfd)
    /\ mutex' = Free
    /\ mpc' = "notify"
    /\ UNCHANGED <<process, mfd, serverFD, serverFDs, portFD, clientFDs, queuePtr,
                   workerVars, spurious>>

\* notify_one: one sleeping worker wakes; with none asleep nothing happens.
Notify ==
    /\ Running /\ mpc = "notify"
    /\ \/ /\ At("asleep") = {}
          /\ UNCHANGED wpc
       \/ \E w \in At("asleep") : wpc' = [wpc EXCEPT ![w] = "woken"]
    /\ mpc' = "accept"
    /\ UNCHANGED <<process, mfd, serverFD, serverFDs, portFD, clientFDs, queuePtr, queue,
                   mutex, wfd, spurious>>

-----------------------------------------------------------------------------
(* A worker: getThreadSafeClientFD, then the connection.                   *)

\* std::unique_lock ul(mutex)
Lock(w) ==
    /\ Running /\ wpc[w] = "lock"
    /\ mutex = Free
    /\ mutex' = w
    /\ wpc' = [wpc EXCEPT ![w] = "wait"]
    /\ UNCHANGED <<process, mainVars, clientFDs, queuePtr, queue, wfd, spurious>>

\* condition.wait(ul) without a predicate: whatever the queue holds, the
\* worker releases the mutex and sleeps.
Wait(w) ==
    /\ Running /\ wpc[w] = "wait"
    /\ mutex' = Free
    /\ wpc' = [wpc EXCEPT ![w] = "asleep"]
    /\ UNCHANGED <<process, mainVars, clientFDs, queuePtr, queue, wfd, spurious>>

SpuriousWakeup(w) ==
    /\ Running /\ wpc[w] = "asleep"
    /\ spurious < MaxSpurious
    /\ spurious' = spurious + 1
    /\ wpc' = [wpc EXCEPT ![w] = "woken"]
    /\ UNCHANGED <<process, mainVars, clientFDs, queuePtr, queue, mutex, wfd>>

\* A woken worker gets the mutex back before wait() returns.
Reacquire(w) ==
    /\ Running /\ wpc[w] = "woken"
    /\ mutex = Free
    /\ mutex' = w
    /\ wpc' = [wpc EXCEPT ![w] = "check"]
    /\ UNCHANGED <<process, mainVars, clientFDs, queuePtr, queue, wfd, spurious>>

\* queue->empty() through the null pointer: the process dies.
NullQueue(w) ==
    /\ Running /\ wpc[w] = "check"
    /\ queuePtr = "null"
    /\ process' = "dead"
    /\ UNCHANGED <<mainVars, clientFDs, queuePtr, queue, mutex, workerVars,
                   spurious>>

\* An empty queue: return -1, and the loop starts over.
ReturnEmpty(w) ==
    /\ Running /\ wpc[w] = "check"
    /\ queuePtr = "set"
    /\ queue = <<>>
    /\ wfd' = [wfd EXCEPT ![w] = NoFD]
    /\ mutex' = Free
    /\ wpc' = [wpc EXCEPT ![w] = "lock"]
    /\ UNCHANGED <<process, mainVars, clientFDs, queuePtr, queue, spurious>>

\* p_client = queue->front()
Front(w) ==
    /\ Running /\ wpc[w] = "check"
    /\ queuePtr = "set"
    /\ queue # <<>>
    /\ wfd' = [wfd EXCEPT ![w] = Head(queue)]
    /\ wpc' = [wpc EXCEPT ![w] = "pop"]
    /\ UNCHANGED <<process, mainVars, clientFDs, queuePtr, queue, mutex, spurious>>

\* queue->pop(), the unlock, and the test for -1 in the thread's loop.
Pop(w) ==
    /\ Running /\ wpc[w] = "pop"
    /\ queue' = Tail(queue)
    /\ mutex' = Free
    /\ wpc' = [wpc EXCEPT ![w] = IF wfd[w] = NoFD THEN "lock" ELSE "serve"]
    /\ UNCHANGED <<process, mainVars, clientFDs, queuePtr, wfd, spurious>>

\* RTMPConnexion(p_client) closes its socket, on success and on a
\* SocketException alike, and the thread goes back for the next one.
CloseConnexion(w) ==
    /\ Running /\ wpc[w] = "serve"
    /\ clientFDs' = clientFDs \ {wfd[w]}
    /\ wpc' = [wpc EXCEPT ![w] = "lock"]
    /\ UNCHANGED <<process, mainVars, queuePtr, queue, mutex, wfd, spurious>>

\* RTMPConnexion(p_client) takes the process down: a failed read is used as
\* a length, a signal or an exception other than SocketException ends it.
CrashConnexion(w) ==
    /\ Running /\ wpc[w] = "serve"
    /\ process' = "dead"
    /\ UNCHANGED <<mainVars, clientFDs, queuePtr, queue, mutex, workerVars,
                   spurious>>

-----------------------------------------------------------------------------
StartUp == \/ SocketFails
           \/ \E f \in FDs : BindFails(f) \/ ListenFails(f) \/ Listen(f)
           \/ \E w \in Workers : CreateThread(w)
           \/ NewQueue

AcceptLoop == \/ \E f \in FDs : AcceptClient(f)
              \/ AcceptFails
              \/ LockToPush
              \/ Push
              \/ Notify

Worker(w) == \/ Lock(w)
             \/ Wait(w)
             \/ SpuriousWakeup(w)
             \/ Reacquire(w)
             \/ NullQueue(w)
             \/ ReturnEmpty(w)
             \/ Front(w)
             \/ Pop(w)
             \/ CloseConnexion(w)
             \/ CrashConnexion(w)

Next == StartUp \/ AcceptLoop \/ \E w \in Workers : Worker(w)

Spec == Init /\ [][Next]_vars

(***************************************************************************)
(* Fairness.  The threads are scheduled: a step that stays possible is     *)
(* taken.  Getting the contended mutex is strongly fair: a thread that     *)
(* asks again and again gets it.  Nothing makes a client arrive, an accept *)
(* fail, a spurious wakeup happen or the process crash, and nothing makes  *)
(* an attempt to listen succeed.                                           *)
(*                                                                         *)
(* ThreadSpec says nothing about clients: the reads of RTMPConnexion have  *)
(* no timeout, so a client that stays connected and sends nothing keeps    *)
(* its worker at "serve" for ever.  FairSpec adds that every connection    *)
(* ends (the client answers or goes away).                                 *)
(***************************************************************************)
MainFairness ==
    /\ WF_vars(\E w \in Workers : CreateThread(w))
    /\ WF_vars(NewQueue)
    /\ SF_vars(LockToPush)
    /\ WF_vars(Push)
    /\ WF_vars(Notify)

WorkerFairness(w) ==
    /\ SF_vars(Lock(w))
    /\ WF_vars(Wait(w))
    /\ SF_vars(Reacquire(w))
    /\ WF_vars(NullQueue(w) \/ ReturnEmpty(w) \/ Front(w))
    /\ WF_vars(Pop(w))

\* The client of worker w is not silent for ever.
ClientAnswers(w) == WF_vars(CloseConnexion(w) \/ CrashConnexion(w))

ThreadSpec == Spec /\ MainFairness /\ \A w \in Workers : WorkerFairness(w)

FairSpec == ThreadSpec /\ \A w \in Workers : ClientAnswers(w)

-----------------------------------------------------------------------------
(* Properties.                                                             *)

TypeOK ==
    /\ process \in {"running", "dead"}
    /\ mpc \in MainPC
    /\ serverFD \in FDs \cup {NoFD}
    /\ serverFDs \in SUBSET FDs
    /\ portFD \in FDs \cup {NoFD}
    /\ clientFDs \in SUBSET FDs
    /\ queuePtr \in {"null", "set"}
    /\ queue \in Seq(FDs \cup {NoFD})
    /\ mutex \in Workers \cup {Main, Free}
    /\ mfd \in FDs \cup {NoFD}
    /\ wpc \in [Workers -> WorkerPC]
    /\ wfd \in [Workers -> FDs \cup {NoFD}]
    /\ spurious \in Nat

\* The three places that can own an open client socket.
Queued == {queue[i] : i \in DOMAIN queue} \ {NoFD}
Served == {wfd[w] : w \in At("serve")}
InHand == IF mpc \in {"lock", "push"} THEN {mfd} \ {NoFD} ELSE {}

(***************************************************************************)
(* Every open client socket has exactly one owner: it is in the accept     *)
(* loop's hands, or waits once in the queue, or is served by one worker;   *)
(* none is forgotten, none is served after its close (when the kernel may  *)
(* have given the number to another client), none is a listening socket.   *)
(***************************************************************************)
OneOwner ==
    /\ clientFDs = Queued \cup Served \cup InHand
    /\ Queued \cap Served = {}
    /\ Queued \cap InHand = {}
    /\ Served \cap InHand = {}
    /\ clientFDs \cap serverFDs = {}
    /\ \A i, j \in DOMAIN queue : queue[i] = queue[j] => i = j \/ queue[i] = NoFD
    /\ \A v, w \in At("serve") : wfd[v] = wfd[w] => v = w

\* Workers whose wakeup has not been spent on an entry of the queue yet.
Awake == {w \in Workers : wpc[w] \in {"woken", "check", "pop"}}

(***************************************************************************)
(* A wakeup is backed by work: leaving spurious wakeups aside, there are   *)
(* never more woken workers (and notifications under way) than queued      *)
(* entries, so that the test for an empty queue in getThreadSafeClientFD   *)
(* and the null queue before run() allocates it are reached by a spurious  *)
(* wakeup only.                                                            *)
(***************************************************************************)
WakeupsBacked ==
    Cardinality(Awake) + (IF mpc = "notify" THEN 1 ELSE 0) <= Len(queue) + spurious

\* The queue hands connections over first in, first out, each to one worker,
\* whatever the interleaving of front(), pop() and push().
Abstract == INSTANCE HandOff WITH
    Conns <- FDs, NoConn <- NoFD, pending <- queue,
    serving <- [w \in Workers |-> IF wpc[w] = "serve" THEN wfd[w] ELSE NoFD]

HandOffSpec == Abstract!Spec

\* With a wakeup under way, the connection at the head of the queue reaches a
\* worker: no interleaving of lock, wait and pop loses it.
HeadServed ==
    \A f \in FDs :
        (Running /\ queue # <<>> /\ Head(queue) = f /\ Awake # {})
            ~> (f \in Served \/ ~Running)

(***************************************************************************)
(* A silent client holds its own worker and nobody else: whatever the      *)
(* others do, a client that is accepted is queued and announced, even with *)
(* every worker held, and a worker whose client answers comes back to      *)
(* wait.  Nothing that all threads need is kept during a connection.       *)
(***************************************************************************)
SilentHoldOwnWorker ==
    /\ mpc = "lock" ~> (mpc = "accept" \/ ~Running)
    /\ \A w \in Workers :
        ClientAnswers(w) => (wpc[w] = "serve" ~> (wpc[w] = "asleep" \/ ~Running))

(***************************************************************************)
(* What the source says and the code does not do.                          *)
(***************************************************************************)

\* "Infinite loop for threads to process new requests": with every thread of the
\* pool created, a queued request is eventually taken from the queue.
EveryRequestTaken ==
    \A f \in FDs :
        (f \in Queued /\ At("failed") = {}) ~> (f \notin Queued \/ ~Running)
=============================================================================
