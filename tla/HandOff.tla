------------------------------ MODULE HandOff ------------------------------
(***************************************************************************)
(* What the accept loop and the worker pool of the RTMP server promise     *)
(* together, with the queue, the mutex and the condition variable left     *)
(* out: connections are handed to workers in the order in which they were  *)
(* accepted, each to one worker, and none is dropped while the process is  *)
(* up.  A failed accept travels through the same channel as NoConn and is  *)
(* discarded by whoever receives it.                                       *)
(*                                                                         *)
(* RTMPServer implements this specification (RTMPServer!HandOffSpec).      *)
(***************************************************************************)
EXTENDS Sequences

CONSTANTS
    Workers,   \* the threads of the pool
    Conns,     \* the connections, named by their file descriptor
    NoConn     \* a failed accept

VARIABLES
    process,   \* "running", or "dead" once it crashed
    pending,   \* accepted and not yet handed to a worker, oldest first
    serving    \* the connection each worker serves, or NoConn

vars == <<process, pending, serving>>

Running == process = "running"

Idle(w) == serving[w] = NoConn

\* The connections that are waiting or being served.
Held(c) == \/ \E i \in DOMAIN pending : pending[i] = c
           \/ \E w \in Workers : serving[w] = c

Init ==
    /\ process = "running"
    /\ pending = <<>>
    /\ serving = [w \in Workers |-> NoConn]

Arrive(c) ==
    /\ Running
    /\ c # NoConn => ~Held(c)
    /\ pending' = Append(pending, c)
    /\ UNCHANGED <<process, serving>>

Start(w) ==
    /\ Running
    /\ Idle(w)
    /\ pending # <<>>
    /\ Head(pending) # NoConn
    /\ serving' = [serving EXCEPT ![w] = Head(pending)]
    /\ pending' = Tail(pending)
    /\ UNCHANGED process

Discard ==
    /\ Running
    /\ pending # <<>>
    /\ Head(pending) = NoConn
    /\ pending' = Tail(pending)
    /\ UNCHANGED <<process, serving>>

Finish(w) ==
    /\ Running
    /\ ~Idle(w)
    /\ serving' = [serving EXCEPT ![w] = NoConn]
    /\ UNCHANGED <<process, pending>>

Die ==
    /\ Running
    /\ process' = "dead"
    /\ UNCHANGED <<pending, serving>>

Next ==
    \/ \E c \in Conns \cup {NoConn} : Arrive(c)
    \/ \E w \in Workers : Start(w) \/ Finish(w)
    \/ Discard
    \/ Die

Spec == Init /\ [][Next]_vars
=============================================================================
