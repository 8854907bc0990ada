------------------------------- MODULE Server -------------------------------
(***************************************************************************)
(* The server around its connections: the loops that accept them           *)
(* (server/tcp_acceptor.rs), the ids they get (common/id.rs) and the       *)
(* runtime that runs their tasks.  Several acceptors may run at once; they *)
(* share the counter of the ids, and all tasks share the workers.          *)
(*                                                                         *)
(* A connection shows here by what it does to the others only.  It holds a *)
(* worker from one await to the next: while it waits for input, for its    *)
(* service or for its client to read, the worker is free; between two      *)
(* requests it gives way.  Module Connection has what happens in between.  *)
(***************************************************************************)
EXTENDS Integers, Sequences

CONSTANTS
    Acceptors,   \* the TcpAcceptors of the process
    Conns,       \* bound: the connections clients open
    Workers,     \* the threads of the runtime
    IdRange,     \* ids wrap around after so many                   (2^64)
    MaxInput     \* bound: requests that wait in a socket

ASSUME IdAssumption == IdRange \in Nat \ {0, 1}
ASSUME InputAssumption == MaxInput \in Nat \ {0}

VARIABLES
    gen,       \* CONN_ID: the next id
    run,       \* where the loop of an acceptor is
    backlog,   \* connections that wait in the listening socket
    hand,      \* the socket the loop has in its hands, if any
    claimed,   \* history: connections and their ids, in the order of next()
    task,      \* what a connection's task is doing
    input,     \* requests that have arrived and have not been taken
    closed,    \* the client has sent all it will
    expired,   \* READ_TIMEOUT has passed since the task began to read
    queue,     \* tasks that can run, in the order they became so
    on         \* the task a worker runs, if any

acceptVars == <<gen, run, backlog, hand, claimed>>
clientVars == <<input, closed>>
runtimeVars == <<task, expired, queue, on>>
vars == <<acceptVars, clientVars, runtimeVars>>

Loops == {"accept", "accepted", "named", "returned"}

(* reading: it waits for input, at most READ_TIMEOUT.  pending: it waits   *)
(* for its service, or until the client reads.                             *)
Tasks == {"none", "queued", "running", "reading", "pending", "ended",
          "panicked"}

Init == /\ gen = 1
        /\ run = [a \in Acceptors |-> "accept"]
        /\ backlog = [a \in Acceptors |-> {}]
        /\ hand = [a \in Acceptors |-> {}]
        /\ claimed = <<>>
        /\ task = [c \in Conns |-> "none"]
        /\ input = [c \in Conns |-> 0]
        /\ closed = [c \in Conns |-> FALSE]
        /\ expired = [c \in Conns |-> FALSE]
        /\ queue = <<>>
        /\ on = [w \in Workers |-> {}]

-----------------------------------------------------------------------------
(* TcpAcceptor::run.  There is no await between accept and spawn, but      *)
(* acceptors on other threads run between any two steps.                   *)

(* A slip: the loop serves a connection itself before it accepts another.  *)
AcceptWhenIdle(a) ==
    /\ run[a] = "accept"
    /\ \A c \in Conns : task[c] \in {"none", "ended", "panicked"}
    /\ \E c \in backlog[a] : /\ backlog' = [backlog EXCEPT ![a] = @ \ {c}]
                             /\ hand' = [hand EXCEPT ![a] = {c}]
    /\ run' = [run EXCEPT ![a] = "accepted"]
    /\ UNCHANGED <<gen, claimed, clientVars, runtimeVars>>

Accept(a) ==
    /\ run[a] = "accept"
    /\ \E c \in backlog[a] : /\ backlog' = [backlog EXCEPT ![a] = @ \ {c}]
                             /\ hand' = [hand EXCEPT ![a] = {c}]
    /\ run' = [run EXCEPT ![a] = "accepted"]
    /\ UNCHANGED <<gen, claimed, clientVars, runtimeVars>>

(* An error of accept ends the loop; a slip has errors with a socket in    *)
(* hand, too.                                                              *)
FailsAnywhere(a) ==
    /\ run' = [run EXCEPT ![a] = "returned"]
    /\ UNCHANGED <<gen, backlog, hand, claimed, clientVars, runtimeVars>>

AcceptFails(a) ==
    /\ run[a] = "accept"
    /\ run' = [run EXCEPT ![a] = "returned"]
    /\ UNCHANGED <<gen, backlog, hand, claimed, clientVars, runtimeVars>>

(* The caller may call run() again: the listening socket is still there.   *)
RunAgain(a) ==
    /\ run[a] = "returned"
    /\ run' = [run EXCEPT ![a] = "accept"]
    /\ UNCHANGED <<gen, backlog, hand, claimed, clientVars, runtimeVars>>

(* The counter wraps around; a slip lets it grow.                          *)
NoWrap(n)  == n + 1
AddOne(n)  == IF n = IdRange - 1 THEN 0 ELSE n + 1

Claim(a) == \E c \in hand[a] :
                claimed' = Append(claimed, [conn |-> c, id |-> gen])

(* IdGenerator::next: one fetch_add; a slip loads and stores.              *)
LoadThenStore(a) ==
    /\ \/ /\ run[a] = "accepted"
          /\ Claim(a)
          /\ run' = [run EXCEPT ![a] = "loaded"]
          /\ UNCHANGED gen
       \/ /\ run[a] = "loaded"
          /\ \E i \in DOMAIN claimed : /\ claimed[i].conn \in hand[a]
                                       /\ gen' = AddOne(claimed[i].id)
          /\ run' = [run EXCEPT ![a] = "named"]
          /\ UNCHANGED claimed
    /\ UNCHANGED <<backlog, hand, clientVars, runtimeVars>>

NextId(a) ==
    /\ run[a] = "accepted"
    /\ Claim(a)
    /\ gen' = AddOne(gen)
    /\ run' = [run EXCEPT ![a] = "named"]
    /\ UNCHANGED <<backlog, hand, clientVars, runtimeVars>>

Spawn(a) ==
    /\ run[a] = "named"
    /\ \E c \in hand[a] : /\ task' = [task EXCEPT ![c] = "queued"]
                          /\ queue' = Append(queue, c)
    /\ hand' = [hand EXCEPT ![a] = {}]
    /\ run' = [run EXCEPT ![a] = "accept"]
    /\ UNCHANGED <<gen, backlog, claimed, clientVars, expired, on>>

-----------------------------------------------------------------------------
(* The runtime (external): workers take the tasks in the order in which    *)
(* they became able to run.                                                *)

Poll(w) ==
    /\ on[w] = {} /\ queue # <<>>
    /\ on' = [on EXCEPT ![w] = {Head(queue)}]
    /\ task' = [task EXCEPT ![Head(queue)] = "running"]
    /\ queue' = Tail(queue)
    /\ UNCHANGED <<acceptVars, clientVars, expired>>

(* The task leaves its worker to others, and goes on or not.               *)
Release(w, c, state) ==
    /\ on' = [on EXCEPT ![w] = {}]
    /\ task' = [task EXCEPT ![c] = state]

Wake(c) ==
    /\ task' = [task EXCEPT ![c] = "queued"]
    /\ queue' = Append(queue, c)
    /\ UNCHANGED on

-----------------------------------------------------------------------------
(* Connection::process, on a worker.                                       *)

(* Between two requests it gives way; a slip goes on with the next.        *)
GoOn(w, c)     == UNCHANGED <<on, task, queue>>
YieldNow(w, c) == Release(w, c, "queued") /\ queue' = Append(queue, c)

Taken(c) == /\ input[c] > 0
            /\ input' = [input EXCEPT ![c] = @ - 1]
            /\ expired' = [expired EXCEPT ![c] = FALSE]

Message(w) == \E c \in on[w] : /\ Taken(c)
                               /\ YieldNow(w, c)
                               /\ UNCHANGED <<acceptVars, closed>>

(* After an error answer the connection is shut down.                      *)
Refused(w) == \E c \in on[w] : /\ Taken(c)
                               /\ Release(w, c, "ended")
                               /\ UNCHANGED <<acceptVars, closed, queue>>

(* A panic ends the task and nothing else.                                 *)
Panics(w) == \E c \in on[w] : /\ Taken(c)
                              /\ Release(w, c, "panicked")
                              /\ UNCHANGED <<acceptVars, closed, queue>>

(* In the middle of a request: the service has to answer, the client has   *)
(* to read, before the task can go on.                                     *)
Pends(w) == \E c \in on[w] :
               /\ input[c] > 0
               /\ Release(w, c, "pending")
               /\ UNCHANGED <<acceptVars, clientVars, expired, queue>>

Reads(w) == \E c \in on[w] :
               /\ input[c] = 0 /\ ~ closed[c] /\ ~ expired[c]
               /\ Release(w, c, "reading")
               /\ UNCHANGED <<acceptVars, clientVars, expired, queue>>

(* A timeout counts only if there still is no input (tokio's timeout polls *)
(* the read first).                                                        *)
Ends(w) == \E c \in on[w] :
              /\ input[c] = 0 /\ (closed[c] \/ expired[c])
              /\ Release(w, c, "ended")
              /\ UNCHANGED <<acceptVars, clientVars, expired, queue>>

-----------------------------------------------------------------------------
(* Clients, services and the clock.                                        *)

Connect(c) ==
    /\ task[c] = "none"
    /\ \A a \in Acceptors : c \notin backlog[a] \cup hand[a]
    /\ \E a \in Acceptors : backlog' = [backlog EXCEPT ![a] = @ \cup {c}]
    /\ UNCHANGED <<gen, run, hand, claimed, clientVars, runtimeVars>>

(* Something arrives: a task that waits for it can run.                    *)
Arrive(c) == IF task[c] = "reading" THEN Wake(c) /\ UNCHANGED expired
                                    ELSE UNCHANGED runtimeVars

Send(c) ==
    /\ task[c] # "none" /\ ~ closed[c] /\ input[c] < MaxInput
    /\ input' = [input EXCEPT ![c] = @ + 1]
    /\ Arrive(c)
    /\ UNCHANGED <<acceptVars, closed>>

Close(c) ==
    /\ task[c] # "none" /\ ~ closed[c]
    /\ closed' = [closed EXCEPT ![c] = TRUE]
    /\ Arrive(c)
    /\ UNCHANGED <<acceptVars, input>>

Expire(c) ==
    /\ task[c] = "reading"
    /\ expired' = [expired EXCEPT ![c] = TRUE]
    /\ Wake(c)
    /\ UNCHANGED <<acceptVars, clientVars>>

Resume(c) ==
    /\ task[c] = "pending"
    /\ Wake(c)
    /\ UNCHANGED <<acceptVars, clientVars, expired>>

-----------------------------------------------------------------------------
Loop(a) == Accept(a) \/ NextId(a) \/ Spawn(a)

Work(w) == \/ Poll(w) \/ Message(w) \/ Refused(w) \/ Panics(w)
           \/ Pends(w) \/ Reads(w) \/ Ends(w)

Environment(c) == Connect(c) \/ Send(c) \/ Close(c) \/ Expire(c) \/ Resume(c)

Next == \/ \E a \in Acceptors : Loop(a) \/ AcceptFails(a) \/ RunAgain(a)
        \/ \E w \in Workers : Work(w)
        \/ \E c \in Conns : Environment(c)

Spec == Init /\ [][Next]_vars

(* Threads run; nothing is asked of clients, services or the clock, and    *)
(* nothing of a caller whose run() has returned.                           *)
Fairness == /\ \A a \in Acceptors : WF_vars(Loop(a))
            /\ \A w \in Workers : WF_vars(Work(w))

FairSpec == Spec /\ Fairness
=============================================================================
