-------------------------- MODULE ServerProperties --------------------------
(***************************************************************************)
(* What the server gets right around its connections (module Server).      *)
(***************************************************************************)
EXTENDS Server

(* Every variable keeps to its type.  The counter of the ids wraps around. *)
TypeOK ==
    /\ gen \in 0 .. IdRange - 1
    /\ run \in [Acceptors -> Loops]
    /\ backlog \in [Acceptors -> SUBSET Conns]
    /\ hand \in [Acceptors -> SUBSET Conns]
    /\ claimed \in Seq([conn : Conns, id : 0 .. IdRange - 1])
    /\ task \in [Conns -> Tasks]
    /\ input \in [Conns -> Nat]
    /\ closed \in [Conns -> BOOLEAN]
    /\ expired \in [Conns -> BOOLEAN]
    /\ queue \in Seq(Conns)
    /\ on \in [Workers -> SUBSET Conns]

(* Two connections have different ids, whichever acceptors took them and   *)
(* however their loops interleave, unless the counter has gone all the way *)
(* around between them (id.rs:47).                                         *)
IdsAreUnique ==
    \A i, j \in DOMAIN claimed :
        i < j /\ j - i < IdRange => claimed[i].id # claimed[j].id

(* A socket that has been accepted and named is on its way to its task or  *)
(* has it: it gets one id and one task, and an error of accept never drops *)
(* it (tcp_acceptor.rs:42-52).                                             *)
AcceptedIsKept ==
    /\ \A i, j \in DOMAIN claimed :
          i # j => claimed[i].conn # claimed[j].conn
    /\ \A i \in DOMAIN claimed :
          \/ task[claimed[i].conn] # "none"
          \/ \E a \in Acceptors : /\ run[a] = "named"
                                  /\ hand[a] = {claimed[i].conn}

(* A task that can run does run, however much input the others have: they  *)
(* give way between two requests; and whether or not other clients read,   *)
(* services answer, tasks panic or acceptors return.                       *)
QueuedIsRun == \A c \in Conns : task[c] = "queued" ~> task[c] # "queued"

(* A connection that waits in the listening socket gets its task, whatever *)
(* the connections before it do, unless an error of accept has ended the   *)
(* loop.                                                                   *)
BacklogIsServed ==
    \A a \in Acceptors, c \in Conns :
        c \in backlog[a] ~> (task[c] # "none" \/ run[a] = "returned")

-----------------------------------------------------------------------------
(* The inductive invariant behind IdsAreUnique and AcceptedIsKept.         *)

(* An id that was given out k claims ago is k behind the counter, as long  *)
(* as k does not exceed the range.                                         *)
IdInv ==
    \A i \in DOMAIN claimed :
        LET k == Len(claimed) + 1 - i
        IN  k <= IdRange =>
               claimed[i].id = IF gen >= k THEN gen - k ELSE gen - k + IdRange

(* A loop has a socket in hand between accept and spawn, and only then.    *)
HandInv ==
    \A a \in Acceptors :
        IF run[a] \in {"accepted", "named"}
        THEN \E c \in Conns : hand[a] = {c}
        ELSE hand[a] = {}

(* A connection is in one place: in a listening socket, in the hands of a  *)
(* loop, or with its task.                                                 *)
PlaceInv ==
    \A a, b \in Acceptors :
        /\ \A c \in backlog[a] \cup hand[a] : task[c] = "none"
        /\ hand[a] \cap backlog[b] = {}
        /\ a # b => hand[a] \cap hand[b] = {} /\ backlog[a] \cap backlog[b] = {}

(* Only tasks that have been spawned are run.                              *)
StartedInv ==
    /\ \A i \in DOMAIN queue : task[queue[i]] # "none"
    /\ \A w \in Workers : \A c \in on[w] : task[c] # "none"
=============================================================================
