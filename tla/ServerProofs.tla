---------------------------- MODULE ServerProofs ----------------------------
(***************************************************************************)
(* Proofs about module Server, for any number of acceptors, connections    *)
(* and workers and every range of the ids.                                 *)
(***************************************************************************)
EXTENDS ServerProperties, SequenceTheorems, TLAPS

USE IdAssumption, InputAssumption

-----------------------------------------------------------------------------
(* Types.                                                                  *)

(* The types hold at first.                                                *)
LEMMA InitTypeOK == Init => TypeOK
BY DEF Init, TypeOK, Loops, Tasks

(* The head of the run queue is a connection, and its tail a queue.        *)
LEMMA QueueType ==
    ASSUME TypeOK, queue # <<>>
    PROVE  /\ Head(queue) \in Conns /\ Tail(queue) \in Seq(Conns)
           /\ Head(queue) = queue[1] /\ 1 \in DOMAIN queue
           /\ \A i \in DOMAIN Tail(queue) :
                 i + 1 \in DOMAIN queue /\ Tail(queue)[i] = queue[i + 1]
<1>1. queue \in Seq(Conns)
    BY DEF TypeOK
<1> QED BY <1>1, HeadTailProperties, EmptySeq

(* The loops of the acceptors keep the types.                              *)
LEMMA AcceptTypeOK ==
    ASSUME TypeOK, NEW a \in Acceptors,
           Loop(a) \/ AcceptFails(a) \/ RunAgain(a)
    PROVE  TypeOK'
<1> USE DEF TypeOK, Loops, clientVars, runtimeVars
<1>1. CASE Accept(a)
    BY <1>1 DEF Accept
<1>2. CASE NextId(a)
    <2>1. gen' \in 0 .. IdRange - 1
        BY <1>2 DEF NextId, AddOne
    <2>2. claimed' \in Seq([conn : Conns, id : 0 .. IdRange - 1])
        BY <1>2 DEF NextId, Claim
    <2> QED BY <1>2, <2>1, <2>2 DEF NextId
<1>3. CASE Spawn(a)
    BY <1>3 DEF Spawn, Tasks
<1>4. CASE AcceptFails(a) \/ RunAgain(a)
    BY <1>4 DEF AcceptFails, RunAgain
<1> QED BY <1>1, <1>2, <1>3, <1>4 DEF Loop

(* Leaving a worker keeps the types of the runtime.                        *)
LEMMA ReleaseTypeOK ==
    ASSUME TypeOK, NEW w \in Workers, NEW c \in on[w], NEW s \in Tasks,
           Release(w, c, s)
    PROVE  /\ on' \in [Workers -> SUBSET Conns]
           /\ task' \in [Conns -> Tasks]
           /\ c \in Conns
BY DEF Release, TypeOK

(* Taking a request keeps the types of the input.                          *)
LEMMA TakenTypeOK ==
    ASSUME TypeOK, NEW c \in Conns, Taken(c)
    PROVE  input' \in [Conns -> Nat] /\ expired' \in [Conns -> BOOLEAN]
<1>1. input' \in [Conns -> Nat]
    BY DEF Taken, TypeOK
<1>2. expired' \in [Conns -> BOOLEAN]
    BY Zenon DEF Taken, TypeOK
<1> QED BY <1>1, <1>2

(* The workers keep the types.                                             *)
LEMMA WorkTypeOK ==
    ASSUME TypeOK, NEW w \in Workers, Work(w) PROVE TypeOK'
<1> USE DEF TypeOK, acceptVars, clientVars
<1>1. CASE Poll(w)
    <2>1. Head(queue) \in Conns /\ Tail(queue) \in Seq(Conns)
        BY <1>1, QueueType DEF Poll
    <2>2. /\ on' = [on EXCEPT ![w] = {Head(queue)}]
          /\ task' = [task EXCEPT ![Head(queue)] = "running"]
          /\ queue' = Tail(queue)
          /\ UNCHANGED <<acceptVars, clientVars, expired>>
        BY <1>1 DEF Poll
    <2> DEFINE c == Head(queue)
    <2> HIDE DEF c
    <2>3. /\ on' = [on EXCEPT ![w] = {c}] /\ {c} \in SUBSET Conns
          /\ task' = [task EXCEPT ![c] = "running"]
        BY <2>1, <2>2 DEF c
    <2>4. on' \in [Workers -> SUBSET Conns] /\ task' \in [Conns -> Tasks]
        BY <2>3 DEF Tasks
    <2> QED BY <2>1, <2>2, <2>4
<1>2. \A s \in {"queued", "ended", "panicked", "pending", "reading"} :
         s \in Tasks
    BY DEF Tasks
<1>3. CASE Message(w)
    <2> PICK c \in on[w] : /\ Taken(c) /\ YieldNow(w, c)
                           /\ UNCHANGED <<acceptVars, closed>>
        BY <1>3 DEF Message
    <2>1. Release(w, c, "queued") /\ queue' = Append(queue, c)
        BY DEF YieldNow
    <2>2. /\ on' \in [Workers -> SUBSET Conns] /\ task' \in [Conns -> Tasks]
          /\ c \in Conns
        BY <1>2, <2>1, ReleaseTypeOK
    <2>3. input' \in [Conns -> Nat] /\ expired' \in [Conns -> BOOLEAN]
        BY <2>2, TakenTypeOK
    <2> QED BY <2>1, <2>2, <2>3
<1>4. CASE Refused(w) \/ Panics(w)
    <2> PICK c \in on[w] : /\ Taken(c)
                           /\ \/ Release(w, c, "ended")
                              \/ Release(w, c, "panicked")
                           /\ UNCHANGED <<acceptVars, closed, queue>>
        BY <1>4, Zenon DEF Refused, Panics
    <2>1. /\ on' \in [Workers -> SUBSET Conns] /\ task' \in [Conns -> Tasks]
          /\ c \in Conns
        BY <1>2, ReleaseTypeOK
    <2>2. input' \in [Conns -> Nat] /\ expired' \in [Conns -> BOOLEAN]
        BY <2>1, TakenTypeOK
    <2> QED BY <2>1, <2>2
<1>5. CASE Pends(w) \/ Reads(w) \/ Ends(w)
    <2> PICK c \in on[w] :
            /\ \/ Release(w, c, "pending") \/ Release(w, c, "reading")
               \/ Release(w, c, "ended")
            /\ UNCHANGED <<acceptVars, clientVars, expired, queue>>
        BY <1>5, Zenon DEF Pends, Reads, Ends
    <2>1. on' \in [Workers -> SUBSET Conns] /\ task' \in [Conns -> Tasks]
        BY <1>2, ReleaseTypeOK
    <2> QED BY <2>1
<1> QED BY <1>1, <1>3, <1>4, <1>5 DEF Work

(* Clients, services and the clock keep the types.                         *)
LEMMA EnvironmentTypeOK ==
    ASSUME TypeOK, NEW c \in Conns, Environment(c) PROVE TypeOK'
<1> USE DEF TypeOK, acceptVars, clientVars, runtimeVars
<1>1. CASE Connect(c)
    BY <1>1 DEF Connect
<1>2. ASSUME Wake(c)
      PROVE  /\ task' \in [Conns -> Tasks] /\ queue' \in Seq(Conns)
             /\ on' \in [Workers -> SUBSET Conns]
    BY <1>2 DEF Wake, Tasks
<1>3. ASSUME Arrive(c)
      PROVE  /\ task' \in [Conns -> Tasks] /\ queue' \in Seq(Conns)
             /\ on' \in [Workers -> SUBSET Conns]
             /\ expired' \in [Conns -> BOOLEAN]
    BY <1>2, <1>3, Zenon DEF Arrive
<1>4. CASE Send(c)
    <2>1. input' \in [Conns -> Nat]
        BY <1>4 DEF Send
    <2> QED BY <1>3, <1>4, <2>1 DEF Send
<1>5. CASE Close(c)
    <2>1. closed' \in [Conns -> BOOLEAN]
        BY <1>5, Zenon DEF Close
    <2> QED BY <1>3, <1>5, <2>1 DEF Close
<1>6. CASE Expire(c)
    <2>1. expired' \in [Conns -> BOOLEAN]
        BY <1>6, Zenon DEF Expire
    <2> QED BY <1>2, <1>6, <2>1 DEF Expire
<1>7. CASE Resume(c)
    BY <1>2, <1>7 DEF Resume
<1> QED BY <1>1, <1>4, <1>5, <1>6, <1>7 DEF Environment

(* Every step keeps the types.                                             *)
LEMMA TypeStep == TypeOK /\ [Next]_vars => TypeOK'
<1>1. TypeOK /\ UNCHANGED vars => TypeOK'
    BY DEF TypeOK, vars, acceptVars, clientVars, runtimeVars
<1> QED BY <1>1, AcceptTypeOK, WorkTypeOK, EnvironmentTypeOK DEF Next

(* Every variable keeps its type in every behaviour.                       *)
THEOREM TypeCorrect == Spec => []TypeOK
BY InitTypeOK, TypeStep, PTL DEF Spec
-----------------------------------------------------------------------------
(* Ids.                                                                    *)

(* What a claim does to the history.                                       *)
LEMMA ClaimEffect ==
    ASSUME TypeOK, NEW a \in Acceptors, NextId(a)
    PROVE  /\ Len(claimed) \in Nat /\ DOMAIN claimed = 1 .. Len(claimed)
           /\ Len(claimed') = Len(claimed) + 1
           /\ DOMAIN claimed' = 1 .. Len(claimed) + 1
           /\ \A i \in DOMAIN claimed : claimed'[i] = claimed[i]
           /\ \A n : n = Len(claimed) + 1 => /\ claimed'[n].id = gen
                                            /\ claimed'[n].conn \in hand[a]
           /\ gen' = AddOne(gen)
<1> PICK c \in hand[a] : claimed' = Append(claimed, [conn |-> c, id |-> gen])
    BY DEF NextId, Claim
<1> DEFINE e == [conn |-> c, id |-> gen]
<1>1. /\ e \in [conn : Conns, id : 0 .. IdRange - 1]
      /\ claimed \in Seq([conn : Conns, id : 0 .. IdRange - 1])
      /\ e.id = gen /\ e.conn \in hand[a]
    BY DEF TypeOK
<1>2. claimed' = Append(claimed, e)
    OBVIOUS
<1> HIDE DEF e
<1>3. /\ Len(claimed) \in Nat /\ DOMAIN claimed = 1 .. Len(claimed)
      /\ Len(claimed') = Len(claimed) + 1
      /\ DOMAIN claimed' = 1 .. Len(claimed) + 1
      /\ \A i \in 1 .. Len(claimed) : claimed'[i] = claimed[i]
      /\ claimed'[Len(claimed) + 1] = e
    BY <1>1, <1>2
<1> QED BY <1>1, <1>3 DEF NextId

(* Nothing but a claim touches the counter or the history.                 *)
LEMMA OnlyClaims ==
    ASSUME [Next]_vars, \A a \in Acceptors : ~ NextId(a)
    PROVE  gen' = gen /\ claimed' = claimed
<1>1. ASSUME NEW a \in Acceptors, Loop(a) \/ AcceptFails(a) \/ RunAgain(a)
      PROVE  gen' = gen /\ claimed' = claimed
    BY <1>1 DEF Loop, Accept, Spawn, AcceptFails, RunAgain
<1>2. ASSUME NEW w \in Workers, Work(w)
      PROVE  gen' = gen /\ claimed' = claimed
    BY <1>2 DEF Work, Poll, Message, Refused, Panics, Pends, Reads, Ends,
                acceptVars
<1>3. ASSUME NEW c \in Conns, Environment(c)
      PROVE  gen' = gen /\ claimed' = claimed
    BY <1>3 DEF Environment, Connect, Send, Close, Expire, Resume, acceptVars
<1> QED BY <1>1, <1>2, <1>3 DEF Next, vars, acceptVars

(* Every step keeps IdInv and the ids unique.                              *)
LEMMA IdStep ==
    ASSUME TypeOK, IdInv, IdsAreUnique, [Next]_vars
    PROVE  IdInv' /\ IdsAreUnique'
<1>1. CASE \A a \in Acceptors : ~ NextId(a)
    BY <1>1, OnlyClaims DEF IdInv, IdsAreUnique
<1>2. ASSUME NEW a \in Acceptors, NextId(a) PROVE IdInv' /\ IdsAreUnique'
    <2> DEFINE n == Len(claimed) + 1
    <2>1. /\ n \in Nat /\ DOMAIN claimed = 1 .. n - 1
          /\ DOMAIN claimed' = 1 .. n /\ Len(claimed') = n
          /\ \A i \in 1 .. n - 1 : claimed'[i] = claimed[i]
          /\ claimed'[n].id = gen
          /\ gen' = IF gen = IdRange - 1 THEN 0 ELSE gen + 1
        BY <1>2, ClaimEffect DEF AddOne
    <2>2. gen \in 0 .. IdRange - 1 /\ IdRange \in Nat
        BY DEF TypeOK
    <2>3. \A i \in 1 .. n - 1 :
             n - i <= IdRange =>
                claimed[i].id = IF gen >= n - i THEN gen - (n - i)
                                ELSE gen - (n - i) + IdRange
        BY <2>1 DEF IdInv
    <2> HIDE DEF n
    <2>4. ASSUME NEW i \in 1 .. n, n + 1 - i <= IdRange
          PROVE  claimed'[i].id =
                    IF gen' >= n + 1 - i THEN gen' - (n + 1 - i)
                    ELSE gen' - (n + 1 - i) + IdRange
        <3>1. CASE i = n
            BY <2>1, <2>2, <3>1, SMTT(40)
        <3>2. CASE i \in 1 .. n - 1
            BY <2>1, <2>2, <2>3, <2>4, <3>2
        <3> QED BY <2>1, <3>1, <3>2
    <2>5. IdInv'
        BY <2>1, <2>4 DEF IdInv
    <2>6. ASSUME NEW i \in 1 .. n, NEW j \in 1 .. n, i < j, j - i < IdRange
          PROVE  claimed'[i].id # claimed'[j].id
        <3>1. CASE j = n
            BY <2>1, <2>2, <2>3, <2>6, <3>1
        <3>2. CASE j # n
            BY <2>1, <2>6, <3>2, SMTT(60) DEF IdsAreUnique
        <3> QED BY <3>1, <3>2
    <2>7. IdsAreUnique'
        BY <2>1, <2>6 DEF IdsAreUnique
    <2> QED BY <2>5, <2>7
<1> QED BY <1>1, <1>2

(* No two connections have the same id unless IdRange ids were given out   *)
(* in between, whatever the acceptors' loops do.                           *)
THEOREM IdsStayUnique == Spec => []IdsAreUnique
<1>1. Init => IdInv /\ IdsAreUnique
    BY DEF Init, IdInv, IdsAreUnique
<1>2. TypeOK /\ IdInv /\ IdsAreUnique /\ [Next]_vars
         => (TypeOK /\ IdInv /\ IdsAreUnique)'
    BY TypeStep, IdStep
<1> QED BY InitTypeOK, <1>1, <1>2, PTL DEF Spec
-----------------------------------------------------------------------------
(* No accepted connection is lost, and none is spawned twice.              *)

(* One task moves on: the tasks that are queued or run remain started.     *)
LEMMA StartedKept ==
    ASSUME TypeOK, StartedInv,
           NEW c \in Conns, NEW s \in Tasks, s # "none",
           task' = [task EXCEPT ![c] = s],
           queue' \in {queue, Append(queue, c)}
              \/ (queue # <<>> /\ queue' = Tail(queue)),
           \A w \in Workers : on'[w] \subseteq on[w] \cup {c}
    PROVE  StartedInv'
<1>1. \A d \in Conns : task[d] # "none" \/ d = c => task'[d] # "none"
    BY DEF TypeOK
<1>2. queue \in Seq(Conns) /\ on \in [Workers -> SUBSET Conns]
    BY DEF TypeOK
<1>3. ASSUME NEW i \in DOMAIN queue' PROVE task'[queue'[i]] # "none"
    <2>1. CASE queue' = queue
        BY <1>1, <1>2, <1>3, <2>1 DEF StartedInv
    <2>2. CASE queue' = Append(queue, c)
        <3>1. \/ i \in DOMAIN queue /\ queue'[i] = queue[i]
              \/ queue'[i] = c
            BY <1>2, <1>3, <2>2
        <3> QED BY <1>1, <1>2, <3>1 DEF StartedInv
    <2>3. CASE queue # <<>> /\ queue' = Tail(queue)
        BY <1>1, <1>2, <1>3, <2>3, QueueType DEF StartedInv
    <2> QED BY <2>1, <2>2, <2>3
<1>4. ASSUME NEW w \in Workers, NEW d \in on'[w] PROVE task'[d] # "none"
    BY <1>1, <1>2, <1>4 DEF StartedInv
<1> QED BY <1>3, <1>4 DEF StartedInv

(* A task that has been spawned stays so, and no other is.                 *)
Spawned == /\ StartedInv'
           /\ \A c \in Conns : task'[c] = "none" <=> task[c] = "none"

(* One started task moves on.                                              *)
LEMMA Moves ==
    ASSUME TypeOK, StartedInv,
           NEW c \in Conns, NEW s \in Tasks, s # "none", task[c] # "none",
           task' = [task EXCEPT ![c] = s],
           queue' \in {queue, Append(queue, c)}
              \/ (queue # <<>> /\ queue' = Tail(queue)),
           \A w \in Workers : on'[w] \subseteq on[w] \cup {c}
    PROVE  Spawned
<1>1. StartedInv'
    BY StartedKept
<1>2. \A d \in Conns : task'[d] = "none" <=> task[d] = "none"
    BY DEF TypeOK
<1> QED BY <1>1, <1>2 DEF Spawned

(* Workers spawn nothing and touch nothing of the acceptors.               *)
LEMMA WorkSpawnsNone ==
    ASSUME TypeOK, StartedInv, NEW w \in Workers, Work(w)
    PROVE  Spawned /\ UNCHANGED acceptVars
<1>1. UNCHANGED acceptVars
    BY DEF Work, Poll, Message, Refused, Panics, Pends, Reads, Ends
<1>2. \A s \in {"queued", "ended", "panicked", "pending", "reading",
                "running"} : s \in Tasks /\ s # "none"
    BY DEF Tasks
<1>3. CASE Poll(w)
    <2> DEFINE c == Head(queue)
    <2>1. c \in Conns /\ task[c] # "none" /\ queue # <<>>
        BY <1>3, QueueType DEF Poll, StartedInv
    <2>2. /\ on' = [on EXCEPT ![w] = {c}]
          /\ task' = [task EXCEPT ![c] = "running"]
          /\ queue' = Tail(queue)
        BY <1>3 DEF Poll
    <2> HIDE DEF c
    <2>3. \A v \in Workers : on'[v] \subseteq on[v] \cup {c}
        BY <2>2 DEF TypeOK
    <2>4. "running" \in Tasks /\ "running" # "none"
        BY <1>2
    <2> QED BY <1>1, <2>1, <2>2, <2>3, <2>4, Moves
<1>4. ASSUME ~ Poll(w) PROVE Spawned
    <2>1. PICK c \in on[w] :
             /\ \/ Release(w, c, "queued") /\ queue' = Append(queue, c)
                \/ Release(w, c, "ended") /\ queue' = queue
                \/ Release(w, c, "panicked") /\ queue' = queue
                \/ Release(w, c, "pending") /\ queue' = queue
                \/ Release(w, c, "reading") /\ queue' = queue
        BY <1>4 DEF Work, Message, YieldNow, Refused, Panics, Pends, Reads,
                    Ends
    <2>2. PICK s \in {"queued", "ended", "panicked", "pending", "reading"} :
             Release(w, c, s) /\ queue' \in {queue, Append(queue, c)}
        BY <2>1
    <2>3. c \in Conns /\ task[c] # "none"
        BY DEF TypeOK, StartedInv
    <2>4. \A v \in Workers : on'[v] \subseteq on[v] \cup {c}
        BY <2>2 DEF Release, TypeOK
    <2>5. task' = [task EXCEPT ![c] = s] /\ s \in Tasks /\ s # "none"
        BY <1>2, <2>2 DEF Release
    <2> QED BY <2>2, <2>3, <2>4, <2>5, Moves
<1> QED BY <1>1, <1>3, <1>4

(* What reaches a spawned task from outside spawns nothing, either.        *)
LEMMA EventSpawnsNone ==
    ASSUME TypeOK, StartedInv, NEW c \in Conns,
           Send(c) \/ Close(c) \/ Expire(c) \/ Resume(c)
    PROVE  Spawned /\ UNCHANGED acceptVars
<1>1. UNCHANGED acceptVars
    BY DEF Send, Close, Expire, Resume
<1>2. task[c] # "none"
    BY DEF Send, Close, Expire, Resume
<1>3. CASE Wake(c)
    <2>1. "queued" \in Tasks /\ "queued" # "none"
        BY DEF Tasks
    <2>2. /\ task' = [task EXCEPT ![c] = "queued"]
          /\ queue' = Append(queue, c)
          /\ \A v \in Workers : on'[v] \subseteq on[v] \cup {c}
        BY <1>3 DEF Wake
    <2> QED BY <1>1, <1>2, <2>1, <2>2, Moves
<1>4. CASE UNCHANGED runtimeVars
    BY <1>1, <1>4 DEF runtimeVars, Spawned, StartedInv
<1>5. Wake(c) \/ UNCHANGED runtimeVars
    BY DEF Send, Close, Expire, Resume, Arrive
<1> QED BY <1>3, <1>4, <1>5

(* Where the acceptors' connections are.                                   *)
KeptInv == HandInv /\ PlaceInv /\ StartedInv /\ AcceptedIsKept

(* The history is one of connections.                                      *)
LEMMA ClaimedConns ==
    ASSUME TypeOK PROVE \A i \in DOMAIN claimed : claimed[i].conn \in Conns
<1> DEFINE E == [conn : Conns, id : 0 .. IdRange - 1]
<1>1. claimed \in Seq(E)
    BY DEF TypeOK
<1>2. \A e \in E : e.conn \in Conns
    OBVIOUS
<1> HIDE DEF E
<1> QED BY <1>1, <1>2

(* A step that spawns nothing and leaves the acceptors alone.              *)
LEMMA RestKept ==
    ASSUME TypeOK, KeptInv, Spawned, UNCHANGED acceptVars
    PROVE  KeptInv'
<1> USE DEF KeptInv, acceptVars
<1>1. HandInv'
    BY DEF HandInv
<1>2. PlaceInv'
    BY DEF PlaceInv, TypeOK, Spawned
<1>3. AcceptedIsKept'
    <2>1. \A i \in DOMAIN claimed : claimed[i].conn \in Conns
        BY ClaimedConns
    <2> QED BY <2>1 DEF AcceptedIsKept, Spawned
<1> QED BY <1>1, <1>2, <1>3 DEF Spawned

(* A socket goes from the backlog into the hands of the loop.              *)
LEMMA AcceptKept ==
    ASSUME TypeOK, KeptInv, NEW a \in Acceptors, Accept(a) PROVE KeptInv'
<1> USE DEF KeptInv, TypeOK
<1>1. PICK c \in backlog[a] : /\ backlog' = [backlog EXCEPT ![a] = @ \ {c}]
                              /\ hand' = [hand EXCEPT ![a] = {c}]
    BY DEF Accept
<1>2. /\ run[a] = "accept" /\ run' = [run EXCEPT ![a] = "accepted"]
      /\ task' = task /\ claimed' = claimed /\ queue' = queue /\ on' = on
      /\ hand[a] = {}
    BY DEF Accept, runtimeVars, HandInv
<1>3. \A b \in Acceptors : /\ hand'[b] = IF b = a THEN {c} ELSE hand[b]
                           /\ run'[b] = IF b = a THEN "accepted" ELSE run[b]
                           /\ backlog'[b] = IF b = a THEN backlog[a] \ {c}
                                                     ELSE backlog[b]
    BY <1>1, <1>2
<1>4. HandInv'
    BY <1>3 DEF HandInv
<1>5. PlaceInv'
    <2>1. c \in backlog[a] /\ hand[a] = {} /\ task' = task
        BY <1>1, <1>2
    <2>2. ASSUME NEW b \in Acceptors, NEW d \in backlog'[b] \cup hand'[b]
          PROVE  task'[d] = "none"
        <3>1. d \in backlog[b] \cup hand[b]
            BY <1>3, <2>1, <2>2
        <3> QED BY <2>1, <3>1 DEF PlaceInv
    <2>3. ASSUME NEW b \in Acceptors, NEW d \in Acceptors
          PROVE  hand'[b] \cap backlog'[d] = {}
        <3>1. hand[b] \cap backlog[d] = {}
            BY DEF PlaceInv
        <3>2. b # d => backlog[b] \cap backlog[d] = {}
            BY DEF PlaceInv
        <3> QED BY <1>3, <2>1, <3>1, <3>2
    <2>4. ASSUME NEW b \in Acceptors, NEW d \in Acceptors, b # d
          PROVE  /\ hand'[b] \cap hand'[d] = {}
                 /\ backlog'[b] \cap backlog'[d] = {}
        <3>1. /\ hand[b] \cap hand[d] = {} /\ hand[b] \cap backlog[d] = {}
              /\ hand[d] \cap backlog[b] = {}
            BY <2>4 DEF PlaceInv
        <3>2. backlog[b] \cap backlog[d] = {}
            BY <2>4 DEF PlaceInv
        <3> QED BY <1>3, <2>1, <2>4, <3>1, <3>2, ZenonT(60)
    <2> QED BY <2>2, <2>3, <2>4 DEF PlaceInv
<1>6. StartedInv'
    BY <1>2 DEF StartedInv
<1>7. AcceptedIsKept'
    <2>1. ASSUME NEW d, NEW b \in Acceptors, run[b] = "named", hand[b] = {d}
          PROVE  run'[b] = "named" /\ hand'[b] = {d}
        BY <1>2, <1>3, <2>1
    <2>2. claimed' = claimed /\ task' = task
        BY <1>2
    <2>3. ASSUME NEW i \in DOMAIN claimed
          PROVE  \/ task'[claimed[i].conn] # "none"
                 \/ \E b \in Acceptors : /\ run'[b] = "named"
                                         /\ hand'[b] = {claimed[i].conn}
        <3>1. CASE task[claimed[i].conn] # "none"
            BY <2>2, <3>1
        <3>2. CASE \E b \in Acceptors : /\ run[b] = "named"
                                       /\ hand[b] = {claimed[i].conn}
            BY <2>1, <3>2
        <3> QED BY <3>1, <3>2 DEF AcceptedIsKept
    <2> QED BY <2>2, <2>3 DEF AcceptedIsKept
<1> QED BY <1>4, <1>5, <1>6, <1>7

(* A claim is made for a socket that has none yet.                         *)
LEMMA NextIdKept ==
    ASSUME TypeOK, KeptInv, NEW a \in Acceptors, NextId(a) PROVE KeptInv'
<1> USE DEF KeptInv
<1>1. /\ run[a] = "accepted" /\ run' = [run EXCEPT ![a] = "named"]
      /\ hand' = hand /\ backlog' = backlog /\ task' = task
      /\ queue' = queue /\ on' = on
    BY DEF NextId, runtimeVars
<1>2. PICK c \in Conns : hand[a] = {c}
    BY <1>1 DEF HandInv
<1>3. \A b \in Acceptors :
         run'[b] = IF b = a THEN "named" ELSE run[b]
    BY <1>1 DEF TypeOK
<1>4. HandInv'
    BY <1>1, <1>3 DEF HandInv
<1>5. PlaceInv' /\ StartedInv'
    BY <1>1 DEF PlaceInv, StartedInv
<1>6. \A i \in DOMAIN claimed : claimed[i].conn # c
    <2> SUFFICES ASSUME NEW i \in DOMAIN claimed, claimed[i].conn = c
                 PROVE  FALSE
        OBVIOUS
    <2>1. task[c] = "none"
        BY <1>2 DEF PlaceInv
    <2>2. PICK b \in Acceptors : run[b] = "named" /\ hand[b] = {c}
        BY <2>1 DEF AcceptedIsKept
    <2>3. a # b
        BY <1>1, <2>2
    <2> QED BY <1>2, <2>2, <2>3 DEF PlaceInv
<1>7. AcceptedIsKept'
    <2> DEFINE n == Len(claimed) + 1
    <2>1. /\ n \in Nat /\ DOMAIN claimed = 1 .. n - 1
          /\ DOMAIN claimed' = 1 .. n
          /\ \A i \in DOMAIN claimed : claimed'[i] = claimed[i]
          /\ claimed'[n].conn = c
        BY <1>2, ClaimEffect
    <2>4. \A i \in DOMAIN claimed' : i \in DOMAIN claimed \/ i = n
        BY <2>1
    <2> HIDE DEF n
    <2>2. ASSUME NEW i \in DOMAIN claimed', NEW j \in DOMAIN claimed', i # j
          PROVE  claimed'[i].conn # claimed'[j].conn
        BY <1>6, <2>1, <2>2, <2>4 DEF AcceptedIsKept
    <2>3. ASSUME NEW i \in DOMAIN claimed'
          PROVE  \/ task'[claimed'[i].conn] # "none"
                 \/ \E b \in Acceptors : /\ run'[b] = "named"
                                         /\ hand'[b] = {claimed'[i].conn}
        <3>1. CASE i = n
            BY <1>1, <1>2, <1>3, <2>1, <3>1
        <3>2. CASE i \in DOMAIN claimed
            <4>1. /\ claimed'[i].conn = claimed[i].conn
                  /\ task' = task /\ hand' = hand
                BY <1>1, <2>1, <3>2
            <4>2. \A b \in Acceptors : run[b] = "named" => run'[b] = "named"
                BY <1>3
            <4>3. \/ task[claimed[i].conn] # "none"
                  \/ \E b \in Acceptors : /\ run[b] = "named"
                                          /\ hand[b] = {claimed[i].conn}
                BY <3>2 DEF AcceptedIsKept
            <4> QED BY <4>1, <4>2, <4>3
        <3> QED BY <2>3, <2>4, <3>1, <3>2
    <2> QED BY <2>2, <2>3 DEF AcceptedIsKept
<1> QED BY <1>4, <1>5, <1>7

(* The task is spawned with the socket the loop had in its hands.          *)
LEMMA SpawnKept ==
    ASSUME TypeOK, KeptInv, NEW a \in Acceptors, Spawn(a) PROVE KeptInv'
<1> USE DEF KeptInv
<1>1. PICK c \in hand[a] : /\ task' = [task EXCEPT ![c] = "queued"]
                           /\ queue' = Append(queue, c)
    BY DEF Spawn
<1>2. /\ run[a] = "named" /\ run' = [run EXCEPT ![a] = "accept"]
      /\ hand' = [hand EXCEPT ![a] = {}]
      /\ backlog' = backlog /\ claimed' = claimed /\ on' = on
      /\ c \in Conns
    BY DEF Spawn, TypeOK
<1>3. hand[a] = {c}
    BY <1>1, <1>2 DEF HandInv
<1>4. /\ \A b \in Acceptors : /\ hand'[b] = IF b = a THEN {} ELSE hand[b]
                              /\ run'[b] = IF b = a THEN "accept" ELSE run[b]
      /\ \A d \in Conns : task'[d] = IF d = c THEN "queued" ELSE task[d]
    BY <1>1, <1>2 DEF TypeOK
<1>5. HandInv'
    BY <1>4 DEF HandInv
<1>6. PlaceInv'
    <2>1. \A b \in Acceptors : /\ c \notin backlog[b]
                              /\ b # a => c \notin hand[b]
        BY <1>3 DEF PlaceInv
    <2>2. \A b \in Acceptors : backlog[b] \cup hand[b] \subseteq Conns
        BY DEF TypeOK
    <2>3. \A b \in Acceptors : \A d \in backlog'[b] \cup hand'[b] :
             task'[d] = "none"
        BY <1>2, <1>4, <2>1, <2>2 DEF PlaceInv
    <2>4. \A b, d \in Acceptors :
             /\ hand'[b] \cap backlog'[d] = {}
             /\ b # d => /\ hand'[b] \cap hand'[d] = {}
                         /\ backlog'[b] \cap backlog'[d] = {}
        BY <1>2, <1>4 DEF PlaceInv
    <2> QED BY <2>3, <2>4 DEF PlaceInv
<1>7. StartedInv'
    <2>1. "queued" \in Tasks /\ "queued" # "none"
        BY DEF Tasks
    <2>2. \A v \in Workers : on'[v] \subseteq on[v] \cup {c}
        BY <1>2
    <2> QED BY <1>1, <1>2, <2>1, <2>2, StartedKept
<1>8. AcceptedIsKept'
    <2>1. \A i \in DOMAIN claimed : claimed[i].conn \in Conns
        BY ClaimedConns
    <2>2. ASSUME NEW i \in DOMAIN claimed
          PROVE  \/ task'[claimed[i].conn] # "none"
                 \/ \E b \in Acceptors : /\ run'[b] = "named"
                                         /\ hand'[b] = {claimed[i].conn}
        <3>1. CASE claimed[i].conn = c
            BY <1>2, <1>4, <3>1
        <3>2. CASE claimed[i].conn # c
            BY <1>3, <1>4, <2>1, <3>2 DEF AcceptedIsKept
        <3> QED BY <3>1, <3>2
    <2> QED BY <1>2, <2>2 DEF AcceptedIsKept
<1> QED BY <1>5, <1>6, <1>7, <1>8

(* An error of accept, another call of run, a new connection.              *)
LEMMA LoopEndsKept ==
    ASSUME TypeOK, KeptInv, NEW a \in Acceptors,
           AcceptFails(a) \/ RunAgain(a)
    PROVE  KeptInv'
<1> USE DEF KeptInv
<1>1. /\ hand' = hand /\ backlog' = backlog /\ task' = task
      /\ queue' = queue /\ on' = on /\ claimed' = claimed
      /\ run[a] \in {"accept", "returned"}
      /\ \E s \in {"accept", "returned"} : run' = [run EXCEPT ![a] = s]
    BY DEF AcceptFails, RunAgain, runtimeVars
<1>2. \A b \in Acceptors : \/ run'[b] = run[b]
                           \/ /\ run[b] \notin {"accepted", "named"}
                              /\ run'[b] \notin {"accepted", "named"}
    BY <1>1 DEF TypeOK
<1>3. HandInv' /\ AcceptedIsKept'
    BY <1>1, <1>2 DEF HandInv, AcceptedIsKept
<1> QED BY <1>1, <1>3 DEF PlaceInv, StartedInv

(* A new connection waits in one listening socket.                         *)
LEMMA ConnectKept ==
    ASSUME TypeOK, KeptInv, NEW c \in Conns, Connect(c) PROVE KeptInv'
<1> USE DEF KeptInv
<1>1. PICK a \in Acceptors : backlog' = [backlog EXCEPT ![a] = @ \cup {c}]
    BY DEF Connect
<1>2. /\ hand' = hand /\ task' = task /\ queue' = queue /\ on' = on
      /\ claimed' = claimed /\ run' = run /\ task[c] = "none"
      /\ \A b \in Acceptors : c \notin backlog[b] \cup hand[b]
    BY DEF Connect, runtimeVars
<1>3. \A b \in Acceptors :
         backlog'[b] = IF b = a THEN backlog[b] \cup {c} ELSE backlog[b]
    BY <1>1 DEF TypeOK
<1>4. PlaceInv'
    <2>1. ASSUME NEW b \in Acceptors, NEW d \in backlog'[b] \cup hand'[b]
          PROVE  task'[d] = "none"
        <3>1. d = c \/ d \in backlog[b] \cup hand[b]
            BY <1>2, <1>3, <2>1
        <3> QED BY <1>2, <3>1 DEF PlaceInv
    <2>2. ASSUME NEW b \in Acceptors, NEW d \in Acceptors
          PROVE  hand'[b] \cap backlog'[d] = {}
        <3>1. hand[b] \cap backlog[d] = {} /\ c \notin hand[b]
            BY <1>2 DEF PlaceInv
        <3>2. hand'[b] = hand[b] /\ backlog'[d] \subseteq backlog[d] \cup {c}
            BY <1>2, <1>3
        <3> QED BY <3>1, <3>2
    <2>3. ASSUME NEW b \in Acceptors, NEW d \in Acceptors, b # d
          PROVE  /\ hand'[b] \cap hand'[d] = {}
                 /\ backlog'[b] \cap backlog'[d] = {}
        <3>1. /\ hand[b] \cap hand[d] = {} /\ backlog[b] \cap backlog[d] = {}
              /\ c \notin backlog[b] /\ c \notin backlog[d]
            BY <1>2, <2>3 DEF PlaceInv
        <3>2. backlog'[b] = backlog[b] \/ backlog'[d] = backlog[d]
            BY <1>3, <2>3
        <3>3. /\ backlog'[b] \subseteq backlog[b] \cup {c}
              /\ backlog'[d] \subseteq backlog[d] \cup {c}
            BY <1>3
        <3> QED BY <1>2, <3>1, <3>2, <3>3
    <2> QED BY <2>1, <2>2, <2>3 DEF PlaceInv
<1> QED BY <1>2, <1>4 DEF HandInv, StartedInv, AcceptedIsKept

(* Every step keeps the invariant.                                         *)
LEMMA KeptStep == TypeOK /\ KeptInv /\ [Next]_vars => KeptInv'
<1> SUFFICES ASSUME TypeOK, KeptInv, [Next]_vars PROVE KeptInv'
    OBVIOUS
<1>1. CASE UNCHANGED vars
    BY <1>1 DEF vars, acceptVars, runtimeVars, KeptInv, HandInv, PlaceInv,
                StartedInv, AcceptedIsKept
<1>2. ASSUME NEW a \in Acceptors, Loop(a) \/ AcceptFails(a) \/ RunAgain(a)
      PROVE  KeptInv'
    BY <1>2, AcceptKept, NextIdKept, SpawnKept, LoopEndsKept DEF Loop
<1>3. ASSUME NEW w \in Workers, Work(w) PROVE KeptInv'
    <2>1. StartedInv
        BY DEF KeptInv
    <2>2. Spawned /\ UNCHANGED acceptVars
        BY <1>3, <2>1, WorkSpawnsNone
    <2> QED BY <2>2, RestKept
<1>4. ASSUME NEW c \in Conns, Environment(c) PROVE KeptInv'
    <2>1. StartedInv
        BY DEF KeptInv
    <2>2. CASE Connect(c)
        BY <2>2, ConnectKept
    <2>3. CASE ~ Connect(c)
        <3>1. Spawned /\ UNCHANGED acceptVars
            BY <1>4, <2>1, <2>3, EventSpawnsNone DEF Environment
        <3> QED BY <3>1, RestKept
    <2> QED BY <2>2, <2>3
<1> QED BY <1>1, <1>2, <1>3, <1>4 DEF Next

(* Every socket that is accepted gets one id and one task; neither an      *)
(* error of accept nor the other acceptors can come in between.            *)
THEOREM AcceptedStaysKept == Spec => []AcceptedIsKept
<1>1. Init => KeptInv
    BY DEF Init, KeptInv, HandInv, PlaceInv, StartedInv, AcceptedIsKept
<1>2. TypeOK /\ KeptInv /\ [Next]_vars => (TypeOK /\ KeptInv)'
    BY TypeStep, KeptStep
<1>3. KeptInv => AcceptedIsKept
    BY DEF KeptInv
<1> QED BY InitTypeOK, <1>1, <1>2, <1>3, PTL DEF Spec
=============================================================================
