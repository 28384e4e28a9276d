--------------------------- MODULE ThreadPoolProofs ---------------------------
(***************************************************************************)
(* Theorems about ThreadPool for any number of workers, connections and     *)
(* panics: the safety invariants, and that every step of the pool is one    *)
(* the Service allows.                                                      *)
(***************************************************************************)
EXTENDS ThreadPool, FiniteSetTheorems, SequenceTheorems, TLAPS

Messages == Jobs \cup {Terminate}

Terminates(q) == {i \in DOMAIN q : q[i] = Terminate}

(* The same connection is not in the channel twice. *)
NoneTwice(q) == \A i, j \in DOMAIN q : q[i] = q[j] /\ q[i] # Terminate => i = j

(* Nothing comes after a Terminate but Terminates. *)
TerminatesLast(q) == \A i, j \in DOMAIN q : i < j /\ q[i] = Terminate => q[j] = Terminate

-------------------------------------------------------------------------------
(* The channel.                                                             *)

LEMMA EmptyChannel ==
    /\ <<>> \in Seq(Messages) /\ Connections(<<>>) = {} /\ Terminates(<<>>) = {}
    /\ NoneTwice(<<>>) /\ TerminatesLast(<<>>)
BY EmptySeq DEF Connections, Terminates, NoneTwice, TerminatesLast

(* send() adds its message behind the others. *)
LEMMA AppendPositions ==
    ASSUME NEW q \in Seq(Messages), NEW m \in Messages
    PROVE  /\ Append(q, m) \in Seq(Messages)
           /\ DOMAIN q = 1 .. Len(q) /\ Len(q) \in Nat
           /\ DOMAIN Append(q, m) = 1 .. Len(q) + 1
           /\ \A i \in DOMAIN q : Append(q, m)[i] = q[i]
           /\ Append(q, m)[Len(q) + 1] = m
<1>1. Len(q) \in Nat /\ DOMAIN q = 1 .. Len(q)
    BY LenProperties
<1> QED
    BY <1>1

LEMMA SendAppends ==
    ASSUME NEW q \in Seq(Messages), NEW m \in Messages
    PROVE  /\ Connections(Append(q, m)) = Connections(q) \cup ({m} \ {Terminate})
           /\ m = Terminate => Terminates(Append(q, m)) = Terminates(q) \cup {Len(q) + 1}
           /\ m # Terminate => Terminates(Append(q, m)) = Terminates(q)
           /\ NoneTwice(q) /\ m \notin Connections(q) => NoneTwice(Append(q, m))
           /\ TerminatesLast(q) /\ (m = Terminate \/ Terminates(q) = {})
                => TerminatesLast(Append(q, m))
<1> DEFINE r == Append(q, m)
<1>1. /\ DOMAIN q = 1 .. Len(q) /\ Len(q) \in Nat
      /\ DOMAIN r = 1 .. Len(q) + 1
      /\ \A i \in DOMAIN q : r[i] = q[i]
      /\ r[Len(q) + 1] = m
    BY AppendPositions
<1>2. DOMAIN r = DOMAIN q \cup {Len(q) + 1} /\ Len(q) + 1 \notin DOMAIN q
    BY <1>1
<1> HIDE DEF r
<1>3. Connections(r) = Connections(q) \cup ({m} \ {Terminate})
    BY <1>1, <1>2 DEF Connections
<1>4. /\ m = Terminate => Terminates(r) = Terminates(q) \cup {Len(q) + 1}
      /\ m # Terminate => Terminates(r) = Terminates(q)
    BY <1>1, <1>2 DEF Terminates
<1>5. NoneTwice(q) /\ m \notin Connections(q) => NoneTwice(r)
    BY <1>1, <1>2 DEF NoneTwice, Connections
<1>6. TerminatesLast(q) /\ (m = Terminate \/ Terminates(q) = {}) => TerminatesLast(r)
    BY <1>1, <1>2 DEF TerminatesLast, Terminates
<1> QED
    BY <1>3, <1>4, <1>5, <1>6 DEF r

(* recv() takes the first message, and the rest moves up. *)
LEMMA TailPositions ==
    ASSUME NEW q \in Seq(Messages), q # <<>>
    PROVE  /\ DOMAIN q = 1 .. Len(q) /\ Len(q) \in Nat \ {0}
           /\ Head(q) = q[1] /\ Head(q) \in Messages
           /\ Tail(q) \in Seq(Messages)
           /\ DOMAIN Tail(q) = 1 .. Len(q) - 1
           /\ \A i \in DOMAIN Tail(q) : Tail(q)[i] = q[i + 1]
<1>1. Len(q) \in Nat \ {0} /\ DOMAIN q = 1 .. Len(q)
    BY LenProperties, EmptySeq
<1>2. /\ Head(q) \in Messages /\ Tail(q) \in Seq(Messages)
      /\ Len(Tail(q)) = Len(q) - 1
      /\ \A i \in 1 .. Len(Tail(q)) : Tail(q)[i] = q[i + 1]
    BY HeadTailProperties
<1>3. DOMAIN Tail(q) = 1 .. Len(Tail(q))
    BY <1>2, LenProperties
<1>4. Head(q) = q[1]
    BY <1>1
<1> QED
    BY <1>1, <1>2, <1>3, <1>4

LEMMA RecvTakesTheHead ==
    ASSUME NEW q \in Seq(Messages), q # <<>>, NoneTwice(q), TerminatesLast(q)
    PROVE  /\ Connections(q) = Connections(Tail(q)) \cup ({Head(q)} \ {Terminate})
           /\ Head(q) \notin Connections(Tail(q))
           /\ Head(q) = Terminate => Connections(Tail(q)) = {}
           /\ NoneTwice(Tail(q))
           /\ TerminatesLast(Tail(q))
<1> DEFINE r == Tail(q)
<1>1. /\ DOMAIN q = 1 .. Len(q) /\ Len(q) \in Nat \ {0}
      /\ Head(q) = q[1]
      /\ DOMAIN r = 1 .. Len(q) - 1
      /\ \A i \in DOMAIN r : r[i] = q[i + 1]
    BY TailPositions
<1> HIDE DEF r
<1>2. \A i \in DOMAIN r : i + 1 \in DOMAIN q /\ 1 \in DOMAIN q /\ 1 < i + 1 /\ r[i] = q[i + 1]
    BY <1>1
<1>3. \A i \in DOMAIN q : i = 1 \/ (i - 1 \in DOMAIN r /\ r[i - 1] = q[i])
    BY <1>1
<1>4. Connections(q) = Connections(r) \cup ({Head(q)} \ {Terminate})
    BY <1>1, <1>2, <1>3 DEF Connections
<1>5. Head(q) \notin Connections(r)
    BY <1>1, <1>2 DEF Connections, NoneTwice
<1>6. Head(q) = Terminate => Connections(r) = {}
    BY <1>1, <1>2 DEF Connections, TerminatesLast
<1>7. NoneTwice(r)
    BY <1>1, <1>2 DEF NoneTwice
<1>8. TerminatesLast(r)
    BY <1>1, <1>2 DEF TerminatesLast
<1> QED
    BY <1>4, <1>5, <1>6, <1>7, <1>8 DEF r

LEMMA TerminatesFinite ==
    ASSUME NEW q \in Seq(Messages)
    PROVE  IsFiniteSet(Terminates(q)) /\ Cardinality(Terminates(q)) \in Nat
<1>1. Len(q) \in Nat /\ Terminates(q) \subseteq 1 .. Len(q)
    BY LenProperties DEF Terminates
<1>2. IsFiniteSet(1 .. Len(q))
    BY <1>1, FS_Interval
<1> QED
    BY <1>1, <1>2, FS_Subset, FS_CardinalityType

(* Only a Terminate that is received leaves the channel. *)
LEMMA RecvCounts ==
    ASSUME NEW q \in Seq(Messages), q # <<>>
    PROVE  Cardinality(Terminates(q)) =<
               Cardinality(Terminates(Tail(q))) + (IF Head(q) = Terminate THEN 1 ELSE 0)
<1> DEFINE r == Tail(q)
           f == [i \in Terminates(q) \ {1} |-> i - 1]
<1>1. /\ DOMAIN q = 1 .. Len(q) /\ Len(q) \in Nat \ {0}
      /\ Head(q) = q[1] /\ r \in Seq(Messages)
      /\ DOMAIN r = 1 .. Len(q) - 1
      /\ \A i \in DOMAIN r : r[i] = q[i + 1]
    BY TailPositions
<1>2. IsFiniteSet(Terminates(q)) /\ Cardinality(Terminates(q)) \in Nat
    BY TerminatesFinite
<1>3. IsFiniteSet(Terminates(r)) /\ Cardinality(Terminates(r)) \in Nat
    BY <1>1, TerminatesFinite
<1> HIDE DEF r
<1>4. f \in Injection(Terminates(q) \ {1}, Terminates(r))
    <2>1. \A i \in Terminates(q) \ {1} : i \in Nat /\ i - 1 \in Terminates(r)
        BY <1>1 DEF Terminates
    <2> QED
        BY <2>1 DEF Injection, IsInjective
<1>5. Cardinality(Terminates(q) \ {1}) =< Cardinality(Terminates(r))
    BY <1>3, <1>4, FS_Injection
<1>6. Cardinality(Terminates(q) \ {1}) =
          IF 1 \in Terminates(q) THEN Cardinality(Terminates(q)) - 1 ELSE Cardinality(Terminates(q))
    BY <1>2, FS_RemoveElement
<1>7. 1 \in Terminates(q) <=> Head(q) = Terminate
    BY <1>1 DEF Terminates
<1> QED
    BY <1>2, <1>3, <1>5, <1>6, <1>7 DEF r

-------------------------------------------------------------------------------
(* The inductive invariant.                                                 *)

Stopped == {w \in Workers : worker[w] = "stopped"}

Dead == {w \in Workers : worker[w] = "dead"}

Channel ==
    /\ NoneTwice(queue)
    /\ TerminatesLast(queue)
    /\ ReceiverThere \/ queue = <<>>

(* Every connection that was accepted is in one place only. *)
Placed ==
    /\ \A w \in Workers : job[w] # NoJob <=> worker[w] = "busy"
    /\ 1 .. accepted = Connections(queue) \cup InHand \cup answered \cup closed
    /\ Connections(queue) \cap (answered \cup closed) = {}
    /\ answered \cap closed = {}

(* A worker stops only when the connections are out of the channel, one is    *)
(* closed only after a panic, and the joins pass the workers that stopped.    *)
Shutdown ==
    /\ main = "accepting" => count = 0 /\ Terminates(queue) = {} /\ Stopped = {}
    /\ Stopped # {} => Connections(queue) = {}
    /\ closed # {} => Dead # {}
    /\ main = "joining" => 1 .. count \subseteq Stopped
    /\ main = "dropped" => Stopped = Workers

(* There is a Terminate for each worker that is left, those still to be sent  *)
(* included.                                                                  *)
TerminateForEach ==
    /\ main = "terminating" =>
          Cardinality(Alive) =< Cardinality(Terminates(queue)) + (Size - count)
    /\ main \in {"joining", "panicked"} =>
          Cardinality(Alive) =< Cardinality(Terminates(queue))

IInv == TypeOK /\ HandledOnce /\ Channel /\ Placed /\ Shutdown /\ TerminateForEach

LEMMA WorkersFinite ==
    /\ IsFiniteSet(Workers) /\ Cardinality(Workers) = Size
    /\ \A S \in SUBSET Workers : IsFiniteSet(S) /\ Cardinality(S) \in 0 .. Size
<1>1. IsFiniteSet(Workers) /\ Cardinality(Workers) = Size
    BY PoolAssumption, FS_Interval DEF Workers
<1>2. ASSUME NEW S \in SUBSET Workers PROVE IsFiniteSet(S) /\ Cardinality(S) \in 0 .. Size
    <2>1. IsFiniteSet(S) /\ Cardinality(S) =< Size
        BY <1>1, FS_Subset
    <2> QED
        BY <2>1, FS_CardinalityType, PoolAssumption
<1> QED
    BY <1>1, <1>2

LEMMA InitIInv == Init => IInv
<1> SUFFICES ASSUME Init PROVE IInv
    OBVIOUS
<1> USE DEF Init
<1>1. TypeOK
    BY PoolAssumption, EmptyChannel DEF TypeOK, Messages
<1>2. InHand = {}
    BY DEF InHand
<1>3. HandledOnce
    BY <1>2 DEF HandledOnce
<1>4. Channel
    BY EmptyChannel DEF Channel
<1>5. Placed
    BY <1>2, EmptyChannel DEF Placed, NoJob
<1>6. Shutdown
    BY EmptyChannel DEF Shutdown, Stopped
<1> QED
    BY <1>1, <1>3, <1>4, <1>5, <1>6 DEF IInv, TerminateForEach

-------------------------------------------------------------------------------
(* A worker leaves.                                                         *)

(* The thread that ends is one alive less; what is left in the channel stays  *)
(* there or, with the last receiver, is closed.                               *)
LEMMA LeaveEffect ==
    ASSUME IInv, NEW w \in Workers, w \notin Gone, NEW how \in {"stopped", "dead"},
           NEW rest, NEW lost, Leave(w, how, rest, lost)
    PROVE  /\ worker' = [worker EXCEPT ![w] = how]
           /\ worker' \in [Workers -> {"starting", "waiting", "receiving", "busy", "stopped", "dead"}]
           /\ Gone' = Gone \cup {w}
           /\ Cardinality(Alive') = Cardinality(Alive) - 1
           /\ Stopped' = IF how = "stopped" THEN Stopped \cup {w} ELSE Stopped
           /\ Dead' = IF how = "dead" THEN Dead \cup {w} ELSE Dead
           /\ \/ Alive' = {} /\ queue' = <<>> /\ closed' = closed \cup lost \cup Connections(rest)
              \/ ReceiverThere' /\ queue' = rest /\ closed' = closed \cup lost
<1>1. worker' = [worker EXCEPT ![w] = how]
    BY DEF Leave
<1>2. worker \in [Workers -> {"starting", "waiting", "receiving", "busy", "stopped", "dead"}]
    BY DEF IInv, TypeOK
<1>3. Gone' = Gone \cup {w} /\ Gone \subseteq Workers
    BY <1>1, <1>2 DEF Gone
<1>4. Alive' = Alive \ {w} /\ w \in Alive /\ Alive \subseteq Workers
    BY <1>3 DEF Alive
<1>5. Cardinality(Alive') = Cardinality(Alive) - 1
    BY <1>4, WorkersFinite, FS_RemoveElement
<1>6. Stopped' = IF how = "stopped" THEN Stopped \cup {w} ELSE Stopped
    BY <1>1, <1>2 DEF Stopped, Gone
<1>7. Dead' = IF how = "dead" THEN Dead \cup {w} ELSE Dead
    BY <1>1, <1>2 DEF Dead, Gone
<1>8. CASE Workers \ {w} \subseteq Gone
    BY <1>1, <1>2, <1>3, <1>5, <1>6, <1>7, <1>8 DEF Leave, Alive
<1>9. CASE ~ (Workers \ {w} \subseteq Gone)
    BY <1>1, <1>2, <1>3, <1>5, <1>6, <1>7, <1>9 DEF Leave, ReceiverThere
<1> QED
    BY <1>8, <1>9

(* The hands after one worker took a connection, or let go of it. *)
LEMMA HandsFilled ==
    ASSUME IInv, NEW w \in Workers, job[w] = NoJob, NEW c \in Jobs,
           job' = [job EXCEPT ![w] = c]
    PROVE  InHand' = InHand \cup {c}
BY DEF IInv, TypeOK, InHand, Jobs, NoJob

LEMMA HandsEmptied ==
    ASSUME IInv, NEW w \in Workers, job[w] # NoJob, job' = [job EXCEPT ![w] = NoJob]
    PROVE  InHand' = InHand \ {job[w]} /\ job[w] \in InHand /\ job[w] \in Jobs
BY DEF IInv, TypeOK, HandledOnce, InHand

(* The connections stay in one place each when a thread ends: the one in its  *)
(* hands is closed, and those in the channel with it if it was the last.      *)
LEMMA LeavePlaced ==
    ASSUME IInv, NEW w \in Workers, w \notin Gone, NEW how \in {"stopped", "dead"},
           NEW rest \in Seq(Messages),
           Leave(w, how, rest, {job[w]} \ {NoJob}), job' = [job EXCEPT ![w] = NoJob],
           UNCHANGED <<accepted, answered>>,
           Connections(rest) = Connections(queue), NoneTwice(rest), TerminatesLast(rest)
    PROVE  /\ closed' \subseteq Jobs /\ queue' \in Seq(Messages)
           /\ HandledOnce' /\ Channel' /\ Placed'
<1> DEFINE lost == {job[w]} \ {NoJob}
<1>1. InHand' = InHand \ lost /\ lost \subseteq InHand /\ lost \subseteq Jobs
    <2>1. CASE job[w] = NoJob
        <3>1. job' = job
            BY <2>1 DEF IInv, TypeOK
        <3> QED
            BY <2>1, <3>1 DEF InHand
    <2>2. CASE job[w] # NoJob
        BY <2>2, HandsEmptied
    <2> QED
        BY <2>1, <2>2
<1>2. /\ worker' = [worker EXCEPT ![w] = how]
      /\ \/ Alive' = {} /\ queue' = <<>> /\ closed' = closed \cup lost \cup Connections(rest)
         \/ ReceiverThere' /\ queue' = rest /\ closed' = closed \cup lost
    BY LeaveEffect
<1> HIDE DEF lost
<1>3. Connections(rest) \subseteq Jobs /\ closed \subseteq Jobs
    <2>1. \A i \in DOMAIN rest : rest[i] \in Messages
        BY LenProperties, ElementOfSeq
    <2> QED
        BY <2>1 DEF Connections, Messages, IInv, TypeOK
<1>4. closed' \subseteq Jobs /\ queue' \in Seq(Messages)
    BY <1>1, <1>2, <1>3, EmptyChannel
<1>5. Connections(queue') \cup closed' = Connections(queue) \cup closed \cup lost
    BY <1>2, EmptyChannel
<1>6. InHand \cap (Connections(queue) \cup answered \cup closed) = {}
    BY DEF IInv, HandledOnce
<1>7. Connections(queue) \cap (answered \cup closed) = {} /\ answered \cap closed = {}
    BY DEF IInv, Placed
<1>8. HandledOnce'
    <2>1. \A u, v \in Workers : u # v /\ job'[u] # NoJob => job'[u] # job'[v]
        BY DEF IInv, TypeOK, HandledOnce
    <2>2. InHand' \cap (Connections(queue') \cup answered' \cup closed') = {}
        BY <1>1, <1>5, <1>6
    <2> QED
        BY <2>1, <2>2 DEF HandledOnce
<1>9. Channel'
    BY <1>2, EmptyChannel DEF Channel
<1>10. Placed'
    <2>1. \A v \in Workers : job'[v] # NoJob <=> worker'[v] = "busy"
        BY <1>2 DEF IInv, TypeOK, Placed
    <2>2. 1 .. accepted' = Connections(queue') \cup InHand' \cup answered' \cup closed'
        BY <1>1, <1>5 DEF IInv, Placed
    <2>3. Connections(queue') \cap (answered' \cup closed') = {}
        BY <1>1, <1>2, <1>6, <1>7, EmptyChannel
    <2>4. answered' \cap closed' = {}
        BY <1>1, <1>2, <1>6, <1>7
    <2> QED
        BY <2>1, <2>2, <2>3, <2>4 DEF Placed
<1> QED
    BY <1>4, <1>8, <1>9, <1>10

-------------------------------------------------------------------------------
(* Every step keeps the invariant.  First the owner's.                      *)

(* Until the pool is dropped nobody has stopped. *)
LEMMA AcceptIInv == IInv /\ Accept => IInv'
<1> SUFFICES ASSUME IInv, Accept PROVE IInv'
    OBVIOUS
<1> DEFINE c == accepted + 1
<1>1. /\ main = "accepting" /\ accepted' = c /\ c \in Jobs /\ c \notin 1 .. accepted
      /\ 1 .. c = (1 .. accepted) \cup {c} /\ c # Terminate /\ c # NoJob
      /\ UNCHANGED <<main, count, worker, job, answered>>
    <2>1. accepted \in 0 .. MaxJobs /\ accepted < MaxJobs
        BY DEF Accept, IInv, TypeOK
    <2>2. c \in 1 .. MaxJobs /\ c \notin 1 .. accepted /\ c # 0 /\ 1 .. c = (1 .. accepted) \cup {c}
        BY <2>1, PoolAssumption
    <2> QED
        BY <2>2 DEF Accept, Jobs, Terminate, NoJob
<1>2. IF ReceiverThere THEN queue' = Append(queue, c) /\ UNCHANGED closed
      ELSE closed' = closed \cup {c} /\ UNCHANGED queue
    BY DEF Accept
<1> HIDE DEF c
<1>3. queue \in Seq(Messages) /\ c \in Messages
    BY <1>1 DEF IInv, TypeOK, Messages
<1>4. c \notin Connections(queue) \cup InHand \cup answered \cup closed
    BY <1>1 DEF IInv, Placed
<1>5. Terminates(queue) = {}
    BY <1>1 DEF IInv, Shutdown
<1>6. UNCHANGED <<InHand, Alive, ReceiverThere, Stopped, Dead>>
    BY <1>1 DEF InHand, Alive, ReceiverThere, Gone, Stopped, Dead
<1>7. CASE ReceiverThere
    <2>1. queue' = Append(queue, c) /\ closed' = closed
        BY <1>2, <1>7
    <2>2. /\ queue' \in Seq(Messages) /\ Connections(queue') = Connections(queue) \cup {c}
          /\ Terminates(queue') = {} /\ NoneTwice(queue') /\ TerminatesLast(queue')
        BY <1>1, <1>3, <1>4, <1>5, <2>1, SendAppends, AppendPositions DEF IInv, Channel
    <2>3. TypeOK'
        BY <1>1, <2>1, <2>2 DEF IInv, TypeOK, Messages, Jobs
    <2>4. HandledOnce'
        BY <1>1, <1>4, <1>6, <2>1, <2>2 DEF IInv, HandledOnce
    <2>5. Channel'
        BY <1>6, <1>7, <2>2 DEF Channel
    <2>6. Placed'
        BY <1>1, <1>4, <1>6, <2>1, <2>2 DEF IInv, Placed
    <2>7. Shutdown' /\ TerminateForEach'
        BY <1>1, <1>6, <2>1, <2>2 DEF IInv, Shutdown, TerminateForEach
    <2> QED
        BY <2>3, <2>4, <2>5, <2>6, <2>7 DEF IInv
<1>8. CASE ~ReceiverThere
    <2>1. closed' = closed \cup {c} /\ queue' = queue
        BY <1>2, <1>8
    <2>2. TypeOK'
        BY <1>1, <2>1 DEF IInv, TypeOK, Jobs
    <2>3. HandledOnce'
        BY <1>1, <1>4, <1>6, <2>1 DEF IInv, HandledOnce
    <2>4. Channel'
        BY <1>6, <2>1 DEF IInv, Channel
    <2>5. Placed'
        BY <1>1, <1>4, <1>6, <2>1 DEF IInv, Placed
    <2>6. Dead # {}
        <3>1. 1 \in Workers
            BY PoolAssumption DEF Workers
        <3>2. Stopped = {} /\ Gone = Workers
            BY <1>1, <1>8 DEF IInv, Shutdown, ReceiverThere
        <3> QED
            BY <3>1, <3>2 DEF Gone, Stopped, Dead
    <2>7. Shutdown' /\ TerminateForEach'
        BY <1>1, <1>6, <2>1, <2>6 DEF IInv, Shutdown, TerminateForEach
    <2> QED
        BY <2>2, <2>3, <2>4, <2>5, <2>7 DEF IInv
<1> QED
    BY <1>7, <1>8

LEMMA DropIInv == IInv /\ Drop => IInv'
<1> SUFFICES ASSUME IInv, Drop PROVE IInv'
    OBVIOUS
<1>1. /\ main = "accepting" /\ main' = "terminating"
      /\ UNCHANGED <<count, accepted, queue, worker, job, answered, closed>>
    BY DEF Drop
<1>2. UNCHANGED <<InHand, Gone, Alive, ReceiverThere, Stopped, Dead>>
    BY <1>1 DEF InHand, Alive, ReceiverThere, Gone, Stopped, Dead
<1>3. TypeOK' /\ HandledOnce' /\ Channel' /\ Placed' /\ Shutdown'
    BY <1>1, <1>2 DEF IInv, TypeOK, HandledOnce, Channel, Placed, Shutdown
<1>4. Cardinality(Alive) \in 0 .. Size
    BY WorkersFinite DEF Alive
<1>5. Cardinality(Terminates(queue)) \in Nat
    BY TerminatesFinite DEF IInv, TypeOK, Messages
<1>6. count = 0
    BY <1>1 DEF IInv, Shutdown
<1>7. TerminateForEach'
    BY <1>1, <1>2, <1>4, <1>5, <1>6, PoolAssumption DEF TerminateForEach
<1> QED
    BY <1>3, <1>7 DEF IInv

(* The count of the loops over the workers, which starts again after the last. *)
LEMMA Wraps ==
    ASSUME NEW i \in 1 .. Size
    PROVE  i % Size = (IF i = Size THEN 0 ELSE i) /\ i % Size \in 0 .. Size - 1
BY PoolAssumption

LEMMA SendTerminateIInv == IInv /\ SendTerminate => IInv'
<1> SUFFICES ASSUME IInv, SendTerminate PROVE IInv'
    OBVIOUS
<1>1. /\ main = "terminating" /\ main' \in {"terminating", "joining", "panicked"}
      /\ UNCHANGED <<accepted, worker, job, answered, closed>>
    BY DEF SendTerminate
<1>2. UNCHANGED <<InHand, Gone, Alive, ReceiverThere, Stopped, Dead>>
    BY <1>1 DEF InHand, Alive, ReceiverThere, Gone, Stopped, Dead
<1>3. queue \in Seq(Messages) /\ Terminate \in Messages /\ count \in 0 .. Size - 1
    BY DEF IInv, TypeOK, Messages
<1>4. Cardinality(Alive) \in 0 .. Size /\ Cardinality(Terminates(queue)) \in Nat
    BY <1>3, WorkersFinite, TerminatesFinite DEF Alive
<1>5. CASE ReceiverThere
    <2>1. /\ queue' = Append(queue, Terminate)
          /\ main' = IF count + 1 = Size THEN "joining" ELSE main
          /\ count' = (count + 1) % Size
        BY <1>5 DEF SendTerminate
    <2>2. /\ queue' \in Seq(Messages) /\ Connections(queue') = Connections(queue)
          /\ Terminates(queue') = Terminates(queue) \cup {Len(queue) + 1}
          /\ NoneTwice(queue') /\ TerminatesLast(queue')
        <3>1. Terminate \notin Connections(queue)
            BY DEF Connections
        <3>2. NoneTwice(queue) /\ TerminatesLast(queue)
            BY DEF IInv, Channel
        <3>3. /\ Connections(queue') = Connections(queue) \cup ({Terminate} \ {Terminate})
              /\ Terminates(queue') = Terminates(queue) \cup {Len(queue) + 1}
              /\ NoneTwice(queue') /\ TerminatesLast(queue')
            BY <1>3, <2>1, <3>1, <3>2, SendAppends
        <3> QED
            BY <1>3, <2>1, <3>3, AppendPositions
    <2>3. Cardinality(Terminates(queue')) = Cardinality(Terminates(queue)) + 1
        <3>1. Len(queue) + 1 \notin Terminates(queue)
            BY <1>3, LenProperties DEF Terminates
        <3> QED
            BY <1>3, <2>2, <3>1, TerminatesFinite, FS_AddElement
    <2>4. count' = (IF count + 1 = Size THEN 0 ELSE count + 1) /\ count' \in 0 .. Size - 1
        <3>1. count + 1 \in 1 .. Size
            BY <1>3, PoolAssumption
        <3> QED
            BY <1>3, <2>1, <3>1, Wraps
    <2>5. TypeOK'
        BY <1>1, <2>2, <2>4 DEF IInv, TypeOK, Messages
    <2>6. HandledOnce' /\ Placed'
        BY <1>1, <1>2, <2>2 DEF IInv, HandledOnce, Placed
    <2>7. Channel'
        BY <1>2, <1>5, <2>2 DEF Channel
    <2>8. Shutdown'
        BY <1>1, <1>2, <2>1, <2>2, <2>4 DEF IInv, Shutdown
    <2>9. TerminateForEach'
        BY <1>1, <1>2, <1>3, <1>4, <2>1, <2>3, <2>4, PoolAssumption DEF IInv, TerminateForEach
    <2> QED
        BY <2>5, <2>6, <2>7, <2>8, <2>9 DEF IInv
<1>6. CASE ~ReceiverThere
    <2>1. main' = "panicked" /\ UNCHANGED <<queue, count>>
        BY <1>6 DEF SendTerminate
    <2>2. TypeOK' /\ HandledOnce' /\ Channel' /\ Placed' /\ Shutdown'
        BY <1>1, <1>2, <2>1 DEF IInv, TypeOK, HandledOnce, Channel, Placed, Shutdown
    <2>3. Cardinality(Alive) = 0
        BY <1>6, FS_EmptySet DEF Alive, ReceiverThere
    <2>4. TerminateForEach'
        BY <1>2, <1>4, <2>1, <2>3 DEF TerminateForEach
    <2> QED
        BY <2>2, <2>4 DEF IInv
<1> QED
    BY <1>5, <1>6

LEMMA JoinIInv == IInv /\ Join => IInv'
<1> SUFFICES ASSUME IInv, Join PROVE IInv'
    OBVIOUS
<1> DEFINE w == count + 1
<1>1. /\ main = "joining" /\ w \in Gone
      /\ IF worker[w] = "dead"
         THEN main' = "panicked" /\ UNCHANGED count
         ELSE /\ main' = IF w = Size THEN "dropped" ELSE main
              /\ count' = w % Size
      /\ UNCHANGED <<accepted, queue, worker, job, answered, closed>>
    BY DEF Join
<1>2. UNCHANGED <<InHand, Gone, Alive, ReceiverThere, Stopped, Dead>>
    BY <1>1 DEF InHand, Alive, ReceiverThere, Gone, Stopped, Dead
<1>3. w \in 1 .. Size
    BY <1>1 DEF Gone, Workers
<1>4. count' \in 0 .. Size - 1 /\ (main' = "joining" => count' = w)
    BY <1>1, <1>3, Wraps DEF IInv, TypeOK
<1>5. TypeOK'
    BY <1>1, <1>4 DEF IInv, TypeOK
<1>6. HandledOnce' /\ Channel' /\ Placed' /\ TerminateForEach'
    BY <1>1, <1>2 DEF IInv, HandledOnce, Channel, Placed, TerminateForEach
<1>7. worker[w] # "dead" => 1 .. w \subseteq Stopped
    <2>1. 1 .. w = (1 .. count) \cup {w}
        BY <1>3 DEF IInv, TypeOK
    <2> QED
        BY <1>1, <1>3, <2>1 DEF IInv, Shutdown, Gone, Stopped
<1>8. Shutdown'
    <2>1. main' = "joining" => 1 .. count' \subseteq Stopped
        BY <1>1, <1>4, <1>7
    <2>2. main' = "dropped" => Stopped = Workers
        BY <1>1, <1>7 DEF Workers, Stopped
    <2>3. main' # "accepting"
        BY <1>1
    <2> QED
        BY <1>1, <1>2, <2>1, <2>2, <2>3 DEF IInv, Shutdown
<1> QED
    BY <1>5, <1>6, <1>8 DEF IInv

-------------------------------------------------------------------------------
(* Then a worker's.                                                         *)

(* A thread that starts or takes the lock has nothing in its hands. *)
LEMMA IdleIInv ==
    ASSUME IInv, NEW w \in Workers, Start(w) \/ Lock(w)
    PROVE  IInv'
<1>1. /\ worker[w] \in {"starting", "waiting"}
      /\ worker' \in {[worker EXCEPT ![w] = "waiting"], [worker EXCEPT ![w] = "receiving"]}
      /\ UNCHANGED <<main, count, accepted, queue, job, answered, closed>>
    BY DEF Start, Lock
<1>2. worker \in [Workers -> {"starting", "waiting", "receiving", "busy", "stopped", "dead"}]
    BY DEF IInv, TypeOK
<1>3. UNCHANGED <<InHand, Gone, Alive, ReceiverThere, Stopped, Dead>>
    BY <1>1, <1>2 DEF InHand, Alive, ReceiverThere, Gone, Stopped, Dead
<1>4. \A v \in Workers : worker'[v] = "busy" <=> worker[v] = "busy"
    BY <1>1, <1>2
<1>5. TypeOK'
    BY <1>1, <1>2 DEF IInv, TypeOK
<1>6. HandledOnce' /\ Channel' /\ Shutdown' /\ TerminateForEach'
    BY <1>1, <1>3 DEF IInv, HandledOnce, Channel, Shutdown, TerminateForEach
<1>7. Placed'
    BY <1>1, <1>3, <1>4 DEF IInv, Placed
<1> QED
    BY <1>5, <1>6, <1>7 DEF IInv

LEMMA ReceiveJobIInv ==
    ASSUME IInv, NEW w \in Workers, ReceiveJob(w)
    PROVE  IInv'
<1> DEFINE c == Head(queue)
<1>1. /\ worker[w] = "receiving" /\ queue # <<>> /\ c # Terminate
      /\ worker' = [worker EXCEPT ![w] = "busy"]
      /\ job' = [job EXCEPT ![w] = c]
      /\ queue' = Tail(queue)
      /\ UNCHANGED <<main, count, accepted, answered, closed>>
    BY DEF ReceiveJob
<1>2. /\ worker \in [Workers -> {"starting", "waiting", "receiving", "busy", "stopped", "dead"}]
      /\ job \in [Workers -> Jobs \cup {NoJob}]
      /\ queue \in Seq(Messages)
    BY DEF IInv, TypeOK, Messages
<1>3. /\ c \in Messages /\ queue' \in Seq(Messages)
      /\ Connections(queue) = Connections(queue') \cup {c}
      /\ c \notin Connections(queue')
      /\ NoneTwice(queue') /\ TerminatesLast(queue')
    <2>1. NoneTwice(queue) /\ TerminatesLast(queue)
        BY DEF IInv, Channel
    <2>2. c \in Messages /\ queue' \in Seq(Messages)
        BY <1>1, <1>2, TailPositions
    <2>3. /\ Connections(queue) = Connections(queue') \cup ({c} \ {Terminate})
          /\ c \notin Connections(queue')
          /\ NoneTwice(queue') /\ TerminatesLast(queue')
        BY <1>1, <1>2, <2>1, RecvTakesTheHead
    <2> QED
        BY <1>1, <2>2, <2>3
<1>4. Cardinality(Terminates(queue)) =< Cardinality(Terminates(queue'))
    <2>1. Cardinality(Terminates(queue)) =< Cardinality(Terminates(queue')) + 0
        BY <1>1, <1>2, RecvCounts
    <2> QED
        BY <1>3, <2>1, TerminatesFinite
<1> HIDE DEF c
<1>5. c \in Jobs /\ c # NoJob /\ job[w] = NoJob
    BY <1>1, <1>3 DEF Messages, Jobs, NoJob, Terminate, IInv, Placed
<1>6. InHand' = InHand \cup {c}
    BY <1>1, <1>5, HandsFilled
<1>7. c \notin InHand \cup answered \cup closed
    BY <1>3 DEF IInv, HandledOnce, Placed
<1>8. UNCHANGED <<Gone, Alive, ReceiverThere, Stopped, Dead>>
    BY <1>1, <1>2 DEF Alive, ReceiverThere, Gone, Stopped, Dead
<1>9. TypeOK'
    BY <1>1, <1>2, <1>3, <1>5 DEF IInv, TypeOK, Messages
<1>10. HandledOnce'
    <2>1. \A v \in Workers : job[v] # c
        BY <1>5, <1>7 DEF InHand
    <2>2. \A u, v \in Workers : u # v /\ job'[u] # NoJob => job'[u] # job'[v]
        BY <1>1, <1>2, <2>1 DEF IInv, HandledOnce
    <2>3. InHand' \cap (Connections(queue') \cup answered' \cup closed') = {}
        BY <1>1, <1>3, <1>6, <1>7 DEF IInv, HandledOnce
    <2> QED
        BY <2>2, <2>3 DEF HandledOnce
<1>11. Channel'
    <2>1. w \in Workers \ Gone
        BY <1>1 DEF Gone
    <2> QED
        BY <1>3, <1>8, <2>1 DEF Channel, ReceiverThere
<1>12. Placed'
    <2>1. \A v \in Workers : job'[v] # NoJob <=> worker'[v] = "busy"
        BY <1>1, <1>2, <1>5 DEF IInv, Placed
    <2>2. 1 .. accepted' = Connections(queue') \cup InHand' \cup answered' \cup closed'
        BY <1>1, <1>3, <1>6 DEF IInv, Placed
    <2>3. Connections(queue') \cap (answered' \cup closed') = {} /\ answered' \cap closed' = {}
        BY <1>1, <1>3 DEF IInv, Placed
    <2> QED
        BY <2>1, <2>2, <2>3 DEF Placed
<1>13. Shutdown'
    <2>1. Terminates(queue) = {} => Terminates(queue') = {}
        <3>1. Terminates(queue) = {} => \A i \in DOMAIN queue : queue[i] # Terminate
            BY DEF Terminates
        <3>2. \A i \in DOMAIN queue' : i + 1 \in DOMAIN queue /\ queue'[i] = queue[i + 1]
            BY <1>1, <1>2, TailPositions
        <3> QED
            BY <3>1, <3>2 DEF Terminates
    <2> QED
        BY <1>1, <1>3, <1>8, <2>1 DEF IInv, Shutdown
<1>14. TerminateForEach'
    <2>1. Cardinality(Alive) \in Nat /\ Cardinality(Terminates(queue)) \in Nat
          /\ Cardinality(Terminates(queue')) \in Nat /\ count \in Nat
        BY <1>2, <1>3, WorkersFinite, TerminatesFinite DEF Alive, IInv, TypeOK
    <2> QED
        BY <1>1, <1>4, <1>8, <2>1, PoolAssumption DEF IInv, TerminateForEach
<1> QED
    BY <1>9, <1>10, <1>11, <1>12, <1>13, <1>14 DEF IInv

LEMMA AnswerIInv ==
    ASSUME IInv, NEW w \in Workers, Answer(w)
    PROVE  IInv'
<1> DEFINE c == job[w]
<1>1. /\ worker[w] = "busy"
      /\ worker' = [worker EXCEPT ![w] = "waiting"]
      /\ job' = [job EXCEPT ![w] = NoJob]
      /\ answered' = answered \cup {c}
      /\ UNCHANGED <<main, count, accepted, queue, closed>>
    BY DEF Answer
<1>2. /\ worker \in [Workers -> {"starting", "waiting", "receiving", "busy", "stopped", "dead"}]
      /\ job \in [Workers -> Jobs \cup {NoJob}]
    BY DEF IInv, TypeOK
<1>3. InHand' = InHand \ {c} /\ c \in InHand /\ c \in Jobs
    BY <1>1, HandsEmptied DEF IInv, Placed
<1> HIDE DEF c
<1>4. c \notin Connections(queue) \cup answered \cup closed
    BY <1>3 DEF IInv, HandledOnce
<1>5. UNCHANGED <<Gone, Alive, ReceiverThere, Stopped, Dead>>
    BY <1>1, <1>2 DEF Alive, ReceiverThere, Gone, Stopped, Dead
<1>6. TypeOK'
    BY <1>1, <1>2, <1>3 DEF IInv, TypeOK
<1>7. HandledOnce'
    BY <1>1, <1>2, <1>3 DEF IInv, HandledOnce
<1>8. Placed'
    <2>1. \A v \in Workers : job'[v] # NoJob <=> worker'[v] = "busy"
        BY <1>1, <1>2 DEF IInv, Placed
    <2>2. 1 .. accepted' = Connections(queue') \cup InHand' \cup answered' \cup closed'
        BY <1>1, <1>3 DEF IInv, Placed
    <2>3. Connections(queue') \cap (answered' \cup closed') = {} /\ answered' \cap closed' = {}
        BY <1>1, <1>4 DEF IInv, Placed
    <2> QED
        BY <2>1, <2>2, <2>3 DEF Placed
<1>9. Channel' /\ Shutdown' /\ TerminateForEach'
    BY <1>1, <1>5 DEF IInv, Channel, Shutdown, TerminateForEach
<1> QED
    BY <1>6, <1>7, <1>8, <1>9 DEF IInv

(* A panic, of start-up or of a handler: no Terminate is used up. *)
LEMMA DiesIInv ==
    ASSUME IInv, NEW w \in Workers, StartFails(w) \/ Panic(w)
    PROVE  IInv'
<1>1. /\ w \notin Gone
      /\ Leave(w, "dead", queue, {job[w]} \ {NoJob})
      /\ job' = [job EXCEPT ![w] = NoJob]
      /\ UNCHANGED <<main, count, accepted, answered>>
    <2>1. CASE StartFails(w)
        <3>1. job[w] = NoJob
            BY <2>1 DEF StartFails, IInv, Placed
        <3>2. [job EXCEPT ![w] = NoJob] = job /\ {job[w]} \ {NoJob} = {}
            BY <3>1 DEF IInv, TypeOK
        <3> QED
            BY <2>1, <3>2 DEF StartFails, Gone
    <2>2. CASE Panic(w)
        <3>1. job[w] # NoJob
            BY <2>2 DEF Panic, IInv, Placed
        <3>2. {job[w]} \ {NoJob} = {job[w]}
            BY <3>1
        <3> QED
            BY <2>2, <3>2 DEF Panic, Gone
    <2> QED
        BY <2>1, <2>2
<1>2. queue \in Seq(Messages) /\ NoneTwice(queue) /\ TerminatesLast(queue)
    BY DEF IInv, TypeOK, Messages, Channel
<1>3. /\ worker' \in [Workers -> {"starting", "waiting", "receiving", "busy", "stopped", "dead"}]
      /\ Cardinality(Alive') = Cardinality(Alive) - 1
      /\ Stopped' = Stopped /\ Dead' = Dead \cup {w}
      /\ (Alive' = {} /\ queue' = <<>>) \/ queue' = queue
    BY <1>1, LeaveEffect
<1>4. closed' \subseteq Jobs /\ queue' \in Seq(Messages) /\ HandledOnce' /\ Channel' /\ Placed'
    BY <1>1, <1>2, LeavePlaced
<1>5. TypeOK'
    BY <1>1, <1>3, <1>4 DEF IInv, TypeOK, Messages, NoJob
<1>6. Shutdown'
    BY <1>1, <1>3, EmptyChannel DEF IInv, Shutdown
<1>7. TerminateForEach'
    <2>1. Cardinality(Alive) \in Nat /\ Cardinality(Alive') \in Nat /\ count \in 0 .. Size - 1
          /\ Cardinality(Terminates(queue)) \in Nat
        BY <1>2, WorkersFinite, TerminatesFinite DEF Alive, IInv, TypeOK
    <2>2. CASE queue' = queue
        BY <1>1, <1>3, <2>1, <2>2, PoolAssumption DEF IInv, TerminateForEach
    <2>3. CASE Alive' = {} /\ queue' = <<>>
        <3>1. Cardinality(Alive') = 0 /\ Cardinality(Terminates(queue')) = 0
            BY <2>3, EmptyChannel, FS_EmptySet
        <3> QED
            BY <1>1, <2>1, <3>1, PoolAssumption DEF TerminateForEach
    <2> QED
        BY <1>3, <2>2, <2>3
<1> QED
    BY <1>4, <1>5, <1>6, <1>7 DEF IInv

(* A worker that stops uses up one Terminate, and leaves no connection behind. *)
LEMMA ReceiveTerminateIInv ==
    ASSUME IInv, NEW w \in Workers, ReceiveTerminate(w)
    PROVE  IInv'
<1> DEFINE rest == Tail(queue)
<1>1. /\ worker[w] = "receiving" /\ queue # <<>> /\ Head(queue) = Terminate
      /\ Leave(w, "stopped", rest, {})
      /\ UNCHANGED <<main, count, accepted, job, answered>>
    BY DEF ReceiveTerminate
<1>2. /\ w \notin Gone /\ {job[w]} \ {NoJob} = {} /\ job' = [job EXCEPT ![w] = NoJob]
    <2>1. job[w] = NoJob
        BY <1>1 DEF IInv, Placed
    <2> QED
        BY <1>1, <2>1 DEF Gone, IInv, TypeOK
<1>3. queue \in Seq(Messages) /\ NoneTwice(queue) /\ TerminatesLast(queue)
    BY DEF IInv, TypeOK, Messages, Channel
<1>4. /\ rest \in Seq(Messages) /\ Connections(rest) = {} /\ Connections(queue) = {}
      /\ NoneTwice(rest) /\ TerminatesLast(rest)
    BY <1>1, <1>3, TailPositions, RecvTakesTheHead
<1>5. Cardinality(Terminates(queue)) =< Cardinality(Terminates(rest)) + 1
    BY <1>1, <1>3, RecvCounts
<1>6. Head(queue) = queue[1] /\ 1 \in DOMAIN queue
    BY <1>1, <1>3, TailPositions
<1> HIDE DEF rest
<1>7. /\ worker' \in [Workers -> {"starting", "waiting", "receiving", "busy", "stopped", "dead"}]
      /\ Cardinality(Alive') = Cardinality(Alive) - 1
      /\ Stopped' = Stopped \cup {w} /\ Dead' = Dead
      /\ closed' = closed
      /\ (Alive' = {} /\ queue' = <<>>) \/ queue' = rest
    <2>1. /\ worker' \in [Workers -> {"starting", "waiting", "receiving", "busy", "stopped", "dead"}]
          /\ Cardinality(Alive') = Cardinality(Alive) - 1
          /\ Stopped' = Stopped \cup {w} /\ Dead' = Dead
          /\ \/ Alive' = {} /\ queue' = <<>> /\ closed' = closed \cup {} \cup Connections(rest)
             \/ ReceiverThere' /\ queue' = rest /\ closed' = closed \cup {}
        BY <1>1, <1>2, LeaveEffect
    <2> QED
        BY <1>4, <2>1
<1>8. queue' \in Seq(Messages) /\ HandledOnce' /\ Channel' /\ Placed'
    BY <1>1, <1>2, <1>4, LeavePlaced
<1>9. TypeOK'
    BY <1>1, <1>7, <1>8 DEF IInv, TypeOK, Messages
<1>10. Shutdown'
    <2>1. main # "accepting"
        BY <1>1, <1>6 DEF IInv, Shutdown, Terminates
    <2>2. Connections(queue') = {}
        BY <1>4, <1>7, EmptyChannel
    <2>3. Stopped' = Workers \/ Stopped \subseteq Stopped'
        BY <1>7
    <2>4. main = "dropped" => Stopped' = Workers
        BY <1>7 DEF IInv, Shutdown
    <2> QED
        BY <1>1, <1>7, <2>1, <2>2, <2>3, <2>4 DEF IInv, Shutdown
<1>11. TerminateForEach'
    <2>1. Cardinality(Alive) \in Nat /\ Cardinality(Alive') \in Nat /\ count \in 0 .. Size - 1
          /\ Cardinality(Terminates(queue)) \in Nat /\ Cardinality(Terminates(rest)) \in Nat
        BY <1>3, <1>4, WorkersFinite, TerminatesFinite DEF Alive, IInv, TypeOK
    <2>2. CASE queue' = rest
        BY <1>1, <1>5, <1>7, <2>1, <2>2, PoolAssumption DEF IInv, TerminateForEach
    <2>3. CASE Alive' = {} /\ queue' = <<>>
        <3>1. Cardinality(Alive') = 0 /\ Cardinality(Terminates(queue')) = 0
            BY <2>3, EmptyChannel, FS_EmptySet
        <3> QED
            BY <1>1, <2>1, <3>1, PoolAssumption DEF TerminateForEach
    <2> QED
        BY <1>7, <2>2, <2>3
<1> QED
    BY <1>8, <1>9, <1>10, <1>11 DEF IInv

LEMMA NextIInv == IInv /\ [Next]_vars => IInv'
<1> SUFFICES ASSUME IInv, [Next]_vars PROVE IInv'
    OBVIOUS
<1>1. ASSUME NEW w \in Workers, Step(w) PROVE IInv'
    BY <1>1, IdleIInv, ReceiveJobIInv, AnswerIInv, DiesIInv, ReceiveTerminateIInv DEF Step
<1>2. ASSUME UNCHANGED vars PROVE IInv'
    <2>1. UNCHANGED <<InHand, Gone, Alive, ReceiverThere, Stopped, Dead>>
        BY <1>2 DEF vars, InHand, Alive, ReceiverThere, Gone, Stopped, Dead
    <2> QED
        BY <1>2, <2>1 DEF vars, IInv, TypeOK, HandledOnce, Channel, Placed, Shutdown, TerminateForEach
<1> QED
    BY <1>1, <1>2, AcceptIInv, DropIInv, SendTerminateIInv, JoinIInv DEF Next

LEMMA SpecIInv == Spec => []IInv
BY InitIInv, NextIInv, PTL DEF Spec

-------------------------------------------------------------------------------
(* The channel, the hands of the workers and the counters hold what their     *)
(* types say, for any number of threads, connections and panics.              *)
THEOREM TypeCorrect == Spec => []TypeOK
<1>1. IInv => TypeOK
    BY DEF IInv
<1> QED
    BY SpecIInv, <1>1, PTL

(* No connection is handled by two workers, or handled again. *)
THEOREM NobodyServedTwice == Spec => []HandledOnce
<1>1. IInv => HandledOnce
    BY DEF IInv
<1> QED
    BY SpecIInv, <1>1, PTL

(* When Drop has returned every connection that was accepted has been handled, *)
(* whatever the workers did in between.                                        *)
THEOREM DropIsGraceful == Spec => []DropAnswersAll
<1>1. IInv => DropAnswersAll
    <2> SUFFICES ASSUME IInv, main = "dropped" PROVE answered = 1 .. accepted
        BY DEF DropAnswersAll
    <2>1. Stopped = Workers
        BY DEF IInv, Shutdown
    <2>2. \A w \in Workers : worker[w] = "stopped"
        BY <2>1 DEF Stopped
    <2>3. Connections(queue) = {}
        <3>1. 1 \in Workers
            BY PoolAssumption DEF Workers
        <3> QED
            BY <2>1, <3>1 DEF IInv, Shutdown
    <2>4. InHand = {}
        BY <2>2 DEF IInv, Placed, InHand
    <2>5. closed = {}
        BY <2>2 DEF IInv, Shutdown, Dead
    <2> QED
        BY <2>3, <2>4, <2>5 DEF IInv, Placed
<1> QED
    BY SpecIInv, <1>1, PTL

(* The sending end is only given up with a Terminate in the channel for every *)
(* worker that is left: recv() never fails.                                   *)
THEOREM RecvNeverFails == Spec => []ChannelOutlivesWorkers
<1>1. IInv => ChannelOutlivesWorkers
    BY DEF IInv, TerminateForEach, ChannelOutlivesWorkers, Terminates
<1> QED
    BY SpecIInv, <1>1, PTL

-------------------------------------------------------------------------------
(* The pool implements the Service, step by step.                           *)

(* What a thread closes when it ends was waiting. *)
LEMMA LeaveIsClose ==
    ASSUME IInv, NEW w \in Workers, w \notin Gone, NEW how \in {"stopped", "dead"},
           NEW rest, Connections(rest) \subseteq Connections(queue),
           Leave(w, how, rest, {job[w]} \ {NoJob}), UNCHANGED <<accepted, answered>>
    PROVE  [Promise!Next]_(Promise!service)
<1> DEFINE cs == closed' \ closed
<1>1. /\ cs \subseteq Connections(queue) \cup InHand
      /\ closed' = closed \cup cs
    <2>1. {job[w]} \ {NoJob} \subseteq InHand
        BY DEF InHand
    <2>2. \/ closed' = closed \cup ({job[w]} \ {NoJob}) \cup Connections(rest)
          \/ closed' = closed \cup ({job[w]} \ {NoJob})
        BY LeaveEffect
    <2> QED
        BY <2>1, <2>2
<1>2. cs \subseteq Promise!Waiting
    BY <1>1 DEF IInv, Placed, HandledOnce, Promise!Waiting
<1>3. cs \subseteq Jobs
    <2>1. 1 .. accepted \subseteq Jobs
        BY PoolAssumption DEF IInv, TypeOK, Jobs
    <2> QED
        BY <1>2, <2>1 DEF Promise!Waiting
<1> HIDE DEF cs
<1>4. CASE cs = {}
    BY <1>1, <1>4 DEF Promise!service
<1>5. CASE cs # {}
    <2>1. Promise!Close(cs)
        BY <1>1, <1>2, <1>5 DEF Promise!Close
    <2> QED
        BY <1>3, <2>1 DEF Promise!Next
<1> QED
    BY <1>4, <1>5

LEMMA StepIsServiceStep == IInv /\ [Next]_vars => [Promise!Next]_(Promise!service)
<1> SUFFICES ASSUME IInv, [Next]_vars PROVE [Promise!Next]_(Promise!service)
    OBVIOUS
<1>1. CASE Accept
    <2> DEFINE c == accepted + 1
    <2>1. c \in Jobs /\ c \notin 1 .. accepted /\ 1 .. accepted' = (1 .. accepted) \cup {c}
        <3>1. accepted \in 0 .. MaxJobs /\ accepted < MaxJobs /\ accepted' = c
            BY <1>1 DEF Accept, IInv, TypeOK
        <3> QED
            BY <3>1, PoolAssumption DEF Jobs
    <2>2. closed' \in {closed, closed \cup {c}} /\ answered' = answered
        BY <1>1 DEF Accept
    <2>3. Promise!Accept(c)
        BY <2>1, <2>2 DEF Promise!Accept
    <2> QED
        BY <2>1, <2>3 DEF Promise!Next
<1>2. ASSUME Drop \/ SendTerminate \/ Join PROVE [Promise!Next]_(Promise!service)
    BY <1>2 DEF Drop, SendTerminate, Join, Promise!service
<1>3. ASSUME NEW w \in Workers, Step(w) PROVE [Promise!Next]_(Promise!service)
    <2>1. CASE Start(w) \/ Lock(w) \/ ReceiveJob(w)
        BY <2>1 DEF Start, Lock, ReceiveJob, Promise!service
    <2>2. CASE StartFails(w) \/ Panic(w)
        <3>1. /\ w \notin Gone /\ UNCHANGED <<accepted, answered>>
              /\ Leave(w, "dead", queue, {job[w]} \ {NoJob})
            <4>1. CASE StartFails(w)
                <5>1. {job[w]} \ {NoJob} = {}
                    BY <4>1 DEF StartFails, IInv, Placed
                <5> QED
                    BY <4>1, <5>1 DEF StartFails, Gone
            <4>2. CASE Panic(w)
                <5>1. {job[w]} \ {NoJob} = {job[w]}
                    BY <4>2 DEF Panic, IInv, Placed
                <5> QED
                    BY <4>2, <5>1 DEF Panic, Gone
            <4> QED
                BY <2>2, <4>1, <4>2
        <3> QED
            BY <3>1, LeaveIsClose
    <2>3. CASE ReceiveTerminate(w)
        <3>1. /\ worker[w] = "receiving" /\ queue # <<>> /\ UNCHANGED <<accepted, answered>>
              /\ Leave(w, "stopped", Tail(queue), {})
            BY <2>3 DEF ReceiveTerminate
        <3>2. w \notin Gone /\ {job[w]} \ {NoJob} = {}
            BY <3>1 DEF Gone, IInv, Placed
        <3>3. Connections(Tail(queue)) \subseteq Connections(queue)
            BY <3>1, RecvTakesTheHead DEF IInv, TypeOK, Messages, Channel
        <3> QED
            BY <3>1, <3>2, <3>3, LeaveIsClose
    <2>4. CASE Answer(w)
        <3> DEFINE c == job[w]
        <3>1. /\ worker[w] = "busy" /\ answered' = answered \cup {c}
              /\ job' = [job EXCEPT ![w] = NoJob] /\ UNCHANGED <<accepted, closed>>
            BY <2>4 DEF Answer
        <3>2. c \in InHand /\ c \in Jobs
            BY <3>1, HandsEmptied DEF IInv, Placed
        <3>3. c \in Promise!Waiting
            BY <3>2 DEF IInv, Placed, HandledOnce, Promise!Waiting
        <3>4. Promise!Answer(c)
            BY <3>1, <3>3 DEF Promise!Answer
        <3> QED
            BY <3>2, <3>4 DEF Promise!Next
    <2> QED
        BY <1>3, <2>1, <2>2, <2>3, <2>4 DEF Step
<1>4. CASE UNCHANGED vars
    BY <1>4 DEF vars, Promise!service
<1> QED
    BY <1>1, <1>2, <1>3, <1>4 DEF Next

(* The safety half of ServesEverybody: whatever the threads do, a connection  *)
(* is answered or closed only after it was accepted, never both, never twice. *)
THEOREM PoolImplementsService == Spec => Promise!Init /\ [][Promise!Next]_(Promise!service)
<1>1. Init => Promise!Init
    BY DEF Init, Promise!Init
<1> QED
    BY SpecIInv, StepIsServiceStep, <1>1, PTL DEF Spec
===============================================================================
