------------------------------ MODULE ThreadPool ------------------------------
(***************************************************************************)
(* The pool of src/threadpool/mod.rs and the loop of main that feeds it:    *)
(* connections go through one channel, whose receiving end the workers      *)
(* share behind a lock.  A worker holds the lock while it waits in recv(),  *)
(* and gives it back before it handles the connection.                      *)
(*                                                                         *)
(* A worker that panics, or whose handle_connection returns an error, is    *)
(* never replaced.  The receiver goes with the last worker, and with it the *)
(* connections that are still in the channel.                               *)
(*                                                                         *)
(* main accepts connections for ever; Drop is what the pool promises to an  *)
(* owner that gives it up and lives on.                                     *)
(***************************************************************************)
EXTENDS Integers, FiniteSets, Sequences

CONSTANTS
    Size,           \* the number of threads
    MaxJobs,        \* bound on the connections main accepts
    MaxPanics       \* bound on the workers that panic

ASSUME PoolAssumption ==
    /\ Size \in Nat \ {0}       \* ThreadPool::new asserts it
    /\ MaxJobs \in Nat
    /\ MaxPanics \in 0 .. Size

Workers == 1 .. Size

(* The messages: a connection is the number of its turn. *)
Jobs == 1 .. MaxJobs
Terminate == 0
NoJob == 0

VARIABLES
    main,       \* what the owner of the pool does
    count,      \* how far its loops over the workers are
    accepted,   \* how many connections it has accepted
    queue,      \* the channel
    worker,     \* what each thread does
    job,        \* the connection in its hands
    answered,   \* the connections that were handled
    closed      \* the connections dropped without having been handled

vars == <<main, count, accepted, queue, worker, job, answered, closed>>

Init ==
    /\ main = "accepting"
    /\ count = 0
    /\ accepted = 0
    /\ queue = <<>>
    /\ worker = [w \in Workers |-> "starting"]
    /\ job = [w \in Workers |-> NoJob]
    /\ answered = {}
    /\ closed = {}

Gone == {w \in Workers : worker[w] \in {"stopped", "dead"}}

ReceiverThere == Gone # Workers

Connections(q) == {q[i] : i \in DOMAIN q} \ {Terminate}

CanPanic == Cardinality({w \in Workers : worker[w] = "dead"}) < MaxPanics

(* The thread of w ends; `rest' is left in the channel. *)
Leave(w, how, rest, lost) ==
    /\ worker' = [worker EXCEPT ![w] = how]
    /\ IF Workers \ {w} \subseteq Gone
       THEN queue' = <<>> /\ closed' = closed \cup lost \cup Connections(rest)
       ELSE queue' = rest /\ closed' = closed \cup lost

-------------------------------------------------------------------------------
(* The owner.                                                               *)

(* A connection comes in: ThreadPool::handle. *)
Accept ==
    /\ main = "accepting"
    /\ accepted < MaxJobs
    /\ accepted' = accepted + 1
    /\ IF ReceiverThere
       THEN queue' = Append(queue, accepted') /\ UNCHANGED closed
       ELSE closed' = closed \cup {accepted'} /\ UNCHANGED queue
    /\ UNCHANGED <<main, count, worker, job, answered>>

Drop ==
    /\ main = "accepting"
    /\ main' = "terminating"
    /\ UNCHANGED <<count, accepted, queue, worker, job, answered, closed>>

(* Mutants: Terminate overtakes the connections; one for all workers. *)
SendTerminateFirst ==
    /\ main = "terminating"
    /\ IF ReceiverThere
       THEN /\ queue' = <<Terminate>> \o queue
            /\ main' = IF count + 1 = Size THEN "joining" ELSE main
            /\ count' = (count + 1) % Size
       ELSE main' = "panicked" /\ UNCHANGED <<queue, count>>
    /\ UNCHANGED <<accepted, worker, job, answered, closed>>

SendTerminateOnce ==
    /\ main = "terminating"
    /\ IF ReceiverThere
       THEN queue' = Append(queue, Terminate) /\ main' = "joining"
       ELSE main' = "panicked" /\ UNCHANGED queue
    /\ UNCHANGED <<count, accepted, worker, job, answered, closed>>

(* One Terminate for each worker; send().unwrap() panics without a receiver. *)
SendTerminate ==
    /\ main = "terminating"
    /\ IF ReceiverThere
       THEN /\ queue' = Append(queue, Terminate)
            /\ main' = IF count + 1 = Size THEN "joining" ELSE main
            /\ count' = (count + 1) % Size
       ELSE main' = "panicked" /\ UNCHANGED <<queue, count>>
    /\ UNCHANGED <<accepted, worker, job, answered, closed>>

(* The workers are joined in turn; join().unwrap() panics on one that did. *)
Join ==
    LET w == count + 1 IN
    /\ main = "joining"
    /\ w \in Gone
    /\ IF worker[w] = "dead"
       THEN main' = "panicked" /\ UNCHANGED count
       ELSE /\ main' = IF w = Size THEN "dropped" ELSE main
            /\ count' = w % Size
    /\ UNCHANGED <<accepted, queue, worker, job, answered, closed>>

-------------------------------------------------------------------------------
(* A worker.                                                                *)

(* The database connection and the Telegram client are made. *)
Start(w) ==
    /\ worker[w] = "starting"
    /\ worker' = [worker EXCEPT ![w] = "waiting"]
    /\ UNCHANGED <<main, count, accepted, queue, job, answered, closed>>

StartFails(w) ==
    /\ worker[w] = "starting"
    /\ CanPanic
    /\ Leave(w, "dead", queue, {})
    /\ UNCHANGED <<main, count, accepted, job, answered>>

(* Mutant: a panic leaves the lock taken. *)
LockUnlessPanicked(w) ==
    /\ worker[w] = "waiting"
    /\ \A v \in Workers : worker[v] \notin {"receiving", "dead"}
    /\ worker' = [worker EXCEPT ![w] = "receiving"]
    /\ UNCHANGED <<main, count, accepted, queue, job, answered, closed>>

(* receiver.lock() *)
Lock(w) ==
    /\ worker[w] = "waiting"
    /\ \A v \in Workers : worker[v] # "receiving"
    /\ worker' = [worker EXCEPT ![w] = "receiving"]
    /\ UNCHANGED <<main, count, accepted, queue, job, answered, closed>>

(* Mutants: the match forgets Terminate; the connection stays in the channel. *)
ReceiveAnything(w) ==
    /\ worker[w] = "receiving"
    /\ queue # <<>>
    /\ worker' = [worker EXCEPT ![w] = "busy"]
    /\ job' = [job EXCEPT ![w] = Head(queue)]
    /\ queue' = Tail(queue)
    /\ UNCHANGED <<main, count, accepted, answered, closed>>

PeekJob(w) ==
    /\ worker[w] = "receiving"
    /\ queue # <<>>
    /\ Head(queue) # Terminate
    /\ worker' = [worker EXCEPT ![w] = "busy"]
    /\ job' = [job EXCEPT ![w] = Head(queue)]
    /\ UNCHANGED <<main, count, accepted, queue, answered, closed>>

(* recv() returns a connection. *)
ReceiveJob(w) ==
    /\ worker[w] = "receiving"
    /\ queue # <<>>
    /\ Head(queue) # Terminate
    /\ worker' = [worker EXCEPT ![w] = "busy"]
    /\ job' = [job EXCEPT ![w] = Head(queue)]
    /\ queue' = Tail(queue)
    /\ UNCHANGED <<main, count, accepted, answered, closed>>

(* recv() returns Terminate and the thread ends. *)
ReceiveTerminate(w) ==
    /\ worker[w] = "receiving"
    /\ queue # <<>>
    /\ Head(queue) = Terminate
    /\ Leave(w, "stopped", Tail(queue), {})
    /\ UNCHANGED <<main, count, accepted, job, answered>>

(* handle_connection returns Ok. *)
Answer(w) ==
    /\ worker[w] = "busy"
    /\ worker' = [worker EXCEPT ![w] = "waiting"]
    /\ job' = [job EXCEPT ![w] = NoJob]
    /\ answered' = answered \cup {job[w]}
    /\ UNCHANGED <<main, count, accepted, queue, closed>>

(* handle_connection panics, or returns the error it is unwrapped for. *)
Panic(w) ==
    /\ worker[w] = "busy"
    /\ CanPanic
    /\ Leave(w, "dead", queue, {job[w]})
    /\ job' = [job EXCEPT ![w] = NoJob]
    /\ UNCHANGED <<main, count, accepted, answered>>

Step(w) ==
    \/ Start(w) \/ StartFails(w) \/ Lock(w)
    \/ ReceiveJob(w) \/ ReceiveTerminate(w)
    \/ Answer(w) \/ Panic(w)

Next == Accept \/ Drop \/ SendTerminate \/ Join \/ \E w \in Workers : Step(w)

Spec == Init /\ [][Next]_vars

(* Threads run, a lock that is free is taken by some thread that waits for it *)
(* (by which is not said), and every connection is handled in the end: the    *)
(* database and Telegram answer or fail.                                      *)
FairSpec ==
    /\ Spec
    /\ WF_vars(SendTerminate) /\ WF_vars(Join)
    /\ WF_vars(\E w \in Workers : Lock(w))
    /\ \A w \in Workers :
        /\ WF_vars(Start(w) \/ StartFails(w))
        /\ WF_vars(ReceiveJob(w) \/ ReceiveTerminate(w))
        /\ WF_vars(Answer(w) \/ Panic(w))

-------------------------------------------------------------------------------
(* Type invariant. *)
TypeOK ==
    /\ main \in {"accepting", "terminating", "joining", "dropped", "panicked"}
    /\ count \in 0 .. Size - 1
    /\ accepted \in 0 .. MaxJobs
    /\ queue \in Seq(Jobs \cup {Terminate})
    /\ worker \in [Workers -> {"starting", "waiting", "receiving", "busy", "stopped", "dead"}]
    /\ job \in [Workers -> Jobs \cup {NoJob}]
    /\ answered \subseteq Jobs
    /\ closed \subseteq Jobs

InHand == {job[w] : w \in Workers} \ {NoJob}

(* A connection is handled by one worker only, and once: what a worker has in *)
(* its hands is in nobody else's, no longer in the channel and not yet done.  *)
HandledOnce ==
    /\ \A v, w \in Workers : v # w /\ job[v] # NoJob => job[v] # job[w]
    /\ InHand \cap (Connections(queue) \cup answered \cup closed) = {}

(* Dropping the pool is graceful: when Drop has returned, every connection    *)
(* that was ever accepted has been handled.  The Terminate messages are last  *)
(* in the channel, so that no worker stops before it is empty of connections, *)
(* and Drop does not return after a panic.                                    *)
DropAnswersAll == main = "dropped" => answered = 1 .. accepted

Alive == Workers \ Gone

(* No worker ever finds the channel closed: when a panic of Drop gives up the *)
(* sending end, there still is a Terminate for every worker that is left.     *)
(* recv() would fail otherwise, with the lock held, and poison it.            *)
ChannelOutlivesWorkers ==
    main = "panicked" =>
        Cardinality(Alive) =< Cardinality({i \in DOMAIN queue : queue[i] = Terminate})

(* The threads, the lock and the channel together serve every connection:    *)
(* whichever make their workers panic, and whether or not the pool is given   *)
(* up in between, a connection is answered or closed, once, and none waits    *)
(* for ever in a channel that nobody reads.                                   *)
Promise == INSTANCE Service WITH accepted <- 1 .. accepted, Incoming <- Jobs

ServesEverybody == Promise!Spec

(* Drop does not wait for ever, not for a worker that panicked either, and     *)
(* leaves no thread behind, though the joins stop at the first that did.       *)
DropReturns ==
    main = "terminating" ~> main \in {"dropped", "panicked"} /\ Gone = Workers
===============================================================================
