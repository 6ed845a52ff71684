--------------------------- MODULE PrecreatedLogs ---------------------------
(***************************************************************************)
(* The ring of precreated logs of gdpfs_log.c.  Creating a log takes a     *)
(* round trip to a log server, so one producer thread creates logs ahead   *)
(* of time and puts their names in a ring; a thread that creates a file    *)
(* takes a name from the ring (gdpfs_log_get_precreated).                  *)
(*                                                                         *)
(* A section under precreated_mutex is one step.  ep_thr_cond_wait ends a  *)
(* step: the thread joins waitSet and does nothing until a signal, a       *)
(* broadcast or a spurious wakeup removes it; it then tests its condition  *)
(* again.  The producer writes its slot outside the mutex, in a step of    *)
(* its own.  A log name is a number in order of creation; 0 is the zeroed  *)
(* name a slot holds before any log was put there.                         *)
(***************************************************************************)
EXTENDS Integers, Sequences, FiniteSets

CONSTANTS
    Consumers,        \* threads that create files
    Producer,         \* the thread of init_gdpfs_log
    PRECREATED_MAX,   \* slots in the ring (1024 in the code)
    MaxRequests       \* bound: calls of gdpfs_log_get_precreated

ASSUME PrecreatedAssumption ==
    /\ PRECREATED_MAX \in Nat /\ PRECREATED_MAX >= 2
    /\ MaxRequests \in Nat
    /\ Producer \notin Consumers

VARIABLES
    precreated_logs,   \* slot -> log name
    precreated_front,  \* next slot to take
    precreated_back,   \* next slot to fill
    waitSet,           \* threads blocked on precreated_cond
    pc,                \* what each thread does next
    requests,          \* calls made so far
    created,           \* logs that exist on the log server
    taken,             \* history: names handed out, in order
    failed             \* history: has a creation failed?

vars == <<precreated_logs, precreated_front, precreated_back, waitSet, pc,
          requests, created, taken, failed>>

ring == <<precreated_logs, precreated_front, precreated_back>>

Threads == Consumers \cup {Producer}

Slots == 0 .. PRECREATED_MAX - 1

\* Slips in this code that the properties at the end would catch.
UnwrappedSlot(i) == i + 1
FullUnwrapped == precreated_front = precreated_back + 1
NoSignal(waiting) == {waiting}
FullComparesEmpty == precreated_front = precreated_back

NextSlot(i) == (i + 1) % PRECREATED_MAX

TypeOK ==
    /\ precreated_logs \in [Slots -> Nat]
    /\ precreated_front \in Slots
    /\ precreated_back \in Slots
    /\ waitSet \subseteq Threads
    /\ pc \in [Threads -> {"idle", "get", "check", "create", "publish"}]
    /\ requests \in 0 .. MaxRequests
    /\ created \in Nat
    /\ taken \in Seq(Nat)
    /\ failed \in BOOLEAN

Init ==
    /\ precreated_logs = [i \in Slots |-> 0]
    /\ precreated_front = 0
    /\ precreated_back = 0
    /\ waitSet = {}
    /\ pc = [t \in Threads |-> IF t = Producer THEN "check" ELSE "idle"]
    /\ requests = 0
    /\ created = 0
    /\ taken = << >>
    /\ failed = FALSE
-----------------------------------------------------------------------------
Empty == precreated_front = precreated_back

\* One slot always stays free: a full ring must not look like an empty one.
Full == precreated_front = NextSlot(precreated_back)

\* ep_thr_cond_signal: wakes one thread of those that wait, if any.
AfterSignal(waiting) ==
    IF waiting = {} THEN {{}} ELSE {waiting \ {t} : t \in waiting}

\* Does the producer broadcast after moving precreated_back to back?
PublishWakes(back) == back = NextSlot(precreated_front)
-----------------------------------------------------------------------------
\* A file is created: the thread enters gdpfs_log_get_precreated.
Request(c) ==
    /\ pc[c] = "idle"
    /\ requests < MaxRequests
    /\ requests' = requests + 1
    /\ pc' = [pc EXCEPT ![c] = "get"]
    /\ UNCHANGED <<ring, waitSet, created, taken, failed>>

\* gdpfs_log_get_precreated finds the ring empty.
GetWait(c) ==
    /\ pc[c] = "get"
    /\ c \notin waitSet
    /\ Empty
    /\ waitSet' = waitSet \cup {c}
    /\ UNCHANGED <<ring, pc, requests, created, taken, failed>>

\* gdpfs_log_get_precreated copies the front name out and signals.
GetTake(c) ==
    /\ pc[c] = "get"
    /\ c \notin waitSet
    /\ ~Empty
    /\ taken' = Append(taken, precreated_logs[precreated_front])
    /\ precreated_front' = NextSlot(precreated_front)
    /\ waitSet' \in AfterSignal(waitSet)
    /\ pc' = [pc EXCEPT ![c] = "idle"]
    /\ UNCHANGED <<precreated_logs, precreated_back, requests, created,
                   failed>>

\* The producer's wait loop: it sleeps while the ring is full.
ProducerWait ==
    /\ pc[Producer] = "check"
    /\ Producer \notin waitSet
    /\ Full
    /\ waitSet' = waitSet \cup {Producer}
    /\ UNCHANGED <<ring, pc, requests, created, taken, failed>>

ProducerProceed ==
    /\ pc[Producer] = "check"
    /\ Producer \notin waitSet
    /\ ~Full
    /\ pc' = [pc EXCEPT ![Producer] = "create"]
    /\ UNCHANGED <<ring, waitSet, requests, created, taken, failed>>

\* _precreate_log, outside the mutex: a new log, its name put in the slot.
ProducerCreate ==
    /\ pc[Producer] = "create"
    /\ created' = created + 1
    /\ precreated_logs' = [precreated_logs EXCEPT ![precreated_back] = created + 1]
    /\ pc' = [pc EXCEPT ![Producer] = "publish"]
    /\ UNCHANGED <<precreated_front, precreated_back, waitSet, requests, taken, failed>>

\* _precreate_log fails: the slot keeps what it held, and the producer does
\* not look at the status.
ProducerCreateFails ==
    /\ pc[Producer] = "create"
    /\ pc' = [pc EXCEPT ![Producer] = "publish"]
    /\ failed' = TRUE
    /\ UNCHANGED <<ring, waitSet, requests, created, taken>>

\* The producer moves precreated_back and wakes everyone if a consumer can
\* have found the ring empty.
ProducerPublish ==
    /\ pc[Producer] = "publish"
    /\ precreated_back' = NextSlot(precreated_back)
    /\ waitSet' = IF PublishWakes(precreated_back') THEN {} ELSE waitSet
    /\ pc' = [pc EXCEPT ![Producer] = "check"]
    /\ UNCHANGED <<precreated_logs, precreated_front, requests, created, taken, failed>>

\* A condition variable may wake a thread nobody signalled.
SpuriousWakeup(t) ==
    /\ t \in waitSet
    /\ waitSet' = waitSet \ {t}
    /\ UNCHANGED <<ring, pc, requests, created, taken, failed>>

ProducerStep ==
    \/ ProducerWait
    \/ ProducerProceed
    \/ ProducerCreate
    \/ ProducerCreateFails
    \/ ProducerPublish

Next ==
    \/ \E c \in Consumers : Request(c) \/ GetWait(c) \/ GetTake(c)
    \/ ProducerStep
    \/ \E t \in Threads : SpuriousWakeup(t)

Spec == Init /\ [][Next]_vars

\* A thread that is not blocked eventually gets the mutex and runs.  Nothing
\* obliges anyone to create files, nor the system to wake a thread spuriously.
Fairness ==
    /\ \A c \in Consumers : WF_vars(GetWait(c) \/ GetTake(c))
    /\ WF_vars(ProducerStep)

FairSpec == Spec /\ Fairness
-----------------------------------------------------------------------------
\* One condition variable serves both conditions and GetTake signals a single
\* waiter, so a signal may go to a thread that cannot use it.  Nobody is left
\* asleep while what it waits for already holds: no consumer sleeps beside a
\* log it could take, the producer does not sleep beside a free slot.
NoLostWakeup ==
    /\ ~Empty => waitSet \cap Consumers = {}
    /\ ~Full => Producer \notin waitSet

\* Until a creation fails, the i-th name handed out is the i-th log created: no
\* log backs two files, none is skipped, no zeroed or overwritten slot is ever
\* handed out, although the slot is written outside the mutex.
EachLogTakenOnce == ~failed => \A i \in 1 .. Len(taken) : taken[i] = i

\* Every call of gdpfs_log_get_precreated returns.
EveryRequestServed == \A c \in Consumers : pc[c] = "get" ~> pc[c] = "idle"
=============================================================================
