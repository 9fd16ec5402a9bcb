-------------------------------- MODULE Weave --------------------------------
(***************************************************************************)
(* weave.c: a barrier for a pool of threads, built from a mutex, a counter  *)
(* of ready threads and a semaphore.  The increment of the shared counter   *)
(* is a load and a store, as the compiler makes it; the POSIX calls are     *)
(* taken to succeed, as weave.c takes them.                                 *)
(***************************************************************************)
EXTENDS Naturals, FiniteSets

CONSTANT NumThreads

ASSUME NumThreadsAssumption == NumThreads \in Nat

Threads == 0 .. NumThreads - 1

NoThread == NumThreads      \* the holder of a free mutex

VARIABLES
    spawned,        \* threads created so far by start_threads
    joined,         \* threads joined so far
    returned,       \* the mutex, the semaphore and the arguments are gone
    at,             \* where each thread is in synchronize()
    lock,           \* the thread that holds the mutex
    go_signal,      \* the value of the semaphore
    ready_threads,  \* the shared counter
    seen,           \* the value a thread loaded to increment
    i               \* a thread's loop variable

mainVars   == <<spawned, joined, returned>>
threadVars == <<at, lock, go_signal, ready_threads, seen, i>>
vars       == <<mainVars, threadVars>>

Places == {"unborn", "ready", "lock", "load", "store", "compare", "post",
           "unlock", "wait", "go", "done"}

TypeOK ==
    /\ spawned \in 0 .. NumThreads
    /\ joined \in 0 .. NumThreads
    /\ returned \in BOOLEAN
    /\ at \in [Threads -> Places]
    /\ lock \in Threads \cup {NoThread}
    /\ go_signal \in Nat
    /\ ready_threads \in Nat
    /\ seen \in [Threads -> Nat]
    /\ i \in [Threads -> Nat]

Init ==
    /\ spawned = 0 /\ joined = 0 /\ returned = FALSE
    /\ at = [t \in Threads |-> "unborn"]
    /\ lock = NoThread
    /\ go_signal = 0
    /\ ready_threads = 0
    /\ seen = [t \in Threads |-> 0]
    /\ i = [t \in Threads |-> 0]

Goto(t, place) == at' = [at EXCEPT ![t] = place]

-----------------------------------------------------------------------------
(***************************************************************************)
(* start_threads                                                            *)
(***************************************************************************)
Create ==
    /\ spawned < NumThreads
    /\ spawned' = spawned + 1
    /\ Goto(spawned, "ready")
    /\ UNCHANGED <<joined, returned, lock, go_signal, ready_threads, seen, i>>

\* Mutant: a join that does not wait.
Join_NoWait ==
    /\ spawned = NumThreads /\ joined < NumThreads
    /\ joined' = joined + 1
    /\ UNCHANGED <<spawned, returned, threadVars>>

\* The second loop starts when the first has ended.
Join ==
    /\ spawned = NumThreads /\ joined < NumThreads
    /\ at[joined] = "done"
    /\ joined' = joined + 1
    /\ UNCHANGED <<spawned, returned, threadVars>>

\* Mutant: the threads are not joined.
Return_Unjoined ==
    /\ spawned = NumThreads /\ ~returned
    /\ returned' = TRUE
    /\ UNCHANGED <<spawned, joined, threadVars>>

Return ==
    /\ spawned = NumThreads /\ joined = NumThreads /\ ~returned
    /\ returned' = TRUE
    /\ UNCHANGED <<spawned, joined, threadVars>>

(***************************************************************************)
(* synchronize                                                              *)
(***************************************************************************)
Ready(t) ==
    /\ at[t] = "ready"
    /\ Goto(t, "lock")
    /\ UNCHANGED <<mainVars, lock, go_signal, ready_threads, seen, i>>

Lock(t) ==
    /\ at[t] = "lock" /\ lock = NoThread
    /\ lock' = t
    /\ Goto(t, "load")
    /\ UNCHANGED <<mainVars, go_signal, ready_threads, seen, i>>

Load(t) ==
    /\ at[t] = "load"
    /\ seen' = [seen EXCEPT ![t] = ready_threads]
    /\ Goto(t, "store")
    /\ UNCHANGED <<mainVars, lock, go_signal, ready_threads, i>>

Store(t) ==
    /\ at[t] = "store"
    /\ ready_threads' = seen[t] + 1
    /\ Goto(t, "compare")
    /\ UNCHANGED <<mainVars, lock, go_signal, seen, i>>

\* Mutant: the last thread but one opens the barrier.
Compare_Early(t) ==
    /\ at[t] = "compare"
    /\ Goto(t, IF ready_threads + 1 >= NumThreads THEN "post" ELSE "unlock")
    /\ UNCHANGED <<mainVars, lock, go_signal, ready_threads, seen, i>>

Compare(t) ==
    /\ at[t] = "compare"
    /\ Goto(t, IF ready_threads = NumThreads THEN "post" ELSE "unlock")
    /\ UNCHANGED <<mainVars, lock, go_signal, ready_threads, seen, i>>

\* Mutant: the loop may post once too often.
Post_TooMany(t) ==
    /\ at[t] = "post" /\ i[t] <= NumThreads
    /\ go_signal' = go_signal + 1
    /\ i' = [i EXCEPT ![t] = IF @ < NumThreads THEN @ + 1 ELSE @]
    /\ UNCHANGED <<mainVars, at, lock, ready_threads, seen>>

\* One iteration of the posting loop.
Post(t) ==
    /\ at[t] = "post" /\ i[t] < NumThreads
    /\ go_signal' = go_signal + 1
    /\ i' = [i EXCEPT ![t] = @ + 1]
    /\ UNCHANGED <<mainVars, at, lock, ready_threads, seen>>

Unlock(t) ==
    /\ at[t] = "unlock" \/ (at[t] = "post" /\ i[t] = NumThreads)
    /\ lock' = NoThread
    /\ Goto(t, "wait")
    /\ UNCHANGED <<mainVars, go_signal, ready_threads, seen, i>>

Wait(t) ==
    /\ at[t] = "wait" /\ go_signal > 0
    /\ go_signal' = go_signal - 1
    /\ Goto(t, "go")
    /\ UNCHANGED <<mainVars, lock, ready_threads, seen, i>>

Go(t) ==
    /\ at[t] = "go"
    /\ Goto(t, "done")
    /\ UNCHANGED <<mainVars, lock, go_signal, ready_threads, seen, i>>

Synchronize(t) ==
    \/ Ready(t) \/ Lock(t) \/ Load(t) \/ Store(t) \/ Compare(t)
    \/ Post(t) \/ Unlock(t) \/ Wait(t) \/ Go(t)

StartThreads == Create \/ Join \/ Return

\* After its last call the program has nothing left to do.
Finished == returned /\ UNCHANGED vars

Next == StartThreads \/ (\E t \in Threads : Synchronize(t)) \/ Finished

(***************************************************************************)
(* The scheduler runs every runnable thread.  Weak fairness is enough, for  *)
(* the mutex too: each thread locks it once, so a waiting thread finds it   *)
(* free in the end.                                                         *)
(***************************************************************************)
Fairness == WF_vars(StartThreads) /\ \A t \in Threads : WF_vars(Synchronize(t))

Spec == Init /\ [][Next]_vars /\ Fairness

-----------------------------------------------------------------------------
\* A thread whose increment is in the counter, and one past its sem_wait.
Counted == {t \in Threads : at[t] \in {"compare", "post", "unlock", "wait", "go", "done"}}
Passed  == {t \in Threads : at[t] \in {"go", "done"}}
Posted  == IF \E t \in Threads : i[t] > 0 THEN i[CHOOSE t \in Threads : i[t] > 0] ELSE 0

(***************************************************************************)
(* No thread passes the semaphore before every thread has finished ready(), *)
(* the guarantee of weave.h:38-41.                                          *)
(***************************************************************************)
Barrier == Passed # {} => \A t \in Threads : at[t] \notin {"unborn", "ready"}

(***************************************************************************)
(* One thread posts, one token for each thread, and each thread takes one:  *)
(* tokens are neither lost nor left over (weave.c:18-25).                   *)
(***************************************************************************)
TokensBalance ==
    /\ \A t, u \in Threads : i[t] > 0 /\ i[u] > 0 => t = u
    /\ go_signal + Cardinality(Passed) = Posted
    /\ returned => go_signal = 0

(***************************************************************************)
(* start_threads destroys the mutex and the semaphore and frees the         *)
(* arguments only when no thread can use them again (weave.c:52-59).        *)
(***************************************************************************)
NothingUsedAfterReturn == returned => \A t \in Threads : at[t] = "done"

\* The barrier, seen as the rendezvous weave.h promises.
Rendezvous == INSTANCE Rendezvous WITH
    stage <- [t \in Threads |->
                 IF at[t] \in {"unborn", "ready"} THEN "early"
                 ELSE IF at[t] = "done" THEN "gone" ELSE "ready"]

\* synchronize() and start_threads() implement the rendezvous of weave.h,
\* including that the pool runs to its end: nobody waits forever.
ImplementsRendezvous == Rendezvous!Spec

=============================================================================
