----------------------------- MODULE WeaveProofs -----------------------------
(***************************************************************************)
(* Proofs about the barrier of Weave, for every number of threads.          *)
(***************************************************************************)
EXTENDS Weave, FiniteSetTheorems, TLAPS

LEMMA ThreadsFinite == IsFiniteSet(Threads) /\ Cardinality(Threads) = NumThreads
<1>1. IsFiniteSet(Threads) /\ Cardinality(Threads) =
        IF 0 <= NumThreads - 1 THEN (NumThreads - 1) - 0 + 1 ELSE 0
  BY NumThreadsAssumption, FS_Interval DEF Threads
<1> QED BY <1>1, NumThreadsAssumption

\* The mutex: whoever is between lock and unlock holds it.
Critical == {"load", "store", "compare", "post", "unlock"}
MutexHeld == \A t \in Threads : at[t] \in Critical => lock = t

\* The counter counts the threads past their store, and the holder of the
\* mutex has loaded its current value.
CounterExact ==
    /\ ready_threads = Cardinality(Counted)
    /\ \A t \in Threads : at[t] = "store" => seen[t] = ready_threads

\* Nobody posts, and no token exists, before every thread is counted.
TokensMeanAll ==
    go_signal > 0 \/ (\E t \in Threads : at[t] \in {"post", "go", "done"})
        => Counted = Threads

\* Threads are created in the order of their identifiers.
NotYetBorn == \A t \in Threads : t >= spawned => at[t] = "unborn"

\* joined counts finished threads, and start_threads returns after the last.
JoinedAreDone ==
    /\ \A t \in Threads : t < joined => at[t] = "done"
    /\ returned => joined = NumThreads

Inv ==
    /\ TypeOK /\ NotYetBorn /\ MutexHeld
    /\ CounterExact /\ TokensMeanAll /\ JoinedAreDone

LEMMA CountedFinite ==
    ASSUME TypeOK
    PROVE  /\ IsFiniteSet(Counted) /\ Cardinality(Counted) \in Nat
           /\ Cardinality(Counted) = NumThreads <=> Counted = Threads
<1>1. Counted \subseteq Threads
  BY DEF Counted
<1>2. IsFiniteSet(Counted) /\ Cardinality(Counted) \in Nat
  BY <1>1, ThreadsFinite, FS_Subset, FS_CardinalityType
<1>3. Counted # Threads => Cardinality(Counted) # NumThreads
  BY <1>1, ThreadsFinite, FS_Subset
<1> QED BY <1>2, <1>3, ThreadsFinite

(***************************************************************************)
(* The invariant is inductive: one step per action, and the four parts an   *)
(* action can disturb.                                                      *)
(***************************************************************************)
LEMMA TypeStep == TypeOK /\ [Next]_vars => TypeOK'
<1> SUFFICES ASSUME TypeOK, [Next]_vars PROVE TypeOK'
  OBVIOUS
<1>0. \A t \in Threads, place \in Places : Goto(t, place) => at' \in [Threads -> Places]
  BY DEF TypeOK, Goto
<1>1. CASE StartThreads
  <2>1. CASE Create
    <3>1. spawned \in Threads /\ spawned + 1 \in 0 .. NumThreads
      BY <2>1, NumThreadsAssumption DEF Create, TypeOK, Threads
    <3>2. at' \in [Threads -> Places]
      BY <1>0, <2>1, <3>1 DEF Create, Places
    <3> QED BY <2>1, <3>1, <3>2 DEF Create, TypeOK
  <2>2. CASE Join
    BY <2>2, NumThreadsAssumption DEF Join, TypeOK, threadVars
  <2>3. CASE Return
    BY <2>3 DEF Return, TypeOK, threadVars
  <2> QED BY <1>1, <2>1, <2>2, <2>3 DEF StartThreads
<1>2. ASSUME NEW t \in Threads, Synchronize(t) PROVE TypeOK'
  <2>1. at' \in [Threads -> Places]
    BY <1>0, <1>2
    DEF Synchronize, Ready, Lock, Load, Store, Compare, Post, Unlock, Wait, Go, Places, TypeOK
  <2>2. lock' \in Threads \cup {NoThread}
    BY <1>2
    DEF Synchronize, Ready, Lock, Load, Store, Compare, Post, Unlock, Wait, Go, TypeOK
  <2>3. go_signal' \in Nat /\ ready_threads' \in Nat
    BY <1>2
    DEF Synchronize, Ready, Lock, Load, Store, Compare, Post, Unlock, Wait, Go, TypeOK
  <2>4. seen' \in [Threads -> Nat] /\ i' \in [Threads -> Nat]
    BY <1>2
    DEF Synchronize, Ready, Lock, Load, Store, Compare, Post, Unlock, Wait, Go, TypeOK
  <2>5. UNCHANGED mainVars
    BY <1>2 DEF Synchronize, Ready, Lock, Load, Store, Compare, Post, Unlock, Wait, Go
  <2> QED BY <2>1, <2>2, <2>3, <2>4, <2>5 DEF TypeOK, mainVars
<1>3. CASE UNCHANGED vars
  BY <1>3 DEF vars, mainVars, threadVars, TypeOK
<1> QED BY <1>1, <1>2, <1>3 DEF Next, Finished

LEMMA CreateStep == Inv /\ Create => Inv'
<1> SUFFICES ASSUME Inv, Create PROVE Inv'
  OBVIOUS
<1>1. TypeOK'
  BY TypeStep DEF Inv, Next, StartThreads
<1>2. spawned \in Threads /\ at[spawned] = "unborn"
  BY NumThreadsAssumption DEF Create, Inv, TypeOK, Threads, NotYetBorn
<1>3. at' = [at EXCEPT ![spawned] = "ready"]
  BY DEF Create, Goto
<1>4. Counted' = Counted
  BY <1>2, <1>3 DEF Counted, Inv, TypeOK
<1>5. NotYetBorn' /\ MutexHeld' /\ JoinedAreDone'
  BY <1>2, <1>3, NumThreadsAssumption
  DEF Create, Inv, TypeOK, NotYetBorn, MutexHeld, Critical, JoinedAreDone, Threads
<1>6. CounterExact' /\ TokensMeanAll'
  BY <1>2, <1>3, <1>4 DEF Create, Inv, TypeOK, CounterExact, TokensMeanAll
<1> QED BY <1>1, <1>5, <1>6 DEF Inv

LEMMA MainStep == Inv /\ (Join \/ Return) => Inv'
<1> SUFFICES ASSUME Inv, Join \/ Return PROVE Inv'
  OBVIOUS
<1>1. TypeOK'
  BY TypeStep DEF Inv, Next, StartThreads
<1>2. UNCHANGED <<spawned, threadVars>>
  BY DEF Join, Return
<1>3. Counted' = Counted
  BY <1>2 DEF Counted, threadVars
<1>4. NotYetBorn' /\ MutexHeld' /\ CounterExact' /\ TokensMeanAll'
  BY <1>2, <1>3
  DEF Inv, NotYetBorn, MutexHeld, CounterExact, TokensMeanAll, threadVars
<1>5. JoinedAreDone'
  BY <1>2, NumThreadsAssumption
  DEF Join, Return, Inv, TypeOK, JoinedAreDone, threadVars, Threads
<1> QED BY <1>1, <1>4, <1>5 DEF Inv

\* Every step of a thread but its store leaves the counter and the counted
\* threads alone.
LEMMA QuietStep ==
    ASSUME Inv, NEW t \in Threads,
           \/ Ready(t) \/ Lock(t) \/ Load(t) \/ Compare(t)
           \/ Post(t) \/ Unlock(t) \/ Wait(t) \/ Go(t)
    PROVE  Inv'
<1>1. TypeOK'
  BY TypeStep DEF Inv, Next, Synchronize
<1>2. /\ Counted' = Counted
      /\ ready_threads' = ready_threads
      /\ UNCHANGED mainVars
  BY DEF Ready, Lock, Load, Compare, Post, Unlock, Wait, Go, Goto, Counted, Inv, TypeOK
<1>3. \A u \in Threads \ {t} : at'[u] = at[u] /\ seen'[u] = seen[u]
  BY DEF Ready, Lock, Load, Compare, Post, Unlock, Wait, Go, Goto, Inv, TypeOK
<1>4. at[t] \notin {"unborn", "done"}
  BY DEF Ready, Lock, Load, Compare, Post, Unlock, Wait, Go
<1>5. NotYetBorn' /\ JoinedAreDone'
  BY <1>2, <1>3, <1>4 DEF Inv, NotYetBorn, JoinedAreDone, mainVars
<1>6. MutexHeld'
  <2>1. CASE Lock(t)
    BY <1>3, <2>1 DEF Lock, Inv, MutexHeld, NoThread, Threads, Goto, TypeOK
  <2>2. CASE Unlock(t)
    <3>1. \A u \in Threads : at[u] \in Critical => u = t
      BY <2>2 DEF Inv, MutexHeld, Unlock, Critical
    <3>2. at'[t] \notin Critical
      BY <2>2 DEF Unlock, Goto, Inv, TypeOK, Critical
    <3> QED BY <1>3, <3>1, <3>2 DEF MutexHeld
  <2>3. CASE Ready(t) \/ Load(t) \/ Compare(t) \/ Post(t) \/ Wait(t) \/ Go(t)
    <3>1. lock' = lock /\ (at'[t] \in Critical => at[t] \in Critical)
      BY <2>3 DEF Ready, Load, Compare, Post, Wait, Go, Goto, Inv, TypeOK, Critical
    <3> QED BY <1>3, <3>1 DEF Inv, MutexHeld
  <2> QED BY <2>1, <2>2, <2>3
<1>7. CounterExact'
  <2>1. at'[t] = "store" => seen'[t] = ready_threads
    BY DEF Ready, Lock, Load, Compare, Post, Unlock, Wait, Go, Goto, Inv, TypeOK
  <2> QED BY <1>2, <1>3, <2>1 DEF Inv, CounterExact
<1>8. TokensMeanAll'
  <2>1. CASE Compare(t) /\ ready_threads = NumThreads
    BY <1>2, <2>1, CountedFinite DEF Inv, CounterExact, TokensMeanAll
  <2>2. CASE ~(Compare(t) /\ ready_threads = NumThreads)
    <3>1. \/ go_signal > 0
          \/ at[t] \in {"post", "go", "done"}
          \/ go_signal' = go_signal /\ at'[t] \notin {"post", "go", "done"}
      BY <2>2
      DEF Ready, Lock, Load, Compare, Post, Unlock, Wait, Go, Goto, Inv, TypeOK
    <3> QED BY <1>2, <1>3, <3>1 DEF Inv, TokensMeanAll
  <2> QED BY <2>1, <2>2
<1> QED BY <1>1, <1>5, <1>6, <1>7, <1>8 DEF Inv

LEMMA StoreStep ==
    ASSUME Inv, NEW t \in Threads, Store(t)
    PROVE  Inv'
<1>1. TypeOK'
  BY TypeStep DEF Inv, Next, Synchronize
<1>2. at[t] = "store" /\ at' = [at EXCEPT ![t] = "compare"]
  BY DEF Store, Goto
<1>3. Counted' = Counted \cup {t} /\ t \notin Counted
  BY <1>2 DEF Counted, Inv, TypeOK
<1>4. NotYetBorn' /\ JoinedAreDone' /\ MutexHeld'
  BY <1>2 DEF Store, Inv, TypeOK, NotYetBorn, JoinedAreDone, MutexHeld, Critical, mainVars
<1>5. CounterExact'
  <2>1. ready_threads' = Cardinality(Counted) + 1
    BY <1>2 DEF Store, Inv, CounterExact
  <2>2. Cardinality(Counted') = Cardinality(Counted) + 1
    BY <1>3, CountedFinite, FS_AddElement DEF Inv
  <2>3. \A u \in Threads : at'[u] # "store"
    BY <1>2 DEF Inv, MutexHeld, Critical, TypeOK
  <2> QED BY <2>1, <2>2, <2>3 DEF CounterExact
<1>6. TokensMeanAll'
  BY <1>2, <1>3 DEF Store, Inv, TypeOK, TokensMeanAll
<1> QED BY <1>1, <1>4, <1>5, <1>6 DEF Inv

(***************************************************************************)
(* The invariant holds for every number of threads and every schedule       *)
(* of theirs (weave.c:12-60).                                               *)
(***************************************************************************)
THEOREM InvHolds == Spec => []Inv
<1>1. Init => Inv
  <2> SUFFICES ASSUME Init PROVE Inv
    OBVIOUS
  <2>1. TypeOK
    <3>1. spawned \in 0 .. NumThreads /\ joined \in 0 .. NumThreads
      BY NumThreadsAssumption DEF Init
    <3>2. /\ at \in [Threads -> Places]
          /\ seen \in [Threads -> Nat] /\ i \in [Threads -> Nat]
      BY DEF Init, Places
    <3> QED BY <3>1, <3>2 DEF Init, TypeOK
  <2>2. Counted = {}
    BY DEF Init, Counted
  <2>3. Cardinality(Counted) = 0
    BY <2>2, FS_EmptySet
  <2> QED BY <2>1, <2>2, <2>3, NumThreadsAssumption
          DEF Init, Inv, NotYetBorn, MutexHeld, Critical, CounterExact, TokensMeanAll,
              JoinedAreDone, Threads
<1>2. Inv /\ [Next]_vars => Inv'
  <2> SUFFICES ASSUME Inv, [Next]_vars PROVE Inv'
    OBVIOUS
  <2>1. CASE StartThreads
    BY <2>1, CreateStep, MainStep DEF StartThreads
  <2>2. CASE \E t \in Threads : Synchronize(t)
    BY <2>2, QuietStep, StoreStep DEF Synchronize
  <2>3. CASE UNCHANGED vars
    <3>1. TypeOK' /\ Counted' = Counted
      BY <2>3 DEF Inv, TypeOK, Counted, vars, mainVars, threadVars
    <3> QED BY <2>3, <3>1
            DEF Inv, NotYetBorn, MutexHeld, CounterExact, TokensMeanAll, JoinedAreDone,
                vars, mainVars, threadVars
  <2> QED BY <2>1, <2>2, <2>3 DEF Next, Finished
<1> QED BY <1>1, <1>2, PTL DEF Spec

(***************************************************************************)
(* Whatever the number of threads and the schedule, no thread passes the    *)
(* semaphore before every thread has finished ready().                      *)
(***************************************************************************)
THEOREM BarrierHolds == Spec => []Barrier
<1>1. Inv => Barrier
  BY DEF Inv, TokensMeanAll, Counted, Barrier, Passed
<1> QED BY <1>1, InvHolds, PTL

\* start_threads returns, and frees what the threads share, after the last
\* thread has finished.
THEOREM ReturnsLast == Spec => []NothingUsedAfterReturn
<1>1. Inv => NothingUsedAfterReturn
  BY NumThreadsAssumption DEF Inv, JoinedAreDone, NothingUsedAfterReturn, Threads
<1> QED BY <1>1, InvHolds, PTL

-----------------------------------------------------------------------------
(***************************************************************************)
(* The tokens.  The thread that posts is alone: it found the counter full   *)
(* while it held the mutex, so that every other thread is past its          *)
(* comparison and never posts.  It posts one token for each thread before   *)
(* it waits for one itself (weave.c:18-25).                                 *)
(***************************************************************************)
PosterAlone ==
    \A t \in Threads : at[t] = "post" \/ i[t] > 0 =>
        \A u \in Threads \ {t} : at[u] \in {"wait", "go", "done"} /\ i[u] = 0

PostsAll ==
    \A t \in Threads :
        /\ i[t] <= NumThreads
        /\ i[t] > 0 => at[t] \in {"post", "wait", "go", "done"}

BalanceInv ==
    /\ PosterAlone /\ PostsAll
    /\ go_signal + Cardinality(Passed) = Posted

\* What Posted is: the loop variable of the poster, if there is one.
LEMMA PostedIs ==
    ASSUME TypeOK, NEW t \in Threads, \A u \in Threads \ {t} : i[u] = 0
    PROVE  Posted = i[t]
<1>1. i[t] \in Nat
  BY DEF TypeOK
<1>2. CASE i[t] > 0
  <2>1. \A u \in Threads : i[u] > 0 <=> u = t
    BY <1>2
  <2>2. (CHOOSE u \in Threads : i[u] > 0) = t
    BY <2>1
  <2>3. QED
    BY <1>2, <2>2 DEF Posted
<1>3. CASE i[t] = 0
  BY <1>3 DEF Posted
<1>4. QED
  BY <1>1, <1>2, <1>3

LEMMA PassedFinite ==
    /\ IsFiniteSet(Passed) /\ Cardinality(Passed) \in Nat
    /\ \A t \in Threads \ Passed : Cardinality(Passed \cup {t}) = Cardinality(Passed) + 1
<1>1. Passed \subseteq Threads
  BY DEF Passed
<1>2. QED
  BY <1>1, ThreadsFinite, FS_Subset, FS_CardinalityType, FS_AddElement

\* A step that neither posts nor takes a token keeps the balance.
LEMMA TokensUntouched ==
    ASSUME BalanceInv, i' = i, go_signal' = go_signal, Passed' = Passed
    PROVE  (go_signal + Cardinality(Passed) = Posted)'
  BY DEF BalanceInv, Posted

LEMMA BalanceStep ==
    ASSUME Inv, BalanceInv, NEW t \in Threads, Synchronize(t)
    PROVE  BalanceInv'
<1>0. TypeOK /\ PosterAlone /\ PostsAll /\ MutexHeld
  BY DEF Inv, BalanceInv
<1>1. /\ at \in [Threads -> Places] /\ i \in [Threads -> Nat]
      /\ go_signal \in Nat /\ NumThreads \in Nat
  BY <1>0, NumThreadsAssumption DEF TypeOK
<1>2. CASE Ready(t) \/ Lock(t) \/ Load(t) \/ Store(t)
  <2>1. /\ at[t] \in {"ready", "lock", "load", "store"} /\ i' = i /\ go_signal' = go_signal
        /\ \E place \in {"lock", "load", "store", "compare"} :
              at' = [at EXCEPT ![t] = place]
    BY <1>2 DEF Ready, Lock, Load, Store, Goto
  <2>2. PosterAlone' /\ PostsAll'
    BY <1>0, <1>1, <2>1 DEF PosterAlone, PostsAll
  <2>3. Passed' = Passed
    BY <1>1, <2>1 DEF Passed
  <2>4. QED
    BY <2>1, <2>2, <2>3, TokensUntouched DEF BalanceInv
<1>3. CASE Compare(t)
  <2>1. /\ at[t] = "compare" /\ i' = i /\ go_signal' = go_signal
        /\ at' = [at EXCEPT ![t] = IF ready_threads = NumThreads THEN "post" ELSE "unlock"]
    BY <1>3 DEF Compare, Goto
  <2>2. \A u \in Threads : i[u] = 0
    BY <1>0, <1>1, <2>1 DEF PosterAlone, PostsAll
  <2>3. ready_threads = NumThreads =>
           \A u \in Threads \ {t} : at[u] \in {"wait", "go", "done"}
    <3>1. SUFFICES ASSUME ready_threads = NumThreads, NEW u \in Threads \ {t}
                   PROVE  at[u] \in {"wait", "go", "done"}
      OBVIOUS
    <3>2. u \in Counted
      BY <1>0, <3>1, CountedFinite DEF Inv, CounterExact
    <3>3. at[u] \notin Critical
      BY <1>0, <2>1, <3>1 DEF MutexHeld, Critical
    <3>4. QED
      BY <3>2, <3>3 DEF Counted, Critical
  <2>4. PosterAlone' /\ PostsAll'
    BY <1>0, <1>1, <2>1, <2>2, <2>3 DEF PosterAlone, PostsAll
  <2>5. Passed' = Passed
    BY <1>1, <2>1 DEF Passed
  <2>6. QED
    BY <2>1, <2>4, <2>5, TokensUntouched DEF BalanceInv
<1>4. CASE Post(t)
  <2>1. /\ at[t] = "post" /\ i[t] < NumThreads /\ at' = at
        /\ go_signal' = go_signal + 1 /\ i' = [i EXCEPT ![t] = i[t] + 1]
    BY <1>4 DEF Post
  <2>2. \A u \in Threads \ {t} : i[u] = 0 /\ i'[u] = 0
    BY <1>0, <1>1, <2>1 DEF PosterAlone
  <2>3. i'[t] = i[t] + 1
    BY <1>1, <2>1
  <2>4. PosterAlone' /\ PostsAll'
    BY <1>0, <1>1, <2>1, <2>2, <2>3 DEF PosterAlone, PostsAll
  <2>5. Posted = i[t]
    BY <1>0, <2>2, PostedIs
  <2>6. Posted' = i'[t]
    <3>1. TypeOK'
      BY TypeStep, <1>0 DEF Next
    <3>2. (TypeOK /\ (\A u \in Threads \ {t} : i[u] = 0) => Posted = i[t])'
      BY PostedIs, PTL
    <3>3. QED
      BY <2>2, <3>1, <3>2
  <2>7. Passed' = Passed
    BY <2>1 DEF Passed
  <2>8. QED
    BY <1>1, <2>1, <2>3, <2>4, <2>5, <2>6, <2>7, PassedFinite DEF BalanceInv
<1>5. CASE Unlock(t)
  <2>1. /\ at[t] = "unlock" \/ (at[t] = "post" /\ i[t] = NumThreads)
        /\ at' = [at EXCEPT ![t] = "wait"] /\ i' = i /\ go_signal' = go_signal
    BY <1>5 DEF Unlock, Goto
  <2>2. PosterAlone' /\ PostsAll'
    BY <1>0, <1>1, <2>1 DEF PosterAlone, PostsAll
  <2>3. Passed' = Passed
    BY <1>1, <2>1 DEF Passed
  <2>4. QED
    BY <2>1, <2>2, <2>3, TokensUntouched DEF BalanceInv
<1>6. CASE Wait(t)
  <2>1. /\ at[t] = "wait" /\ go_signal > 0 /\ go_signal' = go_signal - 1
        /\ at' = [at EXCEPT ![t] = "go"] /\ i' = i
    BY <1>6 DEF Wait, Goto
  <2>2. PosterAlone' /\ PostsAll'
    BY <1>0, <1>1, <2>1 DEF PosterAlone, PostsAll
  <2>3. Passed' = Passed \cup {t} /\ t \notin Passed
    BY <1>1, <2>1 DEF Passed
  <2>4. Posted' = Posted
    BY <2>1 DEF Posted
  <2>5. QED
    BY <1>1, <2>1, <2>2, <2>3, <2>4, PassedFinite DEF BalanceInv
<1>7. CASE Go(t)
  <2>1. /\ at[t] = "go" /\ at' = [at EXCEPT ![t] = "done"]
        /\ i' = i /\ go_signal' = go_signal
    BY <1>7 DEF Go, Goto
  <2>2. PosterAlone' /\ PostsAll'
    BY <1>0, <1>1, <2>1 DEF PosterAlone, PostsAll
  <2>3. Passed' = Passed
    BY <1>1, <2>1 DEF Passed
  <2>4. QED
    BY <2>1, <2>2, <2>3, TokensUntouched DEF BalanceInv
<1>8. QED
  BY <1>2, <1>3, <1>4, <1>5, <1>6, <1>7 DEF Synchronize

\* Creating and joining threads and returning touch no token.
LEMMA BalanceMainStep ==
    ASSUME Inv, BalanceInv, StartThreads \/ UNCHANGED vars
    PROVE  BalanceInv'
<1>0. TypeOK /\ PosterAlone /\ PostsAll
  BY DEF Inv, BalanceInv
<1>1. CASE Create
  <2>1. spawned \in Threads /\ at[spawned] = "unborn"
    BY <1>1, NumThreadsAssumption DEF Create, Inv, TypeOK, Threads, NotYetBorn
  <2>2. at' = [at EXCEPT ![spawned] = "ready"] /\ i' = i /\ go_signal' = go_signal
    BY <1>1 DEF Create, Goto
  <2>3. PosterAlone' /\ PostsAll'
    BY <1>0, <2>1, <2>2 DEF PosterAlone, PostsAll, TypeOK
  <2>4. Passed' = Passed
    BY <1>0, <2>1, <2>2 DEF Passed, TypeOK
  <2>5. QED
    BY <2>2, <2>3, <2>4, TokensUntouched DEF BalanceInv
<1>2. CASE UNCHANGED threadVars
  <2>1. at' = at /\ i' = i /\ go_signal' = go_signal
    BY <1>2 DEF threadVars
  <2>2. PosterAlone' /\ PostsAll' /\ Passed' = Passed
    BY <1>0, <2>1 DEF PosterAlone, PostsAll, Passed
  <2>3. QED
    BY <2>1, <2>2, TokensUntouched DEF BalanceInv
<1>3. QED
  BY <1>1, <1>2 DEF StartThreads, Join, Return, vars

(***************************************************************************)
(* For any number of threads and any schedule one thread posts, one token   *)
(* for each thread, and when start_threads returns none is left.            *)
(***************************************************************************)
THEOREM TokensHold == Spec => []TokensBalance
<1>1. Init => BalanceInv
  <2> SUFFICES ASSUME Init PROVE BalanceInv
    OBVIOUS
  <2>1. Passed = {} /\ Posted = 0
    BY DEF Init, Passed, Posted
  <2>2. Cardinality(Passed) = 0
    BY <2>1, FS_EmptySet
  <2>3. QED
    BY <2>1, <2>2, NumThreadsAssumption DEF Init, BalanceInv, PosterAlone, PostsAll
<1>2. Inv /\ BalanceInv /\ [Next]_vars => BalanceInv'
  BY BalanceStep, BalanceMainStep DEF Next, Finished
<1>3. Inv /\ BalanceInv => TokensBalance
  <2> SUFFICES ASSUME Inv, BalanceInv PROVE TokensBalance
    OBVIOUS
  <2>1. /\ TypeOK /\ PosterAlone /\ PostsAll /\ NumThreads \in Nat
        /\ go_signal + Cardinality(Passed) = Posted
    BY NumThreadsAssumption DEF Inv, BalanceInv
  <2>2. \A t, u \in Threads : i[t] > 0 /\ i[u] > 0 => t = u
    BY <2>1 DEF PosterAlone, TypeOK
  <2>3. returned => go_signal = 0
    <3>1. SUFFICES ASSUME returned PROVE go_signal = 0
      OBVIOUS
    <3>2. Passed = Threads
      BY <3>1, <2>1 DEF Inv, JoinedAreDone, Passed, Threads
    <3>3. Posted <= NumThreads
      <4>1. CASE \E t \in Threads : i[t] > 0
        <5>1. (CHOOSE t \in Threads : i[t] > 0) \in Threads
          BY <4>1
        <5>2. QED
          BY <4>1, <5>1, <2>1 DEF Posted, PostsAll
      <4>2. CASE ~\E t \in Threads : i[t] > 0
        BY <4>2, <2>1 DEF Posted
      <4>3. QED
        BY <4>1, <4>2
    <3>4. go_signal + NumThreads <= NumThreads
      BY <2>1, <3>2, <3>3, ThreadsFinite
    <3>5. QED
      BY <2>1, <3>4 DEF TypeOK
  <2>4. QED
    BY <2>1, <2>2, <2>3 DEF TokensBalance
<1>4. QED
  BY <1>1, <1>2, <1>3, InvHolds, PTL DEF Spec

-----------------------------------------------------------------------------
(***************************************************************************)
(* Every step of the pool is a step of the rendezvous weave.h promises, or  *)
(* leaves it unchanged.                                                     *)
(***************************************************************************)
THEOREM RefinesRendezvous == Spec => Rendezvous!Safety
<1> DEFINE stage(t) == IF at[t] \in {"unborn", "ready"} THEN "early"
                       ELSE IF at[t] = "done" THEN "gone" ELSE "ready"
<1>1. Init => Rendezvous!Init
  BY DEF Init, Rendezvous!Init
<1>2. ASSUME Inv, [Next]_vars
      PROVE  [Rendezvous!Next]_(Rendezvous!vars)
  <2>0. TypeOK
    BY <1>2 DEF Inv
  <2>1. CASE Create
    <3>1. spawned \in Threads /\ at[spawned] = "unborn"
      BY <1>2, <2>1, NumThreadsAssumption DEF Create, Inv, TypeOK, Threads, NotYetBorn
    <3>2. \A t \in Threads : stage(t)' = stage(t)
      BY <2>0, <2>1, <3>1 DEF Create, Goto, TypeOK
    <3> QED BY <2>1, <3>2 DEF Create, Rendezvous!vars
  <2>2. CASE Join
    BY <2>2 DEF Join, threadVars, Rendezvous!vars
  <2>3. CASE Return
    <3>1. \A t \in Threads : at[t] = "done"
      BY <1>2, <2>3, NumThreadsAssumption DEF Return, Inv, JoinedAreDone, Threads
    <3>2. Rendezvous!Return
      BY <2>3, <3>1 DEF Return, threadVars, Rendezvous!Return
    <3> QED BY <3>2 DEF Rendezvous!Next
  <2>4. ASSUME NEW t \in Threads, Ready(t)
        PROVE  Rendezvous!FinishReady(t)
    BY <2>0, <2>4 DEF Ready, Goto, TypeOK, mainVars, Rendezvous!FinishReady
  <2>5. ASSUME NEW t \in Threads, Go(t)
        PROVE  Rendezvous!RunGo(t)
    <3>1. \A u \in Threads : at[u] \notin {"unborn", "ready"}
      BY <1>2, <2>5 DEF Go, Inv, TokensMeanAll, Counted
    <3> QED BY <2>0, <2>5, <3>1 DEF Go, Goto, TypeOK, mainVars, Rendezvous!RunGo
  <2>6. ASSUME NEW t \in Threads,
               \/ Lock(t) \/ Load(t) \/ Store(t) \/ Compare(t)
               \/ Post(t) \/ Unlock(t) \/ Wait(t)
        PROVE  UNCHANGED Rendezvous!vars
    <3>1. returned' = returned
      BY <2>6 DEF Lock, Load, Store, Compare, Post, Unlock, Wait, mainVars
    <3>2. \A u \in Threads : stage(u)' = stage(u)
      BY <2>0, <2>6 DEF Lock, Load, Store, Compare, Post, Unlock, Wait, Goto, TypeOK
    <3> QED BY <3>1, <3>2 DEF Rendezvous!vars
  <2>7. CASE UNCHANGED vars
    BY <2>7 DEF vars, mainVars, threadVars, Rendezvous!vars
  <2> QED BY <1>2, <2>1, <2>2, <2>3, <2>4, <2>5, <2>6, <2>7
          DEF Next, StartThreads, Synchronize, Finished, Rendezvous!Next
<1> QED BY <1>1, <1>2, InvHolds, PTL DEF Spec, Rendezvous!Safety

=============================================================================
