---------------------------- MODULE ThreadsProofs ----------------------------
(***************************************************************************)
(* Theorems of Threads, for any number of threads and of posts and every   *)
(* initial value.                                                          *)
(***************************************************************************)
EXTENDS Threads, FiniteSetTheorems, TLAPS

\* Where the controller is says what the structure, the kernel and the task
\* may be.
AtStart(t) ==
    /\ pc[t] = "none" =>
          /\ mem[t] = "none" /\ kernel[t] = "none"
          /\ task[t] = "none" /\ state[t] = 0
    /\ pc[t] # "none" => mem[t] # "none"
    /\ pc[t] = "created" =>
          /\ mem[t] = "live" /\ state[t] = 0
          /\ task[t] \in {"none", "suspended"}
          /\ linux => kernel[t] = "none"
    /\ kernel[t] = "none" => task[t] = "none"
    /\ task[t] = "suspended" => ~linux /\ pc[t] \in {"created", "freeing", "destroyed"}

Started(t) ==
    /\ pc[t] = "detach" => linux /\ autodestroy[t] /\ kernel[t] # "released"
    /\ pc[t] = "setState" => linux
    /\ (linux /\ autodestroy[t] /\ pc[t] \in {"setState", "started"}) =>
          kernel[t] = "released"
    /\ (pc[t] = "started" /\ ~autodestroy[t]) => state[t] = 1
    /\ pc[t] = "joining" => ~autodestroy[t]

AtEnd(t) ==
    /\ pc[t] \in {"joining", "freeing"} => mem[t] = "live"
    /\ pc[t] = "freeing" =>
          /\ task[t] \in {"none", "suspended", "ended"}
          /\ linux => kernel[t] # "held"
    /\ pc[t] = "destroyed" => mem[t] = "freed" /\ kernel[t] # "held"
    /\ mem[t] = "freed" =>
          /\ task[t] \in {"none", "suspended", "ended"}
          /\ pc[t] = "destroyed" \/ autodestroy[t]
          /\ ~linux => kernel[t] # "held"
    /\ pc[t] = "undefined" =>
          /\ linux
          /\ kernel[t] = "none" \/ (autodestroy[t] /\ mem[t] = "freed")
    /\ task[t] = "undefined" => autodestroy[t] /\ sem = "destroyed"

ThreadInv(t) == AtStart(t) /\ Started(t) /\ AtEnd(t)

\* The semaphore outlives every thread whose end its user can know of.
OutlivesThreads ==
    sem = "destroyed" => \A t \in Thread :
        pc[t] \in {"none", "destroyed"} \/ (autodestroy[t] /\ pc[t] = "started")

\* The value is what the semaphore started with and the posts that were not
\* lost, less the grants.
Start == IF linux THEN initial ELSE 1

Counts ==
    /\ sem # "none" => value + granted + lost = Start + posted
    /\ sem = "none" => value = 0 /\ posted = 0 /\ granted = 0 /\ lost = 0

\* The inductive invariant.
IInv ==
    /\ TypeOK
    /\ \A t \in Thread : ThreadInv(t)
    /\ OutlivesThreads
    /\ Counts
----------------------------------------------------------------------------
LEMMA InitIInv == Init => IInv
<1> SUFFICES ASSUME Init PROVE IInv
  OBVIOUS
<1>1. TypeOK
  BY DEF Init, TypeOK
<1>2. \A t \in Thread : ThreadInv(t)
  BY DEF Init, ThreadInv, AtStart, Started, AtEnd
<1>3. OutlivesThreads /\ Counts
  BY DEF Init, OutlivesThreads, Counts
<1> QED
  BY <1>1, <1>2, <1>3 DEF IInv

\* The types, action by action.
LEMMA TypeStep == IInv /\ [Next]_vars => TypeOK'
<1> SUFFICES ASSUME IInv, [Next]_vars PROVE TypeOK'
  OBVIOUS
<1>1. TypeOK
  BY DEF IInv
<1>2. CASE Semaphore_create \/ Semaphore_post \/ Semaphore_destroy
  BY <1>1, <1>2, ThreadAssumption
     DEF TypeOK, Semaphore_create, Semaphore_post, Semaphore_destroy, threads
<1>3. ASSUME NEW t \in Thread, Thread_create(t) \/ pthread_create(t)
      PROVE  TypeOK'
  BY <1>1, <1>3 DEF TypeOK, Thread_create, pthread_create, semaphore
<1>4. ASSUME NEW t \in Thread, pthread_detach(t) \/ setState(t) \/ ResumeThread(t)
      PROVE  TypeOK'
  BY <1>1, <1>4 DEF TypeOK, pthread_detach, setState, ResumeThread, semaphore
<1>5. ASSUME NEW t \in Thread, Thread_destroy(t) \/ join(t) \/ free(t)
      PROVE  TypeOK'
  BY <1>1, <1>5 DEF TypeOK, Thread_destroy, join, free, semaphore
<1>6. ASSUME NEW t \in Thread, runner(t) \/ ends(t)
      PROVE  TypeOK'
  BY <1>1, <1>6 DEF TypeOK, runner, ends, semaphore
<1>7. ASSUME NEW t \in Thread, Semaphore_wait(t)
      PROVE  TypeOK'
  BY <1>1, <1>7 DEF TypeOK, Semaphore_wait
<1>8. CASE UNCHANGED vars
  BY <1>1, <1>8 DEF TypeOK, vars, threads, semaphore
<1> QED
  BY <1>2, <1>3, <1>4, <1>5, <1>6, <1>7, <1>8 DEF Next, Controller, Task

\* A thread that a step does not touch.
LEMMA OtherThread ==
  ASSUME NEW t \in Thread, ThreadInv(t), platform' = platform,
         pc'[t] = pc[t], mem'[t] = mem[t], state'[t] = state[t],
         autodestroy'[t] = autodestroy[t], kernel'[t] = kernel[t],
         task'[t] = task[t], sem = "destroyed" => sem' = "destroyed"
  PROVE  ThreadInv(t)'
  BY DEF ThreadInv, AtStart, Started, AtEnd, linux

\* The thread whose controller or task makes a step.
LEMMA ThreadStep ==
  ASSUME IInv, NEW t \in Thread, Controller(t) \/ Task(t)
  PROVE  ThreadInv(t)'
<1>1. TypeOK /\ ThreadInv(t) /\ OutlivesThreads
  BY DEF IInv
<1>2. CASE Thread_create(t)
  BY <1>1, <1>2 DEF Thread_create, TypeOK, ThreadInv, AtStart, Started, AtEnd, linux
<1>3. CASE pthread_create(t)
  BY <1>1, <1>3 DEF pthread_create, TypeOK, ThreadInv, AtStart, Started, AtEnd, linux, semaphore
<1>4. CASE pthread_detach(t)
  BY <1>1, <1>4 DEF pthread_detach, TypeOK, ThreadInv, AtStart, Started, AtEnd, linux, semaphore
<1>5. CASE setState(t)
  BY <1>1, <1>5 DEF setState, TypeOK, ThreadInv, AtStart, Started, AtEnd, linux, semaphore
<1>6. CASE ResumeThread(t)
  BY <1>1, <1>6 DEF ResumeThread, TypeOK, ThreadInv, AtStart, Started, AtEnd, linux, semaphore
<1>7. CASE Thread_destroy(t)
  BY <1>1, <1>7 DEF Thread_destroy, TypeOK, ThreadInv, AtStart, Started, AtEnd, linux, semaphore
<1>8. CASE join(t)
  BY <1>1, <1>8 DEF join, TypeOK, ThreadInv, AtStart, Started, AtEnd, linux, semaphore
<1>9. CASE free(t)
  BY <1>1, <1>9 DEF free, TypeOK, ThreadInv, AtStart, Started, AtEnd, linux, semaphore
<1>10. CASE runner(t)
  BY <1>1, <1>10 DEF runner, TypeOK, ThreadInv, AtStart, Started, AtEnd, linux, semaphore
<1>11. CASE Semaphore_wait(t)
  BY <1>1, <1>11 DEF Semaphore_wait, TypeOK, ThreadInv, AtStart, Started, AtEnd, linux, OutlivesThreads
<1>12. CASE ends(t)
  BY <1>1, <1>12 DEF ends, TypeOK, ThreadInv, AtStart, Started, AtEnd, linux, semaphore
<1> QED
  BY <1>2, <1>3, <1>4, <1>5, <1>6, <1>7, <1>8, <1>9, <1>10, <1>11, <1>12
     DEF Controller, Task

LEMMA ThreadsStep == IInv /\ [Next]_vars => \A u \in Thread : ThreadInv(u)'
<1> SUFFICES ASSUME IInv, [Next]_vars, NEW u \in Thread PROVE ThreadInv(u)'
  OBVIOUS
<1>1. TypeOK /\ ThreadInv(u)
  BY DEF IInv
<1>2. CASE Semaphore_create \/ Semaphore_post \/ Semaphore_destroy \/ UNCHANGED vars
  BY <1>1, <1>2, OtherThread
     DEF Semaphore_create, Semaphore_post, Semaphore_destroy, threads, vars, semaphore
<1>3. ASSUME NEW t \in Thread, Controller(t) \/ Task(t), t # u
      PROVE  ThreadInv(u)'
  <2>1. /\ pc'[u] = pc[u] /\ mem'[u] = mem[u] /\ state'[u] = state[u]
        /\ platform' = platform /\ sem' = sem
    BY <1>1, <1>3 DEF TypeOK, Controller, Task, Thread_create, pthread_create,
       pthread_detach, setState, ResumeThread, Thread_destroy, join, free,
       runner, Semaphore_wait, ends, semaphore
  <2>2. /\ autodestroy'[u] = autodestroy[u] /\ kernel'[u] = kernel[u]
        /\ task'[u] = task[u]
    BY <1>1, <1>3 DEF TypeOK, Controller, Task, Thread_create, pthread_create,
       pthread_detach, setState, ResumeThread, Thread_destroy, join, free,
       runner, Semaphore_wait, ends, semaphore
  <2> QED
    BY <1>1, <2>1, <2>2, OtherThread
<1>4. ASSUME NEW t \in Thread, Controller(t) \/ Task(t)
      PROVE  ThreadInv(u)'
  <2>1. CASE t = u
    BY <1>4, <2>1, ThreadStep
  <2>2. CASE t # u
    BY <1>3, <1>4, <2>2
  <2> QED
    BY <2>1, <2>2
<1> QED
  BY <1>2, <1>4 DEF Next

LEMMA OutlivesStep == IInv /\ [Next]_vars => OutlivesThreads'
<1> SUFFICES ASSUME IInv, [Next]_vars, sem' = "destroyed", NEW u \in Thread
             PROVE  pc'[u] \in {"none", "destroyed"}
                       \/ (autodestroy'[u] /\ pc'[u] = "started")
  BY DEF OutlivesThreads
<1>1. TypeOK /\ OutlivesThreads
  BY DEF IInv
<1>2. CASE Semaphore_create \/ Semaphore_post \/ Semaphore_destroy \/ UNCHANGED vars
  BY <1>1, <1>2 DEF Semaphore_create, Semaphore_post, Semaphore_destroy, threads,
                    OutlivesThreads, vars, semaphore
<1>3. ASSUME NEW t \in Thread, Controller(t) \/ Task(t)
      PROVE  pc'[u] = pc[u] /\ autodestroy'[u] = autodestroy[u] /\ sem' = sem
  <2>1. sem' = sem /\ sem = "destroyed"
    BY <1>3 DEF Controller, Task, Thread_create, pthread_create,
       pthread_detach, setState, ResumeThread, Thread_destroy, join, free,
       runner, Semaphore_wait, ends, semaphore
  <2>2. pc[t] \in {"none", "destroyed"} \/ (autodestroy[t] /\ pc[t] = "started")
    BY <1>1, <2>1 DEF OutlivesThreads
  <2>3. Task(t)
    BY <1>3, <2>1, <2>2 DEF Controller, Thread_create, pthread_create,
       pthread_detach, setState, ResumeThread, Thread_destroy, join, free
  <2> QED
    BY <2>1, <2>3 DEF Task, runner, Semaphore_wait, ends, semaphore
<1> QED
  BY <1>1, <1>2, <1>3 DEF Next, OutlivesThreads

LEMMA CountsStep == IInv /\ [Next]_vars => Counts'
<1> SUFFICES ASSUME IInv, [Next]_vars PROVE Counts'
  OBVIOUS
<1>1. TypeOK /\ Counts
  BY DEF IInv
<1>2. /\ value \in Nat /\ posted \in Nat /\ granted \in Nat /\ lost \in Nat
      /\ initial \in Nat
  BY <1>1 DEF TypeOK
<1>3. CASE Semaphore_create
  BY <1>1, <1>2, <1>3, ThreadAssumption
     DEF Semaphore_create, Counts, Start, linux, threads
<1>4. CASE Semaphore_post
  BY <1>1, <1>2, <1>4 DEF Semaphore_post, Counts, Start, linux, threads
<1>5. CASE Semaphore_destroy \/ UNCHANGED vars
  BY <1>1, <1>5 DEF Semaphore_destroy, Counts, Start, linux,
                    vars, semaphore
<1>6. ASSUME NEW t \in Thread, Semaphore_wait(t) PROVE Counts'
  BY <1>1, <1>2, <1>6 DEF Semaphore_wait, Counts, Start, linux
<1>7. ASSUME NEW t \in Thread, Controller(t) \/ runner(t) \/ ends(t) PROVE Counts'
  <2>1. UNCHANGED <<platform, semaphore>>
    BY <1>7 DEF Controller, Thread_create, pthread_create,
       pthread_detach, setState, ResumeThread, Thread_destroy, join, free,
       runner, ends
  <2> QED
    BY <1>1, <2>1 DEF Counts, Start, linux, semaphore
<1> QED
  BY <1>3, <1>4, <1>5, <1>6, <1>7 DEF Next, Task

THEOREM InductiveInvariant == Spec => []IInv
<1>1. IInv /\ [Next]_vars => IInv'
  BY TypeStep, ThreadsStep, OutlivesStep, CountsStep DEF IInv
<1> QED
  BY InitIInv, <1>1, PTL DEF Spec
----------------------------------------------------------------------------
\* The structures, the kernel and the semaphore keep their types.
THEOREM TypeCorrect == Spec => []TypeOK
<1>1. IInv => TypeOK
  BY DEF IInv
<1> QED
  BY <1>1, InductiveInvariant, PTL

\* Undefined behaviour comes only of an unnoticed failure of pthread_create,
\* of Thread_start racing with the end of a thread that destroys itself, and
\* of a thread that outlives its semaphore because nobody can join it.
THEOREM OnlyRacesAreUndefined == Spec => []UndefinedOnlyByRace
<1>1. IInv => UndefinedOnlyByRace
  BY DEF IInv, UndefinedOnlyByRace, ThreadInv, AtEnd
<1> QED
  BY <1>1, InductiveInvariant, PTL

\* Thread_destroy and autodestroy free a structure only when its function has
\* returned or cannot run, and leave nothing in the kernel but the suspended
\* thread of Windows.
THEOREM StructuresFreedInTime == Spec => []FreedInTime
<1>1. IInv => FreedAfterReturn
  BY DEF IInv, FreedAfterReturn, ThreadInv, AtEnd
<1>2. IInv => NothingLeft
  BY DEF IInv, NothingLeft, ThreadInv, AtStart, Started, AtEnd
<1> QED
  BY <1>1, <1>2, InductiveInvariant, PTL DEF FreedInTime
------------------------------------------------------------------------------
(* The safety half of DestroyReturns.                                      *)

\* The tasks whose wait has been granted.
Granted == {t \in Thread : task[t] \in {"returned", "ended"}}

\* Each thread has taken at most one grant, threads are created only once
\* there is a semaphore, and what the kernel has of a thread is its task.
GrantInv ==
    /\ granted = Cardinality(Granted)
    /\ sem = "none" => \A t \in Thread : pc[t] = "none"
    /\ \A t \in Thread : task[t] = "none" => kernel[t] = "none"

LEMMA GrantedFinite == IsFiniteSet(Granted) /\ Cardinality(Granted) \in Nat
<1>1. Granted \in SUBSET Thread
  BY DEF Granted
<1> QED
  BY <1>1, ThreadAssumption, FS_Subset, FS_CardinalityType

\* The thread whose wait is granted had taken none.
LEMMA GrantStep ==
  ASSUME TypeOK, GrantInv, NEW t \in Thread, Semaphore_wait(t)
  PROVE  granted' = Cardinality(Granted')
<1>1. task[t] = "function"
  BY DEF Semaphore_wait
<1>2. CASE granted' = granted + 1 /\ task' = [task EXCEPT ![t] = "returned"]
  <2>1. Granted' = Granted \cup {t} /\ t \notin Granted
    BY <1>1, <1>2 DEF Granted, TypeOK
  <2>2. Cardinality(Granted \cup {t}) = Cardinality(Granted) + 1
    BY <2>1, GrantedFinite, FS_AddElement
  <2> QED
    BY <1>2, <2>1, <2>2 DEF GrantInv
<1>3. CASE granted' = granted /\ task' = [task EXCEPT ![t] = "undefined"]
  <2>1. Granted' = Granted
    BY <1>1, <1>3 DEF Granted, TypeOK
  <2> QED
    BY <1>3, <2>1 DEF GrantInv
<1> QED
  BY <1>2, <1>3 DEF Semaphore_wait

LEMMA GrantInvStep == IInv /\ GrantInv /\ [Next]_vars => GrantInv'
<1> SUFFICES ASSUME IInv, GrantInv, [Next]_vars PROVE GrantInv'
  OBVIOUS
<1>1. TypeOK /\ \A t \in Thread : AtStart(t) /\ AtEnd(t)
  BY DEF IInv, ThreadInv
<1>2. CASE Semaphore_create \/ Semaphore_post \/ Semaphore_destroy \/ UNCHANGED vars
  <2>1. UNCHANGED <<pc, task, kernel, granted>> /\ (sem' = "none" => sem = "none")
    BY <1>2 DEF Semaphore_create, Semaphore_post, Semaphore_destroy, vars,
       threads, semaphore
  <2>2. Granted' = Granted
    BY <2>1 DEF Granted
  <2> QED
    BY <2>1, <2>2 DEF GrantInv
<1>3. ASSUME NEW t \in Thread, Controller(t) \/ runner(t) \/ ends(t)
      PROVE  GrantInv'
  <2>1. granted' = granted /\ sem' = sem
    BY <1>3 DEF Controller, Thread_create, pthread_create, pthread_detach, setState,
       ResumeThread, Thread_destroy, join, free, runner, ends, semaphore
  <2>2. /\ \A u \in Thread \ {t} : task'[u] = task[u] /\ kernel'[u] = kernel[u]
        /\ task'[t] \in {"returned", "ended"} <=> task[t] \in {"returned", "ended"}
        /\ task'[t] = "none" => kernel'[t] = "none"
    <3>1. CASE Thread_create(t) \/ pthread_create(t) \/ pthread_detach(t) \/ setState(t)
      BY <1>1, <3>1 DEF Thread_create, pthread_create, pthread_detach, setState,
         TypeOK, AtStart, GrantInv
    <3>2. CASE ResumeThread(t) \/ Thread_destroy(t) \/ join(t) \/ free(t)
      BY <1>1, <3>2 DEF ResumeThread, Thread_destroy, join, free, TypeOK, GrantInv
    <3>3. CASE runner(t) \/ ends(t)
      BY <1>1, <3>3 DEF runner, ends, TypeOK, GrantInv
    <3> QED
      BY <1>3, <3>1, <3>2, <3>3 DEF Controller
  <2>3. Granted' = Granted
    BY <2>2 DEF Granted
  <2>4. sem # "none"
    <3>1. CASE Thread_create(t)
      BY <3>1 DEF Thread_create
    <3>2. CASE pc[t] # "none"
      BY <3>2 DEF GrantInv
    <3>3. CASE runner(t) \/ ends(t)
      BY <1>1, <3>3, <3>2 DEF runner, ends, AtStart
    <3> QED
      BY <1>3, <3>1, <3>2, <3>3 DEF Controller, pthread_create, pthread_detach,
         setState, ResumeThread, Thread_destroy, join, free
  <2> QED
    BY <2>1, <2>2, <2>3, <2>4 DEF GrantInv
<1>4. ASSUME NEW t \in Thread, Semaphore_wait(t) PROVE GrantInv'
  BY <1>1, <1>4, GrantStep DEF Semaphore_wait, GrantInv, TypeOK
<1> QED
  BY <1>2, <1>3, <1>4 DEF Next, Task

\* A thread that has no grant yet leaves one for itself.
LEMMA GrantLeft ==
  ASSUME IInv, GrantInv, Enough, sem # "none", NEW t \in Thread, t \notin Granted
  PROVE  value > 0
<1>1. Cardinality(Granted) < Cardinality(Thread)
  <2>1. Granted \in SUBSET Thread /\ Granted # Thread
    BY DEF Granted
  <2>2. /\ Cardinality(Granted) <= Cardinality(Thread)
        /\ Cardinality(Thread) = Cardinality(Granted) => Thread = Granted
    BY <2>1, ThreadAssumption, FS_Subset
  <2>3. Cardinality(Thread) \in Nat
    BY ThreadAssumption, FS_CardinalityType
  <2> QED
    BY <2>1, <2>2, <2>3, GrantedFinite
<1>2. value + granted + lost = Start + posted
  BY DEF IInv, Counts
<1>3. /\ value \in Nat /\ granted \in Nat /\ lost \in Nat /\ posted \in Nat
      /\ initial \in Nat /\ Cardinality(Thread) \in Nat
  BY ThreadAssumption, FS_CardinalityType DEF IInv, TypeOK
<1>4. Start \in Nat /\ Start >= initial
  BY <1>3 DEF Enough, Start
<1> QED
  BY <1>1, <1>2, <1>3, <1>4 DEF Enough, GrantInv

\* A thread that is joined can go on: it does not wait for a grant that the
\* others have taken.
THEOREM JoinsCanReturn == Spec => []JoinCanReturn
<1>1. Init => GrantInv
  <2> SUFFICES ASSUME Init PROVE GrantInv
    OBVIOUS
  <2>1. Granted = {}
    BY DEF Init, Granted
  <2> QED
    BY <2>1, FS_EmptySet DEF Init, GrantInv
<1>2. IInv /\ GrantInv => JoinCanReturn
  <2> SUFFICES ASSUME IInv, GrantInv, NEW t \in Thread, pc[t] = "joining", Enough,
                      kernel[t] # "none", task[t] \notin {"ready", "returned", "ended"}
               PROVE  task[t] = "function" /\ sem = "live" /\ value > 0
    BY DEF JoinCanReturn
  <2>1. ThreadInv(t) /\ TypeOK /\ OutlivesThreads
    BY DEF IInv
  <2>2. sem = "live"
    BY <2>1 DEF GrantInv, OutlivesThreads, TypeOK
  <2>3. task[t] = "function"
    BY <2>1 DEF ThreadInv, AtStart, Started, AtEnd, TypeOK, GrantInv
  <2>4. value > 0
    BY <2>2, <2>3, GrantLeft DEF Granted
  <2> QED
    BY <2>2, <2>3, <2>4
<1> QED
  BY <1>1, <1>2, GrantInvStep, InductiveInvariant, PTL DEF Spec
==============================================================================
