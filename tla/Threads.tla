------------------------------- MODULE Threads -------------------------------
(***************************************************************************)
(* The threads and semaphores of src/src/pal/thread, in the version for    *)
(* Linux (thread_linux.c) and in the one for Windows (thread_win32.c).     *)
(* Each thread structure has a controller, the application thread that     *)
(* creates, starts and destroys it, and a task, the thread of the          *)
(* operating system that runs its function.  A call is one action per      *)
(* access to what the other side may change under it.                      *)
(*                                                                         *)
(* The functions are the application's.  Here each waits once for the same *)
(* semaphore and returns, so that threads and semaphore are composed.      *)
(***************************************************************************)
EXTENDS Integers, FiniteSets

CONSTANTS
    Thread,         \* the thread structures
    InitialValues,  \* values the semaphore may be created with
    MaxPosts        \* bound: calls of Semaphore_post

ASSUME ThreadAssumption ==
    /\ IsFiniteSet(Thread)
    /\ InitialValues \subseteq Nat
    /\ MaxPosts \in Nat

VARIABLES
    platform,     \* which of the two files is compiled
    pc,           \* where the controller of each thread is
    mem,          \* the structure sThread: not allocated, live, freed
    state,        \* thread->state
    autodestroy,  \* thread->autodestroy
    kernel,       \* the pthread or the HANDLE: none, held, released
    task,         \* where the thread of the operating system is
    sem,          \* the semaphore: none, live, destroyed
    initial,      \* the initialValue it was asked for
    value,        \* its value
    posted,       \* calls of Semaphore_post
    granted,      \* calls of Semaphore_wait that have returned
    lost          \* calls of Semaphore_post that changed nothing

threads   == <<pc, mem, state, autodestroy, kernel, task>>
semaphore == <<sem, initial, value, posted, granted, lost>>
vars      == <<platform, threads, semaphore>>

linux == platform = "linux"

Init ==
    /\ platform \in {"linux", "win32"}
    /\ pc = [t \in Thread |-> "none"]
    /\ mem = [t \in Thread |-> "none"]
    /\ state = [t \in Thread |-> 0]
    /\ autodestroy = [t \in Thread |-> FALSE]
    /\ kernel = [t \in Thread |-> "none"]
    /\ task = [t \in Thread |-> "none"]
    /\ sem = "none"
    /\ initial = 0 /\ value = 0
    /\ posted = 0 /\ granted = 0 /\ lost = 0
------------------------------------------------------------------------------
(* The semaphore.                                                          *)

\* Mutant of Semaphore_create: it starts at 1 on Linux as well.
createWithOne ==
    /\ sem = "none"
    /\ sem' = "live"
    /\ initial' \in InitialValues
    /\ value' = 1
    /\ UNCHANGED <<platform, threads, posted, granted, lost>>

\* On Windows the initial value is not passed on: the semaphore starts at 1.
Semaphore_create ==
    /\ sem = "none"
    /\ sem' = "live"
    /\ \E v \in InitialValues :
          /\ initial' = v
          /\ value' = IF linux THEN v ELSE 1
    /\ UNCHANGED <<platform, threads, posted, granted, lost>>

\* Mutant of Semaphore_post: the call is not counted by the semaphore.
postNothing ==
    /\ sem = "live"
    /\ posted < MaxPosts
    /\ posted' = posted + 1
    /\ UNCHANGED <<platform, threads, sem, initial, value, granted, lost>>

\* The maximum given to CreateSemaphore is 1: ReleaseSemaphore fails on a
\* semaphore that has this value, and its result is not looked at.
Semaphore_post ==
    /\ sem = "live"
    /\ posted < MaxPosts
    /\ posted' = posted + 1
    /\ IF linux \/ value = 0
       THEN value' = value + 1 /\ UNCHANGED lost
       ELSE lost' = lost + 1 /\ UNCHANGED value
    /\ UNCHANGED <<platform, threads, sem, initial, granted>>

\* The application destroys the semaphore when it has destroyed its threads;
\* of a thread that destroys itself it cannot know whether it has ended.
Semaphore_destroy ==
    /\ sem = "live"
    /\ \A t \in Thread :
          pc[t] \in {"none", "destroyed"} \/ (autodestroy[t] /\ pc[t] = "started")
    /\ sem' = "destroyed"
    /\ UNCHANGED <<platform, threads, initial, value, posted, granted, lost>>
------------------------------------------------------------------------------
(* The calls of the controller.                                            *)

\* On Windows the thread exists, suspended, from here on, unless CreateThread
\* fails, of which nothing is said to the caller.
Thread_create(t) ==
    /\ pc[t] = "none"
    /\ sem = "live"
    /\ pc' = [pc EXCEPT ![t] = "created"]
    /\ mem' = [mem EXCEPT ![t] = "live"]
    /\ \E a \in BOOLEAN : autodestroy' = [autodestroy EXCEPT ![t] = a]
    /\ \/ /\ ~linux
          /\ kernel' = [kernel EXCEPT ![t] = "held"]
          /\ task' = [task EXCEPT ![t] = "suspended"]
       \/ UNCHANGED <<kernel, task>>
    /\ UNCHANGED <<platform, state, semaphore>>

\* On Linux the thread may run, and end, from here on; that pthread_create
\* failed and left thread->pthread unset is not looked at.
pthread_create(t) ==
    /\ linux
    /\ pc[t] = "created"
    /\ pc' = [pc EXCEPT ![t] = IF autodestroy[t] THEN "detach" ELSE "setState"]
    /\ \/ /\ kernel' = [kernel EXCEPT ![t] = "held"]
          /\ task' = [task EXCEPT ![t] = "ready"]
       \/ UNCHANGED <<kernel, task>>
    /\ UNCHANGED <<platform, mem, state, autodestroy, semaphore>>

\* Mutant of pthread_detach: only the flag of the structure is left to set.
noDetach(t) ==
    /\ pc[t] = "detach"
    /\ pc' = [pc EXCEPT ![t] = "setState"]
    /\ UNCHANGED <<platform, mem, state, autodestroy, kernel, task, semaphore>>

\* Reads thread->pthread, which may have been freed or never set.
pthread_detach(t) ==
    /\ pc[t] = "detach"
    /\ IF mem[t] = "live" /\ kernel[t] = "held"
       THEN /\ pc' = [pc EXCEPT ![t] = "setState"]
            /\ kernel' = [kernel EXCEPT ![t] = "released"]
       ELSE /\ pc' = [pc EXCEPT ![t] = "undefined"]
            /\ UNCHANGED kernel
    /\ UNCHANGED <<platform, mem, state, autodestroy, task, semaphore>>

\* Mutant of setState: the assignment is missing.
leaveState(t) ==
    /\ pc[t] = "setState"
    /\ pc' = [pc EXCEPT ![t] = "started"]
    /\ UNCHANGED <<platform, mem, state, autodestroy, kernel, task, semaphore>>

\* Writes thread->state, which may have been freed.
setState(t) ==
    /\ pc[t] = "setState"
    /\ IF mem[t] = "live"
       THEN /\ pc' = [pc EXCEPT ![t] = "started"]
            /\ state' = [state EXCEPT ![t] = 1]
       ELSE /\ pc' = [pc EXCEPT ![t] = "undefined"]
            /\ UNCHANGED state
    /\ UNCHANGED <<platform, mem, autodestroy, kernel, task, semaphore>>

\* Mutant of ResumeThread: the state is left as Thread_create set it.
ResumeOnly(t) ==
    /\ ~linux
    /\ pc[t] = "created"
    /\ pc' = [pc EXCEPT ![t] = "started"]
    /\ task' = [task EXCEPT ![t] = IF @ = "suspended" THEN "ready" ELSE @]
    /\ UNCHANGED <<platform, mem, state, autodestroy, kernel, semaphore>>

\* Thread_start on Windows: the state is set before the thread can run.
ResumeThread(t) ==
    /\ ~linux
    /\ pc[t] = "created"
    /\ pc' = [pc EXCEPT ![t] = "started"]
    /\ state' = [state EXCEPT ![t] = 1]
    /\ task' = [task EXCEPT ![t] = IF @ = "suspended" THEN "ready" ELSE @]
    /\ UNCHANGED <<platform, mem, autodestroy, kernel, semaphore>>

\* An application destroys the threads it has not started and those that do
\* not destroy themselves.
Thread_destroy(t) ==
    /\ pc[t] = "created" \/ (pc[t] = "started" /\ ~autodestroy[t])
    /\ pc' = [pc EXCEPT ![t] = IF state[t] = 1 THEN "joining" ELSE "freeing"]
    /\ UNCHANGED <<platform, mem, state, autodestroy, kernel, task, semaphore>>

\* pthread_join and WaitForSingleObject return when the task has ended.  On
\* what was never created the first is undefined, the second fails at once.
join(t) ==
    /\ pc[t] = "joining"
    /\ \/ /\ task[t] = "ended"
          /\ pc' = [pc EXCEPT ![t] = "freeing"]
          /\ kernel' = [kernel EXCEPT ![t] = IF linux THEN "released" ELSE @]
       \/ /\ kernel[t] = "none"
          /\ pc' = [pc EXCEPT ![t] = IF linux THEN "undefined" ELSE "freeing"]
          /\ UNCHANGED kernel
    /\ UNCHANGED <<platform, mem, state, autodestroy, task, semaphore>>

\* CloseHandle on Windows, whose thread goes on existing if it has not ended,
\* then the structure is freed.
free(t) ==
    /\ pc[t] = "freeing"
    /\ pc' = [pc EXCEPT ![t] = "destroyed"]
    /\ mem' = [mem EXCEPT ![t] = "freed"]
    /\ kernel' = [kernel EXCEPT ![t] =
                     IF ~linux /\ @ = "held" THEN "released" ELSE @]
    /\ UNCHANGED <<platform, state, autodestroy, task, semaphore>>
------------------------------------------------------------------------------
(* The thread of the operating system.                                     *)

\* destroyAutomaticThread and the runners of Windows read the structure.
runner(t) ==
    /\ task[t] = "ready"
    /\ task' = [task EXCEPT ![t] =
                   IF (linux /\ ~autodestroy[t]) \/ mem[t] = "live"
                   THEN "function" ELSE "undefined"]
    /\ UNCHANGED <<platform, pc, mem, state, autodestroy, kernel, semaphore>>

\* Mutant of Semaphore_wait: it does not wait for the value to be positive.
waitNotBlocking(t) ==
    /\ task[t] = "function"
    /\ sem = "live"
    /\ value' = value - 1
    /\ granted' = granted + 1
    /\ task' = [task EXCEPT ![t] = "returned"]
    /\ UNCHANGED <<platform, pc, mem, state, autodestroy, kernel,
                   sem, initial, posted, lost>>

\* The function: it returns once its wait has been granted.
Semaphore_wait(t) ==
    /\ task[t] = "function"
    /\ \/ /\ sem = "live"
          /\ value > 0
          /\ value' = value - 1
          /\ granted' = granted + 1
          /\ task' = [task EXCEPT ![t] = "returned"]
       \/ /\ sem = "destroyed"
          /\ task' = [task EXCEPT ![t] = "undefined"]
          /\ UNCHANGED <<value, granted>>
    /\ UNCHANGED <<platform, pc, mem, state, autodestroy, kernel,
                   sem, initial, posted, lost>>

\* After an automatic thread's function its structure is freed, on Windows by
\* Thread_destroy, which with a state of 0 does not wait but closes the handle.
ends(t) ==
    /\ task[t] = "returned"
    /\ task' = [task EXCEPT ![t] = "ended"]
    /\ mem' = [mem EXCEPT ![t] = IF autodestroy[t] THEN "freed" ELSE @]
    /\ IF autodestroy[t] /\ ~linux
       THEN /\ state' = [state EXCEPT ![t] = 0]
            /\ kernel' = [kernel EXCEPT ![t] = "released"]
       ELSE UNCHANGED <<state, kernel>>
    /\ UNCHANGED <<platform, pc, autodestroy, semaphore>>
------------------------------------------------------------------------------
Controller(t) ==
    \/ Thread_create(t)
    \/ pthread_create(t)
    \/ pthread_detach(t)
    \/ setState(t)
    \/ ResumeThread(t)
    \/ Thread_destroy(t)
    \/ join(t)
    \/ free(t)

Task(t) == runner(t) \/ Semaphore_wait(t) \/ ends(t)

Next ==
    \/ Semaphore_create
    \/ Semaphore_post
    \/ Semaphore_destroy
    \/ \E t \in Thread : Controller(t) \/ Task(t)

Spec == Init /\ [][Next]_vars

\* A call that has begun and can go on does so, and the operating system runs
\* the tasks that can run; nothing obliges the application to call.
FairSpec ==
    /\ Spec
    /\ \A t \in Thread : WF_vars(Task(t))
    /\ \A t \in Thread :
          WF_vars(pthread_detach(t) \/ setState(t) \/ join(t) \/ free(t))
------------------------------------------------------------------------------
(* Properties.                                                             *)

\* The type invariant: what the structures, the kernel and the semaphore hold.
TypeOK ==
    /\ platform \in {"linux", "win32"}
    /\ pc \in [Thread -> {"none", "created", "detach", "setState", "started",
                          "joining", "freeing", "destroyed", "undefined"}]
    /\ mem \in [Thread -> {"none", "live", "freed"}]
    /\ state \in [Thread -> {0, 1}]
    /\ autodestroy \in [Thread -> BOOLEAN]
    /\ kernel \in [Thread -> {"none", "held", "released"}]
    /\ task \in [Thread -> {"none", "suspended", "ready", "function",
                            "returned", "ended", "undefined"}]
    /\ sem \in {"none", "live", "destroyed"}
    /\ initial \in Nat /\ value \in Nat
    /\ posted \in Nat /\ granted \in Nat /\ lost \in Nat

\* Where the code can run into undefined behaviour at all.  On Windows no
\* call of the controller does.  On Linux one does when the creation failed
\* unnoticed, or in Thread_start of a thread that has already destroyed
\* itself.  A task does only if it destroys itself and the semaphore is gone:
\* a thread that is joined, on either platform, never uses what was freed.
UndefinedOnlyByRace ==
    \A t \in Thread :
        /\ pc[t] = "undefined" =>
              /\ linux
              /\ kernel[t] = "none" \/ (autodestroy[t] /\ mem[t] = "freed")
        /\ task[t] = "undefined" => autodestroy[t] /\ sem = "destroyed"

\* Thread_destroy and autodestroy free a structure, and return, only when the
\* function of the thread has returned or can never run: what the function
\* uses may be freed after Thread_destroy.
FreedAfterReturn ==
    \A t \in Thread :
        mem[t] = "freed" => task[t] \in {"none", "suspended", "ended"}

\* A structure that is gone leaves nothing behind in the kernel, except, on
\* Windows, the suspended thread of one that was destroyed before its start.
NothingLeft ==
    \A t \in Thread :
        (mem[t] = "freed" /\ pc[t] \in {"started", "destroyed"}) =>
            /\ kernel[t] # "held"
            /\ task[t] = "suspended" => ~linux /\ pc[t] = "destroyed"

\* A structure is given up neither too early for the thread nor without the
\* kernel's part of it.
FreedInTime == FreedAfterReturn /\ NothingLeft

\* What the application asked for, the initial value and the posts that were
\* not lost, is a grant for every thread.  On Windows, where each semaphore
\* starts at 1 whatever it was asked for, this is enough only if it was asked
\* for no more than that; asked for 0, it grants a wait that nobody posted for.
Enough ==
    /\ initial + posted - lost >= Cardinality(Thread)
    /\ linux \/ initial <= 1

\* With a grant for every thread, Thread_destroy, once called, returns.
DestroyReturns ==
    \A t \in Thread :
        (pc[t] = "joining" /\ Enough) ~> (pc[t] \in {"destroyed", "undefined"})

\* The safety half of it, in every state: as long as each thread has its grant,
\* the task that is being joined never waits for one that another thread has
\* taken, or of a semaphore that is gone; and a join that could not begin,
\* because the creation failed, does not wait at all.
JoinCanReturn ==
    \A t \in Thread :
        (pc[t] = "joining" /\ Enough) =>
            \/ kernel[t] = "none"
            \/ task[t] \in {"ready", "returned", "ended"}
            \/ task[t] = "function" /\ sem = "live" /\ value > 0
==============================================================================
