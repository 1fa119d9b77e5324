------------------------------ MODULE MCThreads ------------------------------
(***************************************************************************)
(* Two threads, so that one may take the grant the other waits for, and    *)
(* one post more than threads, so that posts may find the semaphore full.  *)
(***************************************************************************)
EXTENDS Threads

CONSTANTS t1, t2

MCThread == {t1, t2}
MCInitialValues == 0 .. 2
==============================================================================
