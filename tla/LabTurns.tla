------------------------------ MODULE LabTurns ------------------------------
(***************************************************************************)
(* Two of the small programs keep the same promise by different means: in  *)
(* pipe.c two processes print by turns through two pipes, in               *)
(* sem_wait_post.c through two semaphores.                                 *)
(***************************************************************************)
EXTENDS PipeLab, IpcLab

\* How often the process has spoken that begins: the child of pipe.c, and the
\* parent of sem_wait_post.c; and the other one
Spoken(child, parent) ==
    CASE program = "pipe"     -> Len(out[child])
      [] program = "waitpost" -> Len(out[parent])
      [] OTHER -> 0

T == INSTANCE Turns WITH first <- Spoken(2, 1), second <- Spoken(1, 2)

\* In pipe.c and sem_wait_post.c the processes print by turns, through two pipes
\* and through two semaphores (pipe.c:39-71, sem_wait_post.c:41-51).
TakesTurns == T!Spec

=============================================================================
