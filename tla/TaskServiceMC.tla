----------------------------- MODULE TaskServiceMC -----------------------------
(***************************************************************************)
(* A store of two tasks and four requests, on which TLC checks TaskService.*)
(***************************************************************************)
EXTENDS TaskService

CONSTANTS t1, t2, t3, t4

FourTasks == {t1, t2, t3, t4}
================================================================================
