----------------------------- MODULE Supervisor -----------------------------
(***************************************************************************)
(* The process tree of async_server: main.cpp forks one worker per channel *)
(* (work.cpp) and the connection process (conn.cpp), forks a child that    *)
(* died again, and on SIGTERM stops them all.                              *)
(*                                                                         *)
(* A child's exit code 10 means "do not restart": it is what every child   *)
(* exits with when it stops, and also when its initialisation fails.       *)
(*                                                                         *)
(* Processes are numbered in the order of their forks; a process that died *)
(* stays a zombie until waitpid reaps it.                                  *)
(***************************************************************************)
EXTENDS Integers, Sequences, FiniteSets

CONSTANTS
  NumWorks,     (* g_work_confs.size()                                    *)
  Faults,       (* subset of {"init", "fork"}: what may fail              *)
  MaxCrashes    (* bound: children that die on their own                  *)

ASSUME SupervisorAssumption ==
  /\ NumWorks \in Nat \ {0}
  /\ MaxCrashes \in Nat

Works == 1 .. NumWorks
Conn  == NumWorks + 1
Roles == 1 .. Conn      (* in the order main forks them at start          *)

VARIABLES
  m_pc,       (* main, see MainPCs                                        *)
  g_stop,     (* main's g_stop                                            *)
  role,       (* the role main is forking                                 *)
  booting,    (* main is in its first loop of forks                       *)
  pid,        (* g_work_confs[i].pid and conn_pid: a process number or -1 *)
  procs,      (* every child so far                                       *)
  inited,     (* recv_queue[i].head->inited, in shared memory             *)
  crashes     (* counter for the bound                                    *)

vars == <<m_pc, g_stop, role, booting, pid, procs, inited, crashes>>

(* check: before fork_work's test of g_stop; fork: before its fork();      *)
(* loop: before while (!g_stop); gap: past that test; wait: in waitpid;    *)
(* kill, reap: the stop; done: main has returned; dead: it called exit.    *)
MainPCs == {"check", "fork", "loop", "gap", "wait", "kill", "reap",
            "done", "dead"}

(* init: before inited is set, or conn's wait for it; await: that wait;    *)
(* run: in the main loop; zombie: dead; reaped: gone.                      *)
States == {"init", "await", "run", "zombie", "reaped"}
Alive == {"init", "await", "run"}

Procs == 1 .. Len(procs)
Live(p) == procs[p].st \in Alive

Enter(p, st) == procs' = [procs EXCEPT ![p].st = st]
Exit(p, c) == procs' = [procs EXCEPT ![p] = [@ EXCEPT !.st = "zombie", !.code = c]]

mainVars == <<m_pc, g_stop, role, booting, pid>>

-----------------------------------------------------------------------------
Init ==
  /\ m_pc = "check" /\ g_stop = FALSE
  /\ role = 1 /\ booting = TRUE
  /\ pid = [r \in Roles |-> -1]
  /\ procs = <<>>
  /\ inited = [w \in Works |-> FALSE]
  /\ crashes = 0

-----------------------------------------------------------------------------
(* Main.                                                                   *)

(* Mutant of Forked: one worker too many. *)
ForkedBeyond ==
  IF booting /\ role <= Conn
    THEN m_pc' = "check" /\ role' = role + 1 /\ UNCHANGED booting
    ELSE m_pc' = "loop" /\ booting' = FALSE /\ UNCHANGED role

(* After a fork main turns to the next role, or to its loop. *)
Forked ==
  IF booting /\ role < Conn
    THEN m_pc' = "check" /\ role' = role + 1 /\ UNCHANGED booting
    ELSE m_pc' = "loop" /\ booting' = FALSE /\ UNCHANGED role

(* if (g_stop) return -1. *)
ForkCheck ==
  /\ m_pc = "check"
  /\ IF g_stop
       THEN pid' = [pid EXCEPT ![role] = -1] /\ Forked
       ELSE m_pc' = "fork" /\ UNCHANGED <<role, booting, pid>>
  /\ UNCHANGED <<g_stop, procs, inited, crashes>>

(* fork(): the child has a copy of main's memory, g_stop with it. *)
Fork ==
  /\ m_pc = "fork"
  /\ procs' = Append(procs,
                [role |-> role, st |-> "init", stop |-> g_stop, code |-> 0])
  /\ pid' = [pid EXCEPT ![role] = Len(procs) + 1]
  /\ Forked
  /\ UNCHANGED <<g_stop, inited, crashes>>

(* fork() fails, and BOOT_LOG(-1, ...) exits the process it runs in. *)
ForkFails ==
  /\ "fork" \in Faults
  /\ m_pc = "fork"
  /\ m_pc' = "dead"
  /\ UNCHANGED <<g_stop, role, booting, pid, procs, inited, crashes>>

Loop ==
  /\ m_pc = "loop"
  /\ m_pc' = IF g_stop THEN "kill" ELSE "gap"
  /\ UNCHANGED <<g_stop, role, booting, pid, procs, inited, crashes>>

WaitBegin ==
  /\ m_pc = "gap"
  /\ m_pc' = "wait"
  /\ UNCHANGED <<g_stop, role, booting, pid, procs, inited, crashes>>

(* Mutant of Wait: a connection process that died is taken for worker 1.  *)
WaitFirstWorker ==
  /\ m_pc = "wait"
  /\ \E p \in Procs :
       /\ procs[p].st = "zombie"
       /\ Enter(p, "reaped")
       /\ IF procs[p].code = 10
            THEN /\ m_pc' = "loop" /\ UNCHANGED role
                 /\ pid' = [r \in Roles |-> IF pid[r] = p THEN -1 ELSE pid[r]]
            ELSE /\ m_pc' = "check" /\ UNCHANGED pid
                 /\ role' = IF procs[p].role = Conn THEN 1 ELSE procs[p].role
  /\ UNCHANGED <<g_stop, booting, inited, crashes>>

(* Mutant of Wait: no child is forked again. *)
WaitForgetAll ==
  /\ m_pc = "wait"
  /\ \E p \in Procs :
       /\ procs[p].st = "zombie"
       /\ Enter(p, "reaped")
       /\ pid' = [r \in Roles |-> IF pid[r] = p THEN -1 ELSE pid[r]]
  /\ m_pc' = "loop"
  /\ UNCHANGED <<g_stop, role, booting, inited, crashes>>

(* waitpid returns a dead child: code 10 is forgotten, any other is forked *)
(* again.  With no child left it fails at once.                            *)
Wait ==
  /\ m_pc = "wait"
  /\ \/ \E p \in Procs :
          /\ procs[p].st = "zombie"
          /\ Enter(p, "reaped")
          /\ IF procs[p].code = 10
               THEN /\ m_pc' = "loop" /\ UNCHANGED role
                    /\ pid' = [r \in Roles |-> IF pid[r] = p THEN -1 ELSE pid[r]]
               ELSE IF \E r \in Roles : pid[r] = p
               THEN m_pc' = "check" /\ role' = procs[p].role /\ UNCHANGED pid
               ELSE m_pc' = "loop" /\ UNCHANGED <<role, pid>>
     \/ /\ \A p \in Procs : procs[p].st = "reaped"
        /\ m_pc' = "loop" /\ UNCHANGED <<role, pid, procs>>
  /\ UNCHANGED <<g_stop, booting, inited, crashes>>

(* Mutant of Kill: only the workers are told. *)
KillWorks ==
  /\ m_pc = "kill"
  /\ procs' = [p \in Procs |->
       IF Live(p) /\ \E r \in Works : pid[r] = p
         THEN [procs[p] EXCEPT !.stop = TRUE] ELSE procs[p]]
  /\ m_pc' = "reap"
  /\ UNCHANGED <<g_stop, role, booting, pid, inited, crashes>>

(* SIGTERM to every child whose pid main knows. *)
Kill ==
  /\ m_pc = "kill"
  /\ procs' = [p \in Procs |->
       IF Live(p) /\ \E r \in Roles : pid[r] = p
         THEN [procs[p] EXCEPT !.stop = TRUE] ELSE procs[p]]
  /\ m_pc' = "reap"
  /\ UNCHANGED <<g_stop, role, booting, pid, inited, crashes>>

(* Mutant of Reap: conn is not waited for. *)
ReapWorks ==
  /\ m_pc = "reap"
  /\ \/ /\ \A r \in Works : pid[r] = -1
        /\ m_pc' = "done" /\ UNCHANGED <<pid, procs>>
     \/ /\ \E r \in Works : pid[r] # -1
        /\ \E p \in Procs :
             /\ procs[p].st = "zombie"
             /\ Enter(p, "reaped")
             /\ pid' = [r \in Roles |-> IF pid[r] = p THEN -1 ELSE pid[r]]
        /\ UNCHANGED m_pc
  /\ UNCHANGED <<g_stop, role, booting, inited, crashes>>

(* One turn of the loop that waits for all of them. *)
Reap ==
  /\ m_pc = "reap"
  /\ \/ /\ \A r \in Roles : pid[r] = -1
        /\ m_pc' = "done" /\ UNCHANGED <<pid, procs>>
     \/ /\ \E r \in Roles : pid[r] # -1
        /\ \E p \in Procs :
             /\ procs[p].st = "zombie"
             /\ Enter(p, "reaped")
             /\ pid' = [r \in Roles |-> IF pid[r] = p THEN -1 ELSE pid[r]]
        /\ UNCHANGED m_pc
  /\ UNCHANGED <<g_stop, role, booting, inited, crashes>>

(* SIGTERM reaches main: the handler sets g_stop and a waitpid under way   *)
(* fails with EINTR.                                                       *)
Sigterm ==
  /\ m_pc \notin {"done", "dead"}
  /\ g_stop' = TRUE
  /\ m_pc' = IF m_pc = "wait" THEN "loop" ELSE m_pc
  /\ UNCHANGED <<role, booting, pid, procs, inited, crashes>>

-----------------------------------------------------------------------------
(* The children.                                                           *)

(* Initialisation ends: a worker sets inited, conn begins to wait for it. *)
Start(p) ==
  /\ procs[p].st = "init"
  /\ IF procs[p].role = Conn
       THEN Enter(p, "await") /\ UNCHANGED inited
       ELSE /\ Enter(p, "run")
            /\ inited' = [inited EXCEPT ![procs[p].role] = TRUE]
  /\ UNCHANGED <<mainVars, crashes>>

(* An initialisation fails and the child exits with 10: its reactor or     *)
(* plugin, a worker's log, its c_revent after it has set inited, conn's    *)
(* c_sevent, its plugin or its listener after the wait.                    *)
StartFails(p) ==
  /\ "init" \in Faults
  /\ \/ procs[p].st = "init"
     \/ procs[p].st = "await" /\ \A w \in Works : inited[w]
  /\ Exit(p, 10)
  /\ \/ UNCHANGED inited
     \/ procs[p].role # Conn /\ inited' = [inited EXCEPT ![procs[p].role] = TRUE]
  /\ UNCHANGED <<mainVars, crashes>>

(* conn waits until every worker has been initialised once, then listens.  *)
Listen(p) ==
  /\ procs[p].st = "await"
  /\ \A w \in Works : inited[w]
  /\ Enter(p, "run")
  /\ UNCHANGED <<mainVars, inited, crashes>>

(* A child that finds g_stop set, in its main loop or in conn's wait for   *)
(* the workers, winds up and exits with 10.                                *)
Finish(p) ==
  /\ procs[p].stop
  /\ \/ procs[p].st = "run"
     \/ procs[p].st = "await" /\ \E w \in Works : ~inited[w]
  /\ Exit(p, 10)
  /\ UNCHANGED <<mainVars, inited, crashes>>

(* A child dies of a signal or with another code. *)
Crash(p) ==
  /\ Live(p) /\ crashes < MaxCrashes
  /\ crashes' = crashes + 1
  /\ Exit(p, 0)
  /\ UNCHANGED <<mainVars, inited>>

-----------------------------------------------------------------------------
Main == \/ ForkCheck \/ Fork \/ ForkFails \/ Loop \/ WaitBegin \/ Wait
        \/ Kill \/ Reap

Child(p) == Start(p) \/ StartFails(p) \/ Listen(p) \/ Finish(p)

Next ==
  \/ Main \/ Sigterm
  \/ \E p \in Procs : Child(p) \/ Crash(p)

Spec == Init /\ [][Next]_vars

(* Every process runs while it has something to do. *)
FairSpec ==
  /\ Spec
  /\ WF_vars(Main)
  /\ \A p \in 1 .. Conn + MaxCrashes : WF_vars(p \in Procs /\ Child(p))

-----------------------------------------------------------------------------
(* Properties.                                                             *)

TypeOK ==
  /\ m_pc \in MainPCs
  /\ g_stop \in BOOLEAN /\ booting \in BOOLEAN
  /\ role \in Roles
  /\ pid \in [Roles -> {-1} \cup Procs]
  /\ procs \in Seq([role : Roles, st : States, stop : BOOLEAN, code : {0, 10}])
  /\ inited \in [Works -> BOOLEAN]
  /\ crashes \in 0 .. MaxCrashes

(* A channel never has two workers, nor the server two connection          *)
(* processes: the ring of shmq.cpp is for one producer and one consumer.   *)
OneOfARole ==
  \A p, q \in Procs : Live(p) /\ Live(q) /\ p # q => procs[p].role # procs[q].role

(* The main process knows every child by the pid of its role, and returns  *)
(* only when all have gone: none escapes its kill, its restarts and its    *)
(* wait.                                                                   *)
Managed ==
  m_pc # "dead" => \A p \in Procs : Live(p) =>
    m_pc # "done" /\ \E r \in Roles : pid[r] = p

(* The process of role r has died of an error. *)
Failed(r) == \E p \in Procs :
  procs[p].role = r /\ procs[p].st = "zombie" /\ procs[p].code # 10

Serving(r) == \E p \in Procs : procs[p].role = r /\ procs[p].st = "run"

GivenUp == m_pc = "dead" \/ \E p \in Procs : procs[p].code = 10

(* A child that died comes back and reaches its main loop, conn after its  *)
(* wait for the workers, unless the server is told to stop or a child or   *)
(* main has given up for good.                                             *)
Restarted == \A r \in Roles : Failed(r) ~> (g_stop \/ GivenUp \/ Serving(r))

(* Once main has begun to stop its children it returns: no child misses    *)
(* the stop, none is waited for in vain, even if it was just forked, is    *)
(* still initialising or dies meanwhile.                                   *)
StopCompletes == m_pc = "kill" ~> m_pc = "done"

=============================================================================
