-------------------------- MODULE Supervisor_proofs --------------------------
(***************************************************************************)
(* Proofs about Supervisor for every number of workers, whatever fails and *)
(* however many children die.                                              *)
(*                                                                         *)
(* The inductive invariant says where main keeps a child until it has      *)
(* reaped it (Known), that no child of the role about to be forked is left *)
(* (Vacant), and that while main boots it has only forked the roles before *)
(* the present one (Booting).                                              *)
(***************************************************************************)
EXTENDS Supervisor, SequenceTheorems, TLAPS

-----------------------------------------------------------------------------
(* The inductive invariant.                                                *)

(* A child that main has not reaped, dead or alive, stands under its role. *)
Known == \A p \in Procs : procs[p].st # "reaped" => pid[procs[p].role] = p

Vacant ==
  m_pc \in {"check", "fork"} =>
    \A p \in Procs : procs[p].role = role => procs[p].st = "reaped"

Booting ==
  booting => /\ m_pc \in {"check", "fork", "dead"}
             /\ \A p \in Procs : procs[p].role <= role
             /\ m_pc # "dead" => \A p \in Procs : procs[p].role < role

Returned == m_pc = "done" => \A r \in Roles : pid[r] = -1

IInv == TypeOK /\ Known /\ Vacant /\ Booting /\ Returned

ChildRecords == [role : Roles, st : States, stop : BOOLEAN, code : {0, 10}]

-----------------------------------------------------------------------------
(* Lemmas.                                                                 *)

LEMMA RolesFacts ==
  /\ NumWorks \in Nat \ {0} /\ Conn \in Nat /\ Conn = NumWorks + 1
  /\ Roles = 1 .. Conn /\ Works \subseteq Roles /\ 1 \in Roles
  /\ MaxCrashes \in Nat
BY SupervisorAssumption DEF Roles, Works, Conn

(* Every child has a role, and roles are numbers. *)
LEMMA ChildFacts ==
  ASSUME procs \in Seq(ChildRecords)
  PROVE  \A q \in Procs : procs[q] \in ChildRecords /\ procs[q].role \in Roles
<1> SUFFICES ASSUME NEW q \in Procs
             PROVE  procs[q] \in ChildRecords /\ procs[q].role \in Roles
  OBVIOUS
<1>1. procs[q] \in ChildRecords
  BY ElementOfSeq DEF Procs
<1> QED BY <1>1 DEF ChildRecords

(* Changing the records of children keeps them children. *)
LEMMA ProcsKept ==
  ASSUME procs \in Seq(ChildRecords), NEW f \in [Procs -> ChildRecords]
  PROVE  f \in Seq(ChildRecords) /\ Len(f) = Len(procs)
<1>1. Len(procs) \in Nat
  BY LenProperties
<1>2. f \in Seq(ChildRecords)
  BY <1>1, SeqDef DEF Procs
<1>3. DOMAIN f = 1 .. Len(procs) /\ DOMAIN f = 1 .. Len(f) /\ Len(f) \in Nat
  BY <1>2, LenProperties DEF Procs
<1> QED BY <1>1, <1>2, <1>3

(* What Enter and Exit do to the list of children. *)
LEMMA EnterFacts ==
  ASSUME procs \in Seq(ChildRecords), NEW p \in Procs, NEW st \in States, Enter(p, st)
  PROVE  /\ procs' \in Seq(ChildRecords) /\ Len(procs') = Len(procs)
         /\ procs'[p].st = st
         /\ \A q \in Procs : procs'[q].role = procs[q].role
         /\ \A q \in Procs \ {p} : procs'[q] = procs[q]
<1>1. procs[p] \in ChildRecords
  BY ElementOfSeq DEF Procs
<1> DEFINE e == [procs[p] EXCEPT !.st = st]
<1>2. e \in ChildRecords /\ e.st = st /\ e.role = procs[p].role
  BY <1>1 DEF ChildRecords
<1>3. procs' = [procs EXCEPT ![p] = e]
  BY DEF Enter
<1> HIDE DEF e
<1> QED BY <1>2, <1>3, ExceptSeq, LenProperties DEF Procs

LEMMA ExitFacts ==
  ASSUME procs \in Seq(ChildRecords), NEW p \in Procs, NEW c \in {0, 10}, Exit(p, c)
  PROVE  /\ procs' \in Seq(ChildRecords) /\ Len(procs') = Len(procs)
         /\ procs'[p].st = "zombie"
         /\ \A q \in Procs : procs'[q].role = procs[q].role
         /\ \A q \in Procs \ {p} : procs'[q] = procs[q]
<1>1. procs[p] \in ChildRecords
  BY ElementOfSeq DEF Procs
<1> DEFINE e == [[procs[p] EXCEPT !.st = "zombie"] EXCEPT !.code = c]
<1>2. e \in ChildRecords /\ e.st = "zombie" /\ e.role = procs[p].role
  BY <1>1 DEF ChildRecords, States
<1>3. procs' = [procs EXCEPT ![p] = e]
  BY DEF Exit
<1> HIDE DEF e
<1> QED BY <1>2, <1>3, ExceptSeq, LenProperties DEF Procs

(* A step of a child: main's books are untouched, no child changes its     *)
(* role, and none is reaped or comes back.                                 *)
LEMMA ChildKeeps ==
  ASSUME IInv,
         procs' \in Seq(ChildRecords), Len(procs') = Len(procs),
         \A q \in Procs : /\ procs'[q].role = procs[q].role
                          /\ procs'[q].st = "reaped" <=> procs[q].st = "reaped",
         UNCHANGED mainVars,
         inited' \in [Works -> BOOLEAN], crashes' \in 0 .. MaxCrashes
  PROVE  IInv'
<1>1. TypeOK'
  BY DEF IInv, TypeOK, mainVars, ChildRecords, Procs
<1>2. Known' /\ Vacant' /\ Booting' /\ Returned'
  BY DEF IInv, Known, Vacant, Booting, Returned, mainVars, Procs
<1> QED BY <1>1, <1>2 DEF IInv

-----------------------------------------------------------------------------
(* The invariant holds initially and is kept by every action.              *)

LEMMA InitHolds == Init => IInv
<1> SUFFICES ASSUME Init PROVE IInv
  OBVIOUS
<1>1. Procs = {}
  BY DEF Init, Procs
<1>2. TypeOK
  <2>1. procs \in Seq([role : Roles, st : States, stop : BOOLEAN, code : {0, 10}])
    BY EmptySeq DEF Init
  <2>2. pid \in [Roles -> {-1} \cup Procs] /\ inited \in [Works -> BOOLEAN]
    BY DEF Init
  <2>3. role \in Roles /\ crashes \in 0 .. MaxCrashes
    BY RolesFacts DEF Init
  <2>4. m_pc \in MainPCs /\ g_stop \in BOOLEAN /\ booting \in BOOLEAN
    BY DEF Init, MainPCs
  <2> QED BY <2>1, <2>2, <2>3, <2>4 DEF TypeOK
<1> QED BY <1>1, <1>2 DEF Init, IInv, Known, Vacant, Booting, Returned

LEMMA StartKeeps ==
  ASSUME IInv, NEW p \in Procs, Start(p) PROVE IInv'
<1>0. procs \in Seq(ChildRecords) /\ procs[p] \in ChildRecords
  BY ElementOfSeq DEF IInv, TypeOK, ChildRecords, Procs
<1>1. PICK st \in {"await", "run"} : Enter(p, st)
  BY DEF Start
<1>2. inited' \in [Works -> BOOLEAN]
  <2>1. CASE UNCHANGED inited
    BY <2>1 DEF IInv, TypeOK
  <2>2. CASE ~UNCHANGED inited
    <3>1. inited' = [inited EXCEPT ![procs[p].role] = TRUE]
      BY <2>2 DEF Start
    <3> QED BY <3>1 DEF IInv, TypeOK
  <2> QED BY <2>1, <2>2
<1>3. UNCHANGED mainVars /\ crashes' \in 0 .. MaxCrashes
  BY DEF Start, IInv, TypeOK
<1>4. procs[p].st = "init" /\ st \in States
  BY DEF Start, States
<1> QED BY <1>0, <1>1, <1>2, <1>3, <1>4, EnterFacts, ChildKeeps

LEMMA StartFailsKeeps ==
  ASSUME IInv, NEW p \in Procs, StartFails(p) PROVE IInv'
<1>0. procs \in Seq(ChildRecords) /\ procs[p] \in ChildRecords
  BY ElementOfSeq DEF IInv, TypeOK, ChildRecords, Procs
<1>1. Exit(p, 10) /\ UNCHANGED mainVars
  BY DEF StartFails
<1>2. inited' \in [Works -> BOOLEAN] /\ crashes' \in 0 .. MaxCrashes
  BY DEF StartFails, IInv, TypeOK
<1>3. procs[p].st # "reaped"
  BY DEF StartFails
<1> QED BY <1>0, <1>1, <1>2, <1>3, ExitFacts, ChildKeeps

LEMMA ListenKeeps ==
  ASSUME IInv, NEW p \in Procs, Listen(p) PROVE IInv'
<1>0. procs \in Seq(ChildRecords)
  BY DEF IInv, TypeOK, ChildRecords
<1>1. Enter(p, "run") /\ UNCHANGED mainVars /\ procs[p].st # "reaped"
  BY DEF Listen
<1>2. inited' \in [Works -> BOOLEAN] /\ crashes' \in 0 .. MaxCrashes
  BY DEF Listen, IInv, TypeOK
<1>3. "run" \in States
  BY DEF States
<1> QED BY <1>0, <1>1, <1>2, <1>3, EnterFacts, ChildKeeps

LEMMA FinishKeeps ==
  ASSUME IInv, NEW p \in Procs, Finish(p) PROVE IInv'
<1>0. procs \in Seq(ChildRecords)
  BY DEF IInv, TypeOK, ChildRecords
<1>1. Exit(p, 10) /\ UNCHANGED mainVars /\ procs[p].st # "reaped"
  BY DEF Finish
<1>2. inited' \in [Works -> BOOLEAN] /\ crashes' \in 0 .. MaxCrashes
  BY DEF Finish, IInv, TypeOK
<1> QED BY <1>0, <1>1, <1>2, ExitFacts, ChildKeeps

LEMMA CrashKeeps ==
  ASSUME IInv, NEW p \in Procs, Crash(p) PROVE IInv'
<1>0. procs \in Seq(ChildRecords)
  BY DEF IInv, TypeOK, ChildRecords
<1>1. Exit(p, 0) /\ UNCHANGED mainVars /\ procs[p].st # "reaped"
  BY DEF Crash, Live, Alive
<1>2. inited' \in [Works -> BOOLEAN] /\ crashes' \in 0 .. MaxCrashes
  BY RolesFacts DEF Crash, IInv, TypeOK
<1> QED BY <1>0, <1>1, <1>2, ExitFacts, ChildKeeps

(* The step of main that reaps child p and keeps its pid or forgets it.    *)
LEMMA ReapFacts ==
  ASSUME IInv, NEW p \in Procs, procs[p].st = "zombie", Enter(p, "reaped")
  PROVE  /\ procs' \in Seq(ChildRecords) /\ Len(procs') = Len(procs)
         /\ procs'[p].st = "reaped"
         /\ \A q \in Procs : procs'[q].role = procs[q].role
         /\ \A q \in Procs \ {p} : procs'[q] = procs[q]
         /\ procs[p].role \in Roles
         /\ pid[procs[p].role] = p
<1>0. procs \in Seq(ChildRecords) /\ "reaped" \in States
  BY DEF IInv, TypeOK, ChildRecords, States
<1>1. procs[p] \in ChildRecords
  BY <1>0, ElementOfSeq DEF Procs
<1>2. procs[p].role \in Roles
  BY <1>1 DEF ChildRecords
<1>3. pid[procs[p].role] = p
  BY DEF IInv, Known
<1> QED BY <1>0, <1>2, <1>3, EnterFacts

LEMMA ForgetFacts ==
  ASSUME IInv, NEW p \in Procs, procs[p].st = "zombie", Enter(p, "reaped"),
         pid' = [r \in Roles |-> IF pid[r] = p THEN -1 ELSE pid[r]]
  PROVE  pid' \in [Roles -> {-1} \cup Procs'] /\ Known'
<1>1. Procs' = Procs
  BY ReapFacts DEF Procs
<1>2. pid' \in [Roles -> {-1} \cup Procs]
  BY DEF IInv, TypeOK
<1>3. ASSUME NEW q \in Procs, procs'[q].st # "reaped"
      PROVE  pid'[procs'[q].role] = q
  <2>1. q # p /\ procs'[q] = procs[q]
    BY <1>3, ReapFacts
  <2>2. procs[q].st # "reaped" /\ procs[q].role \in Roles
    BY <2>1, <1>3, ChildFacts DEF IInv, TypeOK, ChildRecords
  <2>3. pid[procs[q].role] = q
    BY <2>2 DEF IInv, Known
  <2> QED BY <2>1, <2>2, <2>3
<1> QED BY <1>1, <1>2, <1>3 DEF Known

LEMMA ForkCheckKeeps == ASSUME IInv, ForkCheck PROVE IInv'
<1>0. Procs' = Procs /\ procs' = procs /\ g_stop' = g_stop
      /\ inited' = inited /\ crashes' = crashes
  BY DEF ForkCheck, Procs
<1>1. CASE g_stop
  <2>1. m_pc = "check" /\ pid' = [pid EXCEPT ![role] = -1] /\ Forked
    BY <1>1 DEF ForkCheck
  <2>2. \A p \in Procs : procs[p].role = role => procs[p].st = "reaped"
    BY <2>1 DEF IInv, Vacant
  <2>3. pid' \in [Roles -> {-1} \cup Procs]
    BY <2>1 DEF IInv, TypeOK
  <2>4. Known'
    BY <1>0, <2>1, <2>2, ElementOfSeq DEF IInv, Known, TypeOK, Procs
  <2>5. CASE booting /\ role < Conn
    <3>1. m_pc' = "check" /\ role' = role + 1 /\ booting' = booting
      BY <2>1, <2>5 DEF Forked
    <3>2. role' \in Roles /\ \A p \in Procs : procs[p].role < role'
      <4>1. role \in 1 .. Conn /\ \A p \in Procs : procs[p].role \in 1 .. Conn
        BY RolesFacts, ChildFacts DEF IInv, TypeOK, ChildRecords
      <4>2. \A p \in Procs : procs[p].role <= role
        BY <2>5 DEF IInv, Booting
      <4> QED BY <3>1, <4>1, <4>2, <2>5, RolesFacts
    <3>3. TypeOK'
      BY <1>0, <2>3, <3>1, <3>2 DEF IInv, TypeOK, MainPCs
    <3>4. role' \in Int /\ \A p \in Procs : procs[p].role \in Int
      BY <3>2, RolesFacts, ChildFacts DEF IInv, TypeOK, ChildRecords
    <3>5. Vacant' /\ Booting' /\ Returned'
      BY <1>0, <3>1, <3>2, <3>4 DEF Vacant, Booting, Returned
    <3> QED BY <2>4, <3>3, <3>5 DEF IInv
  <2>6. CASE ~(booting /\ role < Conn)
    <3>1. m_pc' = "loop" /\ role' = role /\ booting' = FALSE
      BY <2>1, <2>6 DEF Forked
    <3>2. TypeOK'
      BY <1>0, <2>3, <3>1 DEF IInv, TypeOK, MainPCs
    <3> QED BY <2>4, <3>1, <3>2 DEF IInv, Vacant, Booting, Returned
  <2> QED BY <2>5, <2>6
<1>2. CASE ~g_stop
  <2>1. m_pc = "check" /\ m_pc' = "fork" /\ UNCHANGED <<role, booting, pid>>
    BY <1>2 DEF ForkCheck
  <2> QED BY <1>0, <2>1
          DEF IInv, TypeOK, MainPCs, Known, Vacant, Booting, Returned
<1> QED BY <1>1, <1>2

LEMMA ForkKeeps == ASSUME IInv, Fork PROVE IInv'
<1> DEFINE new == [role |-> role, st |-> "init", stop |-> g_stop, code |-> 0]
<1>0. /\ procs \in Seq(ChildRecords) /\ new \in ChildRecords /\ new.role = role
      /\ role \in Roles /\ g_stop \in BOOLEAN
  BY DEF IInv, TypeOK, ChildRecords, States
<1>1. procs' = Append(procs, new) /\ pid' = [pid EXCEPT ![role] = Len(procs) + 1]
  BY DEF Fork
<1> HIDE DEF new
<1>2. /\ Len(procs) \in Nat /\ Len(procs') = Len(procs) + 1
      /\ procs' \in Seq(ChildRecords)
      /\ procs'[Len(procs) + 1] = new
      /\ \A q \in Procs : procs'[q] = procs[q]
  BY <1>0, <1>1, AppendProperties, LenProperties DEF Procs
<1>3. Procs' = Procs \cup {Len(procs) + 1} /\ Len(procs) + 1 \notin Procs
  BY <1>2 DEF Procs
<1>4. \A q \in Procs : procs[q].role \in Roles
  BY <1>0, ChildFacts
<1>5. m_pc = "fork" /\ Forked /\ UNCHANGED <<g_stop, inited, crashes>>
  BY DEF Fork
<1>6. \A q \in Procs : procs[q].role = role => procs[q].st = "reaped"
  BY <1>5 DEF IInv, Vacant
<1>7. pid' \in [Roles -> {-1} \cup Procs']
  BY <1>0, <1>1, <1>3 DEF IInv, TypeOK
<1>8. Known'
  <2> SUFFICES ASSUME NEW q \in Procs', procs'[q].st # "reaped"
               PROVE  pid'[procs'[q].role] = q
    BY DEF Known
  <2>1. CASE q = Len(procs) + 1
    BY <2>1, <1>0, <1>1, <1>2 DEF IInv, TypeOK
  <2>2. CASE q \in Procs
    <3>1. procs[q].st # "reaped" /\ procs[q].role # role
      BY <2>2, <1>2, <1>6
    <3>2. pid[procs[q].role] = q
      BY <2>2, <3>1 DEF IInv, Known
    <3> QED BY <2>2, <3>1, <3>2, <1>1, <1>2, <1>4 DEF IInv, TypeOK
  <2> QED BY <2>1, <2>2, <1>3
<1>9. \A q \in Procs' : booting => procs'[q].role <= role
  BY <1>0, <1>2, <1>3, <1>4 DEF IInv, Booting, Roles
<1>10. CASE booting /\ role < Conn
  <2>1. m_pc' = "check" /\ role' = role + 1 /\ booting' = booting
    BY <1>5, <1>10 DEF Forked
  <2>2. role' \in Roles /\ \A q \in Procs' : procs'[q].role < role'
    <3>1. \A q \in Procs' : procs'[q].role \in Roles
      BY <1>0, <1>2, <1>3, <1>4
    <3> QED BY <2>1, <1>0, <1>9, <1>10, <3>1, RolesFacts DEF Roles
  <2>3. TypeOK'
    BY <1>2, <1>5, <1>7, <2>1, <2>2 DEF IInv, TypeOK, MainPCs, ChildRecords
  <2>4. \A q \in Procs' : procs'[q].role \in Int /\ role' \in Int
    BY <1>0, <1>2, <1>3, <1>4, <2>1 DEF Roles
  <2>5. Vacant' /\ Booting' /\ Returned'
    BY <2>1, <2>2, <2>4 DEF Vacant, Booting, Returned
  <2> QED BY <1>8, <2>3, <2>5 DEF IInv
<1>11. CASE ~(booting /\ role < Conn)
  <2>1. m_pc' = "loop" /\ role' = role /\ booting' = FALSE
    BY <1>5, <1>11 DEF Forked
  <2>2. TypeOK'
    BY <1>2, <1>5, <1>7, <2>1 DEF IInv, TypeOK, MainPCs, ChildRecords
  <2> QED BY <1>8, <2>1, <2>2 DEF IInv, Vacant, Booting, Returned
<1> QED BY <1>10, <1>11

LEMMA ForkFailsKeeps == ASSUME IInv, ForkFails PROVE IInv'
<1>1. m_pc' = "dead" /\ UNCHANGED <<g_stop, role, booting, pid, procs, inited, crashes>>
  BY DEF ForkFails
<1> QED BY <1>1
        DEF IInv, TypeOK, MainPCs, Known, Vacant, Booting, Returned, Procs

LEMMA LoopKeeps == ASSUME IInv, Loop PROVE IInv'
<1>1. m_pc = "loop" /\ m_pc' \in {"kill", "gap"}
      /\ UNCHANGED <<g_stop, role, booting, pid, procs, inited, crashes>>
  BY DEF Loop
<1> QED BY <1>1
        DEF IInv, TypeOK, MainPCs, Known, Vacant, Booting, Returned, Procs

LEMMA WaitBeginKeeps == ASSUME IInv, WaitBegin PROVE IInv'
<1>1. m_pc = "gap" /\ m_pc' = "wait"
      /\ UNCHANGED <<g_stop, role, booting, pid, procs, inited, crashes>>
  BY DEF WaitBegin
<1> QED BY <1>1
        DEF IInv, TypeOK, MainPCs, Known, Vacant, Booting, Returned, Procs

LEMMA WaitKeeps == ASSUME IInv, Wait PROVE IInv'
<1>0. m_pc = "wait" /\ ~booting /\ UNCHANGED <<g_stop, booting, inited, crashes>>
  BY DEF Wait, IInv, Booting, TypeOK
<1>1. ASSUME NEW p \in Procs, procs[p].st = "zombie", Enter(p, "reaped"),
             procs[p].code = 10, m_pc' = "loop", UNCHANGED role,
             pid' = [r \in Roles |-> IF pid[r] = p THEN -1 ELSE pid[r]]
      PROVE  IInv'
  <2>1. TypeOK'
    BY <1>0, <1>1, ReapFacts, ForgetFacts DEF IInv, TypeOK, MainPCs, ChildRecords
  <2> QED BY <1>0, <1>1, <2>1, ForgetFacts DEF IInv, Vacant, Booting, Returned
<1>2. ASSUME NEW p \in Procs, procs[p].st = "zombie", Enter(p, "reaped"),
             m_pc' = "check", role' = procs[p].role, UNCHANGED pid
      PROVE  IInv'
  <2>1. Procs' = Procs /\ procs' \in Seq(ChildRecords) /\ role' \in Roles
    BY <1>2, ReapFacts DEF Procs
  <2>2. TypeOK'
    BY <1>0, <1>2, <2>1 DEF IInv, TypeOK, MainPCs, ChildRecords
  <2>3. \A q \in Procs : procs'[q].st # "reaped" =>
          q # p /\ procs[q].st # "reaped" /\ procs'[q].role = procs[q].role
    BY <1>2, ReapFacts
  <2>4. Known'
    BY <1>2, <2>1, <2>3 DEF IInv, Known
  <2>5. Vacant'
    <3> SUFFICES ASSUME NEW q \in Procs, procs'[q].role = role',
                        procs'[q].st # "reaped"
                 PROVE  FALSE
      BY <2>1 DEF Vacant
    <3>1. pid[procs[q].role] = q /\ q # p /\ procs[q].role = procs[p].role
      BY <1>2, <2>3 DEF IInv, Known
    <3>2. pid[procs[p].role] = p
      BY <1>2, ReapFacts
    <3> QED BY <3>1, <3>2
  <2> QED BY <1>0, <1>2, <2>2, <2>4, <2>5 DEF IInv, Booting, Returned
<1>3. ASSUME NEW p \in Procs, procs[p].st = "zombie", Enter(p, "reaped"),
             m_pc' = "loop", UNCHANGED <<role, pid>>
      PROVE  IInv'
  <2>1. Procs' = Procs /\ procs' \in Seq(ChildRecords)
    BY <1>3, ReapFacts DEF Procs
  <2>2. TypeOK'
    BY <1>0, <1>3, <2>1 DEF IInv, TypeOK, MainPCs, ChildRecords
  <2>3. Known'
    BY <1>3, <2>1, ReapFacts DEF IInv, Known
  <2> QED BY <1>0, <1>3, <2>2, <2>3 DEF IInv, Vacant, Booting, Returned
<1>4. ASSUME m_pc' = "loop", UNCHANGED <<role, pid, procs>>
      PROVE  IInv'
  BY <1>0, <1>4
  DEF IInv, TypeOK, MainPCs, Known, Vacant, Booting, Returned, Procs
<1> QED BY <1>1, <1>2, <1>3, <1>4 DEF Wait

LEMMA KillKeeps == ASSUME IInv, Kill PROVE IInv'
<1> DEFINE told(p) == IF Live(p) /\ \E r \in Roles : pid[r] = p
                        THEN [procs[p] EXCEPT !.stop = TRUE] ELSE procs[p]
<1>1. m_pc = "kill" /\ m_pc' = "reap" /\ procs' = [p \in Procs |-> told(p)]
      /\ UNCHANGED <<g_stop, role, booting, pid, inited, crashes>>
  BY DEF Kill
<1>2. procs \in Seq(ChildRecords) /\ \A p \in Procs : procs[p] \in ChildRecords
  BY ChildFacts DEF IInv, TypeOK, ChildRecords
<1>3. \A p \in Procs : /\ told(p) \in ChildRecords
                       /\ told(p).role = procs[p].role /\ told(p).st = procs[p].st
  BY <1>2 DEF ChildRecords
<1> HIDE DEF told
<1>4. procs' \in [Procs -> ChildRecords] /\ \A p \in Procs : procs'[p] = told(p)
  BY <1>1, <1>3
<1>5. procs' \in Seq(ChildRecords) /\ Procs' = Procs
  BY <1>2, <1>4, ProcsKept DEF Procs
<1>6. TypeOK'
  BY <1>1, <1>5 DEF IInv, TypeOK, MainPCs, ChildRecords
<1>7. Known'
  BY <1>1, <1>3, <1>4, <1>5 DEF IInv, Known
<1>8. ~booting
  BY <1>1 DEF IInv, Booting
<1> QED BY <1>1, <1>6, <1>7, <1>8 DEF IInv, Vacant, Booting, Returned

LEMMA ReapKeeps == ASSUME IInv, Reap PROVE IInv'
<1>0. m_pc = "reap" /\ ~booting /\ UNCHANGED <<g_stop, role, booting, inited, crashes>>
  BY DEF Reap, IInv, Booting, TypeOK
<1>1. ASSUME \A r \in Roles : pid[r] = -1, m_pc' = "done", UNCHANGED <<pid, procs>>
      PROVE  IInv'
  BY <1>0, <1>1 DEF IInv, TypeOK, MainPCs, Known, Vacant, Booting, Returned, Procs
<1>2. ASSUME NEW p \in Procs, procs[p].st = "zombie", Enter(p, "reaped"),
             pid' = [r \in Roles |-> IF pid[r] = p THEN -1 ELSE pid[r]],
             UNCHANGED m_pc
      PROVE  IInv'
  <2>1. TypeOK'
    BY <1>0, <1>2, ReapFacts, ForgetFacts DEF IInv, TypeOK, ChildRecords
  <2> QED BY <1>0, <1>2, <2>1, ForgetFacts DEF IInv, Vacant, Booting, Returned
<1> QED BY <1>1, <1>2 DEF Reap

LEMMA SigtermKeeps == ASSUME IInv, Sigterm PROVE IInv'
<1>1. m_pc' = m_pc \/ (m_pc = "wait" /\ m_pc' = "loop")
  BY DEF Sigterm
<1>2. g_stop' = TRUE /\ UNCHANGED <<role, booting, pid, procs, inited, crashes>>
  BY DEF Sigterm
<1> QED BY <1>1, <1>2
        DEF IInv, TypeOK, MainPCs, Known, Vacant, Booting, Returned, Procs

LEMMA NextKeeps == ASSUME IInv, [Next]_vars PROVE IInv'
<1>1. CASE Main
  BY <1>1, ForkCheckKeeps, ForkKeeps, ForkFailsKeeps, LoopKeeps,
     WaitBeginKeeps, WaitKeeps, KillKeeps, ReapKeeps DEF Main
<1>2. CASE Sigterm
  BY <1>2, SigtermKeeps
<1>3. ASSUME NEW p \in Procs, Child(p) \/ Crash(p) PROVE IInv'
  BY <1>3, StartKeeps, StartFailsKeeps, ListenKeeps, FinishKeeps, CrashKeeps
  DEF Child
<1>4. CASE UNCHANGED vars
  BY <1>4 DEF vars, IInv, TypeOK, Known, Vacant, Booting, Returned, Procs
<1> QED BY <1>1, <1>2, <1>3, <1>4 DEF Next

LEMMA Invariance == Spec => []IInv
<1> QED BY InitHolds, NextKeeps, PTL DEF Spec

-----------------------------------------------------------------------------
(* The theorems.                                                           *)

(* The supervisor's state is well typed for every number of workers and    *)
(* every number of deaths.                                                 *)
THEOREM TypeCorrect == Spec => []TypeOK
<1>1. IInv => TypeOK
  BY DEF IInv
<1> QED BY <1>1, Invariance, PTL

(* fork_work and fork_conn never start a second process of a role while    *)
(* one is alive: the rings keep one producer and one consumer each.        *)
THEOREM OneProcessPerRole == Spec => []OneOfARole
<1>1. IInv => OneOfARole
  <2> SUFFICES ASSUME IInv, NEW p \in Procs, NEW q \in Procs,
                      Live(p), Live(q), procs[p].role = procs[q].role
               PROVE  p = q
    BY DEF OneOfARole
  <2>1. procs[p].st # "reaped" /\ procs[q].st # "reaped"
    BY DEF Live, Alive
  <2> QED BY <2>1 DEF IInv, Known
<1> QED BY <1>1, Invariance, PTL

(* No child escapes main: it is known by the pid of its role until it has  *)
(* been reaped, and main returns only when none is left.                   *)
THEOREM NoChildEscapes == Spec => []Managed
<1>1. IInv => Managed
  <2> SUFFICES ASSUME IInv, NEW p \in Procs, Live(p)
               PROVE  m_pc # "done" /\ \E r \in Roles : pid[r] = p
    BY DEF Managed
  <2>1. procs[p].role \in Roles
    BY ChildFacts DEF IInv, TypeOK, ChildRecords
  <2>2. pid[procs[p].role] = p
    BY DEF IInv, Known, Live, Alive
  <2>3. p # -1
    BY LenProperties DEF Procs, IInv, TypeOK
  <2> QED BY <2>1, <2>2, <2>3 DEF IInv, Returned
<1> QED BY <1>1, Invariance, PTL

=============================================================================
