------------------------ MODULE SocketInjectionProofs ------------------------
(***************************************************************************)
(* Theorems about SocketInjection for any containers and any number of     *)
(* restarts of the proxy and of the containers.                            *)
(***************************************************************************)
EXTENDS SocketInjection, TLAPS

(* What may be at the path or in a container; no socket has inode 0. *)
AnyFile == {f \in [kind: {"none", "dir", "socket"}, inode: Nat] :
              f.kind = "socket" => f.inode # 0}

(* What every step preserves. *)
InjectionInv ==
  /\ TypeOK
  /\ path \in AnyFile
  /\ mount \in [Pods -> AnyFile]

-----------------------------------------------------------------------------
LEMMA FilesTyped ==
  /\ NoFile \in AnyFile /\ NoFile.kind = "none" /\ NoFile.inode = 0
  /\ Directory \in AnyFile /\ Directory.kind = "dir" /\ Directory.inode = 0
  /\ Directory # NoFile
  /\ \A i \in Nat \ {0} :
                    /\ Socket(i) \in AnyFile
                    /\ Socket(i).kind = "socket" /\ Socket(i).inode = i
                    /\ Socket(i) # NoFile
BY DEF AnyFile, NoFile, Directory, Socket

LEMMA SpendTyped ==
  ASSUME budget \in [BudgetKinds -> Nat], NEW k \in BudgetKinds, Spend(k)
  PROVE  budget' \in [BudgetKinds -> Nat]
BY DEF Spend

LEMMA InitInv == Init => InjectionInv
<1> SUFFICES ASSUME Init PROVE InjectionInv
  OBVIOUS
<1>1. /\ path.kind = "none" /\ path.inode \in 0 .. inodes
      /\ \A p \in Pods : /\ mount[p] = NoFile
                          /\ mount[p].kind = "none" /\ mount[p].inode \in 0 .. inodes
      /\ \A p \in Pods : stage[p] = "pending"
  BY FilesTyped DEF Init
<1>2. TypeOK
  BY <1>1, InjectionBudgetAssumption DEF Init, TypeOK
<1> QED BY <1>2, FilesTyped DEF Init, InjectionInv

(* The mounts of a container that is given up are gone. *)
LEMMA DiscardKeeps ==
  ASSUME InjectionInv, NEW p \in Pods, Discard(p)
  PROVE  /\ mount' \in [Pods -> AnyFile]
         /\ stage' \in [Pods -> {"pending", "admitted", "created", "checked", "running"}]
         /\ \A q \in Pods : mount'[q].kind \in {"none", "dir", "socket"}
                              /\ mount'[q].inode \in 0 .. inodes
         /\ \A q \in Pods :
              mount'[q] = NoFile <=> q \in SelfSet \/ stage'[q] \in {"pending", "admitted"}
<1>1. /\ mount' \in [Pods -> AnyFile]
      /\ stage' \in [Pods -> {"pending", "admitted", "created", "checked", "running"}]
  BY FilesTyped DEF Discard, InjectionInv, TypeOK
<1>2. /\ mount'[p] = NoFile /\ stage'[p] = "admitted"
      /\ \A q \in Pods : q # p => mount'[q] = mount[q] /\ stage'[q] = stage[q]
  BY DEF Discard, InjectionInv, TypeOK
<1>3. inodes \in Nat
  BY DEF InjectionInv, TypeOK
<1> QED BY <1>1, <1>2, <1>3, FilesTyped DEF InjectionInv, TypeOK

-----------------------------------------------------------------------------
LEMMA ProxyKeeps ==
  ASSUME InjectionInv, Proxy \/ Report
  PROVE  InjectionInv'
<1> USE FilesTyped DEF InjectionInv, containerVars, clientVars, nodeVars
<1>1. CASE RemoveOldSocket
  <2>1. path' = NoFile /\ server' = server /\ server = 0
    BY <1>1 DEF RemoveOldSocket, TypeOK
  <2> QED BY <1>1, <2>1 DEF RemoveOldSocket, TypeOK
<1>2. CASE RemovalFails
  <2>1. budget' \in [BudgetKinds -> Nat]
    BY <1>2, SpendTyped DEF RemovalFails, TypeOK, BudgetKinds
  <2> QED BY <1>2, <2>1 DEF RemovalFails, TypeOK
<1>3. CASE BindSocket
  <2>1. /\ inodes' \in Nat \ {0} /\ inodes' = inodes + 1 /\ inodes \in Nat
        /\ server' = inodes' /\ path' = Socket(inodes')
    BY <1>3 DEF BindSocket, TypeOK
  <2>2. \A q \in Pods : mount'[q].inode \in 0 .. inodes'
    BY <1>3, <2>1 DEF BindSocket, TypeOK
  <2> QED BY <1>3, <2>1, <2>2 DEF BindSocket, TypeOK
<1>4. CASE BindFails
  BY <1>4 DEF BindFails, TypeOK
<1>5. CASE ProxyDies
  <2>1. budget' \in [BudgetKinds -> Nat]
    BY <1>5, SpendTyped DEF ProxyDies, TypeOK, BudgetKinds
  <2>2. path' = path \/ path' = NoFile
    BY <1>5 DEF ProxyDies
  <2> QED BY <1>5, <2>1, <2>2 DEF ProxyDies, TypeOK
<1>6. CASE Report
  BY <1>6 DEF Report, TypeOK, Answers
<1> QED BY <1>1, <1>2, <1>3, <1>4, <1>5, <1>6 DEF Proxy

LEMMA ContainerKeeps ==
  ASSUME InjectionInv, NEW p \in Pods, Container(p) \/ RestartContainer(p)
  PROVE  InjectionInv'
<1> USE DEF InjectionInv, containerVars, clientVars, nodeVars
<1>1. CASE Admit(p)
  BY <1>1 DEF Admit, TypeOK
<1>2. CASE CreateContainer(p)
  <2> DEFINE source == IF path = NoFile THEN Directory ELSE path
  <2>1. source \in AnyFile /\ source.inode \in 0 .. inodes
    BY FilesTyped DEF TypeOK
  <2>a. server # 0 => source = path
    <3>1. server # 0 => path.kind = "socket"
      BY DEF TypeOK, Socket
    <3> QED BY <3>1, FilesTyped
  <2>b. source # NoFile
    BY FilesTyped
  <2>2. \/ p \in SelfSet /\ path' = path /\ mount' = mount
        \/ p \notin SelfSet /\ path' = source /\ mount' = [mount EXCEPT ![p] = source]
    BY <1>2 DEF CreateContainer
  <2> HIDE DEF source
  <2>3. /\ path' \in AnyFile /\ path'.inode \in 0 .. inodes
        /\ server # 0 => path' = path
        /\ mount' \in [Pods -> AnyFile]
        /\ \A q \in Pods : mount'[q].inode \in 0 .. inodes
        /\ \A q \in Pods : q # p => mount'[q] = mount[q]
        /\ mount'[p] = NoFile <=> p \in SelfSet
    BY <2>1, <2>a, <2>b, <2>2 DEF TypeOK
  <2>4. /\ stage' = [stage EXCEPT ![p] = "created"]
        /\ UNCHANGED <<proxy, server, inodes, offered, clientVars, budget>>
    BY <1>2 DEF CreateContainer
  <2>5. \A q \in Pods :
          mount'[q] = NoFile <=> q \in SelfSet \/ stage'[q] \in {"pending", "admitted"}
    BY <2>3, <2>4 DEF TypeOK
  <2> QED BY <2>3, <2>4, <2>5 DEF TypeOK, AnyFile
<1>3. CASE HookStat(p)
  <2>1. CASE path = NoFile
    <3>1. Discard(p)
      BY <1>3, <2>1 DEF HookStat, HookFails
    <3> QED BY <1>3, <2>1, <3>1, DiscardKeeps DEF HookStat, TypeOK
  <2>2. CASE path # NoFile
    BY <1>3, <2>2 DEF HookStat, TypeOK
  <2> QED BY <2>1, <2>2
<1>4. CASE HookMount(p)
  <2>1. CASE path.kind # "socket"
    <3>1. Discard(p)
      BY <1>4, <2>1 DEF HookMount, HookFails
    <3> QED BY <1>4, <3>1, DiscardKeeps DEF HookMount, TypeOK
  <2>2. CASE path.kind = "socket"
    BY <1>4, <2>2 DEF HookMount, TypeOK
  <2> QED BY <2>1, <2>2
<1>5. CASE RestartContainer(p)
  <2>1. budget' \in [BudgetKinds -> Nat]
    BY <1>5, SpendTyped DEF RestartContainer, TypeOK, BudgetKinds
  <2>2. Discard(p)
    BY <1>5 DEF RestartContainer
  <2> QED BY <1>5, <2>1, <2>2, DiscardKeeps DEF RestartContainer, TypeOK
<1> QED BY <1>1, <1>2, <1>3, <1>4, <1>5 DEF Container

LEMMA ClientKeeps ==
  ASSUME InjectionInv, NEW p \in Pods, Client(p) \/ Close(p)
  PROVE  InjectionInv'
<1> USE DEF InjectionInv, containerVars, clientVars, nodeVars
<1>1. CASE NewClientFromEnv(p)
  BY <1>1 DEF NewClientFromEnv, TypeOK
<1>2. CASE HealthState(p)
  BY <1>2 DEF HealthState, TypeOK
<1>3. CASE HealthDial(p)
  BY <1>3 DEF HealthDial, TypeOK
<1>4. CASE Close(p)
  <2>1. budget' \in [BudgetKinds -> Nat]
    BY <1>4, SpendTyped DEF Close, TypeOK, BudgetKinds
  <2> QED BY <1>4, <2>1 DEF Close, TypeOK
<1> QED BY <1>1, <1>2, <1>3, <1>4 DEF Client

LEMMA NextKeeps == InjectionInv /\ [Next]_vars => InjectionInv'
<1> SUFFICES ASSUME InjectionInv, [Next]_vars PROVE InjectionInv'
  OBVIOUS
<1>1. CASE Next
  BY <1>1, ProxyKeeps, ContainerKeeps, ClientKeeps DEF Next
<1>2. CASE UNCHANGED vars
  BY <1>2 DEF InjectionInv, TypeOK, vars, containerVars, clientVars, nodeVars
<1> QED BY <1>1, <1>2

-----------------------------------------------------------------------------
(* The listener's socket is the one at the path, whatever containers are   *)
(* created meanwhile, and a container past its creation has a mount        *)
(* exactly when its pod asked for a device, whatever the hook does         *)
(* (device_plugin.go, Allocate; cmd/hook/main.go, bindMount).              *)
THEOREM TypeCorrect == Spec => []TypeOK
<1>1. InjectionInv => TypeOK
  BY DEF InjectionInv
<1> QED BY <1>1, InitInv, NextKeeps, PTL DEF Spec

-----------------------------------------------------------------------------
(* The proxy never listens where it has listened before. *)
LEMMA ServerIsOrNew ==
  ASSUME InjectionInv, [Next]_vars
  PROVE  server' \in {server, 0} \/ server' = inodes + 1
<1>1. CASE Proxy
  BY <1>1 DEF Proxy, RemoveOldSocket, RemovalFails, BindSocket, BindFails, ProxyDies
<1>2. CASE \E p \in Pods : Container(p) \/ RestartContainer(p)
  BY <1>2 DEF Container, Admit, CreateContainer, HookStat, HookMount,
              RestartContainer, nodeVars
<1>3. CASE \E p \in Pods : Client(p) \/ Close(p)
  BY <1>3 DEF Client, NewClientFromEnv, HealthState, HealthDial, Close, nodeVars
<1>4. CASE Report \/ UNCHANGED vars
  BY <1>4 DEF Report, vars, nodeVars
<1> QED BY <1>1, <1>2, <1>3, <1>4 DEF Next

(* A container that goes on running keeps its mount. *)
LEMMA RunningKeepsMount ==
  ASSUME InjectionInv, [Next]_vars, NEW p \in Pods,
         stage[p] = "running", stage'[p] = "running"
  PROVE  mount'[p] = mount[p]
<1> USE DEF InjectionInv, TypeOK, containerVars
<1>1. ASSUME NEW q \in Pods, Container(q) \/ RestartContainer(q)
      PROVE  mount'[p] = mount[p]
  <2>1. CASE Admit(q)
    BY <2>1 DEF Admit
  <2>2. CASE q = p /\ ~ Admit(q)
    BY <1>1, <2>2 DEF Container, CreateContainer, HookStat, HookMount,
                      RestartContainer, Discard
  <2>3. CASE q # p /\ ~ Admit(q)
    BY <1>1, <2>3 DEF Container, CreateContainer, HookStat, HookMount, HookFails,
                      RestartContainer, Discard
  <2> QED BY <2>1, <2>2, <2>3
<1>2. CASE Proxy \/ Report \/ UNCHANGED vars
  BY <1>2 DEF Proxy, RemoveOldSocket, RemovalFails, BindSocket, BindFails, ProxyDies,
              Report, vars
<1>3. CASE \E q \in Pods : Client(q) \/ Close(q)
  BY <1>3 DEF Client, NewClientFromEnv, HealthState, HealthDial, Close
<1> QED BY <1>1, <1>2, <1>3 DEF Next

(***************************************************************************)
(* A socket that no longer answers in a running container never answers    *)
(* there again, for any number of restarts of the proxy and whatever other *)
(* containers do to the path (device_plugin.go, Allocate).                 *)
(***************************************************************************)
THEOREM DeadStaysDeadAlways == Spec => DeadStaysDead
<1> DEFINE Stays ==
      \A p \in Pods :
        stage[p] = "running" /\ stage'[p] = "running" /\ ~ Answers(mount[p])
          => ~ Answers(mount[p])'
<1>1. InjectionInv /\ [Next]_vars => Stays
  <2> SUFFICES ASSUME InjectionInv, [Next]_vars, NEW p \in Pods,
                      stage[p] = "running", stage'[p] = "running",
                      ~ Answers(mount[p]), mount'[p].kind = "socket",
                      mount'[p].inode = server'
               PROVE  FALSE
    BY DEF Answers
  <2>1. /\ mount'[p] = mount[p]
        /\ mount[p].inode \in 0 .. inodes /\ inodes \in Nat
    BY RunningKeepsMount DEF InjectionInv, TypeOK
  <2>2. server' # server
    BY <2>1 DEF Answers
  <2>3. server' = 0
    BY <2>1, <2>2, ServerIsOrNew
  <2>4. mount[p] \in AnyFile
    BY DEF InjectionInv
  <2> QED BY <2>1, <2>3, <2>4 DEF AnyFile
<1>2. InjectionInv /\ [Next]_vars => [Stays]_vars
  BY <1>1
<1> QED BY <1>2, InitInv, NextKeeps, PTL DEF Spec, DeadStaysDead
=============================================================================
