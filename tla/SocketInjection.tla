--------------------------- MODULE SocketInjection ---------------------------
(***************************************************************************)
(* How the metal-proxy socket of a node reaches a container: the listener  *)
(* that replaces its socket file whenever it starts (the Swift daemon, or  *)
(* the image of build/Dockerfile.dummy-proxy), the Allocate response       *)
(* of the device plugin, the container runtime, the OCI hook               *)
(* (cmd/hook/main.go), and the client library in the container             *)
(* (pkg/proxy/client.go).                                                  *)
(*                                                                         *)
(* A bind mount pins what it was made from.  Sockets are therefore told    *)
(* apart by an inode number, and a container may hold one that is no       *)
(* longer at the path.                                                     *)
(***************************************************************************)
EXTENDS Naturals

CONSTANTS
  Pods,        \* containers with METAL_PROXY_SOCKET in their environment
  SelfSet,     \* those that set it themselves and request no device
  Dummy,       \* the listener is the dummy of Dockerfile.dummy-proxy
  Budget       \* how often each kind of outside event happens

BudgetKinds == {"proxy", "removal", "container", "close"}

ASSUME SelfSetAssumption == SelfSet \subseteq Pods

ASSUME DummyAssumption == Dummy \in BOOLEAN

ASSUME InjectionBudgetAssumption == Budget \in [BudgetKinds -> Nat]

VARIABLES
  path,        \* what is at /var/run/metal-proxy/metal.sock
  proxy,       \* where the listening process is
  server,      \* the inode it listens on, 0 when it does not
  inodes,      \* the newest inode
  offered,     \* the kubelet has healthy devices, as last reported
  stage,       \* how far each container is
  mount,       \* what each container has at /dev/metal/proxy.sock
  conn,        \* its gRPC connection
  call,        \* where its call of Health is
  answer,      \* what Health last returned
  budget       \* outside events left

nodeVars      == <<path, proxy, server, inodes>>
containerVars == <<stage, mount>>
clientVars    == <<conn, call, answer>>
vars == <<nodeVars, offered, containerVars, clientVars, budget>>

-----------------------------------------------------------------------------
NoFile    == [kind |-> "none", inode |-> 0]
Directory == [kind |-> "dir", inode |-> 0]
Socket(i) == [kind |-> "socket", inode |-> i]

File == {NoFile, Directory} \cup {Socket(i) : i \in Nat \ {0}}

AnswersMutant(f) ==                        \* the directory is mounted, not the file
  f.kind = "socket" /\ server # 0

(* A socket answers a dial while the process that bound it is alive. *)
Answers(f) == f.kind = "socket" /\ f.inode = server

Spend(kind) ==
  /\ budget[kind] > 0
  /\ budget' = [budget EXCEPT ![kind] = @ - 1]

TypeOK ==
  /\ path.kind \in {"none", "dir", "socket"} /\ path.inode \in 0 .. inodes
  /\ proxy \in {"down", "binding", "serving"}
  /\ proxy = "serving" <=> server # 0
  /\ server # 0 => path = Socket(server)
  /\ inodes \in Nat
  /\ offered \in BOOLEAN
  /\ stage \in [Pods -> {"pending", "admitted", "created", "checked", "running"}]
  /\ \A p \in Pods : mount[p].kind \in {"none", "dir", "socket"}
                       /\ mount[p].inode \in 0 .. inodes
  /\ \A p \in Pods :
       mount[p] = NoFile <=> p \in SelfSet \/ stage[p] \in {"pending", "admitted"}
  /\ conn \in [Pods -> {"none", "idle", "shutdown"}]
  /\ call \in [Pods -> {"none", "dial"}]
  /\ answer \in [Pods -> {"none", "yes", "no"}]
  /\ budget \in [BudgetKinds -> Nat]

Init ==
  /\ path = NoFile
  /\ proxy = "down"
  /\ server = 0
  /\ inodes = 0
  /\ offered = FALSE
  /\ stage = [p \in Pods |-> "pending"]
  /\ mount = [p \in Pods |-> NoFile]
  /\ conn = [p \in Pods |-> "none"]
  /\ call = [p \in Pods |-> "none"]
  /\ answer = [p \in Pods |-> "none"]
  /\ budget = Budget

-----------------------------------------------------------------------------
(* The listener starts. *)

RemovableMutant(f) == f.kind # "dir"       \* the daemon uses rm -f as well

(* removeItem takes away whatever is there; rm -f leaves a directory alone *)
(* and fails, and && ends the shell of the dummy.                          *)
Removable(f) == Dummy => f.kind # "dir"

RemoveOldSocketMutant ==                   \* a second one starts meanwhile
  /\ Removable(path)
  /\ proxy' = "binding"
  /\ path' = NoFile
  /\ UNCHANGED <<server, inodes, offered, containerVars, clientVars, budget>>

RemoveOldSocket ==
  /\ proxy = "down"
  /\ Removable(path)
  /\ proxy' = "binding"
  /\ path' = NoFile
  /\ UNCHANGED <<server, inodes, offered, containerVars, clientVars, budget>>

(* try? swallows a removal that fails, and the daemon goes on. *)
RemovalFails ==
  /\ ~ Dummy
  /\ proxy = "down"
  /\ path # NoFile
  /\ Spend("removal")
  /\ proxy' = "binding"
  /\ UNCHANGED <<path, server, inodes, offered, containerVars, clientVars>>

(* The listening itself (external): socat does it for the dummy; the run   *)
(* of the daemon's server is where its own is to come.                     *)
BindSocket ==
  /\ proxy = "binding"
  /\ path = NoFile
  /\ proxy' = "serving"
  /\ inodes' = inodes + 1
  /\ server' = inodes'
  /\ path' = Socket(inodes')
  /\ UNCHANGED <<offered, containerVars, clientVars, budget>>

(* Something has appeared at the path since: the process ends. *)
BindFails ==
  /\ proxy = "binding"
  /\ path # NoFile
  /\ proxy' = "down"
  /\ UNCHANGED <<path, server, inodes, offered, containerVars, clientVars, budget>>

(* It dies, with or without its socket file. *)
ProxyDies ==
  /\ proxy = "serving"
  /\ Spend("proxy")
  /\ proxy' = "down"
  /\ server' = 0
  /\ path' \in {path, NoFile}
  /\ UNCHANGED <<inodes, offered, containerVars, clientVars>>

-----------------------------------------------------------------------------
(* The device plugin reports to the kubelet from time to time. *)
Report ==
  /\ offered' = Answers(path)
  /\ UNCHANGED <<nodeVars, containerVars, clientVars, budget>>

(* Admission.  The answer of Allocate names the path, whatever is there; a *)
(* container that requests no device gets no such answer.                  *)
Admit(p) ==
  /\ stage[p] = "pending"
  /\ p \in SelfSet \/ offered
  /\ stage' = [stage EXCEPT ![p] = "admitted"]
  /\ UNCHANGED <<nodeVars, offered, mount, clientVars, budget>>

(* The container runtime (external) makes the mounts of the answer; where  *)
(* the source is missing it makes a directory first.                       *)
CreateContainer(p) ==
  LET source == IF path = NoFile THEN Directory ELSE path IN
  /\ stage[p] = "admitted"
  /\ stage' = [stage EXCEPT ![p] = "created"]
  /\ IF p \in SelfSet
       THEN UNCHANGED <<path, mount>>
       ELSE path' = source /\ mount' = [mount EXCEPT ![p] = source]
  /\ UNCHANGED <<proxy, server, inodes, offered, clientVars, budget>>

-----------------------------------------------------------------------------
(* The hook, while the container is being created. *)

Discard(p) ==
  /\ stage' = [stage EXCEPT ![p] = "admitted"]
  /\ mount' = [mount EXCEPT ![p] = NoFile]

(* fatalf: the runtime gives the container up, the kubelet tries again. *)
HookFails(p) == Discard(p)

(* Only "does not exist" is an error; a directory will do. *)
HookStat(p) ==
  /\ stage[p] = "created"
  /\ IF path = NoFile
       THEN HookFails(p)
       ELSE stage' = [stage EXCEPT ![p] = "checked"] /\ UNCHANGED mount
  /\ UNCHANGED <<nodeVars, offered, clientVars, budget>>

(* The state is "creating", before the runtime's pivot_root: nsenter       *)
(* resolves source and target in what is still the host's tree, where      *)
(* touch has made a file for the target.  A socket is mounted on it, but   *)
(* outside the root the container is about to get: the container keeps     *)
(* what the runtime mounted.  A source that is gone, or a directory, which *)
(* cannot cover a file, is an error.                                       *)
HookMount(p) ==
  /\ stage[p] = "checked"
  /\ IF path.kind = "socket"
       THEN stage' = [stage EXCEPT ![p] = "running"] /\ UNCHANGED mount
       ELSE HookFails(p)
  /\ UNCHANGED <<nodeVars, offered, clientVars, budget>>

(* A container ends and is started again in the same pod. *)
RestartContainer(p) ==
  /\ stage[p] = "running"
  /\ Spend("container")
  /\ Discard(p)
  /\ conn' = [conn EXCEPT ![p] = "none"]
  /\ call' = [call EXCEPT ![p] = "none"]
  /\ answer' = [answer EXCEPT ![p] = "none"]
  /\ UNCHANGED <<nodeVars, offered>>

-----------------------------------------------------------------------------
(* The client library. *)

(* grpc.NewClient does not connect, and no method of Client sends an RPC:  *)
(* the connection stays idle until it is closed.                           *)
NewClientFromEnv(p) ==
  /\ stage[p] = "running"
  /\ conn[p] = "none"
  /\ conn' = [conn EXCEPT ![p] = "idle"]
  /\ UNCHANGED <<nodeVars, offered, containerVars, call, answer, budget>>

Close(p) ==
  /\ conn[p] = "idle"
  /\ Spend("close")
  /\ conn' = [conn EXCEPT ![p] = "shutdown"]
  /\ UNCHANGED <<nodeVars, offered, containerVars, call, answer>>

(* Health looks at the state of the connection ... *)
HealthStateMutant(p) ==                    \* and believes it
  /\ conn[p] # "none"
  /\ call[p] = "none"
  /\ answer' = [answer EXCEPT ![p] = IF conn[p] = "idle" THEN "yes" ELSE "no"]
  /\ UNCHANGED <<nodeVars, offered, containerVars, conn, call, budget>>

HealthState(p) ==
  /\ conn[p] # "none"
  /\ call[p] = "none"
  /\ IF conn[p] = "shutdown"
       THEN answer' = [answer EXCEPT ![p] = "no"] /\ UNCHANGED call
       ELSE call' = [call EXCEPT ![p] = "dial"] /\ UNCHANGED answer
  /\ UNCHANGED <<nodeVars, offered, containerVars, conn, budget>>

(* ... and then dials the socket itself: METAL_PROXY_SOCKET is set in all  *)
(* of these containers, so Health never takes its branch for no variable.  *)
HealthDial(p) ==
  /\ call[p] = "dial"
  /\ call' = [call EXCEPT ![p] = "none"]
  /\ answer' = [answer EXCEPT ![p] = IF Answers(mount[p]) THEN "yes" ELSE "no"]
  /\ UNCHANGED <<nodeVars, offered, containerVars, conn, budget>>

-----------------------------------------------------------------------------
Proxy == RemoveOldSocket \/ RemovalFails \/ BindSocket \/ BindFails \/ ProxyDies

Container(p) == Admit(p) \/ CreateContainer(p) \/ HookStat(p) \/ HookMount(p)

Client(p) == NewClientFromEnv(p) \/ HealthState(p) \/ HealthDial(p)

Next ==
  \/ Proxy
  \/ Report
  \/ \E p \in Pods : Container(p) \/ RestartContainer(p) \/ Client(p) \/ Close(p)

Spec == Init /\ [][Next]_vars

(***************************************************************************)
(* The kubelet starts the proxy again and retries containers, and programs *)
(* keep asking Health.  Remove and bind are milliseconds apart while the   *)
(* kubelet backs off before it creates a container again, so the proxy     *)
(* does not find the path taken for ever: strong fairness of the bind.     *)
(***************************************************************************)
Fairness ==
  /\ WF_vars(RemoveOldSocket)
  /\ SF_vars(BindSocket)
  /\ WF_vars(BindFails)
  /\ WF_vars(Report)
  /\ \A p \in Pods : WF_vars(Container(p)) /\ WF_vars(Client(p))

FairSpec == Spec /\ Fairness

-----------------------------------------------------------------------------
(***************************************************************************)
(* What no longer answers in a running container never answers there       *)
(* again: neither the proxy's restarts nor other containers' mounts, hooks *)
(* or failures bring it back, only a restart of the container itself does  *)
(* (the socket file is mounted, not its directory, device_plugin.go,       *)
(* Allocate).                                                              *)
(***************************************************************************)
DeadStaysDead ==
  [][\A p \in Pods :
       stage[p] = "running" /\ stage'[p] = "running" /\ ~ Answers(mount[p])
         => ~ Answers(mount[p])']_vars

(***************************************************************************)
(* The path becomes a socket again.  A container created while there is    *)
(* none leaves a directory there, on which a bind fails; the next start of *)
(* the daemon takes it away (MetalProxyApp.swift:41-42).                   *)
(***************************************************************************)
PathRecovers == <>[](server # 0 /\ path = Socket(server))

(***************************************************************************)
(* Every container that was admitted runs in the end, whatever the hook    *)
(* found at first: it fails, and the container is made anew with other     *)
(* mounts (cmd/hook/main.go:80-90).                                        *)
(***************************************************************************)
AdmittedRuns ==
  \A p \in Pods : stage[p] = "admitted" ~> stage[p] = "running"

(***************************************************************************)
(* A container keeps the socket it was started with: after a restart of    *)
(* the proxy nobody answers there.  A program that goes on asking Health   *)
(* is told so for good, and one whose socket is alive is told that, unless *)
(* it closed its connection (client.go:144-164).                           *)
(***************************************************************************)
HealthTells ==
  \A p \in Pods :
    /\ <>[](stage[p] = "running" /\ ~ Answers(mount[p])) => <>[](answer[p] # "yes")
    /\ <>[](Answers(mount[p]) /\ conn[p] = "idle") => <>[](answer[p] = "yes")

-----------------------------------------------------------------------------
(***************************************************************************)
(* What build/Dockerfile.dummy-proxy:3 says: "Create a dummy UNIX socket   *)
(* and listen indefinitely so net.Dial succeeds".                          *)
(***************************************************************************)
ListensIndefinitely == <>[](server # 0)
=============================================================================
