----------------------- MODULE DaemonLifecycleProofs -----------------------
(* Theorems about DaemonLifecycle for any number of processes and commands, *)
(* and any bounds on calls, starts, stops, kills and faults.                *)
EXTENDS DaemonLifecycle, TLAPS

-----------------------------------------------------------------------------
(* The inductive invariant *)

(* Before any process runs, a dead socket is from an earlier crash. *)
LEMMA InitIndInv == Init => IndInv
<1> SUFFICES ASSUME Init PROVE IndInv
  OBVIOUS
<1>1. {shared, dirty} \subseteq BOOLEAN
  BY Zenon DEF Init
<1>2. TypeOK
  BY <1>1 DEF Init, TypeOK
<1>3. SocketInv
  BY NoneAssumption DEF Init, SocketInv
<1>4. CommandInv
  BY DEF Init, CommandInv, InCall
<1>5. StoreInv
  BY DEF Init, StoreInv, Open
<1>6. QED BY <1>2, <1>3, <1>4, <1>5 DEF IndInv

(* A process that starts has neither the store nor the socket. *)
LEMMA StartIndInv ==
  ASSUME IndInv, NEW d \in Daemons, Start(d)
  PROVE  IndInv'
<1> USE DEF IndInv
<1>1. TypeOK'
  BY DEF Start, Launch, Run, command, ghost, TypeOK
<1>2. SocketInv'
  BY DEF Start, Launch, Run, ghost, SocketInv
<1>3. CommandInv'
  BY DEF Start, Launch, Run, command, CommandInv, Open
<1>4. StoreInv'
  BY DEF Start, Launch, Run, command, ghost, StoreInv, Open
<1>5. QED BY <1>1, <1>2, <1>3, <1>4

(* Opening the store is where two processes come to share it. *)
LEMMA LoadIndInv ==
  ASSUME IndInv, NEW d \in Daemons, Load(d)
  PROVE  IndInv'
<1> USE DEF IndInv
<1>1. TypeOK'
  BY DEF Load, Opened, Run, command, bounds, TypeOK
<1>2. SocketInv'
  BY DEF Load, Opened, Run, SocketInv
<1>3. CommandInv'
  BY DEF Load, Opened, Run, command, CommandInv, Open
<1>4. StoreInv'
  <2>1. SUFFICES ASSUME ~shared' PROVE StoreInv'
    BY DEF StoreInv
  <2>2. ~shared /\ \A e \in Daemons \ {d} : ~Open(e)
    BY <2>1, Zenon DEF Load, Opened
  <2>3. /\ pc' = [pc EXCEPT ![d] = "stat"] /\ pc[d] = "load"
        /\ mem' = [mem EXCEPT ![d] = file]
        /\ UNCHANGED <<file, cpc, conn, op, acked>>
    BY DEF Load, Opened, Run, command
  <2>4. \A c \in Clients : cpc[c] \notin {"save", "reply"}
    BY <2>2, <2>3 DEF CommandInv, TypeOK, Open
  <2>5. QED BY <2>2, <2>3, <2>4 DEF TypeOK, StoreInv, Open
<1>5. QED BY <1>1, <1>2, <1>3, <1>4

(* The steps on the way to bind change the label alone. *)
LEMMA StatIndInv ==
  ASSUME IndInv, NEW d \in Daemons, Stat(d)
  PROVE  IndInv'
<1> USE DEF IndInv
<1>1. TypeOK'
  BY DEF Stat, Run, command, ghost, bounds, TypeOK
<1>2. SocketInv'
  BY DEF Stat, Run, ghost, SocketInv
<1>3. CommandInv'
  BY DEF Stat, Run, command, CommandInv, Open
<1>4. StoreInv'
  BY DEF Stat, Run, command, ghost, StoreInv, Open
<1>5. QED BY <1>1, <1>2, <1>3, <1>4

(* So does the answer to the dial. *)
LEMMA DialIndInv ==
  ASSUME IndInv, NEW d \in Daemons, Dial(d)
  PROVE  IndInv'
<1> USE DEF IndInv
<1>1. TypeOK'
  BY DEF Dial, Run, command, ghost, bounds, TypeOK
<1>2. SocketInv'
  BY DEF Dial, Run, ghost, SocketInv
<1>3. CommandInv'
  BY DEF Dial, Run, command, CommandInv, Open
<1>4. StoreInv'
  BY DEF Dial, Run, command, ghost, StoreInv, Open
<1>5. QED BY <1>1, <1>2, <1>3, <1>4

(* The path is gone, whoever had bound it. *)
LEMMA RemoveIndInv ==
  ASSUME IndInv, NEW d \in Daemons, Remove(d)
  PROVE  IndInv'
<1> USE DEF IndInv
<1>1. TypeOK'
  BY DEF Remove, Run, command, ghost, bounds, TypeOK
<1>2. SocketInv'
  BY NoneAssumption DEF Remove, SocketInv
<1>3. CommandInv'
  BY DEF Remove, Run, command, CommandInv, Open
<1>4. StoreInv'
  BY DEF Remove, Run, command, ghost, StoreInv, Open
<1>5. QED BY <1>1, <1>2, <1>3, <1>4

(* A socket begins as its maker's. *)
LEMMA BindIndInv ==
  ASSUME IndInv, NEW d \in Daemons, Bind(d)
  PROVE  IndInv'
<1> USE DEF IndInv
<1>1. TypeOK'
  BY DEF Bind, Run, command, ghost, bounds, TypeOK
<1>2. SocketInv'
  BY NoneAssumption DEF Bind, Run, ghost, TypeOK, SocketInv
<1>3. CommandInv'
  BY DEF Bind, Run, command, TypeOK, CommandInv, Open
<1>4. StoreInv'
  BY DEF Bind, Run, command, ghost, TypeOK, StoreInv, Open
<1>5. QED BY <1>1, <1>2, <1>3, <1>4

(* The maker of a socket listens. *)
LEMMA ListenIndInv ==
  ASSUME IndInv, NEW d \in Daemons, Listen(d)
  PROVE  IndInv'
<1> USE DEF IndInv
<1>1. TypeOK'
  BY DEF Listen, Run, command, ghost, bounds, TypeOK
<1>2. SocketInv'
  BY DEF Listen, Run, ghost, SocketInv
<1>3. CommandInv'
  BY DEF Listen, Run, command, CommandInv, Open
<1>4. StoreInv'
  BY DEF Listen, Run, command, ghost, StoreInv, Open
<1>5. QED BY <1>1, <1>2, <1>3, <1>4

(* The server starts to serve. *)
LEMMA ChmodIndInv ==
  ASSUME IndInv, NEW d \in Daemons, Chmod(d)
  PROVE  IndInv'
<1> USE DEF IndInv
<1>1. TypeOK'
  BY DEF Chmod, Run, command, ghost, bounds, TypeOK
<1>2. SocketInv'
  BY DEF Chmod, Run, ghost, SocketInv
<1>3. CommandInv'
  BY DEF Chmod, Run, command, CommandInv, Open
<1>4. StoreInv'
  BY DEF Chmod, Run, command, ghost, StoreInv, Open
<1>5. QED BY <1>1, <1>2, <1>3, <1>4

(* The listener is closed before the process gives up. *)
LEMMA ChmodFailsIndInv ==
  ASSUME IndInv, NEW d \in Daemons, ChmodFails(d)
  PROVE  IndInv'
<1> USE DEF IndInv
<1>1. TypeOK'
  BY DEF ChmodFails, ChmodError, Unserved, Disconnect, Run, ghost, TypeOK
<1>2. SocketInv'
  BY NoneAssumption DEF ChmodFails, SocketInv
<1>3. CommandInv'
  BY DEF ChmodFails, ChmodError, Unserved, Disconnect, Run, CommandInv, Open,
    InCall
<1>4. StoreInv'
  BY DEF ChmodFails, ChmodError, Unserved, Disconnect, Run, ghost, StoreInv,
    Open
<1>5. QED BY <1>1, <1>2, <1>3, <1>4

(* A server that has stopped to accept keeps its socket. *)
LEMMA AcceptFailsIndInv ==
  ASSUME IndInv, NEW d \in Daemons, AcceptFails(d)
  PROVE  IndInv'
<1> USE DEF IndInv
<1>1. TypeOK'
  BY DEF AcceptFails, Run, command, ghost, TypeOK
<1>2. SocketInv'
  BY DEF AcceptFails, Run, ghost, SocketInv
<1>3. CommandInv'
  BY DEF AcceptFails, Run, command, CommandInv, Open
<1>4. StoreInv'
  BY DEF AcceptFails, Run, command, ghost, StoreInv, Open
<1>5. QED BY <1>1, <1>2, <1>3, <1>4

(* A server that is told to stop keeps its socket until it closes it. *)
LEMMA SignalIndInv ==
  ASSUME IndInv, NEW d \in Daemons, Signal(d)
  PROVE  IndInv'
<1> USE DEF IndInv
<1>1. TypeOK'
  BY DEF Signal, Run, command, ghost, TypeOK
<1>2. SocketInv'
  BY DEF Signal, Run, ghost, SocketInv
<1>3. CommandInv'
  BY DEF Signal, Run, command, CommandInv, Open
<1>4. StoreInv'
  BY DEF Signal, Run, command, ghost, StoreInv, Open
<1>5. QED BY <1>1, <1>2, <1>3, <1>4

(* The listener's socket goes before the process can end. *)
LEMMA CloseListenerIndInv ==
  ASSUME IndInv, NEW d \in Daemons, CloseListener(d)
  PROVE  IndInv'
<1> USE DEF IndInv
<1>1. TypeOK'
  BY DEF CloseListener, Unserved, Disconnect, Run, ghost, bounds, TypeOK
<1>2. SocketInv'
  BY NoneAssumption DEF CloseListener, SocketInv
<1>3. CommandInv'
  BY DEF CloseListener, Unserved, Disconnect, Run, CommandInv, Open, InCall
<1>4. StoreInv'
  BY DEF CloseListener, Unserved, Disconnect, Run, ghost, StoreInv, Open
<1>5. QED BY <1>1, <1>2, <1>3, <1>4

(* A request under way goes on, its command may be gone. *)
LEMMA SweepIndInv ==
  ASSUME IndInv, NEW d \in Daemons, Sweep(d)
  PROVE  IndInv'
<1> USE DEF IndInv
<1>1. TypeOK'
  BY DEF Sweep, Run, ghost, bounds, TypeOK
<1>2. SocketInv'
  BY DEF Sweep, Run, ghost, SocketInv
<1>3. CommandInv'
  BY DEF Sweep, Run, CommandInv, Open, InCall
<1>4. StoreInv'
  BY DEF Sweep, Run, ghost, StoreInv, Open
<1>5. QED BY <1>1, <1>2, <1>3, <1>4

(* The wait changes nothing else. *)
LEMMA WaitIndInv ==
  ASSUME IndInv, NEW d \in Daemons, Wait(d)
  PROVE  IndInv'
<1> USE DEF IndInv
<1>1. TypeOK'
  BY DEF Wait, Run, command, ghost, bounds, TypeOK
<1>2. SocketInv'
  BY DEF Wait, Run, ghost, SocketInv
<1>3. CommandInv'
  BY DEF Wait, Run, command, CommandInv, Open
<1>4. StoreInv'
  BY DEF Wait, Run, command, ghost, StoreInv, Open
<1>5. QED BY <1>1, <1>2, <1>3, <1>4

(* The path is gone, whoever had bound it by now. *)
LEMMA UnlinkIndInv ==
  ASSUME IndInv, NEW d \in Daemons, Unlink(d)
  PROVE  IndInv'
<1> USE DEF IndInv
<1>1. TypeOK'
  BY DEF Unlink, Run, command, ghost, bounds, TypeOK
<1>2. SocketInv'
  BY NoneAssumption DEF Unlink, SocketInv
<1>3. CommandInv'
  BY DEF Unlink, Run, command, CommandInv, Open
<1>4. StoreInv'
  BY DEF Unlink, Run, command, ghost, StoreInv, Open
<1>5. QED BY <1>1, <1>2, <1>3, <1>4

(* Memory is the file and more, unless the store has been shared. *)
LEMMA CloseIndInv ==
  ASSUME IndInv, NEW d \in Daemons, Close(d)
  PROVE  IndInv'
<1> USE DEF IndInv
<1>1. TypeOK'
  BY DEF Close, Gone, Disconnect, Run, ghost, bounds, TypeOK
<1>2. SocketInv'
  BY DEF Close, Gone, Run, ghost, SocketInv
<1>3. CommandInv'
  BY DEF Close, Gone, Disconnect, Run, CommandInv, Open, InCall
<1>4. StoreInv'
  BY DEF Close, Gone, Disconnect, Run, ghost, TypeOK, StoreInv, Open
<1>5. QED BY <1>1, <1>2, <1>3, <1>4

(* A killed process leaves the file as it is. *)
LEMMA KillIndInv ==
  ASSUME IndInv, NEW d \in Daemons, Kill(d)
  PROVE  IndInv'
<1> USE DEF IndInv
<1>1. TypeOK'
  BY DEF Kill, Gone, Disconnect, Run, TypeOK
<1>2. SocketInv'
  BY NoneAssumption DEF Kill, Gone, Run, SocketInv
<1>3. CommandInv'
  BY DEF Kill, Gone, Disconnect, Run, CommandInv, Open, InCall
<1>4. StoreInv'
  BY DEF Kill, Gone, Disconnect, Run, TypeOK, StoreInv, Open
<1>5. QED BY <1>1, <1>2, <1>3, <1>4

(* A command that begins has an alias to register. *)
LEMMA BeginIndInv ==
  ASSUME IndInv, NEW c \in Clients, Begin(c)
  PROVE  IndInv'
<1> USE DEF IndInv
<1>1. TypeOK'
  <2>1. calls' \in Alias
    BY BoundsAssumption DEF Begin, TypeOK, Alias
  <2>2. QED BY <2>1 DEF Begin, Go, process, ghost, TypeOK
<1>2. SocketInv'
  BY DEF Begin, process, ghost, SocketInv
<1>3. CommandInv'
  <2>1. calls' \in Alias
    BY BoundsAssumption DEF Begin, TypeOK, Alias
  <2>2. QED
    BY <2>1 DEF Begin, Go, process, TypeOK, CommandInv, Open, InCall
<1>4. StoreInv'
  BY DEF Begin, Go, process, ghost, StoreInv, Open
<1>5. QED BY <1>1, <1>2, <1>3, <1>4

(* A command that finds a server has yet to connect to it. *)
LEMMA DialHitIndInv ==
  ASSUME IndInv, NEW c \in Clients, DialHit(c)
  PROVE  IndInv'
<1> USE DEF IndInv
<1>1. TypeOK'
  BY DEF DialHit, Go, process, ghost, bounds, TypeOK
<1>2. SocketInv'
  BY DEF DialHit, process, ghost, SocketInv
<1>3. CommandInv'
  BY DEF DialHit, Go, process, CommandInv, Open, InCall
<1>4. StoreInv'
  BY DEF DialHit, Go, process, ghost, StoreInv, Open
<1>5. QED BY <1>1, <1>2, <1>3, <1>4

(* A command may start the process it waits for. *)
LEMMA SpawnIndInv ==
  ASSUME IndInv, NEW c \in Clients, NEW d \in Daemons, Spawn(c, d)
  PROVE  IndInv'
<1> USE DEF IndInv
<1>1. TypeOK'
  BY DEF Spawn, Launch, Run, Go, ghost, TypeOK
<1>2. SocketInv'
  BY DEF Spawn, Launch, Run, ghost, SocketInv
<1>3. CommandInv'
  BY DEF Spawn, Launch, Run, Go, CommandInv, Open, InCall
<1>4. StoreInv'
  BY DEF Spawn, Launch, Run, Go, ghost, StoreInv, Open
<1>5. QED BY <1>1, <1>2, <1>3, <1>4

(* A command ends. *)
LEMMA SpawnFailsIndInv ==
  ASSUME IndInv, NEW c \in Clients, SpawnFails(c)
  PROVE  IndInv'
<1> USE DEF IndInv
<1>1. TypeOK'
  BY DEF SpawnFails, Return, Go, process, ghost, bounds, TypeOK
<1>2. SocketInv'
  BY DEF SpawnFails, process, ghost, SocketInv
<1>3. CommandInv'
  BY DEF SpawnFails, Return, Go, process, TypeOK, CommandInv, Open, InCall
<1>4. StoreInv'
  BY DEF SpawnFails, Return, Go, process, ghost, StoreInv, Open
<1>5. QED BY <1>1, <1>2, <1>3, <1>4

(* A command ends. *)
LEMMA PollTimeoutIndInv ==
  ASSUME IndInv, NEW c \in Clients, PollTimeout(c)
  PROVE  IndInv'
<1> USE DEF IndInv
<1>1. TypeOK'
  BY DEF PollTimeout, Return, Go, process, ghost, bounds, TypeOK
<1>2. SocketInv'
  BY DEF PollTimeout, process, ghost, SocketInv
<1>3. CommandInv'
  BY DEF PollTimeout, Return, Go, process, TypeOK, CommandInv, Open, InCall
<1>4. StoreInv'
  BY DEF PollTimeout, Return, Go, process, ghost, StoreInv, Open
<1>5. QED BY <1>1, <1>2, <1>3, <1>4

(* A command connects to a process that listens. *)
LEMMA ConnectIndInv ==
  ASSUME IndInv, NEW c \in Clients, Connect(c)
  PROVE  IndInv'
<1> USE DEF IndInv
<1>1. TypeOK'
  BY DEF Connect, Return, Go, process, ghost, bounds, Reachable, TypeOK,
    InCall
<1>2. SocketInv'
  BY DEF Connect, process, ghost, SocketInv
<1>3. CommandInv'
  BY NoneAssumption DEF Connect, Return, Go, process, TypeOK, SocketInv,
    CommandInv, Open, InCall, Reachable
<1>4. StoreInv'
  BY DEF Connect, Return, Go, process, ghost, TypeOK, StoreInv, Open
<1>5. QED BY <1>1, <1>2, <1>3, <1>4

(* The connection is accepted. *)
LEMMA AcceptIndInv ==
  ASSUME IndInv, NEW c \in Clients, Accept(c)
  PROVE  IndInv'
<1> USE DEF IndInv
<1>1. TypeOK'
  BY DEF Accept, Go, process, ghost, bounds, TypeOK, InCall
<1>2. SocketInv'
  BY DEF Accept, process, ghost, SocketInv
<1>3. CommandInv'
  BY DEF Accept, Go, process, CommandInv, Open, InCall
<1>4. StoreInv'
  BY DEF Accept, Go, process, ghost, StoreInv, Open
<1>5. QED BY <1>1, <1>2, <1>3, <1>4

(* The connection is known to Stop. *)
LEMMA TrackConnIndInv ==
  ASSUME IndInv, NEW c \in Clients, TrackConn(c)
  PROVE  IndInv'
<1> USE DEF IndInv
<1>1. TypeOK'
  BY DEF TrackConn, Go, process, ghost, bounds, TypeOK, InCall
<1>2. SocketInv'
  BY DEF TrackConn, process, ghost, SocketInv
<1>3. CommandInv'
  BY DEF TrackConn, Go, process, CommandInv, Open, InCall
<1>4. StoreInv'
  BY DEF TrackConn, Go, process, ghost, StoreInv, Open
<1>5. QED BY <1>1, <1>2, <1>3, <1>4

(* The alias is in memory before it is saved. *)
LEMMA ServeIndInv ==
  ASSUME IndInv, NEW c \in Clients, Serve(c)
  PROVE  IndInv'
<1> USE DEF IndInv
<1>1. TypeOK'
  <2>1. cpc[c] \in InCall /\ op[c] \in Alias /\ conn[c] \in Daemons
    BY DEF Serve, TypeOK, CommandInv
  <2>2. QED BY <2>1 DEF Serve, Go, ghost, bounds, TypeOK, InCall
<1>2. SocketInv'
  BY DEF Serve, ghost, SocketInv
<1>3. CommandInv'
  BY DEF Serve, Go, CommandInv, Open, InCall
<1>4. StoreInv'
  BY DEF Serve, Go, ghost, TypeOK, CommandInv, StoreInv, Open
<1>5. QED BY <1>1, <1>2, <1>3, <1>4

(* The alias is in the file before the answer, and nothing leaves it. *)
LEMMA SaveIndInv ==
  ASSUME IndInv, NEW c \in Clients, Save(c)
  PROVE  IndInv'
<1> USE DEF IndInv
<1>1. TypeOK'
  <2>1. cpc[c] \in InCall /\ op[c] \in Alias /\ conn[c] \in Daemons
    BY DEF Save, TypeOK, CommandInv
  <2>2. QED BY <2>1 DEF Save, Go, ghost, bounds, TypeOK, InCall
<1>2. SocketInv'
  BY DEF Save, ghost, SocketInv
<1>3. CommandInv'
  BY DEF Save, Go, CommandInv, Open, InCall
<1>4. StoreInv'
  BY DEF Save, Go, ghost, TypeOK, CommandInv, StoreInv, Open
<1>5. QED BY <1>1, <1>2, <1>3, <1>4

(* What is acknowledged is in the file. *)
LEMMA ReplyIndInv ==
  ASSUME IndInv, NEW c \in Clients, Reply(c)
  PROVE  IndInv'
<1> USE DEF IndInv
<1>1. TypeOK'
  <2>1. cpc[c] \in InCall /\ op[c] \in Alias /\ conn[c] \in Daemons
    BY DEF Reply, TypeOK, CommandInv
  <2>2. QED BY <2>1 DEF Reply, Return, Go, process, bounds, TypeOK
<1>2. SocketInv'
  BY DEF Reply, process, SocketInv
<1>3. CommandInv'
  BY DEF Reply, Return, Go, process, TypeOK, CommandInv, Open, InCall
<1>4. StoreInv'
  BY DEF Reply, Return, Go, process, TypeOK, StoreInv, Open
<1>5. QED BY <1>1, <1>2, <1>3, <1>4

(* The daemon goes on without its client. *)
LEMMA CallTimeoutIndInv ==
  ASSUME IndInv, NEW c \in Clients, CallTimeout(c)
  PROVE  IndInv'
<1> USE DEF IndInv
<1>1. TypeOK'
  BY DEF CallTimeout, process, ghost, bounds, TypeOK
<1>2. SocketInv'
  BY DEF CallTimeout, process, ghost, SocketInv
<1>3. CommandInv'
  BY DEF CallTimeout, process, CommandInv, Open
<1>4. StoreInv'
  BY DEF CallTimeout, process, ghost, StoreInv, Open
<1>5. QED BY <1>1, <1>2, <1>3, <1>4

(* The bounds are reached and all is quiet: nothing changes. *)
LEMMA StutterIndInv ==
  ASSUME IndInv, UNCHANGED vars
  PROVE  IndInv'
BY DEF IndInv, TypeOK, SocketInv, CommandInv, StoreInv, Open, vars, process,
  command, ghost, bounds

(* Every step preserves the invariant. *)
LEMMA NextIndInv == IndInv /\ [Next]_vars => IndInv'
<1> SUFFICES ASSUME IndInv, [Next]_vars PROVE IndInv'
  OBVIOUS
<1>1. ASSUME NEW d \in Daemons,
             Start(d) \/ AcceptFails(d) \/ Signal(d) \/ Kill(d)
      PROVE  IndInv'
  BY <1>1, StartIndInv, AcceptFailsIndInv, SignalIndInv, KillIndInv
<1>2. ASSUME NEW d \in Daemons, DaemonStep(d) PROVE IndInv'
  BY <1>2, LoadIndInv, StatIndInv, DialIndInv, RemoveIndInv, BindIndInv,
    ListenIndInv, ChmodIndInv, ChmodFailsIndInv, CloseListenerIndInv,
    SweepIndInv, WaitIndInv, UnlinkIndInv, CloseIndInv DEF DaemonStep
<1>3. ASSUME NEW c \in Clients, Begin(c) \/ ClientStep(c) PROVE IndInv'
  BY <1>3, BeginIndInv, DialHitIndInv, SpawnIndInv, SpawnFailsIndInv,
    PollTimeoutIndInv, ConnectIndInv, AcceptIndInv, TrackConnIndInv,
    ServeIndInv, SaveIndInv, ReplyIndInv, CallTimeoutIndInv DEF ClientStep
<1>4. CASE UNCHANGED vars
  BY <1>4, StutterIndInv
<1>5. QED BY <1>1, <1>2, <1>3, <1>4 DEF Next, Quiet

-----------------------------------------------------------------------------
(* Theorems *)

(* The strengthened invariant holds in every reachable state. *)
THEOREM LifecycleIndInv == Spec => []IndInv
<1>1. Init => IndInv
  BY InitIndInv
<1>2. IndInv /\ [Next]_vars => IndInv'
  BY NextIndInv
<1>3. QED BY <1>1, <1>2, PTL DEF Spec

(* The variables of the model keep their types. *)
THEOREM LifecycleTyped == Spec => []TypeOK
<1>1. IndInv => TypeOK
  BY DEF IndInv
<1>2. QED BY <1>1, LifecycleIndInv, PTL

(* However many processes start, stop and fail to start around one path, a  *)
(* dead socket is there only if some process was killed, and no process     *)
(* that has ended is named by the path.                                     *)
THEOREM NoSocketLeftHolds == Spec => []NoSocketLeft
<1>1. IndInv => NoSocketLeft
  BY DEF IndInv, SocketInv, NoSocketLeft
<1>2. QED BY <1>1, LifecycleIndInv, PTL

(* As long as no two processes have had the store open at once, what a      *)
(* client was told is registered stays in the file, through any sequence of *)
(* stops, kills, failed starts and timeouts.                                *)
THEOREM AckedUnlessSharedHolds == Spec => []AckedUnlessShared
<1>1. IndInv => AckedUnlessShared
  BY DEF IndInv, StoreInv, AckedUnlessShared
<1>2. QED BY <1>1, LifecycleIndInv, PTL
=============================================================================
