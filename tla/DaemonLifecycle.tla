-------------------------- MODULE DaemonLifecycle --------------------------
(* Daemon processes that start, serve, stop and die around one socket path  *)
(* and one aliases.json, and the commands that find or launch them:         *)
(* runDaemonForeground (src/internal/cli/daemon.go), Server.Start and Stop  *)
(* (src/internal/daemon/server.go), EnsureRunning                           *)
(* (src/internal/daemon/launcher.go) and Client.Call                        *)
(* (src/internal/daemon/ipc.go).                                            *)
(*                                                                          *)
(* Every command registers one alias, named by the number of the call.  The *)
(* store is what AliasMap promises: memory, and a file that is replaced as  *)
(* a whole.  net.Listen binds the path and listens in two system calls; the *)
(* listener's Close unlinks the path, whoever bound it.                     *)
EXTENDS Naturals

CONSTANTS Daemons,   \* processes that may run at once
          Clients,   \* commands that may run at once
          None,      \* no socket file, no connection
          Stale,     \* a socket file whose process is gone
          MaxCalls,  \* bound: commands
          MaxStarts, \* bound: daemon processes started
          MaxStops,  \* bound: lockie daemon stop
          MaxKills,  \* bound: processes killed
          MaxFaults  \* bound: failing chmod and accept calls

ASSUME NoneAssumption == {None, Stale} \cap Daemons = {} /\ None # Stale
ASSUME BoundsAssumption ==
  {MaxCalls, MaxStarts, MaxStops, MaxKills, MaxFaults} \subseteq Nat

VARIABLES
  path,    \* the socket file: the process that bound it
  pc,      \* where each daemon process is
  mem,     \* the aliases in its memory
  file,    \* the aliases in aliases.json
  cpc,     \* where each command is
  conn,    \* the process it is connected to
  op,      \* the alias it registers
  cut,     \* why it no longer waits for its answer, if so
  acked,   \* ghost: aliases whose registration was acknowledged
  shared,  \* ghost: two processes have had the store open at once
  dirty,   \* ghost: some process died without a shutdown
  calls, starts, stops, kills, faults   \* counters for the bounds

process == <<path, pc, mem, file>>
command == <<cpc, conn, op, cut>>
ghost   == <<acked, shared, dirty>>
bounds  == <<calls, starts, stops, kills, faults>>
vars    == <<process, command, ghost, bounds>>

-----------------------------------------------------------------------------
Alias == 1 .. MaxCalls

(* connect() succeeds from listen() to the listener's Close *)
Listening(d) == pc[d] \in {"chmod", "serving", "deaf"}

Reachable == path \in Daemons /\ Listening(path)

(* OpenStore has returned *)
Open(d) == pc[d] \notin {"off", "load"}

Run(d, label) == pc' = [pc EXCEPT ![d] = label]
Go(c, label)  == cpc' = [cpc EXCEPT ![c] = label]

(* The command ends, with or without its answer *)
Return(c) ==
  /\ Go(c, "idle")
  /\ conn' = [conn EXCEPT ![c] = None]
  /\ op' = [op EXCEPT ![c] = 0]
  /\ cut' = [cut EXCEPT ![c] = "no"]

(* The kernel closes the connections of the commands in C: they get EOF     *)
Disconnect(C) ==
  /\ cpc' = [c \in Clients |-> IF c \in C THEN "idle" ELSE cpc[c]]
  /\ conn' = [c \in Clients |-> IF c \in C THEN None ELSE conn[c]]
  /\ op' = [c \in Clients |-> IF c \in C THEN 0 ELSE op[c]]
  /\ cut' = [c \in Clients |-> IF c \in C THEN "no" ELSE cut[c]]

ClientsOf(d, labels) == {c \in Clients : conn[c] = d /\ cpc[c] \in labels}

InCall == {"backlog", "accepted", "tracked", "save", "reply"}

Init ==
  /\ path \in {None, Stale}
  /\ pc = [d \in Daemons |-> "off"]
  /\ mem = [d \in Daemons |-> {}]
  /\ file = {}
  /\ cpc = [c \in Clients |-> "idle"]
  /\ conn = [c \in Clients |-> None]
  /\ op = [c \in Clients |-> 0]
  /\ cut = [c \in Clients |-> "no"]
  /\ acked = {}
  /\ shared = FALSE
  /\ dirty = (path = Stale)
  /\ calls = 0
  /\ starts = 0
  /\ stops = 0
  /\ kills = 0
  /\ faults = 0

-----------------------------------------------------------------------------
(* runDaemonForeground up to the accept loop *)

Launch(d) ==
  /\ pc[d] = "off"
  /\ starts < MaxStarts
  /\ starts' = starts + 1
  /\ Run(d, "load")

(* lockie daemon start --foreground *)
Start(d) ==
  /\ Launch(d)
  /\ UNCHANGED <<path, mem, file, command, ghost, calls, stops, kills, faults>>

Opened(d, aliases) ==
  /\ pc[d] = "load"
  /\ mem' = [mem EXCEPT ![d] = aliases]
  /\ shared' = (shared \/ \E e \in Daemons \ {d} : Open(e))
  /\ Run(d, "stat")
  /\ UNCHANGED <<path, file, command, acked, dirty, bounds>>

(* mutant: the store is opened empty *)
LoadNothing(d) == Opened(d, {})

Load(d) == Opened(d, file)

(* removeStaleSocket: stat, dial, remove *)
Stat(d) ==
  /\ pc[d] = "stat"
  /\ Run(d, IF path = None THEN "bind" ELSE "dial")
  /\ UNCHANGED <<path, mem, file, command, ghost, bounds>>

(* mutant: a socket nobody answers at is taken for a daemon's, too *)
DialGivesUp(d) ==
  /\ pc[d] = "dial"
  /\ Run(d, "close")
  /\ UNCHANGED <<path, mem, file, command, ghost, bounds>>

(* ErrAlreadyRunning if somebody answers; no error to the caller, but the   *)
(* deferred st.Close() runs                                                 *)
Dial(d) ==
  /\ pc[d] = "dial"
  /\ Run(d, IF Reachable THEN "close" ELSE "remove")
  /\ UNCHANGED <<path, mem, file, command, ghost, bounds>>

(* Whatever is at the path by now; an error if nothing is *)
Remove(d) ==
  /\ pc[d] = "remove"
  /\ path' = None
  /\ Run(d, IF path = None THEN "close" ELSE "bind")
  /\ UNCHANGED <<mem, file, command, ghost, bounds>>

(* bind() fails with EADDRINUSE if the path exists *)
Bind(d) ==
  /\ pc[d] = "bind"
  /\ IF path = None
     THEN path' = d /\ Run(d, "listen")
     ELSE UNCHANGED path /\ Run(d, "close")
  /\ UNCHANGED <<mem, file, command, ghost, bounds>>

Listen(d) ==
  /\ pc[d] = "listen"
  /\ Run(d, "chmod")
  /\ UNCHANGED <<path, mem, file, command, ghost, bounds>>

(* Start returns and the accept loop runs *)
Chmod(d) ==
  /\ pc[d] = "chmod"
  /\ path # None
  /\ Run(d, "serving")
  /\ UNCHANGED <<path, mem, file, command, ghost, bounds>>

Unserved(d) == Disconnect(ClientsOf(d, {"backlog"}))

(* chmod fails because the path is gone, or for another reason *)
ChmodError(d) ==
  /\ pc[d] = "chmod"
  /\ IF path = None THEN UNCHANGED faults
     ELSE faults < MaxFaults /\ faults' = faults + 1
  /\ Run(d, "close")
  /\ Unserved(d)
  /\ UNCHANGED <<mem, file, ghost, calls, starts, stops, kills>>

(* mutant: the error path leaves the listener open *)
ChmodFailsOpen(d) ==
  /\ UNCHANGED path
  /\ ChmodError(d)

(* ln.Close(), then the deferred st.Close() *)
ChmodFails(d) ==
  /\ path' = None
  /\ ChmodError(d)

(* Accept returns an error: acceptLoop gives up, the listener stays open *)
AcceptFails(d) ==
  /\ pc[d] = "serving"
  /\ faults < MaxFaults
  /\ faults' = faults + 1
  /\ Run(d, "deaf")
  /\ UNCHANGED <<path, mem, file, command, ghost, calls, starts, stops, kills>>

-----------------------------------------------------------------------------
(* Server.Stop and the end of runDaemonForeground *)

(* SIGTERM, from lockie daemon stop or from anyone *)
Signal(d) ==
  /\ pc[d] \in {"serving", "deaf"}
  /\ stops < MaxStops
  /\ stops' = stops + 1
  /\ Run(d, "unlisten")
  /\ UNCHANGED <<path, mem, file, command, ghost, calls, starts, kills, faults>>

(* listener.Close(): the path goes, and so do connections not accepted yet  *)
CloseListener(d) ==
  /\ pc[d] = "unlisten"
  /\ path' = None
  /\ Run(d, "sweep")
  /\ Unserved(d)
  /\ UNCHANGED <<mem, file, ghost, bounds>>

(* Every tracked connection is closed; a request being served goes on       *)
(* without a client.                                                        *)
Sweep(d) ==
  /\ pc[d] = "sweep"
  /\ cpc' = [c \in Clients |-> IF c \in ClientsOf(d, {"tracked"})
                               THEN "idle" ELSE cpc[c]]
  /\ conn' = [c \in Clients |-> IF c \in ClientsOf(d, {"tracked"})
                                THEN None ELSE conn[c]]
  /\ op' = [c \in Clients |-> IF c \in ClientsOf(d, {"tracked"})
                              THEN 0 ELSE op[c]]
  /\ cut' = [c \in Clients |->
       IF cut[c] = "no" /\ c \in ClientsOf(d, {"save", "reply"})
       THEN "stop" ELSE cut[c]]
  /\ Run(d, "wait")
  /\ UNCHANGED <<path, mem, file, ghost, bounds>>

(* The wait group is done, or five seconds have passed *)
Wait(d) ==
  /\ pc[d] = "wait"
  /\ Run(d, "unlink")
  /\ UNCHANGED <<path, mem, file, command, ghost, bounds>>

(* os.Remove(s.socketPath) *)
Unlink(d) ==
  /\ pc[d] = "unlink"
  /\ path' = None
  /\ Run(d, "close")
  /\ UNCHANGED <<mem, file, command, ghost, bounds>>

Gone(d) ==
  /\ Run(d, "off")
  /\ mem' = [mem EXCEPT ![d] = {}]
  /\ path' = IF path = d THEN Stale ELSE path
  /\ Disconnect({c \in Clients : conn[c] = d})

(* The deferred st.Close() writes memory back, and the process exits *)
Close(d) ==
  /\ pc[d] = "close"
  /\ file' = mem[d]
  /\ Gone(d)
  /\ UNCHANGED <<ghost, bounds>>

(* SIGKILL, a crash, or a signal before signal.Notify *)
Kill(d) ==
  /\ pc[d] # "off"
  /\ kills < MaxKills
  /\ kills' = kills + 1
  /\ dirty' = TRUE
  /\ Gone(d)
  /\ UNCHANGED <<file, acked, shared, calls, starts, stops, faults>>

-----------------------------------------------------------------------------
(* One command: EnsureRunning, then Client.Call *)

(* mutant: the request is sent without its parameters *)
BeginUnnamed(c) ==
  /\ cpc[c] = "idle"
  /\ calls < MaxCalls
  /\ calls' = calls + 1
  /\ Go(c, "ensure")
  /\ UNCHANGED <<process, conn, op, cut, ghost, starts, stops, kills, faults>>

Begin(c) ==
  /\ cpc[c] = "idle"
  /\ calls < MaxCalls
  /\ calls' = calls + 1
  /\ op' = [op EXCEPT ![c] = calls']
  /\ Go(c, "ensure")
  /\ UNCHANGED <<process, conn, cut, ghost, starts, stops, kills, faults>>

DialHit(c) ==
  /\ cpc[c] \in {"ensure", "poll"}
  /\ Reachable
  /\ Go(c, "call")
  /\ UNCHANGED <<process, conn, op, cut, ghost, bounds>>

Spawn(c, d) ==
  /\ cpc[c] = "ensure"
  /\ ~Reachable
  /\ Launch(d)
  /\ Go(c, "poll")
  /\ UNCHANGED <<path, mem, file, conn, op, cut, ghost, calls, stops, kills,
                 faults>>

SpawnFails(c) ==
  /\ cpc[c] = "ensure"
  /\ ~Reachable
  /\ Return(c)
  /\ UNCHANGED <<process, ghost, bounds>>

(* mutant: only a refused connection counts against the deadline *)
PollTimeoutRefused(c) ==
  /\ cpc[c] = "poll"
  /\ ~Reachable
  /\ path # None
  /\ Return(c)
  /\ UNCHANGED <<process, ghost, bounds>>

(* WaitTimeout is over *)
PollTimeout(c) ==
  /\ cpc[c] = "poll"
  /\ ~Reachable
  /\ Return(c)
  /\ UNCHANGED <<process, ghost, bounds>>

(* ensureConn dials again: EnsureRunning closed the connection it made *)
Connect(c) ==
  /\ cpc[c] = "call"
  /\ IF Reachable
     THEN /\ Go(c, "backlog")
          /\ conn' = [conn EXCEPT ![c] = path]
          /\ UNCHANGED <<op, cut>>
     ELSE Return(c)
  /\ UNCHANGED <<process, ghost, bounds>>

(* acceptLoop: Accept, then trackConn *)
Accept(c) ==
  /\ cpc[c] = "backlog"
  /\ pc[conn[c]] = "serving"
  /\ Go(c, "accepted")
  /\ UNCHANGED <<process, conn, op, cut, ghost, bounds>>

TrackConn(c) ==
  /\ cpc[c] = "accepted"
  /\ Go(c, "tracked")
  /\ UNCHANGED <<process, conn, op, cut, ghost, bounds>>

(* serveConn reads the request; the handler changes memory, then saves *)
Serve(c) ==
  /\ cpc[c] = "tracked"
  /\ mem' = [mem EXCEPT ![conn[c]] = @ \cup {op[c]}]
  /\ Go(c, "save")
  /\ UNCHANGED <<path, pc, file, conn, op, cut, ghost, bounds>>

Save(c) ==
  /\ cpc[c] = "save"
  /\ file' = mem[conn[c]]
  /\ Go(c, "reply")
  /\ UNCHANGED <<path, pc, mem, conn, op, cut, ghost, bounds>>

Reply(c) ==
  /\ cpc[c] = "reply"
  /\ acked' = IF cut[c] = "no" THEN acked \cup {op[c]} ELSE acked
  /\ Return(c)
  /\ UNCHANGED <<process, shared, dirty, bounds>>

(* The call's deadline passes: the command closes the connection and ends   *)
(* with an error; the daemon goes on with the request it has been sent.     *)
CallTimeout(c) ==
  /\ cpc[c] \in InCall
  /\ cut[c] = "no"
  /\ cut' = [cut EXCEPT ![c] = "timeout"]
  /\ UNCHANGED <<process, cpc, conn, op, ghost, bounds>>

-----------------------------------------------------------------------------
DaemonStep(d) ==
  \/ Load(d)
  \/ Stat(d)
  \/ Dial(d)
  \/ Remove(d)
  \/ Bind(d)
  \/ Listen(d)
  \/ Chmod(d)
  \/ ChmodFails(d)
  \/ CloseListener(d)
  \/ Sweep(d)
  \/ Wait(d)
  \/ Unlink(d)
  \/ Close(d)

ClientStep(c) ==
  \/ DialHit(c)
  \/ \E d \in Daemons : Spawn(c, d)
  \/ SpawnFails(c)
  \/ PollTimeout(c)
  \/ Connect(c)
  \/ Accept(c)
  \/ TrackConn(c)
  \/ Serve(c)
  \/ Save(c)
  \/ Reply(c)
  \/ CallTimeout(c)

(* No more calls can be made, and every process is where it stays *)
Quiet ==
  /\ \A c \in Clients : IF cpc[c] = "idle" THEN calls = MaxCalls
                        ELSE cut[c] # "no"
  /\ \A d \in Daemons : pc[d] \in {"off", "serving", "deaf"}
  /\ UNCHANGED vars

Next ==
  \/ \E d \in Daemons :
       \/ Start(d)
       \/ DaemonStep(d)
       \/ AcceptFails(d)
       \/ Signal(d)
       \/ Kill(d)
  \/ \E c \in Clients : Begin(c) \/ ClientStep(c)
  \/ Quiet

Spec == Init /\ [][Next]_vars

(* Processes and commands that can run do run *)
Fairness ==
  /\ \A d \in Daemons : WF_vars(DaemonStep(d))
  /\ \A c \in Clients : WF_vars(ClientStep(c))

FairSpec == Spec /\ Fairness

-----------------------------------------------------------------------------
(* Properties *)

(* Every variable has its type; a command that is answered registered one   *)
(* of the aliases that commands were started with.                          *)
TypeOK ==
  /\ path \in Daemons \cup {None, Stale}
  /\ pc \in [Daemons -> {"off", "load", "stat", "dial", "remove", "bind",
                         "listen", "chmod", "serving", "deaf", "unlisten",
                         "sweep", "wait", "unlink", "close"}]
  /\ mem \in [Daemons -> SUBSET Alias]
  /\ file \subseteq Alias
  /\ cpc \in [Clients -> {"idle", "ensure", "poll", "call"} \cup InCall]
  /\ conn \in [Clients -> Daemons \cup {None}]
  /\ op \in [Clients -> Alias \cup {0}]
  /\ cut \in [Clients -> {"no", "timeout", "stop"}]
  /\ acked \subseteq Alias
  /\ {shared, dirty} \subseteq BOOLEAN
  /\ {calls, starts, stops, kills, faults} \subseteq Nat

(* A process that ends on its own, by Stop or because its start failed,     *)
(* leaves no dead socket behind (server.go:96-98, 140, 160), whichever      *)
(* processes bind and remove the path meanwhile.                            *)
NoSocketLeft ==
  /\ path = Stale => dirty
  /\ path \in Daemons => pc[path] # "off"

(* Two daemons with the store open at once overwrite each other's file; as  *)
(* long as that never happens, what a client was told is registered stays   *)
(* registered, over any number of stops, kills and starts.                  *)
AckedUnlessShared == shared \/ acked \subseteq file

(* "AliasAddParams registers a durable alias" (protocol.go:156).  A second  *)
(* `lockie daemon start` loads the file, finds the first daemon, and its    *)
(* deferred st.Close() writes back what it loaded.                          *)
RegisteredStays == acked \subseteq file

(* A command ends, in success or in an error, whatever becomes of the       *)
(* daemons: EnsureRunning's polling and Call both have a deadline.          *)
CallEnds ==
  \A c \in Clients : cpc[c] # "idle" ~> (cpc[c] = "idle" \/ cut[c] # "no")

(* A process that starts while no other one runs gets to serve, be there    *)
(* the socket of a dead one or none: its start ends otherwise only if       *)
(* another one is started meanwhile, it is killed, or its chmod fails.      *)
AloneServes ==
  \A d \in Daemons :
    pc[d] = "load" /\ (\A e \in Daemons \ {d} : pc[e] = "off") ~>
      \/ pc[d] = "serving"
      \/ \E e \in Daemons \ {d} : pc[e] # "off"
      \/ pc[d] = "off" /\ kills + faults > 0

-----------------------------------------------------------------------------
(* The inductive invariant behind NoSocketLeft and AckedUnlessShared *)

(* Until listener.Close() has unlinked it, a socket is its maker's *)
SocketInv ==
  /\ path = Stale => dirty
  /\ path \in Daemons =>
       pc[path] \in {"listen", "chmod", "serving", "deaf", "unlisten"}

(* A command under way has an alias to register, and in a call it is        *)
(* connected to a process that has opened the store                         *)
CommandInv ==
  \A c \in Clients :
    /\ cpc[c] # "idle" => op[c] \in Alias
    /\ cpc[c] \in InCall <=> conn[c] # None
    /\ conn[c] # None => Open(conn[c])

(* The one process that has the store open knows all that is in the file,   *)
(* and a request is saved before it is answered                             *)
StoreInv ==
  ~shared =>
    /\ \A d, e \in Daemons : Open(d) /\ Open(e) => d = e
    /\ \A d \in Daemons : Open(d) => file \subseteq mem[d]
    /\ acked \subseteq file
    /\ \A c \in Clients :
         /\ cpc[c] = "save" => op[c] \in mem[conn[c]]
         /\ cpc[c] = "reply" => op[c] \in file

IndInv == TypeOK /\ SocketInv /\ CommandInv /\ StoreInv
=============================================================================
