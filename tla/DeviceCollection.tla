-------------------------- MODULE DeviceCollection --------------------------
(***************************************************************************)
(* Device collection change notifications: CubebDeviceCollectionManager    *)
(* and CubebServer (server/src/server.rs) on one side, ClientContext and   *)
(* DeviceCollectionServer (client/src/context.rs) on the other.            *)
(*                                                                         *)
(* Actors: each client's application thread, which registers callbacks;    *)
(* each client's RPC loop, which runs them; the server's RPC thread, which *)
(* owns the manager and runs one request at a time; and the cubeb          *)
(* backend's threads, one per direction, which notify the manager.  The    *)
(* manager's `servers` mutex is held across the blocking RPC to a client.  *)
(*                                                                         *)
(* An RPC here is a request and its answer, or an error once the client is *)
(* gone: that is what RpcCore shows of Proxy::call.                        *)
(***************************************************************************)
EXTENDS Integers, Sequences, FiniteSets, Functions

CONSTANTS
  Clients,
  DevTypes,      \* the device types clients register for
  BackendFails,  \* cubeb's register_device_collection_changed may fail
  MaxRegs,       \* bound on register_device_collection_changed calls per client
  MaxNotes,      \* bound on notifications per direction
  None

Dirs == {"input", "output"}

ASSUME DeviceCollectionAssumption ==
  /\ DevTypes \subseteq SUBSET Dirs
  /\ BackendFails \in BOOLEAN
  /\ MaxRegs \in Nat
  /\ MaxNotes \in Nat
  /\ None \notin Clients \cup Dirs \cup {"rpc"}

VARIABLES
  \* the manager and the backend
  servers,   \* CubebDeviceCollectionManager.servers
  lock,      \* the thread holding its mutex: None, "rpc" or a direction
  enabled,   \* directions the manager's callback is registered for with cubeb
  stopped,   \* the server's RPC thread has ended and dropped the manager
  \* the server's RPC thread
  jpc,       \* "idle" | "lock" | "backend"
  job,       \* the manager calls to make: one for each of job.types
  todo,      \* directions internal_register has yet to do
  \* the backend's threads
  npc,       \* "idle" | "lock" | "next" | "wait"
  pos,       \* index in `servers`
  told,      \* clients called in this notification
  notes,     \* notifications so far
  \* clients
  alive,     \* "live" | "gone" (connection closed) | "dropped" (CubebServer too)
  setup,     \* "none" | "server" (its Some(callbacks)) | "both" (device_collection_rpc)
  cpc,       \* "idle" | "setup" | "set" | "wait"
  want,      \* the registration in progress
  req,       \* the request at the server ({} or one)
  regs,      \* registrations so far
  acked,     \* device types whose registration returned Ok, and still stands
  cbs,       \* DeviceCollectionCallbacks: the user_ptr per direction, 0 for none
  note,      \* DeviceChange request at the client: None, a direction or "done"
  running    \* the user callback in progress: {} or one [dir, ptr]

mgrVars    == <<servers, lock, enabled>>
jobVars    == <<jpc, job, todo>>
notifyVars == <<npc, pos, told, notes>>
clientVars == <<alive, setup, cpc, want, req, regs, acked, cbs>>
loopVars   == <<note, running>>
vars == <<mgrVars, stopped, jobVars, notifyVars, clientVars, loopVars>>

NoJob == [client |-> None, types |-> <<>>, enable |-> FALSE, drop |-> FALSE]
NoWant == [devtype |-> {}, enable |-> FALSE]

Init ==
  /\ servers = <<>>
  /\ lock = None
  /\ enabled = {}
  /\ stopped = FALSE
  /\ jpc = "idle"
  /\ job = NoJob
  /\ todo = <<>>
  /\ npc = [d \in Dirs |-> "idle"]
  /\ pos = [d \in Dirs |-> 0]
  /\ told = [d \in Dirs |-> {}]
  /\ notes = [d \in Dirs |-> 0]
  /\ alive = [c \in Clients |-> "live"]
  /\ setup = [c \in Clients |-> "none"]
  /\ cpc = [c \in Clients |-> "idle"]
  /\ want = [c \in Clients |-> NoWant]
  /\ req = [c \in Clients |-> {}]
  /\ regs = [c \in Clients |-> 0]
  /\ acked = [c \in Clients |-> {}]
  /\ cbs = [c \in Clients |-> [d \in Dirs |-> 0]]
  /\ note = [c \in Clients |-> None]
  /\ running = [c \in Clients |-> {}]

-----------------------------------------------------------------------------
(* The client: register_device_collection_changed and DeviceCollectionServer. *)

\* The application registers (enable) or unregisters a callback.
Register(c, D, enable) ==
  /\ alive[c] = "live"
  /\ cpc[c] = "idle"
  /\ regs[c] < MaxRegs
  /\ regs' = [regs EXCEPT ![c] = @ + 1]
  /\ want' = [want EXCEPT ![c] = [devtype |-> D, enable |-> enable]]
  /\ cpc' = [cpc EXCEPT ![c] = IF setup[c] = "both" THEN "set" ELSE "setup"]
  /\ UNCHANGED <<mgrVars, stopped, jobVars, notifyVars, alive, setup, req,
                 acked, cbs, loopVars>>

\* ContextSetupDeviceCollectionCallback, on the server's RPC thread, then
\* bind_server on the client's RPC loop.
Setup(c) ==
  /\ alive[c] = "live"
  /\ cpc[c] = "setup"
  /\ jpc = "idle"
  /\ setup' = [setup EXCEPT ![c] = "both"]
  /\ cpc' = [cpc EXCEPT ![c] = "set"]
  /\ UNCHANGED <<mgrVars, stopped, jobVars, notifyVars, alive, want, req, regs,
                 acked, cbs, loopVars>>

\* Either side's part of the setup fails and the registration returns an error.
SetupFails(c) ==
  /\ alive[c] = "live"
  /\ cpc[c] = "setup"
  /\ jpc = "idle"
  /\ setup' \in {[setup EXCEPT ![c] = s] : s \in {setup[c], "server"}}
  /\ cpc' = [cpc EXCEPT ![c] = "idle"]
  /\ want' = [want EXCEPT ![c] = NoWant]
  /\ UNCHANGED <<mgrVars, stopped, jobVars, notifyVars, alive, req, regs, acked,
                 cbs, loopVars>>

\* The lock on `callbacks` is free: no user callback is running.
CallbacksUnlockedMutant(c) == TRUE   \* mutant: the lock is not held across the callback
CallbacksUnlocked(c) == running[c] = {}

\* Store the callback under the lock, then send the request.
SetCallbacks(c) ==
  /\ alive[c] = "live"
  /\ cpc[c] = "set"
  /\ CallbacksUnlocked(c)
  /\ cbs' = [cbs EXCEPT ![c] = [d \in Dirs |->
       IF d \notin want[c].devtype THEN @[d]
       ELSE IF want[c].enable THEN regs[c] ELSE 0]]
  /\ req' = [req EXCEPT ![c] = {want[c]}]
  /\ cpc' = [cpc EXCEPT ![c] = "wait"]
  /\ UNCHANGED <<mgrVars, stopped, jobVars, notifyVars, alive, setup, want, regs,
                 acked, loopVars>>

\* DeviceCollectionServer::process takes the lock and runs the callback ...
CallbackBegin(c) ==
  /\ alive[c] = "live"
  /\ note[c] \in Dirs
  /\ running[c] = {}
  /\ running' = [running EXCEPT ![c] = {[dir |-> note[c], ptr |-> cbs[c][note[c]]]}]
  /\ UNCHANGED <<mgrVars, stopped, jobVars, notifyVars, clientVars, note>>

\* ... which returns; the lock is released and the response sent.
CallbackEnd(c) ==
  /\ alive[c] = "live"
  /\ running[c] # {}
  /\ running' = [running EXCEPT ![c] = {}]
  /\ note' = [note EXCEPT ![c] = "done"]
  /\ UNCHANGED <<mgrVars, stopped, jobVars, notifyVars, clientVars>>

\* Proxy::call of a notification in progress at c when its connection closes.
AbandonedMutant(c) == note[c]   \* mutant: the call is not completed
Abandoned(c) == IF note[c] = None THEN None ELSE "done"

\* The client disconnects or dies; a call to it in progress returns an error.
ClientGone(c) ==
  /\ alive[c] = "live"
  /\ alive' = [alive EXCEPT ![c] = "gone"]
  /\ cpc' = [cpc EXCEPT ![c] = "idle"]
  /\ want' = [want EXCEPT ![c] = NoWant]
  /\ running' = [running EXCEPT ![c] = {}]
  /\ note' = [note EXCEPT ![c] = Abandoned(c)]
  /\ UNCHANGED <<mgrVars, stopped, jobVars, notifyVars, setup, req, regs, acked, cbs>>

-----------------------------------------------------------------------------
(* The server's RPC thread: process_register_device_collection_changed and  *)
(* CubebServer::drop, through the manager's register and unregister.        *)

\* The RPC thread goes on to its next request or connection.
JobOver ==
  /\ job' = NoJob
  /\ jpc' = "idle"
  /\ todo' = <<>>

TakeRequest(c) ==
  /\ jpc = "idle"
  /\ \E w \in req[c] :
       job' = [client |-> c, types |-> <<w.devtype>>, enable |-> w.enable,
               drop |-> FALSE]
  /\ req' = [req EXCEPT ![c] = {}]
  /\ jpc' = "lock"
  /\ UNCHANGED <<mgrVars, stopped, todo, notifyVars, alive, setup, cpc, want,
                 regs, acked, cbs, loopVars>>

\* The connection's EOF drops the CubebServer, once its requests are processed.
\* If it was set up, it unregisters INPUT and OUTPUT.
DroppedTypesInputOnly == <<{"input"}>>   \* mutant
DroppedTypes == <<{"input"}, {"output"}>>

DropServer(c) ==
  /\ jpc = "idle"
  /\ alive[c] = "gone"
  /\ req[c] = {}
  /\ IF setup[c] # "none"
       THEN /\ job' = [client |-> c, types |-> DroppedTypes, enable |-> FALSE,
                       drop |-> TRUE]
            /\ jpc' = "lock"
            /\ UNCHANGED alive
       ELSE /\ alive' = [alive EXCEPT ![c] = "dropped"]
            /\ UNCHANGED <<job, jpc>>
  /\ UNCHANGED <<mgrVars, stopped, todo, notifyVars, setup, cpc, want, req,
                 regs, acked, cbs, loopVars>>

\* The answer to the client's request, if it is still there to receive it.
Answer(c, ok) ==
  /\ cpc' = [cpc EXCEPT ![c] = "idle"]
  /\ want' = [want EXCEPT ![c] = NoWant]
  /\ acked' = [acked EXCEPT ![c] =
       IF ~job.enable THEN @ \ {Head(job.types)}
       ELSE IF ok THEN @ \cup {Head(job.types)} ELSE @]

\* One manager call of the job is over: go on with the next one, or end the
\* job.  CubebServer::drop ignores failures.
CallOver(ok) ==
  LET c == job.client IN
  /\ IF Len(job.types) > 1
       THEN /\ job' = [job EXCEPT !.types = Tail(@)]
            /\ jpc' = "lock"
            /\ todo' = <<>>
            /\ UNCHANGED <<alive, cpc, want, acked>>
       ELSE /\ JobOver
            /\ IF job.drop
                 THEN /\ alive' = [alive EXCEPT ![c] = "dropped"]
                      /\ UNCHANGED <<cpc, want, acked>>
                 ELSE /\ Answer(c, ok)
                      /\ UNCHANGED alive
  /\ UNCHANGED <<stopped, notifyVars, setup, req, regs, cbs, loopVars>>

KnownTypeMutant(D) == TRUE   \* mutant
KnownType(D) == D # {}

\* DeviceType::UNKNOWN is refused before the manager is called.
RejectUnknown ==
  /\ jpc = "lock"
  /\ ~KnownType(Head(job.types))
  /\ UNCHANGED mgrVars
  /\ CallOver(FALSE)

\* The entries unregister removes: this server's, of exactly this device type.
RetainedMutant(entry) == entry.devtype # Head(job.types)   \* mutant: not ptr_eq
Retained(entry) == entry.client # job.client \/ entry.devtype # Head(job.types)

\* Vec::retain: the entries of s to be kept, in their order.
Retain(s) ==
  LET kept[n \in 0..Len(s)] ==
        IF n = 0 THEN <<>>
        ELSE IF Retained(s[n]) THEN Append(kept[n - 1], s[n]) ELSE kept[n - 1]
  IN  kept[Len(s)]

LockFreeMutant == lock # "rpc"   \* mutant: a notification does not hold the mutex
LockFree == lock = None

\* register: the backend first if this is the first entry, else just push.
LockRegister ==
  /\ jpc = "lock"
  /\ KnownType(Head(job.types))
  /\ job.enable
  /\ LockFree
  /\ IF servers = <<>>
       THEN /\ lock' = "rpc"
            /\ jpc' = "backend"
            /\ todo' = <<"input", "output">>
            /\ UNCHANGED <<servers, enabled, job, stopped, notifyVars, clientVars,
                           loopVars>>
       ELSE /\ servers' = Append(servers, [client |-> job.client,
                                           devtype |-> Head(job.types)])
            /\ UNCHANGED <<lock, enabled>>
            /\ CallOver(TRUE)

NowEmptyMutant(s) == TRUE   \* mutant: disable the backend on every unregister
NowEmpty(s) == s = <<>>

\* unregister: drop the entries, then disable the backend if none is left.
LockUnregister ==
  /\ jpc = "lock"
  /\ KnownType(Head(job.types))
  /\ ~job.enable
  /\ LockFree
  /\ servers' = Retain(servers)
  /\ IF NowEmpty(servers')
       THEN /\ lock' = "rpc"
            /\ jpc' = "backend"
            /\ todo' = <<"input", "output">>
            /\ UNCHANGED <<enabled, job, stopped, notifyVars, clientVars, loopVars>>
       ELSE /\ UNCHANGED <<lock, enabled>>
            /\ CallOver(TRUE)

\* internal_register: one direction, still under the lock.  After the last one
\* register pushes its entry.
InternalRegister ==
  /\ jpc = "backend"
  /\ todo # <<>>
  /\ enabled' = IF job.enable THEN enabled \cup {Head(todo)}
                              ELSE enabled \ {Head(todo)}
  /\ todo' = Tail(todo)
  /\ UNCHANGED <<servers, lock, jpc, job, stopped, notifyVars, clientVars, loopVars>>

InternalRegisterDone ==
  /\ jpc = "backend"
  /\ todo = <<>>
  /\ servers' = IF job.enable THEN Append(servers, [client |-> job.client,
                                                    devtype |-> Head(job.types)])
                              ELSE servers
  /\ lock' = None
  /\ UNCHANGED enabled
  /\ CallOver(TRUE)

LockAfterFailureMutant == lock   \* mutant: the early return leaves it locked
LockAfterFailure == None

\* The backend refuses: the manager returns early, with nothing pushed.
InternalRegisterFails ==
  /\ BackendFails
  /\ jpc = "backend"
  /\ todo # <<>>
  /\ lock' = LockAfterFailure
  /\ UNCHANGED <<servers, enabled>>
  /\ CallOver(FALSE)

\* The RPC thread ends: every CubebServer is gone, and the manager is dropped.
ServerStop ==
  /\ ~stopped
  /\ jpc = "idle"
  /\ lock = None
  /\ \A c \in Clients : alive[c] = "dropped"
  /\ stopped' = TRUE
  /\ UNCHANGED <<mgrVars, jobVars, notifyVars, clientVars, loopVars>>

-----------------------------------------------------------------------------
(* The backend's threads: device_collection_changed_callback.               *)

NotifyStart(d) ==
  /\ npc[d] = "idle"
  /\ d \in enabled
  /\ ~stopped
  /\ notes[d] < MaxNotes
  /\ notes' = [notes EXCEPT ![d] = @ + 1]
  /\ npc' = [npc EXCEPT ![d] = "lock"]
  /\ UNCHANGED <<mgrVars, stopped, jobVars, pos, told, clientVars, loopVars>>

NotifyLock(d) ==
  /\ npc[d] = "lock"
  /\ LockFree
  /\ lock' = d
  /\ npc' = [npc EXCEPT ![d] = "next"]
  /\ pos' = [pos EXCEPT ![d] = 1]
  /\ told' = [told EXCEPT ![d] = {}]
  /\ UNCHANGED <<servers, enabled, stopped, jobVars, notes, clientVars, loopVars>>

\* The entry at pos: skipped unless its device type contains d; a call to a
\* client that is gone returns an error, which is ignored.
NotifySkip(d) ==
  /\ npc[d] = "next"
  /\ pos[d] <= Len(servers)
  /\ \/ d \notin servers[pos[d]].devtype
     \/ alive[servers[pos[d]].client] # "live"
  /\ pos' = [pos EXCEPT ![d] = @ + 1]
  /\ UNCHANGED <<mgrVars, stopped, jobVars, npc, told, notes, clientVars, loopVars>>

NotifyCall(d) ==
  /\ npc[d] = "next"
  /\ pos[d] <= Len(servers)
  /\ LET c == servers[pos[d]].client IN
       /\ d \in servers[pos[d]].devtype
       /\ alive[c] = "live"
       /\ note' = [note EXCEPT ![c] = d]
       /\ told' = [told EXCEPT ![d] = @ \cup {c}]
  /\ npc' = [npc EXCEPT ![d] = "wait"]
  /\ UNCHANGED <<mgrVars, stopped, jobVars, pos, notes, clientVars, running>>

NotifyReply(d) ==
  /\ npc[d] = "wait"
  /\ \E c \in told[d] :
       /\ note[c] = "done"
       /\ note' = [note EXCEPT ![c] = None]
  /\ pos' = [pos EXCEPT ![d] = @ + 1]
  /\ npc' = [npc EXCEPT ![d] = "next"]
  /\ UNCHANGED <<mgrVars, stopped, jobVars, told, notes, clientVars, running>>

NotifyEnd(d) ==
  /\ npc[d] = "next"
  /\ pos[d] > Len(servers)
  /\ lock' = None
  /\ npc' = [npc EXCEPT ![d] = "idle"]
  /\ pos' = [pos EXCEPT ![d] = 0]
  /\ UNCHANGED <<servers, enabled, stopped, jobVars, told, notes, clientVars, loopVars>>

-----------------------------------------------------------------------------

RpcThread ==
  \/ \E c \in Clients : TakeRequest(c) \/ DropServer(c)
  \/ RejectUnknown
  \/ LockRegister
  \/ LockUnregister
  \/ InternalRegister
  \/ InternalRegisterDone
  \/ InternalRegisterFails

Notifier(d) ==
  \/ NotifyLock(d)
  \/ NotifySkip(d)
  \/ NotifyCall(d)
  \/ NotifyReply(d)
  \/ NotifyEnd(d)

ClientLoop(c) == CallbackBegin(c) \/ CallbackEnd(c)

AppThread(c) == Setup(c) \/ SetupFails(c) \/ SetCallbacks(c)

Next ==
  \/ RpcThread
  \/ ServerStop
  \/ \E d \in Dirs : NotifyStart(d) \/ Notifier(d)
  \/ \E c \in Clients :
       \/ \E D \in DevTypes, enable \in BOOLEAN : Register(c, D, enable)
       \/ AppThread(c)
       \/ ClientLoop(c)
       \/ ClientGone(c)

Spec == Init /\ [][Next]_vars

\* Every thread goes on as long as it can: user callbacks return, and so do
\* the backend's register functions.  Nobody has to register, to notify, to
\* disconnect or to stop.
Fairness ==
  /\ WF_vars(RpcThread)
  /\ \A d \in Dirs : WF_vars(Notifier(d))
  /\ \A c \in Clients : WF_vars(AppThread(c)) /\ WF_vars(ClientLoop(c))

FairSpec == Spec /\ Fairness

-----------------------------------------------------------------------------
(* Properties *)

Wants == [devtype : DevTypes \cup {{}}, enable : BOOLEAN]

\* Type correctness: in particular the manager never holds an entry for no
\* device type (process_register_device_collection_changed refuses UNKNOWN).
TypeOK ==
  /\ servers \in Seq([client : Clients, devtype : DevTypes \ {{}}])
  /\ lock \in Dirs \cup {None, "rpc"}
  /\ enabled \subseteq Dirs
  /\ stopped \in BOOLEAN
  /\ jpc \in {"idle", "lock", "backend"}
  /\ job \in [client : Clients \cup {None}, types : Seq(SUBSET Dirs),
              enable : BOOLEAN, drop : BOOLEAN]
  /\ todo \in Seq(Dirs)
  /\ npc \in [Dirs -> {"idle", "lock", "next", "wait"}]
  /\ pos \in [Dirs -> Nat]
  /\ told \in [Dirs -> SUBSET Clients]
  /\ notes \in [Dirs -> 0..MaxNotes]
  /\ alive \in [Clients -> {"live", "gone", "dropped"}]
  /\ setup \in [Clients -> {"none", "server", "both"}]
  /\ cpc \in [Clients -> {"idle", "setup", "set", "wait"}]
  /\ want \in [Clients -> Wants]
  /\ req \in [Clients -> SUBSET Wants]
  /\ regs \in [Clients -> 0..MaxRegs]
  /\ acked \in [Clients -> SUBSET DevTypes]
  /\ cbs \in [Clients -> [Dirs -> 0..MaxRegs]]
  /\ note \in [Clients -> Dirs \cup {None, "done"}]
  /\ running \in [Clients -> SUBSET [dir : Dirs, ptr : 0..MaxRegs]]

\* The user callback in progress is the registered one: once a registration
\* has replaced or removed a callback, its user_ptr is no longer in use.
\* (client/src/context.rs, DeviceCollectionServer::process holds the lock.)
CallbackCurrent ==
  \A c \in Clients : \A r \in running[c] : r.ptr = cbs[c][r.dir]

\* Whenever no thread holds the manager's lock, a registered client implies
\* that cubeb notifies the manager of both directions, whatever failed before.
EnabledWhenServers ==
  lock = None /\ servers # <<>> => enabled = Dirs

\* A registration that returned Ok has its entry until the client unregisters
\* that device type, other clients' calls and disconnects notwithstanding.
AckedRegistered ==
  \A c \in Clients : \A D \in acked[c] :
    \/ alive[c] # "live"
    \/ cpc[c] = "wait" /\ want[c] = [devtype |-> D, enable |-> FALSE]
    \/ \E i \in 1..Len(servers) : servers[i] = [client |-> c, devtype |-> D]

\* Only a client's own registration, in progress or over, puts an entry in
\* the manager, and none is left behind by a dropped CubebServer whose client
\* registered one direction at a time.
NoDeadEntry ==
  \A i \in 1..Len(servers) : alive[servers[i].client] # "dropped"

\* A notification reaches every connected client registered for its direction.
NotifyAll ==
  [][\A d \in Dirs : npc[d] = "next" /\ npc'[d] = "idle" =>
       \A i \in 1..Len(servers) :
         d \in servers[i].devtype /\ alive[servers[i].client] = "live"
           => servers[i].client \in told[d]]_vars

\* Every registration returns to the application, or its process ends.
RegisterReturns ==
  \A c \in Clients : cpc[c] # "idle" ~> cpc[c] = "idle"

\* Every notification returns to the backend: neither a client that dies in
\* its callback nor a registration waiting for the lock blocks it for ever.
NotifyReturns ==
  \A d \in Dirs : npc[d] # "idle" ~> npc[d] = "idle"

\* Applications and backend, which wait for the same two locks and for each
\* other's answers, never block each other for ever.
ThreadsReturn == RegisterReturns /\ NotifyReturns

\* The assertion of CubebDeviceCollectionManager::drop: nothing is registered
\* any more when the server's RPC thread drops its manager.
ManagerEmptyAtDrop == stopped => servers = <<>>

=============================================================================
