----------------------- MODULE DeviceCollectionProofs -----------------------
(***************************************************************************)
(* Proofs about DeviceCollection: for any number of clients, registrations *)
(* and notifications, any set of device types and any backend failures.    *)
(*                                                                         *)
(* The inductive invariant, DeviceInv, says who holds the manager's mutex, *)
(* which request the RPC thread is working for and what its client is      *)
(* waiting for meanwhile, and how far a notification has got.              *)
(***************************************************************************)
EXTENDS DeviceCollection, FiniteSetTheorems, WellFoundedInduction, TLAPS

Entry(c, D) == [client |-> c, devtype |-> D]

\* The mutex of `servers` belongs to the thread that is inside it.
LockOK ==
  /\ lock = "rpc" <=> jpc = "backend"
  /\ \A d \in Dirs : lock = d <=> npc[d] \in {"next", "wait"}

\* A request at the server is the one its client waits for.
ReqOK ==
  \A c \in Clients :
    /\ req[c] # {} =>
         /\ alive[c] # "dropped"
         /\ setup[c] # "none"
         /\ alive[c] = "live" => cpc[c] = "wait" /\ req[c] = {want[c]}
    /\ cpc[c] \in {"set", "wait"} => setup[c] = "both"

\* A request the RPC thread works for came from a set-up connection and is
\* the one its client, if still there, waits for.
RequestJob ==
  LET c == job.client IN
  /\ Len(job.types) = 1
  /\ Head(job.types) \in DevTypes \cup {{}}
  /\ alive[c] # "dropped"
  /\ alive[c] = "live" =>
       cpc[c] = "wait" /\ want[c] = [devtype |-> Head(job.types), enable |-> job.enable]

\* A CubebServer being dropped: what is left of its two unregister calls.
DropJob ==
  /\ alive[job.client] = "gone"
  /\ ~job.enable
  /\ job.types \in {DroppedTypes, Tail(DroppedTypes)}

JobOK ==
  jpc # "idle" =>
    /\ job.client \in Clients
    /\ setup[job.client] # "none"
    /\ req[job.client] = {}
    /\ ~job.drop => RequestJob
    /\ job.drop => DropJob

\* Inside internal_register: the list is empty, and the directions that are
\* not yet registered are still to do.
BackendOK ==
  jpc = "backend" =>
    /\ Head(job.types) # {}
    /\ servers = <<>>
    /\ job.enable => \A d \in Dirs : d \in enabled \/ \E i \in 1..Len(todo) : todo[i] = d

\* cubeb notifies the manager of both directions while an entry is left,
\* whoever holds the lock.
EnabledOK == servers # <<>> => enabled = Dirs

\* A notification has told every connected client it has passed.
NotifyOK ==
  \A d \in Dirs :
    npc[d] \in {"next", "wait"} =>
      /\ pos[d] >= 1
      /\ \A i \in 1..Len(servers) :
           /\ i < pos[d]
           /\ d \in servers[i].devtype
           /\ alive[servers[i].client] = "live"
           => servers[i].client \in told[d]
      /\ npc[d] = "wait" =>
           /\ pos[d] <= Len(servers)
           /\ servers[pos[d]].client \in told[d]

DeviceInv ==
  /\ TypeOK
  /\ LockOK
  /\ ReqOK
  /\ JobOK
  /\ BackendOK
  /\ EnabledOK
  /\ NotifyOK
  /\ CallbackCurrent
  /\ AckedRegistered

\* No client registers both directions in one call.
OneDirection == DevTypes \subseteq {{}, {"input"}, {"output"}}

\* An entry's CubebServer is set up, and the part of its drop that is done
\* has removed the INPUT entries.
EntriesOK ==
  /\ \A i \in 1..Len(servers) : setup[servers[i].client] # "none"
  /\ jpc # "idle" /\ job.drop /\ Len(job.types) = 1 =>
       \A i \in 1..Len(servers) : servers[i] # Entry(job.client, {"input"})

\* The manager is dropped with the last CubebServer.
StoppedOK == stopped => \A c \in Clients : alive[c] = "dropped"

-----------------------------------------------------------------------------
(* Vec::retain *)

\* A non-empty set of naturals has a least element.
LEMMA NatMin ==
  ASSUME NEW T, T \subseteq Nat, T # {}
  PROVE  \E x \in T : \A y \in T : ~(y < x)
<1>1. IsWellFoundedOn(OpToRel(<, Nat), Nat)
  BY NatLessThanWellFounded
<1>2. \E x \in T : \A y \in T : ~(<<y, x>> \in OpToRel(<, Nat))
  BY <1>1, WFMin
<1> QED
  BY <1>2 DEF OpToRel

\* f[n] is what retain keeps of the first n entries of s, for n up to m.
IsKept(f, s, m) ==
  f = [n \in 0..m |->
        IF n = 0 THEN <<>>
        ELSE IF Retained(s[n]) THEN Append(f[n - 1], s[n]) ELSE f[n - 1]]

\* The recursive function of Retain is defined on the whole of s.
LEMMA KeptExists ==
  ASSUME NEW s, NEW m \in Nat
  PROVE  \E f : IsKept(f, s, m)
<1> DEFINE T == {n \in Nat : ~\E f : IsKept(f, s, n)}
<1>1. SUFFICES T = {}
  BY DEF T
<1>2. SUFFICES ASSUME T # {} PROVE FALSE
  OBVIOUS
<1>3. PICK n \in T : \A k \in T : ~(k < n)
  BY <1>2, NatMin
<1>4. CASE n = 0
  <2>1. IsKept([k \in 0..0 |-> <<>>], s, 0)
    BY DEF IsKept
  <2> QED
    BY <2>1, <1>4, <1>3
<1>5. CASE n # 0
  <2>1. n \in Nat /\ n - 1 \in Nat /\ n - 1 \notin T
    BY <1>3, <1>5
  <2>2. PICK f : IsKept(f, s, n - 1)
    BY <2>1
  <2> DEFINE g == [k \in 0..n |->
                     IF k < n THEN f[k]
                     ELSE IF Retained(s[n]) THEN Append(f[n - 1], s[n])
                     ELSE f[n - 1]]
  <2>3. IsKept(g, s, n)
    <3>1. \A k \in 0..n - 1 : g[k] = f[k]
      BY <2>1
    <3>2. ASSUME NEW k \in 0..n
          PROVE  g[k] = IF k = 0 THEN <<>>
                        ELSE IF Retained(s[k]) THEN Append(g[k - 1], s[k])
                        ELSE g[k - 1]
      <4>1. CASE k < n
        <5>1. k \in 0..n - 1 /\ (k # 0 => k - 1 \in 0..n - 1)
          BY <4>1, <2>1
        <5>2. f[k] = IF k = 0 THEN <<>>
                     ELSE IF Retained(s[k]) THEN Append(f[k - 1], s[k])
                     ELSE f[k - 1]
          BY <5>1, <2>2, <2>1 DEF IsKept
        <5> QED
          BY <5>1, <5>2, <3>1
      <4>2. CASE k = n
        <5>1. g[n - 1] = f[n - 1]
          BY <3>1, <2>1
        <5> QED
          BY <4>2, <5>1, <2>1, <1>5
      <4> QED
        BY <4>1, <4>2, <2>1
    <3> QED
      BY <3>2 DEF IsKept
  <2> QED
    BY <2>3, <1>3
<1> QED
  BY <1>4, <1>5

\* Retain keeps of s just the entries that are Retained.
LEMMA RetainKeeps ==
  ASSUME NEW M, NEW s \in Seq(M)
  PROVE  /\ Retain(s) \in Seq(M)
         /\ \A i \in 1..Len(Retain(s)) :
              Retained(Retain(s)[i]) /\ \E j \in 1..Len(s) : s[j] = Retain(s)[i]
         /\ \A j \in 1..Len(s) :
              Retained(s[j]) => \E i \in 1..Len(Retain(s)) : Retain(s)[i] = s[j]
<1> DEFINE k == CHOOSE f : IsKept(f, s, Len(s))
<1>1. Len(s) \in Nat
  OBVIOUS
<1>2. IsKept(k, s, Len(s))
  BY <1>1, KeptExists
<1>3. Retain(s) = k[Len(s)]
  BY DEF Retain, IsKept
<1> DEFINE Good(n) ==
      /\ k[n] \in Seq(M)
      /\ \A i \in 1..Len(k[n]) :
           Retained(k[n][i]) /\ \E j \in 1..n : s[j] = k[n][i]
      /\ \A j \in 1..n : Retained(s[j]) => \E i \in 1..Len(k[n]) : k[n][i] = s[j]
<1> DEFINE T == {n \in 0..Len(s) : ~Good(n)}
<1>4. T = {}
  <2>1. SUFFICES ASSUME T # {} PROVE FALSE
    OBVIOUS
  <2>2. T \subseteq Nat
    OBVIOUS
  <2>3. PICK n \in T : \A l \in T : ~(l < n)
    BY <2>1, <2>2, NatMin
  <2>4. Good(n)
    <3>0. n \in 0..Len(s)
      OBVIOUS
    <3>1. CASE n = 0
      <4> HIDE DEF k
      <4>0. 0 \in 0..Len(s)
        BY <1>1
      <4>1. k[0] = <<>>
        BY <1>2, <4>0 DEF IsKept
      <4> QED
        BY <3>1, <4>1
    <3>2. CASE n # 0
      <4>1. n - 1 \in 0..Len(s) /\ n - 1 < n /\ n - 1 + 1 = n
        BY <3>0, <3>2, <1>1
      <4>2. Good(n - 1)
        BY <4>1, <2>3
      <4>3. k[n] = IF Retained(s[n]) THEN Append(k[n - 1], s[n]) ELSE k[n - 1]
        BY <1>2, <3>0, <3>2 DEF IsKept
      <4>4. s[n] \in M
        BY <3>0, <3>2
      <4> DEFINE p == k[n - 1]
                 q == k[n]
      <4>5. p \in Seq(M)
        BY <4>2
      <4> HIDE DEF k
      <4>6. \A j \in 1..n : j = n \/ j \in 1..n - 1
        BY <3>0, <1>1
      <4>6a. \A j \in 1..n - 1 : j \in 1..n
        BY <3>0, <1>1
      <4>7. CASE Retained(s[n])
        <5>1. q = Append(p, s[n])
          BY <4>3, <4>7
        <5>2. /\ q \in Seq(M)
              /\ Len(q) = Len(p) + 1
              /\ q[Len(p) + 1] = s[n]
              /\ \A i \in 1..Len(p) : q[i] = p[i]
          BY <5>1, <4>4, <4>5
        <5>3. Len(p) \in Nat /\ n \in 1..n
          BY <4>5, <3>0, <3>2, <1>1
        <5>4. ASSUME NEW i \in 1..Len(q)
              PROVE  Retained(q[i]) /\ \E j \in 1..n : s[j] = q[i]
          <6>1. CASE i = Len(p) + 1
            BY <6>1, <5>2, <5>3, <4>7
          <6>2. CASE i \in 1..Len(p)
            BY <6>2, <5>2, <4>2, <4>6a
          <6> QED
            BY <6>1, <6>2, <5>2, <5>3
        <5>5. ASSUME NEW j \in 1..n, Retained(s[j])
              PROVE  \E i \in 1..Len(q) : q[i] = s[j]
          <6>1. CASE j = n
            BY <6>1, <5>2, <5>3
          <6>2. CASE j \in 1..n - 1
            <7>1. PICK i \in 1..Len(p) : p[i] = s[j]
              BY <6>2, <5>5, <4>2
            <7> QED
              BY <7>1, <5>2, <5>3
          <6> QED
            BY <6>1, <6>2, <4>6
        <5> QED
          BY <5>2, <5>4, <5>5
      <4>8. CASE ~Retained(s[n])
        <5>1. q = p
          BY <4>3, <4>8
        <5>2. \A j \in 1..n : Retained(s[j]) => j \in 1..n - 1
          BY <4>6, <4>8
        <5> QED
          BY <5>1, <5>2, <4>2, <4>6a
      <4> QED
        BY <4>7, <4>8
    <3> QED
      BY <3>1, <3>2
  <2> QED
    BY <2>4
<1>5. Good(Len(s))
  BY <1>4, <1>1
<1> QED
  BY <1>5, <1>3

-----------------------------------------------------------------------------
(* Type correctness *)

Entries == [client : Clients, devtype : DevTypes \ {{}}]

\* A sequence is still one with an element more, or without its head.
LEMMA AppendTail ==
  ASSUME NEW M
  PROVE  /\ \A s \in Seq(M), e \in M : Append(s, e) \in Seq(M)
         /\ \A s \in Seq(M) : Len(s) >= 1 => Head(s) \in M /\ Tail(s) \in Seq(M)
         /\ \A s \in Seq(M) : s # <<>> => Len(s) >= 1
  OBVIOUS

\* The new entry of a registration is one the manager accepts.
LEMMA NewEntry ==
  ASSUME TypeOK, JobOK, jpc # "idle", job.enable, KnownType(Head(job.types))
  PROVE  [client |-> job.client, devtype |-> Head(job.types)] \in Entries
<1>1. job \in [client : Clients \cup {None}, types : Seq(SUBSET Dirs),
               enable : BOOLEAN, drop : BOOLEAN]
  BY DEF TypeOK
<1>2. ~job.drop
  BY <1>1 DEF JobOK, DropJob
<1> QED
  BY <1>1, <1>2 DEF JobOK, RequestJob, KnownType, Entries

\* CallOver keeps the types of what it changes.
LEMMA CallOverType ==
  ASSUME NEW ok \in BOOLEAN, TypeOK, JobOK, jpc # "idle", CallOver(ok),
         ok => KnownType(Head(job.types))
  PROVE  /\ jpc' \in {"idle", "lock", "backend"}
         /\ job' \in [client : Clients \cup {None}, types : Seq(SUBSET Dirs),
                      enable : BOOLEAN, drop : BOOLEAN]
         /\ todo' \in Seq(Dirs)
         /\ alive' \in [Clients -> {"live", "gone", "dropped"}]
         /\ cpc' \in [Clients -> {"idle", "setup", "set", "wait"}]
         /\ want' \in [Clients -> Wants]
         /\ acked' \in [Clients -> SUBSET DevTypes]
<1> USE DeviceCollectionAssumption
<1>1. job \in [client : Clients \cup {None}, types : Seq(SUBSET Dirs),
               enable : BOOLEAN, drop : BOOLEAN]
  BY DEF TypeOK
<1>2. CASE Len(job.types) > 1
  <2>1. /\ job' = [job EXCEPT !.types = Tail(@)]
        /\ jpc' = "lock" /\ todo' = <<>>
        /\ UNCHANGED <<alive, cpc, want, acked>>
    BY <1>2 DEF CallOver
  <2>2. Tail(job.types) \in Seq(SUBSET Dirs)
    BY <1>1, <1>2, AppendTail
  <2>3. job' \in [client : Clients \cup {None}, types : Seq(SUBSET Dirs),
                  enable : BOOLEAN, drop : BOOLEAN]
    BY <1>1, <2>1, <2>2
  <2> QED
    BY <2>1, <2>3 DEF TypeOK
<1>3. CASE ~(Len(job.types) > 1)
  <2>1. jpc' = "idle" /\ todo' = <<>> /\ job' = NoJob
    BY <1>3 DEF CallOver, JobOver
  <2>2. NoJob \in [client : Clients \cup {None}, types : Seq(SUBSET Dirs),
                   enable : BOOLEAN, drop : BOOLEAN]
    BY DEF NoJob
  <2>3. CASE job.drop
    <3>1. /\ alive' = [alive EXCEPT ![job.client] = "dropped"]
          /\ UNCHANGED <<cpc, want, acked>>
      BY <1>3, <2>3 DEF CallOver
    <3>2. alive' \in [Clients -> {"live", "gone", "dropped"}]
      BY <3>1 DEF TypeOK
    <3>3. /\ cpc' \in [Clients -> {"idle", "setup", "set", "wait"}]
          /\ want' \in [Clients -> Wants]
          /\ acked' \in [Clients -> SUBSET DevTypes]
      BY <3>1 DEF TypeOK
    <3> QED
      BY <2>1, <2>2, <3>2, <3>3, AppendTail
  <2>4. CASE ~job.drop
    <3>1. Answer(job.client, ok) /\ UNCHANGED alive
      BY <1>3, <2>4 DEF CallOver
    <3>2. ok => Head(job.types) \in DevTypes
      BY <2>4 DEF JobOK, RequestJob, KnownType
    <3>3. alive' \in [Clients -> {"live", "gone", "dropped"}]
      BY <3>1 DEF TypeOK
    <3>4. NoWant \in Wants
      BY DEF NoWant, Wants
    <3>5. /\ cpc' \in [Clients -> {"idle", "setup", "set", "wait"}]
          /\ want' \in [Clients -> Wants]
      BY <3>1, <3>4 DEF TypeOK, Answer
    <3>6. acked' \in [Clients -> SUBSET DevTypes]
      <4> DEFINE a == acked[job.client]
                 h == Head(job.types)
                 v == IF ~job.enable THEN a \ {h} ELSE IF ok THEN a \cup {h} ELSE a
      <4>1. acked' = [acked EXCEPT ![job.client] = v]
        BY <3>1 DEF Answer
      <4>2. acked \in [Clients -> SUBSET DevTypes] /\ job.client \in Clients
        BY DEF TypeOK, JobOK
      <4>3. v \subseteq DevTypes
        BY <4>2, <3>2
      <4> QED
        BY <4>1, <4>2, <4>3
    <3> QED
      BY <2>1, <2>2, <3>3, <3>5, <3>6, AppendTail
  <2> QED
    BY <1>1, <2>3, <2>4
<1> QED
  BY <1>1, <1>2, <1>3

\* Every action keeps the types.
LEMMA TypeStep ==
  ASSUME TypeOK, JobOK, BackendOK, NotifyOK, [Next]_vars
  PROVE  TypeOK'
<1> USE DeviceCollectionAssumption
<1>0. job \in [client : Clients \cup {None}, types : Seq(SUBSET Dirs),
               enable : BOOLEAN, drop : BOOLEAN]
  BY DEF TypeOK
<1>a. todo \in Seq(Dirs) /\ servers \in Seq(Entries)
  BY DEF TypeOK, Entries
<1>b. <<"input", "output">> \in Seq(Dirs)
  BY DEF Dirs
<1>1. CASE UNCHANGED vars
  BY <1>1 DEF TypeOK, vars, mgrVars, jobVars, notifyVars, clientVars, loopVars
<1>2. ASSUME NEW c \in Clients, TakeRequest(c)
      PROVE  TypeOK'
  <2>1. PICK w \in req[c] :
          job' = [client |-> c, types |-> <<w.devtype>>, enable |-> w.enable,
                  drop |-> FALSE]
    BY <1>2 DEF TakeRequest
  <2>a. req \in [Clients -> SUBSET Wants]
    BY DEF TypeOK
  <2>b. w \in Wants
    BY <2>a
  <2>2. w.devtype \in SUBSET Dirs /\ w.enable \in BOOLEAN
    BY <2>b DEF Wants
  <2>3. job' \in [client : Clients \cup {None}, types : Seq(SUBSET Dirs),
                  enable : BOOLEAN, drop : BOOLEAN]
    BY <2>1, <2>2
  <2>4. req' \in [Clients -> SUBSET Wants]
    BY <1>2 DEF TakeRequest, TypeOK
  <2>5. jpc' = "lock" /\ UNCHANGED <<mgrVars, stopped, todo, notifyVars, alive, setup,
                                     cpc, want, regs, acked, cbs, loopVars>>
    BY <1>2 DEF TakeRequest
  <2> QED
    BY <2>3, <2>4, <2>5 DEF TypeOK, mgrVars, notifyVars, loopVars
<1>3. ASSUME NEW c \in Clients, DropServer(c)
      PROVE  TypeOK'
  <2>1. UNCHANGED <<mgrVars, stopped, todo, notifyVars, setup, cpc, want, req,
                    regs, acked, cbs, loopVars>>
    BY <1>3 DEF DropServer
  <2>2. alive' \in [Clients -> {"live", "gone", "dropped"}]
    <3>1. alive' = alive \/ alive' = [alive EXCEPT ![c] = "dropped"]
      BY <1>3 DEF DropServer
    <3>2. alive \in [Clients -> {"live", "gone", "dropped"}]
      BY DEF TypeOK
    <3>3. CASE alive' = alive
      BY <3>2, <3>3
    <3>4. CASE alive' = [alive EXCEPT ![c] = "dropped"]
      BY <3>2, <3>4
    <3> QED
      BY <3>1, <3>3, <3>4
  <2>4. DroppedTypes \in Seq(SUBSET Dirs)
    BY DEF DroppedTypes, Dirs
  <2> DEFINE dropped == [client |-> c, types |-> DroppedTypes, enable |-> FALSE,
                         drop |-> TRUE]
  <2>5. dropped \in [client : Clients \cup {None}, types : Seq(SUBSET Dirs),
                     enable : BOOLEAN, drop : BOOLEAN]
    BY <2>4
  <2>6. \/ job' = dropped /\ jpc' = "lock"
        \/ job' = job /\ jpc' = jpc
    BY <1>3 DEF DropServer
  <2>7. jpc \in {"idle", "lock", "backend"}
    BY DEF TypeOK
  <2> HIDE DEF dropped
  <2>8. /\ job' \in [client : Clients \cup {None}, types : Seq(SUBSET Dirs),
                     enable : BOOLEAN, drop : BOOLEAN]
        /\ jpc' \in {"idle", "lock", "backend"}
    BY <2>5, <2>6, <2>7, <1>0
  <2> QED
    BY <2>1, <2>2, <2>8 DEF TypeOK, mgrVars, notifyVars, loopVars
<1> DEFINE Over == \E ok \in BOOLEAN :
                     CallOver(ok) /\ (ok => KnownType(Head(job.types)))
<1>4. ASSUME Over, jpc # "idle", servers' \in Seq(Entries),
             lock' \in Dirs \cup {None, "rpc"}, enabled' \subseteq Dirs
      PROVE  TypeOK'
  <2>1. PICK ok \in BOOLEAN : CallOver(ok) /\ (ok => KnownType(Head(job.types)))
    BY <1>4
  <2>2. UNCHANGED <<stopped, notifyVars, setup, req, regs, cbs, loopVars>>
    BY <2>1 DEF CallOver
  <2> HIDE DEF Over
  <2> QED
    BY <1>4, <2>1, <2>2, CallOverType DEF TypeOK, notifyVars, loopVars, Entries
<1>5. CASE RejectUnknown
  BY <1>5, <1>4, <1>a DEF RejectUnknown, mgrVars, TypeOK
<1>6. CASE LockRegister
  <2>1. jpc = "lock" /\ KnownType(Head(job.types)) /\ job.enable
    BY <1>6 DEF LockRegister
  <2>2. CASE servers = <<>>
    <3>1. /\ lock' = "rpc" /\ jpc' = "backend" /\ todo' = <<"input", "output">>
          /\ UNCHANGED <<servers, enabled, job, stopped, notifyVars, clientVars, loopVars>>
      BY <1>6, <2>2 DEF LockRegister
    <3> QED
      BY <3>1, <1>b DEF TypeOK, notifyVars, clientVars, loopVars
  <2>3. CASE servers # <<>>
    <3>1. /\ servers' = Append(servers, [client |-> job.client,
                                         devtype |-> Head(job.types)])
          /\ UNCHANGED <<lock, enabled>>
          /\ CallOver(TRUE)
      BY <1>6, <2>3 DEF LockRegister
    <3>2. servers' \in Seq(Entries)
      BY <3>1, <2>1, <1>a, NewEntry, AppendTail
    <3> QED
      BY <1>4, <2>1, <3>1, <3>2 DEF TypeOK
  <2> QED
    BY <2>2, <2>3
<1>7. CASE LockUnregister
  <2>1. /\ jpc = "lock" /\ KnownType(Head(job.types)) /\ servers' = Retain(servers)
        /\ enabled' = enabled
    BY <1>7 DEF LockUnregister
  <2>2. servers' \in Seq(Entries)
    BY <2>1, <1>a, RetainKeeps
  <2>3. CASE NowEmpty(servers')
    <3>1. /\ lock' = "rpc" /\ jpc' = "backend" /\ todo' = <<"input", "output">>
          /\ UNCHANGED <<enabled, job, stopped, notifyVars, clientVars, loopVars>>
      BY <1>7, <2>3 DEF LockUnregister
    <3> QED
      BY <3>1, <2>2, <1>b DEF TypeOK, notifyVars, clientVars, loopVars, Entries
  <2>4. CASE ~NowEmpty(servers')
    <3>1. UNCHANGED <<lock, enabled>> /\ CallOver(TRUE)
      BY <1>7, <2>4 DEF LockUnregister
    <3> QED
      BY <1>4, <2>1, <2>2, <3>1 DEF TypeOK
  <2> QED
    BY <2>3, <2>4
<1>8. CASE InternalRegister
  <2>1. /\ todo # <<>>
        /\ enabled' = IF job.enable THEN enabled \cup {Head(todo)}
                      ELSE enabled \ {Head(todo)}
        /\ todo' = Tail(todo)
        /\ UNCHANGED <<servers, lock, jpc, job, stopped, notifyVars, clientVars, loopVars>>
    BY <1>8 DEF InternalRegister
  <2>2. Head(todo) \in Dirs /\ todo' \in Seq(Dirs)
    BY <2>1, <1>a, AppendTail
  <2>3. enabled' \subseteq Dirs
    BY <2>1, <2>2 DEF TypeOK
  <2> QED
    BY <2>1, <2>2, <2>3 DEF TypeOK, notifyVars, clientVars, loopVars
<1>9. CASE InternalRegisterDone
  <2>1. /\ jpc = "backend" /\ lock' = None /\ enabled' = enabled /\ CallOver(TRUE)
        /\ servers' = IF job.enable
                      THEN Append(servers, [client |-> job.client,
                                            devtype |-> Head(job.types)])
                      ELSE servers
    BY <1>9 DEF InternalRegisterDone
  <2>2. KnownType(Head(job.types))
    BY <2>1 DEF BackendOK, KnownType
  <2>3. servers' \in Seq(Entries)
    BY <2>1, <2>2, <1>a, NewEntry, AppendTail
  <2> QED
    BY <1>4, <2>1, <2>2, <2>3 DEF TypeOK
<1>10. CASE InternalRegisterFails
  BY <1>10, <1>4, <1>a DEF InternalRegisterFails, LockAfterFailure, TypeOK
<1>11. CASE ServerStop
  BY <1>11 DEF ServerStop, TypeOK, mgrVars, jobVars, notifyVars, clientVars, loopVars
<1>12. ASSUME NEW d \in Dirs, NotifyStart(d) \/ Notifier(d)
       PROVE  TypeOK'
  <2>1. UNCHANGED <<servers, enabled, stopped, jobVars, clientVars, running>>
    BY <1>12 DEF NotifyStart, Notifier, NotifyLock, NotifySkip, NotifyCall,
                 NotifyReply, NotifyEnd, mgrVars, loopVars
  <2>2. CASE NotifyStart(d)
    BY <2>1, <2>2 DEF NotifyStart, TypeOK, mgrVars, jobVars, clientVars, loopVars
  <2>3. CASE NotifyLock(d)
    BY <2>1, <2>3 DEF NotifyLock, TypeOK, jobVars, clientVars, loopVars
  <2>4. CASE NotifySkip(d)
    <3>1. pos' = [pos EXCEPT ![d] = @ + 1]
      BY <2>4 DEF NotifySkip
    <3>2. pos' \in [Dirs -> Nat]
      BY <3>1 DEF TypeOK
    <3>3. UNCHANGED <<mgrVars, npc, told, notes, loopVars>>
      BY <2>4 DEF NotifySkip
    <3>4. UNCHANGED <<servers, lock, enabled, stopped, jpc, job, todo, npc, told, notes, alive,
                      setup, cpc, want, req, regs, acked, cbs, note, running>>
      BY <2>1, <3>3 DEF mgrVars, jobVars, clientVars, loopVars
    <3> QED
      BY <3>2, <3>4 DEF TypeOK
  <2>5. CASE NotifyCall(d)
    <3> DEFINE c == servers[pos[d]].client
    <3>1. /\ pos[d] <= Len(servers)
          /\ alive[c] = "live"
          /\ note' = [note EXCEPT ![c] = d]
          /\ told' = [told EXCEPT ![d] = @ \cup {c}]
          /\ npc' = [npc EXCEPT ![d] = "wait"]
          /\ UNCHANGED <<mgrVars, pos, notes>>
      BY <2>5 DEF NotifyCall
    <3>2. npc[d] = "next"
      BY <2>5 DEF NotifyCall
    <3>3. pos[d] \in 1..Len(servers)
      BY <3>1, <3>2, <1>a DEF NotifyOK, TypeOK
    <3>4. c \in Clients
      <4>1. servers[pos[d]] \in Entries
        BY <3>3, <1>a
      <4> QED
        BY <4>1 DEF Entries
    <3> HIDE DEF c
    <3>5. told' \in [Dirs -> SUBSET Clients]
      BY <3>1, <3>4 DEF TypeOK
    <3>6. note' \in [Clients -> Dirs \cup {None, "done"}]
      BY <3>1, <3>4 DEF TypeOK
    <3>7. npc' \in [Dirs -> {"idle", "lock", "next", "wait"}]
      BY <3>1 DEF TypeOK
    <3> QED
      BY <2>1, <3>1, <3>5, <3>6, <3>7 DEF TypeOK, mgrVars, jobVars, clientVars
  <2>6. CASE NotifyReply(d)
    <3>1. /\ npc' = [npc EXCEPT ![d] = "next"]
          /\ pos' = [pos EXCEPT ![d] = @ + 1]
          /\ UNCHANGED <<mgrVars, told, notes>>
          /\ \E c \in told[d] : note' = [note EXCEPT ![c] = None]
      BY <2>6 DEF NotifyReply
    <3>2. npc' \in [Dirs -> {"idle", "lock", "next", "wait"}]
      BY <3>1 DEF TypeOK
    <3>3. pos' \in [Dirs -> Nat]
      BY <3>1 DEF TypeOK
    <3>4. note' \in [Clients -> Dirs \cup {None, "done"}]
      BY <3>1 DEF TypeOK
    <3>5. UNCHANGED <<servers, lock, enabled, stopped, jpc, job, todo, told, notes, alive, setup,
                      cpc, want, req, regs, acked, cbs, running>>
      BY <2>1, <3>1 DEF mgrVars, jobVars, clientVars
    <3> QED
      BY <3>2, <3>3, <3>4, <3>5 DEF TypeOK
  <2>7. CASE NotifyEnd(d)
    BY <2>1, <2>7 DEF NotifyEnd, TypeOK, mgrVars, jobVars, clientVars, loopVars
  <2> QED
    BY <1>12, <2>2, <2>3, <2>4, <2>5, <2>6, <2>7 DEF Notifier
<1>13. ASSUME NEW c \in Clients, NEW D \in DevTypes, NEW enable \in BOOLEAN,
              Register(c, D, enable)
       PROVE  TypeOK'
  <2>1. /\ regs[c] < MaxRegs
        /\ regs' = [regs EXCEPT ![c] = @ + 1]
        /\ want' = [want EXCEPT ![c] = [devtype |-> D, enable |-> enable]]
        /\ cpc' = [cpc EXCEPT ![c] = IF setup[c] = "both" THEN "set" ELSE "setup"]
        /\ UNCHANGED <<mgrVars, stopped, jobVars, notifyVars, alive, setup, req,
                       acked, cbs, loopVars>>
    BY <1>13 DEF Register
  <2>2. regs' \in [Clients -> 0..MaxRegs]
    BY <2>1 DEF TypeOK
  <2>3. [devtype |-> D, enable |-> enable] \in Wants
    BY DEF Wants
  <2>4. want' \in [Clients -> Wants]
    BY <2>1, <2>3 DEF TypeOK
  <2>5. cpc' \in [Clients -> {"idle", "setup", "set", "wait"}]
    BY <2>1 DEF TypeOK
  <2> QED
    BY <2>1, <2>2, <2>4, <2>5 DEF TypeOK, mgrVars, jobVars, notifyVars, loopVars
<1>14. ASSUME NEW c \in Clients, AppThread(c) \/ ClientGone(c)
       PROVE  TypeOK'
  <2>1. UNCHANGED <<mgrVars, stopped, jobVars, notifyVars>>
    BY <1>14 DEF AppThread, Setup, SetupFails, SetCallbacks, ClientGone
  <2>2. CASE Setup(c)
    <3>1. /\ setup' = [setup EXCEPT ![c] = "both"]
          /\ cpc' = [cpc EXCEPT ![c] = "set"]
          /\ UNCHANGED <<alive, want, req, regs, acked, cbs, loopVars>>
      BY <2>2 DEF Setup
    <3> QED
      BY <2>1, <3>1 DEF TypeOK, mgrVars, jobVars, notifyVars, loopVars
  <2>3. CASE SetupFails(c)
    <3>1. NoWant \in Wants
      BY DEF NoWant, Wants
    <3>a. PICK v \in {setup[c], "server"} : setup' = [setup EXCEPT ![c] = v]
      BY <2>3 DEF SetupFails
    <3>b. v \in {"none", "server", "both"}
      BY DEF TypeOK
    <3>2. setup' \in [Clients -> {"none", "server", "both"}]
      BY <3>a, <3>b DEF TypeOK
    <3>3. /\ cpc' = [cpc EXCEPT ![c] = "idle"]
          /\ want' = [want EXCEPT ![c] = NoWant]
          /\ UNCHANGED <<alive, req, regs, acked, cbs, loopVars>>
      BY <2>3 DEF SetupFails
    <3> QED
      BY <2>1, <3>1, <3>2, <3>3 DEF TypeOK, mgrVars, jobVars, notifyVars, loopVars
  <2>4. CASE SetCallbacks(c)
    <3>1. cbs' \in [Clients -> [Dirs -> 0..MaxRegs]]
      BY <2>4 DEF SetCallbacks, TypeOK
    <3>2. req' \in [Clients -> SUBSET Wants]
      BY <2>4 DEF SetCallbacks, TypeOK
    <3>3. /\ cpc' = [cpc EXCEPT ![c] = "wait"]
          /\ UNCHANGED <<alive, setup, want, regs, acked, loopVars>>
      BY <2>4 DEF SetCallbacks
    <3> QED
      BY <2>1, <3>1, <3>2, <3>3 DEF TypeOK, mgrVars, jobVars, notifyVars, loopVars
  <2>5. CASE ClientGone(c)
    <3>1. NoWant \in Wants
      BY DEF NoWant, Wants
    <3> QED
      BY <2>1, <2>5, <3>1
      DEF ClientGone, Abandoned, TypeOK, mgrVars, jobVars, notifyVars
  <2> QED
    BY <1>14, <2>2, <2>3, <2>4, <2>5 DEF AppThread
<1>15. ASSUME NEW c \in Clients, ClientLoop(c)
       PROVE  TypeOK'
  <2>1. UNCHANGED <<mgrVars, stopped, jobVars, notifyVars, clientVars>>
    BY <1>15 DEF ClientLoop, CallbackBegin, CallbackEnd
  <2> DEFINE R == [dir : Dirs, ptr : 0..MaxRegs]
  <2>a. /\ running \in [Clients -> SUBSET R]
        /\ note \in [Clients -> Dirs \cup {None, "done"}]
        /\ cbs \in [Clients -> [Dirs -> 0..MaxRegs]]
    BY DEF TypeOK
  <2>2. CASE CallbackBegin(c)
    <3>1. [dir |-> note[c], ptr |-> cbs[c][note[c]]] \in R
      BY <2>2, <2>a DEF CallbackBegin
    <3> HIDE DEF R
    <3>2. running' \in [Clients -> SUBSET R] /\ note' = note
      BY <2>2, <2>a, <3>1 DEF CallbackBegin
    <3> QED
      BY <2>1, <3>2 DEF R, TypeOK, mgrVars, jobVars, notifyVars, clientVars
  <2>3. CASE CallbackEnd(c)
    <3> HIDE DEF R
    <3>1. running' \in [Clients -> SUBSET R]
      BY <2>3, <2>a DEF CallbackEnd
    <3>2. note' \in [Clients -> Dirs \cup {None, "done"}]
      BY <2>3, <2>a DEF CallbackEnd
    <3> QED
      BY <2>1, <3>1, <3>2 DEF R, TypeOK, mgrVars, jobVars, notifyVars, clientVars
  <2> QED
    BY <1>15, <2>2, <2>3 DEF ClientLoop
<1> QED
  BY <1>1, <1>2, <1>3, <1>5, <1>6, <1>7, <1>8, <1>9, <1>10, <1>11, <1>12, <1>13,
     <1>14, <1>15
  DEF Next, RpcThread

-----------------------------------------------------------------------------
(* Who changes what *)

BackendThread(d) == NotifyStart(d) \/ Notifier(d)

ClientStep(c) ==
  \/ \E D \in DevTypes, enable \in BOOLEAN : Register(c, D, enable)
  \/ AppThread(c)
  \/ ClientLoop(c)
  \/ ClientGone(c)

\* A step is the RPC thread's, a backend thread's or a client's; the others'
\* variables stay as they are.
LEMMA StepKinds ==
  ASSUME [Next]_vars
  PROVE  \/ RpcThread /\ UNCHANGED <<stopped, notifyVars, setup, regs, cbs, loopVars>>
         \/ \E d \in Dirs :
              /\ BackendThread(d)
              /\ UNCHANGED <<servers, enabled, stopped, jobVars, clientVars, running>>
         \/ \E c \in Clients :
              ClientStep(c) /\ UNCHANGED <<mgrVars, stopped, jobVars, notifyVars>>
         \/ /\ ServerStop \/ UNCHANGED stopped
            /\ UNCHANGED <<mgrVars, jobVars, notifyVars, clientVars, loopVars>>
<1>1. CASE RpcThread
  BY <1>1 DEF RpcThread, TakeRequest, DropServer, RejectUnknown, LockRegister,
     LockUnregister, InternalRegister, InternalRegisterDone, InternalRegisterFails,
     CallOver, clientVars
<1>2. CASE ServerStop
  BY <1>2 DEF ServerStop
<1>3. ASSUME NEW d \in Dirs, BackendThread(d)
      PROVE  UNCHANGED <<servers, enabled, stopped, jobVars, clientVars, running>>
  BY <1>3 DEF BackendThread, NotifyStart, Notifier, NotifyLock, NotifySkip,
     NotifyCall, NotifyReply, NotifyEnd, mgrVars, loopVars
<1>4. ASSUME NEW c \in Clients, ClientStep(c)
      PROVE  UNCHANGED <<mgrVars, stopped, jobVars, notifyVars>>
  BY <1>4 DEF ClientStep, Register, AppThread, Setup, SetupFails, SetCallbacks,
     ClientLoop, CallbackBegin, CallbackEnd, ClientGone
<1>5. CASE UNCHANGED vars
  BY <1>5 DEF vars
<1>6. CASE Next
  BY <1>6, <1>1, <1>2, <1>3, <1>4 DEF Next, BackendThread, ClientStep
<1> QED
  BY <1>5, <1>6

\* The RPC thread's steps: what happens to the lock, the entries and the job.
LEMMA RpcSteps ==
  ASSUME RpcThread
  PROVE  \/ /\ jpc = "idle" /\ jpc' \in {"idle", "lock"}
            /\ UNCHANGED <<mgrVars, todo>>
            /\ \E c \in Clients : TakeRequest(c) \/ DropServer(c)
         \/ /\ jpc = "lock"
            /\ UNCHANGED mgrVars
            /\ ~KnownType(Head(job.types))
            /\ CallOver(FALSE)
         \/ /\ jpc = "lock" /\ KnownType(Head(job.types)) /\ lock = None
            /\ UNCHANGED enabled
            /\ \/ job.enable /\ servers = <<>> /\ UNCHANGED servers
               \/ ~job.enable /\ servers' = Retain(servers) /\ servers' = <<>>
            /\ lock' = "rpc" /\ jpc' = "backend" /\ todo' = <<"input", "output">>
            /\ UNCHANGED <<job, clientVars>>
         \/ /\ jpc = "lock" /\ KnownType(Head(job.types)) /\ lock = None
            /\ UNCHANGED <<lock, enabled>>
            /\ \/ /\ job.enable /\ servers # <<>>
                  /\ servers' = Append(servers, Entry(job.client, Head(job.types)))
               \/ ~job.enable /\ servers' = Retain(servers) /\ servers' # <<>>
            /\ CallOver(TRUE)
         \/ /\ jpc = "backend" /\ todo # <<>>
            /\ todo' = Tail(todo)
            /\ enabled' = IF job.enable THEN enabled \cup {Head(todo)}
                          ELSE enabled \ {Head(todo)}
            /\ UNCHANGED <<servers, lock, jpc, job, clientVars>>
         \/ /\ jpc = "backend" /\ todo = <<>> /\ lock' = None
            /\ UNCHANGED enabled
            /\ IF job.enable
                 THEN servers' = Append(servers, Entry(job.client, Head(job.types)))
                 ELSE UNCHANGED servers
            /\ CallOver(TRUE)
         \/ /\ jpc = "backend" /\ lock' = None
            /\ UNCHANGED <<servers, enabled>>
            /\ CallOver(FALSE)
<1>1. ASSUME NEW c \in Clients, TakeRequest(c) \/ DropServer(c)
      PROVE  jpc = "idle" /\ jpc' \in {"idle", "lock"} /\ UNCHANGED <<mgrVars, todo>>
  BY <1>1 DEF TakeRequest, DropServer
<1>2. CASE RejectUnknown
  BY <1>2 DEF RejectUnknown
<1>3. CASE LockRegister
  BY <1>3 DEF LockRegister, LockFree, Entry
<1>4. CASE LockUnregister
  BY <1>4 DEF LockUnregister, LockFree, NowEmpty
<1>5. CASE InternalRegister
  BY <1>5 DEF InternalRegister
<1>6. CASE InternalRegisterDone
  BY <1>6 DEF InternalRegisterDone, Entry
<1>7. CASE InternalRegisterFails
  BY <1>7 DEF InternalRegisterFails, LockAfterFailure
<1> QED
  BY <1>1, <1>2, <1>3, <1>4, <1>5, <1>6, <1>7 DEF RpcThread

\* What CallOver does to the job and to its client.
LEMMA CallOvers ==
  ASSUME NEW ok \in BOOLEAN, CallOver(ok)
  PROVE  /\ jpc' \in {"idle", "lock"}
         /\ UNCHANGED <<stopped, notifyVars, setup, req, regs, cbs, loopVars>>
         /\ \/ /\ Len(job.types) > 1 /\ jpc' = "lock"
               /\ job' = [job EXCEPT !.types = Tail(@)]
               /\ UNCHANGED <<alive, cpc, want, acked>>
            \/ /\ ~(Len(job.types) > 1) /\ jpc' = "idle" /\ job.drop
               /\ alive' = [alive EXCEPT ![job.client] = "dropped"]
               /\ UNCHANGED <<cpc, want, acked>>
            \/ /\ ~(Len(job.types) > 1) /\ jpc' = "idle" /\ ~job.drop
               /\ Answer(job.client, ok)
               /\ UNCHANGED alive
  BY DEF CallOver, JobOver

-----------------------------------------------------------------------------
(* The lock, the list and the backend's registrations *)

\* What a backend thread does to the lock and to its own position.
LEMMA BackendThreadSteps ==
  ASSUME NEW d \in Dirs, BackendThread(d), TypeOK
  PROVE  /\ \A e \in Dirs \ {d} :
              npc'[e] = npc[e] /\ pos'[e] = pos[e] /\ told'[e] = told[e]
         /\ \/ /\ npc[d] = "idle" /\ npc'[d] = "lock" /\ UNCHANGED lock
            \/ /\ npc[d] = "lock" /\ npc'[d] = "next" /\ lock = None /\ lock' = d
               /\ pos'[d] = 1
            \/ /\ npc[d] = "next" /\ npc'[d] = "next" /\ UNCHANGED <<lock, told>>
               /\ pos[d] <= Len(servers)
               /\ \/ d \notin servers[pos[d]].devtype
                  \/ alive[servers[pos[d]].client] # "live"
               /\ pos'[d] = pos[d] + 1
            \/ /\ npc[d] = "next" /\ npc'[d] = "wait" /\ UNCHANGED <<lock, pos>>
               /\ pos[d] <= Len(servers)
               /\ told'[d] = told[d] \cup {servers[pos[d]].client}
            \/ /\ npc[d] = "wait" /\ npc'[d] = "next" /\ UNCHANGED <<lock, told>>
               /\ pos'[d] = pos[d] + 1
            \/ /\ npc[d] = "next" /\ npc'[d] = "idle" /\ lock' = None
               /\ pos[d] > Len(servers)
<1> DEFINE S == {"idle", "lock", "next", "wait"}
<1>1. npc \in [Dirs -> S] /\ pos \in [Dirs -> Nat] /\ told \in [Dirs -> SUBSET Clients]
  BY DEF TypeOK
<1>2. CASE NotifyStart(d)
  BY <1>1, <1>2 DEF NotifyStart, mgrVars
<1>3. CASE NotifyLock(d)
  BY <1>1, <1>3 DEF NotifyLock, LockFree
<1>4. CASE NotifySkip(d)
  BY <1>1, <1>4 DEF NotifySkip, mgrVars
<1>5. CASE NotifyCall(d)
  BY <1>1, <1>5 DEF NotifyCall, mgrVars
<1>6. CASE NotifyReply(d)
  BY <1>1, <1>6 DEF NotifyReply, mgrVars
<1>7. CASE NotifyEnd(d)
  BY <1>1, <1>7 DEF NotifyEnd
<1> QED
  BY <1>2, <1>3, <1>4, <1>5, <1>6, <1>7 DEF BackendThread, Notifier

\* The mutex belongs to the thread that is inside it: it is taken when free
\* and given back by whoever holds it, on every return of the manager.
LEMMA LockStep ==
  ASSUME TypeOK, LockOK, [Next]_vars
  PROVE  LockOK'
<1>0. None \notin Dirs /\ None # "rpc" /\ "rpc" \notin Dirs
  BY DeviceCollectionAssumption DEF Dirs
<1>1. CASE RpcThread /\ UNCHANGED notifyVars
  <2>1. npc' = npc
    BY <1>1 DEF notifyVars
  <2>2. \A ok \in BOOLEAN : CallOver(ok) => jpc' # "backend"
    BY CallOvers
  <2>3. \/ jpc # "backend" /\ jpc' # "backend" /\ lock' = lock
        \/ jpc # "backend" /\ jpc' = "backend" /\ lock = None /\ lock' = "rpc"
        \/ jpc = "backend" /\ jpc' = "backend" /\ lock' = lock
        \/ jpc = "backend" /\ jpc' # "backend" /\ lock' = None
    BY <1>1, <2>2, RpcSteps DEF mgrVars
  <2> QED
    BY <2>1, <2>3, <1>0 DEF LockOK
<1>2. ASSUME NEW d \in Dirs, BackendThread(d), UNCHANGED jobVars
      PROVE  LockOK'
  <2>1. jpc' = jpc
    BY <1>2 DEF jobVars
  <2> QED
    BY <2>1, <1>0, <1>2, BackendThreadSteps DEF LockOK
<1>3. CASE UNCHANGED <<mgrVars, jobVars, notifyVars>>
  BY <1>3 DEF LockOK, mgrVars, jobVars, notifyVars
<1> QED
  BY <1>1, <1>2, <1>3, StepKinds

\* Inside internal_register the list is empty and the directions not yet
\* registered are still to do.
LEMMA BackendStep ==
  ASSUME TypeOK, LockOK, JobOK, BackendOK, [Next]_vars
  PROVE  BackendOK'
<1>1. CASE RpcThread
  <2>1. \A ok \in BOOLEAN : CallOver(ok) => jpc' # "backend"
    BY CallOvers
  <2>2. CASE jpc' # "backend"
    BY <2>2 DEF BackendOK
  <2>3. CASE /\ jpc = "lock" /\ KnownType(Head(job.types))
             /\ servers' = <<>> /\ todo' = <<"input", "output">> /\ job' = job
    <3>1. Len(todo') = 2 /\ todo'[1] = "input" /\ todo'[2] = "output"
      BY <2>3
    <3>2. 1 \in 1..Len(todo') /\ 2 \in 1..Len(todo')
      BY <3>1
    <3>3. \A d \in Dirs : \E i \in 1..Len(todo') : todo'[i] = d
      BY <3>1, <3>2 DEF Dirs
    <3> QED
      BY <2>3, <3>3 DEF BackendOK, KnownType
  <2>4. CASE /\ jpc = "backend" /\ todo # <<>>
             /\ todo' = Tail(todo)
             /\ enabled' = IF job.enable THEN enabled \cup {Head(todo)}
                           ELSE enabled \ {Head(todo)}
             /\ UNCHANGED <<servers, job>>
    <3>1. \A s \in Seq(Dirs) : s # <<>> =>
            \A d : (\E i \in 1..Len(s) : s[i] = d) =>
                     d = Head(s) \/ \E i \in 1..Len(Tail(s)) : Tail(s)[i] = d
      <4>1. ASSUME NEW s \in Seq(Dirs), s # <<>>, NEW i \in 1..Len(s), i # 1
            PROVE  i - 1 \in 1..Len(Tail(s)) /\ Tail(s)[i - 1] = s[i]
        BY <4>1
      <4>2. \A s \in Seq(Dirs) : s # <<>> => Head(s) = s[1]
        OBVIOUS
      <4> QED
        BY <4>1, <4>2
    <3>2. todo \in Seq(Dirs)
      BY DEF TypeOK
    <3>3. job.enable => \A d \in Dirs :
            d \in enabled' \/ \E i \in 1..Len(todo') : todo'[i] = d
      <4>1. SUFFICES ASSUME job.enable, NEW d \in Dirs, d \notin enabled'
                     PROVE  \E i \in 1..Len(todo') : todo'[i] = d
        OBVIOUS
      <4>2. d # Head(todo) /\ d \notin enabled
        BY <2>4, <4>1
      <4>3. \E i \in 1..Len(todo) : todo[i] = d
        BY <2>4, <4>1, <4>2 DEF BackendOK
      <4> QED
        BY <2>4, <3>1, <3>2, <4>2, <4>3
    <3> QED
      BY <2>4, <3>3 DEF BackendOK
  <2> QED
    BY <1>1, <2>1, <2>2, <2>3, <2>4, RpcSteps
<1>2. CASE UNCHANGED <<servers, enabled, jobVars>>
  BY <1>2 DEF BackendOK, jobVars
<1> QED
  BY <1>1, <1>2, StepKinds DEF mgrVars

\* cubeb notifies the manager of both directions while an entry is left: the
\* first one is pushed when both are registered, and they are unregistered
\* only when the last one is removed.
LEMMA EnabledStep ==
  ASSUME TypeOK, JobOK, BackendOK, EnabledOK, [Next]_vars
  PROVE  EnabledOK'
<1>1. CASE RpcThread
  <2>1. CASE jpc = "backend" /\ todo = <<>> /\ job.enable /\ enabled' = enabled
    <3>1. Len(todo) = 0
      BY <2>1
    <3>2. Dirs \subseteq enabled
      BY <2>1, <3>1 DEF BackendOK
    <3> QED
      BY <2>1, <3>2 DEF EnabledOK, TypeOK
  <2>2. CASE jpc = "lock" /\ enabled' = enabled /\ servers # <<>>
    BY <2>2 DEF EnabledOK
  <2>3. CASE servers' = <<>>
    BY <2>3 DEF EnabledOK
  <2>4. CASE UNCHANGED <<servers, enabled>>
    BY <2>4 DEF EnabledOK
  <2>5. jpc = "backend" => servers = <<>>
    BY DEF BackendOK
  <2>6. servers = <<>> => Retain(servers) = <<>>
    <3>1. SUFFICES ASSUME servers = <<>> PROVE Retain(servers) = <<>>
      OBVIOUS
    <3>2. servers \in Seq(Entries)
      BY DEF TypeOK, Entries
    <3>3. /\ Retain(servers) \in Seq(Entries)
          /\ \A i \in 1..Len(Retain(servers)) :
               \E j \in 1..Len(servers) : servers[j] = Retain(servers)[i]
      BY <3>2, RetainKeeps
    <3>4. Len(servers) = 0
      BY <3>1
    <3>5. Len(Retain(servers)) = 0
      BY <3>3, <3>4
    <3> QED
      BY <3>3, <3>5
  <2> QED
    BY <1>1, <2>1, <2>2, <2>3, <2>4, <2>5, <2>6, RpcSteps DEF mgrVars
<1>2. CASE UNCHANGED <<servers, enabled>>
  BY <1>2 DEF EnabledOK
<1> QED
  BY <1>1, <1>2, StepKinds DEF mgrVars

-----------------------------------------------------------------------------
(* Notifications *)

\* How a client's connection and CubebServer end.
LEMMA AliveSteps ==
  ASSUME TypeOK, [Next]_vars, NEW c \in Clients
  PROVE  \/ alive'[c] = alive[c]
         \/ ClientGone(c) /\ alive[c] = "live" /\ alive'[c] = "gone"
         \/ /\ alive'[c] = "dropped" /\ alive[c] = "gone"
            /\ jpc = "idle" /\ jpc' = "idle" /\ req[c] = {} /\ setup[c] = "none"
            /\ UNCHANGED <<servers, req, setup>>
         \/ /\ alive'[c] = "dropped"
            /\ jpc # "idle" /\ jpc' = "idle"
            /\ c = job.client /\ job.drop /\ ~(Len(job.types) > 1)
<1>1. CASE RpcThread
  <2>1. ASSUME NEW b \in Clients, TakeRequest(b)
        PROVE  UNCHANGED alive
    BY <2>1 DEF TakeRequest
  <2>2. ASSUME NEW b \in Clients, DropServer(b)
        PROVE  \/ UNCHANGED alive
               \/ /\ alive' = [alive EXCEPT ![b] = "dropped"]
                  /\ alive[b] = "gone" /\ req[b] = {} /\ setup[b] = "none"
                  /\ jpc = "idle" /\ jpc' = "idle" /\ UNCHANGED <<servers, req, setup>>
    BY <2>2 DEF DropServer, mgrVars
  <2>3. ASSUME NEW ok \in BOOLEAN, CallOver(ok)
        PROVE  \/ UNCHANGED alive
               \/ /\ alive' = [alive EXCEPT ![job.client] = "dropped"]
                  /\ job.drop /\ ~(Len(job.types) > 1) /\ jpc' = "idle"
    BY <2>3, CallOvers
  <2>4. alive \in [Clients -> {"live", "gone", "dropped"}]
    BY DEF TypeOK
  <2>5. \/ UNCHANGED alive
        \/ \E b \in Clients : TakeRequest(b) \/ DropServer(b)
        \/ jpc # "idle" /\ \E ok \in BOOLEAN : CallOver(ok)
    BY <1>1, RpcSteps DEF clientVars
  <2> QED
    BY <2>1, <2>2, <2>3, <2>4, <2>5
<1>2. ASSUME NEW b \in Clients, ClientStep(b)
      PROVE  UNCHANGED alive \/ ClientGone(b)
  BY <1>2 DEF ClientStep, Register, AppThread, Setup, SetupFails, SetCallbacks,
     ClientLoop, CallbackBegin, CallbackEnd, clientVars
<1>3. ASSUME NEW b \in Clients, ClientGone(b)
      PROVE  \/ alive'[c] = alive[c]
             \/ b = c /\ alive[c] = "live" /\ alive'[c] = "gone"
  <2>1. alive' = [alive EXCEPT ![b] = "gone"] /\ alive[b] = "live"
    BY <1>3 DEF ClientGone
  <2>2. alive \in [Clients -> {"live", "gone", "dropped"}]
    BY DEF TypeOK
  <2>3. CASE b = c
    BY <2>1, <2>2, <2>3
  <2>4. CASE b # c
    BY <2>1, <2>2, <2>4
  <2> QED
    BY <2>3, <2>4
<1>4. CASE UNCHANGED clientVars
  BY <1>4 DEF clientVars
<1> QED
  BY <1>1, <1>2, <1>3, <1>4, StepKinds

\* A client that is connected was so before.
LEMMA StaysGone ==
  ASSUME TypeOK, [Next]_vars, NEW c \in Clients, alive'[c] = "live"
  PROVE  alive[c] = "live"
  BY AliveSteps

\* The entries change only while no notification goes through them.
LEMMA EntriesLocked ==
  ASSUME TypeOK, LockOK, [Next]_vars, NEW d \in Dirs, npc[d] \in {"next", "wait"}
  PROVE  UNCHANGED servers
<1>1. lock = d /\ lock # None /\ lock # "rpc"
  BY DeviceCollectionAssumption DEF LockOK, Dirs
<1>2. jpc # "backend"
  BY <1>1 DEF LockOK
<1>3. CASE RpcThread
  BY <1>1, <1>2, <1>3, RpcSteps DEF mgrVars
<1> QED
  BY <1>3, StepKinds DEF mgrVars

\* The entry at a position of the list, and its client.
LEMMA EntryType ==
  ASSUME TypeOK, NEW i \in 1..Len(servers)
  PROVE  servers[i] \in Entries /\ servers[i].client \in Clients
<1>1. servers \in Seq(Entries)
  BY DEF TypeOK, Entries
<1>2. servers[i] \in Entries
  BY <1>1
<1> QED
  BY <1>2 DEF Entries

\* A notification tells every connected client of an entry it passes.
LEMMA NotifyStep ==
  ASSUME TypeOK, LockOK, NotifyOK, [Next]_vars
  PROVE  NotifyOK'
<1>1. SUFFICES ASSUME NEW d \in Dirs, npc'[d] \in {"next", "wait"}
               PROVE  /\ pos'[d] >= 1
                      /\ \A i \in 1..Len(servers') :
                           /\ i < pos'[d]
                           /\ d \in servers'[i].devtype
                           /\ alive'[servers'[i].client] = "live"
                           => servers'[i].client \in told'[d]
                      /\ npc'[d] = "wait" =>
                           /\ pos'[d] <= Len(servers')
                           /\ servers'[pos'[d]].client \in told'[d]
  BY DEF NotifyOK
<1>2. npc \in [Dirs -> {"idle", "lock", "next", "wait"}] /\ pos[d] \in Nat
      /\ Len(servers) \in Nat
  BY DEF TypeOK
<1>3. CASE npc[d] \in {"next", "wait"} /\ npc'[d] = npc[d] /\ pos'[d] = pos[d]
           /\ told'[d] = told[d]
  <2>1. UNCHANGED servers
    BY <1>3, EntriesLocked
  <2>2. \A i \in 1..Len(servers) :
          alive'[servers[i].client] = "live" => alive[servers[i].client] = "live"
    BY EntryType, StaysGone
  <2> QED
    BY <1>3, <2>1, <2>2 DEF NotifyOK
<1>4. CASE BackendThread(d) /\ UNCHANGED <<servers, alive>>
  <2>1. CASE npc[d] = "lock" /\ npc'[d] = "next" /\ pos'[d] = 1
    BY <2>1
  <2>2. CASE /\ npc[d] = "next" /\ npc'[d] = "next" /\ UNCHANGED told
             /\ pos[d] <= Len(servers)
             /\ \/ d \notin servers[pos[d]].devtype
                \/ alive[servers[pos[d]].client] # "live"
             /\ pos'[d] = pos[d] + 1
    <3>1. \A i \in 1..Len(servers) : i < pos'[d] => i < pos[d] \/ i = pos[d]
      BY <2>2, <1>2
    <3> QED
      BY <1>2, <1>4, <2>2, <3>1 DEF NotifyOK
  <2>3. CASE /\ npc[d] = "next" /\ npc'[d] = "wait" /\ UNCHANGED pos
             /\ pos[d] <= Len(servers)
             /\ told'[d] = told[d] \cup {servers[pos[d]].client}
    BY <1>2, <1>4, <2>3 DEF NotifyOK
  <2>4. CASE /\ npc[d] = "wait" /\ npc'[d] = "next" /\ UNCHANGED told
             /\ pos'[d] = pos[d] + 1
    <3>1. \A i \in 1..Len(servers) : i < pos'[d] => i < pos[d] \/ i = pos[d]
      BY <2>4, <1>2
    <3> QED
      BY <1>2, <1>4, <2>4, <3>1 DEF NotifyOK
  <2> QED
    BY <1>1, <1>4, <2>1, <2>2, <2>3, <2>4, BackendThreadSteps
<1>5. CASE npc'[d] = npc[d] /\ pos'[d] = pos[d] /\ told'[d] = told[d]
  BY <1>1, <1>3, <1>5
<1>6. ASSUME NEW e \in Dirs \ {d}, BackendThread(e)
      PROVE  npc'[d] = npc[d] /\ pos'[d] = pos[d] /\ told'[d] = told[d]
  BY <1>6, BackendThreadSteps
<1>7. \/ \E e \in Dirs : BackendThread(e) /\ UNCHANGED <<servers, clientVars>>
      \/ UNCHANGED notifyVars
  BY StepKinds
<1> QED
  BY <1>4, <1>5, <1>6, <1>7 DEF notifyVars, clientVars

-----------------------------------------------------------------------------
(* The user's callbacks *)

\* The callback in progress is the registered one: replacing it waits.
LEMMA CallbackStep ==
  ASSUME TypeOK, CallbackCurrent, [Next]_vars
  PROVE  CallbackCurrent'
<1>0. running \in [Clients -> SUBSET [dir : Dirs, ptr : 0..MaxRegs]]
      /\ cbs \in [Clients -> [Dirs -> 0..MaxRegs]]
  BY DEF TypeOK
<1>1. CASE UNCHANGED <<running, cbs>>
  BY <1>1 DEF CallbackCurrent
<1>2. ASSUME NEW c \in Clients, SetCallbacks(c)
      PROVE  CallbackCurrent'
  <2>1. running' = running /\ running[c] = {}
    BY <1>2 DEF SetCallbacks, CallbacksUnlocked, loopVars
  <2>2. \A b \in Clients \ {c} : cbs'[b] = cbs[b]
    BY <1>0, <1>2 DEF SetCallbacks
  <2> QED
    BY <2>1, <2>2 DEF CallbackCurrent
<1>3. ASSUME NEW c \in Clients, CallbackBegin(c)
      PROVE  CallbackCurrent'
  <2>1. cbs' = cbs /\ running' = [running EXCEPT
          ![c] = {[dir |-> note[c], ptr |-> cbs[c][note[c]]]}]
    BY <1>3 DEF CallbackBegin, clientVars
  <2>2. \A b \in Clients : running'[b] = IF b = c
          THEN {[dir |-> note[c], ptr |-> cbs[c][note[c]]]} ELSE running[b]
    BY <1>0, <2>1
  <2> QED
    BY <2>1, <2>2 DEF CallbackCurrent
<1>4. ASSUME NEW c \in Clients, CallbackEnd(c) \/ ClientGone(c)
      PROVE  CallbackCurrent'
  <2>1. cbs' = cbs /\ running' = [running EXCEPT ![c] = {}]
    BY <1>4 DEF CallbackEnd, ClientGone, clientVars
  <2>2. \A b \in Clients : running'[b] = IF b = c THEN {} ELSE running[b]
    BY <1>0, <2>1
  <2> QED
    BY <2>1, <2>2 DEF CallbackCurrent
<1>5. ASSUME NEW c \in Clients, ClientStep(c)
      PROVE  \/ UNCHANGED <<running, cbs>>
             \/ SetCallbacks(c) \/ CallbackBegin(c) \/ CallbackEnd(c) \/ ClientGone(c)
  BY <1>5 DEF ClientStep, Register, AppThread, Setup, SetupFails, ClientLoop, loopVars
<1> QED
  BY <1>1, <1>2, <1>3, <1>4, <1>5, StepKinds DEF loopVars, clientVars

-----------------------------------------------------------------------------
(* Requests, jobs and answers *)

Same(c) ==
  /\ alive'[c] = alive[c] /\ setup'[c] = setup[c] /\ cpc'[c] = cpc[c]
  /\ want'[c] = want[c] /\ req'[c] = req[c] /\ acked'[c] = acked[c]

\* What a step of client b does to client c.
LEMMA ClientSteps ==
  ASSUME TypeOK, NEW b \in Clients, ClientStep(b), NEW c \in Clients
  PROVE  \/ Same(c)
         \/ /\ alive[c] = "live" /\ req'[c] = req[c] /\ acked'[c] = acked[c]
            /\ \/ /\ cpc[c] \in {"idle", "setup"} /\ alive'[c] = "live"
                  /\ setup[c] # "none" => setup'[c] # "none"
                  /\ cpc'[c] # "wait"
                  /\ cpc'[c] = "set" => setup'[c] = "both"
               \/ alive'[c] = "gone" /\ setup'[c] = setup[c] /\ cpc'[c] = "idle"
         \/ /\ alive[c] = "live" /\ cpc[c] = "set"
            /\ alive'[c] = "live" /\ cpc'[c] = "wait" /\ req'[c] = {want[c]}
            /\ want'[c] = want[c] /\ setup'[c] = setup[c] /\ acked'[c] = acked[c]
<1>0. /\ alive \in [Clients -> {"live", "gone", "dropped"}]
      /\ setup \in [Clients -> {"none", "server", "both"}]
      /\ cpc \in [Clients -> {"idle", "setup", "set", "wait"}]
      /\ want \in [Clients -> Wants]
      /\ req \in [Clients -> SUBSET Wants]
  BY DEF TypeOK
<1>1. ASSUME NEW D \in DevTypes, NEW enable \in BOOLEAN, Register(b, D, enable)
      PROVE  \/ Same(c)
             \/ /\ alive[c] = "live" /\ req'[c] = req[c] /\ acked'[c] = acked[c]
                /\ cpc[c] = "idle" /\ alive'[c] = "live" /\ setup'[c] = setup[c]
                /\ cpc'[c] = IF setup[c] = "both" THEN "set" ELSE "setup"
  <2>1. /\ alive[b] = "live" /\ cpc[b] = "idle"
        /\ want' = [want EXCEPT ![b] = [devtype |-> D, enable |-> enable]]
        /\ cpc' = [cpc EXCEPT ![b] = IF setup[b] = "both" THEN "set" ELSE "setup"]
        /\ UNCHANGED <<alive, setup, req, acked>>
    BY <1>1 DEF Register
  <2> QED
    BY <2>1, <1>0 DEF Same
<1>2. CASE Setup(b)
  <2>1. /\ alive[b] = "live" /\ cpc[b] = "setup"
        /\ setup' = [setup EXCEPT ![b] = "both"]
        /\ cpc' = [cpc EXCEPT ![b] = "set"]
        /\ UNCHANGED <<alive, want, req, acked>>
    BY <1>2 DEF Setup
  <2> QED
    BY <2>1, <1>0 DEF Same
<1>3. CASE SetupFails(b)
  <2>1. /\ alive[b] = "live" /\ cpc[b] = "setup"
        /\ cpc' = [cpc EXCEPT ![b] = "idle"]
        /\ want' = [want EXCEPT ![b] = NoWant]
        /\ UNCHANGED <<alive, req, acked>>
    BY <1>3 DEF SetupFails
  <2>2. PICK s \in {setup[b], "server"} : setup' = [setup EXCEPT ![b] = s]
    BY <1>3 DEF SetupFails
  <2> QED
    BY <2>1, <2>2, <1>0 DEF Same
<1>4. CASE SetCallbacks(b)
  <2>1. /\ alive[b] = "live" /\ cpc[b] = "set"
        /\ req' = [req EXCEPT ![b] = {want[b]}]
        /\ cpc' = [cpc EXCEPT ![b] = "wait"]
        /\ UNCHANGED <<alive, setup, want, acked>>
    BY <1>4 DEF SetCallbacks
  <2> QED
    BY <2>1, <1>0 DEF Same
<1>5. CASE ClientLoop(b)
  BY <1>5 DEF ClientLoop, CallbackBegin, CallbackEnd, clientVars, Same
<1>6. CASE ClientGone(b)
  <2>1. /\ alive[b] = "live"
        /\ alive' = [alive EXCEPT ![b] = "gone"]
        /\ cpc' = [cpc EXCEPT ![b] = "idle"]
        /\ want' = [want EXCEPT ![b] = NoWant]
        /\ UNCHANGED <<setup, req, acked>>
    BY <1>6 DEF ClientGone
  <2> QED
    BY <2>1, <1>0 DEF Same
<1> QED
  BY <1>1, <1>2, <1>3, <1>4, <1>5, <1>6 DEF ClientStep, AppThread

\* What the end of a manager call does to client c.
LEMMA CallOverClient ==
  ASSUME TypeOK, JobOK, jpc # "idle", NEW ok \in BOOLEAN, CallOver(ok), NEW c \in Clients
  PROVE  /\ setup'[c] = setup[c] /\ req'[c] = req[c]
         /\ \/ Same(c)
            \/ /\ c = job.client /\ jpc' = "idle" /\ job.drop
               /\ alive'[c] = "dropped" /\ acked'[c] = acked[c]
               /\ cpc'[c] = cpc[c] /\ want'[c] = want[c]
            \/ /\ c = job.client /\ jpc' = "idle" /\ ~job.drop
               /\ alive'[c] = alive[c] /\ cpc'[c] = "idle"
               /\ acked'[c] = IF ~job.enable THEN acked[c] \ {Head(job.types)}
                              ELSE IF ok THEN acked[c] \cup {Head(job.types)}
                              ELSE acked[c]
<1>0. /\ alive \in [Clients -> {"live", "gone", "dropped"}]
      /\ cpc \in [Clients -> {"idle", "setup", "set", "wait"}]
      /\ want \in [Clients -> Wants]
      /\ acked \in [Clients -> SUBSET DevTypes]
      /\ job.client \in Clients
  BY DEF TypeOK, JobOK
<1>1. UNCHANGED <<setup, req>>
  BY CallOvers
<1>2. CASE UNCHANGED <<alive, cpc, want, acked>>
  BY <1>1, <1>2 DEF Same
<1>3. CASE /\ jpc' = "idle" /\ job.drop
           /\ alive' = [alive EXCEPT ![job.client] = "dropped"]
           /\ UNCHANGED <<cpc, want, acked>>
  BY <1>0, <1>1, <1>3 DEF Same
<1>4. CASE jpc' = "idle" /\ ~job.drop /\ Answer(job.client, ok) /\ UNCHANGED alive
  <2> DEFINE h == Head(job.types)
             v == IF ~job.enable THEN acked[job.client] \ {h}
                  ELSE IF ok THEN acked[job.client] \cup {h}
                  ELSE acked[job.client]
  <2>1. /\ cpc' = [cpc EXCEPT ![job.client] = "idle"]
        /\ want' = [want EXCEPT ![job.client] = NoWant]
        /\ acked' = [acked EXCEPT ![job.client] = v]
    BY <1>4 DEF Answer
  <2>2. CASE c # job.client
    BY <1>0, <1>1, <1>4, <2>1, <2>2 DEF Same
  <2>3. CASE c = job.client
    <3>1. cpc'[c] = "idle" /\ acked'[c] = v
      BY <1>0, <2>1, <2>3
    <3> QED
      BY <1>1, <1>4, <2>3, <3>1
  <2> QED
    BY <2>2, <2>3
<1> QED
  BY <1>2, <1>3, <1>4, CallOvers

\* What any step of the RPC thread but CallOver does to client c.
LEMMA TakeOrDrop ==
  ASSUME TypeOK, ReqOK, NEW b \in Clients, TakeRequest(b) \/ DropServer(b), NEW c \in Clients
  PROVE  /\ setup'[c] = setup[c] /\ cpc'[c] = cpc[c] /\ want'[c] = want[c]
         /\ acked'[c] = acked[c]
         /\ \/ Same(c)
            \/ req'[c] = {} /\ alive'[c] = alive[c]
            \/ req'[c] = {} /\ alive[c] = "gone" /\ alive'[c] = "dropped"
<1>0. /\ alive \in [Clients -> {"live", "gone", "dropped"}]
      /\ req \in [Clients -> SUBSET Wants]
  BY DEF TypeOK
<1>1. UNCHANGED <<setup, cpc, want, acked>>
  BY DEF TakeRequest, DropServer
<1>2. CASE TakeRequest(b)
  <2>1. req' = [req EXCEPT ![b] = {}] /\ alive' = alive
    BY <1>2 DEF TakeRequest
  <2> QED
    BY <1>0, <1>1, <2>1 DEF Same
<1>3. CASE DropServer(b)
  <2>1. /\ req' = req /\ req[b] = {} /\ alive[b] = "gone"
        /\ \/ alive' = alive
           \/ alive' = [alive EXCEPT ![b] = "dropped"]
    BY <1>3 DEF DropServer
  <2>2. CASE alive' = alive
    BY <1>1, <2>1, <2>2 DEF Same
  <2>3. CASE alive' = [alive EXCEPT ![b] = "dropped"]
    BY <1>0, <1>1, <2>1, <2>3 DEF Same
  <2> QED
    BY <2>1, <2>2, <2>3
<1> QED
  BY <1>2, <1>3

\* A step of the RPC thread is TakeRequest or DropServer, the end of a manager
\* call, or one inside a manager call that leaves job and clients alone.
LEMMA RpcKinds ==
  ASSUME RpcThread
  PROVE  \/ \E b \in Clients : TakeRequest(b) \/ DropServer(b)
         \/ jpc # "idle" /\ \E ok \in BOOLEAN : CallOver(ok)
         \/ jpc # "idle" /\ UNCHANGED <<job, clientVars>>
  BY RpcSteps

\* A request at the server is the one its client waits for.
LEMMA ReqStep ==
  ASSUME TypeOK, ReqOK, JobOK, [Next]_vars
  PROVE  ReqOK'
<1>1. SUFFICES ASSUME NEW c \in Clients
               PROVE  /\ req'[c] # {} =>
                           /\ alive'[c] # "dropped"
                           /\ setup'[c] # "none"
                           /\ alive'[c] = "live" =>
                                cpc'[c] = "wait" /\ req'[c] = {want'[c]}
                      /\ cpc'[c] \in {"set", "wait"} => setup'[c] = "both"
  BY DEF ReqOK
<1>2. CASE Same(c)
  BY <1>2 DEF Same, ReqOK
<1>3. CASE UNCHANGED clientVars
  BY <1>3 DEF clientVars, ReqOK
<1>4. ASSUME NEW b \in Clients, ClientStep(b)
      PROVE  Same(c) \/
             (/\ req'[c] # {} =>
                   /\ alive'[c] # "dropped"
                   /\ setup'[c] # "none"
                   /\ alive'[c] = "live" => cpc'[c] = "wait" /\ req'[c] = {want'[c]}
              /\ cpc'[c] \in {"set", "wait"} => setup'[c] = "both")
  BY <1>4, ClientSteps DEF ReqOK
<1>5. ASSUME NEW b \in Clients, TakeRequest(b) \/ DropServer(b)
      PROVE  Same(c) \/
             (req'[c] = {} /\ (cpc'[c] \in {"set", "wait"} => setup'[c] = "both"))
  BY <1>5, TakeOrDrop DEF ReqOK
<1>6. ASSUME jpc # "idle", NEW ok \in BOOLEAN, CallOver(ok)
      PROVE  Same(c) \/
             (req'[c] = {} /\ (cpc'[c] \in {"set", "wait"} => setup'[c] = "both"))
  BY <1>6, CallOverClient DEF ReqOK, JobOK
<1> QED
  BY <1>2, <1>3, <1>4, <1>5, <1>6, StepKinds, RpcKinds

\* A job is a request its client waits for, or what is left of a drop.
LEMMA JobStep ==
  ASSUME TypeOK, ReqOK, JobOK, [Next]_vars
  PROVE  JobOK'
<1>0. job \in [client : Clients \cup {None}, types : Seq(SUBSET Dirs),
               enable : BOOLEAN, drop : BOOLEAN]
      /\ req \in [Clients -> SUBSET Wants]
  BY DEF TypeOK
<1>1. SUFFICES ASSUME jpc' # "idle" PROVE JobOK'
  BY DEF JobOK
<1>2. CASE jpc # "idle" /\ UNCHANGED <<job, clientVars>>
  BY <1>2 DEF JobOK, RequestJob, DropJob, clientVars
<1>3. ASSUME NEW b \in Clients, TakeRequest(b)
      PROVE  JobOK'
  <2>1. PICK w \in req[b] :
          job' = [client |-> b, types |-> <<w.devtype>>, enable |-> w.enable,
                  drop |-> FALSE]
    BY <1>3 DEF TakeRequest
  <2>2. /\ req' = [req EXCEPT ![b] = {}]
        /\ UNCHANGED <<alive, setup, cpc, want>>
    BY <1>3 DEF TakeRequest
  <2>3. w \in Wants /\ req'[b] = {}
    BY <1>0, <2>2
  <2>4. w = [devtype |-> w.devtype, enable |-> w.enable]
        /\ w.devtype \in DevTypes \cup {{}}
    BY <2>3 DEF Wants
  <2>5. req[b] # {}
    OBVIOUS
  <2>6. /\ alive[b] # "dropped" /\ setup[b] # "none"
        /\ alive[b] = "live" => cpc[b] = "wait" /\ want[b] = w
    BY <2>5 DEF ReqOK
  <2>7. /\ job'.client = b /\ job'.types = <<w.devtype>> /\ job'.enable = w.enable
        /\ job'.drop = FALSE
    BY <2>1
  <2>8. Len(<<w.devtype>>) = 1 /\ Head(<<w.devtype>>) = w.devtype
    OBVIOUS
  <2> QED
    BY <2>2, <2>3, <2>4, <2>6, <2>7, <2>8 DEF JobOK, RequestJob
<1>4. ASSUME NEW b \in Clients, DropServer(b)
      PROVE  JobOK'
  <2>1. /\ job' = [client |-> b, types |-> DroppedTypes, enable |-> FALSE, drop |-> TRUE]
        /\ alive[b] = "gone" /\ setup[b] # "none" /\ req[b] = {}
        /\ UNCHANGED <<alive, setup, req>>
    BY <1>1, <1>4 DEF DropServer
  <2> QED
    BY <2>1 DEF JobOK, DropJob
<1>5. ASSUME jpc # "idle", NEW ok \in BOOLEAN, CallOver(ok)
      PROVE  JobOK'
  <2>1. /\ Len(job.types) > 1
        /\ job' = [job EXCEPT !.types = Tail(@)]
        /\ UNCHANGED <<alive, cpc, want, acked, setup, req>>
    BY <1>1, <1>5, CallOvers
  <2>2. /\ job'.client = job.client /\ job'.types = Tail(job.types)
        /\ job'.enable = job.enable /\ job'.drop = job.drop
    BY <1>0, <2>1
  <2>3. job.drop
    BY <1>0, <1>5, <2>1 DEF JobOK, RequestJob
  <2>4. Len(Tail(DroppedTypes)) = 1
    BY DEF DroppedTypes
  <2>5. job.types = DroppedTypes
    <3>1. DropJob
      BY <1>5, <2>3 DEF JobOK
    <3>2. job.types = DroppedTypes \/ job.types = Tail(DroppedTypes)
      BY <3>1 DEF DropJob
    <3>3. ~(1 > 1)
      OBVIOUS
    <3> QED
      BY <2>1, <2>4, <3>2, <3>3
  <2> QED
    BY <1>5, <2>1, <2>2, <2>3, <2>5 DEF JobOK, DropJob
<1>6. ASSUME NEW b \in Clients, ClientStep(b), UNCHANGED <<jpc, job>>
      PROVE  JobOK'
  <2>1. JobOK /\ job.client \in Clients /\ jpc # "idle"
    BY <1>1, <1>6 DEF JobOK
  <2> DEFINE c == job.client
  <2>2. CASE Same(c)
    BY <1>6, <2>1, <2>2 DEF JobOK, RequestJob, DropJob, Same
  <2>3. CASE ~Same(c)
    <3>1. alive[c] = "live" /\ ~job.drop /\ cpc[c] = "wait"
      BY <1>0, <1>6, <2>1, <2>3, ClientSteps DEF JobOK, RequestJob, DropJob
    <3>2. alive'[c] = "gone" /\ setup'[c] = setup[c] /\ req'[c] = req[c]
      BY <1>6, <2>1, <2>3, <3>1, ClientSteps
    <3> QED
      BY <1>6, <2>1, <3>1, <3>2 DEF JobOK, RequestJob
  <2> QED
    BY <2>2, <2>3
<1>7. CASE UNCHANGED <<jobVars, clientVars>>
  BY <1>1, <1>2, <1>7 DEF jobVars
<1> QED
  BY <1>2, <1>3, <1>4, <1>5, <1>6, <1>7, StepKinds, RpcKinds DEF jobVars

-----------------------------------------------------------------------------
(* The entries *)

Present(s, e) == \E i \in 1..Len(s) : s[i] = e

\* Appending keeps what is present and adds the new element only.
LEMMA AppendPresent ==
  ASSUME NEW M, NEW s \in Seq(M), NEW x \in M, NEW e
  PROVE  Present(Append(s, x), e) <=> Present(s, e) \/ e = x
<1>1. /\ Len(Append(s, x)) = Len(s) + 1 /\ Len(s) \in Nat
      /\ Append(s, x)[Len(s) + 1] = x
      /\ \A i \in 1..Len(s) : Append(s, x)[i] = s[i]
  OBVIOUS
<1>2. \A i \in 1..Len(s) + 1 : i \in 1..Len(s) \/ i = Len(s) + 1
  BY <1>1
<1>3. Len(s) + 1 \in 1..Len(s) + 1 /\ \A i \in 1..Len(s) : i \in 1..Len(s) + 1
  BY <1>1
<1> QED
  BY <1>1, <1>2, <1>3 DEF Present

\* A step of the RPC thread pushes the job's entry, removes it or leaves the
\* entries alone.
LEMMA EntriesStep ==
  ASSUME TypeOK, JobOK, BackendOK, RpcThread, NEW e
  PROVE  \/ UNCHANGED servers
         \/ /\ jpc # "idle" /\ job.enable /\ KnownType(Head(job.types))
            /\ Present(servers', e) <=>
                 Present(servers, e) \/ e = Entry(job.client, Head(job.types))
         \/ /\ jpc # "idle" /\ ~job.enable
            /\ Present(servers', e) <=> Present(servers, e) /\ Retained(e)
<1>1. servers \in Seq(Entries)
  BY DEF TypeOK, Entries
<1>2. CASE /\ jpc # "idle" /\ job.enable /\ KnownType(Head(job.types))
           /\ servers' = Append(servers, Entry(job.client, Head(job.types)))
  <2>1. Entry(job.client, Head(job.types)) \in Entries
    BY <1>2, NewEntry DEF Entry
  <2> QED
    BY <1>1, <1>2, <2>1, AppendPresent
<1>3. CASE jpc # "idle" /\ ~job.enable /\ servers' = Retain(servers)
  <2>1. /\ \A i \in 1..Len(Retain(servers)) :
              /\ Retained(Retain(servers)[i])
              /\ \E j \in 1..Len(servers) : servers[j] = Retain(servers)[i]
        /\ \A j \in 1..Len(servers) : Retained(servers[j]) =>
              \E i \in 1..Len(Retain(servers)) : Retain(servers)[i] = servers[j]
    BY <1>1, RetainKeeps
  <2>2. Present(servers', e) => Present(servers, e) /\ Retained(e)
    BY <1>3, <2>1 DEF Present
  <2>3. Present(servers, e) /\ Retained(e) => Present(servers', e)
    BY <1>3, <2>1 DEF Present
  <2> QED
    BY <1>3, <2>2, <2>3
<1>4. jpc = "backend" => KnownType(Head(job.types))
  BY DEF BackendOK, KnownType
<1> QED
  BY <1>2, <1>3, <1>4, RpcSteps DEF mgrVars

\* A registration that returned Ok keeps its entry until the client
\* unregisters that device type.
LEMMA AckedStep ==
  ASSUME TypeOK, JobOK, ReqOK, BackendOK, AckedRegistered, [Next]_vars
  PROVE  AckedRegistered'
<1> DEFINE Kept(c, D) ==
      \/ alive[c] # "live"
      \/ cpc[c] = "wait" /\ want[c] = [devtype |-> D, enable |-> FALSE]
      \/ Present(servers, Entry(c, D))
<1>0. \A c \in Clients : \A D \in acked[c] : Kept(c, D)
  BY DEF AckedRegistered, Present, Entry
<1>1. SUFFICES ASSUME NEW c \in Clients, NEW D \in acked'[c], alive'[c] = "live",
                      ~(cpc'[c] = "wait" /\ want'[c] = [devtype |-> D, enable |-> FALSE])
               PROVE  Present(servers', Entry(c, D))
  BY DEF AckedRegistered, Present, Entry
<1>2. alive[c] = "live"
  BY <1>1, StaysGone
<1>3. CASE Same(c) /\ UNCHANGED servers
  BY <1>0, <1>1, <1>3 DEF Same
<1>4. CASE UNCHANGED <<servers, clientVars>>
  BY <1>3, <1>4 DEF clientVars, Same
<1>5. ASSUME NEW b \in Clients, ClientStep(b), UNCHANGED servers
      PROVE  Present(servers', Entry(c, D))
  <2>1. acked'[c] = acked[c]
    BY <1>5, ClientSteps DEF Same
  <2>2. ~Same(c) => cpc[c] # "wait"
    BY <1>1, <1>5, ClientSteps
  <2> QED
    BY <1>0, <1>1, <1>2, <1>3, <1>5, <2>1, <2>2
<1>6. ASSUME NEW b \in Clients, TakeRequest(b) \/ DropServer(b)
      PROVE  Present(servers', Entry(c, D))
  <2>1. cpc'[c] = cpc[c] /\ want'[c] = want[c] /\ acked'[c] = acked[c]
    BY <1>6, TakeOrDrop
  <2>2. UNCHANGED servers
    BY <1>6 DEF TakeRequest, DropServer, mgrVars
  <2> QED
    BY <1>0, <1>1, <1>2, <2>1, <2>2
<1>7. CASE jpc # "idle" /\ RpcThread /\ UNCHANGED <<job, clientVars>>
  <2>1. acked'[c] = acked[c] /\ Kept(c, D) /\ Present(servers, Entry(c, D))
    BY <1>0, <1>1, <1>2, <1>7 DEF clientVars
  <2>2. ~job.enable => Retained(Entry(c, D))
    <3>1. SUFFICES ASSUME ~job.enable, c = job.client, D = Head(job.types)
                   PROVE  FALSE
      BY DEF Retained, Entry
    <3>2. ~job.drop
      BY <1>2, <1>7, <3>1 DEF JobOK, DropJob
    <3>3. cpc[c] = "wait" /\ want[c] = [devtype |-> D, enable |-> job.enable]
      BY <1>2, <1>7, <3>1, <3>2 DEF JobOK, RequestJob
    <3>4. job.enable = FALSE
      BY <3>1 DEF TypeOK
    <3> QED
      BY <1>1, <1>7, <3>3, <3>4 DEF clientVars
  <2> QED
    BY <1>7, <2>1, <2>2, EntriesStep
<1>8. ASSUME jpc # "idle", RpcThread, NEW ok \in BOOLEAN, CallOver(ok),
             ok => KnownType(Head(job.types)),
             ok /\ job.enable => Present(servers', Entry(job.client, Head(job.types)))
      PROVE  Present(servers', Entry(c, D))
  <2>0. job.enable \in BOOLEAN
    BY DEF TypeOK
  <2>1. CASE c # job.client
    <3>1. Same(c)
      BY <1>8, <2>1, CallOverClient
    <3>2. Present(servers, Entry(c, D)) /\ Retained(Entry(c, D))
      BY <1>0, <1>1, <2>1, <3>1 DEF Same, Retained, Entry
    <3> QED
      BY <1>8, <3>2, EntriesStep
  <2>2. CASE c = job.client /\ job.drop
    BY <1>2, <1>8, <2>2 DEF JobOK, DropJob
  <2>3. CASE c = job.client /\ ~job.drop
    <3>1. /\ cpc[c] = "wait" /\ Len(job.types) = 1
          /\ want[c] = [devtype |-> Head(job.types), enable |-> job.enable]
      BY <1>2, <1>8, <2>3 DEF JobOK, RequestJob
    <3>2. cpc'[c] = "idle" /\ Answer(c, ok)
      <4>1. ~(Len(job.types) > 1)
        BY <3>1
      <4>2. Answer(c, ok)
        BY <1>8, <2>3, <4>1, CallOvers
      <4>3. cpc \in [Clients -> {"idle", "setup", "set", "wait"}]
        BY DEF TypeOK
      <4> QED
        BY <4>2, <4>3 DEF Answer
    <3>3. acked'[c] = IF ~job.enable THEN acked[c] \ {Head(job.types)}
                      ELSE IF ok THEN acked[c] \cup {Head(job.types)}
                      ELSE acked[c]
      BY <1>8, <2>3, <3>1, <3>2, CallOverClient DEF Same
    <3>4. CASE D = Head(job.types) /\ job.enable /\ ok
      BY <1>8, <2>3, <3>4
    <3>5. CASE D # Head(job.types) \/ (job.enable /\ ~ok)
      <4>1. D \in acked[c]
        BY <1>1, <3>3, <3>5
      <4>2. want[c] # [devtype |-> D, enable |-> FALSE]
        BY <2>0, <3>1, <3>5
      <4>3. Present(servers, Entry(c, D)) /\ (job.enable \/ Retained(Entry(c, D)))
        BY <1>0, <1>2, <3>5, <4>1, <4>2 DEF Retained, Entry
      <4> QED
        BY <1>8, <4>3, EntriesStep
    <3> QED
      BY <1>1, <2>0, <3>3, <3>4, <3>5
  <2> QED
    BY <2>1, <2>2, <2>3
<1>9. CASE RpcThread
  <2>1. ASSUME NEW e \in Entries
        PROVE  Present(Append(servers, e), e)
    <3>1. servers \in Seq(Entries)
      BY DEF TypeOK, Entries
    <3> QED
      BY <3>1, AppendPresent
  <2>2. jpc = "backend" => KnownType(Head(job.types))
    BY DEF BackendOK, KnownType
  <2>3. \/ \E b \in Clients : TakeRequest(b) \/ DropServer(b)
        \/ jpc # "idle" /\ UNCHANGED <<job, clientVars>>
        \/ jpc # "idle" /\ CallOver(FALSE)
        \/ /\ jpc # "idle" /\ CallOver(TRUE) /\ KnownType(Head(job.types))
           /\ job.enable =>
                servers' = Append(servers, Entry(job.client, Head(job.types)))
    BY <1>9, <2>2, RpcSteps
  <2>4. jpc # "idle" /\ job.enable /\ KnownType(Head(job.types)) =>
          Entry(job.client, Head(job.types)) \in Entries
    BY NewEntry DEF Entry
  <2>5. CASE jpc # "idle" /\ CallOver(FALSE)
    BY <1>8, <1>9, <2>5
  <2>6. CASE /\ jpc # "idle" /\ CallOver(TRUE) /\ KnownType(Head(job.types))
             /\ job.enable =>
                  servers' = Append(servers, Entry(job.client, Head(job.types)))
    <3>1. job.enable => Present(servers', Entry(job.client, Head(job.types)))
      BY <2>1, <2>4, <2>6
    <3> QED
      BY <1>8, <1>9, <2>6, <3>1
  <2> QED
    BY <1>6, <1>7, <1>9, <2>3, <2>5, <2>6
<1> QED
  BY <1>4, <1>5, <1>9, StepKinds DEF mgrVars

-----------------------------------------------------------------------------
(* The theorems *)

LEMMA DeviceInit == Init => DeviceInv
<1> SUFFICES ASSUME Init PROVE DeviceInv
  OBVIOUS
<1> USE DeviceCollectionAssumption DEF Init
<1>1. TypeOK
  <2>1. servers \in Seq([client : Clients, devtype : DevTypes \ {{}}]) /\ todo \in Seq(Dirs)
    OBVIOUS
  <2>2. job \in [client : Clients \cup {None}, types : Seq(SUBSET Dirs),
                 enable : BOOLEAN, drop : BOOLEAN]
    BY DEF NoJob
  <2>3. want \in [Clients -> Wants]
    BY DEF Wants, NoWant
  <2>4. /\ regs \in [Clients -> 0..MaxRegs]
        /\ cbs \in [Clients -> [Dirs -> 0..MaxRegs]]
        /\ notes \in [Dirs -> 0..MaxNotes]
    OBVIOUS
  <2>5. /\ running \in [Clients -> SUBSET [dir : Dirs, ptr : 0..MaxRegs]]
        /\ req \in [Clients -> SUBSET Wants]
        /\ acked \in [Clients -> SUBSET DevTypes]
        /\ told \in [Dirs -> SUBSET Clients]
    OBVIOUS
  <2>6. /\ npc \in [Dirs -> {"idle", "lock", "next", "wait"}]
        /\ pos \in [Dirs -> Nat]
        /\ alive \in [Clients -> {"live", "gone", "dropped"}]
        /\ setup \in [Clients -> {"none", "server", "both"}]
        /\ cpc \in [Clients -> {"idle", "setup", "set", "wait"}]
        /\ note \in [Clients -> Dirs \cup {None, "done"}]
    OBVIOUS
  <2>7. /\ lock \in Dirs \cup {None, "rpc"} /\ enabled \subseteq Dirs
        /\ stopped \in BOOLEAN /\ jpc \in {"idle", "lock", "backend"}
    OBVIOUS
  <2> QED
    BY <2>1, <2>2, <2>3, <2>4, <2>5, <2>6, <2>7 DEF TypeOK
<1>2. LockOK
  BY DEF LockOK, Dirs
<1>3. ReqOK /\ JobOK /\ BackendOK /\ EnabledOK /\ NotifyOK
  BY DEF ReqOK, JobOK, BackendOK, EnabledOK, NotifyOK
<1>4. CallbackCurrent /\ AckedRegistered
  BY DEF CallbackCurrent, AckedRegistered
<1> QED
  BY <1>1, <1>2, <1>3, <1>4 DEF DeviceInv

LEMMA DeviceStep == DeviceInv /\ [Next]_vars => DeviceInv'
<1> SUFFICES ASSUME DeviceInv, [Next]_vars PROVE DeviceInv'
  OBVIOUS
<1> USE DEF DeviceInv
<1>1. TypeOK' /\ LockOK'
  BY TypeStep, LockStep
<1>2. ReqOK' /\ JobOK'
  BY ReqStep, JobStep
<1>3. BackendOK' /\ EnabledOK'
  BY BackendStep, EnabledStep
<1>4. NotifyOK' /\ CallbackCurrent'
  BY NotifyStep, CallbackStep
<1>5. AckedRegistered'
  BY AckedStep
<1> QED
  BY <1>1, <1>2, <1>3, <1>4, <1>5

\* The inductive invariant holds in every reachable state.
LEMMA DeviceInvariant == Spec => []DeviceInv
  BY DeviceInit, DeviceStep, PTL DEF Spec

\* Every variable keeps its type; in particular the manager never holds an
\* entry for DeviceType::UNKNOWN.
THEOREM TypeCorrect == Spec => []TypeOK
<1>1. DeviceInv => TypeOK
  BY DEF DeviceInv
<1> QED
  BY <1>1, DeviceInvariant, PTL

\* The manager's mutex is held by the RPC thread exactly while it is inside
\* internal_register, and by a backend thread exactly while it notifies: no
\* early return, error or dead client leaves it locked.
THEOREM MutexOwned == Spec => []LockOK
<1>1. DeviceInv => LockOK
  BY DEF DeviceInv
<1> QED
  BY <1>1, DeviceInvariant, PTL

\* The user callback in progress is the registered one, for any number of
\* registrations racing with notifications.
THEOREM CallbacksCurrent == Spec => []CallbackCurrent
<1>1. DeviceInv => CallbackCurrent
  BY DEF DeviceInv
<1> QED
  BY <1>1, DeviceInvariant, PTL

\* A registered client implies that cubeb notifies the manager of both
\* directions, whatever the backend refused before.
THEOREM BackendEnabled == Spec => []EnabledWhenServers
<1>1. DeviceInv => EnabledWhenServers
  BY DEF DeviceInv, EnabledOK, EnabledWhenServers
<1> QED
  BY <1>1, DeviceInvariant, PTL

\* A registration that returned Ok has its entry until its client unregisters
\* that device type or is gone.
THEOREM RegistrationsKept == Spec => []AckedRegistered
<1>1. DeviceInv => AckedRegistered
  BY DEF DeviceInv
<1> QED
  BY <1>1, DeviceInvariant, PTL

\* A notification that returns has told every connected client registered
\* for its direction, although clients disconnect while it runs.
THEOREM EveryoneNotified == Spec => NotifyAll
<1> DEFINE Told == \A d \in Dirs : npc[d] = "next" /\ npc'[d] = "idle" =>
          \A i \in 1..Len(servers) :
            d \in servers[i].devtype /\ alive[servers[i].client] = "live"
              => servers[i].client \in told[d]
<1>1. DeviceInv /\ [Next]_vars => Told
  <2> SUFFICES ASSUME DeviceInv, [Next]_vars, NEW d \in Dirs,
                      npc[d] = "next", npc'[d] = "idle"
               PROVE  \A i \in 1..Len(servers) :
                        d \in servers[i].devtype /\ alive[servers[i].client] = "live"
                          => servers[i].client \in told[d]
    OBVIOUS
  <2>1. TypeOK /\ NotifyOK
    BY DEF DeviceInv
  <2>2. \E e \in Dirs : BackendThread(e)
    BY StepKinds DEF notifyVars
  <2>3. BackendThread(d)
    BY <2>1, <2>2, BackendThreadSteps
  <2>4. pos[d] > Len(servers)
    BY <2>1, <2>3, BackendThreadSteps
  <2>5. pos[d] \in Nat /\ Len(servers) \in Nat
    BY <2>1 DEF TypeOK
  <2>6. \A i \in 1..Len(servers) : i < pos[d]
    BY <2>4, <2>5
  <2> QED
    BY <2>1, <2>6 DEF NotifyOK
<1>2. DeviceInv /\ [Next]_vars => [Told]_vars
  BY <1>1
<1> QED
  BY <1>2, DeviceInvariant, PTL DEF Spec, NotifyAll

-----------------------------------------------------------------------------
(* CubebServer::drop, when no client registers both directions in one call *)

\* An entry is the pair of its client and its device type.
LEMMA EntryForm ==
  ASSUME TypeOK, NEW i \in 1..Len(servers)
  PROVE  /\ servers[i] = Entry(servers[i].client, servers[i].devtype)
         /\ servers[i].client \in Clients /\ servers[i].devtype \in DevTypes \ {{}}
         /\ Present(servers, servers[i])
<1>1. servers[i] \in Entries
  BY EntryType
<1> QED
  BY <1>1 DEF Entries, Entry, Present

\* Once set up, a CubebServer stays so.
LEMMA SetupStays ==
  ASSUME TypeOK, ReqOK, JobOK, [Next]_vars, NEW c \in Clients, setup[c] # "none"
  PROVE  setup'[c] # "none"
<1>1. ASSUME NEW b \in Clients, ClientStep(b)
      PROVE  setup'[c] # "none"
  BY <1>1, ClientSteps DEF Same
<1>2. CASE UNCHANGED setup
  BY <1>2
<1> QED
  BY <1>1, <1>2, StepKinds DEF clientVars

\* The job of a drop, and the device type it is about.
LEMMA DropTypes ==
  ASSUME JobOK, jpc # "idle", job.drop
  PROVE  /\ ~job.enable
         /\ \/ Len(job.types) = 2 /\ Head(job.types) = {"input"}
            \/ Len(job.types) = 1 /\ Head(job.types) = {"output"}
<1>1. DropJob
  BY DEF JobOK
<1>2. /\ Len(DroppedTypes) = 2 /\ Head(DroppedTypes) = {"input"}
      /\ Len(Tail(DroppedTypes)) = 1 /\ Head(Tail(DroppedTypes)) = {"output"}
  BY DEF DroppedTypes
<1>3. job.types = DroppedTypes \/ job.types = Tail(DroppedTypes)
  BY <1>1 DEF DropJob
<1> QED
  BY <1>1, <1>2, <1>3 DEF DropJob

\* A manager call of a drop that is over has removed its entries.
LEMMA DropRemoves ==
  ASSUME TypeOK, JobOK, BackendOK, RpcThread, jpc # "idle", job.drop,
         jpc' # "backend", job' # job
  PROVE  \A e : Present(servers', e) => Present(servers, e) /\ Retained(e)
<1>1. Head(job.types) # {} /\ ~job.enable
  BY DropTypes
<1>2. CASE /\ jpc = "lock" /\ servers' = Retain(servers)
  <2>1. servers \in Seq(Entries)
    BY DEF TypeOK, Entries
  <2> QED
    BY <1>2, <2>1, RetainKeeps DEF Present
<1>3. CASE jpc = "backend" /\ UNCHANGED servers
  <2>1. Len(servers') = 0
    BY <1>3 DEF BackendOK
  <2> QED
    BY <2>1 DEF Present
<1> QED
  BY <1>1, <1>2, <1>3, RpcSteps DEF KnownType

\* The part of a drop that is done has removed the INPUT entries.
LEMMA InputStep ==
  ASSUME DeviceInv, EntriesOK, [Next]_vars, jpc' # "idle", job'.drop, Len(job'.types) = 1
  PROVE  ~Present(servers', Entry(job'.client, {"input"}))
<1> USE DEF DeviceInv
<1>0. job \in [client : Clients \cup {None}, types : Seq(SUBSET Dirs),
               enable : BOOLEAN, drop : BOOLEAN]
  BY DEF TypeOK
<1>1. CASE UNCHANGED <<servers, jpc, job>>
  BY <1>1 DEF EntriesOK, Present
<1>2. ASSUME NEW c \in Clients, TakeRequest(c)
      PROVE  FALSE
  <2>1. job'.drop = FALSE
    BY <1>2 DEF TakeRequest
  <2> QED
    BY <2>1
<1>3. ASSUME NEW c \in Clients, DropServer(c)
      PROVE  FALSE
  <2>1. job'.types = DroppedTypes
    BY <1>3 DEF DropServer
  <2> QED
    BY <2>1 DEF DroppedTypes
<1>4. CASE RpcThread /\ jpc # "idle" /\ UNCHANGED job
  <2>1. ~job.enable /\ ~Present(servers, Entry(job.client, {"input"}))
    BY <1>4, DropTypes DEF EntriesOK, Present
  <2> QED
    BY <1>4, <2>1, EntriesStep
<1>5. ASSUME RpcThread, jpc # "idle", job' # job, NEW ok \in BOOLEAN, CallOver(ok)
      PROVE  ~Present(servers', Entry(job'.client, {"input"}))
  <2>1. Len(job.types) > 1 /\ job' = [job EXCEPT !.types = Tail(@)] /\ jpc' = "lock"
    BY <1>5, CallOvers
  <2>2. job'.client = job.client /\ job'.drop = job.drop
    BY <1>0, <2>1
  <2>3. Head(job.types) = {"input"}
    <3>1. JobOK /\ job.drop /\ ~(1 > 1)
      BY <2>2
    <3> QED
      BY <1>5, <2>1, <3>1, DropTypes
  <2>4. ~Retained(Entry(job.client, {"input"}))
    BY <2>3 DEF Retained, Entry
  <2> QED
    BY <1>5, <2>1, <2>2, <2>4, DropRemoves
<1> QED
  BY <1>1, <1>2, <1>3, <1>4, <1>5, StepKinds, RpcKinds DEF mgrVars, jobVars

\* The last manager call of a drop leaves no entry of its client behind.
LEMMA LastRemoved ==
  ASSUME OneDirection, DeviceInv, EntriesOK, [Next]_vars, NEW D \in DevTypes \ {{}},
         jpc # "idle", jpc' = "idle", job.drop, ~(Len(job.types) > 1)
  PROVE  ~Present(servers', Entry(job.client, D))
<1> USE DEF DeviceInv
<1>1. RpcThread
  BY StepKinds DEF jobVars
<1>2. \E ok \in BOOLEAN : CallOver(ok)
  BY <1>1, RpcSteps
<1>3. Len(job.types) = 1 /\ Head(job.types) = {"output"} /\ ~job.enable
  <2>1. JobOK /\ 2 > 1
    OBVIOUS
  <2> QED
    BY <2>1, DropTypes
<1>4. job' # job
  <2>1. job' = NoJob
    BY <1>2, <1>3 DEF CallOver, JobOver
  <2> QED
    BY <2>1 DEF NoJob
<1>5. CASE D = {"output"}
  <2>1. ~Retained(Entry(job.client, D))
    BY <1>3, <1>5 DEF Retained, Entry
  <2> QED
    BY <1>1, <1>4, <2>1, DropRemoves
<1>6. CASE D = {"input"}
  <2>1. ~Present(servers, Entry(job.client, D))
    BY <1>3, <1>6 DEF EntriesOK, Present
  <2> QED
    BY <1>1, <1>4, <2>1, DropRemoves
<1> QED
  BY <1>5, <1>6 DEF OneDirection

\* An entry's CubebServer is set up and not dropped.
LEMMA EntryStep ==
  ASSUME OneDirection, DeviceInv, EntriesOK, NoDeadEntry, [Next]_vars,
         NEW i \in 1..Len(servers')
  PROVE  setup'[servers'[i].client] # "none" /\ alive'[servers'[i].client] # "dropped"
<1> USE DEF DeviceInv
<1> DEFINE e == servers'[i]
<1>1. TypeOK'
  BY DeviceStep
<1>2. PICK c \in Clients, D \in DevTypes \ {{}} : e = Entry(c, D)
  <2>1. e \in Entries
    <3>1. servers' \in Seq(Entries)
      BY <1>1 DEF TypeOK, Entries
    <3> QED
      BY <3>1
  <2> QED
    BY <2>1 DEF Entries, Entry
<1>3. e.client = c
  BY <1>2 DEF Entry
<1>4. Present(servers', Entry(c, D))
  BY <1>2 DEF Present
<1>5. CASE Present(servers, Entry(c, D))
  <2>1. PICK j \in 1..Len(servers) : servers[j] = Entry(c, D)
    BY <1>5 DEF Present
  <2>2. setup[c] # "none" /\ alive[c] # "dropped"
    <3>1. servers[j].client = c
      BY <2>1 DEF Entry
    <3> QED
      BY <3>1 DEF EntriesOK, NoDeadEntry
  <2>3. setup'[c] # "none"
    BY <2>2, SetupStays
  <2>4. alive'[c] # "dropped"
    BY <1>4, <2>2, AliveSteps, LastRemoved
  <2> QED
    BY <1>3, <2>3, <2>4
<1>6. CASE ~Present(servers, Entry(c, D))
  <2>1. RpcThread
    BY <1>4, <1>6, StepKinds DEF mgrVars
  <2>2. jpc # "idle" /\ job.enable /\ Entry(c, D) = Entry(job.client, Head(job.types))
    BY <1>4, <1>6, <2>1, EntriesStep
  <2>3. c = job.client
    BY <2>2 DEF Entry
  <2>4. ~job.drop
    BY <2>2, DropTypes
  <2>5. setup[c] # "none" /\ alive[c] # "dropped"
    BY <2>2, <2>3, <2>4 DEF JobOK, RequestJob
  <2>6. setup'[c] # "none"
    BY <2>5, SetupStays
  <2>7. alive'[c] # "dropped"
    BY <2>2, <2>4, <2>5, AliveSteps
  <2> QED
    BY <1>3, <2>6, <2>7
<1> QED
  BY <1>5, <1>6

\* No dropped CubebServer leaves an entry behind, whose callbacks would never
\* be removed, if no client registers both directions in one call.
THEOREM DropUnregisters == OneDirection /\ Spec => []NoDeadEntry
<1> SUFFICES ASSUME OneDirection PROVE Spec => []NoDeadEntry
  OBVIOUS
<1>1. Init => EntriesOK /\ NoDeadEntry
  BY DEF Init, EntriesOK, NoDeadEntry
<1>2. DeviceInv /\ EntriesOK /\ NoDeadEntry /\ [Next]_vars
        => EntriesOK' /\ NoDeadEntry'
  <2> SUFFICES ASSUME DeviceInv, EntriesOK, NoDeadEntry, [Next]_vars
               PROVE  EntriesOK' /\ NoDeadEntry'
    OBVIOUS
  <2>1. \A i \in 1..Len(servers') :
          setup'[servers'[i].client] # "none" /\ alive'[servers'[i].client] # "dropped"
    BY EntryStep
  <2>2. jpc' # "idle" /\ job'.drop /\ Len(job'.types) = 1 =>
          ~Present(servers', Entry(job'.client, {"input"}))
    BY InputStep
  <2> QED
    BY <2>1, <2>2 DEF EntriesOK, NoDeadEntry, Present
<1> QED
  BY <1>1, <1>2, DeviceInvariant, PTL DEF Spec

\* The manager is dropped with the last CubebServer.
LEMMA AllDropped == Spec => []StoppedOK
<1>1. Init => StoppedOK
  BY DEF Init, StoppedOK
<1>2. DeviceInv /\ StoppedOK /\ [Next]_vars => StoppedOK'
  <2> SUFFICES ASSUME DeviceInv, StoppedOK, [Next]_vars, stopped', NEW c \in Clients
               PROVE  alive'[c] = "dropped"
    BY DEF StoppedOK
  <2>1. CASE ServerStop
    BY <2>1 DEF ServerStop, clientVars
  <2>2. CASE stopped
    BY <2>2, AliveSteps DEF DeviceInv, StoppedOK
  <2> QED
    BY <2>1, <2>2, StepKinds
<1> QED
  BY <1>1, <1>2, DeviceInvariant, PTL DEF Spec

\* The assertion of CubebDeviceCollectionManager::drop holds as long as no
\* client registers both directions in one call.
THEOREM ManagerEmptied == OneDirection /\ Spec => []ManagerEmptyAtDrop
<1>1. DeviceInv /\ NoDeadEntry /\ StoppedOK => ManagerEmptyAtDrop
  <2> SUFFICES ASSUME DeviceInv, NoDeadEntry, StoppedOK, stopped
               PROVE  servers = <<>>
    BY DEF ManagerEmptyAtDrop
  <2>1. ASSUME NEW i \in 1..Len(servers)
        PROVE  FALSE
    BY <2>1, EntryForm DEF DeviceInv, NoDeadEntry, StoppedOK
  <2>2. servers \in Seq(Entries)
    BY DEF DeviceInv, TypeOK, Entries
  <2> QED
    BY <2>1, <2>2
<1> QED
  BY <1>1, DeviceInvariant, DropUnregisters, AllDropped, PTL

=============================================================================
