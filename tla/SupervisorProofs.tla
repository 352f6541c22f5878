--------------------------- MODULE SupervisorProofs ---------------------------
(***************************************************************************)
(* Theorems about Supervisor: however flags are spelt and whatever is      *)
(* killed, a command never becomes more than one supervisor with one       *)
(* server, and under --no-detach the supervisor is the process typed.      *)
(***************************************************************************)
EXTENDS Supervisor, FiniteSetTheorems, TLAPS

(* A worker never supervises, and only a worker or a command without       *)
(* --daemon listens.  A process that was typed has inherited nothing.      *)
Roles ==
  \A s \in Slots :
    /\ Supervises(s) => ~Worker(s)
    /\ Serves(s) => Worker(s) \/ ~Daemon(s)
    /\ Typed(s) => proc[s].env = {} /\ ~Worker(s)
    /\ Alive(s) => proc[s].kin \in 1 .. launches

(* What a supervisor waits for is a worker of its own.                     *)
Waits(s) == proc[s].pc = "wait"
Waiting ==
  \A s \in Slots : Waits(s) =>
    /\ Alive(proc[s].child) => Worker(proc[s].child)
    /\ \A u \in Slots : Waits(u) /\ proc[u].child = proc[s].child => u = s

(* Ports are held by processes that listen or serve.                       *)
Holding == \A p \in Ports : holder[p] \in Slots => Serves(holder[p])

(* Who may start another process is the only one its command has become;   *)
(* who waits has no company but the worker it waits for; and a process     *)
(* that does not supervise is the only one of this sort.                   *)
May(s) == proc[s].pc \in {"start", "sleep"} \/ (proc[s].pc = "main" /\ ~Worker(s))
Kin(s, u) == Alive(s) /\ Alive(u) /\ proc[u].kin = proc[s].kin
Family ==
  \A s, u \in Slots : Kin(s, u) =>
    /\ May(s) => u = s
    /\ Waits(s) => u = s \/ u = proc[s].child
    /\ ~Supervises(s) /\ ~Supervises(u) => u = s

IInv == TypeOK /\ Roles /\ Waiting /\ Holding /\ Family

----------------------------------------------------------------------------
Kinds == [pc : PCs, args : CommandLines, env : SUBSET {"internal", "daemonized"},
          kin : 0 .. MaxLaunches, typed : BOOLEAN, child : Slots \cup {0}]

LEMMA FreeIs ==
  /\ Free \in Kinds /\ Free.pc = "free" /\ Free.child = 0
  /\ [Free EXCEPT !.pc = "zombie"] \in Kinds
  /\ [Free EXCEPT !.pc = "zombie"].pc = "zombie" /\ [Free EXCEPT !.pc = "zombie"].child = 0
<1>1. 0 \in 0 .. MaxLaunches
  BY SupervisorAssumption DEF SupervisorAssumption
<1>2. NoArgs \in CommandLines
  BY DEF NoArgs, CommandLines, Spelling
<1> QED
  BY <1>1, <1>2 DEF Free, Kinds, PCs

(* The arguments of a child are a command line again.                      *)
LEMMA Rewritten ==
  ASSUME NEW args \in CommandLines
  PROVE  /\ ArgsWithoutDaemon(args) \in CommandLines
         /\ ArgsWithoutDaemon(args).worker = args.worker
         /\ Removed(Removed(args, "daemon"), "forever") \in CommandLines
BY DEF ArgsWithoutDaemon, Removed, CommandLines, Spelling

LEMMA WorkerArgsAre ==
  ASSUME TypeOK, NEW s \in Slots
  PROVE  WorkerArgs(s) \in CommandLines /\ WorkerArgs(s).worker
<1>1. proc[s].args \in CommandLines
  BY DEF TypeOK
<1>2. Removed(Removed(proc[s].args, "daemon"), "forever") \in CommandLines
  BY <1>1, Rewritten
<1> QED
  BY <1>2 DEF WorkerArgs, CommandLines

(* What is known of each process, and of who waits.                        *)
LEMMA Known ==
  ASSUME TypeOK, NEW s \in Slots
  PROVE  /\ proc[s] \in Kinds /\ proc[s].pc \in PCs /\ proc[s].args \in CommandLines
         /\ proc[s].env \in SUBSET {"internal", "daemonized"} /\ proc[s].kin \in 0 .. MaxLaunches
         /\ Waits(s) => proc[s].child \in Slots /\ proc[proc[s].child].pc # "free"
         /\ ~Waits(s) => proc[s].child = 0
<1>1. proc[s] \in Kinds
  BY DEF TypeOK, Kinds
<1>2. /\ proc[s].child # 0 <=> proc[s].pc = "wait"
      /\ proc[s].pc = "wait" => proc[proc[s].child].pc # "free"
  BY DEF TypeOK
<1>3. /\ proc[s].pc \in PCs /\ proc[s].args \in CommandLines
      /\ proc[s].env \in SUBSET {"internal", "daemonized"} /\ proc[s].kin \in 0 .. MaxLaunches
      /\ proc[s].child \in Slots \cup {0}
  BY <1>1 DEF Kinds
<1> QED
  BY <1>1, <1>2, <1>3 DEF Waits

(* The end of a process leaves every other as it was, except a zombie that *)
(* nobody else waits for.                                                  *)
LEMMA Leaving ==
  ASSUME TypeOK, Waiting, NEW s \in Slots
  PROVE  /\ Without(s) \in [Slots -> Kinds]
         /\ Without(s)[s].pc \in {"free", "zombie"} /\ Without(s)[s].child = 0
         /\ \A u \in Slots \ {s} :
              Without(s)[u] = proc[u] \/ (proc[u].pc = "zombie" /\ Without(s)[u] = Free)
         /\ \A u \in Slots \ {s} : Waits(u) => Without(s)[proc[u].child].pc # "free"
<1>1. proc \in [Slots -> Kinds]
  BY DEF TypeOK, Kinds
<1>2. Without(s) \in [Slots -> Kinds]
  BY <1>1, FreeIs DEF Without
<1>3. Without(s)[s] \in {Free, [Free EXCEPT !.pc = "zombie"]}
  BY DEF Without
<1>4. Without(s)[s].pc \in {"free", "zombie"} /\ Without(s)[s].child = 0
  BY <1>3, FreeIs
<1>5. ASSUME NEW u \in Slots \ {s}
      PROVE  Without(s)[u] = proc[u] \/ (proc[u].pc = "zombie" /\ Without(s)[u] = Free)
  BY DEF Without
<1>6. ASSUME NEW u \in Slots \ {s}, Waits(u) PROVE Without(s)[proc[u].child].pc # "free"
  <2>1. proc[u].child \in Slots /\ proc[proc[u].child].pc # "free" /\ proc[u].child # 0
    BY <1>6, Known, SupervisorAssumption DEF SupervisorAssumption
  <2>2. CASE proc[u].child = s
    <3>1. WaitedFor(s)
      BY <1>6, <2>2 DEF WaitedFor, Waits
    <3> QED
      BY <2>2, <3>1, FreeIs DEF Without
  <2>3. CASE proc[u].child # s
    <3>1. proc[u].child # proc[s].child
      <4>1. CASE Waits(s)
        BY <1>6, <4>1 DEF Waiting
      <4>2. CASE ~Waits(s)
        BY <2>1, <4>2, Known
      <4> QED
        BY <4>1, <4>2
    <3> QED
      BY <2>1, <2>3, <3>1 DEF Without
  <2> QED
    BY <2>2, <2>3
<1> QED
  BY <1>2, <1>4, <1>5, <1>6

LEMMA InitIInv == Init => IInv
<1> SUFFICES ASSUME Init PROVE IInv
  OBVIOUS
<1>1. /\ proc \in [Slots -> Kinds]
      /\ \A s \in Slots : proc[s].pc = "free" /\ proc[s].child = 0
  BY FreeIs DEF Init
<1>2. 0 \notin Slots
  BY SupervisorAssumption DEF SupervisorAssumption
<1>3. TypeOK
  BY <1>1, <1>2, SupervisorAssumption DEF Init, TypeOK, Kinds, Nobody, SupervisorAssumption
<1>4. Roles /\ Waiting /\ Family
  BY <1>1 DEF Roles, Waiting, Family, Supervises, Serves, Typed, Alive, Waits, Kin
<1>5. Holding
  BY <1>2 DEF Init, Holding, Nobody
<1> QED
  BY <1>3, <1>4, <1>5 DEF IInv

----------------------------------------------------------------------------
(* A step after which every process alive is one that was.                 *)
LEMMA NobodyNew ==
  ASSUME IInv, launches' = launches, \A u \in Slots : Alive(u)' => Alive(u) /\ proc'[u] = proc[u]
  PROVE  Roles' /\ Waiting' /\ Family'
<1> USE DEF IInv
<1>1. \A u \in Slots : (Waits(u) \/ Supervises(u) \/ Serves(u) \/ Typed(u))' => Alive(u)'
  BY DEF Waits, Supervises, Serves, Typed, Alive
<1>2. Roles'
  BY <1>1 DEF Roles, Supervises, Serves, Typed, Alive, Worker, Daemon
<1>3. Waiting'
  <2> SUFFICES ASSUME NEW s \in Slots, Waits(s)'
               PROVE  /\ Alive(proc[s].child)' => Worker(proc[s].child)'
                      /\ \A u \in Slots : (Waits(u) /\ proc[u].child = proc[s].child)' => u = s
    BY DEF Waiting
  <2>1. proc'[s] = proc[s] /\ Waits(s) /\ proc[s].child \in Slots
    BY <1>1, Known DEF Waits
  <2>2. Alive(proc[s].child)' => Worker(proc[s].child)'
    BY <2>1 DEF Waiting, Worker
  <2>3. ASSUME NEW u \in Slots, (Waits(u) /\ proc[u].child = proc[s].child)' PROVE u = s
    <3>1. proc'[u] = proc[u]
      BY <1>1, <2>3
    <3> QED
      BY <2>1, <2>3, <3>1 DEF Waiting, Waits
  <2> QED
    BY <2>2, <2>3
<1>4. Family'
  <2> SUFFICES ASSUME NEW s \in Slots, NEW u \in Slots, Kin(s, u)'
               PROVE  /\ May(s)' => u = s
                      /\ Waits(s)' => u = s \/ u = proc'[s].child
                      /\ ~Supervises(s)' /\ ~Supervises(u)' => u = s
    BY DEF Family
  <2>1. proc'[s] = proc[s] /\ proc'[u] = proc[u] /\ Kin(s, u)
    BY DEF Kin
  <2> QED
    BY <2>1 DEF Family, May, Waits, Supervises, Worker
<1> QED
  BY <1>2, <1>3, <1>4

(* A process ends, of itself or because it is killed, and frees its ports. *)
Ended(s) ==
  /\ proc' = Without(s)
  /\ holder' = [p \in Ports |-> IF p \in Bound(s) THEN Nobody ELSE holder[p]]
  /\ deaf' = deaf \ Bound(s)
  /\ launches' = launches /\ kills' \in 0 .. MaxKills /\ seizures' = seizures
LEMMA EndStep ==
  ASSUME IInv, NEW s \in Slots, Ended(s)
  PROVE  IInv'
<1>1. TypeOK /\ Waiting /\ Holding /\ 0 \notin Slots
  BY SupervisorAssumption DEF IInv, SupervisorAssumption
<1>2. /\ proc' \in [Slots -> Kinds]
      /\ proc'[s].pc \in {"free", "zombie"} /\ proc'[s].child = 0
      /\ \A u \in Slots \ {s} : proc'[u] = proc[u] \/ (proc[u].pc = "zombie" /\ proc'[u] = Free)
      /\ \A u \in Slots \ {s} : Waits(u) => proc'[proc[u].child].pc # "free"
  BY <1>1, Leaving DEF Ended
<1>3. \A u \in Slots : Alive(u)' => Alive(u) /\ proc'[u] = proc[u] /\ u # s
  BY <1>2, FreeIs DEF Alive
<1>4. Roles' /\ Waiting' /\ Family'
  BY <1>3, NobodyNew DEF Ended
<1>5. \A p \in Ports : holder'[p] \in Slots => holder'[p] = holder[p] /\ holder[p] # s
  BY <1>1 DEF Ended, Bound, Nobody
<1>6. \A u \in Slots : Serves(u) /\ u # s => Alive(u)' /\ Serves(u)'
  BY <1>2 DEF Serves, Alive
<1>7. Holding' /\ \A p \in Ports : holder'[p] \in Slots => Alive(holder[p])'
  BY <1>1, <1>5, <1>6 DEF Holding, Serves
<1>8. TypeOK'
  <2>1. holder' \in [Ports -> Slots \cup {Nobody, Foreign}]
    BY <1>1 DEF Ended, TypeOK
  <2>2. ASSUME NEW u \in Slots
        PROVE  /\ proc'[u].child # 0 <=> proc'[u].pc = "wait"
               /\ proc'[u].pc = "wait" => proc'[proc'[u].child].pc # "free"
    <3>1. CASE u = s
      BY <1>2, <3>1
    <3>2. CASE u # s /\ proc'[u] = proc[u]
      BY <1>1, <1>2, <3>2, Known DEF Waits
    <3>3. CASE u # s /\ proc'[u] = Free
      BY <3>3, FreeIs
    <3> QED
      BY <1>2, <3>1, <3>2, <3>3
  <2>3. deaf' \subseteq {p \in Ports : holder'[p] \in Slots}
    BY <1>1 DEF Ended, TypeOK, Bound
  <2>4. launches' \in 0 .. MaxLaunches /\ kills' \in 0 .. MaxKills /\ seizures' \in 0 .. MaxSeizures
    BY <1>1 DEF Ended, TypeOK
  <2> QED
    BY <1>2, <1>7, <2>1, <2>2, <2>3, <2>4 DEF TypeOK, Kinds
<1> QED
  BY <1>4, <1>7, <1>8 DEF IInv

(* A process that runs becomes what its arguments say, if only one of its  *)
(* command may become that.                                                *)
LEMMA BecomeStep ==
  ASSUME IInv, NEW s \in Slots, NEW pc \in {"start", "sleep", "listen", "serve"},
         NEW env \in SUBSET proc[s].env, Become(s, pc, env), Alive(s), ~Waits(s),
         pc \in {"start", "sleep"} => May(s) /\ ~Worker(s) /\ ~Serves(s),
         pc \in {"listen", "serve"} => ~Supervises(s) /\ (Worker(s) \/ ~Daemon(s))
  PROVE  IInv'
<1> USE DEF IInv
<1>0. 0 \notin Slots
  BY SupervisorAssumption DEF SupervisorAssumption
<1>1. /\ proc \in [Slots -> Kinds] /\ proc[s] \in Kinds /\ env \in SUBSET {"internal", "daemonized"}
      /\ proc' = [proc EXCEPT ![s].pc = pc, ![s].env = env]
      /\ UNCHANGED <<holder, deaf, launches, kills, seizures>>
  BY Known DEF Become, TypeOK, Kinds, bounds
<1>2. /\ proc'[s].pc = pc /\ proc'[s].env = env /\ proc'[s].args = proc[s].args
      /\ proc'[s].kin = proc[s].kin /\ proc'[s].typed = proc[s].typed /\ proc'[s].child = 0
      /\ proc' \in [Slots -> Kinds]
  <2>1. proc'[s] = [proc[s] EXCEPT !.pc = pc, !.env = env] /\ proc[s].child = 0 /\ pc \in PCs
    BY <1>1, Known DEF PCs
  <2>2. proc'[s] \in Kinds
    BY <1>1, <2>1 DEF Kinds
  <2> QED
    BY <1>1, <2>1, <2>2 DEF Kinds
<1>3. \A u \in Slots : u # s => proc'[u] = proc[u]
  BY <1>1
<1>4. \A u \in Slots : (Alive(u)' <=> Alive(u)) /\ (Waits(u)' <=> Waits(u) /\ u # s)
  BY <1>2, <1>3 DEF Alive, Waits
<1>5. TypeOK'
  <2>1. ASSUME NEW u \in Slots
        PROVE  /\ proc'[u].child # 0 <=> proc'[u].pc = "wait"
               /\ proc'[u].pc = "wait" => proc'[proc'[u].child].pc # "free"
    <3>1. CASE u = s
      BY <1>2, <3>1
    <3>2. CASE u # s
      <4>1. proc'[u] = proc[u] /\ (Waits(u) => proc[u].child \in Slots /\ proc[proc[u].child].pc # "free")
        BY <1>3, <3>2, Known
      <4>2. Waits(u) => proc'[proc[u].child].pc # "free"
        BY <1>2, <1>3, <4>1
      <4> QED
        BY <1>0, <4>1, <4>2, Known DEF Waits
    <3> QED
      BY <3>1, <3>2
  <2>2. \A p \in Ports : holder'[p] \in Slots => Alive(holder[p])'
    BY <1>1, <1>4 DEF TypeOK
  <2> QED
    BY <1>1, <1>2, <2>1, <2>2 DEF TypeOK, Kinds
<1>6. Roles'
  BY <1>1, <1>2, <1>3, <1>4 DEF Roles, Supervises, Serves, Typed, Worker, Daemon
<1>7. Waiting'
  <2>1. \A u \in Slots : Waits(u)' => Waits(u) /\ proc'[u].child = proc[u].child /\ proc[u].child \in Slots
    BY <1>3, <1>4, Known
  <2>2. \A u \in Slots : Worker(u)' = Worker(u)
    BY <1>2, <1>3 DEF Worker
  <2> QED
    BY <1>4, <2>1, <2>2 DEF Waiting
<1>8. Holding'
  <2>1. \A u \in Slots : Serves(u) => Serves(u)'
    BY <1>2, <1>3 DEF Serves
  <2> QED
    BY <1>1, <2>1 DEF Holding
<1>9. Family'
  <2> SUFFICES ASSUME NEW t \in Slots, NEW u \in Slots, Kin(t, u)'
               PROVE  /\ May(t)' => u = t
                      /\ Waits(t)' => u = t \/ u = proc'[t].child
                      /\ ~Supervises(t)' /\ ~Supervises(u)' => u = t
    BY DEF Family
  <2>1. Kin(t, u)
    BY <1>2, <1>3, <1>4 DEF Kin
  <2>2. May(t)' => May(t)
    BY <1>2, <1>3 DEF May, Worker
  <2>3. Waits(t)' => Waits(t) /\ proc'[t] = proc[t]
    BY <1>3, <1>4
  <2>4. \A v \in Slots : ~Supervises(v)' => ~Supervises(v)
    BY <1>2, <1>3 DEF Supervises
  <2> QED
    BY <2>1, <2>2, <2>3, <2>4 DEF Family
<1> QED
  BY <1>5, <1>6, <1>7, <1>8, <1>9

(* A process is started in a free slot, and of those that remain none is   *)
(* of its command.                                                         *)
LEMMA BirthStep ==
  ASSUME IInv, NEW t \in Slots, proc[t].pc = "free", proc' \in [Slots -> Kinds],
         proc'[t].pc = "main", proc'[t].child = 0, proc'[t].kin \in 1 .. launches',
         proc'[t].typed => proc'[t].env = {} /\ ~proc'[t].args.worker,
         launches' \in launches .. MaxLaunches, UNCHANGED <<kills, seizures, holder, deaf>>,
         \A u \in Slots : u # t /\ Alive(u)' =>
                            Alive(u) /\ proc'[u] = proc[u] /\ proc[u].kin # proc'[t].kin,
         \A u \in Slots : u # t /\ ~Alive(u)' => ~Serves(u) /\ proc'[u].child = 0,
         \A u \in Slots : Waits(u)' => proc'[proc'[u].child].pc # "free"
  PROVE  IInv'
<1> USE DEF IInv
<1>0. 0 \notin Slots /\ launches \in Nat /\ MaxLaunches \in Nat
  BY SupervisorAssumption DEF SupervisorAssumption, TypeOK
<1>1. /\ ~Alive(t) /\ Alive(t)' /\ ~Waits(t)' /\ ~Supervises(t)' /\ ~Serves(t)'
  BY DEF Alive, Waits, Supervises, Serves
<1>2. \A u \in Slots : Waits(u)' => /\ Waits(u) /\ u # t /\ proc'[u] = proc[u]
                                     /\ proc[u].child \in Slots /\ proc[u].child # t
  BY <1>1, Known DEF Waits, Alive
<1>3. TypeOK'
  <2>1. ASSUME NEW u \in Slots
        PROVE  /\ proc'[u].child # 0 <=> proc'[u].pc = "wait"
               /\ proc'[u].pc = "wait" => proc'[proc'[u].child].pc # "free"
    <3>1. CASE u = t
      BY <1>1, <3>1
    <3>2. CASE u # t /\ ~Alive(u)'
      BY <3>2 DEF Alive
    <3>3. CASE u # t /\ Alive(u)' /\ ~Waits(u)'
      BY <3>3, Known DEF Waits
    <3>4. CASE u # t /\ Waits(u)'
      BY <1>0, <1>2, <3>4 DEF Waits
    <3> QED
      BY <3>1, <3>2, <3>3, <3>4
  <2>2. \A p \in Ports : holder'[p] \in Slots => Alive(holder[p])'
    BY <1>1 DEF Holding
  <2>3. /\ holder' \in [Ports -> Slots \cup {Nobody, Foreign}]
        /\ deaf' \subseteq {p \in Ports : holder'[p] \in Slots}
        /\ launches' \in 0 .. MaxLaunches /\ kills' \in 0 .. MaxKills /\ seizures' \in 0 .. MaxSeizures
    BY <1>0 DEF TypeOK
  <2> QED
    BY <2>1, <2>2, <2>3 DEF TypeOK, Kinds
<1>4. Roles'
  <2> SUFFICES ASSUME NEW u \in Slots, Alive(u)'
               PROVE  /\ Supervises(u)' => ~Worker(u)'
                      /\ Serves(u)' => Worker(u)' \/ ~Daemon(u)'
                      /\ Typed(u)' => proc'[u].env = {} /\ ~Worker(u)'
                      /\ proc'[u].kin \in 1 .. launches'
    BY DEF Roles, Supervises, Serves, Alive, Typed
  <2>1. CASE u = t
    BY <2>1 DEF Typed, Worker, Supervises, Serves
  <2>2. CASE u # t
    BY <1>0, <2>2 DEF Roles, Supervises, Serves, Alive, Typed, Worker, Daemon
  <2> QED
    BY <2>1, <2>2
<1>5. Waiting'
  <2>1. \A u \in Slots : Alive(u)' /\ u # t => Alive(u) /\ Worker(u)' = Worker(u)
    BY DEF Worker
  <2> QED
    BY <1>2, <2>1 DEF Waiting
<1>6. Holding'
  <2>1. \A u \in Slots : Serves(u) => Serves(u)'
    BY <1>1 DEF Serves, Alive
  <2> QED
    BY <2>1 DEF Holding
<1>7. Family'
  <2> SUFFICES ASSUME NEW u \in Slots, NEW v \in Slots, Kin(u, v)'
               PROVE  /\ May(u)' => v = u
                      /\ Waits(u)' => v = u \/ v = proc'[u].child
                      /\ ~Supervises(u)' /\ ~Supervises(v)' => v = u
    BY DEF Family
  <2>1. CASE u = t \/ v = t
    BY <1>1, <2>1 DEF Kin
  <2>2. CASE u # t /\ v # t
    <3>1. Kin(u, v) /\ proc'[u] = proc[u] /\ proc'[v] = proc[v]
      BY <2>2 DEF Kin
    <3> QED
      BY <3>1 DEF Family, May, Waits, Supervises, Worker
  <2> QED
    BY <2>1, <2>2
<1> QED
  BY <1>3, <1>4, <1>5, <1>6, <1>7

(* A command that is typed is the first process of its command.            *)
LEMMA LaunchStep == IInv /\ Launch => IInv'
<1> SUFFICES ASSUME IInv, Launch PROVE IInv'
  OBVIOUS
<1> USE DEF IInv
<1>1. PICK t \in Slots, a \in Commands :
        Vacant(t) /\ proc' = [proc EXCEPT ![t] = Process(a, {}, launches + 1, TRUE)]
  BY DEF Launch
<1>2. /\ a \in CommandLines /\ ~a.worker /\ launches \in Nat /\ MaxLaunches \in Nat
      /\ launches' = launches + 1 /\ launches + 1 \in 1 .. MaxLaunches
      /\ UNCHANGED <<kills, seizures, holder, deaf>>
  BY SupervisorAssumption DEF SupervisorAssumption, Launch, TypeOK
<1>3. proc[t].pc = "free" /\ proc \in [Slots -> Kinds]
  BY <1>1 DEF Vacant, TypeOK, Kinds
<1>4. LET new == Process(a, {}, launches + 1, TRUE)
      IN  new \in Kinds /\ new.pc = "main" /\ new.child = 0 /\ new.kin = launches + 1
          /\ new.env = {} /\ ~new.args.worker
  <2> DEFINE k == launches + 1
  <2>1. k \in 0 .. MaxLaunches /\ a \in CommandLines /\ ~a.worker
    BY <1>2
  <2> HIDE DEF k
  <2> SUFFICES LET new == Process(a, {}, k, TRUE)
               IN  new \in Kinds /\ new.pc = "main" /\ new.child = 0 /\ new.kin = k
                   /\ new.env = {} /\ ~new.args.worker
    BY DEF k
  <2> QED
    BY <2>1 DEF Process, Free, Kinds, PCs
<1>5. /\ proc'[t] \in Kinds /\ proc'[t].pc = "main" /\ proc'[t].child = 0 /\ proc'[t].kin = launches + 1
      /\ proc'[t].env = {} /\ ~proc'[t].args.worker /\ proc' \in [Slots -> Kinds]
      /\ \A u \in Slots : u # t => proc'[u] = proc[u]
  BY <1>1, <1>3, <1>4
<1>6. ASSUME NEW u \in Slots, u # t, Alive(u)'
      PROVE  Alive(u) /\ proc'[u] = proc[u] /\ proc[u].kin # launches + 1
  BY <1>2, <1>5, <1>6 DEF Roles, Alive
<1>7. ASSUME NEW u \in Slots, u # t, ~Alive(u)' PROVE ~Serves(u) /\ proc'[u].child = 0
  BY <1>5, <1>7, Known DEF Alive, Serves, Waits
<1>8. ASSUME NEW u \in Slots, Waits(u)' PROVE proc'[proc'[u].child].pc # "free"
  <2>1. Waits(u) /\ proc'[u] = proc[u]
    BY <1>5, <1>8 DEF Waits
  <2> QED
    BY <1>5, <2>1, Known
<1>9. launches' \in launches .. MaxLaunches /\ launches + 1 \in 1 .. launches'
  BY <1>2
<1> QED
  BY <1>2, <1>3, <1>5, <1>6, <1>7, <1>8, <1>9, BirthStep

(* A process that is the only one of its command hands over and ends.      *)
LEMMA HandOverStep ==
  ASSUME IInv, NEW s \in Slots, proc[s].pc = "main", ~Worker(s), NEW args \in CommandLines,
         NEW env \in SUBSET {"internal", "daemonized"}, HandOver(s, args, env)
  PROVE  IInv'
<1> USE DEF IInv
<1>1. CASE End(s)
  BY <1>1, EndStep DEF End, Ended, bounds, TypeOK
<1>2. ASSUME NEW t \in Slots, Vacant(t), UNCHANGED <<holder, deaf, bounds>>,
             proc' = [Without(s) EXCEPT ![t] = Process(args, env, proc[s].kin, FALSE)]
      PROVE  IInv'
  <2>1. /\ proc[t].pc = "free" /\ t # s /\ launches' = launches /\ UNCHANGED <<kills, seizures, holder, deaf>>
    BY <1>2 DEF Vacant, bounds
  <2>2. /\ Alive(s) /\ launches \in 0 .. MaxLaunches /\ MaxLaunches \in Nat
        /\ proc[s].kin \in 1 .. launches /\ proc[s].kin \in 1 .. MaxLaunches
    <3>1. Alive(s) /\ launches \in 0 .. MaxLaunches /\ MaxLaunches \in Nat
      BY SupervisorAssumption DEF SupervisorAssumption, TypeOK, Alive
    <3>2. proc[s].kin \in 1 .. launches
      BY <3>1 DEF Roles
    <3> QED
      BY <3>1, <3>2
  <2>3. LET new == Process(args, env, proc[s].kin, FALSE)
        IN  new \in Kinds /\ new.pc = "main" /\ new.child = 0 /\ new.kin = proc[s].kin /\ ~new.typed
    <3>1. proc[s].kin \in 0 .. MaxLaunches
      BY Known
    <3> QED
      BY <3>1 DEF Process, Free, Kinds, PCs
  <2>4. /\ Without(s) \in [Slots -> Kinds]
        /\ Without(s)[s].pc \in {"free", "zombie"} /\ Without(s)[s].child = 0
        /\ \A u \in Slots \ {s} :
             Without(s)[u] = proc[u] \/ (proc[u].pc = "zombie" /\ Without(s)[u] = Free)
        /\ \A u \in Slots \ {s} : Waits(u) => Without(s)[proc[u].child].pc # "free"
    BY Leaving
  <2>5. /\ proc'[t].pc = "main" /\ proc'[t].child = 0 /\ proc'[t].kin = proc[s].kin /\ ~proc'[t].typed
        /\ proc' \in [Slots -> Kinds] /\ \A u \in Slots : u # t => proc'[u] = Without(s)[u]
    BY <1>2, <2>3, <2>4
  <2>6. ASSUME NEW u \in Slots, u # t, Alive(u)'
        PROVE  Alive(u) /\ proc'[u] = proc[u] /\ proc[u].kin # proc[s].kin
    <3>1. u # s /\ proc'[u] = proc[u] /\ Alive(u)
      BY <2>4, <2>5, <2>6, FreeIs DEF Alive
    <3>2. proc[u].kin # proc[s].kin
      BY <2>2, <3>1 DEF Family, Kin, May
    <3> QED
      BY <3>1, <3>2
  <2>7. ASSUME NEW u \in Slots, u # t, ~Alive(u)' PROVE ~Serves(u) /\ proc'[u].child = 0
    <3>1. CASE u = s
      BY <2>4, <2>5, <2>7, <3>1 DEF Serves
    <3>2. CASE u # s /\ proc'[u] = proc[u]
      BY <2>7, <3>2, Known DEF Alive, Serves, Waits
    <3>3. CASE u # s /\ proc[u].pc = "zombie" /\ proc'[u] = Free
      BY <3>3, FreeIs DEF Serves
    <3> QED
      BY <2>4, <2>5, <2>7, <3>1, <3>2, <3>3
  <2>8. ASSUME NEW u \in Slots, Waits(u)' PROVE proc'[proc'[u].child].pc # "free"
    <3>1. u # t /\ u # s /\ proc'[u] = proc[u] /\ Waits(u)
      <4>1. proc'[u].pc = "wait"
        BY <2>8 DEF Waits
      <4> QED
        BY <2>4, <2>5, <4>1, FreeIs DEF Waits
    <3>2. proc[u].child \in Slots
      BY <3>1, Known
    <3>3. Without(s)[proc[u].child].pc # "free"
      BY <2>4, <3>1
    <3> QED
      BY <2>5, <3>1, <3>2, <3>3
  <2>9. launches' \in launches .. MaxLaunches /\ proc[s].kin \in 1 .. launches'
    BY <2>1, <2>2
  <2> QED
    BY <2>1, <2>2, <2>5, <2>6, <2>7, <2>8, <2>9, BirthStep
<1> QED
  BY <1>1, <1>2 DEF HandOver

(* A supervisor that has no worker starts one and waits for it.            *)
LEMMA StartWorkerStep ==
  ASSUME IInv, NEW s \in Slots, StartWorker(s)
  PROVE  IInv'
<1> USE DEF IInv
<1>0. 0 \notin Slots
  BY SupervisorAssumption DEF SupervisorAssumption
<1>1. PICK t \in Slots :
        Vacant(t) /\ proc' = [proc EXCEPT ![s].pc = "wait", ![s].child = t,
                                          ![t] = Process(WorkerArgs(s), proc[s].env, proc[s].kin, FALSE)]
  BY DEF StartWorker
<1>2. /\ proc[s].pc = "start" /\ proc[t].pc = "free" /\ t # s /\ proc \in [Slots -> Kinds]
      /\ UNCHANGED <<holder, deaf, launches, kills, seizures>>
  BY <1>1 DEF StartWorker, Vacant, TypeOK, Kinds, bounds
<1>3. LET new == Process(WorkerArgs(s), proc[s].env, proc[s].kin, FALSE)
      IN  new \in Kinds /\ new.pc = "main" /\ new.child = 0 /\ new.kin = proc[s].kin /\ ~new.typed
          /\ new.args.worker
  <2>1. WorkerArgs(s) \in CommandLines /\ WorkerArgs(s).worker
    BY WorkerArgsAre
  <2>2. proc[s].env \in SUBSET {"internal", "daemonized"} /\ proc[s].kin \in 0 .. MaxLaunches
    BY Known
  <2> QED
    BY <2>1, <2>2 DEF Process, Free, Kinds, PCs
<1>4. /\ proc'[t] \in Kinds /\ proc'[t].pc = "main" /\ proc'[t].child = 0 /\ ~proc'[t].typed
      /\ proc'[t].kin = proc[s].kin /\ proc'[t].args.worker
  BY <1>1, <1>2, <1>3
<1>5. /\ proc'[s] \in Kinds /\ proc'[s].pc = "wait" /\ proc'[s].child = t /\ proc'[s].kin = proc[s].kin
      /\ proc'[s].args = proc[s].args /\ proc'[s].env = proc[s].env /\ proc'[s].typed = proc[s].typed
  <2>1. proc'[s] = [proc[s] EXCEPT !.pc = "wait", !.child = t] /\ proc[s] \in Kinds
    BY <1>1, <1>2
  <2> QED
    BY <2>1 DEF Kinds, PCs
<1>6. proc' \in [Slots -> Kinds] /\ \A u \in Slots \ {s, t} : proc'[u] = proc[u]
  BY <1>1, <1>2, <1>4, <1>5
<1>7. /\ \A u \in Slots : (Alive(u)' <=> Alive(u) \/ u = t) /\ (Waits(u)' <=> Waits(u) \/ u = s)
      /\ ~Alive(t) /\ ~Waits(t) /\ Alive(s) /\ ~Waits(s) /\ May(s) /\ Supervises(s)
      /\ \A u \in Slots : Waits(u) => proc[u].child \in Slots /\ proc[u].child # t
  BY <1>2, <1>4, <1>5, <1>6, Known DEF Alive, Waits, May, Supervises
<1>8. \A u \in Slots \ {s} : Alive(u) => proc[u].kin # proc[s].kin
  BY <1>7 DEF Family, Kin
<1>9. TypeOK'
  <2>1. ASSUME NEW u \in Slots
        PROVE  /\ proc'[u].child # 0 <=> proc'[u].pc = "wait"
               /\ proc'[u].pc = "wait" => proc'[proc'[u].child].pc # "free"
    <3>1. CASE u = s \/ u = t
      BY <1>0, <1>4, <1>5, <3>1
    <3>2. CASE u \notin {s, t} /\ Waits(u)
      BY <1>0, <1>4, <1>5, <1>6, <1>7, <3>2, Known DEF Waits
    <3>3. CASE u \notin {s, t} /\ ~Waits(u)
      BY <1>6, <3>3, Known DEF Waits
    <3> QED
      BY <3>1, <3>2, <3>3
  <2>2. \A p \in Ports : holder'[p] \in Slots => Alive(holder[p])'
    BY <1>2, <1>7 DEF TypeOK
  <2> QED
    BY <1>2, <1>6, <2>1, <2>2 DEF TypeOK, Kinds
<1>10. Roles'
  <2> SUFFICES ASSUME NEW u \in Slots, Alive(u)'
               PROVE  /\ Supervises(u)' => ~Worker(u)'
                      /\ Serves(u)' => Worker(u)' \/ ~Daemon(u)'
                      /\ Typed(u)' => proc'[u].env = {} /\ ~Worker(u)'
                      /\ proc'[u].kin \in 1 .. launches'
    BY DEF Roles, Supervises, Serves, Alive, Typed
  <2>1. CASE u = t
    BY <1>2, <1>4, <1>7, <2>1 DEF Roles, Supervises, Serves, Typed
  <2>2. CASE u = s
    BY <1>2, <1>5, <1>7, <2>2 DEF Roles, Supervises, Serves, Typed, Worker
  <2>3. CASE u \notin {s, t}
    BY <1>2, <1>6, <1>7, <2>3 DEF Roles, Supervises, Serves, Typed, Worker, Daemon
  <2> QED
    BY <2>1, <2>2, <2>3
<1>11. Waiting'
  <2> SUFFICES ASSUME NEW u \in Slots, Waits(u)'
               PROVE  /\ Alive(proc[u].child)' => Worker(proc[u].child)'
                      /\ \A v \in Slots : (Waits(v) /\ proc[v].child = proc[u].child)' => v = u
    BY DEF Waiting
  <2>1. \A v \in Slots : Waits(v)' => proc'[v].child = IF v = s THEN t ELSE proc[v].child
    BY <1>5, <1>6, <1>7
  <2>2. \A v \in Slots : v # t => Worker(v)' = Worker(v)
    BY <1>5, <1>6 DEF Worker
  <2>3. Worker(t)'
    BY <1>4 DEF Worker
  <2>4. CASE u = s
    BY <1>7, <2>1, <2>3, <2>4
  <2>5. CASE u # s
    BY <1>7, <2>1, <2>2, <2>5 DEF Waiting
  <2> QED
    BY <2>4, <2>5
<1>12. Holding'
  <2>1. \A u \in Slots : Serves(u) => Serves(u)'
    BY <1>2, <1>6 DEF Serves
  <2> QED
    BY <1>2, <2>1 DEF Holding
<1>13. Family'
  <2> SUFFICES ASSUME NEW u \in Slots, NEW v \in Slots, Kin(u, v)', u # v
               PROVE  /\ ~May(u)' /\ (Waits(u)' => v = proc'[u].child)
                      /\ (Supervises(u)' \/ Supervises(v)')
    BY DEF Family
  <2>1. CASE u \in {s, t} /\ v \in {s, t}
    BY <1>4, <1>5, <2>1 DEF May, Waits, Supervises, Worker
  <2>2. CASE u \notin {s, t} /\ v \in {s, t}
    BY <1>4, <1>5, <1>6, <1>7, <1>8, <2>2 DEF Kin
  <2>3. CASE u \in {s, t} /\ v \notin {s, t}
    BY <1>4, <1>5, <1>6, <1>7, <1>8, <2>3 DEF Kin
  <2>4. CASE u \notin {s, t} /\ v \notin {s, t}
    BY <1>6, <1>7, <2>4 DEF Family, Kin, May, Waits, Supervises, Worker
  <2> QED
    BY <2>1, <2>2, <2>3, <2>4
<1> QED
  BY <1>9, <1>10, <1>11, <1>12, <1>13

(* A supervisor whose worker has ended has no company any more.            *)
LEMMA WaitWorkerStep ==
  ASSUME IInv, NEW s \in Slots, WaitWorker(s)
  PROVE  IInv'
<1> USE DEF IInv
<1> DEFINE c == proc[s].child
<1>0. 0 \notin Slots
  BY SupervisorAssumption DEF SupervisorAssumption
<1>1. /\ Waits(s) /\ c \in Slots /\ proc[c].pc = "zombie" /\ c # s /\ proc \in [Slots -> Kinds]
      /\ UNCHANGED <<holder, deaf, launches, kills, seizures>>
  BY Known DEF WaitWorker, Waits, TypeOK, Kinds, bounds
<1>2. proc' = [proc EXCEPT ![s].pc = "sleep", ![s].child = 0, ![c] = Free]
  BY DEF WaitWorker, AfterWait
<1> HIDE DEF c
<1>3. /\ proc'[s] \in Kinds /\ proc'[s].pc = "sleep" /\ proc'[s].child = 0 /\ proc'[s].kin = proc[s].kin
      /\ proc'[s].args = proc[s].args /\ proc'[s].env = proc[s].env /\ proc'[s].typed = proc[s].typed
  <2>1. proc'[s] = [proc[s] EXCEPT !.pc = "sleep", !.child = 0] /\ proc[s] \in Kinds
    BY <1>1, <1>2
  <2> QED
    BY <2>1 DEF Kinds, PCs
<1>4. proc'[c] \in Kinds /\ proc'[c].pc = "free" /\ proc'[c].child = 0
  BY <1>1, <1>2, FreeIs
<1>5. proc' \in [Slots -> Kinds] /\ \A u \in Slots \ {s, c} : proc'[u] = proc[u]
  BY <1>1, <1>2, <1>3, <1>4
<1>6. /\ \A u \in Slots : (Alive(u)' <=> Alive(u)) /\ (Waits(u)' <=> Waits(u) /\ u # s)
      /\ ~Alive(c) /\ ~Waits(c) /\ Alive(s) /\ Supervises(s) /\ ~Serves(s)
  BY <1>1, <1>3, <1>4, <1>5 DEF Alive, Waits, Supervises, Serves
<1>7. \A u \in Slots : Waits(u) /\ u # s => proc[u].child \in Slots /\ proc[u].child # c
  BY <1>1, Known DEF Waiting, c
<1>8. \A u \in Slots \ {s} : Alive(u) => proc[u].kin # proc[s].kin
  BY <1>1, <1>6 DEF Family, Kin, c
<1>9. TypeOK'
  <2>1. ASSUME NEW u \in Slots
        PROVE  /\ proc'[u].child # 0 <=> proc'[u].pc = "wait"
               /\ proc'[u].pc = "wait" => proc'[proc'[u].child].pc # "free"
    <3>1. CASE u = s \/ u = c
      BY <1>3, <1>4, <3>1
    <3>2. CASE u \notin {s, c} /\ Waits(u)
      BY <1>0, <1>3, <1>5, <1>7, <3>2, Known DEF Waits
    <3>3. CASE u \notin {s, c} /\ ~Waits(u)
      BY <1>5, <3>3, Known DEF Waits
    <3> QED
      BY <3>1, <3>2, <3>3
  <2>2. \A p \in Ports : holder'[p] \in Slots => Alive(holder[p])'
    BY <1>1, <1>6 DEF TypeOK
  <2> QED
    BY <1>1, <1>5, <2>1, <2>2 DEF TypeOK, Kinds
<1>10. Roles'
  <2> SUFFICES ASSUME NEW u \in Slots, Alive(u)'
               PROVE  /\ Supervises(u)' => ~Worker(u)'
                      /\ Serves(u)' => Worker(u)' \/ ~Daemon(u)'
                      /\ Typed(u)' => proc'[u].env = {} /\ ~Worker(u)'
                      /\ proc'[u].kin \in 1 .. launches'
    BY DEF Roles, Supervises, Serves, Alive, Typed
  <2>1. CASE u = s
    BY <1>1, <1>3, <1>6, <2>1 DEF Roles, Supervises, Serves, Typed, Worker
  <2>2. CASE u # s
    BY <1>1, <1>5, <1>6, <2>2 DEF Roles, Supervises, Serves, Typed, Worker, Daemon
  <2> QED
    BY <2>1, <2>2
<1>11. Waiting'
  <2>1. \A u \in Slots : Waits(u)' => Waits(u) /\ u # s /\ proc'[u] = proc[u]
    BY <1>5, <1>6
  <2>2. \A u \in Slots : Alive(u)' => Alive(u) /\ Worker(u)' = Worker(u)
    BY <1>3, <1>5, <1>6 DEF Worker
  <2> QED
    BY <1>7, <2>1, <2>2 DEF Waiting
<1>12. Holding'
  <2>1. \A u \in Slots : Serves(u) => Serves(u)'
    BY <1>1, <1>5, <1>6 DEF Serves
  <2> QED
    BY <1>1, <2>1 DEF Holding
<1>13. Family'
  <2> SUFFICES ASSUME NEW u \in Slots, NEW v \in Slots, Kin(u, v)', u # v
               PROVE  /\ ~May(u)' /\ (Waits(u)' => v = proc'[u].child)
                      /\ (Supervises(u)' \/ Supervises(v)')
    BY DEF Family
  <2>1. u # c /\ v # c
    BY <1>6 DEF Kin
  <2>2. u # s /\ v # s
    BY <1>3, <1>5, <1>6, <1>8, <2>1 DEF Kin
  <2> QED
    BY <1>5, <1>6, <2>1, <2>2 DEF Family, Kin, May, Waits, Supervises, Worker
<1> QED
  BY <1>9, <1>10, <1>11, <1>12, <1>13

----------------------------------------------------------------------------
LEMMA Inductive == IInv /\ [Next]_vars => IInv'
<1> SUFFICES ASSUME IInv, [Next]_vars PROVE IInv'
  OBVIOUS
<1>0. TypeOK /\ Roles /\ Holding /\ 0 \notin Slots /\ -1 \notin Slots
      /\ MaxKills \in Nat /\ MaxSeizures \in Nat
  BY SupervisorAssumption DEF IInv, SupervisorAssumption
<1>1. CASE Launch
  BY <1>1, LaunchStep
<1>2. ASSUME proc' = proc, launches' = launches, \A p \in Ports : holder'[p] \in Slots => Serves(holder'[p]),
             holder' \in [Ports -> Slots \cup {Nobody, Foreign}],
             deaf' \subseteq {p \in Ports : holder'[p] \in Slots},
             kills' \in 0 .. MaxKills, seizures' \in 0 .. MaxSeizures
      PROVE  IInv'
  <2>1. Roles' /\ Waiting' /\ Family'
    BY <1>2, NobodyNew DEF Alive
  <2>2. Holding'
    BY <1>2 DEF Holding, Serves
  <2>3. \A p \in Ports : holder'[p] \in Slots => Alive(holder[p])'
    BY <1>2 DEF Serves, Alive
  <2>4. TypeOK'
    BY <1>0, <1>2, <2>3 DEF TypeOK
  <2> QED
    BY <2>1, <2>2, <2>4 DEF IInv
<1>3. CASE Seize
  <2>1. PICK p \in Ports : holder[p] = Nobody /\ holder' = [holder EXCEPT ![p] = Foreign]
    BY <1>3 DEF Seize
  <2>2. /\ holder' \in [Ports -> Slots \cup {Nobody, Foreign}]
        /\ \A q \in Ports : holder'[q] \in Slots => holder'[q] = holder[q]
        /\ \A q \in Ports : holder[q] \in Slots => holder'[q] = holder[q]
    BY <1>0, <2>1 DEF TypeOK, Foreign, Nobody
  <2>3. seizures' \in 0 .. MaxSeizures /\ UNCHANGED <<proc, deaf, launches, kills>>
    BY <1>0, <1>3 DEF Seize, TypeOK
  <2>4. \A q \in Ports : holder'[q] \in Slots => Serves(holder'[q])
    BY <1>0, <2>2 DEF Holding
  <2>5. deaf' \subseteq {q \in Ports : holder'[q] \in Slots} /\ kills' \in 0 .. MaxKills
    BY <1>0, <2>2, <2>3 DEF TypeOK
  <2> QED
    BY <1>2, <2>2, <2>3, <2>4, <2>5
<1>4. CASE Yield
  BY <1>0, <1>2, <1>4 DEF Yield, Holding, TypeOK, Foreign, Nobody, bounds
<1>5. ASSUME NEW s \in Slots, AcceptFails(s) PROVE IInv'
  BY <1>0, <1>2, <1>5 DEF AcceptFails, Bound, Holding, TypeOK, bounds
<1>6. ASSUME NEW s \in Slots, Kill(s) PROVE IInv'
  <2>1. kills' \in 0 .. MaxKills /\ launches' = launches /\ seizures' = seizures
    BY <1>0, <1>6 DEF Kill, TypeOK
  <2> QED
    BY <1>6, <2>1, EndStep DEF Kill, Ended
<1>7. ASSUME NEW s \in Slots, End(s) PROVE IInv'
  BY <1>0, <1>7, EndStep DEF End, Ended, bounds, TypeOK
<1>8. ASSUME NEW s \in Slots, Listen(s) PROVE IInv'
  <2>1. PICK p \in Unbound(s) :
          IF holder[p] # Nobody THEN End(s)
          ELSE holder' = [holder EXCEPT ![p] = s] /\ UNCHANGED <<proc, deaf, bounds>>
    BY <1>8 DEF Listen
  <2>2. CASE holder[p] = Nobody
    <3>1. /\ p \in Ports /\ holder' = [holder EXCEPT ![p] = s] /\ UNCHANGED <<proc, deaf, bounds>>
      BY <2>1, <2>2 DEF Unbound
    <3>2. /\ holder' \in [Ports -> Slots \cup {Nobody, Foreign}]
          /\ \A q \in Ports : holder'[q] \in Slots => holder'[q] = s \/ holder'[q] = holder[q]
          /\ \A q \in Ports : holder[q] \in Slots => holder'[q] \in Slots
      BY <1>0, <3>1 DEF TypeOK
    <3>3. Serves(s)
      BY <1>8 DEF Listen, Serves
    <3>4. \A q \in Ports : holder'[q] \in Slots => Serves(holder'[q])
      BY <1>0, <3>2, <3>3 DEF Holding
    <3>5. /\ deaf' \subseteq {q \in Ports : holder'[q] \in Slots} /\ kills' \in 0 .. MaxKills
          /\ seizures' \in 0 .. MaxSeizures /\ launches' = launches /\ proc' = proc
      BY <1>0, <3>1, <3>2 DEF TypeOK, bounds
    <3> QED
      BY <1>2, <3>2, <3>4, <3>5
  <2> QED
    BY <1>7, <2>1, <2>2
<1>9. ASSUME NEW s \in Slots, MainInternal(s) PROVE IInv'
  <2>1. CASE Forever(s) /\ ~Worker(s)
    <3>1. Become(s, "start", Unmark(s, "internal")) /\ proc[s].pc = "main"
      BY <1>9, <2>1 DEF MainInternal, Internal
    <3> QED
      BY <2>1, <3>1, BecomeStep DEF Unmark, Alive, Waits, May, Serves
  <2> QED
    BY <1>7, <1>9, <2>1 DEF MainInternal
<1>10. ASSUME NEW s \in Slots, LaunchDetached(s) PROVE IInv'
  <2>1. proc[s].pc = "main" /\ ~Worker(s) /\ proc[s].args \in CommandLines
        /\ proc[s].env \in SUBSET {"internal", "daemonized"}
    BY <1>0, <1>10, Known DEF LaunchDetached, Background
  <2>2. ArgsWithoutDaemon(proc[s].args) \in CommandLines
    BY <2>1, Rewritten
  <2>3. CASE Forever(s)
    BY <1>10, <2>1, <2>2, <2>3, HandOverStep DEF LaunchDetached
  <2>4. CASE ~Forever(s)
    BY <1>10, <2>1, <2>4, HandOverStep DEF LaunchDetached
  <2> QED
    BY <2>3, <2>4
<1>11. ASSUME NEW s \in Slots, Supervise(s) PROVE IInv'
  BY <1>11, BecomeStep DEF Supervise, Background, Unmark, Alive, Waits, May, Serves
<1>12. ASSUME NEW s \in Slots, StartOnce(s) PROVE IInv'
  <2>1. proc[s].pc = "main" /\ ~Worker(s) /\ Unmark(s, "daemonized") \in SUBSET {"internal", "daemonized"}
    BY <1>0, <1>12, Known DEF StartOnce, Background, Unmark
  <2>2. WorkerArgs(s) \in CommandLines
    BY <1>0, WorkerArgsAre
  <2> QED
    BY <1>12, <2>1, <2>2, HandOverStep DEF StartOnce
<1>13. ASSUME NEW s \in Slots, Serve(s) PROVE IInv'
  BY <1>13, BecomeStep DEF Serve, Background, Unmark, Alive, Waits, Supervises
<1>14. ASSUME NEW s \in Slots, StartFails(s) PROVE IInv'
  BY <1>0, <1>14, BecomeStep DEF StartFails, Alive, Waits, May, Serves, Roles, Supervises
<1>15. ASSUME NEW s \in Slots, Wake(s) PROVE IInv'
  BY <1>0, <1>15, BecomeStep DEF Wake, Alive, Waits, May, Serves, Roles, Supervises
<1>16. ASSUME NEW s \in Slots, Listening(s) PROVE IInv'
  BY <1>0, <1>16, BecomeStep DEF Listening, Alive, Waits, Supervises, Roles, Serves
<1>17. CASE UNCHANGED vars
  BY <1>0, <1>2, <1>17 DEF vars, bounds, Holding, TypeOK
<1> QED
  BY <1>1, <1>3, <1>4, <1>5, <1>6, <1>8, <1>9, <1>10, <1>11, <1>12, <1>13, <1>14, <1>15, <1>16, <1>17,
     StartWorkerStep, WaitWorkerStep DEF Next, Run, Main

LEMMA Always == Spec => []IInv
<1>1. Init => IInv
  BY InitIInv
<1>2. IInv /\ [Next]_vars => IInv'
  BY Inductive
<1> QED
  BY <1>1, <1>2, PTL DEF Spec

(* Process ids, ports and arguments are what the code takes them for; only *)
(* a supervisor waits, and for a process that is there to be waited for.   *)
THEOREM ProcessesAreTyped == Spec => []TypeOK
<1>1. IInv => TypeOK
  BY DEF IInv
<1> QED
  BY <1>1, Always, PTL

----------------------------------------------------------------------------
LEMMA AtMostOne ==
  ASSUME NEW S, IsFiniteSet(S), \A x, y \in S : x = y
  PROVE  Cardinality(S) <= 1
<1>1. CASE S = {}
  BY <1>1, FS_EmptySet
<1>2. CASE S # {}
  <2>1. PICK x \in S : S = {x}
    BY <1>2
  <2> QED
    BY <2>1, FS_Singleton
<1> QED
  BY <1>1, <1>2

(* A command, however spelt, becomes one supervisor and one server at the  *)
(* most: no worker makes itself a supervisor, and no supervisor starts a   *)
(* worker (RunSupervised) while the one before it is alive.                *)
THEOREM OneServerPerCommand == Spec => []OneOfEach
<1>1. IInv => OneOfEach
  <2> SUFFICES ASSUME IInv, NEW k \in 1 .. MaxLaunches
               PROVE  /\ Cardinality({s \in Slots : proc[s].kin = k /\ Supervises(s)}) <= 1
                      /\ Cardinality({s \in Slots : proc[s].kin = k /\ ~Supervises(s) /\ Alive(s)}) <= 1
    BY DEF OneOfEach
  <2> DEFINE Sup == {s \in Slots : proc[s].kin = k /\ Supervises(s)}
  <2> DEFINE Srv == {s \in Slots : proc[s].kin = k /\ ~Supervises(s) /\ Alive(s)}
  <2>1. IsFiniteSet(Sup) /\ IsFiniteSet(Srv)
    <3>1. IsFiniteSet(Slots)
      BY SupervisorAssumption DEF SupervisorAssumption
    <3> QED
      BY <3>1, FS_Subset
  <2>2. \A s, u \in Sup : s = u
    <3> SUFFICES ASSUME NEW s \in Slots, NEW u \in Slots, Supervises(s), Supervises(u),
                        proc[u].kin = proc[s].kin
                 PROVE  u = s
      OBVIOUS
    <3>1. Kin(s, u) /\ (May(s) \/ Waits(s))
      BY DEF Kin, Alive, Supervises, May, Waits
    <3>2. ~Worker(u) /\ Alive(u)
      BY DEF IInv, Roles, Supervises, Alive
    <3> QED
      BY <3>1, <3>2 DEF IInv, Family, Waiting
  <2>3. \A s, u \in Srv : s = u
    BY DEF IInv, Family, Kin
  <2> HIDE DEF Sup, Srv
  <2>4. Cardinality(Sup) <= 1 /\ Cardinality(Srv) <= 1
    BY <2>1, <2>2, <2>3, AtMostOne
  <2> QED
    BY <2>4 DEF Sup, Srv
<1> QED
  BY <1>1, Always, PTL

----------------------------------------------------------------------------
(* The process typed with --daemon --forever --no-detach.                  *)
Attached(s) == Typed(s) /\ Daemon(s) /\ Forever(s) /\ proc[s].args.noDetach

(* Such a process neither listens nor hands over: runSPS supervises in it. *)
LEMMA AttachedStays ==
  ASSUME IInv, NEW s \in Slots, Attached(s), [Next]_vars
  PROVE  Typed(s)' \/ kills' # kills
<1>0. TypeOK
  BY DEF IInv
<1>1. /\ Alive(s) /\ proc[s].typed /\ proc[s].env = {} /\ ~Worker(s) /\ ~Serves(s)
      /\ Daemon(s) /\ Forever(s) /\ ~Detaches(s) /\ ~Internal(s)
  BY DEF IInv, Roles, Attached, Typed, Detaches, Internal
<1>2. ASSUME proc'[s] = proc[s] PROVE Typed(s)'
  BY <1>1, <1>2 DEF Typed, Alive
<1>3. ASSUME NEW u \in Slots, u # s PROVE Without(u)[s] = proc[s]
  BY <1>1, <1>3 DEF Without, Alive
<1>4. ASSUME NEW u \in Slots, End(u), u # s PROVE Typed(s)'
  BY <1>2, <1>3, <1>4 DEF End
<1>5. ASSUME NEW u \in Slots, NEW pc \in PCs \ {"free", "zombie"}, NEW env, Become(u, pc, env) PROVE Typed(s)'
  <2>1. proc[s] \in Kinds /\ proc' = [proc EXCEPT ![u].pc = pc, ![u].env = env] /\ proc \in [Slots -> Kinds]
    BY <1>0, <1>5, Known DEF Become, TypeOK, Kinds
  <2>2. CASE u = s
    <3>1. proc'[s] = [proc[s] EXCEPT !.pc = pc, !.env = env]
      BY <2>1, <2>2
    <3> QED
      BY <1>1, <1>5, <2>1, <3>1 DEF Kinds, Typed, Alive
  <2> QED
    BY <1>2, <2>1, <2>2
<1>6. ASSUME NEW u \in Slots, NEW args, NEW env, HandOver(u, args, env), u # s PROVE Typed(s)'
  <2>1. ASSUME NEW t \in Slots, Vacant(t),
               proc' = [Without(u) EXCEPT ![t] = Process(args, env, proc[u].kin, FALSE)]
        PROVE  Typed(s)'
    <3>1. t # s
      BY <1>1, <2>1 DEF Vacant, Alive
    <3>2. proc'[s] = Without(u)[s]
      BY <2>1, <3>1 DEF Without
    <3> QED
      BY <1>2, <1>3, <1>6, <3>2
  <2> QED
    BY <1>4, <1>6, <2>1 DEF HandOver
<1>7. CASE Launch
  <2>1. \A t \in Slots : Vacant(t) => t # s
    BY <1>1 DEF Vacant, Alive
  <2> QED
    BY <1>0, <1>2, <1>7, <2>1 DEF Launch, TypeOK
<1>8. CASE Seize \/ Yield \/ UNCHANGED vars
  BY <1>2, <1>8 DEF Seize, Yield, vars
<1>9. ASSUME NEW u \in Slots, Main(u) PROVE Typed(s)'
  <2>1. CASE MainInternal(u)
    BY <1>1, <1>4, <1>5, <2>1 DEF MainInternal, PCs
  <2>2. CASE LaunchDetached(u)
    BY <1>1, <1>6, <2>2 DEF LaunchDetached
  <2>3. CASE Supervise(u)
    BY <1>5, <2>3 DEF Supervise, PCs
  <2>4. CASE StartOnce(u)
    BY <1>1, <1>6, <2>4 DEF StartOnce
  <2>5. CASE Serve(u)
    BY <1>5, <2>5 DEF Serve, PCs
  <2> QED
    BY <1>9, <2>1, <2>2, <2>3, <2>4, <2>5 DEF Main
<1>10. ASSUME NEW u \in Slots, StartWorker(u) PROVE Typed(s)'
  <2>1. PICK t \in Slots :
          Vacant(t) /\ proc' = [proc EXCEPT ![u].pc = "wait", ![u].child = t,
                                            ![t] = Process(WorkerArgs(u), proc[u].env, proc[u].kin, FALSE)]
    BY <1>10 DEF StartWorker
  <2>2. t # s /\ proc \in [Slots -> Kinds] /\ proc[s] \in Kinds
    BY <1>0, <1>1, <2>1, Known DEF Vacant, Alive, TypeOK, Kinds
  <2>3. CASE u = s
    <3>1. proc'[s] = [proc[s] EXCEPT !.pc = "wait", !.child = t]
      BY <2>1, <2>2, <2>3
    <3> QED
      BY <1>1, <2>2, <3>1 DEF Kinds, Typed, Alive
  <2> QED
    BY <1>2, <2>1, <2>2, <2>3
<1>11. ASSUME NEW u \in Slots, WaitWorker(u) PROVE Typed(s)'
  <2>1. /\ proc' = [proc EXCEPT ![u].pc = "sleep", ![u].child = 0, ![proc[u].child] = Free]
        /\ proc[proc[u].child].pc = "zombie" /\ proc \in [Slots -> Kinds] /\ proc[s] \in Kinds
    BY <1>0, <1>11, Known DEF WaitWorker, AfterWait, TypeOK, Kinds
  <2>2. proc[u].child # s
    BY <1>1, <2>1 DEF Alive
  <2>3. CASE u = s
    <3>1. proc'[s] = [proc[s] EXCEPT !.pc = "sleep", !.child = 0]
      BY <2>1, <2>2, <2>3
    <3> QED
      BY <1>1, <2>1, <3>1 DEF Kinds, Typed, Alive
  <2> QED
    BY <1>2, <2>1, <2>2, <2>3
<1>12. ASSUME NEW u \in Slots, StartFails(u) \/ Wake(u) \/ Listening(u) PROVE Typed(s)'
  BY <1>5, <1>12 DEF StartFails, Wake, Listening, PCs
<1>13. ASSUME NEW u \in Slots, Listen(u) PROVE Typed(s)'
  <2>1. u # s
    BY <1>1, <1>13 DEF Listen, Serves
  <2> QED
    BY <1>2, <1>4, <1>13, <2>1 DEF Listen
<1>14. ASSUME NEW u \in Slots, AcceptFails(u) PROVE Typed(s)'
  BY <1>2, <1>14 DEF AcceptFails
<1>15. ASSUME NEW u \in Slots, Kill(u) PROVE kills' # kills
  BY <1>15 DEF Kill, IInv, TypeOK
<1> QED
  BY <1>7, <1>8, <1>9, <1>10, <1>11, <1>12, <1>13, <1>14, <1>15 DEF Next, Run

(* Under systemd the process started with --daemon --forever --no-detach   *)
(* goes on until it is killed: runSPS makes it the supervisor.             *)
THEOREM SupervisorStaysAttached == Spec => StaysAttached
<1>1. IInv /\ [Next]_vars =>
        [\A s \in Slots : Typed(s) /\ Daemon(s) /\ Forever(s) /\ proc[s].args.noDetach
                          /\ ~Typed(s)' => kills' # kills]_vars
  BY AttachedStays DEF Attached
<1> QED
  BY <1>1, Always, PTL DEF Spec, StaysAttached
=============================================================================
