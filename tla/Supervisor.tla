------------------------------ MODULE Supervisor ------------------------------
(***************************************************************************)
(* The processes of joyproxy: what a command line becomes (runSPS,         *)
(* LaunchDetached, RunSupervised) and the part of a server's life a        *)
(* supervisor sees (Server.Run).  The same executable is started again     *)
(* with changed arguments and marks in its environment; the process finds  *)
(* out from these what it is.  Processes are killed or crash, cannot be    *)
(* started, and find their ports taken.  A slot is a process id.           *)
(***************************************************************************)
EXTENDS Integers, FiniteSets

CONSTANTS Slots,        \* process ids
          Commands,     \* command lines: [daemon, forever, noDetach, worker]
          NPorts,       \* ports of -p, listened on in ascending order
          MaxLaunches,  \* bound on the commands typed
          MaxKills,     \* bound on processes killed or crashed
          MaxSeizures   \* bound on a foreign program's taking a port

(* A flag is absent, spelt "--flag" or spelt "-flag"; the flag package     *)
(* takes both spellings, the code that removes flags knows the first.      *)
Spelling == {"no", "--", "-"}
CommandLines == [daemon : Spelling, forever : Spelling, noDetach : BOOLEAN, worker : BOOLEAN]

ASSUME SupervisorAssumption ==
  /\ Slots \subseteq Nat \ {0} /\ IsFiniteSet(Slots)
  /\ Commands \subseteq {a \in CommandLines : ~a.worker}
  /\ NPorts \in Nat \ {0} /\ MaxLaunches \in Nat /\ MaxKills \in Nat /\ MaxSeizures \in Nat

Ports == 1 .. NPorts
Nobody == 0
Foreign == -1  \* a program that is not ours

VARIABLES
  proc,      \* per slot: [pc, args, env, kin, typed, child]
  holder,    \* per port: who is bound to it
  deaf,      \* bound ports whose accept loop has ended
  launches, kills, seizures  \* how often, so far

bounds == <<launches, kills, seizures>>
vars == <<proc, holder, deaf, bounds>>

NoArgs == [daemon |-> "no", forever |-> "no", noDetach |-> FALSE, worker |-> FALSE]
Free == [pc |-> "free", args |-> NoArgs, env |-> {}, kin |-> 0, typed |-> FALSE, child |-> 0]
Daemon(s) == proc[s].args.daemon # "no"
Forever(s) == proc[s].args.forever # "no"
Worker(s) == proc[s].args.worker
Alive(s) == proc[s].pc \notin {"free", "zombie"}

Init ==
  /\ proc = [s \in Slots |-> Free]
  /\ holder = [p \in Ports |-> Nobody] /\ deaf = {}
  /\ launches = 0 /\ kills = 0 /\ seizures = 0

----------------------------------------------------------------------------
(* Processes come and go.                                                  *)
Vacant(t) == proc[t].pc = "free" /\ \A u \in Slots : proc[u].pc = "free" => t <= u

Process(args, env, kin, typed) ==
  [Free EXCEPT !.pc = "main", !.args = args, !.env = env, !.kin = kin, !.typed = typed]

(* What proc becomes when s ends: whoever waits for it finds a zombie, and *)
(* the zombie it had not waited for itself is gone with it.                *)
WaitedFor(s) == \E t \in Slots : proc[t].pc = "wait" /\ proc[t].child = s
Without(s) ==
  [t \in Slots |->
     IF t = s THEN IF WaitedFor(s) THEN [Free EXCEPT !.pc = "zombie"] ELSE Free
     ELSE IF t = proc[s].child /\ proc[t].pc = "zombie" THEN Free ELSE proc[t]]

Bound(s) == {p \in Ports : holder[p] = s}
End(s) == /\ proc' = Without(s)
          /\ holder' = [p \in Ports |-> IF p \in Bound(s) THEN Nobody ELSE holder[p]]
          /\ deaf' = deaf \ Bound(s)
          /\ UNCHANGED bounds

Become(s, pc, env) ==
  /\ proc' = [proc EXCEPT ![s].pc = pc, ![s].env = env]
  /\ UNCHANGED <<holder, deaf, bounds>>

(* A user, or systemd, runs a command.                                     *)
Launch ==
  /\ launches < MaxLaunches /\ launches' = launches + 1
  /\ \E t \in Slots, a \in Commands :
       Vacant(t) /\ proc' = [proc EXCEPT ![t] = Process(a, {}, launches + 1, TRUE)]
  /\ UNCHANGED <<holder, deaf, kills, seizures>>

----------------------------------------------------------------------------
(* runSPS: what the process is.  A mark is removed from the environment as *)
(* it is read, so that no child inherits it.                               *)
UnmarkMutant(s, mark) == proc[s].env  \* os.Unsetenv forgotten
Unmark(s, mark) == proc[s].env \ {mark}

Removed(args, flag) == IF args[flag] = "--" THEN [args EXCEPT ![flag] = "no"] ELSE args
ArgsWithoutDaemon(args) == Removed(args, "daemon")
WorkerArgsMutant(s) ==  \* relies on the removal of --daemon and --forever
  Removed(Removed(proc[s].args, "daemon"), "forever")
WorkerArgs(s) ==
  [Removed(Removed(proc[s].args, "daemon"), "forever") EXCEPT !.worker = TRUE]

Internal(s) == proc[s].pc = "main" /\ "internal" \in proc[s].env
MainInternal(s) ==
  /\ Internal(s)
  /\ IF ~Forever(s) \/ Worker(s) THEN End(s) ELSE Become(s, "start", Unmark(s, "internal"))

Background(s) == proc[s].pc = "main" /\ ~Internal(s) /\ Daemon(s) /\ ~Worker(s)
DetachesMutant(s) ==  \* only a single worker is detached
  "daemonized" \notin proc[s].env /\ ~proc[s].args.noDetach /\ ~Forever(s)
Detaches(s) == "daemonized" \notin proc[s].env /\ ~proc[s].args.noDetach

(* The process ends once it has started another, or has failed to.         *)
HandOver(s, args, env) ==
  \/ End(s)
  \/ /\ \E t \in Slots : /\ Vacant(t)
                         /\ proc' = [Without(s) EXCEPT ![t] = Process(args, env, proc[s].kin, FALSE)]
     /\ UNCHANGED <<holder, deaf, bounds>>

LaunchDetached(s) ==
  /\ Background(s) /\ Detaches(s)
  /\ IF Forever(s) THEN HandOver(s, ArgsWithoutDaemon(proc[s].args), proc[s].env \cup {"internal"})
                   ELSE HandOver(s, proc[s].args, proc[s].env \cup {"daemonized"})

Supervise(s) ==
  Background(s) /\ ~Detaches(s) /\ Forever(s) /\ Become(s, "start", Unmark(s, "daemonized"))

StartOnce(s) ==
  /\ Background(s) /\ ~Detaches(s) /\ ~Forever(s)
  /\ HandOver(s, WorkerArgs(s), Unmark(s, "daemonized"))

Serve(s) ==
  /\ proc[s].pc = "main" /\ ~Internal(s) /\ ~Background(s)
  /\ Become(s, "listen", Unmark(s, "daemonized"))

----------------------------------------------------------------------------
(* RunSupervised, which runSPS always calls with forever.                  *)
StartWorker(s) ==
  /\ proc[s].pc = "start"
  /\ \E t \in Slots :
       /\ Vacant(t)
       /\ proc' = [proc EXCEPT ![s].pc = "wait", ![s].child = t,
                               ![t] = Process(WorkerArgs(s), proc[s].env, proc[s].kin, FALSE)]
  /\ UNCHANGED <<holder, deaf, bounds>>

StartFails(s) == proc[s].pc = "start" /\ Become(s, "sleep", proc[s].env)

AfterWaitMutant == "free"  \* a worker's end ends its supervisor
AfterWait == "sleep"
WaitWorkerMutant(s) ==  \* the worker that ended is kept
  /\ proc[s].pc = "wait" /\ proc[proc[s].child].pc = "zombie"
  /\ proc' = [proc EXCEPT ![s].pc = AfterWait, ![proc[s].child] = Free]
  /\ UNCHANGED <<holder, deaf, bounds>>
WaitWorker(s) ==
  /\ proc[s].pc = "wait" /\ proc[proc[s].child].pc = "zombie"
  /\ proc' = [proc EXCEPT ![s].pc = AfterWait, ![s].child = 0, ![proc[s].child] = Free]
  /\ UNCHANGED <<holder, deaf, bounds>>

Wake(s) == proc[s].pc = "sleep" /\ Become(s, "start", proc[s].env)

----------------------------------------------------------------------------
(* Server.Run: one port after the other, and an accept loop for each.      *)
Unbound(s) == Ports \ Bound(s)
Listen(s) ==
  /\ proc[s].pc = "listen" /\ Unbound(s) # {}
  /\ \E p \in Unbound(s) :
       /\ \A q \in Unbound(s) : p <= q
       /\ IF holder[p] # Nobody THEN End(s)
          ELSE holder' = [holder EXCEPT ![p] = s] /\ UNCHANGED <<proc, deaf, bounds>>

Listening(s) == proc[s].pc = "listen" /\ Unbound(s) = {} /\ Become(s, "serve", proc[s].env)

(* Accept returns an error: the loop is over, the port stays bound.        *)
AcceptFails(s) ==
  /\ \E p \in Bound(s) \ deaf : deaf' = deaf \cup {p}
  /\ UNCHANGED <<proc, holder, bounds>>

----------------------------------------------------------------------------
(* The rest of the machine.                                                *)
Kill(s) ==
  /\ Alive(s) /\ kills < MaxKills /\ kills' = kills + 1
  /\ proc' = Without(s)
  /\ holder' = [p \in Ports |-> IF p \in Bound(s) THEN Nobody ELSE holder[p]]
  /\ deaf' = deaf \ Bound(s)
  /\ UNCHANGED <<launches, seizures>>

Seize ==
  /\ seizures < MaxSeizures /\ seizures' = seizures + 1
  /\ \E p \in Ports : holder[p] = Nobody /\ holder' = [holder EXCEPT ![p] = Foreign]
  /\ UNCHANGED <<proc, deaf, launches, kills>>

Yield ==
  /\ \E p \in Ports : holder[p] = Foreign /\ holder' = [holder EXCEPT ![p] = Nobody]
  /\ UNCHANGED <<proc, deaf, bounds>>

Main(s) == MainInternal(s) \/ LaunchDetached(s) \/ Supervise(s) \/ StartOnce(s) \/ Serve(s)
Run(s) == Main(s) \/ StartWorker(s) \/ StartFails(s) \/ WaitWorker(s) \/ Wake(s)
          \/ Listen(s) \/ Listening(s)

Next == \/ Launch \/ Seize \/ Yield
        \/ \E s \in Slots : Run(s) \/ AcceptFails(s) \/ Kill(s)

(* Every process runs, and a process can be started again some time.       *)
Spec == /\ Init /\ [][Next]_vars
        /\ \A s \in Slots : WF_vars(Run(s)) /\ SF_vars(StartWorker(s))

----------------------------------------------------------------------------
PCs == {"free", "zombie", "main", "start", "wait", "sleep", "listen", "serve"}
TypeOK ==
  /\ proc \in [Slots -> [pc : PCs, args : CommandLines, env : SUBSET {"internal", "daemonized"},
                         kin : 0 .. MaxLaunches, typed : BOOLEAN, child : Slots \cup {0}]]
  /\ holder \in [Ports -> Slots \cup {Nobody, Foreign}]
  /\ \A s \in Slots : /\ proc[s].child # 0 <=> proc[s].pc = "wait"
                      /\ proc[s].pc = "wait" => proc[proc[s].child].pc # "free"
  /\ \A p \in Ports : holder[p] \in Slots => Alive(holder[p])
  /\ deaf \subseteq {p \in Ports : holder[p] \in Slots}
  /\ launches \in 0 .. MaxLaunches /\ kills \in 0 .. MaxKills /\ seizures \in 0 .. MaxSeizures

(* However its flags are spelt, and whatever was killed, one command never *)
(* becomes more than one supervisor with one server: a worker does not     *)
(* start another, and a supervisor waits before it does.                   *)
Supervises(s) == proc[s].pc \in {"start", "wait", "sleep"}
Serves(s) == proc[s].pc \in {"listen", "serve"}
OneOfEach ==
  \A k \in 1 .. MaxLaunches :
    /\ Cardinality({s \in Slots : proc[s].kin = k /\ Supervises(s)}) <= 1
    /\ Cardinality({s \in Slots : proc[s].kin = k /\ ~Supervises(s) /\ Alive(s)}) <= 1

(* README, "--forever: auto-restart worker on crash": a supervisor that is *)
(* left alone ends up with a worker that serves, once its ports are left   *)
(* alone too, though workers crashed, could not be started or found their  *)
(* ports taken before.  (A port whose accept loop ended counts as served:  *)
(* nothing notices it.)                                                    *)
Taken(s) == \E p \in Ports : holder[p] \notin {Nobody, proc[s].child}
ServedBy(s) == Supervises(s) /\ proc[s].child # 0 /\ proc[proc[s].child].pc = "serve"
KeepsServing == \A s \in Slots : <>[](Supervises(s) /\ ~Taken(s)) => <>[]ServedBy(s)

(* README, "--daemon: shell returns immediately": unless it was asked not  *)
(* to detach, the process the user started with --daemon comes to an end.  *)
Typed(s) == Alive(s) /\ proc[s].typed
ShellReturns ==
  \A s \in Slots : Typed(s) /\ Daemon(s) /\ ~proc[s].args.noDetach ~> ~Typed(s)

(* README, "--no-detach": under systemd the process that was started with  *)
(* --daemon --forever is the supervisor, and ends only if it is killed.    *)
StaysAttached ==
  [][\A s \in Slots : Typed(s) /\ Daemon(s) /\ Forever(s) /\ proc[s].args.noDetach
                      /\ ~Typed(s)' => kills' # kills]_vars
=============================================================================
