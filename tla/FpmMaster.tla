----------------------------- MODULE FpmMaster ------------------------------
(***************************************************************************)
(* The FPM process manager (sapi/fpm/fpm): one master and the workers it   *)
(* forks.  The master is one event loop (fpm_events.c) that drains the     *)
(* socketpair its signal handler writes to (fpm_signals.c), buries and     *)
(* replaces dead workers (fpm_children.c), and runs three timers: the stop *)
(* escalation, the idle maintenance and the request-timeout heartbeat      *)
(* (fpm_process_ctl.c).  The workers are processes of their own: they      *)
(* accept, serve, keep connections, die, and publish their stage in a slot *)
(* of shared memory that the master reads without stopping them            *)
(* (fpm_request.c).                                                        *)
(*                                                                         *)
(* A step of the master is a piece of code between two points where what   *)
(* the workers or the kernel do can make a difference: one signal          *)
(* character, one waitpid, one fork, one read of a slot, one decision.     *)
(* Left out: the second, tracing use of the heartbeat (request_slowlog),   *)
(* SIGUSR1 (reopens the log), the workers' stdout pipes, the start times   *)
(* and the status page.                                                    *)
(***************************************************************************)
EXTENDS Naturals, Sequences, FiniteSets

CONSTANTS
  Pools, Pids,          \* worker pools; process ids a worker can get
  pm,                   \* [Pools -> {"static", "dynamic"}]
  pm_max_children, pm_start_servers,
  pm_min_spare_servers, pm_max_spare_servers,     \* [Pools -> Nat]
  FPM_MAX_SPAWN_RATE,
  emergency_restart_threshold,                    \* 0: off
  request_terminate_timeout,                      \* BOOLEAN: set or not
  PipeSize,             \* characters the signal socketpair holds
  MaxSignals,           \* bound: signals an operator sends
  MaxForkFailures       \* bound: failures of fork or of what precedes it

NONE == "NONE"

\* fpm_conf_process_all_pools refuses any other configuration.
ASSUME ConfAssumption ==
  /\ Pools # {}
  /\ pm \in [Pools -> {"static", "dynamic"}]
  /\ pm_max_children \in [Pools -> Nat \ {0}]
  /\ pm_start_servers \in [Pools -> Nat]
  /\ pm_min_spare_servers \in [Pools -> Nat]
  /\ pm_max_spare_servers \in [Pools -> Nat]
  /\ \A w \in Pools : pm[w] = "dynamic" =>
       /\ 0 < pm_min_spare_servers[w]
       /\ pm_min_spare_servers[w] =< pm_start_servers[w]
       /\ pm_start_servers[w] =< pm_max_spare_servers[w]
       /\ pm_max_spare_servers[w] =< pm_max_children[w]

ASSUME BoundAssumption ==
  /\ IsFiniteSet(Pools) /\ IsFiniteSet(Pids)
  /\ FPM_MAX_SPAWN_RATE \in Nat \ {0}
  /\ emergency_restart_threshold \in Nat
  /\ request_terminate_timeout \in BOOLEAN
  /\ PipeSize \in Nat /\ MaxSignals \in Nat /\ MaxForkFailures \in Nat

VARIABLES
  \* the master's control
  master,            \* "running", or how it left: "exec" or "exit"
  pc,                \* where it is in the event loop
  wp,                \* pool at hand
  todo,              \* pools the callback has still to visit
  left,              \* children the callback has still to look at
  seen,              \* children it has read as idle, or as timed out
  max, back,         \* fpm_children_make: target count, where to return
  \* the master's books
  fpm_state, fpm_signal_sent,
  pctl_event,        \* the escalation timer is in the queue
  children,          \* [Pools -> SUBSET Pids]: the linked lists
  running_children,  \* [Pools -> Nat]
  fpm_globals_running_children,
  idle_kill,         \* children with the flag of that name
  idle_spawn_rate,   \* [Pools -> Nat]
  last_faults,       \* faults younger than emergency_restart_interval
  \* the kernel
  raised,            \* signals to the master not yet handled
  sp,                \* the socketpair of the signal handler
  proc,              \* [Pids -> process state]
  pending,           \* [Pids -> signals sent and not yet delivered]
  sent, failures,    \* what the two bounds count
  \* shared memory and workers
  request_stage,     \* [Pids -> stage in the slot]
  in_shutdown,       \* workers that took SIGQUIT: they accept no more
  over,              \* workers whose slot.accepted is older than the limit
  late               \* workers whose present request has run that long

control == <<pc, wp, todo, left, seen, max, back>>
books == <<children, running_children, fpm_globals_running_children>>
stop == <<master, fpm_state, fpm_signal_sent, pctl_event>>
tuning == <<idle_kill, idle_spawn_rate, last_faults>>
kernel == <<raised, sp, proc, pending>>
bounds == <<sent, failures>>
worker == <<request_stage, in_shutdown, over, late>>
vars == <<control, books, stop, tuning, kernel, bounds, worker>>

FirstPool == CHOOSE w \in Pools : TRUE

States == {"normal", "reloading", "finishing", "terminating"}
Kills == {"QUIT", "TERM", "KILL"}
\* A worker serves the first request of a connection, or another one of a
\* connection kept; in between it waits for the client's next.
Serving == {"serving", "again"}
Alive == {"starting", "accepting", "waiting"} \union Serving
Dead == {"exited", "crashed", "killed"}

Live(c) == proc[c] \in Alive
Zombie(c) == proc[c] \in Dead

At(l) == master = "running" /\ pc = l
Goto(l) == pc' = l

-----------------------------------------------------------------------------
(* The stop: fpm_pctl and what it calls.  Each operator says what becomes  *)
(* of master, fpm_state, fpm_signal_sent, pctl_event and pending.          *)

\* Which state a new one overrides, "reloading" the weakest.
Overrides(new, old) ==
  \/ old = "normal" /\ new # "normal"
  \/ old = "reloading" /\ new \in {"finishing", "terminating"}
  \/ old = "finishing" /\ new = "terminating"

\* fpm_pctl_action_last
LastAction(state) == master' = IF state = "reloading" THEN "exec" ELSE "exit"

\* Mutant: SIGTERM is the strongest signal.
NextSignalMild(state, signal_sent) ==
  IF signal_sent = NONE /\ state # "terminating" THEN "QUIT" ELSE "TERM"

NextSignal(state, signal_sent) ==
  CASE signal_sent = NONE -> IF state = "terminating" THEN "TERM" ELSE "QUIT"
    [] signal_sent = "QUIT" -> "TERM"
    [] OTHER -> "KILL"

\* fpm_pctl_kill_all: kill() does nothing to a process that is dead.
Kill(who, sig) ==
  pending' = [c \in Pids |-> IF c \in who /\ Live(c)
                             THEN pending[c] \union {sig} ELSE pending[c]]

Linked == UNION {children[w] : w \in Pools}

\* fpm_pctl_action_next; armed is what its timer is worth afterwards.
ActionNext(state, signal_sent, armed) ==
  IF fpm_globals_running_children = 0
  THEN /\ LastAction(state)
       /\ UNCHANGED <<fpm_signal_sent, pctl_event, pending>>
  ELSE LET sig == NextSignal(state, signal_sent)
       IN /\ Kill(Linked, sig)
          /\ fpm_signal_sent' = sig
          /\ pctl_event' = armed
          /\ UNCHANGED master

\* Mutant: the timer is not set.
SetStateUntimed(new) ==
  IF Overrides(new, fpm_state)
  THEN fpm_state' = new /\ ActionNext(new, NONE, FALSE)
  ELSE UNCHANGED <<stop, pending>>

\* fpm_pctl(new, FPM_PCTL_ACTION_SET)
SetState(new) ==
  IF Overrides(new, fpm_state)
  THEN fpm_state' = new /\ ActionNext(new, NONE, TRUE)
  ELSE UNCHANGED <<stop, pending>>

fpm_pctl_can_spawn_children == fpm_state = "normal"

-----------------------------------------------------------------------------
(* fpm_children_make, one turn of its loop per step.                       *)

StartMake(w, target, return) ==
  wp' = w /\ max' = target /\ back' = return /\ Goto("make")

\* A local that is dead is put back to its first value.
Return ==
  /\ Goto(back)
  /\ wp' = FirstPool /\ max' = 0 /\ back' = "start"

\* Mutant: forks in any state.
WantsChildAnyway == running_children[wp] < max

WantsChild == fpm_pctl_can_spawn_children /\ running_children[wp] < max

\* Mutant: the slot is as the last child left it.
ReuseSlot(c) == UNCHANGED <<request_stage, over>>

\* The slot of a new child is cleared before the fork.
ClearSlot(c) == /\ request_stage' = [request_stage EXCEPT ![c] = NONE]
                /\ over' = over \ {c}

Fork(c) ==
  /\ At("make") /\ WantsChild /\ proc[c] = "free"
  /\ proc' = [proc EXCEPT ![c] = "starting"]
  /\ pending' = [pending EXCEPT ![c] = {}]
  /\ ClearSlot(c)
  /\ idle_kill' = idle_kill \ {c}
  /\ children' = [children EXCEPT ![wp] = @ \union {c}]
  /\ running_children' = [running_children EXCEPT ![wp] = @ + 1]
  /\ fpm_globals_running_children' = fpm_globals_running_children + 1
  /\ UNCHANGED <<control, stop, idle_spawn_rate, last_faults, raised, sp, bounds,
                 in_shutdown, late>>

ForkFails ==
  /\ At("make") /\ WantsChild /\ failures < MaxForkFailures
  /\ failures' = failures + 1
  /\ Return
  /\ UNCHANGED <<todo, left, seen, books, stop, tuning, kernel, sent, worker>>

Made ==
  /\ At("make") /\ ~WantsChild
  /\ Return
  /\ UNCHANGED <<todo, left, seen, books, stop, tuning, kernel, bounds, worker>>

\* fpm_run: the initial children of every pool, then the event loop.
CreateInitial ==
  /\ At("start")
  /\ IF todo = {}
     THEN Goto("signals") /\ UNCHANGED <<wp, todo, max, back>>
     ELSE \E w \in todo :
            /\ todo' = todo \ {w}
            /\ StartMake(w, IF pm[w] = "dynamic" THEN pm_start_servers[w]
                            ELSE pm_max_children[w], "start")
  /\ UNCHANGED <<left, seen, books, stop, tuning, kernel, bounds, worker>>

-----------------------------------------------------------------------------
(* fpm_got_signal: one character per step until the socketpair is empty.   *)

ReadSignal ==
  /\ At("signals") /\ sp # <<>>
  /\ sp' = Tail(sp)
  /\ \/ /\ Head(sp) = "CHLD"
        /\ Goto("bury")
        /\ UNCHANGED <<stop, pending>>
     \/ /\ Head(sp) # "CHLD"
        /\ SetState(CASE Head(sp) = "TERM" -> "terminating"
                      [] Head(sp) = "QUIT" -> "finishing"
                      [] Head(sp) = "USR2" -> "reloading")
        /\ UNCHANGED pc
  /\ UNCHANGED <<wp, todo, left, seen, max, back, books, tuning, raised, proc,
                 bounds, worker>>

Drained ==
  /\ At("signals") /\ sp = <<>>
  /\ Goto("pctl")
  /\ UNCHANGED <<wp, todo, left, seen, max, back, books, stop, tuning, kernel,
                 bounds, worker>>

-----------------------------------------------------------------------------
(* fpm_children_bury: one waitpid and all that follows from it per step.   *)

PoolOf(c) == CHOOSE w \in Pools : c \in children[w]

\* A child the maintenance asked to leave, and that left, is not replaced.
Restarts(c) == ~(proc[c] = "exited" /\ c \in idle_kill)

\* Mutant: the count of all pools is forgotten.
UnlinkFromPool(c) ==
  /\ children' = [children EXCEPT ![PoolOf(c)] = @ \ {c}]
  /\ running_children' = [running_children EXCEPT ![PoolOf(c)] = @ - 1]
  /\ UNCHANGED fpm_globals_running_children

Unlink(c) ==
  /\ children' = [children EXCEPT ![PoolOf(c)] = @ \ {c}]
  /\ running_children' = [running_children EXCEPT ![PoolOf(c)] = @ - 1]
  /\ fpm_globals_running_children' = fpm_globals_running_children - 1

\* The ring of the last emergency_restart_threshold faults holds only
\* entries inside the interval exactly if that many faults are that young.
CountFault(c) ==
  last_faults' = IF proc[c] = "crashed" /\ last_faults < emergency_restart_threshold
                 THEN last_faults + 1 ELSE last_faults

ThresholdReached(c) ==
  /\ proc[c] = "crashed" /\ emergency_restart_threshold > 0
  /\ last_faults + 1 >= emergency_restart_threshold

\* fpm_pctl_child_exited, then the emergency restart: the last child of a
\* master that is stopping takes it away, a fault too many starts a reload.
ChildExited(c) ==
  LET last == fpm_globals_running_children = 1
  IN IF fpm_state # "normal" /\ last
     THEN LastAction(fpm_state) /\ UNCHANGED <<fpm_state, fpm_signal_sent, pctl_event, pending>>
     ELSE IF ThresholdReached(c) /\ Overrides("reloading", fpm_state)
     THEN /\ fpm_state' = "reloading"
          /\ IF last
             THEN LastAction("reloading") /\ UNCHANGED <<fpm_signal_sent, pctl_event, pending>>
             ELSE /\ Kill(Linked \ {c}, "QUIT")
                  /\ fpm_signal_sent' = "QUIT"
                  /\ pctl_event' = TRUE
                  /\ UNCHANGED master
     ELSE UNCHANGED <<stop, pending>>

Bury(c) ==
  /\ At("bury") /\ Zombie(c)
  /\ proc' = [proc EXCEPT ![c] = "free"]
  /\ Unlink(c)
  /\ CountFault(c)
  /\ ChildExited(c)
  /\ LET w == PoolOf(c)
     IN IF Restarts(c)
        THEN StartMake(w, IF pm[w] = "dynamic" THEN running_children[w]
                          ELSE pm_max_children[w], "bury")
        ELSE UNCHANGED <<pc, wp, max, back>>
  /\ UNCHANGED <<todo, left, seen, idle_kill, idle_spawn_rate, raised, sp,
                 bounds, worker>>

\* Mutant: one waitpid for one SIGCHLD.
OneBuried ==
  /\ At("bury")
  /\ Goto("signals")
  /\ UNCHANGED <<wp, todo, left, seen, max, back, books, stop, tuning, kernel,
                 bounds, worker>>

NoneToBury ==
  /\ At("bury") /\ \A c \in Pids : ~Zombie(c)
  /\ Goto("signals")
  /\ UNCHANGED <<wp, todo, left, seen, max, back, books, stop, tuning, kernel,
                 bounds, worker>>

-----------------------------------------------------------------------------
(* The timers, in the order of their queue.  A timer that is not due is    *)
(* skipped.                                                                *)

Skip ==
  /\ master = "running"
  /\ \/ pc = "pctl" /\ Goto("idle")
     \/ pc = "idle" /\ Goto("requests")
     \/ pc = "requests" /\ Goto("signals")
  /\ UNCHANGED <<wp, todo, left, seen, max, back, books, stop, tuning, kernel,
                 bounds, worker>>

\* fpm_pctl_action arms its own event again, which is still in the queue;
\* the loop then takes it out, as it does with any event that has fired.
PctlTimer ==
  /\ At("pctl") /\ pctl_event
  /\ ActionNext(fpm_state, fpm_signal_sent, FALSE)
  /\ Goto("idle")
  /\ UNCHANGED <<wp, todo, left, seen, max, back, books, fpm_state, tuning,
                 raised, sp, proc, bounds, worker>>

\* fpm_pctl_perform_idle_server_maintenance; a static pool is only counted.
IdleTimer ==
  /\ At("idle") /\ fpm_pctl_can_spawn_children
  /\ todo' = {w \in Pools : pm[w] = "dynamic"}
  /\ Goto("pools")
  /\ UNCHANGED <<wp, left, seen, max, back, books, stop, tuning, kernel,
                 bounds, worker>>

NextPool ==
  /\ At("pools")
  /\ IF todo = {}
     THEN Goto("requests") /\ UNCHANGED <<todo, wp, left, seen>>
     ELSE \E w \in todo :
            /\ todo' = todo \ {w}
            /\ wp' = w
            /\ left' = children[w]
            /\ seen' = {}
            /\ Goto("scan")
  /\ UNCHANGED <<max, back, books, stop, tuning, kernel, bounds, worker>>

\* fpm_request_is_idle: a read of the slot, with no lock.
ReadSlot(c) ==
  /\ At("scan") /\ c \in left
  /\ left' = left \ {c}
  /\ seen' = IF request_stage[c] = "accepting" THEN seen \union {c} ELSE seen
  /\ UNCHANGED <<pc, wp, todo, max, back, books, stop, tuning, kernel, bounds,
                 worker>>

Idle == Cardinality(seen)
Scanned == At("scan") /\ left = {}
EndScan == Goto("pools") /\ wp' = FirstPool /\ seen' = {}

\* Too many: ask one of them (the oldest; start times are not kept) to quit.
KillIdle(c) ==
  /\ Scanned /\ Idle > pm_max_spare_servers[wp] /\ c \in seen
  /\ idle_kill' = idle_kill \union {c}
  /\ Kill({c}, "QUIT")
  /\ idle_spawn_rate' = [idle_spawn_rate EXCEPT ![wp] = 1]
  /\ EndScan
  /\ UNCHANGED <<todo, left, max, back, books, stop, last_faults, raised, sp,
                 proc, bounds, worker>>

Smaller(m, n) == IF m < n THEN m ELSE n

\* Too few: fork, twice as many the next time, up to max_children.
SpawnIdle ==
  /\ Scanned /\ Idle < pm_min_spare_servers[wp]
  /\ running_children[wp] < pm_max_children[wp]
  /\ LET rate == idle_spawn_rate[wp]
         children_to_fork ==
            Smaller(Smaller(rate, pm_min_spare_servers[wp] - Idle),
                    pm_max_children[wp] - running_children[wp])
     IN /\ StartMake(wp, running_children[wp] + children_to_fork, "pools")
        /\ idle_spawn_rate' = [idle_spawn_rate EXCEPT
              ![wp] = IF rate < FPM_MAX_SPAWN_RATE THEN 2 * rate ELSE rate]
  /\ seen' = {}
  /\ UNCHANGED <<todo, left, books, stop, idle_kill, last_faults, kernel,
                 bounds, worker>>

\* Mutant: the rate is halved, and may become 0.
SufficesHalved ==
  /\ Scanned /\ Idle =< pm_max_spare_servers[wp]
  /\ \/ Idle >= pm_min_spare_servers[wp]
     \/ running_children[wp] >= pm_max_children[wp]
  /\ idle_spawn_rate' = [idle_spawn_rate EXCEPT ![wp] = @ \div 2]
  /\ EndScan
  /\ UNCHANGED <<todo, left, max, back, books, stop, idle_kill, last_faults,
                 kernel, bounds, worker>>

Suffices ==
  /\ Scanned /\ Idle =< pm_max_spare_servers[wp]
  /\ \/ Idle >= pm_min_spare_servers[wp]
     \/ running_children[wp] >= pm_max_children[wp]
  /\ idle_spawn_rate' = [idle_spawn_rate EXCEPT ![wp] = 1]
  /\ EndScan
  /\ UNCHANGED <<todo, left, max, back, books, stop, idle_kill, last_faults,
                 kernel, bounds, worker>>

\* fpm_pctl_check_request_timeout and fpm_request_check_timed_out: a copy
\* of the slot is taken under its lock, the signal is sent without it.
RequestTimer ==
  /\ At("requests") /\ request_terminate_timeout
  /\ left' = Linked
  /\ Goto("check")
  /\ UNCHANGED <<wp, todo, seen, max, back, books, stop, tuning, kernel,
                 bounds, worker>>

CopySlot(c) ==
  /\ At("check") /\ c \in left
  /\ left' = left \ {c}
  /\ IF request_stage[c] = "active" /\ c \in over
     THEN seen' = {c} /\ Goto("terminate")
     ELSE UNCHANGED <<seen, pc>>
  /\ UNCHANGED <<wp, todo, max, back, books, stop, tuning, kernel, bounds,
                 worker>>

\* Mutant: asks for a soft quit.
TerminateSoftly ==
  /\ At("terminate")
  /\ Kill(seen, "QUIT")
  /\ Goto("check")
  /\ seen' = {}
  /\ UNCHANGED <<wp, todo, left, max, back, books, stop, tuning, raised,
                 sp, proc, bounds, worker>>

TerminateRequest ==
  /\ At("terminate")
  /\ Kill(seen, "TERM")
  /\ Goto("check")
  /\ seen' = {}
  /\ UNCHANGED <<wp, todo, left, max, back, books, stop, tuning, raised,
                 sp, proc, bounds, worker>>

Checked ==
  /\ At("check") /\ left = {}
  /\ Goto("signals")
  /\ UNCHANGED <<wp, todo, left, seen, max, back, books, stop, tuning, kernel,
                 bounds, worker>>

FaultsAge ==
  /\ last_faults > 0
  /\ last_faults' \in 0 .. last_faults - 1
  /\ UNCHANGED <<control, books, stop, idle_kill, idle_spawn_rate, kernel,
                 bounds, worker>>

-----------------------------------------------------------------------------
(* Signals to the master: sig_handler runs at once, in the middle of any   *)
(* other code, and writes one character; a full socketpair takes none.     *)

Signal(s) ==
  /\ master = "running" /\ sent < MaxSignals /\ s \notin raised
  /\ sent' = sent + 1
  /\ raised' = raised \union {s}
  /\ UNCHANGED <<control, books, stop, tuning, sp, proc, pending, failures,
                 worker>>

sig_handler(s) ==
  /\ master = "running" /\ s \in raised
  /\ raised' = raised \ {s}
  /\ sp' = IF Len(sp) < PipeSize THEN Append(sp, s) ELSE sp
  /\ UNCHANGED <<control, books, stop, tuning, proc, pending, bounds, worker>>

-----------------------------------------------------------------------------
(* The workers.                                                            *)

Ends(c, how) ==
  /\ proc' = [proc EXCEPT ![c] = how]
  /\ pending' = [pending EXCEPT ![c] = {}]
  /\ raised' = raised \union {"CHLD"}
  /\ in_shutdown' = in_shutdown \ {c}
  /\ late' = late \ {c}
  /\ UNCHANGED <<sp, request_stage, over>>

Becomes(c, state, stage) ==
  /\ proc' = [proc EXCEPT ![c] = state]
  /\ request_stage' = [request_stage EXCEPT ![c] = stage]
  /\ UNCHANGED <<raised, sp, pending>>

masters == <<control, books, stop, tuning, bounds>>

\* fpm_child_init done, fcgi_accept_request waits in accept().
InitChild(c) ==
  /\ proc[c] = "starting"
  /\ Becomes(c, "accepting", "accepting")
  /\ UNCHANGED <<masters, in_shutdown, over, late>>

InitChildFails(c) ==
  /\ proc[c] = "starting"
  /\ Ends(c, "exited")
  /\ UNCHANGED masters

\* accept() returned a connection: slot.accepted is now.
Accept(c) ==
  /\ proc[c] = "accepting" /\ c \notin in_shutdown
  /\ Becomes(c, "serving", "active")
  /\ over' = over \ {c}
  /\ UNCHANGED <<masters, in_shutdown, late>>

\* sig_soft_quit closed the socket accept() was waiting on.
QuitIdle(c) ==
  /\ proc[c] = "accepting" /\ c \in in_shutdown
  /\ Ends(c, "exited")
  /\ UNCHANGED masters

\* A request is done and its connection closed: accept the next one.
CloseConnection(c) ==
  /\ proc[c] \in Serving \union {"waiting"} /\ c \notin in_shutdown
  /\ Becomes(c, "accepting", "accepting")
  /\ late' = late \ {c}
  /\ UNCHANGED <<masters, in_shutdown, over>>

\* The connection is done with and so is the worker, told to quit or, after
\* a request, because it was the last of pm.max_requests.
Retire(c) ==
  /\ proc[c] \in Serving \/ (proc[c] = "waiting" /\ c \in in_shutdown)
  /\ Ends(c, "exited")
  /\ UNCHANGED masters

\* The client keeps the connection (FCGI_KEEP_CONN): the worker reads its
\* next request, and the slot stays as the last one left it.
KeepConnection(c) ==
  /\ proc[c] \in Serving /\ c \notin in_shutdown
  /\ Becomes(c, "waiting", "active")
  /\ late' = late \ {c}
  /\ UNCHANGED <<masters, in_shutdown, over>>

NextRequest(c) ==
  /\ proc[c] = "waiting"
  /\ Becomes(c, "again", "active")
  /\ UNCHANGED <<masters, in_shutdown, over, late>>

\* The slot tells the age of the connection, which is the age of its first
\* request and of no other.
TimePasses(c) ==
  /\ request_terminate_timeout
  /\ over' = over \union {c}
  /\ \/ proc[c] \in Serving /\ late' = late \union {c}
     \/ proc[c] \in {"again", "waiting"} /\ UNCHANGED late
  /\ UNCHANGED <<masters, kernel, request_stage, in_shutdown>>

\* A fault, before or after fpm_child_init, or a signal from outside that ends
\* the worker; fpm_children_bury counts SIGSEGV and SIGBUS as faults.
Crash(c) ==
  /\ Live(c)
  /\ \E how \in {"crashed", "killed"} : Ends(c, how)
  /\ UNCHANGED masters

\* Until fpm_signals_init_child the worker has the master's handler, which
\* returns at once in any process but the master.
Deliver(c, sig) ==
  /\ Live(c) /\ sig \in pending[c]
  /\ IF sig = "KILL" \/ (sig = "TERM" /\ proc[c] # "starting")
     THEN Ends(c, "killed")
     ELSE /\ pending' = [pending EXCEPT ![c] = @ \ {sig}]
          /\ in_shutdown' = IF sig = "QUIT" /\ proc[c] # "starting"
                            THEN in_shutdown \union {c} ELSE in_shutdown
          /\ UNCHANGED <<raised, sp, proc, request_stage, over, late>>
  /\ UNCHANGED masters

-----------------------------------------------------------------------------

Init ==
  /\ master = "running" /\ pc = "start"
  /\ wp = FirstPool
  /\ todo = Pools /\ left = {} /\ seen = {} /\ max = 0 /\ back = "start"
  /\ children = [w \in Pools |-> {}]
  /\ running_children = [w \in Pools |-> 0]
  /\ fpm_globals_running_children = 0
  /\ fpm_state = "normal" /\ fpm_signal_sent = NONE /\ pctl_event = FALSE
  /\ idle_kill = {} /\ idle_spawn_rate = [w \in Pools |-> 1] /\ last_faults = 0
  /\ raised = {} /\ sp = <<>>
  /\ proc = [c \in Pids |-> "free"]
  /\ pending = [c \in Pids |-> {}]
  /\ sent = 0 /\ failures = 0
  /\ request_stage = [c \in Pids |-> NONE]
  /\ in_shutdown = {} /\ over = {} /\ late = {}

Timers == PctlTimer \/ IdleTimer \/ RequestTimer

MasterStep ==
  \/ CreateInitial \/ Made \/ ReadSignal \/ Drained \/ NoneToBury \/ Skip
  \/ Timers \/ NextPool \/ SpawnIdle \/ Suffices \/ TerminateRequest \/ Checked
  \/ \E c \in Pids : Fork(c) \/ Bury(c) \/ ReadSlot(c) \/ KillIdle(c) \/ CopySlot(c)

WorkerStep(c) ==
  \/ InitChild(c) \/ InitChildFails(c) \/ Accept(c) \/ QuitIdle(c)
  \/ CloseConnection(c) \/ Retire(c) \/ KeepConnection(c) \/ NextRequest(c)
  \/ TimePasses(c) \/ Crash(c)

Signals == {"TERM", "QUIT", "USR2"}

Next ==
  \/ MasterStep \/ ForkFails \/ FaultsAge
  \/ \E s \in Signals : Signal(s)
  \/ \E s \in Signals \union {"CHLD"} : sig_handler(s)
  \/ \E c \in Pids : WorkerStep(c) \/ \E sig \in Kills : Deliver(c, sig)

Spec == Init /\ [][Next]_vars

\* The master runs, its timers fall due again and again, signals reach their
\* process, a worker finishes its initialisation and leaves a dead accept().
\* Nothing says a request ends, or that a fork succeeds before MaxForkFailures.
Fairness ==
  /\ WF_vars(MasterStep)
  /\ SF_vars(PctlTimer) /\ SF_vars(IdleTimer) /\ SF_vars(RequestTimer)
  /\ \A s \in Signals \union {"CHLD"} : WF_vars(sig_handler(s))
  /\ \A c \in Pids : /\ WF_vars(InitChild(c) \/ InitChildFails(c))
                     /\ WF_vars(QuitIdle(c))
                     /\ \A sig \in Kills : WF_vars(Deliver(c, sig))

FairSpec == Spec /\ Fairness

-----------------------------------------------------------------------------
(* Properties.                                                             *)

TypeOK ==
  /\ master \in {"running", "exec", "exit"}
  /\ pc \in {"start", "make", "signals", "bury", "pctl", "idle", "pools", "scan",
             "requests", "check", "terminate"}
  /\ wp \in Pools /\ todo \subseteq Pools
  /\ left \subseteq Pids /\ seen \subseteq Pids
  /\ max \in Nat /\ back \in {"start", "bury", "pools"}
  /\ fpm_state \in States
  /\ fpm_signal_sent \in Kills \union {NONE}
  /\ pctl_event \in BOOLEAN
  /\ children \in [Pools -> SUBSET Pids]
  /\ running_children \in [Pools -> Nat]
  /\ fpm_globals_running_children \in Nat
  /\ idle_kill \subseteq Pids
  /\ idle_spawn_rate \in [Pools -> Nat \ {0}]
  /\ last_faults \in 0 .. emergency_restart_threshold
  /\ raised \subseteq Signals \union {"CHLD"}
  /\ sp \in Seq(Signals \union {"CHLD"})
  /\ proc \in [Pids -> Alive \union Dead \union {"free"}]
  /\ pending \in [Pids -> SUBSET Kills]
  /\ sent \in Nat /\ failures \in Nat
  /\ request_stage \in [Pids -> {NONE, "accepting", "active"}]
  /\ in_shutdown \subseteq Pids /\ over \subseteq Pids /\ late \subseteq Pids

\* The books are the kernel's: every process the master forked and has not
\* yet buried is in the list of exactly one pool, and both counters, the
\* pool's and the one that decides when the master may leave, count them.
Books ==
  /\ \A c \in Pids : proc[c] # "free" <=> c \in Linked
  /\ \A v, w \in Pools : v # w => children[v] \intersect children[w] = {}
  /\ \A w \in Pools : running_children[w] = Cardinality(children[w])
  /\ fpm_globals_running_children = Cardinality(Linked)

\* A worker that died is on its way to be buried: SIGCHLD is raised, or its
\* character is in the socketpair, or the master is in the waitpid loop.
\* The characters that did not fit do no harm, for one that did is a CHLD (as
\* long as the signals of an operator do not fill the socketpair).
DeathsAreNoticed ==
  master = "running" /\ (\E c \in Pids : Zombie(c)) =>
    \/ "CHLD" \in raised
    \/ \E i \in DOMAIN sp : sp[i] = "CHLD"
    \/ pc = "bury" \/ (pc = "make" /\ back = "bury")

\* A worker the idle maintenance gave up, and will not replace, is leaving:
\* it has its SIGQUIT before it or has taken it.  (A worker still starting
\* would drop the signal and live on marked.)
MarkedAreLeaving ==
  \A c \in idle_kill :
     Live(c) => "QUIT" \in pending[c] \/ c \in in_shutdown

\* Seen from outside, the master is the service of FpmService: pools within
\* pm.max_children whoever replaces or adds workers, no worker after a stop
\* began, a stop that is only made more urgent, nobody left behind at its end.
Service == INSTANCE FpmService WITH
  workers <- children,
  mode <- IF master = "running" THEN fpm_state ELSE "gone"
AbstractSpec == Service!Spec

Stopping == fpm_state # "normal"
Stopped == master # "running"

\* SIGTERM and SIGINT end the master, whatever its workers do: the timer
\* brings SIGKILL to those that are deaf to SIGTERM, and the last death out.
TerminatingEnds == fpm_state = "terminating" ~> Stopped

\* A graceful stop or reload whose SIGQUIT found every worker initialised
\* ends too, requests without end or not, for SIGTERM follows.
GracefulStopEnds ==
  (Stopping /\ fpm_signal_sent = "QUIT" /\ \A c \in Pids : proc[c] # "starting")
     ~> Stopped

\* A dynamic pool below pm.min_spare_servers is filled again, though forks
\* fail and workers crash.
DynamicPoolsRefill ==
  \A w \in Pools : pm[w] = "dynamic" =>
     running_children[w] < pm_min_spare_servers[w]
        ~> running_children[w] >= pm_min_spare_servers[w] \/ Stopping \/ Stopped

\* A request over request_terminate_timeout does not stay: its worker ends.
\* The heartbeat must come for that, and it does not while workers die as
\* fast as the waitpid loop replaces them.
LateRequestsEnd ==
  []<>At("requests") => \A c \in Pids : c \in late ~> c \notin late
=============================================================================
