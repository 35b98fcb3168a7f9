------------------------------ MODULE ModelRun ------------------------------
(***************************************************************************)
(* One model of the server and the request threads that run it: BusyGuard  *)
(* (busy_guard.h), the lazy load of the model's session and the run itself *)
(* (run_model, run_streaming_model_impl in runtime.cpp).                   *)
(*                                                                         *)
(* Every step is one access to shared state, so that a thread can be       *)
(* preempted wherever the code can: between loading busy_since_ms_ and     *)
(* reading the clock, between taking the mutex and stamping it, between    *)
(* clearing the stamp and unlocking, and between finding no session and    *)
(* installing one.                                                         *)
(*                                                                         *)
(* Time.  The code compares steady-clock differences with timeouts and     *)
(* does nothing else with them, so the model keeps the differences: how    *)
(* long ago a time stamp was taken, saturating at Horizon (a bound greater *)
(* than every timeout, past which no comparison changes).                  *)
(***************************************************************************)
EXTENDS Integers, FiniteSets

CONSTANTS
    Threads,        \* request threads that run this model
    VoiceThreads,   \* those that come through find_asr_model()
    Ceilings,       \* values busy_timeout_ms may have in the configuration
    Requested,      \* values a request body may carry
    NoOverride,     \* std::nullopt: the request carries no busy_timeout_ms
    NoThread,       \* a free mutex, a null session
    Idle,           \* busy_since_ms_ = 0
    Horizon         \* ages saturate here

ASSUME ModelRunAssumption ==
    /\ VoiceThreads \subseteq Threads
    /\ NoThread \notin Threads
    /\ Ceilings \subseteq Nat
    /\ Requested \subseteq Int
    /\ NoOverride \notin Requested
    /\ Horizon \in Nat
    /\ \A c \in Ceilings \cup Requested : c < Horizon
    /\ Idle \notin 0 .. Horizon

VARIABLES
    ceiling,        \* the model's configured busy_timeout_ms
    owner,          \* BusyGuard::mutex_
    busyFor,        \* age of busy_since_ms_
    modelsMutex,    \* ServerState::models_mutex_
    session,        \* LoadedModel::session, named after the thread that loaded it
    pc,             \* where each thread is
    timeout,        \* its resolved timeout
    snapshot,       \* age of the time stamp it loaded
    waited,         \* how long it has been in try_lock_for
    inUse,          \* the session its run was started on
    contended       \* history: it met the guard held during this acquire

guardVars  == <<owner, busyFor>>
loadVars   == <<modelsMutex, session>>
threadVars == <<timeout, snapshot, waited, inUse, contended>>
vars == <<ceiling, guardVars, loadVars, pc, threadVars>>

Ages == 0 .. Horizon

PcValues == {"idle", "preloading", "preloaded", "locking", "check", "decide",
             "trying", "waiting", "owned", "load", "loading", "running",
             "clear", "unlock", "busy_error"}

\* The steps between mutex_ being taken and being released.
Holding == {"owned", "load", "loading", "running", "clear", "unlock"}

\* The part of them in which busy_since_ms_ carries this run's time stamp.
Stamped == {"load", "loading", "running", "clear"}

TypeOK ==
    /\ ceiling \in Nat
    /\ owner \in Threads \cup {NoThread}
    /\ busyFor \in Ages \cup {Idle}
    /\ modelsMutex \in Threads \cup {NoThread}
    /\ session \in Threads \cup {NoThread}
    /\ pc \in [Threads -> PcValues]
    /\ timeout \in [Threads -> Nat]
    /\ snapshot \in [Threads -> Ages \cup {Idle}]
    /\ waited \in [Threads -> Ages]
    /\ inUse \in [Threads -> Threads \cup {NoThread}]
    /\ contended \in [Threads -> BOOLEAN]

----------------------------------------------------------------------------
\* A stamp of 0 or a disabled guard never overruns.
model_run_has_overrun(age, limit) ==
    /\ limit > 0
    /\ age # Idle
    /\ age > limit

\* Slip: a request for "unbounded" is honored.
resolve_uncapped(policy, requested) ==
    IF requested = NoOverride THEN policy
    ELSE IF requested <= 0 \/ policy <= 0 THEN requested
    ELSE IF requested < policy THEN requested ELSE policy

\* A request may shorten the policy, never lengthen it; a value of 0 or less
\* counts as infinity on both sides.
resolve_busy_timeout_ms(policy, requested) ==
    IF requested = NoOverride THEN policy
    ELSE IF requested <= 0 THEN policy
    ELSE IF policy <= 0 THEN requested
    ELSE IF requested < policy THEN requested ELSE policy

Older(age) == IF age = Idle \/ age = Horizon THEN age ELSE age + 1

Goto(t, from, to) ==
    /\ pc[t] = from
    /\ pc' = [pc EXCEPT ![t] = to]

\* acquire() returns or has thrown: its locals go out of scope.
LeaveAcquire(t) ==
    /\ timeout' = [timeout EXCEPT ![t] = 0]
    /\ snapshot' = [snapshot EXCEPT ![t] = Idle]
    /\ waited' = [waited EXCEPT ![t] = 0]
    /\ contended' = [contended EXCEPT ![t] = FALSE]

----------------------------------------------------------------------------
\* find_asr_model(): the voice path loads the model under models_mutex_, not
\* under the model's guard, and then keeps only a pointer to it.
PreloadHit(t) ==
    /\ t \in VoiceThreads
    /\ modelsMutex = NoThread
    /\ session # NoThread
    /\ Goto(t, "idle", "preloaded")
    /\ UNCHANGED <<ceiling, guardVars, loadVars, threadVars>>

PreloadMiss(t) ==
    /\ t \in VoiceThreads
    /\ modelsMutex = NoThread
    /\ session = NoThread
    /\ modelsMutex' = t
    /\ Goto(t, "idle", "preloading")
    /\ UNCHANGED <<ceiling, guardVars, session, threadVars>>

PreloadDone(t) ==
    /\ session' = t
    /\ modelsMutex' = NoThread
    /\ Goto(t, "preloading", "preloaded")
    /\ UNCHANGED <<ceiling, guardVars, threadVars>>

PreloadThrows(t) ==
    /\ modelsMutex' = NoThread
    /\ Goto(t, "preloading", "idle")
    /\ UNCHANGED <<ceiling, guardVars, session, threadVars>>

----------------------------------------------------------------------------
\* acquire_model_run(): resolve the timeout and enter BusyGuard::acquire.
AcquireModelRun(t, requested) ==
    /\ pc[t] = IF t \in VoiceThreads THEN "preloaded" ELSE "idle"
    /\ LET limit == resolve_busy_timeout_ms(ceiling, requested)
       IN /\ timeout' = [timeout EXCEPT ![t] = limit]
          /\ pc' = [pc EXCEPT ![t] = IF limit <= 0 THEN "locking" ELSE "check"]
    /\ UNCHANGED <<ceiling, guardVars, loadVars, snapshot, waited, inUse, contended>>

\* since = busy_since_ms_.load()
LoadBusySince(t) ==
    /\ snapshot' = [snapshot EXCEPT ![t] = busyFor]
    /\ contended' = [contended EXCEPT ![t] = owner # NoThread]
    /\ Goto(t, "check", "decide")
    /\ UNCHANGED <<ceiling, guardVars, loadVars, timeout, waited, inUse>>

\* The holder has overrun: throw ServerBusyError without waiting.
FailFast(t) ==
    /\ model_run_has_overrun(snapshot[t], timeout[t])
    /\ Goto(t, "decide", "busy_error")
    /\ UNCHANGED <<ceiling, guardVars, loadVars, threadVars>>

\* Enter try_lock_for(): it takes a free mutex at once and waits for a held one.
TryLockFor(t) ==
    /\ ~ model_run_has_overrun(snapshot[t], timeout[t])
    /\ snapshot' = [snapshot EXCEPT ![t] = Idle]
    /\ Goto(t, "decide", "trying")
    /\ UNCHANGED <<ceiling, guardVars, loadVars, timeout, waited, inUse, contended>>

Queue(t) ==
    /\ owner # NoThread
    /\ contended' = [contended EXCEPT ![t] = TRUE]
    /\ Goto(t, "trying", "waiting")
    /\ UNCHANGED <<ceiling, guardVars, loadVars, timeout, snapshot, waited, inUse>>

\* Slip: the result of try_lock_for() is ignored.
TakeMutexUnchecked(t) ==
    /\ pc[t] \in {"locking", "trying", "waiting"}
    /\ owner' = t
    /\ LeaveAcquire(t)
    /\ pc' = [pc EXCEPT ![t] = "owned"]
    /\ UNCHANGED <<ceiling, busyFor, loadVars, inUse>>

\* The mutex is granted, to lock() or to try_lock_for().
TakeMutex(t) ==
    /\ pc[t] \in {"locking", "trying", "waiting"}
    /\ owner = NoThread
    /\ owner' = t
    /\ LeaveAcquire(t)
    /\ pc' = [pc EXCEPT ![t] = "owned"]
    /\ UNCHANGED <<ceiling, busyFor, loadVars, inUse>>

\* try_lock_for() gives up: throw ServerBusyError.
TimeOut(t) ==
    /\ waited[t] >= timeout[t]
    /\ Goto(t, "waiting", "busy_error")
    /\ UNCHANGED <<ceiling, guardVars, loadVars, threadVars>>

\* Slip: acquire returns the Lock without stamping it.
StampBusyForgotten(t) ==
    /\ Goto(t, "owned", "load")
    /\ UNCHANGED <<ceiling, guardVars, loadVars, threadVars>>

\* busy_since_ms_.store(now): acquire returns the Lock.
StampBusy(t) ==
    /\ busyFor' = 0
    /\ Goto(t, "owned", "load")
    /\ UNCHANGED <<ceiling, owner, loadVars, threadVars>>

----------------------------------------------------------------------------
\* ensure_model_loaded_locked(), then prepare() and run().
EnsureLoadedHit(t) ==
    /\ session # NoThread
    /\ inUse' = [inUse EXCEPT ![t] = session]
    /\ Goto(t, "load", "running")
    /\ UNCHANGED <<ceiling, guardVars, loadVars, timeout, snapshot, waited, contended>>

EnsureLoadedMiss(t) ==
    /\ session = NoThread
    /\ Goto(t, "load", "loading")
    /\ UNCHANGED <<ceiling, guardVars, loadVars, threadVars>>

EnsureLoadedDone(t) ==
    /\ session' = t
    /\ inUse' = [inUse EXCEPT ![t] = t]
    /\ Goto(t, "loading", "running")
    /\ UNCHANGED <<ceiling, guardVars, modelsMutex, timeout, snapshot, waited, contended>>

EnsureLoadedThrows(t) ==
    /\ Goto(t, "loading", "clear")
    /\ UNCHANGED <<ceiling, guardVars, loadVars, threadVars>>

\* The run returns or throws; either way the Lock is destroyed next.
RunEnds(t) ==
    /\ inUse' = [inUse EXCEPT ![t] = NoThread]
    /\ Goto(t, "running", "clear")
    /\ UNCHANGED <<ceiling, guardVars, loadVars, timeout, snapshot, waited, contended>>

\* Slip: the destructor only unlocks.
ClearBusyForgotten(t) ==
    /\ Goto(t, "clear", "unlock")
    /\ UNCHANGED <<ceiling, guardVars, loadVars, threadVars>>

\* ~Lock(): first the time stamp, then the mutex (the unique_lock member).
ClearBusy(t) ==
    /\ busyFor' = Idle
    /\ Goto(t, "clear", "unlock")
    /\ UNCHANGED <<ceiling, owner, loadVars, threadVars>>

Unlock(t) ==
    /\ owner' = NoThread
    /\ Goto(t, "unlock", "idle")
    /\ UNCHANGED <<ceiling, busyFor, loadVars, threadVars>>

\* The 503 (or the stream's error event) reaches the client.
ReportBusy(t) ==
    /\ LeaveAcquire(t)
    /\ Goto(t, "busy_error", "idle")
    /\ UNCHANGED <<ceiling, guardVars, loadVars, inUse>>

\* A millisecond passes.  A thread's snapshot and wait age while it needs them.
Tick ==
    /\ busyFor' = Older(busyFor)
    /\ snapshot' = [t \in Threads |->
                       IF pc[t] = "decide" THEN Older(snapshot[t]) ELSE snapshot[t]]
    /\ waited' = [t \in Threads |->
                     IF pc[t] = "waiting" THEN Older(waited[t]) ELSE waited[t]]
    /\ UNCHANGED <<ceiling, owner, loadVars, pc, timeout, inUse, contended>>

----------------------------------------------------------------------------
Init ==
    /\ ceiling \in Ceilings
    /\ owner = NoThread
    /\ busyFor = Idle
    /\ modelsMutex = NoThread
    /\ session = NoThread
    /\ pc = [t \in Threads |-> "idle"]
    /\ timeout = [t \in Threads |-> 0]
    /\ snapshot = [t \in Threads |-> Idle]
    /\ waited = [t \in Threads |-> 0]
    /\ inUse = [t \in Threads |-> NoThread]
    /\ contended = [t \in Threads |-> FALSE]

Acquire(t) ==
    \/ LoadBusySince(t) \/ FailFast(t) \/ TryLockFor(t) \/ Queue(t)
    \/ TakeMutex(t) \/ TimeOut(t) \/ StampBusy(t)

Release(t) == ClearBusy(t) \/ Unlock(t) \/ ReportBusy(t)

Load(t) ==
    \/ PreloadHit(t) \/ PreloadMiss(t) \/ PreloadDone(t) \/ PreloadThrows(t)
    \/ EnsureLoadedHit(t) \/ EnsureLoadedMiss(t)
    \/ EnsureLoadedDone(t) \/ EnsureLoadedThrows(t)

Step(t) ==
    \/ \E r \in Requested \cup {NoOverride} : AcquireModelRun(t, r)
    \/ Acquire(t)
    \/ Load(t)
    \/ RunEnds(t)
    \/ Release(t)

Next == Tick \/ \E t \in Threads : Step(t)

(* Threads are scheduled and the clock advances.  Nothing is assumed of     *)
(* loads and runs: a GPU call that never returns is what the guard is for.  *)
Fairness ==
    /\ WF_vars(Tick)
    /\ \A t \in Threads : WF_vars(Acquire(t)) /\ WF_vars(Release(t))

Spec == Init /\ [][Next]_vars /\ Fairness

----------------------------------------------------------------------------
(* Runs of a model are serialized: whoever is between acquire and ~Lock     *)
(* owns mutex_, so two requests are never on the session at once.           *)
RunsSerialized ==
    \A t \in Threads : pc[t] \in Holding <=> owner = t

(* busy_since_ms_ is non-zero exactly while a run that stamped it still      *)
(* holds the guard: ~Lock resets it before the mutex is free ("so the        *)
(* fail-fast check never sees a stale timestamp").                           *)
StampIsTheHolders ==
    busyFor # Idle <=> \E t \in Threads : pc[t] \in Stamped /\ owner = t

(* A caller told 503 met the guard held while it was acquiring: an idle      *)
(* model turns nobody away, however old the last run's time stamp.           *)
RefusedOnlyIfContended ==
    \A t \in Threads : pc[t] = "busy_error" => contended[t]

(* With a positive policy every caller gets an answer, whatever timeout its  *)
(* request asks for and even when the current run never returns.             *)
BoundedWait ==
    \A t \in Threads :
        (ceiling > 0 /\ pc[t] \in {"locking", "check", "decide", "trying", "waiting"})
            ~> pc[t] \in {"owned", "busy_error"}

(* README.md: "Each model serializes its requests on an internal lock".      *)
(* Nobody replaces the session a run was started on.                         *)
SessionStableDuringRun ==
    \A t \in Threads : pc[t] = "running" => inUse[t] = session

=============================================================================
