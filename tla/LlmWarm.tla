------------------------------- MODULE LlmWarm -------------------------------
(***************************************************************************)
(* The prompt-cache warm queue of ServerState (runtime.cpp):               *)
(* queue_llm_warm and its detached worker, begin_llm_generation and        *)
(* end_llm_generation, and the health pollers of warm_llm_system_prompt.   *)
(*                                                                         *)
(* The llama.cpp sidecar has one slot.  Warm-up prompts are sent to it in  *)
(* the gaps between real generations: only the newest is kept, at most one *)
(* is in flight, and none is dispatched while a generation is active.      *)
(*                                                                         *)
(* One action is one critical section of llm_warm_mutex_.  The worker's    *)
(* 300 ms settle sleep and its POST happen between two of them.            *)
(***************************************************************************)
EXTENDS Integers, FiniteSets

CONSTANTS
    Bodies,         \* warm-up requests
    Workers,        \* identities for warm workers; one more than can ever live
    Generators,     \* threads that stream a real generation from the sidecar
    Pollers,        \* threads of warm_llm_system_prompt
    NoBody

ASSUME LlmWarmAssumption == NoBody \notin Bodies

VARIABLES
    pending,        \* llm_warm_pending_
    running,        \* llm_warm_worker_running_
    worker,         \* where each warm worker is
    posting,        \* the request each worker has on the wire
    active,         \* llm_generations_active_
    generating,     \* the generators between begin and end
    ending,         \* generators that have decremented but not yet notified
    polling,        \* the body each health poller captured
    newest          \* history: the body queued last

warmVars == <<pending, running, worker, posting, active, generating, ending, polling, newest>>

WarmTypeOK ==
    /\ pending \in Bodies \cup {NoBody}
    /\ running \in BOOLEAN
    /\ worker \in [Workers -> {"none", "start", "blocked", "settle", "post"}]
    /\ posting \in [Workers -> Bodies \cup {NoBody}]
    /\ active \in Nat
    /\ generating \subseteq Generators
    /\ ending \subseteq Generators
    /\ polling \in [Pollers -> Bodies \cup {NoBody}]
    /\ newest \in Bodies \cup {NoBody}

Live == {w \in Workers : worker[w] # "none"}

\* llm_warm_cv_.notify_all(): every blocked worker contends for the mutex.
Notified == [w \in Workers |-> IF worker[w] = "blocked" THEN "start" ELSE worker[w]]

WarmInit ==
    /\ pending = NoBody
    /\ running = FALSE
    /\ worker = [w \in Workers |-> "none"]
    /\ posting = [w \in Workers |-> NoBody]
    /\ active = 0
    /\ generating = {}
    /\ ending = {}
    /\ polling = [p \in Pollers |-> NoBody]
    /\ newest = NoBody

----------------------------------------------------------------------------
\* Slip: the running flag is not consulted, so every queued body gets a worker.
EnqueueAlwaysSpawns(b) ==
    /\ pending' = b
    /\ newest' = b
    /\ running' = TRUE
    /\ \E w \in Workers \ Live : worker' = [Notified EXCEPT ![w] = "start"]

\* Slip: an older pending body is kept.
EnqueueKeepsOldest(b) ==
    /\ pending' = IF pending = NoBody THEN b ELSE pending
    /\ newest' = b
    /\ IF running
       THEN worker' = Notified /\ UNCHANGED running
       ELSE /\ running' = TRUE
            /\ \E w \in Workers \ Live : worker' = [Notified EXCEPT ![w] = "start"]

\* queue_llm_warm(): replace the pending body, wake the worker, and spawn one
\* if none is running.
Enqueue(b) ==
    /\ pending' = b
    /\ newest' = b
    /\ IF running
       THEN worker' = Notified /\ UNCHANGED running
       ELSE /\ running' = TRUE
            /\ \E w \in Workers \ Live : worker' = [Notified EXCEPT ![w] = "start"]

QueueLlmWarm(b) ==
    /\ Enqueue(b)
    /\ UNCHANGED <<posting, active, generating, ending, polling>>

\* warm_llm_system_prompt(): the body is rendered now, queued once the sidecar
\* reports healthy, dropped after 300 s.
WarmSystemPrompt(p, b) ==
    /\ polling[p] = NoBody
    /\ polling' = [polling EXCEPT ![p] = b]
    /\ UNCHANGED <<pending, running, worker, posting, active, generating, ending, newest>>

PollHealthy(p) ==
    /\ polling[p] # NoBody
    /\ Enqueue(polling[p])
    /\ polling' = [polling EXCEPT ![p] = NoBody]
    /\ UNCHANGED <<posting, active, generating, ending>>

PollDeadline(p) ==
    /\ polling[p] # NoBody
    /\ polling' = [polling EXCEPT ![p] = NoBody]
    /\ UNCHANGED <<pending, running, worker, posting, active, generating, ending, newest>>

----------------------------------------------------------------------------
\* Nothing pending: clear the running flag and return, in one critical section.
Exit(w) ==
    /\ pending = NoBody
    /\ running' = FALSE
    /\ worker' = [worker EXCEPT ![w] = "none"]

\* A generation is active: llm_warm_cv_.wait().
Block(w) ==
    /\ pending # NoBody
    /\ active > 0
    /\ worker' = [worker EXCEPT ![w] = "blocked"]
    /\ UNCHANGED running

\* The top of the worker's loop, entered when it starts, when it is notified
\* and when its POST returns.
WorkerLoop(w) ==
    /\ worker[w] \in {"start", "post"}
    /\ \/ Exit(w)
       \/ Block(w)
       \/ /\ pending # NoBody
          /\ active = 0
          /\ worker' = [worker EXCEPT ![w] = "settle"]
          /\ UNCHANGED running
    /\ posting' = [posting EXCEPT ![w] = NoBody]
    /\ UNCHANGED <<pending, active, generating, ending, polling, newest>>

\* Slip: the settle sleep is not followed by a second look at the state.
DispatchUnchecked(w) ==
    /\ worker[w] = "settle"
    /\ pending # NoBody
    /\ posting' = [posting EXCEPT ![w] = pending]
    /\ pending' = NoBody
    /\ worker' = [worker EXCEPT ![w] = "post"]
    /\ UNCHANGED <<running, active, generating, ending, polling, newest>>

\* After the sleep everything is checked again under the lock; only then is the
\* body taken and sent.
Dispatch(w) ==
    /\ worker[w] = "settle"
    /\ pending # NoBody
    /\ active = 0
    /\ posting' = [posting EXCEPT ![w] = pending]
    /\ pending' = NoBody
    /\ worker' = [worker EXCEPT ![w] = "post"]
    /\ UNCHANGED <<running, active, generating, ending, polling, newest>>

\* The state changed during the sleep: `continue` re-runs the top of the loop.
SettleRecheck(w) ==
    /\ worker[w] = "settle"
    /\ Exit(w) \/ Block(w)
    /\ UNCHANGED <<pending, posting, active, generating, ending, polling, newest>>

\* A condition variable may wake without a notification.
SpuriousWake(w) ==
    /\ worker[w] = "blocked"
    /\ worker' = [worker EXCEPT ![w] = "start"]
    /\ UNCHANGED <<pending, running, posting, active, generating, ending, polling, newest>>

WarmWorker(w) == WorkerLoop(w) \/ Dispatch(w) \/ SettleRecheck(w)

----------------------------------------------------------------------------
BeginLlmGeneration(g) ==
    /\ g \notin generating \cup ending
    /\ active' = active + 1
    /\ generating' = generating \cup {g}
    /\ UNCHANGED <<pending, running, worker, posting, ending, polling, newest>>

\* Slip: a thread that returned before it began still ends.
EndWithoutBegin(g) ==
    /\ g \notin ending
    /\ active' = active - 1
    /\ generating' = generating \ {g}
    /\ ending' = ending \cup {g}
    /\ UNCHANGED <<pending, running, worker, posting, polling, newest>>

\* Slip: a generation is ended twice, by its guard and explicitly.
EndDecrementsTwice(g) ==
    /\ g \in generating
    /\ active' = active - 2
    /\ generating' = generating \ {g}
    /\ ending' = ending \cup {g}
    /\ UNCHANGED <<pending, running, worker, posting, polling, newest>>

\* end_llm_generation() decrements under the lock and notifies after it.
EndLlmGeneration(g) ==
    /\ g \in generating
    /\ active' = active - 1
    /\ generating' = generating \ {g}
    /\ ending' = ending \cup {g}
    /\ UNCHANGED <<pending, running, worker, posting, polling, newest>>

\* Slip: the notification is forgotten.
NotifyForgotten(g) ==
    /\ g \in ending
    /\ ending' = ending \ {g}
    /\ UNCHANGED <<pending, running, worker, posting, active, generating, polling, newest>>

NotifyEnded(g) ==
    /\ g \in ending
    /\ ending' = ending \ {g}
    /\ worker' = Notified
    /\ UNCHANGED <<pending, running, posting, active, generating, polling, newest>>

WarmNext ==
    \/ \E b \in Bodies : QueueLlmWarm(b)
    \/ \E p \in Pollers, b \in Bodies : WarmSystemPrompt(p, b)
    \/ \E p \in Pollers : PollHealthy(p) \/ PollDeadline(p)
    \/ \E w \in Workers : WarmWorker(w) \/ SpuriousWake(w)
    \/ \E g \in Generators :
          BeginLlmGeneration(g) \/ EndLlmGeneration(g) \/ NotifyEnded(g)

(* The worker is scheduled and its POST ends (60 s receive timeout); a       *)
(* thread that has decremented goes on to notify.  Generations may last and  *)
(* new ones may start.                                                       *)
WarmFairness ==
    /\ \A w \in Workers : WF_warmVars(WarmWorker(w))
    /\ \A g \in Generators : WF_warmVars(NotifyEnded(g))

WarmSafetySpec == WarmInit /\ [][WarmNext]_warmVars
WarmSpec == WarmSafetySpec /\ WarmFairness

----------------------------------------------------------------------------
(* At most one warm worker lives, the flag tells the truth about it, and a   *)
(* pending body always has a worker: queue_llm_warm never relies on one that *)
(* is about to return.                                                       *)
OneWorkerForPending ==
    /\ running <=> Live # {}
    /\ \A v, w \in Live : v = w
    /\ pending # NoBody => running

(* "none dispatch while a real generation ... needs the sidecar's single     *)
(* slot": a body leaves the queue only at a moment when no generation is     *)
(* active, although the worker slept since it last looked.                   *)
DispatchOnlyBetweenGenerations ==
    [][\A w \in Workers :
          (worker'[w] = "post" /\ worker[w] # "post") => generating = {}]_warmVars

(* "only the NEWEST pending body is kept": what is put on the wire is the     *)
(* body queued last, whatever was queued during the settle sleep, and is not *)
(* sent again while it is on the wire.                                       *)
NewestIsDispatched ==
    [][\A w \in Workers :
          (worker'[w] = "post" /\ worker[w] # "post") =>
              posting'[w] = newest /\ pending' = NoBody]_warmVars

(* No lost wake-up: once generations stop, whatever is pending is dispatched *)
(* even if the worker went to sleep on the condition variable before.        *)
PendingIsDispatched ==
    <>[](generating = {}) => (pending # NoBody ~> pending = NoBody)

=============================================================================
