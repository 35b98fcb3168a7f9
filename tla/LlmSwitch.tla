----------------------------- MODULE LlmSwitch -----------------------------
(***************************************************************************)
(* The LLM sidecar and the settings: POST /v1/llm-settings                 *)
(* (handle_llm_settings_set and switch_llm_model in runtime.cpp) over      *)
(* LlmManager and save_llm_settings.  A request copies the settings,       *)
(* changes the copy, switches the sidecar if a model is named (stop,       *)
(* start, wait for health; put the previous one back on failure), saves    *)
(* the copy to disk and only then makes it the settings in memory.         *)
(*                                                                         *)
(* Data.  Settings are the model and a value that stands for every other   *)
(* field; whether it is valid is left open.  A number is a double in       *)
(* memory, six digits in llm.json, and a float when it is read back:       *)
(* Digits writes a value, Float reads a text, and some texts read as a     *)
(* value that the validation refuses (a tiny top_p comes back as zero).    *)
(* The file holds settings, is empty (truncated, or not there yet), or is  *)
(* torn; the latter two load as the defaults.                              *)
(***************************************************************************)
EXTENDS Naturals

CONSTANTS
    Writers,        \* the threads that serve settings requests
    Models,         \* the registry, llm_models
    Values, DefaultValue,
    Texts,          \* values as llm.json holds them
    Digits, Float,  \* writing a value, reading a text
    Unreadable,     \* Float of a text that the validation refuses
    DefaultModel,   \* what startup falls back to
    NoModel, Keep,  \* no model; the field is not in the request
    Empty, Torn,    \* contents of llm.json that cannot be parsed
    MaxRestarts     \* bound on restarts of the server

ASSUME LlmSwitchAssumption ==
    /\ DefaultValue \in Values
    /\ Digits \in [Values -> Texts] /\ Float \in [Texts -> Values \cup {Unreadable}]
    /\ Unreadable \notin Values
    /\ DefaultModel \in Models /\ NoModel \notin Models
    /\ Keep \notin Values
    /\ {Empty, Torn} \cap [text : Texts, model : Models \cup {NoModel}] = {}
    /\ MaxRestarts \in Nat

VARIABLES
    memory,         \* llm_settings_
    disk,           \* llm.json
    child,          \* the sidecar: the model it was started with, and how it is
    managed,        \* llm_manager_ is not null
    at,             \* where each request is
    copy, previous, \* its locals: settings (with switch_to in them), previous
    restarts,
    proven          \* history: the models that were healthy once, or that it came with

fileVars == <<memory, disk>>
llmVars  == <<fileVars, child, managed, at, copy, previous, restarts, proven>>

Settings == [value : Values, model : Models \cup {NoModel}]
Defaults == [value |-> DefaultValue, model |-> NoModel]
Request == [reset : BOOLEAN, value : Values \cup {Keep}, model : Models \cup {NoModel}]
File == [text : Texts, model : Models \cup {NoModel}]

\* Inside stop(), with the manager's mutex; inside switch_llm_model(), with
\* llm_switch_mutex_; and from the truncation of the file to the update of memory.
Stopping == {"stop", "restop"}
Switching == Stopping \cup {"start", "wait", "restore", "rewait"}
Saving == {"write", "memory"}

LlmTypeOK ==
    /\ memory \in Settings
    /\ disk \in File \cup {Empty, Torn}
    /\ child \in [model : Models \cup {NoModel}, state : {"none", "loading", "ready", "dead"}]
    /\ child.state = "none" <=> child.model = NoModel
    /\ managed \in BOOLEAN
    /\ at \in [Writers -> {"idle", "queue", "save", "reply"} \cup Switching \cup Saving]
    /\ copy \in [Writers -> Settings]
    /\ previous \in [Writers -> Models \cup {NoModel}]
    /\ restarts \in 0 .. MaxRestarts
    /\ proven \subseteq Models

NoChild == [model |-> NoModel, state |-> "none"]
Spawned(m) == [model |-> m, state |-> "loading"]

\* The text that save_llm_settings() puts together.
Written(s) == [text |-> Digits[s.value], model |-> s.model]

\* load_llm_settings(): a file that cannot be parsed, or whose values are refused, is
\* ignored as a whole.
Load(d) ==
    IF d \in {Empty, Torn} THEN Defaults
    ELSE IF Float[d.text] = Unreadable THEN Defaults
    ELSE [value |-> Float[d.text], model |-> d.model]

\* The constructor: the persisted choice, else the default.  Nobody waits for it.
StartupModel(s) == IF s.model = NoModel THEN DefaultModel ELSE s.model

LlmInit ==
    /\ disk \in {Empty, Written([Defaults EXCEPT !.model = DefaultModel])}
    /\ memory = Load(disk)
    /\ child = Spawned(StartupModel(memory)) /\ managed = TRUE
    /\ at = [w \in Writers |-> "idle"]
    /\ copy = [w \in Writers |-> Defaults]
    /\ previous = [w \in Writers |-> NoModel]
    /\ restarts = 0
    /\ proven = {DefaultModel}

Goto(w, place) == at' = [at EXCEPT ![w] = place]

\* The request is answered, and its locals are gone.
Answer(w) ==
    /\ Goto(w, "idle")
    /\ copy' = [copy EXCEPT ![w] = Defaults]
    /\ previous' = [previous EXCEPT ![w] = NoModel]

\* It leaves switch_llm_model() with the model it wanted.
Switched(w) ==
    /\ Goto(w, "save")
    /\ previous' = [previous EXCEPT ![w] = NoModel]
    /\ UNCHANGED copy

----------------------------------------------------------------------------
\* The request is parsed against a copy of the settings.  An unknown model, or one
\* whose file is missing, is refused here (400) and changes nothing.
Edited(q) ==
    LET base == IF q.reset THEN Defaults ELSE memory
    IN  [value |-> IF q.reset \/ q.value = Keep THEN base.value ELSE q.value,
         model |-> IF q.model = NoModel THEN base.model ELSE q.model]

Begin(w, q) ==
    /\ at[w] = "idle"
    /\ copy' = [copy EXCEPT ![w] = Edited(q)]
    /\ Goto(w, IF q.model = NoModel THEN "save" ELSE "queue")
    /\ UNCHANGED <<fileVars, child, managed, previous, restarts, proven>>

----------------------------------------------------------------------------
\* switch_llm_model()

\* process_running(): a child that has died and was not waited for is found dead on
\* Windows, but still answers kill(pid, 0) on POSIX.
process_running ==
    CASE child.state \in {"loading", "ready"} -> {TRUE}
      [] child.state = "dead" -> BOOLEAN
      [] OTHER -> {FALSE}

\* Slip: no lock.
LockSwitchAlways(w) ==
    /\ at[w] = "queue"
    /\ \/ ~ managed /\ Answer(w) /\ UNCHANGED child
       \/ /\ managed /\ child.model = copy[w].model /\ TRUE \in process_running
          /\ Switched(w) /\ UNCHANGED child
       \/ /\ managed /\ (child.model # copy[w].model \/ FALSE \in process_running)
          /\ previous' = [previous EXCEPT ![w] = child.model]
          /\ Goto(w, "stop")
          /\ UNCHANGED <<copy, child>>
    /\ UNCHANGED <<fileVars, managed, restarts, proven>>

\* Take the lock; nothing to do if the model is the current one and runs (or is
\* still loading); otherwise go on to stop() the sidecar.
LockSwitch(w) ==
    /\ at[w] = "queue"
    /\ \A v \in Writers : at[v] \notin Switching
    /\ \/ ~ managed /\ Answer(w) /\ UNCHANGED child
       \/ /\ managed /\ child.model = copy[w].model /\ TRUE \in process_running
          /\ Switched(w) /\ UNCHANGED child
       \/ /\ managed /\ (child.model # copy[w].model \/ FALSE \in process_running)
          /\ previous' = [previous EXCEPT ![w] = child.model]
          /\ Goto(w, "stop")
          /\ UNCHANGED <<copy, child>>
    /\ UNCHANGED <<fileVars, managed, restarts, proven>>

AfterStop(w) == Goto(w, IF at[w] = "stop" THEN "start" ELSE "restore")

\* stop(): SIGTERM and a wait for the exit, which on POSIX has no end if the sidecar
\* does not exit ...
Stopped(w) ==
    /\ at[w] \in Stopping /\ child.state \in {"none", "dead"}
    /\ child' = NoChild
    /\ AfterStop(w)
    /\ UNCHANGED <<fileVars, managed, copy, previous, restarts, proven>>

\* ... while on Windows it is killed and given 15 s.
StopExpires(w) ==
    /\ at[w] \in Stopping
    /\ child' = NoChild
    /\ AfterStop(w)
    /\ UNCHANGED <<fileVars, managed, copy, previous, restarts, proven>>

\* start() refuses while there is a process handle; spawning may fail.
Start(w) ==
    /\ at[w] = "start"
    /\ \/ child = NoChild /\ child' = Spawned(copy[w].model) /\ Goto(w, "wait")
       \/ Goto(w, "restop") /\ UNCHANGED child
    /\ UNCHANGED <<fileVars, managed, copy, previous, restarts, proven>>

\* Slip: a process that runs will do, healthy or not.
WaitRunning(w) ==
    /\ at[w] = "wait" /\ child.state \in {"loading", "ready"}
    /\ Switched(w)
    /\ UNCHANGED <<fileVars, child, managed, restarts, proven>>

WaitReady(w) ==
    /\ at[w] = "wait" /\ child.state = "ready"
    /\ Switched(w)
    /\ UNCHANGED <<fileVars, child, managed, restarts, proven>>

\* Slip: no deadline, only the exit of the process ends the wait.
WaitFailsOnExit(w) ==
    /\ at[w] = "wait" /\ FALSE \in process_running
    /\ Goto(w, "restop")
    /\ UNCHANGED <<fileVars, child, managed, copy, previous, restarts, proven>>

\* Slip: the failed sidecar is not stopped before the previous one is started.
WaitFailsUnstopped(w) ==
    /\ at[w] = "wait"
    /\ Goto(w, "restore")
    /\ UNCHANGED <<fileVars, child, managed, copy, previous, restarts, proven>>

\* The child was seen to exit, or the deadline passed: go on to stop() it.
WaitFails(w) ==
    /\ at[w] = "wait"
    /\ Goto(w, "restop")
    /\ UNCHANGED <<fileVars, child, managed, copy, previous, restarts, proven>>

\* Put the previous model back, if there was one and it can be started ...
Restore(w) ==
    /\ at[w] = "restore"
    /\ \/ /\ previous[w] # NoModel /\ child = NoChild
          /\ child' = Spawned(previous[w])
          /\ Goto(w, "rewait")
          /\ UNCHANGED <<copy, previous>>
       \/ Answer(w) /\ UNCHANGED child
    /\ UNCHANGED <<fileVars, managed, restarts, proven>>

\* ... and wait for it, however that ends; then the request fails (500).
RestoreWaited(w) ==
    /\ at[w] = "rewait"
    /\ Answer(w)
    /\ UNCHANGED <<fileVars, child, managed, restarts, proven>>

----------------------------------------------------------------------------
\* save_llm_settings() and the update of memory

\* Validation fails, or the file cannot be opened: 400, nothing is changed (but the
\* model may have been switched).
SaveRefused(w) ==
    /\ at[w] = "save"
    /\ Answer(w)
    /\ UNCHANGED <<fileVars, child, managed, restarts, proven>>

\* Opening the file truncates it.
SaveTruncates(w) ==
    /\ at[w] = "save"
    /\ disk' = Empty
    /\ Goto(w, "write")
    /\ UNCHANGED <<memory, child, managed, copy, previous, restarts, proven>>

\* The text is written from the start of the file: over another request's, which may
\* be longer, if that one came in between.
SaveWrites(w) ==
    /\ at[w] = "write"
    /\ disk' \in {Written(copy[w])} \cup (IF disk = Empty THEN {} ELSE {Torn})
    /\ Goto(w, "memory")
    /\ UNCHANGED <<memory, child, managed, copy, previous, restarts, proven>>

\* The text fits the stream's buffer and is written when the file is closed, after the
\* last check: a failure there goes unnoticed.
SaveLost(w) ==
    /\ at[w] = "write"
    /\ disk' = Torn
    /\ Goto(w, "memory")
    /\ UNCHANGED <<memory, child, managed, copy, previous, restarts, proven>>

\* The write fails: 400, and the file is no longer what it was.
SaveBreaks(w) ==
    /\ at[w] = "write"
    /\ disk' = Torn
    /\ Answer(w)
    /\ UNCHANGED <<memory, child, managed, restarts, proven>>

\* The settings change, and the prompt cache is re-primed (module LlmWarm).
UpdateMemory(w) ==
    /\ at[w] = "memory"
    /\ memory' = copy[w]
    /\ Goto(w, "reply")
    /\ copy' = [copy EXCEPT ![w] = Defaults]
    /\ UNCHANGED <<disk, child, managed, previous, restarts, proven>>

\* 200, with the settings and the current model: for that the manager's mutex is
\* needed, which a stop() on behalf of another request holds.
Reply(w) ==
    /\ at[w] = "reply" /\ \A v \in Writers : at[v] \notin Stopping
    /\ Answer(w)
    /\ UNCHANGED <<fileVars, child, managed, restarts, proven>>

----------------------------------------------------------------------------
\* The sidecar process, and the server's own restarts.
SidecarReady ==
    /\ child.state = "loading"
    /\ child' = [child EXCEPT !.state = "ready"]
    /\ proven' = proven \cup {child.model}
    /\ UNCHANGED <<fileVars, managed, at, copy, previous, restarts>>

SidecarDies ==
    /\ child.state \in {"loading", "ready"}
    /\ child' = [child EXCEPT !.state = "dead"]
    /\ UNCHANGED <<fileVars, managed, at, copy, previous, restarts, proven>>

\* The server stops, with its sidecar, wherever its requests are, and starts again; a
\* sidecar that cannot be started leaves it without a manager.
Restart ==
    /\ restarts < MaxRestarts
    /\ restarts' = restarts + 1
    /\ memory' = Load(disk)
    /\ managed' \in BOOLEAN
    /\ child' = IF managed' THEN Spawned(StartupModel(memory')) ELSE NoChild
    /\ at' = [w \in Writers |-> "idle"]
    /\ copy' = [w \in Writers |-> Defaults]
    /\ previous' = [w \in Writers |-> NoModel]
    /\ UNCHANGED <<disk, proven>>

----------------------------------------------------------------------------
RequestSteps(w) ==
    \/ Stopped(w) \/ Start(w) \/ WaitReady(w) \/ WaitFails(w) \/ Restore(w)
    \/ RestoreWaited(w) \/ SaveRefused(w) \/ SaveTruncates(w) \/ SaveWrites(w)
    \/ SaveLost(w) \/ SaveBreaks(w) \/ UpdateMemory(w) \/ Reply(w)

LlmNext ==
    \/ \E w \in Writers : \/ \E q \in Request : Begin(w, q)
                          \/ LockSwitch(w) \/ StopExpires(w) \/ RequestSteps(w)
    \/ SidecarReady \/ SidecarDies \/ Restart

\* Fairness: a request that holds the switch lock or needs none goes on (wait_ready has
\* a deadline), but stop() returns only when the sidecar has exited, which nothing
\* promises.  Who gets a lock next is up to the platform's mutex.
LlmFairness == \A w \in Writers : WF_llmVars(RequestSteps(w))

LlmSafetySpec == LlmInit /\ [][LlmNext]_llmVars
LlmSpec == LlmSafetySpec /\ LlmFairness

----------------------------------------------------------------------------
(* "Two interleaved switches would race the port": a request that waits for   *)
(* a sidecar to become healthy waits for the one it started itself, whoever   *)
(* else switches, saves or resets meanwhile, and however the sidecar dies.    *)
WaitsForItsOwn ==
    \A w \in Writers :
        /\ at[w] = "wait" => child.model = copy[w].model
        /\ at[w] = "rewait" => child.model = previous[w]
        /\ at[w] \in {"start", "restore"} => child = NoChild

(* A switch that fails never leaves the model that failed: the request ends   *)
(* with the sidecar that ran before it, or, when that could not be started    *)
(* again, with none.                                                          *)
FailedSwitchRestores ==
    [][\A w \in Writers :
          at[w] \in Switching /\ at'[w] = "idle" /\ restarts' = restarts =>
              child'.model \in {previous[w], NoModel}]_llmVars

(* "Validated before anything is persisted": the model that a restart would   *)
(* start now has been healthy once, or is the one the server came with.  It   *)
(* holds at every moment, between the truncation and the writing of the file  *)
(* too, and after switches and saves that failed or ran into each other.      *)
RestartModelWorked == StartupModel(Load(disk)) \in proven

(* "The roleplay master prompt and sampling, persisted beside the character": *)
(* with no request under way, a file that can be parsed holds what the server *)
(* works with, or what it works with was read from it.                        *)
SavedIsInUse ==
    (\A w \in Writers : at[w] = "idle") /\ disk \notin {Empty, Torn} =>
        disk = Written(memory) \/ memory = Load(disk)

(* A request that has the switch lock or needs none comes to its answer (or   *)
(* to writing it, for which it may have to wait for another's stop()), even   *)
(* if the sidecar it started neither becomes healthy nor exits: unless it is  *)
(* for ever inside stop(), waiting for a sidecar that does not exit.          *)
SettingsAnswered ==
    \A w \in Writers :
        []<>(\/ at[w] \in {"idle", "queue", "reply"}
             \/ at[w] \in Stopping /\ child.state \in {"loading", "ready"})

=============================================================================
