---------------------------- MODULE LlmWarmProofs ----------------------------
(***************************************************************************)
(* The warm queue for any number of callers, generations and bodies.  The  *)
(* inductive invariant is OneWorkerForPending together with two facts: the *)
(* pending body is the one queued last, and the counter the worker looks   *)
(* at counts the threads that are generating.                              *)
(***************************************************************************)
EXTENDS LlmWarm, FiniteSetTheorems, TLAPS

PendingIsNewest == pending # NoBody => pending = newest

CountIsExact ==
    /\ IsFiniteSet(generating)
    /\ active = Cardinality(generating)

WarmInv == WarmTypeOK /\ OneWorkerForPending /\ PendingIsNewest /\ CountIsExact

(* Waking blocked workers changes neither who lives nor any type.           *)
LEMMA NotifiedKeepsLive ==
    ASSUME WarmTypeOK
    PROVE  /\ Notified \in [Workers -> {"none", "start", "blocked", "settle", "post"}]
           /\ \A w \in Workers : Notified[w] = "none" <=> worker[w] = "none"
BY DEF Notified, WarmTypeOK

(* queue_llm_warm() preserves the invariant whoever calls it.               *)
LEMMA EnqueueInv ==
    ASSUME WarmInv, NEW b \in Bodies, Enqueue(b),
           posting' \in [Workers -> Bodies \cup {NoBody}],
           UNCHANGED <<active, generating, ending>>,
           polling' \in [Pollers -> Bodies \cup {NoBody}]
    PROVE  WarmInv'
<1> USE LlmWarmAssumption
    DEF WarmInv, WarmTypeOK, OneWorkerForPending, PendingIsNewest, CountIsExact, Live
<1>1. CASE running
  BY <1>1, NotifiedKeepsLive DEF Enqueue
<1>2. CASE ~ running
  <2>1. PICK w \in Workers \ Live : worker' = [Notified EXCEPT ![w] = "start"]
    BY <1>2 DEF Enqueue
  <2>2. /\ worker' \in [Workers -> {"none", "start", "blocked", "settle", "post"}]
        /\ \A v \in Workers : worker'[v] # "none" <=> v = w
    BY <1>2, <2>1, NotifiedKeepsLive
  <2> QED
    BY <1>2, <2>2 DEF Enqueue
<1> QED
  BY <1>1, <1>2

(* Every step of the warm queue preserves the invariant.                    *)
LEMMA WarmNextInv ==
    ASSUME WarmInv, [WarmNext]_warmVars
    PROVE  WarmInv'
<1> USE LlmWarmAssumption
<1>1. ASSUME NEW b \in Bodies, QueueLlmWarm(b) PROVE WarmInv'
  BY <1>1, EnqueueInv DEF QueueLlmWarm, WarmInv, WarmTypeOK
<1>2. ASSUME NEW p \in Pollers, NEW b \in Bodies, WarmSystemPrompt(p, b) PROVE WarmInv'
  BY <1>2 DEF WarmSystemPrompt, WarmInv, WarmTypeOK, OneWorkerForPending,
              PendingIsNewest, CountIsExact, Live
<1>3. ASSUME NEW p \in Pollers, PollHealthy(p) PROVE WarmInv'
  <2>1. polling[p] \in Bodies
    BY <1>3 DEF PollHealthy, WarmInv, WarmTypeOK
  <2> QED
    BY <1>3, <2>1, EnqueueInv DEF PollHealthy, WarmInv, WarmTypeOK
<1>4. ASSUME NEW p \in Pollers, PollDeadline(p) PROVE WarmInv'
  BY <1>4 DEF PollDeadline, WarmInv, WarmTypeOK, OneWorkerForPending,
              PendingIsNewest, CountIsExact, Live
<1>5. ASSUME NEW w \in Workers, WorkerLoop(w) PROVE WarmInv'
  <2> USE DEF WarmInv, WarmTypeOK, OneWorkerForPending, PendingIsNewest, CountIsExact, Live
  <2>1. posting' \in [Workers -> Bodies \cup {NoBody}]
    BY <1>5 DEF WorkerLoop
  <2>2. CASE Exit(w)
    BY <1>5, <2>1, <2>2 DEF WorkerLoop, Exit
  <2>3. CASE Block(w)
    BY <1>5, <2>1, <2>3 DEF WorkerLoop, Block
  <2>4. CASE worker' = [worker EXCEPT ![w] = "settle"] /\ UNCHANGED running
    BY <1>5, <2>1, <2>4 DEF WorkerLoop
  <2> QED
    BY <1>5, <2>2, <2>3, <2>4 DEF WorkerLoop
<1>6. ASSUME NEW w \in Workers, Dispatch(w) PROVE WarmInv'
  BY <1>6 DEF Dispatch, WarmInv, WarmTypeOK, OneWorkerForPending,
              PendingIsNewest, CountIsExact, Live
<1>7. ASSUME NEW w \in Workers, SettleRecheck(w) PROVE WarmInv'
  BY <1>7 DEF SettleRecheck, Exit, Block, WarmInv, WarmTypeOK, OneWorkerForPending,
              PendingIsNewest, CountIsExact, Live
<1>8. ASSUME NEW w \in Workers, SpuriousWake(w) PROVE WarmInv'
  BY <1>8 DEF SpuriousWake, WarmInv, WarmTypeOK, OneWorkerForPending,
              PendingIsNewest, CountIsExact, Live
<1>9. ASSUME NEW g \in Generators, BeginLlmGeneration(g) PROVE WarmInv'
  <2>1. CountIsExact'
    BY <1>9, FS_AddElement DEF BeginLlmGeneration, WarmInv, CountIsExact
  <2> QED
    BY <1>9, <2>1 DEF BeginLlmGeneration, WarmInv, WarmTypeOK, OneWorkerForPending,
                      PendingIsNewest, Live
<1>10. ASSUME NEW g \in Generators, EndLlmGeneration(g) PROVE WarmInv'
  <2>0. IsFiniteSet(generating) /\ g \in generating /\ active = Cardinality(generating)
    BY <1>10 DEF EndLlmGeneration, WarmInv, CountIsExact
  <2>1. CountIsExact'
    BY <1>10, <2>0, FS_RemoveElement DEF EndLlmGeneration, CountIsExact
  <2>2. Cardinality(generating \ {g}) \in Nat
    BY <2>0, FS_RemoveElement, FS_CardinalityType
  <2>3. active' \in Nat
    BY <1>10, <2>1, <2>2 DEF EndLlmGeneration, CountIsExact
  <2> QED
    BY <1>10, <2>1, <2>3 DEF EndLlmGeneration, WarmInv, WarmTypeOK, OneWorkerForPending,
                       PendingIsNewest, Live
<1>11. ASSUME NEW g \in Generators, NotifyEnded(g) PROVE WarmInv'
  BY <1>11, NotifiedKeepsLive
  DEF NotifyEnded, WarmInv, WarmTypeOK, OneWorkerForPending, PendingIsNewest, CountIsExact, Live
<1>12. CASE UNCHANGED warmVars
  BY <1>12 DEF warmVars, WarmInv, WarmTypeOK, OneWorkerForPending,
               PendingIsNewest, CountIsExact, Live
<1> QED
  BY <1>1, <1>2, <1>3, <1>4, <1>5, <1>6, <1>7, <1>8, <1>9, <1>10, <1>11, <1>12
  DEF WarmNext, WarmWorker

(* The initial state satisfies the invariant.                               *)
LEMMA WarmInitInv == WarmInit => WarmInv
<1> SUFFICES ASSUME WarmInit PROVE WarmInv
  OBVIOUS
<1>1. CountIsExact
  BY FS_EmptySet DEF WarmInit, CountIsExact
<1> QED
  BY <1>1 DEF WarmInit, WarmInv, WarmTypeOK, OneWorkerForPending, PendingIsNewest, Live

(* The invariant holds throughout.  None of the theorems needs fairness, so  *)
(* they hold of every system that takes the queue's steps.                  *)
THEOREM WarmInvariance == WarmSafetySpec => []WarmInv
BY WarmInitInv, WarmNextInv, PTL DEF WarmSafetySpec

(* Type correctness of the warm queue.                                      *)
THEOREM WarmTypeCorrect == WarmSafetySpec => []WarmTypeOK
BY WarmInvariance, PTL DEF WarmInv

(* At most one warm worker lives, and a pending body always has one.        *)
THEOREM OneWorker == WarmSafetySpec => []OneWorkerForPending
BY WarmInvariance, PTL DEF WarmInv

----------------------------------------------------------------------------
(* A worker starts to POST in no step but Dispatch.                         *)
LEMMA PostsOnlyByDispatch ==
    ASSUME WarmInv, [WarmNext]_warmVars, NEW w \in Workers,
           worker'[w] = "post", worker[w] # "post"
    PROVE  Dispatch(w)
<1> USE DEF WarmInv, WarmTypeOK
<1>1. ASSUME NEW b \in Bodies, Enqueue(b) PROVE FALSE
  <2>1. Notified[w] # "post"
    BY DEF Notified
  <2>2. CASE running
    BY <1>1, <2>1, <2>2 DEF Enqueue
  <2>3. CASE ~ running
    <3>1. PICK v \in Workers \ Live : worker' = [Notified EXCEPT ![v] = "start"]
      BY <1>1, <2>3 DEF Enqueue
    <3> QED
      BY <2>1, <3>1, NotifiedKeepsLive
  <2> QED
    BY <2>2, <2>3
<1>2. ASSUME NEW v \in Workers, WorkerLoop(v) \/ SettleRecheck(v) \/ SpuriousWake(v)
      PROVE  FALSE
  BY <1>2 DEF WorkerLoop, SettleRecheck, SpuriousWake, Exit, Block
<1>3. ASSUME NEW v \in Workers, Dispatch(v) PROVE Dispatch(w)
  BY <1>3 DEF Dispatch
<1>4. ASSUME NEW g \in Generators, NotifyEnded(g) PROVE FALSE
  BY <1>4 DEF NotifyEnded, Notified
<1>5. ASSUME UNCHANGED worker PROVE FALSE
  BY <1>5
<1>6. ASSUME NEW p \in Pollers, PollHealthy(p) PROVE FALSE
  <2>1. polling[p] \in Bodies
    BY <1>6 DEF PollHealthy
  <2> QED
    BY <1>1, <1>6, <2>1 DEF PollHealthy
<1>7. ASSUME NEW b \in Bodies, QueueLlmWarm(b) PROVE FALSE
  BY <1>1, <1>7 DEF QueueLlmWarm
<1> QED
  BY <1>2, <1>3, <1>4, <1>5, <1>6, <1>7
  DEF WarmNext, WarmWorker, WarmSystemPrompt, PollDeadline, BeginLlmGeneration,
      EndLlmGeneration, warmVars

(* No body is dispatched while a generation holds the sidecar's slot.       *)
THEOREM DispatchGated == WarmSafetySpec => DispatchOnlyBetweenGenerations
<1>1. WarmInv /\ [WarmNext]_warmVars =>
        [\A w \in Workers :
            (worker'[w] = "post" /\ worker[w] # "post") => generating = {}]_warmVars
  <2> SUFFICES ASSUME WarmInv, [WarmNext]_warmVars, NEW w \in Workers,
                      worker'[w] = "post", worker[w] # "post"
               PROVE  generating = {}
    OBVIOUS
  <2>1. active = 0
    BY PostsOnlyByDispatch DEF Dispatch
  <2> QED
    BY <2>1, FS_EmptySet DEF WarmInv, CountIsExact
<1> QED
  BY WarmInvariance, <1>1, PTL DEF WarmSafetySpec, DispatchOnlyBetweenGenerations

(* The body dispatched is the one queued last, and it leaves the queue.     *)
THEOREM NewestDispatched == WarmSafetySpec => NewestIsDispatched
<1>1. WarmInv /\ [WarmNext]_warmVars =>
        [\A w \in Workers :
            (worker'[w] = "post" /\ worker[w] # "post") =>
                posting'[w] = newest /\ pending' = NoBody]_warmVars
  BY PostsOnlyByDispatch DEF Dispatch, WarmInv, WarmTypeOK, PendingIsNewest
<1> QED
  BY WarmInvariance, <1>1, PTL DEF WarmSafetySpec, NewestIsDispatched

=============================================================================
