--------------------------- MODULE ModelRunProofs ---------------------------
(***************************************************************************)
(* Safety of the model-run guard for any number of threads, any timeouts   *)
(* and any horizon.  The inductive invariant adds to the properties what a *)
(* thread remembers of the guard between its steps: a time stamp it loaded *)
(* and a wait it entered both witness that the guard was held.             *)
(***************************************************************************)
EXTENDS ModelRun, TLAPS

(* What a thread in the middle of acquire() knows.                          *)
MemoryIsWitness ==
    \A t \in Threads :
        /\ (pc[t] = "decide" /\ snapshot[t] # Idle) => contended[t]
        /\ pc[t] = "waiting" => contended[t]

Inv ==
    /\ TypeOK
    /\ RunsSerialized
    /\ StampIsTheHolders
    /\ MemoryIsWitness
    /\ RefusedOnlyIfContended

----------------------------------------------------------------------------
(* resolve_busy_timeout_ms(): under a bounded policy the result is a         *)
(* positive bound no greater than the policy, whatever the request carries.  *)
LEMMA PolicyIsNeverWeakened ==
    ASSUME NEW policy \in Nat, policy > 0,
           NEW r \in Requested \cup {NoOverride}
    PROVE  resolve_busy_timeout_ms(policy, r) \in 1 .. policy
BY ModelRunAssumption DEF resolve_busy_timeout_ms

(* A resolved timeout is never negative.                                   *)
LEMMA ResolvedIsNat ==
    ASSUME NEW policy \in Nat,
           NEW r \in Requested \cup {NoOverride}
    PROVE  resolve_busy_timeout_ms(policy, r) \in Nat
BY ModelRunAssumption DEF resolve_busy_timeout_ms

(* Ageing a time stamp neither creates nor clears one.                       *)
LEMMA OlderType ==
    ASSUME NEW a \in Ages \cup {Idle}
    PROVE  /\ Older(a) \in Ages \cup {Idle}
           /\ Older(a) = Idle <=> a = Idle
BY ModelRunAssumption DEF Older, Ages

(* The initial state satisfies the invariant.                                *)
LEMMA InitInv == Init => Inv
BY ModelRunAssumption
DEF Init, Inv, TypeOK, RunsSerialized, StampIsTheHolders, MemoryIsWitness,
    RefusedOnlyIfContended, Ages, PcValues, Holding, Stamped

(* Every step of a thread preserves the invariant.                           *)
LEMMA StepInv ==
    ASSUME Inv, NEW t \in Threads, Step(t)
    PROVE  Inv'
<1> USE ModelRunAssumption
    DEF Inv, TypeOK, RunsSerialized, StampIsTheHolders, MemoryIsWitness,
        RefusedOnlyIfContended, PcValues, Holding, Stamped,
        guardVars, loadVars, threadVars, Goto
<1>a. CASE \E r \in Requested \cup {NoOverride} : AcquireModelRun(t, r)
  <2>1. PICK r \in Requested \cup {NoOverride} : AcquireModelRun(t, r)
    BY <1>a
  <2>2. resolve_busy_timeout_ms(ceiling, r) \in Nat
    BY ResolvedIsNat
  <2> QED BY <2>1, <2>2 DEF AcquireModelRun
<1>1. CASE PreloadHit(t)
  BY <1>1 DEF PreloadHit
<1>2. CASE PreloadMiss(t)
  BY <1>2 DEF PreloadMiss
<1>3. CASE PreloadDone(t)
  BY <1>3 DEF PreloadDone
<1>4. CASE PreloadThrows(t)
  BY <1>4 DEF PreloadThrows
<1>5. CASE LoadBusySince(t)
  BY <1>5 DEF LoadBusySince
<1>6. CASE FailFast(t)
  BY <1>6 DEF FailFast, model_run_has_overrun
<1>7. CASE TryLockFor(t)
  BY <1>7 DEF TryLockFor
<1>8. CASE Queue(t)
  BY <1>8 DEF Queue
<1>9. CASE TakeMutex(t)
  BY <1>9 DEF TakeMutex, LeaveAcquire, Ages
<1>10. CASE TimeOut(t)
  BY <1>10 DEF TimeOut
<1>11. CASE StampBusy(t)
  BY <1>11 DEF StampBusy, Ages
<1>12. CASE EnsureLoadedHit(t)
  BY <1>12 DEF EnsureLoadedHit
<1>13. CASE EnsureLoadedMiss(t)
  BY <1>13 DEF EnsureLoadedMiss
<1>14. CASE EnsureLoadedDone(t)
  BY <1>14 DEF EnsureLoadedDone
<1>15. CASE EnsureLoadedThrows(t)
  BY <1>15 DEF EnsureLoadedThrows
<1>16. CASE RunEnds(t)
  BY <1>16 DEF RunEnds
<1>17. CASE ClearBusy(t)
  BY <1>17 DEF ClearBusy
<1>18. CASE Unlock(t)
  BY <1>18 DEF Unlock
<1>19. CASE ReportBusy(t)
  BY <1>19 DEF ReportBusy, LeaveAcquire, Ages
<1> QED
  BY <1>a, <1>1, <1>2, <1>3, <1>4, <1>5, <1>6, <1>7, <1>8, <1>9, <1>10, <1>11, <1>12, <1>13, <1>14, <1>15, <1>16, <1>17, <1>18, <1>19
  DEF Step, Acquire, Load, Release

(* So does the passing of time.                                              *)
LEMMA TickInv ==
    ASSUME Inv, Tick
    PROVE  Inv'
<1> USE DEF Inv, TypeOK, RunsSerialized, StampIsTheHolders, MemoryIsWitness,
            RefusedOnlyIfContended, loadVars, Tick
<1>1. /\ busyFor' \in Ages \cup {Idle}
      /\ busyFor' = Idle <=> busyFor = Idle
  BY OlderType
<1>2. /\ snapshot' \in [Threads -> Ages \cup {Idle}]
      /\ \A t \in Threads : snapshot'[t] = Idle <=> snapshot[t] = Idle
  BY OlderType
<1>3. waited' \in [Threads -> Ages]
  BY ModelRunAssumption DEF Older, Ages
<1> QED
  BY <1>1, <1>2, <1>3

(* The invariant is inductive.                                               *)
THEOREM Invariance == Spec => []Inv
<1>1. Inv /\ [Next]_vars => Inv'
  <2> SUFFICES ASSUME Inv, [Next]_vars PROVE Inv'
    OBVIOUS
  <2>1. CASE Tick
    BY <2>1, TickInv
  <2>2. CASE \E t \in Threads : Step(t)
    BY <2>2, StepInv
  <2>3. CASE UNCHANGED vars
    BY <2>3 DEF vars, guardVars, loadVars, threadVars, Inv, TypeOK, RunsSerialized,
                StampIsTheHolders, MemoryIsWitness, RefusedOnlyIfContended
  <2> QED
    BY <2>1, <2>2, <2>3 DEF Next
<1> QED
  BY InitInv, <1>1, PTL DEF Spec

(* Type correctness of the guard and of every thread's locals.               *)
THEOREM TypeCorrect == Spec => []TypeOK
BY Invariance, PTL DEF Inv

(* BusyGuard serializes the runs of a model: threads between acquire() and   *)
(* ~Lock() own mutex_, and there is one owner.                               *)
THEOREM Serialized == Spec => []RunsSerialized
BY Invariance, PTL DEF Inv

(* busy_since_ms_ is set exactly while the run that stamped it holds the     *)
(* guard.                                                                    *)
THEOREM StampSound == Spec => []StampIsTheHolders
BY Invariance, PTL DEF Inv

(* Nobody is refused by a model that was idle while they asked.              *)
THEOREM RefusalSound == Spec => []RefusedOnlyIfContended
BY Invariance, PTL DEF Inv

=============================================================================
