-------------------------- MODULE LlmSwitchProofs --------------------------
(***************************************************************************)
(* What LlmSwitch promises for every set of requests, models and values,   *)
(* every way numbers are written and read, and any number of restarts.     *)
(***************************************************************************)
EXTENDS LlmSwitch, TLAPS

(* A request that is about to switch, or switching, names a model.            *)
Wanted == \A w \in Writers : at[w] \in {"queue"} \cup Switching => copy[w].model \in Models

(* The switch lock has one holder.                                            *)
OneSwitcher ==
    \A v, w \in Writers : at[v] \in Switching /\ at[w] \in Switching => v = w

(* Every model in memory, in the file, about to be saved or to fall back to   *)
(* has worked; only one that somebody still waits for, or is stopping because *)
(* the wait failed, may not have.                                             *)
Known == proven \cup {NoModel}

Proven ==
    /\ DefaultModel \in proven
    /\ memory.model \in Known
    /\ disk \in File => disk.model \in Known
    /\ \A w \in Writers : /\ at[w] \in {"save"} \cup Saving => copy[w].model \in Known
                          /\ previous[w] \in Known
    /\ child.state = "ready" => child.model \in proven
    /\ child.model \in Known \/ \E w \in Writers : at[w] \in {"wait", "restop"}

LlmInv == LlmTypeOK /\ Wanted /\ OneSwitcher /\ WaitsForItsOwn /\ Proven

\* Every step is one of these.
LEMMA Steps ==
    ASSUME LlmNext
    PROVE  \/ \E w \in Writers :
                \/ \E q \in Request : Begin(w, q)
                \/ LockSwitch(w) \/ Stopped(w) \/ StopExpires(w) \/ Start(w) \/ WaitReady(w)
                \/ WaitFails(w) \/ Restore(w) \/ RestoreWaited(w) \/ SaveRefused(w)
                \/ SaveTruncates(w) \/ SaveWrites(w) \/ SaveLost(w) \/ SaveBreaks(w)
                \/ UpdateMemory(w) \/ Reply(w)
           \/ SidecarReady \/ SidecarDies \/ Restart
  BY DEF LlmNext, RequestSteps

\* Settings are written as a file, with the model as it is.
LEMMA WrittenTyped ==
    ASSUME NEW s \in Settings
    PROVE  Written(s) \in File /\ Written(s).model = s.model
  BY LlmSwitchAssumption DEF Written, Settings, File

\* Whatever the file holds, what is loaded are settings, with the file's model or none.
LEMMA LoadTyped ==
    ASSUME NEW d \in File \cup {Empty, Torn}
    PROVE  /\ Load(d) \in Settings
           /\ Load(d).model = NoModel \/ (d \in File /\ Load(d).model = d.model)
  BY LlmSwitchAssumption DEF Load, Settings, File, Defaults

\* What becomes of a request that gets the lock: an answer, a save, or a switch.
LEMMA LockSwitchForms ==
    ASSUME NEW w \in Writers, LockSwitch(w)
    PROVE  /\ at[w] = "queue" /\ \A v \in Writers : at[v] \notin Switching
           /\ UNCHANGED <<fileVars, managed, restarts, proven>>
           /\ \/ Answer(w) /\ UNCHANGED child
              \/ Switched(w) /\ child.model = copy[w].model /\ UNCHANGED child
              \/ /\ previous' = [previous EXCEPT ![w] = child.model]
                 /\ Goto(w, "stop") /\ UNCHANGED <<copy, child>>
  BY Zenon DEF LockSwitch

\* It holds at the start, with or without a file.
LEMMA InitInv == ASSUME LlmInit PROVE LlmInv
  <1>0. /\ Defaults \in Settings
        /\ [Defaults EXCEPT !.model = DefaultModel] \in Settings
        /\ [Defaults EXCEPT !.model = DefaultModel].model = DefaultModel
    BY LlmSwitchAssumption DEF Defaults, Settings
  <1>1. /\ disk \in File \cup {Empty, Torn} /\ (disk \in File => disk.model = DefaultModel)
        /\ memory \in Settings /\ memory.model \in {NoModel, DefaultModel}
        /\ child = Spawned(DefaultModel)
    <2>1. disk \in File \cup {Empty, Torn} /\ (disk \in File => disk.model = DefaultModel)
      BY <1>0, WrittenTyped, LlmSwitchAssumption DEF LlmInit, File
    <2>2. memory \in Settings /\ memory.model \in {NoModel, DefaultModel}
      BY <2>1, LoadTyped DEF LlmInit
    <2> QED
      BY <2>1, <2>2 DEF LlmInit, StartupModel
  <1>2. LlmTypeOK
    BY <1>0, <1>1, LlmSwitchAssumption DEF LlmInit, LlmTypeOK, Spawned, Stopping, Switching,
       Saving
  <1>3. Wanted /\ OneSwitcher /\ WaitsForItsOwn
    BY DEF LlmInit, Wanted, OneSwitcher, WaitsForItsOwn, Stopping, Switching, Saving
  <1>4. Proven
    BY <1>1, LlmSwitchAssumption DEF LlmInit, Proven, Known, Spawned, Saving
  <1> QED
    BY <1>2, <1>3, <1>4 DEF LlmInv

\* The state stays well typed.
LEMMA TypeKept ==
    ASSUME LlmTypeOK, Wanted, [LlmNext]_llmVars
    PROVE  LlmTypeOK'
  <1> USE LlmSwitchAssumption
  <1>1. ASSUME NEW w \in Writers, NEW q \in Request, Begin(w, q)
        PROVE  LlmTypeOK'
    BY <1>1 DEF Begin, Goto, Edited, Request, fileVars, LlmTypeOK, Wanted, Settings,
       Defaults, Stopping, Switching, Saving
  <1>2. ASSUME NEW w \in Writers, LockSwitch(w) PROVE LlmTypeOK'
    <2>1. CASE Answer(w) /\ UNCHANGED child
      BY <1>2, <2>1, LockSwitchForms DEF Answer, Goto, fileVars, LlmTypeOK, Wanted,
         Settings, Defaults, Stopping, Switching, Saving
    <2>2. CASE Switched(w) /\ child.model = copy[w].model /\ UNCHANGED child
      BY <1>2, <2>2, LockSwitchForms DEF Switched, Goto, fileVars, LlmTypeOK, Wanted,
         Settings, Defaults, Stopping, Switching, Saving
    <2>3. CASE /\ previous' = [previous EXCEPT ![w] = child.model]
               /\ Goto(w, "stop") /\ UNCHANGED <<copy, child>>
      BY <1>2, <2>3, LockSwitchForms DEF Goto, fileVars, LlmTypeOK, Wanted, Settings,
         Defaults, Stopping, Switching, Saving
    <2> QED
      BY <1>2, <2>1, <2>2, <2>3, LockSwitchForms
  <1>3. ASSUME NEW w \in Writers, Stopped(w) PROVE LlmTypeOK'
    BY <1>3 DEF Stopped, Goto, AfterStop, NoChild, fileVars, LlmTypeOK, Wanted, Settings,
       Defaults, Stopping, Switching, Saving
  <1>4. ASSUME NEW w \in Writers, StopExpires(w) PROVE LlmTypeOK'
    BY <1>4 DEF StopExpires, Goto, AfterStop, NoChild, fileVars, LlmTypeOK, Wanted,
       Settings, Defaults, Stopping, Switching, Saving
  <1>5. ASSUME NEW w \in Writers, Start(w) PROVE LlmTypeOK'
    <2>1. CASE child = NoChild /\ child' = Spawned(copy[w].model) /\ Goto(w, "wait")
      BY <1>5, <2>1 DEF Start, Goto, Spawned, fileVars, LlmTypeOK, Wanted, Settings, Defaults,
         Stopping, Switching, Saving
    <2>2. CASE Goto(w, "restop") /\ UNCHANGED child
      BY <1>5, <2>2 DEF Start, Goto, fileVars, LlmTypeOK, Wanted, Settings, Defaults, Stopping,
         Switching, Saving
    <2> QED
      BY <1>5, <2>1, <2>2, Zenon DEF Start
  <1>6. ASSUME NEW w \in Writers, WaitReady(w) PROVE LlmTypeOK'
    BY <1>6 DEF WaitReady, Goto, Switched, fileVars, LlmTypeOK, Wanted, Settings, Defaults,
       Stopping, Switching, Saving
  <1>7. ASSUME NEW w \in Writers, WaitFails(w) PROVE LlmTypeOK'
    BY <1>7 DEF WaitFails, Goto, fileVars, LlmTypeOK, Wanted, Settings, Defaults, Stopping,
       Switching, Saving
  <1>8. ASSUME NEW w \in Writers, Restore(w) PROVE LlmTypeOK'
    <2>1. CASE /\ previous[w] # NoModel /\ child = NoChild /\ child' = Spawned(previous[w])
               /\ Goto(w, "rewait") /\ UNCHANGED <<copy, previous>>
      BY <1>8, <2>1 DEF Restore, Goto, Spawned, fileVars, LlmTypeOK, Wanted, Settings,
         Defaults, Stopping, Switching, Saving
    <2>2. CASE Answer(w) /\ UNCHANGED child
      BY <1>8, <2>2 DEF Restore, Answer, Goto, fileVars, LlmTypeOK, Wanted, Settings, Defaults,
         Stopping, Switching, Saving
    <2> QED
      BY <1>8, <2>1, <2>2, Zenon DEF Restore
  <1>9. ASSUME NEW w \in Writers, RestoreWaited(w) PROVE LlmTypeOK'
    BY <1>9 DEF RestoreWaited, Goto, Answer, fileVars, LlmTypeOK, Wanted, Settings,
       Defaults, Stopping, Switching, Saving
  <1>10. ASSUME NEW w \in Writers, SaveRefused(w) PROVE LlmTypeOK'
    BY <1>10 DEF SaveRefused, Goto, Answer, fileVars, LlmTypeOK, Wanted, Settings, Defaults,
       Stopping, Switching, Saving
  <1>11. ASSUME NEW w \in Writers, SaveTruncates(w) PROVE LlmTypeOK'
    BY <1>11 DEF SaveTruncates, Goto, fileVars, LlmTypeOK, Wanted, Settings, Defaults,
       Stopping, Switching, Saving
  <1>12. ASSUME NEW w \in Writers, SaveWrites(w) PROVE LlmTypeOK'
    <2>1. Written(copy[w]) \in File
      BY WrittenTyped DEF LlmTypeOK
    <2> QED
      BY <1>12, <2>1 DEF SaveWrites, Goto, fileVars, LlmTypeOK, Wanted, Settings, Defaults,
         Stopping, Switching, Saving
  <1>13. ASSUME NEW w \in Writers, SaveLost(w) PROVE LlmTypeOK'
    BY <1>13 DEF SaveLost, Goto, fileVars, LlmTypeOK, Wanted, Settings, Defaults, Stopping,
       Switching, Saving
  <1>14. ASSUME NEW w \in Writers, SaveBreaks(w) PROVE LlmTypeOK'
    BY <1>14 DEF SaveBreaks, Goto, Answer, fileVars, LlmTypeOK, Wanted, Settings, Defaults,
       Stopping, Switching, Saving
  <1>15. ASSUME NEW w \in Writers, UpdateMemory(w) PROVE LlmTypeOK'
    BY <1>15 DEF UpdateMemory, Goto, fileVars, LlmTypeOK, Wanted, Settings, Defaults,
       Stopping, Switching, Saving
  <1>16. ASSUME NEW w \in Writers, Reply(w) PROVE LlmTypeOK'
    BY <1>16 DEF Reply, Goto, Answer, fileVars, LlmTypeOK, Wanted, Settings, Defaults,
       Stopping, Switching, Saving
  <1>17. CASE SidecarReady
    BY <1>17 DEF SidecarReady, fileVars, LlmTypeOK, Wanted, Settings, Defaults, Stopping,
       Switching, Saving
  <1>18. CASE SidecarDies
    BY <1>18 DEF SidecarDies, fileVars, LlmTypeOK, Wanted, Settings, Defaults, Stopping,
       Switching, Saving
  <1>19. CASE Restart
    <2>1. memory' \in Settings /\ disk' = disk
      BY <1>19, LoadTyped DEF Restart, LlmTypeOK
    <2>2. /\ child' \in [model : Models \cup {NoModel}, state : {"none", "loading", "ready", "dead"}]
          /\ child'.state = "none" <=> child'.model = NoModel
      BY <1>19, <2>1 DEF Restart, Spawned, StartupModel, NoChild, Settings
    <2> QED
      BY <1>19, <2>1, <2>2 DEF Restart, LlmTypeOK, Settings, Defaults
  <1>20. CASE UNCHANGED llmVars
    BY <1>20 DEF llmVars, fileVars, LlmTypeOK, Wanted, Settings, Defaults, Stopping,
       Switching, Saving
  <1> QED
    BY <1>1, <1>2, <1>3, <1>4, <1>5, <1>6, <1>7, <1>8, <1>9, <1>10, <1>11, <1>12, <1>13,
       <1>14, <1>15, <1>16, <1>17, <1>18, <1>19, <1>20, Steps

\* A request that switches wants a model.
LEMMA WantedKept ==
    ASSUME LlmTypeOK, Wanted, [LlmNext]_llmVars
    PROVE  Wanted'
  <1> USE LlmSwitchAssumption
  <1>1. ASSUME NEW w \in Writers, NEW q \in Request, Begin(w, q)
        PROVE  Wanted'
    BY <1>1 DEF Begin, Goto, Edited, Request, fileVars, LlmTypeOK, Wanted, Settings,
       Defaults, Stopping, Switching, Saving
  <1>2. ASSUME NEW w \in Writers, LockSwitch(w) PROVE Wanted'
    <2>1. CASE Answer(w) /\ UNCHANGED child
      BY <1>2, <2>1, LockSwitchForms DEF Answer, Goto, fileVars, LlmTypeOK, Wanted,
         Settings, Defaults, Stopping, Switching, Saving
    <2>2. CASE Switched(w) /\ child.model = copy[w].model /\ UNCHANGED child
      BY <1>2, <2>2, LockSwitchForms DEF Switched, Goto, fileVars, LlmTypeOK, Wanted,
         Settings, Defaults, Stopping, Switching, Saving
    <2>3. CASE /\ previous' = [previous EXCEPT ![w] = child.model]
               /\ Goto(w, "stop") /\ UNCHANGED <<copy, child>>
      BY <1>2, <2>3, LockSwitchForms DEF Goto, fileVars, LlmTypeOK, Wanted, Settings,
         Defaults, Stopping, Switching, Saving
    <2> QED
      BY <1>2, <2>1, <2>2, <2>3, LockSwitchForms
  <1>3. ASSUME NEW w \in Writers, Stopped(w) PROVE Wanted'
    BY <1>3 DEF Stopped, Goto, AfterStop, NoChild, fileVars, LlmTypeOK, Wanted, Settings,
       Defaults, Stopping, Switching, Saving
  <1>4. ASSUME NEW w \in Writers, StopExpires(w) PROVE Wanted'
    BY <1>4 DEF StopExpires, Goto, AfterStop, NoChild, fileVars, LlmTypeOK, Wanted,
       Settings, Defaults, Stopping, Switching, Saving
  <1>5. ASSUME NEW w \in Writers, Start(w) PROVE Wanted'
    BY <1>5 DEF Start, Goto, NoChild, Spawned, fileVars, LlmTypeOK, Wanted, Settings,
       Defaults, Stopping, Switching, Saving
  <1>6. ASSUME NEW w \in Writers, WaitReady(w) PROVE Wanted'
    BY <1>6 DEF WaitReady, Goto, Switched, fileVars, LlmTypeOK, Wanted, Settings, Defaults,
       Stopping, Switching, Saving
  <1>7. ASSUME NEW w \in Writers, WaitFails(w) PROVE Wanted'
    BY <1>7 DEF WaitFails, Goto, fileVars, LlmTypeOK, Wanted, Settings, Defaults, Stopping,
       Switching, Saving
  <1>8. ASSUME NEW w \in Writers, Restore(w) PROVE Wanted'
    BY <1>8 DEF Restore, Goto, Answer, NoChild, Spawned, fileVars, LlmTypeOK, Wanted,
       Settings, Defaults, Stopping, Switching, Saving
  <1>9. ASSUME NEW w \in Writers, RestoreWaited(w) PROVE Wanted'
    BY <1>9 DEF RestoreWaited, Goto, Answer, fileVars, LlmTypeOK, Wanted, Settings,
       Defaults, Stopping, Switching, Saving
  <1>10. ASSUME NEW w \in Writers, SaveRefused(w) PROVE Wanted'
    BY <1>10 DEF SaveRefused, Goto, Answer, fileVars, LlmTypeOK, Wanted, Settings, Defaults,
       Stopping, Switching, Saving
  <1>11. ASSUME NEW w \in Writers, SaveTruncates(w) PROVE Wanted'
    BY <1>11 DEF SaveTruncates, Goto, fileVars, LlmTypeOK, Wanted, Settings, Defaults,
       Stopping, Switching, Saving
  <1>12. ASSUME NEW w \in Writers, SaveWrites(w) PROVE Wanted'
    BY <1>12 DEF SaveWrites, Goto, fileVars, LlmTypeOK, Wanted, Settings, Defaults,
       Stopping, Switching, Saving
  <1>13. ASSUME NEW w \in Writers, SaveLost(w) PROVE Wanted'
    BY <1>13 DEF SaveLost, Goto, fileVars, LlmTypeOK, Wanted, Settings, Defaults, Stopping,
       Switching, Saving
  <1>14. ASSUME NEW w \in Writers, SaveBreaks(w) PROVE Wanted'
    BY <1>14 DEF SaveBreaks, Goto, Answer, fileVars, LlmTypeOK, Wanted, Settings, Defaults,
       Stopping, Switching, Saving
  <1>15. ASSUME NEW w \in Writers, UpdateMemory(w) PROVE Wanted'
    BY <1>15 DEF UpdateMemory, Goto, fileVars, LlmTypeOK, Wanted, Settings, Defaults,
       Stopping, Switching, Saving
  <1>16. ASSUME NEW w \in Writers, Reply(w) PROVE Wanted'
    BY <1>16 DEF Reply, Goto, Answer, fileVars, LlmTypeOK, Wanted, Settings, Defaults,
       Stopping, Switching, Saving
  <1>17. CASE SidecarReady
    BY <1>17 DEF SidecarReady, fileVars, LlmTypeOK, Wanted, Settings, Defaults, Stopping,
       Switching, Saving
  <1>18. CASE SidecarDies
    BY <1>18 DEF SidecarDies, fileVars, LlmTypeOK, Wanted, Settings, Defaults, Stopping,
       Switching, Saving
  <1>19. CASE Restart
    BY <1>19 DEF Restart, Spawned, StartupModel, NoChild, fileVars, LlmTypeOK, Wanted,
       Settings, Defaults, Stopping, Switching, Saving
  <1>20. CASE UNCHANGED llmVars
    BY <1>20 DEF llmVars, fileVars, LlmTypeOK, Wanted, Settings, Defaults, Stopping,
       Switching, Saving
  <1> QED
    BY <1>1, <1>2, <1>3, <1>4, <1>5, <1>6, <1>7, <1>8, <1>9, <1>10, <1>11, <1>12, <1>13,
       <1>14, <1>15, <1>16, <1>17, <1>18, <1>19, <1>20, Steps

\* One request at a time has the switch lock.
LEMMA OneSwitcherKept ==
    ASSUME LlmTypeOK, OneSwitcher, [LlmNext]_llmVars
    PROVE  OneSwitcher'
  <1> USE LlmSwitchAssumption
  <1>1. ASSUME NEW w \in Writers, NEW q \in Request, Begin(w, q)
        PROVE  OneSwitcher'
    BY <1>1 DEF Begin, Goto, Edited, Request, fileVars, LlmTypeOK, OneSwitcher, Stopping,
       Switching, Saving
  <1>2. ASSUME NEW w \in Writers, LockSwitch(w) PROVE OneSwitcher'
    <2>1. CASE Answer(w) /\ UNCHANGED child
      BY <1>2, <2>1, LockSwitchForms DEF Answer, Goto, fileVars, LlmTypeOK, OneSwitcher,
         Stopping, Switching, Saving
    <2>2. CASE Switched(w) /\ child.model = copy[w].model /\ UNCHANGED child
      BY <1>2, <2>2, LockSwitchForms DEF Switched, Goto, fileVars, LlmTypeOK, OneSwitcher,
         Stopping, Switching, Saving
    <2>3. CASE /\ previous' = [previous EXCEPT ![w] = child.model]
               /\ Goto(w, "stop") /\ UNCHANGED <<copy, child>>
      BY <1>2, <2>3, LockSwitchForms DEF Goto, fileVars, LlmTypeOK, OneSwitcher, Stopping,
         Switching, Saving
    <2> QED
      BY <1>2, <2>1, <2>2, <2>3, LockSwitchForms
  <1>3. ASSUME NEW w \in Writers, Stopped(w) PROVE OneSwitcher'
    BY <1>3 DEF Stopped, Goto, AfterStop, NoChild, fileVars, LlmTypeOK, OneSwitcher,
       Stopping, Switching, Saving
  <1>4. ASSUME NEW w \in Writers, StopExpires(w) PROVE OneSwitcher'
    BY <1>4 DEF StopExpires, Goto, AfterStop, NoChild, fileVars, LlmTypeOK, OneSwitcher,
       Stopping, Switching, Saving
  <1>5. ASSUME NEW w \in Writers, Start(w) PROVE OneSwitcher'
    BY <1>5 DEF Start, Goto, NoChild, Spawned, fileVars, LlmTypeOK, OneSwitcher, Stopping,
       Switching, Saving
  <1>6. ASSUME NEW w \in Writers, WaitReady(w) PROVE OneSwitcher'
    BY <1>6 DEF WaitReady, Goto, Switched, fileVars, LlmTypeOK, OneSwitcher, Stopping,
       Switching, Saving
  <1>7. ASSUME NEW w \in Writers, WaitFails(w) PROVE OneSwitcher'
    BY <1>7 DEF WaitFails, Goto, fileVars, LlmTypeOK, OneSwitcher, Stopping, Switching,
       Saving
  <1>8. ASSUME NEW w \in Writers, Restore(w) PROVE OneSwitcher'
    BY <1>8 DEF Restore, Goto, Answer, NoChild, Spawned, fileVars, LlmTypeOK, OneSwitcher,
       Stopping, Switching, Saving
  <1>9. ASSUME NEW w \in Writers, RestoreWaited(w) PROVE OneSwitcher'
    BY <1>9 DEF RestoreWaited, Goto, Answer, fileVars, LlmTypeOK, OneSwitcher, Stopping,
       Switching, Saving
  <1>10. ASSUME NEW w \in Writers, SaveRefused(w) PROVE OneSwitcher'
    BY <1>10 DEF SaveRefused, Goto, Answer, fileVars, LlmTypeOK, OneSwitcher, Stopping,
       Switching, Saving
  <1>11. ASSUME NEW w \in Writers, SaveTruncates(w) PROVE OneSwitcher'
    BY <1>11 DEF SaveTruncates, Goto, fileVars, LlmTypeOK, OneSwitcher, Stopping, Switching,
       Saving
  <1>12. ASSUME NEW w \in Writers, SaveWrites(w) PROVE OneSwitcher'
    BY <1>12 DEF SaveWrites, Goto, fileVars, LlmTypeOK, OneSwitcher, Stopping, Switching,
       Saving
  <1>13. ASSUME NEW w \in Writers, SaveLost(w) PROVE OneSwitcher'
    BY <1>13 DEF SaveLost, Goto, fileVars, LlmTypeOK, OneSwitcher, Stopping, Switching,
       Saving
  <1>14. ASSUME NEW w \in Writers, SaveBreaks(w) PROVE OneSwitcher'
    BY <1>14 DEF SaveBreaks, Goto, Answer, fileVars, LlmTypeOK, OneSwitcher, Stopping,
       Switching, Saving
  <1>15. ASSUME NEW w \in Writers, UpdateMemory(w) PROVE OneSwitcher'
    BY <1>15 DEF UpdateMemory, Goto, fileVars, LlmTypeOK, OneSwitcher, Stopping, Switching,
       Saving
  <1>16. ASSUME NEW w \in Writers, Reply(w) PROVE OneSwitcher'
    BY <1>16 DEF Reply, Goto, Answer, fileVars, LlmTypeOK, OneSwitcher, Stopping, Switching,
       Saving
  <1>17. CASE SidecarReady
    BY <1>17 DEF SidecarReady, fileVars, LlmTypeOK, OneSwitcher, Stopping, Switching, Saving
  <1>18. CASE SidecarDies
    BY <1>18 DEF SidecarDies, fileVars, LlmTypeOK, OneSwitcher, Stopping, Switching, Saving
  <1>19. CASE Restart
    BY <1>19 DEF Restart, Spawned, StartupModel, NoChild, fileVars, LlmTypeOK, OneSwitcher,
       Stopping, Switching, Saving
  <1>20. CASE UNCHANGED llmVars
    BY <1>20 DEF llmVars, fileVars, LlmTypeOK, OneSwitcher, Stopping, Switching, Saving
  <1> QED
    BY <1>1, <1>2, <1>3, <1>4, <1>5, <1>6, <1>7, <1>8, <1>9, <1>10, <1>11, <1>12, <1>13,
       <1>14, <1>15, <1>16, <1>17, <1>18, <1>19, <1>20, Steps

\* A request waits for its own sidecar.
LEMMA WaitsKept ==
    ASSUME LlmTypeOK, OneSwitcher, WaitsForItsOwn, [LlmNext]_llmVars
    PROVE  WaitsForItsOwn'
  <1> USE LlmSwitchAssumption
  <1>1. ASSUME NEW w \in Writers, NEW q \in Request, Begin(w, q)
        PROVE  WaitsForItsOwn'
    BY <1>1 DEF Begin, Goto, Edited, Request, fileVars, LlmTypeOK, OneSwitcher,
       WaitsForItsOwn, Stopping, Switching, Saving, NoChild
  <1>2. ASSUME NEW w \in Writers, LockSwitch(w) PROVE WaitsForItsOwn'
    <2>1. CASE Answer(w) /\ UNCHANGED child
      BY <1>2, <2>1, LockSwitchForms DEF Answer, Goto, fileVars, LlmTypeOK, OneSwitcher,
         WaitsForItsOwn, Stopping, Switching, Saving, NoChild
    <2>2. CASE Switched(w) /\ child.model = copy[w].model /\ UNCHANGED child
      BY <1>2, <2>2, LockSwitchForms DEF Switched, Goto, fileVars, LlmTypeOK, OneSwitcher,
         WaitsForItsOwn, Stopping, Switching, Saving, NoChild
    <2>3. CASE /\ previous' = [previous EXCEPT ![w] = child.model]
               /\ Goto(w, "stop") /\ UNCHANGED <<copy, child>>
      BY <1>2, <2>3, LockSwitchForms DEF Goto, fileVars, LlmTypeOK, OneSwitcher,
         WaitsForItsOwn, Stopping, Switching, Saving, NoChild
    <2> QED
      BY <1>2, <2>1, <2>2, <2>3, LockSwitchForms
  <1>3. ASSUME NEW w \in Writers, Stopped(w) PROVE WaitsForItsOwn'
    BY <1>3 DEF Stopped, Goto, AfterStop, NoChild, fileVars, LlmTypeOK, OneSwitcher,
       WaitsForItsOwn, Stopping, Switching, Saving
  <1>4. ASSUME NEW w \in Writers, StopExpires(w) PROVE WaitsForItsOwn'
    BY <1>4 DEF StopExpires, Goto, AfterStop, NoChild, fileVars, LlmTypeOK, OneSwitcher,
       WaitsForItsOwn, Stopping, Switching, Saving
  <1>5. ASSUME NEW w \in Writers, Start(w) PROVE WaitsForItsOwn'
    BY <1>5 DEF Start, Goto, NoChild, Spawned, fileVars, LlmTypeOK, OneSwitcher,
       WaitsForItsOwn, Stopping, Switching, Saving
  <1>6. ASSUME NEW w \in Writers, WaitReady(w) PROVE WaitsForItsOwn'
    BY <1>6 DEF WaitReady, Goto, Switched, fileVars, LlmTypeOK, OneSwitcher, WaitsForItsOwn,
       Stopping, Switching, Saving, NoChild
  <1>7. ASSUME NEW w \in Writers, WaitFails(w) PROVE WaitsForItsOwn'
    BY <1>7 DEF WaitFails, Goto, fileVars, LlmTypeOK, OneSwitcher, WaitsForItsOwn, Stopping,
       Switching, Saving, NoChild
  <1>8. ASSUME NEW w \in Writers, Restore(w) PROVE WaitsForItsOwn'
    BY <1>8 DEF Restore, Goto, Answer, NoChild, Spawned, fileVars, LlmTypeOK, OneSwitcher,
       WaitsForItsOwn, Stopping, Switching, Saving
  <1>9. ASSUME NEW w \in Writers, RestoreWaited(w) PROVE WaitsForItsOwn'
    BY <1>9 DEF RestoreWaited, Goto, Answer, fileVars, LlmTypeOK, OneSwitcher,
       WaitsForItsOwn, Stopping, Switching, Saving, NoChild
  <1>10. ASSUME NEW w \in Writers, SaveRefused(w) PROVE WaitsForItsOwn'
    BY <1>10 DEF SaveRefused, Goto, Answer, fileVars, LlmTypeOK, OneSwitcher,
       WaitsForItsOwn, Stopping, Switching, Saving, NoChild
  <1>11. ASSUME NEW w \in Writers, SaveTruncates(w) PROVE WaitsForItsOwn'
    BY <1>11 DEF SaveTruncates, Goto, fileVars, LlmTypeOK, OneSwitcher, WaitsForItsOwn,
       Stopping, Switching, Saving, NoChild
  <1>12. ASSUME NEW w \in Writers, SaveWrites(w) PROVE WaitsForItsOwn'
    BY <1>12 DEF SaveWrites, Goto, fileVars, LlmTypeOK, OneSwitcher, WaitsForItsOwn,
       Stopping, Switching, Saving, NoChild
  <1>13. ASSUME NEW w \in Writers, SaveLost(w) PROVE WaitsForItsOwn'
    BY <1>13 DEF SaveLost, Goto, fileVars, LlmTypeOK, OneSwitcher, WaitsForItsOwn, Stopping,
       Switching, Saving, NoChild
  <1>14. ASSUME NEW w \in Writers, SaveBreaks(w) PROVE WaitsForItsOwn'
    BY <1>14 DEF SaveBreaks, Goto, Answer, fileVars, LlmTypeOK, OneSwitcher, WaitsForItsOwn,
       Stopping, Switching, Saving, NoChild
  <1>15. ASSUME NEW w \in Writers, UpdateMemory(w) PROVE WaitsForItsOwn'
    BY <1>15 DEF UpdateMemory, Goto, fileVars, LlmTypeOK, OneSwitcher, WaitsForItsOwn,
       Stopping, Switching, Saving, NoChild
  <1>16. ASSUME NEW w \in Writers, Reply(w) PROVE WaitsForItsOwn'
    BY <1>16 DEF Reply, Goto, Answer, fileVars, LlmTypeOK, OneSwitcher, WaitsForItsOwn,
       Stopping, Switching, Saving, NoChild
  <1>17. CASE SidecarReady
    BY <1>17 DEF SidecarReady, fileVars, LlmTypeOK, OneSwitcher, WaitsForItsOwn, Stopping,
       Switching, Saving, NoChild
  <1>18. CASE SidecarDies
    BY <1>18 DEF SidecarDies, fileVars, LlmTypeOK, OneSwitcher, WaitsForItsOwn, Stopping,
       Switching, Saving, NoChild
  <1>19. CASE Restart
    BY <1>19 DEF Restart, Spawned, StartupModel, NoChild, fileVars, LlmTypeOK, OneSwitcher,
       WaitsForItsOwn, Stopping, Switching, Saving
  <1>20. CASE UNCHANGED llmVars
    BY <1>20 DEF llmVars, fileVars, LlmTypeOK, OneSwitcher, WaitsForItsOwn, Stopping,
       Switching, Saving, NoChild
  <1> QED
    BY <1>1, <1>2, <1>3, <1>4, <1>5, <1>6, <1>7, <1>8, <1>9, <1>10, <1>11, <1>12, <1>13,
       <1>14, <1>15, <1>16, <1>17, <1>18, <1>19, <1>20, Steps

\* Only a model that was healthy is saved, used or fallen back to.
LEMMA ProvenKept ==
    ASSUME LlmInv, [LlmNext]_llmVars
    PROVE  Proven'
  <1> USE LlmSwitchAssumption
  <1>1. ASSUME NEW w \in Writers, NEW q \in Request, Begin(w, q)
        PROVE  Proven'
    BY <1>1 DEF Begin, Goto, Edited, Request, Settings, Defaults, fileVars, LlmInv, LlmTypeOK,
       OneSwitcher, WaitsForItsOwn, Wanted, Proven, Known, Stopping, Switching, Saving
  <1>2. ASSUME NEW w \in Writers, LockSwitch(w) PROVE Proven'
    <2>0. child.model \in Known /\ (\A v \in Writers : at[v] # "wait" /\ at[v] # "restop")
      BY <1>2, LockSwitchForms DEF LlmInv, Proven, Stopping, Switching
    <2>1. CASE Answer(w) /\ UNCHANGED child
      <3>1. /\ \A v \in Writers : v # w => /\ at'[v] = at[v] /\ copy'[v] = copy[v]
                                           /\ previous'[v] = previous[v]
            /\ at'[w] = "idle" /\ previous'[w] = NoModel
        BY <2>1 DEF Answer, Goto, LlmInv, LlmTypeOK
      <3>2. UNCHANGED <<memory, disk, child, proven>>
        BY <1>2, <2>1, LockSwitchForms DEF fileVars
      <3> QED
        BY <2>0, <3>1, <3>2 DEF LlmInv, Proven, Known, Saving
    <2>2. CASE Switched(w) /\ child.model = copy[w].model /\ UNCHANGED child
      BY <1>2, <2>0, <2>2, LockSwitchForms DEF Switched, Goto, fileVars, LlmInv, LlmTypeOK,
         Proven, Known, Saving
    <2>3. CASE /\ previous' = [previous EXCEPT ![w] = child.model]
               /\ Goto(w, "stop") /\ UNCHANGED <<copy, child>>
      BY <1>2, <2>0, <2>3, LockSwitchForms DEF Goto, fileVars, LlmInv, LlmTypeOK, Proven,
         Known, Saving
    <2> QED
      BY <1>2, <2>1, <2>2, <2>3, LockSwitchForms
  <1>3. ASSUME NEW w \in Writers, Stopped(w) PROVE Proven'
    BY <1>3 DEF Stopped, Goto, AfterStop, NoChild, fileVars, LlmInv, LlmTypeOK, OneSwitcher,
       WaitsForItsOwn, Wanted, Proven, Known, Stopping, Switching, Saving
  <1>4. ASSUME NEW w \in Writers, StopExpires(w) PROVE Proven'
    BY <1>4 DEF StopExpires, Goto, AfterStop, NoChild, fileVars, LlmInv, LlmTypeOK,
       OneSwitcher, WaitsForItsOwn, Wanted, Proven, Known, Stopping, Switching, Saving
  <1>5. ASSUME NEW w \in Writers, Start(w) PROVE Proven'
    BY <1>5 DEF Start, Goto, NoChild, Spawned, fileVars, LlmInv, LlmTypeOK, OneSwitcher,
       WaitsForItsOwn, Wanted, Proven, Known, Stopping, Switching, Saving
  <1>6. ASSUME NEW w \in Writers, WaitReady(w) PROVE Proven'
    BY <1>6 DEF WaitReady, Goto, Switched, fileVars, LlmInv, LlmTypeOK, OneSwitcher,
       WaitsForItsOwn, Wanted, Proven, Known, Stopping, Switching, Saving
  <1>7. ASSUME NEW w \in Writers, WaitFails(w) PROVE Proven'
    BY <1>7 DEF WaitFails, Goto, fileVars, LlmInv, LlmTypeOK, OneSwitcher, WaitsForItsOwn,
       Wanted, Proven, Known, Stopping, Switching, Saving
  <1>8. ASSUME NEW w \in Writers, Restore(w) PROVE Proven'
    BY <1>8 DEF Restore, Goto, Answer, NoChild, Spawned, fileVars, LlmInv, LlmTypeOK,
       OneSwitcher, WaitsForItsOwn, Wanted, Proven, Known, Stopping, Switching, Saving
  <1>9. ASSUME NEW w \in Writers, RestoreWaited(w) PROVE Proven'
    BY <1>9 DEF RestoreWaited, Goto, Answer, fileVars, LlmInv, LlmTypeOK, OneSwitcher,
       WaitsForItsOwn, Wanted, Proven, Known, Stopping, Switching, Saving
  <1>10. ASSUME NEW w \in Writers, SaveRefused(w) PROVE Proven'
    BY <1>10 DEF SaveRefused, Goto, Answer, fileVars, LlmInv, LlmTypeOK, OneSwitcher,
       WaitsForItsOwn, Wanted, Proven, Known, Stopping, Switching, Saving
  <1>11. ASSUME NEW w \in Writers, SaveTruncates(w) PROVE Proven'
    <2>1. disk' \notin File
      BY <1>11 DEF SaveTruncates, File
    <2> QED
      BY <1>11, <2>1 DEF SaveTruncates, Goto, fileVars, LlmInv, LlmTypeOK, OneSwitcher,
         WaitsForItsOwn, Wanted, Proven, Known, Stopping, Switching, Saving
  <1>12. ASSUME NEW w \in Writers, SaveWrites(w) PROVE Proven'
    <2>1. Written(copy[w]) \in File /\ Written(copy[w]).model = copy[w].model
      BY WrittenTyped DEF LlmInv, LlmTypeOK
    <2> QED
      BY <1>12, <2>1 DEF SaveWrites, Goto, fileVars, LlmInv, File, LlmTypeOK, OneSwitcher,
         WaitsForItsOwn, Wanted, Proven, Known, Stopping, Switching, Saving
  <1>13. ASSUME NEW w \in Writers, SaveLost(w) PROVE Proven'
    <2>1. disk' \notin File
      BY <1>13 DEF SaveLost, File
    <2> QED
      BY <1>13, <2>1 DEF SaveLost, Goto, fileVars, LlmInv, LlmTypeOK, OneSwitcher,
         WaitsForItsOwn, Wanted, Proven, Known, Stopping, Switching, Saving
  <1>14. ASSUME NEW w \in Writers, SaveBreaks(w) PROVE Proven'
    <2>1. disk' \notin File
      BY <1>14 DEF SaveBreaks, File
    <2> QED
      BY <1>14, <2>1 DEF SaveBreaks, Goto, Answer, fileVars, LlmInv, LlmTypeOK, OneSwitcher,
         WaitsForItsOwn, Wanted, Proven, Known, Stopping, Switching, Saving
  <1>15. ASSUME NEW w \in Writers, UpdateMemory(w) PROVE Proven'
    BY <1>15 DEF UpdateMemory, Goto, fileVars, LlmInv, LlmTypeOK, OneSwitcher,
       WaitsForItsOwn, Wanted, Proven, Known, Stopping, Switching, Saving
  <1>16. ASSUME NEW w \in Writers, Reply(w) PROVE Proven'
    BY <1>16 DEF Reply, Goto, Answer, fileVars, LlmInv, LlmTypeOK, OneSwitcher,
       WaitsForItsOwn, Wanted, Proven, Known, Stopping, Switching, Saving
  <1>17. CASE SidecarReady
    BY <1>17 DEF SidecarReady, fileVars, LlmInv, LlmTypeOK, OneSwitcher, WaitsForItsOwn,
       Wanted, Proven, Known, Stopping, Switching, Saving
  <1>18. CASE SidecarDies
    BY <1>18 DEF SidecarDies, fileVars, LlmInv, LlmTypeOK, OneSwitcher, WaitsForItsOwn,
       Wanted, Proven, Known, Stopping, Switching, Saving
  <1>19. CASE Restart
    <2>1. memory'.model \in Known /\ UNCHANGED <<disk, proven>>
      BY <1>19, LoadTyped DEF Restart, LlmInv, LlmTypeOK, Proven, Known
    <2>2. child'.model \in Known /\ child'.state # "ready"
      BY <1>19, <2>1 DEF LlmInv, Restart, Spawned, StartupModel, NoChild, Proven, Known
    <2> QED
      BY <1>19, <2>1, <2>2 DEF LlmInv, Restart, Proven, Known, Saving
  <1>20. CASE UNCHANGED llmVars
    BY <1>20 DEF llmVars, fileVars, LlmInv, LlmTypeOK, OneSwitcher, WaitsForItsOwn, Wanted,
       Proven, Known, Stopping, Switching, Saving
  <1> QED
    BY <1>1, <1>2, <1>3, <1>4, <1>5, <1>6, <1>7, <1>8, <1>9, <1>10, <1>11, <1>12, <1>13,
       <1>14, <1>15, <1>16, <1>17, <1>18, <1>19, <1>20, Steps

\* LlmInv is inductive.
LEMMA Inductive == LlmSafetySpec => []LlmInv
  <1>1. LlmInit => LlmInv
    BY InitInv
  <1>2. LlmInv /\ [LlmNext]_llmVars => LlmInv'
    BY TypeKept, WantedKept, OneSwitcherKept, WaitsKept, ProvenKept DEF LlmInv
  <1> QED
    BY <1>1, <1>2, PTL DEF LlmSafetySpec

(* However requests, saves, restarts and the sidecar interleave, the state    *)
(* stays well typed (LlmManager and the settings in runtime.cpp); in          *)
(* particular the manager never has a process without a model.                *)
THEOREM LlmTypeCorrect == LlmSafetySpec => []LlmTypeOK
  BY Inductive, PTL DEF LlmInv

(* switch_llm_model(): whatever the number of requests, one that waits for    *)
(* /health waits for the sidecar it started itself.                           *)
THEOREM SwitchesApart == LlmSafetySpec => []WaitsForItsOwn
  BY Inductive, PTL DEF LlmInv

(* handle_llm_settings_set(): however switches and saves fail and cross, and  *)
(* wherever the server stops, the model the next start takes from llm.json    *)
(* has been healthy once, or is the default.                                  *)
THEOREM RestartFindsAModel == LlmSafetySpec => []RestartModelWorked
  <1>1. LlmInv => RestartModelWorked
    BY LoadTyped DEF LlmInv, LlmTypeOK, Proven, Known, RestartModelWorked, StartupModel
  <1> QED
    BY <1>1, Inductive, PTL

(* switch_llm_model(): a request whose switch fails leaves the model that ran *)
(* before, or none, never the one that failed.                                *)
THEOREM FallbackHolds == LlmSafetySpec => FailedSwitchRestores
  <1> DEFINE A == \A w \in Writers :
                    at[w] \in Switching /\ at'[w] = "idle" /\ restarts' = restarts =>
                        child'.model \in {previous[w], NoModel}
  <1>1. ASSUME LlmInv, [LlmNext]_llmVars PROVE A \/ UNCHANGED llmVars
    <2> SUFFICES ASSUME LlmNext, NEW v \in Writers, at[v] \in Switching, at'[v] = "idle",
                        restarts' = restarts
                 PROVE  child'.model \in {previous[v], NoModel}
      BY <1>1
    <2> USE <1>1 DEF LlmInv
    <2>1. ASSUME NEW w \in Writers, Restore(w) PROVE child'.model \in {previous[v], NoModel}
      BY <2>1 DEF Restore, Answer, Goto, WaitsForItsOwn, OneSwitcher, LlmTypeOK, Switching,
         NoChild
    <2>2. ASSUME NEW w \in Writers, RestoreWaited(w) PROVE child'.model \in {previous[v], NoModel}
      BY <2>2 DEF RestoreWaited, Answer, Goto, WaitsForItsOwn, OneSwitcher, LlmTypeOK,
         Stopping, Switching
    <2>3. ASSUME NEW w \in Writers, LockSwitch(w) PROVE FALSE
      BY <2>3 DEF LockSwitch, Answer, Switched, Goto, LlmTypeOK, Stopping, Switching
    <2>4. ASSUME NEW w \in Writers, NEW q \in Request, Begin(w, q) PROVE FALSE
      BY <2>4 DEF Begin, Goto, LlmTypeOK, Stopping, Switching
    <2>5. ASSUME NEW w \in Writers,
                 Stopped(w) \/ StopExpires(w) \/ Start(w) \/ WaitReady(w) \/ WaitFails(w)
          PROVE  FALSE
      BY <2>5 DEF Stopped, StopExpires, AfterStop, Start, WaitReady, WaitFails, Switched, Goto,
                  LlmTypeOK, Stopping, Switching
    <2>6. ASSUME NEW w \in Writers,
                 SaveRefused(w) \/ SaveTruncates(w) \/ SaveWrites(w) \/ SaveLost(w)
                   \/ SaveBreaks(w) \/ UpdateMemory(w) \/ Reply(w)
          PROVE  FALSE
      <3>1. at[w] \in {"save", "write", "memory", "reply"}
        BY <2>6 DEF SaveRefused, SaveTruncates, SaveWrites, SaveLost, SaveBreaks, UpdateMemory,
           Reply
      <3>2. \E place : at' = [at EXCEPT ![w] = place]
        BY <2>6, Zenon DEF SaveRefused, SaveTruncates, SaveWrites, SaveLost, SaveBreaks,
           UpdateMemory, Reply, Answer, Goto
      <3> QED
        BY <3>1, <3>2 DEF LlmTypeOK, Stopping, Switching
    <2>7. ASSUME SidecarReady \/ SidecarDies PROVE FALSE
      BY <2>7 DEF SidecarReady, SidecarDies, Stopping, Switching
    <2>8. ASSUME Restart PROVE FALSE
      BY <2>8 DEF Restart, LlmTypeOK
    <2> QED
      BY <2>1, <2>2, <2>3, <2>4, <2>5, <2>6, <2>7, <2>8, Steps
  <1> QED
    BY <1>1, Inductive, PTL DEF LlmSafetySpec, FailedSwitchRestores

=============================================================================
