--------------------------- MODULE ClusterProofs ---------------------------
(***************************************************************************)
(* Proofs about the cluster, for any number of nodes and VMs, any faults    *)
(* and any values of the timeouts that meet the timing conditions.          *)
(***************************************************************************)
EXTENDS Cluster, TLAPS

(***************************************************************************)
(* The inductive invariants.                                                *)
(***************************************************************************)
\* The states in which HKD has ticked and its ticker is heard.
Ticked == {"cleaning", "searching", "catching", "saving", "running"}

\* The lease: the row is no older than the ticker thinks, and by the next tick the
\* ticker will not be older than the lease allows.
Lease(h) ==
  hkd[h] \in Ticked =>
    /\ lastOk[h] # NULL
    /\ age[h] <= lastOk[h]
    /\ lastOk[h] + tickT[h] <= LeaseEnds(h)

\* Until it has ticked, a node is safe from the age of its row by its state.
Announced(h) ==
  /\ hkd[h] \in Setup \cup {"saving"} => hstate[h] = "starting"
  /\ hkd[h] = "running" => hstate[h] = "running"

LeaseInv == TypeOK /\ \A h \in Nodes : Lease(h) /\ Announced(h)

\* The timers of the states of stopping.
StopTimers(h) ==
  /\ hkd[h] = "stopping" => stopT[h] = 0
  /\ hkd[h] = "stopping_l7rs" => stopT[h] <= L7rsTimeout
  /\ hkd[h] = "stopping_vms" => stopT[h] <= VmsTimeout
  /\ hkd[h] = "killing_vms" => stopT[h] <= KillTime

\* The states in which there may be handlers.
Handling == Ticked \cup {"stopping", "stopping_l7rs", "stopping_vms", "killing_vms"}

\* As long as there are handlers, the time left to stop them is within the lease.
Draining(h) ==
  ~NoHandlers(h) =>
    /\ hkd[h] \in Handling
    /\ hstate[h] # "lost"
    /\ lastOk[h] # NULL
    /\ age[h] <= lastOk[h]
    /\ hkd[h] = "stopping" => lastOk[h] + L7rsTimeout + VmsTimeout + KillTime <= StopEnds(h)
    /\ hkd[h] = "stopping_l7rs" => lastOk[h] + stopT[h] + VmsTimeout + KillTime <= StopEnds(h)
    /\ hkd[h] = "stopping_vms" => lastOk[h] + stopT[h] + KillTime <= StopEnds(h)
    /\ hkd[h] = "killing_vms" => lastOk[h] + stopT[h] <= StopEnds(h)

\* The row of a VM names the node that has its container.
RowOwner(h) == \A v \in VMs : Managed(h, v) => vhost[v] = h

StopInv == LeaseInv /\ \A h \in Nodes : StopTimers(h) /\ Draining(h) /\ RowOwner(h)

\* From the search for zombies on, the row of an orphan does not count on its node.
Searched == {"catching", "saving", "running"}
Orphans(h) ==
  \A v \in VMs : hkd[h] \in Searched /\ hv[h][v] = "orphan" => vhost[v] # h \/ vstate[v] = "stopped"

OrphanInv == TypeOK /\ \A h \in Nodes : Orphans(h)

\* Every step keeps the types.
LEMMA TypeStep ==
  ASSUME TypeOK, [Next]_vars
  PROVE  TypeOK'
<1> USE ConstantsAssumption DEF TypeOK, HostStates, VMStates, Setup, Running, Stopping, HkdStates, Handled, HvStates, MonRunning, MonStates, Idle, Goto, SaveState, Hv, At, MonGoto, Serves, db, node, rows, users, vars
<1>1. ASSUME Elapse PROVE TypeOK'
    BY <1>1 DEF Elapse, HasTicker, Older
<1>2. ASSUME NEW n \in Nodes, TickDone(n) PROVE TypeOK'
    BY <1>2 DEF TickDone, HasTicker
<1>3. ASSUME NEW n \in Nodes, TickError(n) PROVE TypeOK'
    BY <1>3 DEF TickError, HasTicker, TickerTimedOut, HkdAfterError
<1>4. ASSUME NEW n \in Nodes, Boot(n) PROVE TypeOK'
    BY <1>4 DEF Boot
<1>5. ASSUME NEW n \in Nodes, StartTicker(n) PROVE TypeOK'
    BY <1>5 DEF StartTicker
<1>6. ASSUME NEW n \in Nodes, CleanL7Rs(n) PROVE TypeOK'
    BY <1>6 DEF CleanL7Rs
<1>7. ASSUME NEW n \in Nodes, CatchZombies(n) PROVE TypeOK'
    BY <1>7 DEF CatchZombies
<1>8. ASSUME NEW n \in Nodes, StartAgents(n) PROVE TypeOK'
    BY <1>8 DEF StartAgents, NoHandlers
<1>9. ASSUME NEW n \in Nodes, SaveRunning(n) PROVE TypeOK'
    BY <1>9 DEF SaveRunning
<1>10. ASSUME NEW n \in Nodes, StopListeners(n) PROVE TypeOK'
    BY <1>10 DEF StopListeners
<1>11. ASSUME NEW n \in Nodes, StopAllVMs(n) PROVE TypeOK'
    BY <1>11 DEF StopAllVMs, NoL7Rs
<1>12. ASSUME NEW n \in Nodes, KillAllVMs(n) PROVE TypeOK'
    BY <1>12 DEF KillAllVMs, NoHandlers
<1>13. ASSUME NEW n \in Nodes, StopAgents(n) PROVE TypeOK'
    BY <1>13 DEF StopAgents, ClearTimers, NoHandlers
<1>14. ASSUME NEW n \in Nodes, HkdStopped(n) PROVE TypeOK'
    BY <1>14 DEF HkdStopped
<1>15. ASSUME NEW n \in Nodes, HkdError(n) PROVE TypeOK'
    BY <1>15 DEF HkdError
<1>16. ASSUME NEW n \in Nodes, CmdStop(n) PROVE TypeOK'
    BY <1>16 DEF CmdStop, Fault
<1>17. ASSUME NEW n \in Nodes, MonWake(n) PROVE TypeOK'
    BY <1>17 DEF MonWake
<1>18. ASSUME NEW n \in Nodes, KillHosts(n) PROVE TypeOK'
    BY <1>18 DEF KillHosts, SilentHosts
<1>19. ASSUME NEW n \in Nodes, UnassignVMs(n) PROVE TypeOK'
    BY <1>19 DEF UnassignVMs, OnLostHost
<1>20. ASSUME NEW n \in Nodes, UnassignL7Rs(n) PROVE TypeOK'
    BY <1>20 DEF UnassignL7Rs, ThroughLostHost
<1>21. ASSUME NEW n \in Nodes, AbortL7Rs(n) PROVE TypeOK'
    BY <1>21 DEF AbortL7Rs, UserCmdEqualsNull
<1>22. ASSUME NEW n \in Nodes, NotifyHkds(n) PROVE TypeOK'
    BY <1>22 DEF NotifyHkds
<1>23. ASSUME NEW n \in Nodes, MonError(n) PROVE TypeOK'
    BY <1>23 DEF MonError
<1>24. ASSUME NEW n \in Nodes, LinkDown(n) PROVE TypeOK'
    BY <1>24 DEF LinkDown, Fault
<1>25. ASSUME NEW n \in Nodes, LinkUp(n) PROVE TypeOK'
    BY <1>25 DEF LinkUp
<1>26. ASSUME NEW n \in Nodes, PowerOff(n) PROVE TypeOK'
    BY <1>26 DEF PowerOff, ClearTimers, Fault, MonGoto
<1>27. ASSUME NEW n \in Nodes, HkdCrash(n) PROVE TypeOK'
    BY <1>27 DEF HkdCrash, ClearTimers, Fault, MonGoto
<1>28. ASSUME NEW n \in Nodes, NEW w \in VMs, TakeStart(n, w) PROVE TypeOK'
    BY <1>28 DEF TakeStart
<1>29. ASSUME NEW n \in Nodes, NEW w \in VMs, TakeStop(n, w) PROVE TypeOK'
    BY <1>29 DEF TakeStop
<1>30. ASSUME NEW n \in Nodes, NEW w \in VMs, Launch(n, w) PROVE TypeOK'
    BY <1>30 DEF Launch
<1>31. ASSUME NEW n \in Nodes, NEW w \in VMs, SaveUp(n, w) PROVE TypeOK'
    BY <1>31 DEF SaveUp
<1>32. ASSUME NEW n \in Nodes, NEW w \in VMs, StopVM(n, w) PROVE TypeOK'
    BY <1>32 DEF StopVM
<1>33. ASSUME NEW n \in Nodes, NEW w \in VMs, ContainerGone(n, w) PROVE TypeOK'
    BY <1>33 DEF ContainerGone
<1>34. ASSUME NEW n \in Nodes, NEW w \in VMs, ClearRow(n, w) PROVE TypeOK'
    BY <1>34 DEF ClearRow
<1>35. ASSUME NEW n \in Nodes, NEW w \in VMs, GiveUpRow(n, w) PROVE TypeOK'
    BY <1>35 DEF GiveUpRow
<1>36. ASSUME NEW n \in Nodes, NEW w \in VMs, TakeoverVM(n, w) PROVE TypeOK'
    BY <1>36 DEF TakeoverVM
<1>37. ASSUME NEW n \in Nodes, NEW w \in VMs, Contend(n, w) PROVE TypeOK'
    BY <1>37 DEF Contend
<1>38. ASSUME NEW n \in Nodes, NEW w \in VMs, AssignVM(n, w) PROVE TypeOK'
    BY <1>38 DEF AssignVM
<1>39. ASSUME NEW n \in Nodes, NEW w \in VMs, SendStart(n, w) PROVE TypeOK'
    BY <1>39 DEF SendStart
<1>40. ASSUME NEW n \in Nodes, NEW w \in VMs, Connected(n, w) PROVE TypeOK'
    BY <1>40 DEF Connected
<1>41. ASSUME NEW n \in Nodes, NEW w \in VMs, EndL7R(n, w) PROVE TypeOK'
    BY <1>41 DEF EndL7R, Serves, EndsL7R
<1>42. ASSUME NEW n \in Nodes, NEW w \in VMs, NEW m \in Nodes, PickHost(n, w, m) PROVE TypeOK'
    BY <1>42 DEF PickHost
<1>43. ASSUME NEW w \in VMs, AdminStop(w) PROVE TypeOK'
    BY <1>43 DEF AdminStop
<1>44. CASE UNCHANGED vars
    BY <1>44 DEF vars
<1> QED
    BY <1>1, <1>2, <1>3, <1>4, <1>5, <1>6, <1>7, <1>8, <1>9, <1>10, <1>11, <1>12, <1>13, <1>14, <1>15, <1>16, <1>17, <1>18, <1>19, <1>20, <1>21, <1>22, <1>23, <1>24, <1>25, <1>26, <1>27, <1>28, <1>29, <1>30, <1>31, <1>32, <1>33, <1>34, <1>35, <1>36, <1>37, <1>38, <1>39, <1>40, <1>41, <1>42, <1>43, <1>44
    DEF Next, Ticker, HkdStarts, HkdStep, HkdStops, HandlerStep, MonitorStep,
        L7RStep, Environment

\* Every step keeps the lease of every node.
LEMMA LeaseStep ==
  ASSUME LeaseInv, LeaseTiming, TypeOK', NEW h \in Nodes, [Next]_vars
  PROVE  Lease(h)' /\ Announced(h)'
<1> USE ConstantsAssumption DEF LeaseInv, Lease, Announced, Ticked, LeaseTiming, LeaseEnds, TypeOK, HostStates, VMStates, Setup, Running, Stopping, HkdStates, Handled, HvStates, MonRunning, MonStates, Idle, Goto, SaveState, Hv, At, MonGoto, Serves, db, node, rows, users, vars
<1>1. ASSUME Elapse PROVE Lease(h)' /\ Announced(h)'
    BY <1>1 DEF Elapse, HasTicker, Older
<1>2. ASSUME NEW n \in Nodes, TickDone(n) PROVE Lease(h)' /\ Announced(h)'
    BY <1>2 DEF TickDone, HasTicker
<1>3. ASSUME NEW n \in Nodes, TickError(n) PROVE Lease(h)' /\ Announced(h)'
    BY <1>3 DEF TickError, HasTicker, TickerTimedOut, HkdAfterError
<1>4. ASSUME NEW n \in Nodes, Boot(n) PROVE Lease(h)' /\ Announced(h)'
    BY <1>4 DEF Boot
<1>5. ASSUME NEW n \in Nodes, StartTicker(n) PROVE Lease(h)' /\ Announced(h)'
    BY <1>5 DEF StartTicker
<1>6. ASSUME NEW n \in Nodes, CleanL7Rs(n) PROVE Lease(h)' /\ Announced(h)'
    BY <1>6 DEF CleanL7Rs
<1>7. ASSUME NEW n \in Nodes, CatchZombies(n) PROVE Lease(h)' /\ Announced(h)'
    BY <1>7 DEF CatchZombies
<1>8. ASSUME NEW n \in Nodes, StartAgents(n) PROVE Lease(h)' /\ Announced(h)'
    BY <1>8 DEF StartAgents, NoHandlers
<1>9. ASSUME NEW n \in Nodes, SaveRunning(n) PROVE Lease(h)' /\ Announced(h)'
    BY <1>9 DEF SaveRunning
<1>10. ASSUME NEW n \in Nodes, StopListeners(n) PROVE Lease(h)' /\ Announced(h)'
    BY <1>10 DEF StopListeners
<1>11. ASSUME NEW n \in Nodes, StopAllVMs(n) PROVE Lease(h)' /\ Announced(h)'
    BY <1>11 DEF StopAllVMs, NoL7Rs
<1>12. ASSUME NEW n \in Nodes, KillAllVMs(n) PROVE Lease(h)' /\ Announced(h)'
    BY <1>12 DEF KillAllVMs, NoHandlers
<1>13. ASSUME NEW n \in Nodes, StopAgents(n) PROVE Lease(h)' /\ Announced(h)'
    BY <1>13 DEF StopAgents, ClearTimers, NoHandlers
<1>14. ASSUME NEW n \in Nodes, HkdStopped(n) PROVE Lease(h)' /\ Announced(h)'
    BY <1>14 DEF HkdStopped
<1>15. ASSUME NEW n \in Nodes, HkdError(n) PROVE Lease(h)' /\ Announced(h)'
    BY <1>15 DEF HkdError
<1>16. ASSUME NEW n \in Nodes, CmdStop(n) PROVE Lease(h)' /\ Announced(h)'
    BY <1>16 DEF CmdStop, Fault
<1>17. ASSUME NEW n \in Nodes, MonWake(n) PROVE Lease(h)' /\ Announced(h)'
    BY <1>17 DEF MonWake
<1>18. ASSUME NEW n \in Nodes, KillHosts(n) PROVE Lease(h)' /\ Announced(h)'
    BY <1>18 DEF KillHosts, SilentHosts
<1>19. ASSUME NEW n \in Nodes, UnassignVMs(n) PROVE Lease(h)' /\ Announced(h)'
    BY <1>19 DEF UnassignVMs, OnLostHost
<1>20. ASSUME NEW n \in Nodes, UnassignL7Rs(n) PROVE Lease(h)' /\ Announced(h)'
    BY <1>20 DEF UnassignL7Rs, ThroughLostHost
<1>21. ASSUME NEW n \in Nodes, AbortL7Rs(n) PROVE Lease(h)' /\ Announced(h)'
    BY <1>21 DEF AbortL7Rs, UserCmdEqualsNull
<1>22. ASSUME NEW n \in Nodes, NotifyHkds(n) PROVE Lease(h)' /\ Announced(h)'
    BY <1>22 DEF NotifyHkds
<1>23. ASSUME NEW n \in Nodes, MonError(n) PROVE Lease(h)' /\ Announced(h)'
    BY <1>23 DEF MonError
<1>24. ASSUME NEW n \in Nodes, LinkDown(n) PROVE Lease(h)' /\ Announced(h)'
    BY <1>24 DEF LinkDown, Fault
<1>25. ASSUME NEW n \in Nodes, LinkUp(n) PROVE Lease(h)' /\ Announced(h)'
    BY <1>25 DEF LinkUp
<1>26. ASSUME NEW n \in Nodes, PowerOff(n) PROVE Lease(h)' /\ Announced(h)'
    BY <1>26 DEF PowerOff, ClearTimers, Fault, MonGoto
<1>27. ASSUME NEW n \in Nodes, HkdCrash(n) PROVE Lease(h)' /\ Announced(h)'
    BY <1>27 DEF HkdCrash, ClearTimers, Fault, MonGoto
<1>28. ASSUME NEW n \in Nodes, NEW w \in VMs, TakeStart(n, w) PROVE Lease(h)' /\ Announced(h)'
    BY <1>28 DEF TakeStart
<1>29. ASSUME NEW n \in Nodes, NEW w \in VMs, TakeStop(n, w) PROVE Lease(h)' /\ Announced(h)'
    BY <1>29 DEF TakeStop
<1>30. ASSUME NEW n \in Nodes, NEW w \in VMs, Launch(n, w) PROVE Lease(h)' /\ Announced(h)'
    BY <1>30 DEF Launch
<1>31. ASSUME NEW n \in Nodes, NEW w \in VMs, SaveUp(n, w) PROVE Lease(h)' /\ Announced(h)'
    BY <1>31 DEF SaveUp
<1>32. ASSUME NEW n \in Nodes, NEW w \in VMs, StopVM(n, w) PROVE Lease(h)' /\ Announced(h)'
    BY <1>32 DEF StopVM
<1>33. ASSUME NEW n \in Nodes, NEW w \in VMs, ContainerGone(n, w) PROVE Lease(h)' /\ Announced(h)'
    BY <1>33 DEF ContainerGone
<1>34. ASSUME NEW n \in Nodes, NEW w \in VMs, ClearRow(n, w) PROVE Lease(h)' /\ Announced(h)'
    BY <1>34 DEF ClearRow
<1>35. ASSUME NEW n \in Nodes, NEW w \in VMs, GiveUpRow(n, w) PROVE Lease(h)' /\ Announced(h)'
    BY <1>35 DEF GiveUpRow
<1>36. ASSUME NEW n \in Nodes, NEW w \in VMs, TakeoverVM(n, w) PROVE Lease(h)' /\ Announced(h)'
    BY <1>36 DEF TakeoverVM
<1>37. ASSUME NEW n \in Nodes, NEW w \in VMs, Contend(n, w) PROVE Lease(h)' /\ Announced(h)'
    BY <1>37 DEF Contend
<1>38. ASSUME NEW n \in Nodes, NEW w \in VMs, AssignVM(n, w) PROVE Lease(h)' /\ Announced(h)'
    BY <1>38 DEF AssignVM
<1>39. ASSUME NEW n \in Nodes, NEW w \in VMs, SendStart(n, w) PROVE Lease(h)' /\ Announced(h)'
    BY <1>39 DEF SendStart
<1>40. ASSUME NEW n \in Nodes, NEW w \in VMs, Connected(n, w) PROVE Lease(h)' /\ Announced(h)'
    BY <1>40 DEF Connected
<1>41. ASSUME NEW n \in Nodes, NEW w \in VMs, EndL7R(n, w) PROVE Lease(h)' /\ Announced(h)'
    BY <1>41 DEF EndL7R, Serves, EndsL7R
<1>42. ASSUME NEW n \in Nodes, NEW w \in VMs, NEW m \in Nodes, PickHost(n, w, m) PROVE Lease(h)' /\ Announced(h)'
    BY <1>42 DEF PickHost
<1>43. ASSUME NEW w \in VMs, AdminStop(w) PROVE Lease(h)' /\ Announced(h)'
    BY <1>43 DEF AdminStop
<1>44. CASE UNCHANGED vars
    BY <1>44 DEF vars
<1> QED
    BY <1>1, <1>2, <1>3, <1>4, <1>5, <1>6, <1>7, <1>8, <1>9, <1>10, <1>11, <1>12, <1>13, <1>14, <1>15, <1>16, <1>17, <1>18, <1>19, <1>20, <1>21, <1>22, <1>23, <1>24, <1>25, <1>26, <1>27, <1>28, <1>29, <1>30, <1>31, <1>32, <1>33, <1>34, <1>35, <1>36, <1>37, <1>38, <1>39, <1>40, <1>41, <1>42, <1>43, <1>44
    DEF Next, Ticker, HkdStarts, HkdStep, HkdStops, HandlerStep, MonitorStep,
        L7RStep, Environment

\* Every step keeps the time that is left to stop the handlers.
LEMMA DrainStep ==
  ASSUME StopInv, StopTiming, TypeOK', NEW h \in Nodes, [Next]_vars
  PROVE  StopTimers(h)' /\ Draining(h)'
<1> USE ConstantsAssumption DEF StopInv, StopTimers, Draining, Handling, NoHandlers, LeaseInv, Lease, Announced, Ticked, StopTiming, StopEnds, LeaseEnds, TypeOK, HostStates, VMStates, Setup, Running, Stopping, HkdStates, Handled, HvStates, MonRunning, MonStates, Idle, Goto, SaveState, Hv, At, MonGoto, Serves, db, node, rows, users, vars
<1>1. ASSUME Elapse PROVE StopTimers(h)' /\ Draining(h)'
    BY <1>1 DEF Elapse, HasTicker, Older
<1>2. ASSUME NEW n \in Nodes, TickDone(n) PROVE StopTimers(h)' /\ Draining(h)'
    BY <1>2 DEF TickDone, HasTicker
<1>3. ASSUME NEW n \in Nodes, TickError(n) PROVE StopTimers(h)' /\ Draining(h)'
    BY <1>3 DEF TickError, HasTicker, TickerTimedOut, HkdAfterError
<1>4. ASSUME NEW n \in Nodes, Boot(n) PROVE StopTimers(h)' /\ Draining(h)'
    BY <1>4 DEF Boot
<1>5. ASSUME NEW n \in Nodes, StartTicker(n) PROVE StopTimers(h)' /\ Draining(h)'
    BY <1>5 DEF StartTicker
<1>6. ASSUME NEW n \in Nodes, CleanL7Rs(n) PROVE StopTimers(h)' /\ Draining(h)'
    BY <1>6 DEF CleanL7Rs
<1>7. ASSUME NEW n \in Nodes, CatchZombies(n) PROVE StopTimers(h)' /\ Draining(h)'
    BY <1>7 DEF CatchZombies
<1>8. ASSUME NEW n \in Nodes, StartAgents(n) PROVE StopTimers(h)' /\ Draining(h)'
    BY <1>8 DEF StartAgents, NoHandlers
<1>9. ASSUME NEW n \in Nodes, SaveRunning(n) PROVE StopTimers(h)' /\ Draining(h)'
    BY <1>9 DEF SaveRunning
<1>10. ASSUME NEW n \in Nodes, StopListeners(n) PROVE StopTimers(h)' /\ Draining(h)'
    BY <1>10 DEF StopListeners
<1>11. ASSUME NEW n \in Nodes, StopAllVMs(n) PROVE StopTimers(h)' /\ Draining(h)'
    BY <1>11 DEF StopAllVMs, NoL7Rs
<1>12. ASSUME NEW n \in Nodes, KillAllVMs(n) PROVE StopTimers(h)' /\ Draining(h)'
    BY <1>12 DEF KillAllVMs, NoHandlers
<1>13. ASSUME NEW n \in Nodes, StopAgents(n) PROVE StopTimers(h)' /\ Draining(h)'
    BY <1>13 DEF StopAgents, ClearTimers, NoHandlers
<1>14. ASSUME NEW n \in Nodes, HkdStopped(n) PROVE StopTimers(h)' /\ Draining(h)'
    BY <1>14 DEF HkdStopped
<1>15. ASSUME NEW n \in Nodes, HkdError(n) PROVE StopTimers(h)' /\ Draining(h)'
    BY <1>15 DEF HkdError
<1>16. ASSUME NEW n \in Nodes, CmdStop(n) PROVE StopTimers(h)' /\ Draining(h)'
    BY <1>16 DEF CmdStop, Fault
<1>17. ASSUME NEW n \in Nodes, MonWake(n) PROVE StopTimers(h)' /\ Draining(h)'
    BY <1>17 DEF MonWake
<1>18. ASSUME NEW n \in Nodes, KillHosts(n) PROVE StopTimers(h)' /\ Draining(h)'
    BY <1>18 DEF KillHosts, SilentHosts
<1>19. ASSUME NEW n \in Nodes, UnassignVMs(n) PROVE StopTimers(h)' /\ Draining(h)'
    BY <1>19 DEF UnassignVMs, OnLostHost
<1>20. ASSUME NEW n \in Nodes, UnassignL7Rs(n) PROVE StopTimers(h)' /\ Draining(h)'
    BY <1>20 DEF UnassignL7Rs, ThroughLostHost
<1>21. ASSUME NEW n \in Nodes, AbortL7Rs(n) PROVE StopTimers(h)' /\ Draining(h)'
    BY <1>21 DEF AbortL7Rs, UserCmdEqualsNull
<1>22. ASSUME NEW n \in Nodes, NotifyHkds(n) PROVE StopTimers(h)' /\ Draining(h)'
    BY <1>22 DEF NotifyHkds
<1>23. ASSUME NEW n \in Nodes, MonError(n) PROVE StopTimers(h)' /\ Draining(h)'
    BY <1>23 DEF MonError
<1>24. ASSUME NEW n \in Nodes, LinkDown(n) PROVE StopTimers(h)' /\ Draining(h)'
    BY <1>24 DEF LinkDown, Fault
<1>25. ASSUME NEW n \in Nodes, LinkUp(n) PROVE StopTimers(h)' /\ Draining(h)'
    BY <1>25 DEF LinkUp
<1>26. ASSUME NEW n \in Nodes, PowerOff(n) PROVE StopTimers(h)' /\ Draining(h)'
    BY <1>26 DEF PowerOff, ClearTimers, Fault, MonGoto
<1>27. ASSUME NEW n \in Nodes, HkdCrash(n) PROVE StopTimers(h)' /\ Draining(h)'
    BY <1>27 DEF HkdCrash, ClearTimers, Fault, MonGoto
<1>28. ASSUME NEW n \in Nodes, NEW w \in VMs, TakeStart(n, w) PROVE StopTimers(h)' /\ Draining(h)'
    BY <1>28 DEF TakeStart
<1>29. ASSUME NEW n \in Nodes, NEW w \in VMs, TakeStop(n, w) PROVE StopTimers(h)' /\ Draining(h)'
    BY <1>29 DEF TakeStop
<1>30. ASSUME NEW n \in Nodes, NEW w \in VMs, Launch(n, w) PROVE StopTimers(h)' /\ Draining(h)'
    BY <1>30 DEF Launch
<1>31. ASSUME NEW n \in Nodes, NEW w \in VMs, SaveUp(n, w) PROVE StopTimers(h)' /\ Draining(h)'
    BY <1>31 DEF SaveUp
<1>32. ASSUME NEW n \in Nodes, NEW w \in VMs, StopVM(n, w) PROVE StopTimers(h)' /\ Draining(h)'
    BY <1>32 DEF StopVM
<1>33. ASSUME NEW n \in Nodes, NEW w \in VMs, ContainerGone(n, w) PROVE StopTimers(h)' /\ Draining(h)'
    BY <1>33 DEF ContainerGone
<1>34. ASSUME NEW n \in Nodes, NEW w \in VMs, ClearRow(n, w) PROVE StopTimers(h)' /\ Draining(h)'
    BY <1>34 DEF ClearRow
<1>35. ASSUME NEW n \in Nodes, NEW w \in VMs, GiveUpRow(n, w) PROVE StopTimers(h)' /\ Draining(h)'
    BY <1>35 DEF GiveUpRow
<1>36. ASSUME NEW n \in Nodes, NEW w \in VMs, TakeoverVM(n, w) PROVE StopTimers(h)' /\ Draining(h)'
    BY <1>36 DEF TakeoverVM
<1>37. ASSUME NEW n \in Nodes, NEW w \in VMs, Contend(n, w) PROVE StopTimers(h)' /\ Draining(h)'
    BY <1>37 DEF Contend
<1>38. ASSUME NEW n \in Nodes, NEW w \in VMs, AssignVM(n, w) PROVE StopTimers(h)' /\ Draining(h)'
    BY <1>38 DEF AssignVM
<1>39. ASSUME NEW n \in Nodes, NEW w \in VMs, SendStart(n, w) PROVE StopTimers(h)' /\ Draining(h)'
    BY <1>39 DEF SendStart
<1>40. ASSUME NEW n \in Nodes, NEW w \in VMs, Connected(n, w) PROVE StopTimers(h)' /\ Draining(h)'
    BY <1>40 DEF Connected
<1>41. ASSUME NEW n \in Nodes, NEW w \in VMs, EndL7R(n, w) PROVE StopTimers(h)' /\ Draining(h)'
    BY <1>41 DEF EndL7R, Serves, EndsL7R
<1>42. ASSUME NEW n \in Nodes, NEW w \in VMs, NEW m \in Nodes, PickHost(n, w, m) PROVE StopTimers(h)' /\ Draining(h)'
    BY <1>42 DEF PickHost
<1>43. ASSUME NEW w \in VMs, AdminStop(w) PROVE StopTimers(h)' /\ Draining(h)'
    BY <1>43 DEF AdminStop
<1>44. CASE UNCHANGED vars
    BY <1>44 DEF vars
<1> QED
    BY <1>1, <1>2, <1>3, <1>4, <1>5, <1>6, <1>7, <1>8, <1>9, <1>10, <1>11, <1>12, <1>13, <1>14, <1>15, <1>16, <1>17, <1>18, <1>19, <1>20, <1>21, <1>22, <1>23, <1>24, <1>25, <1>26, <1>27, <1>28, <1>29, <1>30, <1>31, <1>32, <1>33, <1>34, <1>35, <1>36, <1>37, <1>38, <1>39, <1>40, <1>41, <1>42, <1>43, <1>44
    DEF Next, Ticker, HkdStarts, HkdStep, HkdStops, HandlerStep, MonitorStep,
        L7RStep, Environment

\* Every step keeps the row of a VM that has a container.
LEMMA OwnerStep ==
  ASSUME StopInv, StopTiming, TypeOK', NEW h \in Nodes, [Next]_vars
  PROVE  RowOwner(h)'
<1> USE ConstantsAssumption DEF StopInv, RowOwner, Managed, Draining, NoHandlers, LeaseInv, TypeOK, HostStates, VMStates, Setup, Running, Stopping, HkdStates, Handled, HvStates, MonRunning, MonStates, Idle, Goto, SaveState, Hv, At, MonGoto, Serves, db, node, rows, users, vars
<1>1. ASSUME Elapse PROVE RowOwner(h)'
    BY <1>1 DEF Elapse, HasTicker, Older
<1>2. ASSUME NEW n \in Nodes, TickDone(n) PROVE RowOwner(h)'
    BY <1>2 DEF TickDone, HasTicker
<1>3. ASSUME NEW n \in Nodes, TickError(n) PROVE RowOwner(h)'
    BY <1>3 DEF TickError, HasTicker, TickerTimedOut, HkdAfterError
<1>4. ASSUME NEW n \in Nodes, Boot(n) PROVE RowOwner(h)'
    BY <1>4 DEF Boot
<1>5. ASSUME NEW n \in Nodes, StartTicker(n) PROVE RowOwner(h)'
    BY <1>5 DEF StartTicker
<1>6. ASSUME NEW n \in Nodes, CleanL7Rs(n) PROVE RowOwner(h)'
    BY <1>6 DEF CleanL7Rs
<1>7. ASSUME NEW n \in Nodes, CatchZombies(n) PROVE RowOwner(h)'
    BY <1>7 DEF CatchZombies
<1>8. ASSUME NEW n \in Nodes, StartAgents(n) PROVE RowOwner(h)'
    BY <1>8 DEF StartAgents, NoHandlers
<1>9. ASSUME NEW n \in Nodes, SaveRunning(n) PROVE RowOwner(h)'
    BY <1>9 DEF SaveRunning
<1>10. ASSUME NEW n \in Nodes, StopListeners(n) PROVE RowOwner(h)'
    BY <1>10 DEF StopListeners
<1>11. ASSUME NEW n \in Nodes, StopAllVMs(n) PROVE RowOwner(h)'
    BY <1>11 DEF StopAllVMs, NoL7Rs
<1>12. ASSUME NEW n \in Nodes, KillAllVMs(n) PROVE RowOwner(h)'
    BY <1>12 DEF KillAllVMs, NoHandlers
<1>13. ASSUME NEW n \in Nodes, StopAgents(n) PROVE RowOwner(h)'
    BY <1>13 DEF StopAgents, ClearTimers, NoHandlers
<1>14. ASSUME NEW n \in Nodes, HkdStopped(n) PROVE RowOwner(h)'
    BY <1>14 DEF HkdStopped
<1>15. ASSUME NEW n \in Nodes, HkdError(n) PROVE RowOwner(h)'
    BY <1>15 DEF HkdError
<1>16. ASSUME NEW n \in Nodes, CmdStop(n) PROVE RowOwner(h)'
    BY <1>16 DEF CmdStop, Fault
<1>17. ASSUME NEW n \in Nodes, MonWake(n) PROVE RowOwner(h)'
    BY <1>17 DEF MonWake
<1>18. ASSUME NEW n \in Nodes, KillHosts(n) PROVE RowOwner(h)'
    BY <1>18 DEF KillHosts, SilentHosts
<1>19. ASSUME NEW n \in Nodes, UnassignVMs(n) PROVE RowOwner(h)'
    BY <1>19 DEF UnassignVMs, OnLostHost
<1>20. ASSUME NEW n \in Nodes, UnassignL7Rs(n) PROVE RowOwner(h)'
    BY <1>20 DEF UnassignL7Rs, ThroughLostHost
<1>21. ASSUME NEW n \in Nodes, AbortL7Rs(n) PROVE RowOwner(h)'
    BY <1>21 DEF AbortL7Rs, UserCmdEqualsNull
<1>22. ASSUME NEW n \in Nodes, NotifyHkds(n) PROVE RowOwner(h)'
    BY <1>22 DEF NotifyHkds
<1>23. ASSUME NEW n \in Nodes, MonError(n) PROVE RowOwner(h)'
    BY <1>23 DEF MonError
<1>24. ASSUME NEW n \in Nodes, LinkDown(n) PROVE RowOwner(h)'
    BY <1>24 DEF LinkDown, Fault
<1>25. ASSUME NEW n \in Nodes, LinkUp(n) PROVE RowOwner(h)'
    BY <1>25 DEF LinkUp
<1>26. ASSUME NEW n \in Nodes, PowerOff(n) PROVE RowOwner(h)'
    BY <1>26 DEF PowerOff, ClearTimers, Fault, MonGoto
<1>27. ASSUME NEW n \in Nodes, HkdCrash(n) PROVE RowOwner(h)'
    BY <1>27 DEF HkdCrash, ClearTimers, Fault, MonGoto
<1>28. ASSUME NEW n \in Nodes, NEW w \in VMs, TakeStart(n, w) PROVE RowOwner(h)'
    BY <1>28 DEF TakeStart
<1>29. ASSUME NEW n \in Nodes, NEW w \in VMs, TakeStop(n, w) PROVE RowOwner(h)'
    BY <1>29 DEF TakeStop
<1>30. ASSUME NEW n \in Nodes, NEW w \in VMs, Launch(n, w) PROVE RowOwner(h)'
    BY <1>30 DEF Launch
<1>31. ASSUME NEW n \in Nodes, NEW w \in VMs, SaveUp(n, w) PROVE RowOwner(h)'
    BY <1>31 DEF SaveUp
<1>32. ASSUME NEW n \in Nodes, NEW w \in VMs, StopVM(n, w) PROVE RowOwner(h)'
    BY <1>32 DEF StopVM
<1>33. ASSUME NEW n \in Nodes, NEW w \in VMs, ContainerGone(n, w) PROVE RowOwner(h)'
    BY <1>33 DEF ContainerGone
<1>34. ASSUME NEW n \in Nodes, NEW w \in VMs, ClearRow(n, w) PROVE RowOwner(h)'
    BY <1>34 DEF ClearRow
<1>35. ASSUME NEW n \in Nodes, NEW w \in VMs, GiveUpRow(n, w) PROVE RowOwner(h)'
    BY <1>35 DEF GiveUpRow
<1>36. ASSUME NEW n \in Nodes, NEW w \in VMs, TakeoverVM(n, w) PROVE RowOwner(h)'
    BY <1>36 DEF TakeoverVM
<1>37. ASSUME NEW n \in Nodes, NEW w \in VMs, Contend(n, w) PROVE RowOwner(h)'
    BY <1>37 DEF Contend
<1>38. ASSUME NEW n \in Nodes, NEW w \in VMs, AssignVM(n, w) PROVE RowOwner(h)'
    BY <1>38 DEF AssignVM
<1>39. ASSUME NEW n \in Nodes, NEW w \in VMs, SendStart(n, w) PROVE RowOwner(h)'
    BY <1>39 DEF SendStart
<1>40. ASSUME NEW n \in Nodes, NEW w \in VMs, Connected(n, w) PROVE RowOwner(h)'
    BY <1>40 DEF Connected
<1>41. ASSUME NEW n \in Nodes, NEW w \in VMs, EndL7R(n, w) PROVE RowOwner(h)'
    BY <1>41 DEF EndL7R, Serves, EndsL7R
<1>42. ASSUME NEW n \in Nodes, NEW w \in VMs, NEW m \in Nodes, PickHost(n, w, m) PROVE RowOwner(h)'
    BY <1>42 DEF PickHost
<1>43. ASSUME NEW w \in VMs, AdminStop(w) PROVE RowOwner(h)'
    BY <1>43 DEF AdminStop
<1>44. CASE UNCHANGED vars
    BY <1>44 DEF vars
<1> QED
    BY <1>1, <1>2, <1>3, <1>4, <1>5, <1>6, <1>7, <1>8, <1>9, <1>10, <1>11, <1>12, <1>13, <1>14, <1>15, <1>16, <1>17, <1>18, <1>19, <1>20, <1>21, <1>22, <1>23, <1>24, <1>25, <1>26, <1>27, <1>28, <1>29, <1>30, <1>31, <1>32, <1>33, <1>34, <1>35, <1>36, <1>37, <1>38, <1>39, <1>40, <1>41, <1>42, <1>43, <1>44
    DEF Next, Ticker, HkdStarts, HkdStep, HkdStops, HandlerStep, MonitorStep,
        L7RStep, Environment

\* Nodes that have not been started have their leases.
LEMMA InitLease == Init => LeaseInv
  BY ConstantsAssumption
  DEF LeaseInv, Lease, Announced, Ticked, LeaseEnds, Init, TypeOK, HostStates, VMStates, Setup, Running, Stopping, HkdStates, Handled, HvStates, MonRunning, MonStates, Idle

\* They have nothing to stop.
LEMMA InitStop == Init => StopInv
  BY InitLease, ConstantsAssumption
  DEF StopInv, StopTimers, Draining, Handling, NoHandlers, RowOwner, Managed, Init, TypeOK, HostStates, VMStates, Setup, Running, Stopping, HkdStates, Handled, HvStates, MonRunning, MonStates, Idle

(***************************************************************************)
(* The theorems.                                                            *)
(***************************************************************************)
\* The types of the model are right for any number of nodes and VMs.
THEOREM TypeCorrect == Spec => []TypeOK
<1>1. Init => TypeOK
    BY InitLease DEF LeaseInv
<1>2. TypeOK /\ [Next]_vars => TypeOK'
    BY TypeStep
<1> QED
    BY <1>1, <1>2, PTL DEF Spec

\* If the lease of a node ends before others may give it up, HKD is never marked as
\* lost while it starts or runs, for any number of nodes and any faults.
THEOREM LeaseHolds == LeaseTiming => (Spec => []LiveNotLost)
<1> SUFFICES ASSUME LeaseTiming PROVE Spec => []LiveNotLost
    OBVIOUS
<1>1. Init => LeaseInv
    BY InitLease
<1>2. LeaseInv /\ [Next]_vars => LeaseInv'
  <2> SUFFICES ASSUME LeaseInv, [Next]_vars PROVE LeaseInv'
      OBVIOUS
  <2>1. TypeOK'
      BY TypeStep DEF LeaseInv
  <2>2. ASSUME NEW h \in Nodes PROVE Lease(h)' /\ Announced(h)'
      BY <2>1, LeaseStep
  <2> QED
      BY <2>1, <2>2 DEF LeaseInv
<1>3. LeaseInv => LiveNotLost
    BY DEF LeaseInv, Announced, LiveNotLost, Setup, Running
<1> QED
    BY <1>1, <1>2, <1>3, PTL DEF Spec

\* The second timing condition is the stronger one.
LEMMA StopImpliesLease == StopTiming => LeaseTiming
  BY ConstantsAssumption DEF StopTiming, LeaseTiming, StopEnds, LeaseEnds

\* The invariant that a node with containers of its own keeps its rows.
LEMMA StopInvariant == StopTiming => (Spec => []StopInv)
<1> SUFFICES ASSUME StopTiming PROVE Spec => []StopInv
    OBVIOUS
<1>1. Init => StopInv
    BY InitStop
<1>2. StopInv /\ [Next]_vars => StopInv'
  <2> SUFFICES ASSUME StopInv, [Next]_vars PROVE StopInv'
      OBVIOUS
  <2>1. TypeOK'
      BY TypeStep DEF StopInv, LeaseInv
  <2>2. ASSUME NEW h \in Nodes PROVE Lease(h)' /\ Announced(h)'
      BY <2>1, LeaseStep, StopImpliesLease DEF StopInv
  <2>3. ASSUME NEW h \in Nodes PROVE StopTimers(h)' /\ Draining(h)'
      BY <2>1, DrainStep
  <2>4. ASSUME NEW h \in Nodes PROVE RowOwner(h)'
      BY <2>1, OwnerStep
  <2> QED
      BY <2>1, <2>2, <2>3, <2>4 DEF StopInv, LeaseInv
<1> QED
    BY <1>1, <1>2, PTL DEF Spec

\* If a node has also stopped its containers by the time others may give it up, no VM
\* is ever under the control of two nodes.
THEOREM NoSplitBrain == StopTiming => (Spec => []OneNode)
<1> SUFFICES ASSUME StopTiming PROVE Spec => []OneNode
    OBVIOUS
<1>1. StopInv => OneNode
    BY DEF StopInv, RowOwner, OneNode
<1> QED
    BY <1>1, StopInvariant, PTL

\* Under the same condition a node that is marked as lost has no container left.
THEOREM LostIsEmpty == StopTiming => (Spec => []LostHasNoVM)
<1> SUFFICES ASSUME StopTiming PROVE Spec => []LostHasNoVM
    OBVIOUS
<1>1. StopInv => LostHasNoVM
    BY DEF StopInv, Draining, NoHandlers, Handled, Managed, LostHasNoVM
<1> QED
    BY <1>1, StopInvariant, PTL

\* A step that leaves the rows and the handlers alone, and takes no node past the search.
Unsearched ==
  /\ UNCHANGED <<vhost, vstate, hv>>
  /\ \A h \in Nodes : hkd'[h] \in Searched => hkd[h] \in Searched

\* Steps of the daemons, the monitors, the users and the links are such steps.
LEMMA UnsearchedSteps ==
  ASSUME TypeOK, NEW n \in Nodes,
         \/ Elapse \/ UNCHANGED vars
         \/ TickDone(n) \/ TickError(n) \/ Boot(n) \/ StartTicker(n) \/ CleanL7Rs(n)
         \/ StartAgents(n) \/ SaveRunning(n) \/ StopListeners(n) \/ StopAllVMs(n)
         \/ KillAllVMs(n) \/ StopAgents(n) \/ HkdStopped(n) \/ HkdError(n) \/ CmdStop(n)
         \/ MonWake(n) \/ KillHosts(n) \/ UnassignL7Rs(n) \/ AbortL7Rs(n) \/ NotifyHkds(n)
         \/ MonError(n) \/ LinkDown(n) \/ LinkUp(n)
         \/ \E w \in VMs : \/ TakeoverVM(n, w) \/ Contend(n, w) \/ SendStart(n, w)
                          \/ Connected(n, w) \/ EndL7R(n, w) \/ AdminStop(w)
                          \/ \E m \in Nodes : PickHost(n, w, m)
  PROVE  Unsearched
<1> USE DEF Unsearched, Searched, TypeOK, Goto, MonGoto, db, node, rows, vars
<1>1. CASE Elapse \/ UNCHANGED vars
    BY <1>1 DEF Elapse
<1>2. CASE TickDone(n) \/ Boot(n) \/ StartTicker(n) \/ CleanL7Rs(n) \/ StartAgents(n) \/ SaveRunning(n)
    BY <1>2 DEF TickDone, Boot, StartTicker, CleanL7Rs, StartAgents, SaveRunning
<1>3. CASE TickError(n) \/ HkdError(n) \/ CmdStop(n)
    BY <1>3 DEF TickError, HkdAfterError, HkdError, CmdStop
<1>4. CASE StopListeners(n) \/ StopAllVMs(n) \/ KillAllVMs(n) \/ StopAgents(n) \/ HkdStopped(n)
    BY <1>4 DEF StopListeners, StopAllVMs, KillAllVMs, StopAgents, HkdStopped
<1>5. CASE \/ MonWake(n) \/ KillHosts(n) \/ UnassignL7Rs(n) \/ AbortL7Rs(n) \/ NotifyHkds(n)
           \/ MonError(n) \/ LinkDown(n) \/ LinkUp(n)
    BY <1>5 DEF MonWake, KillHosts, UnassignL7Rs, AbortL7Rs, NotifyHkds, MonError, LinkDown, LinkUp
<1>6. CASE \E w \in VMs : \/ TakeoverVM(n, w) \/ Contend(n, w) \/ SendStart(n, w)
                         \/ Connected(n, w) \/ EndL7R(n, w) \/ AdminStop(w)
                         \/ \E m \in Nodes : PickHost(n, w, m)
    BY <1>6 DEF TakeoverVM, Contend, SendStart, Connected, EndL7R, AdminStop, PickHost
<1> QED
    BY <1>1, <1>2, <1>3, <1>4, <1>5, <1>6

\* Every step keeps the orphans known: it is the search that makes zombies of those
\* whose rows count on the node, and no later step gives one a row.
LEMMA OrphanStep ==
  ASSUME OrphanInv, NEW h \in Nodes, [Next]_vars
  PROVE  Orphans(h)'
<1>0. TypeOK /\ \A g \in Nodes : Orphans(g)
    BY DEF OrphanInv
<1>1. ASSUME Unsearched PROVE Orphans(h)'
    BY <1>0, <1>1 DEF Unsearched, Orphans
<1>2. ASSUME NEW n \in Nodes, CatchZombies(n) PROVE Orphans(h)'
    BY <1>0, <1>2 DEF CatchZombies, Orphans, Goto, TypeOK, db
<1>3. ASSUME NEW n \in Nodes, UnassignVMs(n) PROVE Orphans(h)'
    BY <1>0, <1>3 DEF UnassignVMs, Orphans, TypeOK
<1>4. ASSUME NEW n \in Nodes, PowerOff(n) \/ HkdCrash(n) PROVE Orphans(h)'
    BY <1>0, <1>4 DEF PowerOff, HkdCrash, Orphans, Searched, Goto, TypeOK, db
<1>5. ASSUME NEW n \in Nodes, NEW w \in VMs, AssignVM(n, w) PROVE Orphans(h)'
    BY <1>0, <1>5 DEF AssignVM, Orphans, node, TypeOK
<1>6. ASSUME NEW n \in Nodes, NEW w \in VMs, TakeStart(n, w) PROVE Orphans(h)'
    BY <1>0, <1>6 DEF TakeStart, Hv, Orphans, Handled, TypeOK
<1>7. ASSUME NEW n \in Nodes, NEW w \in VMs, TakeStop(n, w) PROVE Orphans(h)'
    BY <1>0, <1>7 DEF TakeStop, Hv, Orphans, TypeOK
<1>8. ASSUME NEW n \in Nodes, NEW w \in VMs, SaveUp(n, w) \/ StopVM(n, w) PROVE Orphans(h)'
    BY <1>0, <1>8 DEF SaveUp, StopVM, Hv, Orphans, TypeOK
<1>9. ASSUME NEW n \in Nodes, NEW w \in VMs, Launch(n, w) \/ ContainerGone(n, w) \/ GiveUpRow(n, w)
      PROVE  Orphans(h)'
  <2>1. UNCHANGED <<vhost, vstate, hkd>> /\ \E s \in {"launched", "clearing", "none"} : Hv(n, w, s)
      BY <1>9 DEF Launch, ContainerGone, GiveUpRow, db
  <2>2. \A v \in VMs : hv'[h][v] = "orphan" => hv[h][v] = "orphan"
      BY <1>0, <2>1 DEF Hv, TypeOK
  <2> QED
      BY <1>0, <2>1, <2>2 DEF Orphans
<1>10. ASSUME NEW n \in Nodes, NEW w \in VMs, ClearRow(n, w) PROVE Orphans(h)'
    BY <1>0, <1>10, ConstantsAssumption DEF ClearRow, Hv, Orphans, TypeOK
<1> QED
    BY <1>0, <1>1, <1>2, <1>3, <1>4, <1>5, <1>6, <1>7, <1>8, <1>9, <1>10, UnsearchedSteps
    DEF Next, Ticker, HkdStarts, HkdStep, HkdStops, HandlerStep, MonitorStep,
        L7RStep, Environment

\* Whatever the timing, the clocks and the faults, and however often HKD dies: a node
\* that takes commands has no container without a handler whose row counts on it.
THEOREM OrphansAlwaysCaught == Spec => []OrphanCaught
<1>1. Init => OrphanInv
    BY InitLease DEF LeaseInv, OrphanInv, Orphans, Init
<1>2. OrphanInv /\ [Next]_vars => OrphanInv'
    BY TypeStep, OrphanStep DEF OrphanInv
<1>3. OrphanInv => OrphanCaught
    BY DEF OrphanInv, Orphans, OrphanCaught, Searched, Running
<1> QED
    BY <1>1, <1>2, <1>3, PTL DEF Spec

=============================================================================
