-------------------------- MODULE LXCHandlerProofs --------------------------
(***************************************************************************)
(* Proofs about one QVD node, for any number of virtual machines and any   *)
(* combination of faults: type correctness, ContainerOwned, and that a     *)
(* stop of the daemon and the end of a container are not missed.           *)
(***************************************************************************)
EXTENDS LXCHandler, TLAPS

(***************************************************************************)
(* The inductive invariant.                                                *)
(***************************************************************************)
\* The substates whose handler still counts on the row of its VM.
Owning == States \ ({"none", "stopped", "stopping/db/cleared"} \cup ZombieDb)

\* The substates that are reached only without, or after the end of, the
\* processes of the container.
Bare == {"starting/db", "starting/os_fs", "starting/heavy", "stopping/os_fs",
         "stopping/cleanup/releasing_cpuset", "stopping/cleanup/unlinking_iface",
         "stopping/cleanup/removing_fw_rules", "stopping/cleanup/running_poststop_hook",
         "stopping/cleanup/destroying_lxc", "stopping/cleanup/configuring_dhcpd",
         "stopping/cleanup/configuring_usbip",
         "zombie/reap/releasing_cpuset", "zombie/reap/unlinking_iface",
         "zombie/reap/removing_fw_rules", "zombie/reap/destroying_lxc",
         "zombie/reap/unmounting_filesystems", "zombie/reap/unheavy",
         "zombie/reap/configuring_dhcpd", "zombie/reap/configuring_usbip"}
          \cup CleanOld \cup Setup \cup StoppingDb \cup ZombieDb

\* The states of HKD in which no handler has been told to stop.
Calm == {"catching", "running", "draining", "drained"}

Mine(v) == row[v].host /\ row[v].vm_state # "stopped"

RowOwned == \A v \in VMs \ disowned : st[v] \in Owning \/ v \in starts => Mine(v)

NoProcs == \A v \in VMs \ disowned :
    \/ st[v] \in Bare
    \/ fs[v] \in {"setup", "mounted"}
    \/ hkd \in Calm /\ st[v] \in {"none", "stopped"}
    => "procs" \notin res[v]

FsDone == \A v \in VMs : st[v] \in Setup \cup {"starting/heavy"} => fs[v] = "done"

KillsPending == \A v \in VMs :
    /\ hkd \in Calm => "hkd_kill" \notin pend[v]
    /\ st[v] = "none" => pend[v] = {}

StartsServed == hkd \notin {"running", "draining"} => starts = {}

DownEmpty == hkd = "down" => \A v \in VMs : st[v] = "none"

IInv == /\ TypeOK
        /\ ContainerOwned
        /\ RowOwned
        /\ NoProcs
        /\ FsDone
        /\ KillsPending
        /\ StartsServed
        /\ DownEmpty

(***************************************************************************)
(* Facts about the transition table.                                       *)
(***************************************************************************)
\* The table leads to substates only, whatever the event.
LEMMA TableTypes ==
    ASSUME NEW s \in States
    PROVE  /\ OnDone(s) \in States
           /\ OnError(s) \in States
           /\ StateAfter(OnHkdKill(s), s) \in States
           /\ StateAfter(OnHkdStop(s), s) \in States
           /\ \A e \in Events : StateAfter(Target(e, s), s) \in States
<1> USE DEF States, Starting, CleanOld, Setup, Running, Debugging, Stopping, Shutdown,
            Stop, Cleanup, StoppingDb, Zombie, ZombieConfig, Reap, ZombieDb
<1>1. OnDone(s) \in States
  BY DEF OnDone
<1>2. OnError(s) \in States
  BY DEF OnError
<1>3. StateAfter(OnHkdKill(s), s) \in States
  BY DEF StateAfter, OnHkdKill, Monitored
<1>4. StateAfter(OnHkdStop(s), s) \in States
  BY <1>3 DEF StateAfter, OnHkdStop
<1>5. StateAfter(OnCmdStop(s), s) \in States
  BY DEF StateAfter, OnCmdStop
<1>6. StateAfter(OnLxcDone(s), s) \in States
  BY DEF StateAfter, OnLxcDone, LxcAwaited, Monitored
<1>7. ASSUME NEW e \in Events PROVE StateAfter(Target(e, s), s) \in States
  <2> HIDE DEF States
  <2>1. Target(e, s) \in {OnHkdKill(s), OnCmdStop(s), OnLxcDone(s)}
    BY DEF Target, Events
  <2> QED BY <2>1, <1>3, <1>5, <1>6
<1> QED BY <1>1, <1>2, <1>3, <1>4, <1>7

\* The substates that the actions name are substates.
LEMMA NamedStates ==
    /\ {"none", "stopped", "starting/db", "running/saving_state", "running/expiring",
        "debugging/saving_state", "stopping/stop/saving_state",
        "stopping/cleanup/saving_state", "stopping/db", "stopping/db/cleared",
        "zombie/config/saving_state", "zombie/reap/saving_state",
        "zombie/reap/killing_lxc", "zombie/db/clearing_runtime_row",
        "zombie/db/cleared"} \subseteq States
    /\ SaveState \subseteq States
BY DEF States, Starting, CleanOld, Setup, Running, Debugging, Stopping, Shutdown,
       Stop, Cleanup, StoppingDb, Zombie, ZombieConfig, Reap, ZombieDb, SaveState

\* What _save_state writes is a vm_state other than stopped.
LEMMA SavedStates ==
    ASSUME NEW s \in SaveState
    PROVE  MainState(s) \in {"starting", "running", "debugging", "stopping", "zombie"}
BY DEF SaveState, MainState, Starting, CleanOld, Setup, Running, Debugging, Stopping,
       Shutdown, Stop, Cleanup, StoppingDb, Zombie, ZombieConfig, Reap, ZombieDb

\* A queue of delayed events stays a set of events.
LEMMA PendTypes ==
    ASSUME NEW e \in Events, NEW p \in SUBSET Events, NEW t
    PROVE  PendAfter(t, e, p) \in SUBSET Events
BY DEF PendAfter

(***************************************************************************)
(* Type correctness.                                                       *)
(***************************************************************************)
\* Every step of the node keeps the types.
LEMMA TypeStep == TypeOK /\ [Next]_vars => TypeOK'
<1> SUFFICES ASSUME TypeOK, [Next]_vars PROVE TypeOK'
  OBVIOUS
<1>1. ASSUME NEW v \in VMs,
             Enter(v) \/ heavy_down(v) \/ FsAgent(v) \/ Container(v) \/ Commands(v)
      PROVE  TypeOK'
  <2>1. CASE query(v)
    BY <2>1, TableTypes, NamedStates DEF TypeOK, query, Done, Fails, Goto, OnlySt
  <2>2. CASE save_state(v)
    <3>1. st' \in [VMs -> States]
      BY <2>2, TableTypes DEF TypeOK, save_state, Done, Fails, Goto
    <3>2. row' \in [VMs -> Rows]
      <4>1. st[v] \in SaveState => [row[v] EXCEPT !.vm_state = MainState(st[v])] \in
         Rows
        BY SavedStates DEF TypeOK, Rows
      <4> QED BY <4>1, <2>2 DEF TypeOK, save_state
    <3> QED BY <3>1, <3>2, <2>2 DEF TypeOK, save_state
  <2>3. CASE clear_runtime_row(v)
    <3>1. st' \in [VMs -> States]
      BY <2>3, TableTypes, NamedStates DEF TypeOK, clear_runtime_row, Fails, Goto
    <3>2. FreeRow \in Rows
      BY DEF FreeRow, Rows
    <3>3. row' \in [VMs -> Rows] /\ disowned' \subseteq VMs
      BY <3>2, <2>3 DEF TypeOK, clear_runtime_row
    <3> QED BY <3>1, <3>3, <2>3 DEF TypeOK, clear_runtime_row
  <2>4. CASE row_cleared(v)
    BY <2>4, TableTypes, NamedStates DEF TypeOK, row_cleared, Done, Fails, Goto,
       OnlySt
  <2>5. CASE heavy_up(v)
    BY <2>5, TableTypes, NamedStates DEF TypeOK, heavy_up, Done, Goto
  <2>6. CASE kill_lxc(v)
    BY <2>6, TableTypes, NamedStates, ConstantsAssumption DEF TypeOK, kill_lxc,
       Done, Goto
  <2>7. CASE unlink_iface(v)
    BY <2>7, TableTypes, NamedStates DEF TypeOK, unlink_iface, Done, Goto, OnlySt
  <2>8. CASE destroy_lxc(v)
    BY <2>8, TableTypes, NamedStates DEF TypeOK, destroy_lxc, Done, Goto, OnlySt
  <2>9. CASE stop_lxc(v)
    BY <2>9, TableTypes, NamedStates DEF TypeOK, stop_lxc, Done, Goto, OnlySt
  <2>10. CASE calculate_attrs(v)
    BY <2>10, TableTypes, NamedStates DEF TypeOK, calculate_attrs, Done, Goto,
       OnlySt
  <2>11. CASE check_lxc(v)
    BY <2>11, TableTypes, NamedStates DEF TypeOK, check_lxc, Goto, OnlySt
  <2>12. CASE check_dirty_flag(v)
    BY <2>12, TableTypes, NamedStates DEF TypeOK, check_dirty_flag, Done, Goto,
       OnlySt
  <2>13. CASE remove_fw_rules(v)
    BY <2>13, TableTypes, NamedStates DEF TypeOK, remove_fw_rules, Done, Fails,
       Goto, StAndRes
  <2>14. CASE unmount_filesystems(v)
    BY <2>14, TableTypes, NamedStates DEF TypeOK, unmount_filesystems, Done, Fails,
       Goto, StAndRes
  <2>15. CASE release_cpuset(v)
    BY <2>15, TableTypes, NamedStates DEF TypeOK, release_cpuset, Done, Goto,
       StAndRes
  <2>16. CASE rm_from_dhcpd(v)
    BY <2>16, TableTypes, NamedStates DEF TypeOK, rm_from_dhcpd, Done, Goto,
       StAndRes
  <2>17. CASE return_vhci_hub(v)
    <3>1. res[v] \in SUBSET (World \cup Memory)
      BY DEF TypeOK
    <3>2. \E R \in SUBSET (World \cup Memory) : res' = [res EXCEPT ![v] = R]
      <4>1. /\ res[v] \ {"vhci"} \in SUBSET (World \cup Memory)
            /\ res[v] \ {"stray"} \in SUBSET (World \cup Memory)
            /\ (res[v] \ {"vhci"}) \cup {"stray"} \in SUBSET (World \cup Memory)
        BY <3>1 DEF Memory
      <4> QED BY <2>17, <4>1 DEF return_vhci_hub
    <3>3. OnDone(st[v]) \in States
      BY TableTypes DEF TypeOK
    <3> QED BY <2>17, <3>2, <3>3 DEF TypeOK, return_vhci_hub, Done, Goto, StAndRes
  <2>18. CASE run_hook(v)
    BY <2>18, TableTypes, NamedStates DEF TypeOK, run_hook, Done, Fails, Goto,
       OnlySt
  <2>19. CASE allocate_home_fs(v)
    BY <2>19, TableTypes, NamedStates DEF TypeOK, allocate_home_fs, Done, Fails,
       Goto, OnlySt
  <2>20. CASE add_to_dhcpd(v)
    BY <2>20, TableTypes, NamedStates DEF TypeOK, add_to_dhcpd, Done, Goto,
       StAndRes, Memory
  <2>21. CASE request_vhci_hub(v)
    BY <2>21, TableTypes, NamedStates DEF TypeOK, request_vhci_hub, Done, Goto,
       StAndRes, Memory
  <2>22. CASE create_lxc(v)
    BY <2>22, TableTypes, NamedStates DEF TypeOK, create_lxc, Done, Fails, Goto,
       StAndRes, Memory
  <2>23. CASE set_fw_rules(v)
    BY <2>23, TableTypes, NamedStates DEF TypeOK, set_fw_rules, Done, Fails, Goto,
       StAndRes, World
  <2>24. CASE start_lxc(v)
    BY <2>24, TableTypes, NamedStates DEF TypeOK, start_lxc, Done, Goto, World
  <2>25. CASE shutdown(v)
    BY <2>25, TableTypes, NamedStates DEF TypeOK, shutdown, Done, Goto, OnlySt
  <2>26. CASE expire(v)
    BY <2>26, TableTypes, NamedStates DEF TypeOK, expire, Done, Goto, OnlySt
  <2>27. CASE state_timeout(v)
    BY <2>27, TableTypes, NamedStates DEF TypeOK, state_timeout, Goto, OnlySt
  <2>28. CASE on_stopped(v)
    BY <2>28, TableTypes, NamedStates, ConstantsAssumption DEF TypeOK, on_stopped,
       Goto, World
  <2>29. CASE start_os_fs(v)
    BY <2>29, TableTypes, NamedStates DEF TypeOK, start_os_fs
  <2>30. CASE delayed(v)
    <3>1. PICK e \in pend[v] :
               /\ Goto(v, StateAfter(Target(e, st[v]), st[v]))
               /\ pend' = [pend EXCEPT ![v] = @ \ {e}]
               /\ UNCHANGED <<hkd, holds, pid, kills, fs, res, row, starts,
                  disowned>>
      BY <2>30 DEF delayed
    <3>2. e \in Events
      BY DEF TypeOK
    <3> QED BY <3>1, <3>2, TableTypes DEF TypeOK, Goto
  <2>31. CASE heavy_down(v)
    BY <2>31, TableTypes, NamedStates DEF TypeOK, heavy_down, Done, Goto
  <2>32. CASE mount_root(v)
    BY <2>32, TableTypes, NamedStates DEF TypeOK, mount_root, World
  <2>33. CASE tell_running(v)
    BY <2>33, TableTypes, NamedStates DEF TypeOK, tell_running, Done, Goto
  <2>34. CASE tell_error(v)
    BY <2>34, TableTypes, NamedStates DEF TypeOK, tell_error, Fails, Goto
  <2>35. CASE lxc_done(v)
    BY <2>35, TableTypes, NamedStates, PendTypes DEF TypeOK, lxc_done, Receive,
       Goto, Events
  <2>36. CASE procs_exit(v)
    BY <2>36, TableTypes, NamedStates DEF TypeOK, procs_exit, handlerVars
  <2>37. CASE vma_alive(v)
    BY <2>37, TableTypes, NamedStates DEF TypeOK, vma_alive, Goto, OnlySt
  <2>38. CASE vma_failed(v)
    BY <2>38, TableTypes, NamedStates DEF TypeOK, vma_failed, Goto, OnlySt
  <2>39. CASE expired_soft(v)
    BY <2>39, TableTypes, NamedStates DEF TypeOK, expired_soft, Goto, OnlySt
  <2>40. CASE expired_hard(v)
    BY <2>40, TableTypes, NamedStates, PendTypes DEF TypeOK, expired_hard, Receive,
       Goto, Events
  <2>41. CASE set_host_id(v)
    BY <2>41, TableTypes, NamedStates DEF TypeOK, set_host_id, Rows, handlerVars
  <2>42. CASE send_vm_cmd(v)
    <3>1. \A c \in {"start", "stop"} : [row[v] EXCEPT !.vm_cmd = c] \in Rows
      BY DEF TypeOK, Rows
    <3> QED BY <3>1, <2>42 DEF TypeOK, send_vm_cmd, handlerVars
  <2>48. CASE withdraw_vm_cmd(v)
    BY <2>48 DEF TypeOK, withdraw_vm_cmd, Rows, handlerVars
  <2>43. CASE load_start_cmds(v)
    BY <2>43, TableTypes, NamedStates DEF TypeOK, load_start_cmds, Rows, handlerVars
  <2>44. CASE on_start_cmd(v)
    BY <2>44, TableTypes, NamedStates DEF TypeOK, on_start_cmd
  <2>45. CASE lose_start_cmd(v)
    BY <2>45, TableTypes, NamedStates DEF TypeOK, lose_start_cmd, handlerVars
  <2>46. CASE on_stop_cmd(v)
    BY <2>46, TableTypes, NamedStates, PendTypes DEF TypeOK, on_stop_cmd, Receive,
       Goto, Rows, Events
  <2>47. CASE unassign_vms(v)
    BY <2>47, TableTypes, NamedStates DEF TypeOK, unassign_vms, Rows, handlerVars
  <2> QED BY <1>1, <2>1, <2>2, <2>3, <2>4, <2>5, <2>6, <2>7, <2>8, <2>9, <2>10,
     <2>11, <2>12, <2>13, <2>14, <2>15, <2>16, <2>17, <2>18, <2>19, <2>20, <2>21,
     <2>22, <2>23, <2>24, <2>25, <2>26, <2>27, <2>28, <2>29, <2>30, <2>31, <2>32,
     <2>33, <2>34, <2>35, <2>36, <2>37, <2>38, <2>39, <2>40, <2>41, <2>42, <2>43,
     <2>44, <2>45, <2>46, <2>47, <2>48
          DEF Enter, FsAgent, Container, Commands
<1>2. CASE Daemon
  <2>1. CASE catch_zombie_vms
    BY <2>1, TableTypes, NamedStates DEF TypeOK, catch_zombie_vms
  <2>2. CASE hkd_running
    BY <2>2, TableTypes, NamedStates DEF TypeOK, hkd_running, handlerVars
  <2>3. CASE hkd_stop
    BY <2>3, TableTypes, NamedStates DEF TypeOK, hkd_stop, handlerVars
  <2>4. CASE vm_command_handler_stopped
    BY <2>4, TableTypes, NamedStates DEF TypeOK, vm_command_handler_stopped,
       handlerVars
  <2>5. CASE stop_all_vms
    BY <2>5, TableTypes, NamedStates, PendTypes DEF TypeOK, stop_all_vms, ToAll,
       Events
  <2>6. CASE kill_all_vms
    BY <2>6, TableTypes, NamedStates, PendTypes DEF TypeOK, kill_all_vms, ToAll,
       Events
  <2>7. CASE hkd_exit
    BY <2>7, TableTypes, NamedStates DEF TypeOK, hkd_exit, handlerVars
  <2>8. CASE hkd_crash
    BY <2>8, TableTypes, NamedStates, ConstantsAssumption DEF TypeOK, hkd_crash,
       World
  <2> QED BY <1>2, <2>1, <2>2, <2>3, <2>4, <2>5, <2>6, <2>7, <2>8 DEF Daemon
<1>3. CASE UNCHANGED vars
  BY <1>3 DEF TypeOK, vars, handlerVars
<1> QED BY <1>1, <1>2, <1>3 DEF Next

\* Type correctness: the state of HKD, of its handlers and of the rows they
\* share with L7R and the API keeps the values that the code gives it.
THEOREM TypeCorrect == Spec => []TypeOK
<1>1. Init => TypeOK
  BY NamedStates, ConstantsAssumption DEF Init, TypeOK, Rows, FreeRow
<1> QED BY <1>1, TypeStep, PTL DEF Spec

(***************************************************************************)
(* Steps that leave every fact of the invariant as it was.                 *)
(***************************************************************************)
\* A handler may go from s to t without having to establish anything, save
\* that there are no processes when it ends.
Proceeds(s, t) ==
    /\ t \in Owning => s \in Owning
    /\ t \in Bare => s \in Bare
    /\ t \in Setup \cup {"starting/heavy"} => s \in Setup \cup {"starting/heavy"}
    /\ t = "none" <=> s = "none"

\* ... without having to establish anything.
Follows(s, t) ==
    /\ Proceeds(s, t)
    /\ t \in {"none", "stopped"} => s \in Bare \cup {"none", "stopped"}

\* Errors, and the events other than on_hkd_kill, lead to substates that follow
\* the current one; so does the end of an enter method, save in the substates
\* that wait for processes to end, for the mount of the root file system or
\* for a timer.
LEMMA TableFollows ==
    ASSUME NEW s \in States
    PROVE  /\ s \notin KillLxc \cup {"starting/os_fs", "zombie/reap/delaying"}
                  => Follows(s, OnDone(s))
           /\ Follows(s, OnError(s))
           /\ Follows(s, StateAfter(OnCmdStop(s), s))
           /\ Follows(s, StateAfter(OnLxcDone(s), s))
<1> USE DEF States, Starting, CleanOld, Setup, Running, Debugging, Stopping, Shutdown,
            Stop, Cleanup, StoppingDb, Zombie, ZombieConfig, Reap, ZombieDb,
            Owning, Bare, Proceeds, Follows
<1>1. ASSUME s \notin KillLxc \cup {"starting/os_fs", "zombie/reap/delaying"}
      PROVE  Follows(s, OnDone(s))
  <2>1. OnDone(s) \in Owning => s \in Owning
    BY DEF OnDone
  <2>2. OnDone(s) \in Bare => s \in Bare
    BY <1>1 DEF OnDone, KillLxc
  <2>3. OnDone(s) \in {"none", "stopped"} => s \in Bare \cup {"none", "stopped"}
    BY DEF OnDone, KillLxc
  <2>4. OnDone(s) \in Setup \cup {"starting/heavy"} => s \in Setup \cup {"starting/heavy"}
    BY <1>1 DEF OnDone, KillLxc
  <2>5. OnDone(s) = "none" <=> s = "none"
    BY DEF OnDone, KillLxc
  <2> HIDE DEF States, Owning, Bare, Setup
  <2> QED BY <2>1, <2>2, <2>3, <2>4, <2>5
<1>2. Follows(s, OnError(s))
  <2>1. OnError(s) \in Owning => s \in Owning
    BY DEF OnError
  <2>2. OnError(s) \in Bare => s \in Bare
    BY DEF OnError
  <2>3. OnError(s) \in {"none", "stopped"} => s \in Bare \cup {"none", "stopped"}
    BY DEF OnError
  <2>4. OnError(s) \in Setup \cup {"starting/heavy"} => s \in Setup \cup {"starting/heavy"}
    BY DEF OnError
  <2>5. OnError(s) = "none" <=> s = "none"
    BY DEF OnError
  <2> HIDE DEF States, Owning, Bare, Setup
  <2> QED BY <2>1, <2>2, <2>3, <2>4, <2>5
<1>3. Follows(s, StateAfter(OnCmdStop(s), s))
  BY DEF StateAfter, OnCmdStop
<1>4. Follows(s, StateAfter(OnLxcDone(s), s))
  BY DEF StateAfter, OnLxcDone, LxcAwaited, Monitored
<1> QED BY <1>1, <1>2, <1>3, <1>4

\* The substates that the actions name follow those they are reached from.
LEMMA NamedFollows ==
    /\ Follows("starting/waiting_for_vma", "running/saving_state")
    /\ Follows("debugging/monitoring", "running/saving_state")
    /\ \A s \in {"starting/waiting_for_vma", "running/monitoring"} :
          /\ Follows(s, "debugging/saving_state")
          /\ Follows(s, "stopping/stop/saving_state")
    /\ Follows("running/monitoring", "running/expiring")
    /\ Follows("stopping/shutdown/waiting_for_lxc", "stopping/stop/saving_state")
    /\ Follows("stopping/stop/waiting_for_lxc", "stopping/cleanup/saving_state")
    /\ Follows("zombie/reap/waiting_for_lxc", "zombie/reap/killing_lxc")
    /\ Follows("zombie/reap/delaying", "zombie/reap/saving_state")
    /\ Follows("zombie/db/delaying", "zombie/db/clearing_runtime_row")
BY DEF States, Starting, CleanOld, Setup, Running, Debugging, Stopping, Shutdown,
       Stop, Cleanup, StoppingDb, Zombie, ZombieConfig, Reap, ZombieDb,
       Owning, Bare, Proceeds, Follows

\* on_hkd_kill never leads into a substate that owns the row or that knows the
\* processes gone, unless the handler was in such a substate.
LEMMA KillProceeds ==
    ASSUME NEW s \in States
    PROVE  /\ Proceeds(s, StateAfter(OnHkdKill(s), s))
           /\ Proceeds(s, StateAfter(OnHkdStop(s), s))
<1>1. Proceeds(s, StateAfter(OnHkdKill(s), s))
  BY DEF StateAfter, OnHkdKill, Monitored, States, Starting, CleanOld, Setup,
       Running, Debugging, Stopping, Shutdown, Stop, Cleanup, StoppingDb, Zombie,
       ZombieConfig, Reap, ZombieDb, Owning, Bare, Proceeds
<1>2. Proceeds(s, s)
  BY DEF Proceeds
<1> QED BY <1>1, <1>2 DEF OnHkdStop, StateAfter

\* A step in which v's handler follows its path, nobody loses its row and no
\* process is born.
QuietStep(v) ==
    /\ UNCHANGED <<hkd, fs, starts, disowned>>
    /\ \A w \in VMs \ {v} : st'[w] = st[w]
    /\ Follows(st[v], st'[v])
    /\ \A w \in VMs :
          /\ Mine(w) => Mine(w)'
          /\ "procs" \in res'[w] => "procs" \in res[w]
          /\ pend'[w] \subseteq pend[w] \cup {"cmd_stop", "lxc_done"}
          /\ st[w] = "none" => pend'[w] = pend[w]

\* Such a step keeps the invariant.
LEMMA QuietKeeps ==
    ASSUME IInv, TypeOK', NEW v \in VMs, QuietStep(v)
    PROVE  IInv'
<1>1. ContainerOwned'
  BY DEF IInv, QuietStep, ContainerOwned, Mine
<1>2. RowOwned'
  BY DEF IInv, QuietStep, RowOwned, Follows, Proceeds
<1>3. NoProcs'
  BY DEF IInv, QuietStep, NoProcs, Follows, Proceeds
<1>4. FsDone'
  BY DEF IInv, QuietStep, FsDone, Follows, Proceeds
<1>5. KillsPending'
  BY DEF IInv, QuietStep, KillsPending, Follows, Proceeds
<1>6. StartsServed' /\ DownEmpty'
  BY DEF IInv, QuietStep, StartsServed, DownEmpty, Follows, Proceeds
<1> QED BY <1>1, <1>2, <1>3, <1>4, <1>5, <1>6 DEF IInv

(***************************************************************************)
(* The actions that are such steps.                                        *)
(***************************************************************************)
Quiet(v) ==
    \/ query(v) \/ row_cleared(v) \/ heavy_up(v) \/ unlink_iface(v)
    \/ destroy_lxc(v) \/ stop_lxc(v) \/ calculate_attrs(v) \/ check_lxc(v)
    \/ check_dirty_flag(v) \/ remove_fw_rules(v) \/ unmount_filesystems(v)
    \/ release_cpuset(v) \/ rm_from_dhcpd(v) \/ return_vhci_hub(v)
    \/ run_hook(v) \/ allocate_home_fs(v) \/ add_to_dhcpd(v)
    \/ request_vhci_hub(v) \/ create_lxc(v) \/ set_fw_rules(v) \/ shutdown(v)
    \/ expire(v) \/ state_timeout(v) \/ heavy_down(v) \/ vma_alive(v)
    \/ vma_failed(v) \/ expired_soft(v) \/ save_state(v) \/ lxc_done(v)
    \/ expired_hard(v) \/ on_stop_cmd(v) \/ procs_exit(v) \/ set_host_id(v)
    \/ send_vm_cmd(v) \/ withdraw_vm_cmd(v)

\* A handler that goes to a substate that follows, while the row and the events
\* are left alone and no process is born, takes a quiet step.
LEMMA QuietGoto ==
    ASSUME TypeOK, NEW v \in VMs, NEW t, Goto(v, t), Follows(st[v], t),
           UNCHANGED <<hkd, pend, fs, row, starts, disowned>>,
           \/ UNCHANGED res
           \/ \E X : "procs" \notin X /\ res' = [res EXCEPT ![v] = @ \cup X]
           \/ \E X : res' = [res EXCEPT ![v] = @ \ X]
           \/ \E X, Y : "procs" \notin Y /\ res' = [res EXCEPT ![v] = (@ \ X) \cup Y]
    PROVE  QuietStep(v)
<1>1. \A w \in VMs : "procs" \in res'[w] => "procs" \in res[w]
  BY DEF TypeOK
<1> QED BY <1>1 DEF TypeOK, Goto, QuietStep, Mine

\* The enter methods other than those of the file system agent, the events of
\* the container and the commands are quiet.
LEMMA QuietActions ==
    ASSUME TypeOK, NEW v \in VMs, Quiet(v)
    PROVE  QuietStep(v)
<1>1. ASSUME query(v) PROVE QuietStep(v)
  BY <1>1, QuietGoto, TableFollows DEF TypeOK, query, Done, Fails, OnlySt, KillLxc
<1>2. ASSUME row_cleared(v) PROVE QuietStep(v)
  BY <1>2, QuietGoto, TableFollows DEF TypeOK, row_cleared, Done, Fails, OnlySt,
     Cleared, KillLxc
<1>3. ASSUME heavy_up(v) PROVE QuietStep(v)
  BY <1>3, QuietGoto, TableFollows DEF TypeOK, heavy_up, Done, HeavyUp, KillLxc
<1>4. ASSUME unlink_iface(v) PROVE QuietStep(v)
  BY <1>4, QuietGoto, TableFollows DEF TypeOK, unlink_iface, Done, OnlySt,
     UnlinkIface, KillLxc
<1>5. ASSUME destroy_lxc(v) PROVE QuietStep(v)
  BY <1>5, QuietGoto, TableFollows DEF TypeOK, destroy_lxc, Done, OnlySt,
     DestroyLxc, KillLxc
<1>6. ASSUME stop_lxc(v) PROVE QuietStep(v)
  BY <1>6, QuietGoto, TableFollows DEF TypeOK, stop_lxc, Done, OnlySt, StopLxc,
     KillLxc
<1>7. ASSUME calculate_attrs(v) PROVE QuietStep(v)
  BY <1>7, QuietGoto, TableFollows DEF TypeOK, calculate_attrs, Done, OnlySt,
     KillLxc
<1>8. ASSUME check_lxc(v) PROVE QuietStep(v)
  BY <1>8, QuietGoto, TableFollows DEF TypeOK, check_lxc, OnlySt, KillLxc
<1>9. ASSUME check_dirty_flag(v) PROVE QuietStep(v)
  BY <1>9, QuietGoto, TableFollows DEF TypeOK, check_dirty_flag, Done, OnlySt,
     CheckDirtyFlag, KillLxc
<1>10. ASSUME remove_fw_rules(v) PROVE QuietStep(v)
  BY <1>10, QuietGoto, TableFollows DEF TypeOK, remove_fw_rules, Done, Fails,
     StAndRes, RemoveFwRules, KillLxc
<1>11. ASSUME unmount_filesystems(v) PROVE QuietStep(v)
  BY <1>11, QuietGoto, TableFollows DEF TypeOK, unmount_filesystems, Done, Fails,
     StAndRes, UnmountFilesystems, KillLxc
<1>12. ASSUME release_cpuset(v) PROVE QuietStep(v)
  BY <1>12, QuietGoto, TableFollows DEF TypeOK, release_cpuset, Done, StAndRes,
     ReleaseCpuset, KillLxc
<1>13. ASSUME rm_from_dhcpd(v) PROVE QuietStep(v)
  BY <1>13, QuietGoto, TableFollows DEF TypeOK, rm_from_dhcpd, Done, StAndRes,
     RmFromDhcpd, KillLxc
<1>14. ASSUME return_vhci_hub(v) PROVE QuietStep(v)
  <2>1. /\ Goto(v, OnDone(st[v])) /\ Follows(st[v], OnDone(st[v]))
        /\ UNCHANGED <<hkd, pend, fs, row, starts, disowned>>
    BY <1>14, TableFollows DEF TypeOK, return_vhci_hub, Done, StAndRes, ReturnVhciHub,
       KillLxc
  <2>2. \/ \E X : res' = [res EXCEPT ![v] = @ \ X]
        \/ \E X, Y : "procs" \notin Y /\ res' = [res EXCEPT ![v] = (@ \ X) \cup Y]
    <3>1. CASE res' = [res EXCEPT ![v] = (@ \ {"vhci"}) \cup {"stray"}]
      <4>1. "procs" \notin {"stray"}
        OBVIOUS
      <4> QED BY <3>1, <4>1
    <3> QED BY <3>1, <1>14 DEF return_vhci_hub
  <2> QED BY <2>1, <2>2, QuietGoto
<1>15. ASSUME run_hook(v) PROVE QuietStep(v)
  BY <1>15, QuietGoto, TableFollows DEF TypeOK, run_hook, Done, Fails, OnlySt,
     RunHook, KillLxc
<1>16. ASSUME allocate_home_fs(v) PROVE QuietStep(v)
  BY <1>16, QuietGoto, TableFollows DEF TypeOK, allocate_home_fs, Done, Fails,
     OnlySt, KillLxc
<1>17. ASSUME add_to_dhcpd(v) PROVE QuietStep(v)
  BY <1>17, QuietGoto, TableFollows DEF TypeOK, add_to_dhcpd, Done, StAndRes,
     KillLxc
<1>18. ASSUME request_vhci_hub(v) PROVE QuietStep(v)
  BY <1>18, QuietGoto, TableFollows DEF TypeOK, request_vhci_hub, Done, StAndRes,
     KillLxc
<1>19. ASSUME create_lxc(v) PROVE QuietStep(v)
  BY <1>19, QuietGoto, TableFollows DEF TypeOK, create_lxc, Done, Fails, StAndRes,
     KillLxc
<1>20. ASSUME set_fw_rules(v) PROVE QuietStep(v)
  BY <1>20, QuietGoto, TableFollows DEF TypeOK, set_fw_rules, Done, Fails, StAndRes,
     KillLxc
<1>21. ASSUME shutdown(v) PROVE QuietStep(v)
  BY <1>21, QuietGoto, TableFollows DEF TypeOK, shutdown, Done, OnlySt, KillLxc
<1>22. ASSUME expire(v) PROVE QuietStep(v)
  BY <1>22, QuietGoto, TableFollows DEF TypeOK, expire, Done, OnlySt, KillLxc
<1>23. ASSUME state_timeout(v) PROVE QuietStep(v)
  BY <1>23, QuietGoto, NamedFollows DEF TypeOK, state_timeout, OnlySt
<1>24. ASSUME heavy_down(v) PROVE QuietStep(v)
  BY <1>24, QuietGoto, TableFollows DEF TypeOK, heavy_down, Done, HeavyDown, KillLxc
<1>25. ASSUME vma_alive(v) PROVE QuietStep(v)
  BY <1>25, QuietGoto, NamedFollows DEF TypeOK, vma_alive, OnlySt
<1>26. ASSUME vma_failed(v) PROVE QuietStep(v)
  BY <1>26, QuietGoto, NamedFollows DEF TypeOK, vma_failed, OnlySt
<1>27. ASSUME expired_soft(v) PROVE QuietStep(v)
  BY <1>27, QuietGoto, NamedFollows DEF TypeOK, expired_soft, OnlySt
<1>28. ASSUME save_state(v) PROVE QuietStep(v)
  <2>1. PICK t \in {OnDone(st[v]), OnError(st[v])} : Goto(v, t)
    BY <1>28 DEF save_state, Done, Fails
  <2>2. Follows(st[v], t)
    BY <1>28, <2>1, TableFollows DEF TypeOK, save_state, SaveState, KillLxc
  <2>3. ASSUME NEW w \in VMs, Mine(w) PROVE Mine(w)'
    <3>1. row[v] \in Rows /\ row[w] \in Rows
      BY DEF TypeOK
    <3>2. MainState(st[v]) # "stopped"
      BY <1>28, SavedStates DEF save_state
    <3> QED BY <1>28, <2>3, <3>1, <3>2 DEF TypeOK, save_state, Mine, Rows
  <2> QED BY <1>28, <2>1, <2>2, <2>3 DEF TypeOK, save_state, Goto, QuietStep
<1>29. ASSUME NEW e \in {"cmd_stop", "lxc_done"}, Receive(v, e),
             UNCHANGED <<hkd, fs, starts, disowned>>,
             \A w \in VMs : /\ Mine(w) => Mine(w)'
                            /\ "procs" \in res'[w] => "procs" \in res[w]
      PROVE  QuietStep(v)
  <2>1. Follows(st[v], StateAfter(Target(e, st[v]), st[v]))
    BY TableFollows DEF TypeOK, Target
  <2>2. st[v] = "none" => Target(e, st[v]) = "ignore"
    BY DEF Target, OnCmdStop, OnLxcDone, LxcAwaited, Monitored, Running, Debugging,
       Stopping, Shutdown, Stop, Cleanup, StoppingDb, Zombie, ZombieConfig, Reap, ZombieDb
  <2>3. st'[v] = StateAfter(Target(e, st[v]), st[v]) /\ \A w \in VMs \ {v} : st'[w] = st[w]
    BY <1>29 DEF TypeOK, Receive, Goto
  <2>4. ASSUME NEW w \in VMs
        PROVE  /\ pend'[w] \subseteq pend[w] \cup {"cmd_stop", "lxc_done"}
               /\ st[w] = "none" => pend'[w] = pend[w]
    BY <1>29, <2>2 DEF TypeOK, Receive, PendAfter
  <2>5. Follows(st[v], st'[v])
    BY <2>1, <2>3
  <2>6. UNCHANGED <<hkd, fs, starts, disowned>> /\ \A w \in VMs \ {v} : st'[w] = st[w]
    BY <1>29, <2>3
  <2>7. ASSUME NEW w \in VMs
        PROVE  /\ Mine(w) => Mine(w)'
               /\ "procs" \in res'[w] => "procs" \in res[w]
    BY <1>29 DEF Mine
  <2> QED BY <2>4, <2>5, <2>6, <2>7 DEF QuietStep
<1>30. ASSUME lxc_done(v) PROVE QuietStep(v)
  <2>1. \A w \in VMs : "procs" \in res'[w] => "procs" \in res[w]
    BY <1>30 DEF TypeOK, lxc_done
  <2> QED BY <1>29, <1>30, <2>1 DEF lxc_done, Mine
<1>31. ASSUME expired_hard(v) PROVE QuietStep(v)
  BY <1>29, <1>31 DEF expired_hard, Mine
<1>32. ASSUME on_stop_cmd(v) PROVE QuietStep(v)
  <2>1. \A w \in VMs : Mine(w) => Mine(w)'
    BY <1>32 DEF TypeOK, on_stop_cmd, Mine, Rows
  <2> QED BY <1>29, <1>32, <2>1 DEF on_stop_cmd
<1>33. ASSUME procs_exit(v) PROVE QuietStep(v)
  BY <1>33 DEF TypeOK, procs_exit, handlerVars, QuietStep, Mine, Follows, Proceeds
<1>34. ASSUME set_host_id(v) \/ send_vm_cmd(v) \/ withdraw_vm_cmd(v) PROVE QuietStep(v)
  <2>1. \A w \in VMs : Mine(w) => Mine(w)'
    <3>1. CASE set_host_id(v)
      BY <3>1 DEF TypeOK, set_host_id, Mine, Rows
    <3>2. CASE \E c \in {"none", "start", "stop"} : row' = [row EXCEPT ![v].vm_cmd = c]
      BY <3>2 DEF TypeOK, Mine, Rows
    <3> QED BY <1>34, <3>1, <3>2 DEF send_vm_cmd, withdraw_vm_cmd
  <2> QED BY <1>34, <2>1
        DEF set_host_id, send_vm_cmd, withdraw_vm_cmd, handlerVars, QuietStep, Follows, Proceeds
<1> QED
  BY <1>1, <1>2, <1>3, <1>4, <1>5, <1>6, <1>7, <1>8, <1>9, <1>10, <1>11, <1>12,
     <1>13, <1>14, <1>15, <1>16, <1>17, <1>18, <1>19, <1>20, <1>21, <1>22, <1>23,
     <1>24, <1>25, <1>26, <1>27, <1>28, <1>30, <1>31, <1>32, <1>33, <1>34 DEF Quiet

(***************************************************************************)
(* The other actions.                                                      *)
(***************************************************************************)
\* The end of an enter method never brings a row back to a handler that has
\* given it up, and ends no handler by itself; killing_lxc is left for a
\* substate without processes.
LEMMA TableDone ==
    ASSUME NEW s \in States
    PROVE  /\ OnDone(s) \in Owning => s \in Owning
           /\ OnDone(s) = "none" <=> s = "none"
           /\ s \in KillLxc => OnDone(s) \notin Setup \cup {"starting/heavy", "stopped"}
           /\ OnDone("starting/setup/launching") = "starting/waiting_for_vma"
<1> USE DEF States, Starting, CleanOld, Setup, Running, Debugging, Stopping, Shutdown,
            Stop, Cleanup, StoppingDb, Zombie, ZombieConfig, Reap, ZombieDb
<1>1. OnDone(s) \in Owning => s \in Owning
  BY DEF OnDone, Owning
<1>2. OnDone(s) = "none" <=> s = "none"
  BY DEF OnDone
<1>3. s \in KillLxc => OnDone(s) \notin Setup \cup {"starting/heavy", "stopped"}
  BY DEF OnDone, KillLxc
<1>4. OnDone("starting/setup/launching") = "starting/waiting_for_vma"
  BY DEF OnDone
<1> QED BY <1>1, <1>2, <1>3, <1>4

\* Which of the facts of the invariant hold in the substates that the actions
\* name.
LEMMA NamedFacts ==
    /\ {"starting/db", "stopping/db", "stopping/db/cleared", "starting/os_fs",
        "starting/setup/launching", "zombie/db/clearing_runtime_row",
        "zombie/db/cleared"} \subseteq Bare
    /\ {"none", "stopped", "stopping/db/cleared", "zombie/db/cleared"} \cap Owning = {}
    /\ {"none", "stopped", "starting/waiting_for_vma", "zombie/config/saving_state"}
           \cap Bare = {}
    /\ {"none", "stopped", "starting/db", "stopping/db", "stopping/db/cleared",
        "zombie/db/cleared", "starting/waiting_for_vma", "starting/os_fs",
        "zombie/config/saving_state"} \cap (Setup \cup {"starting/heavy"}) = {}
    /\ "starting/setup/launching" \in Setup \cap Owning
    /\ "zombie/config/saving_state" \in Owning
BY DEF States, Starting, CleanOld, Setup, Running, Debugging, Stopping, Shutdown,
       Stop, Cleanup, StoppingDb, Zombie, ZombieConfig, Reap, ZombieDb, Owning, Bare

\* The actions of a handler that have something to establish.
LEMMA HandlerKeeps ==
    ASSUME IInv, TypeOK', NEW v \in VMs,
           \/ clear_runtime_row(v) \/ kill_lxc(v) \/ start_lxc(v) \/ on_stopped(v)
           \/ start_os_fs(v) \/ mount_root(v) \/ tell_running(v) \/ tell_error(v)
           \/ delayed(v)
    PROVE  IInv'
<1> USE DEF IInv
<1>1. CASE clear_runtime_row(v)
  <2>1. st[v] \in Bare
    BY <1>1, NamedFacts DEF clear_runtime_row, ClearRuntimeRow
  <2>2. CASE Fails(v, "query") /\ UNCHANGED <<row, disowned>>
    <3>1. Follows(st[v], OnError(st[v]))
      BY TableFollows DEF TypeOK
    <3>2. QuietStep(v)
      BY <1>1, <2>2, <3>1, QuietGoto DEF clear_runtime_row, Fails
    <3> QED BY <3>2, QuietKeeps
  <2>3. CASE /\ row' = IF row[v].host THEN [row EXCEPT ![v] = FreeRow] ELSE row
             /\ disowned' = IF row[v].host /\ v \in starts
                            THEN disowned \cup {v} ELSE disowned
             /\ Goto(v, IF st[v] = "stopping/db" THEN "stopping/db/cleared"
                                                 ELSE "zombie/db/cleared")
    <3>1. /\ st'[v] \in {"stopping/db/cleared", "zombie/db/cleared"}
          /\ \A w \in VMs \ {v} : st'[w] = st[w] /\ row'[w] = row[w]
          /\ disowned \subseteq disowned' /\ disowned' \subseteq disowned \cup {v}
          /\ UNCHANGED <<hkd, pend, fs, res, starts>>
      BY <1>1, <2>3 DEF TypeOK, clear_runtime_row, Goto
    <3>2. /\ st'[v] \in Bare \ Owning
          /\ st'[v] \notin Setup \cup {"starting/heavy", "none", "stopped"}
          /\ st[v] # "none"
      BY <1>1, <3>1, NamedFacts DEF clear_runtime_row, ClearRuntimeRow
    <3>3. ContainerOwned'
      BY <2>1, <3>1 DEF ContainerOwned, NoProcs
    <3>4. v \notin disowned' => v \notin starts
      BY <2>3 DEF RowOwned, Mine
    <3>5. RowOwned'
      BY <3>1, <3>2, <3>4 DEF RowOwned, Mine
    <3>6. NoProcs'
      BY <2>1, <3>1, <3>2 DEF NoProcs
    <3>7. FsDone' /\ KillsPending' /\ StartsServed' /\ DownEmpty'
      BY <3>1, <3>2 DEF FsDone, KillsPending, StartsServed, DownEmpty
    <3> QED BY <3>3, <3>5, <3>6, <3>7
  <2> QED BY <1>1, <2>2, <2>3 DEF clear_runtime_row
<1>2. CASE kill_lxc(v)
  <2>1. CASE ~Pids(v) /\ Done(v) /\ UNCHANGED <<kills, res>>
    <3>1. /\ st[v] \in KillLxc
          /\ "procs" \notin res[v]
          /\ st'[v] = OnDone(st[v])
          /\ \A w \in VMs \ {v} : st'[w] = st[w]
          /\ UNCHANGED <<hkd, pend, fs, res, row, starts, disowned>>
      BY <1>2, <2>1 DEF TypeOK, kill_lxc, Done, Goto, Pids
    <3>2. /\ st'[v] \in Owning => st[v] \in Owning
          /\ st'[v] = "none" <=> st[v] = "none"
          /\ st'[v] \notin Setup \cup {"starting/heavy", "stopped"}
      BY <3>1, TableDone DEF TypeOK
    <3>3. ContainerOwned' /\ RowOwned'
      BY <3>1, <3>2 DEF ContainerOwned, RowOwned, Mine
    <3>4. NoProcs'
      BY <3>1, <3>2 DEF NoProcs
    <3>5. FsDone' /\ KillsPending' /\ StartsServed' /\ DownEmpty'
      BY <3>1, <3>2 DEF FsDone, KillsPending, StartsServed, DownEmpty
    <3> QED BY <3>3, <3>4, <3>5
  <2>2. CASE Goto(v, OnError(st[v])) /\ UNCHANGED <<kills, res>>
    <3>1. Follows(st[v], OnError(st[v]))
      BY TableFollows DEF TypeOK
    <3>2. QuietStep(v)
      BY <1>2, <2>2, <3>1, QuietGoto DEF kill_lxc
    <3> QED BY <3>2, QuietKeeps
  <2>3. CASE st' = st /\ (res' = res \/ res' = [res EXCEPT ![v] = @ \ {"procs"}])
    <3>1. \A w \in VMs : "procs" \in res'[w] => "procs" \in res[w]
      BY <2>3 DEF TypeOK
    <3>2. QuietStep(v)
      BY <1>2, <2>3, <3>1 DEF kill_lxc, QuietStep, Follows, Proceeds, Mine
    <3> QED BY <3>2, QuietKeeps
  <2> QED BY <1>2, <2>1, <2>2, <2>3 DEF kill_lxc
<1>3. CASE start_lxc(v)
  <2>1. /\ st[v] = "starting/setup/launching"
        /\ st'[v] = "starting/waiting_for_vma"
        /\ \A w \in VMs \ {v} : st'[w] = st[w] /\ res'[w] = res[w]
        /\ UNCHANGED <<hkd, pend, fs, row, starts, disowned>>
    BY <1>3, TableDone DEF TypeOK, start_lxc, Done, Goto
  <2>2. /\ st[v] \in Owning \cap Setup
        /\ st'[v] \notin Bare \cup Setup \cup {"starting/heavy", "none", "stopped"}
    BY <2>1, NamedFacts
  <2>3. fs[v] = "done" /\ (v \notin disowned => Mine(v))
    BY <2>2 DEF FsDone, RowOwned
  <2>4. ContainerOwned' /\ RowOwned'
    BY <2>1, <2>3 DEF ContainerOwned, RowOwned, Mine
  <2>5. NoProcs'
    BY <2>1, <2>2, <2>3 DEF NoProcs
  <2>6. FsDone' /\ KillsPending' /\ StartsServed' /\ DownEmpty'
    BY <2>1, <2>2 DEF FsDone, KillsPending, StartsServed, DownEmpty
  <2> QED BY <2>4, <2>5, <2>6
<1>4. CASE on_stopped(v)
  <2>1. /\ st[v] = "stopped" /\ st'[v] = "none"
        /\ pend'[v] = {} /\ fs'[v] = "idle"
        /\ "procs" \in res'[v] => "procs" \in res[v]
        /\ \A w \in VMs \ {v} : /\ st'[w] = st[w] /\ pend'[w] = pend[w]
                                /\ fs'[w] = fs[w] /\ res'[w] = res[w]
        /\ UNCHANGED <<hkd, row, starts, disowned>>
    BY <1>4 DEF TypeOK, on_stopped, Goto
  <2>2. st'[v] \notin Owning \cup Bare \cup Setup \cup {"starting/heavy"}
    BY <2>1, NamedFacts
  <2>3. ContainerOwned' /\ RowOwned'
    BY <2>1, <2>2 DEF ContainerOwned, RowOwned, Mine
  <2>4. NoProcs'
    BY <2>1, <2>2 DEF NoProcs
  <2>5. FsDone' /\ KillsPending' /\ StartsServed' /\ DownEmpty'
    BY <2>1, <2>2 DEF FsDone, KillsPending, StartsServed, DownEmpty
  <2> QED BY <2>3, <2>4, <2>5
<1>5. CASE start_os_fs(v)
  <2>1. /\ st[v] = "starting/os_fs"
        /\ \A w \in VMs \ {v} : fs'[w] = fs[w]
        /\ UNCHANGED <<hkd, st, pend, res, row, starts, disowned>>
    BY <1>5 DEF TypeOK, start_os_fs
  <2>2. st[v] \in Bare \ (Setup \cup {"starting/heavy"})
    BY <2>1, NamedFacts
  <2>3. ContainerOwned' /\ RowOwned'
    BY <2>1 DEF ContainerOwned, RowOwned, Mine
  <2>4. NoProcs'
    BY <2>1, <2>2 DEF NoProcs
  <2>5. FsDone' /\ KillsPending' /\ StartsServed' /\ DownEmpty'
    BY <2>1, <2>2 DEF FsDone, KillsPending, StartsServed, DownEmpty
  <2> QED BY <2>3, <2>4, <2>5
<1>6. CASE mount_root(v)
  <2>1. /\ fs[v] = "setup" /\ fs'[v] = "mounted"
        /\ \A w \in VMs \ {v} : fs'[w] = fs[w]
        /\ \A w \in VMs : "procs" \in res'[w] => "procs" \in res[w]
        /\ UNCHANGED <<hkd, st, pend, row, starts, disowned>>
    BY <1>6 DEF TypeOK, mount_root
  <2>2. ContainerOwned' /\ RowOwned'
    BY <2>1 DEF ContainerOwned, RowOwned, Mine
  <2>3. NoProcs'
    BY <2>1 DEF NoProcs
  <2>4. FsDone' /\ KillsPending' /\ StartsServed' /\ DownEmpty'
    BY <2>1 DEF FsDone, KillsPending, StartsServed, DownEmpty
  <2> QED BY <2>2, <2>3, <2>4
<1>7. CASE tell_running(v)
  <2>1. /\ fs[v] = "mounted" /\ fs'[v] = "done"
        /\ st'[v] = OnDone(st[v])
        /\ \A w \in VMs \ {v} : fs'[w] = fs[w] /\ st'[w] = st[w]
        /\ UNCHANGED <<hkd, pend, res, row, starts, disowned>>
    BY <1>7 DEF TypeOK, tell_running, Done, Goto
  <2>2. /\ st'[v] \in Owning => st[v] \in Owning
        /\ st'[v] = "none" <=> st[v] = "none"
    BY <2>1, TableDone DEF TypeOK
  <2>3. ContainerOwned' /\ RowOwned'
    BY <2>1, <2>2 DEF ContainerOwned, RowOwned, Mine
  <2>4. NoProcs'
    BY <2>1 DEF NoProcs
  <2>5. FsDone' /\ KillsPending' /\ StartsServed' /\ DownEmpty'
    BY <2>1, <2>2 DEF FsDone, KillsPending, StartsServed, DownEmpty
  <2> QED BY <2>3, <2>4, <2>5
<1>8. CASE tell_error(v)
  <2>1. /\ fs'[v] = "done"
        /\ st'[v] = OnError(st[v])
        /\ \A w \in VMs \ {v} : fs'[w] = fs[w] /\ st'[w] = st[w]
        /\ UNCHANGED <<hkd, pend, res, row, starts, disowned>>
    BY <1>8 DEF TypeOK, tell_error, Fails, Goto
  <2>2. Follows(st[v], st'[v])
    BY <2>1, TableFollows DEF TypeOK
  <2>3. ContainerOwned' /\ RowOwned'
    BY <2>1, <2>2 DEF ContainerOwned, RowOwned, Mine, Follows, Proceeds
  <2>4. NoProcs'
    BY <2>1, <2>2 DEF NoProcs, Follows, Proceeds
  <2>5. FsDone' /\ KillsPending' /\ StartsServed' /\ DownEmpty'
    BY <2>1, <2>2 DEF FsDone, KillsPending, StartsServed, DownEmpty, Follows, Proceeds
  <2> QED BY <2>3, <2>4, <2>5
<1>9. CASE delayed(v)
  <2>1. PICK e \in pend[v] :
             /\ Goto(v, StateAfter(Target(e, st[v]), st[v]))
             /\ pend' = [pend EXCEPT ![v] = @ \ {e}]
             /\ UNCHANGED <<hkd, holds, pid, kills, fs, res, row, starts, disowned>>
    BY <1>9 DEF delayed
  <2>2. /\ e \in Events
        /\ st'[v] = StateAfter(Target(e, st[v]), st[v])
        /\ \A w \in VMs \ {v} : st'[w] = st[w]
        /\ \A w \in VMs : pend'[w] \subseteq pend[w]
    BY <2>1 DEF TypeOK, Goto
  <2>3. CASE e # "hkd_kill"
    <3>1. Follows(st[v], st'[v])
      BY <2>2, <2>3, TableFollows DEF TypeOK, Target, Events
    <3>2. \A w \in VMs : st[w] = "none" => pend'[w] = pend[w]
      BY <2>2 DEF KillsPending
    <3>3. QuietStep(v)
      BY <2>1, <2>2, <3>1, <3>2 DEF QuietStep, Mine
    <3> QED BY <3>3, QuietKeeps
  <2>4. CASE e = "hkd_kill"
    <3>1. Proceeds(st[v], st'[v])
      BY <2>2, <2>4, KillProceeds DEF TypeOK, Target
    <3>2. hkd \notin Calm /\ st[v] # "none"
      BY <2>1, <2>4 DEF KillsPending
    <3>3. ContainerOwned' /\ RowOwned'
      BY <2>1, <2>2, <3>1 DEF ContainerOwned, RowOwned, Mine, Proceeds
    <3>4. NoProcs'
      BY <2>1, <2>2, <3>1, <3>2 DEF NoProcs, Proceeds
    <3>5. FsDone' /\ KillsPending' /\ StartsServed' /\ DownEmpty'
      BY <2>1, <2>2, <3>1, <3>2 DEF FsDone, KillsPending, StartsServed, DownEmpty, Proceeds
    <3> QED BY <3>3, <3>4, <3>5
  <2> QED BY <2>3, <2>4
<1> QED BY <1>1, <1>2, <1>3, <1>4, <1>5, <1>6, <1>7, <1>8, <1>9

\* The commands that have something to establish.
LEMMA CommandKeeps ==
    ASSUME IInv, TypeOK', NEW v \in VMs,
           load_start_cmds(v) \/ on_start_cmd(v) \/ lose_start_cmd(v) \/ unassign_vms(v)
    PROVE  IInv'
<1> USE DEF IInv
<1>1. CASE load_start_cmds(v)
  <2>1. /\ hkd \in {"running", "draining"}
        /\ \A w \in VMs : Mine(w) \/ w = v => Mine(w)'
        /\ starts' = starts \cup {v}
        /\ UNCHANGED <<hkd, st, pend, fs, res, disowned>>
    BY <1>1 DEF TypeOK, load_start_cmds, handlerVars, Mine, Rows
  <2>2. ContainerOwned' /\ RowOwned'
    BY <2>1 DEF ContainerOwned, RowOwned, Mine
  <2>3. NoProcs' /\ FsDone' /\ KillsPending' /\ StartsServed' /\ DownEmpty'
    BY <2>1 DEF NoProcs, FsDone, KillsPending, StartsServed, DownEmpty
  <2> QED BY <2>2, <2>3
<1>2. CASE on_start_cmd(v)
  <2>1. /\ v \in starts /\ starts' \subseteq starts
        /\ hkd \in {"running", "draining"}
        /\ \A w \in VMs \ {v} : st'[w] = st[w]
        /\ \/ st'[v] = st[v]
           \/ st[v] = "none" /\ st'[v] \in {"starting/db", "stopping/db"}
        /\ UNCHANGED <<hkd, pend, fs, res, row, disowned>>
    BY <1>2 DEF TypeOK, on_start_cmd, StartsServed
  <2>2. {"starting/db", "stopping/db"} \cap (Setup \cup {"starting/heavy"}) = {}
    BY NamedFacts
  <2>3. ContainerOwned' /\ RowOwned'
    BY <2>1 DEF ContainerOwned, RowOwned, Mine
  <2>4. NoProcs'
    BY <2>1 DEF NoProcs, Calm
  <2>5. FsDone' /\ KillsPending' /\ StartsServed' /\ DownEmpty'
    BY <2>1, <2>2 DEF FsDone, KillsPending, StartsServed, DownEmpty
  <2> QED BY <2>3, <2>4, <2>5
<1>3. CASE lose_start_cmd(v)
  <2>1. starts' \subseteq starts /\ UNCHANGED <<hkd, st, pend, fs, res, row, disowned>>
    BY <1>3 DEF lose_start_cmd, handlerVars
  <2>2. ContainerOwned' /\ RowOwned'
    BY <2>1 DEF ContainerOwned, RowOwned, Mine
  <2>3. NoProcs' /\ FsDone' /\ KillsPending' /\ StartsServed' /\ DownEmpty'
    BY <2>1 DEF NoProcs, FsDone, KillsPending, StartsServed, DownEmpty
  <2> QED BY <2>2, <2>3
<1>4. CASE unassign_vms(v)
  <2>1. /\ \A w \in VMs \ {v} : row'[w] = row[w]
        /\ disowned' = disowned \cup {v}
        /\ UNCHANGED <<hkd, st, pend, fs, res, starts>>
    BY <1>4 DEF TypeOK, unassign_vms, handlerVars
  <2>2. ContainerOwned' /\ RowOwned'
    BY <2>1 DEF ContainerOwned, RowOwned, Mine
  <2>3. NoProcs' /\ FsDone' /\ KillsPending' /\ StartsServed' /\ DownEmpty'
    BY <2>1 DEF NoProcs, FsDone, KillsPending, StartsServed, DownEmpty
  <2> QED BY <2>2, <2>3
<1> QED BY <1>1, <1>2, <1>3, <1>4

\* The daemon catches the zombies of an earlier HKD, stops, is killed, dies.
LEMMA DaemonKeeps ==
    ASSUME IInv, TypeOK', Daemon
    PROVE  IInv'
<1> USE DEF IInv
<1>1. CASE catch_zombie_vms
  <2>1. /\ hkd = "down" /\ hkd' = "catching"
        /\ \A v \in VMs : \/ st'[v] = "zombie/config/saving_state" /\ Mine(v)
                          \/ st'[v] = "none" /\ ~Mine(v)
        /\ UNCHANGED <<pend, fs, res, row, starts, disowned>>
    BY <1>1 DEF catch_zombie_vms, Mine
  <2>2. \A v \in VMs : pend[v] = {}
    BY <2>1 DEF DownEmpty, KillsPending
  <2>3. ContainerOwned'
    BY <2>1 DEF ContainerOwned, Mine
  <2>4. RowOwned'
    BY <2>1, NamedFacts DEF RowOwned, StartsServed, Mine
  <2>5. \A v \in VMs \ disowned : st'[v] = "none" => "procs" \notin res[v]
    BY <2>1 DEF ContainerOwned, Mine
  <2>6. NoProcs'
    BY <2>1, <2>5, NamedFacts DEF NoProcs
  <2>7. FsDone' /\ KillsPending' /\ StartsServed' /\ DownEmpty'
    BY <2>1, <2>2, NamedFacts DEF FsDone, KillsPending, StartsServed, DownEmpty
  <2> QED BY <2>3, <2>4, <2>6, <2>7
<1>2. CASE hkd_running \/ hkd_stop \/ vm_command_handler_stopped
  <2>1. /\ hkd \in Calm /\ hkd' \in Calm
        /\ hkd' \notin {"running", "draining"} => starts = {}
        /\ UNCHANGED <<st, pend, fs, res, row, starts, disowned>>
    BY <1>2 DEF hkd_running, hkd_stop, vm_command_handler_stopped, handlerVars, Calm,
       StartsServed
  <2>2. ContainerOwned' /\ RowOwned'
    BY <2>1 DEF ContainerOwned, RowOwned, Mine
  <2>3. NoProcs' /\ FsDone' /\ KillsPending' /\ StartsServed' /\ DownEmpty'
    BY <2>1 DEF NoProcs, FsDone, KillsPending, StartsServed, DownEmpty, Calm
  <2> QED BY <2>2, <2>3
<1>3. CASE stop_all_vms \/ kill_all_vms
  <2>1. /\ hkd \notin {"down", "running", "draining"}
        /\ hkd' \in {"stopping_all_vms", "killing_all_vms"}
        /\ UNCHANGED <<fs, res, row, starts, disowned>>
    BY <1>3 DEF stop_all_vms, kill_all_vms
  <2>2. ASSUME NEW v \in VMs
        PROVE  Proceeds(st[v], st'[v]) /\ (st[v] = "none" => pend'[v] = pend[v])
    <3>1. PICK t \in {OnHkdKill(st[v]), OnHkdStop(st[v])} :
               st'[v] = StateAfter(t, st[v]) /\ pend'[v] = PendAfter(t, "hkd_kill", pend[v])
      BY <1>3 DEF stop_all_vms, kill_all_vms, ToAll
    <3>2. Proceeds(st[v], st'[v])
      BY <3>1, KillProceeds DEF TypeOK
    <3>3. st[v] = "none" => t = "ignore"
      BY <3>1 DEF OnHkdStop, OnHkdKill, CleanOld, Setup, Monitored, Shutdown, Zombie,
         ZombieConfig, Reap, ZombieDb
    <3> QED BY <3>1, <3>2, <3>3 DEF PendAfter
  <2>3. hkd' \notin Calm /\ hkd' # "down"
    BY <2>1 DEF Calm
  <2>4. ContainerOwned' /\ RowOwned'
    BY <2>1, <2>2 DEF ContainerOwned, RowOwned, Mine, Proceeds
  <2>5. NoProcs'
    BY <2>1, <2>2, <2>3 DEF NoProcs, Proceeds
  <2>6. FsDone' /\ KillsPending'
    BY <2>1, <2>2, <2>3 DEF FsDone, KillsPending, Proceeds
  <2>7. StartsServed' /\ DownEmpty'
    BY <2>1, <2>3 DEF StartsServed, DownEmpty
  <2> QED BY <2>4, <2>5, <2>6, <2>7
<1>4. CASE hkd_exit
  <2>1. /\ hkd \notin {"running", "draining"}
        /\ hkd' = "down" /\ hkd' \notin Calm
        /\ \A v \in VMs : st[v] = "none"
        /\ \A v \in VMs : "procs" \in res'[v] => "procs" \in res[v]
        /\ UNCHANGED <<st, pend, fs, row, starts, disowned>>
    BY <1>4 DEF hkd_exit, NoVms, handlerVars, Calm
  <2>2. ContainerOwned' /\ RowOwned'
    BY <2>1 DEF ContainerOwned, RowOwned, Mine
  <2>3. NoProcs' /\ FsDone' /\ KillsPending' /\ StartsServed' /\ DownEmpty'
    BY <2>1 DEF NoProcs, FsDone, KillsPending, StartsServed, DownEmpty
  <2> QED BY <2>2, <2>3
<1>5. CASE hkd_crash
  <2>1. /\ hkd' = "down" /\ hkd' \notin Calm
        /\ \A v \in VMs : st'[v] = "none" /\ pend'[v] = {} /\ fs'[v] = "idle"
        /\ \A v \in VMs : "procs" \in res'[v] => "procs" \in res[v]
        /\ starts' = {}
        /\ UNCHANGED <<row, disowned>>
    BY <1>5 DEF hkd_crash, Calm
  <2>2. ContainerOwned' /\ RowOwned'
    BY <2>1, NamedFacts DEF ContainerOwned, RowOwned, Mine
  <2>3. NoProcs' /\ FsDone'
    BY <2>1, NamedFacts DEF NoProcs, FsDone
  <2>4. KillsPending' /\ StartsServed' /\ DownEmpty'
    BY <2>1 DEF KillsPending, StartsServed, DownEmpty
  <2> QED BY <2>2, <2>3, <2>4
<1> QED BY <1>1, <1>2, <1>3, <1>4, <1>5 DEF Daemon

(***************************************************************************)
(* The theorem.                                                            *)
(***************************************************************************)
\* Every step of the node keeps the invariant.
LEMMA InvStep == IInv /\ [Next]_vars => IInv'
<1> SUFFICES ASSUME IInv, [Next]_vars PROVE IInv'
  OBVIOUS
<1>1. TypeOK'
  BY TypeStep DEF IInv
<1>2. ASSUME NEW v \in VMs,
             Enter(v) \/ heavy_down(v) \/ FsAgent(v) \/ Container(v) \/ Commands(v)
      PROVE  IInv'
  <2>1. CASE Quiet(v)
    BY <1>1, <2>1, QuietActions, QuietKeeps DEF IInv
  <2>2. CASE \/ clear_runtime_row(v) \/ kill_lxc(v) \/ start_lxc(v) \/ on_stopped(v)
             \/ start_os_fs(v) \/ mount_root(v) \/ tell_running(v) \/ tell_error(v)
             \/ delayed(v)
    BY <1>1, <2>2, HandlerKeeps
  <2>3. CASE \/ load_start_cmds(v) \/ on_start_cmd(v) \/ lose_start_cmd(v)
             \/ unassign_vms(v)
    BY <1>1, <2>3, CommandKeeps
  <2> QED BY <1>2, <2>1, <2>2, <2>3 DEF Enter, FsAgent, Container, Commands, Quiet
<1>3. CASE Daemon
  BY <1>1, <1>3, DaemonKeeps
<1>4. CASE UNCHANGED vars
  BY <1>1, <1>4 DEF IInv, ContainerOwned, RowOwned, NoProcs, FsDone, KillsPending,
     StartsServed, DownEmpty, Mine, vars, handlerVars
<1> QED BY <1>2, <1>3, <1>4 DEF Next

\* ContainerOwned, for any number of virtual machines, any limit of the
\* semaphore and of the killing loop, and any combination of failed queries,
\* commands, mounts and kills, lost replies, HKD crashes and restarts: the row
\* of a VM whose container is alive is never given up by this node.
THEOREM ContainerAlwaysOwned == Spec => []ContainerOwned
<1>1. Init => IInv
  <2> SUFFICES ASSUME Init PROVE IInv
    OBVIOUS
  <2>1. TypeOK
    BY NamedStates, ConstantsAssumption DEF Init, TypeOK, Rows, FreeRow
  <2> QED BY <2>1, NamedFacts DEF Init, IInv, ContainerOwned, RowOwned, NoProcs, FsDone,
             KillsPending, StartsServed, DownEmpty, Calm
<1>2. IInv => ContainerOwned
  BY DEF IInv
<1> QED BY <1>1, <1>2, InvStep, PTL DEF Spec

(***************************************************************************)
(* Events that must not be lost: a stop of the daemon reaches every        *)
(* handler, and the end of a container is seen by the handler that watches *)
(* it.                                                                     *)
(***************************************************************************)
\* The substates on the way to the end of a handler.
Down == Stopping \cup Zombie \cup {"none", "stopped", "dirty"}

\* The substates that watch a container.
Watching == Running \cup Debugging \cup {"starting/waiting_for_vma"}

EInv == IInv /\ StopReachesAll /\ LxcExitSeen

\* A handler that goes from s to t does not turn back, and does not begin to
\* watch a container.
Onward(s, t) == (s \in Down => t \in Down) /\ (t \in Watching => s \in Watching)

\* Down and Watching have no substate in common.
LEMMA DownApart == Down \cap Watching = {} /\ "starting/setup/launching" \notin Down \cup Watching
  BY DEF Down, Watching, States, Starting, CleanOld, Setup, Running, Debugging, Stopping, Shutdown, Stop, Cleanup, StoppingDb,
     Zombie, ZombieConfig, Reap, ZombieDb

\* Whatever the table says leads onward, but for the launch of a container;
\* and an event that is not delayed leads to the end: on_hkd_kill always, the
\* exit of lxc-start from a substate that watches it.
LEMMA TableOnward ==
    ASSUME NEW s \in States
    PROVE  /\ s # "starting/setup/launching" => Onward(s, OnDone(s))
           /\ Onward(s, OnError(s))
           /\ Onward(s, StateAfter(OnCmdStop(s), s))
           /\ Onward(s, StateAfter(OnLxcDone(s), s))
           /\ OnHkdKill(s) # "delay" => StateAfter(OnHkdKill(s), s) \in Down
           /\ OnHkdStop(s) # "delay" => StateAfter(OnHkdStop(s), s) \in Down
           /\ s \in Watching => OnLxcDone(s) \in {"delay", "stopping/cleanup/saving_state"}
<1> USE DEF Down, Watching, Onward, States, Starting, CleanOld, Setup, Running, Debugging, Stopping, Shutdown, Stop, Cleanup, StoppingDb,
     Zombie, ZombieConfig, Reap, ZombieDb
<1>1. s # "starting/setup/launching" => Onward(s, OnDone(s))
  <2>1. s \in Down => OnDone(s) \in Down
    BY DEF OnDone
  <2>2. s # "starting/setup/launching" /\ OnDone(s) \in Watching => s \in Watching
    BY DEF OnDone
  <2> HIDE DEF Down, Watching, States
  <2> QED BY <2>1, <2>2
<1>2. Onward(s, OnError(s))
  <2>1. s \in Down => OnError(s) \in Down
    BY DEF OnError
  <2>2. OnError(s) \in Watching => s \in Watching
    BY DEF OnError
  <2> HIDE DEF Down, Watching, States
  <2> QED BY <2>1, <2>2
<1>3. Onward(s, StateAfter(OnCmdStop(s), s))
  BY DEF StateAfter, OnCmdStop
<1>4. Onward(s, StateAfter(OnLxcDone(s), s))
  BY DEF StateAfter, OnLxcDone, LxcAwaited, Monitored
<1>5. OnHkdKill(s) # "delay" => StateAfter(OnHkdKill(s), s) \in Down
  BY DEF StateAfter, OnHkdKill, Monitored
<1>6. OnHkdStop(s) # "delay" => StateAfter(OnHkdStop(s), s) \in Down
  BY DEF StateAfter, OnHkdStop, OnHkdKill, Monitored
<1>7. s \in Watching => OnLxcDone(s) \in {"delay", "stopping/cleanup/saving_state"}
  BY DEF OnLxcDone, LxcAwaited, Monitored
<1> QED BY <1>1, <1>2, <1>3, <1>4, <1>5, <1>6, <1>7

\* So do the substates that the actions name.
LEMMA NamedOnward ==
    /\ \A s \in {"starting/waiting_for_vma", "debugging/monitoring"} :
          Onward(s, "running/saving_state")
    /\ \A s \in {"starting/waiting_for_vma", "running/monitoring"} :
          Onward(s, "debugging/saving_state") /\ Onward(s, "stopping/stop/saving_state")
    /\ Onward("running/monitoring", "running/expiring")
    /\ \A s \in States : \A t \in {"stopping/stop/saving_state", "stopping/cleanup/saving_state",
                                   "zombie/reap/killing_lxc", "zombie/reap/saving_state",
                                   "zombie/db/clearing_runtime_row", "stopping/db/cleared",
                                   "zombie/db/cleared", "none", "stopped"} : Onward(s, t)
  BY DEF Onward, Down, Watching, States, Starting, CleanOld, Setup, Running, Debugging, Stopping, Shutdown, Stop, Cleanup, StoppingDb,
     Zombie, ZombieConfig, Reap, ZombieDb

\* A step in which v's handler goes onward and keeps its events.
EventStep(v) ==
    /\ UNCHANGED hkd
    /\ \A w \in VMs \ {v} : st'[w] = st[w]
    /\ Onward(st[v], st'[v])
    /\ \A w \in VMs : pid'[w] = pid[w] /\ pend[w] \subseteq pend'[w]

\* Such a step keeps both properties.
LEMMA EventKeeps ==
    ASSUME EInv, NEW v \in VMs, EventStep(v)
    PROVE  StopReachesAll' /\ LxcExitSeen'
<1>1. StopReachesAll'
  BY DEF EInv, StopReachesAll, EventStep, Onward, Down
<1>2. LxcExitSeen'
  BY DEF EInv, LxcExitSeen, EventStep, Onward, Watching
<1> QED BY <1>1, <1>2

\* The actions that are such steps.
Plain(v) ==
    \/ query(v) \/ save_state(v) \/ clear_runtime_row(v) \/ row_cleared(v)
    \/ heavy_up(v) \/ kill_lxc(v) \/ unlink_iface(v) \/ destroy_lxc(v)
    \/ stop_lxc(v) \/ calculate_attrs(v) \/ check_lxc(v) \/ check_dirty_flag(v)
    \/ remove_fw_rules(v) \/ unmount_filesystems(v) \/ release_cpuset(v)
    \/ rm_from_dhcpd(v) \/ return_vhci_hub(v) \/ run_hook(v)
    \/ allocate_home_fs(v) \/ add_to_dhcpd(v) \/ request_vhci_hub(v)
    \/ create_lxc(v) \/ set_fw_rules(v) \/ shutdown(v) \/ expire(v)
    \/ state_timeout(v) \/ start_os_fs(v) \/ heavy_down(v) \/ mount_root(v)
    \/ tell_running(v) \/ tell_error(v) \/ procs_exit(v) \/ vma_alive(v)
    \/ vma_failed(v) \/ expired_soft(v) \/ expired_hard(v) \/ on_stop_cmd(v)
    \/ set_host_id(v) \/ send_vm_cmd(v) \/ withdraw_vm_cmd(v)
    \/ load_start_cmds(v) \/ lose_start_cmd(v) \/ unassign_vms(v)

\* The enter methods but for the launch and the end, the file system agent, and
\* the commands go onward.
LEMMA PlainActions ==
    ASSUME IInv, NEW v \in VMs, Plain(v)
    PROVE  EventStep(v)
<1>0. TypeOK /\ st[v] \in States
  BY DEF IInv, TypeOK
<1>1. ASSUME query(v) PROVE EventStep(v)
  BY <1>0, <1>1, TableOnward DEF TypeOK, EventStep, query, Done, Fails, Goto, OnlySt
<1>2. ASSUME save_state(v) PROVE EventStep(v)
  BY <1>0, <1>2, TableOnward DEF TypeOK, EventStep, save_state, Done, Fails, Goto, SaveState
<1>3. ASSUME row_cleared(v) PROVE EventStep(v)
  BY <1>0, <1>3, TableOnward DEF TypeOK, EventStep, row_cleared, Done, Fails, Goto, OnlySt, Cleared
<1>4. ASSUME heavy_up(v) PROVE EventStep(v)
  BY <1>0, <1>4, TableOnward DEF TypeOK, EventStep, heavy_up, Done, Goto, HeavyUp
<1>5. ASSUME kill_lxc(v) PROVE EventStep(v)
  BY <1>0, <1>5, TableOnward DEF TypeOK, EventStep, kill_lxc, Done, Goto, Onward, KillLxc
<1>6. ASSUME unlink_iface(v) PROVE EventStep(v)
  BY <1>0, <1>6, TableOnward DEF TypeOK, EventStep, unlink_iface, Done, Goto, OnlySt, UnlinkIface
<1>7. ASSUME destroy_lxc(v) PROVE EventStep(v)
  BY <1>0, <1>7, TableOnward DEF TypeOK, EventStep, destroy_lxc, Done, Goto, OnlySt, DestroyLxc
<1>8. ASSUME stop_lxc(v) PROVE EventStep(v)
  BY <1>0, <1>8, TableOnward DEF TypeOK, EventStep, stop_lxc, Done, Goto, OnlySt, StopLxc
<1>9. ASSUME calculate_attrs(v) PROVE EventStep(v)
  BY <1>0, <1>9, TableOnward DEF TypeOK, EventStep, calculate_attrs, Done, Goto, OnlySt
<1>10. ASSUME check_lxc(v) PROVE EventStep(v)
  BY <1>0, <1>10, TableOnward DEF TypeOK, EventStep, check_lxc, Goto, OnlySt
<1>11. ASSUME check_dirty_flag(v) PROVE EventStep(v)
  BY <1>0, <1>11, TableOnward DEF TypeOK, EventStep, check_dirty_flag, Done, Goto, OnlySt, CheckDirtyFlag
<1>12. ASSUME remove_fw_rules(v) PROVE EventStep(v)
  BY <1>0, <1>12, TableOnward DEF TypeOK, EventStep, remove_fw_rules, Done, Fails, Goto, StAndRes, RemoveFwRules
<1>13. ASSUME unmount_filesystems(v) PROVE EventStep(v)
  BY <1>0, <1>13, TableOnward DEF TypeOK, EventStep, unmount_filesystems, Done, Fails, Goto, StAndRes, UnmountFilesystems
<1>14. ASSUME release_cpuset(v) PROVE EventStep(v)
  BY <1>0, <1>14, TableOnward DEF TypeOK, EventStep, release_cpuset, Done, Goto, StAndRes, ReleaseCpuset
<1>15. ASSUME rm_from_dhcpd(v) PROVE EventStep(v)
  BY <1>0, <1>15, TableOnward DEF TypeOK, EventStep, rm_from_dhcpd, Done, Goto, StAndRes, RmFromDhcpd
<1>16. ASSUME return_vhci_hub(v) PROVE EventStep(v)
  BY <1>0, <1>16, TableOnward DEF TypeOK, EventStep, return_vhci_hub, Done, Goto, StAndRes, ReturnVhciHub
<1>17. ASSUME run_hook(v) PROVE EventStep(v)
  BY <1>0, <1>17, TableOnward DEF TypeOK, EventStep, run_hook, Done, Fails, Goto, OnlySt, RunHook
<1>18. ASSUME allocate_home_fs(v) PROVE EventStep(v)
  BY <1>0, <1>18, TableOnward DEF TypeOK, EventStep, allocate_home_fs, Done, Fails, Goto, OnlySt
<1>19. ASSUME add_to_dhcpd(v) PROVE EventStep(v)
  BY <1>0, <1>19, TableOnward DEF TypeOK, EventStep, add_to_dhcpd, Done, Goto, StAndRes
<1>20. ASSUME request_vhci_hub(v) PROVE EventStep(v)
  BY <1>0, <1>20, TableOnward DEF TypeOK, EventStep, request_vhci_hub, Done, Goto, StAndRes
<1>21. ASSUME create_lxc(v) PROVE EventStep(v)
  BY <1>0, <1>21, TableOnward DEF TypeOK, EventStep, create_lxc, Done, Fails, Goto, StAndRes
<1>22. ASSUME set_fw_rules(v) PROVE EventStep(v)
  BY <1>0, <1>22, TableOnward DEF TypeOK, EventStep, set_fw_rules, Done, Fails, Goto, StAndRes
<1>23. ASSUME shutdown(v) PROVE EventStep(v)
  BY <1>0, <1>23, TableOnward DEF TypeOK, EventStep, shutdown, Done, Goto, OnlySt
<1>24. ASSUME expire(v) PROVE EventStep(v)
  BY <1>0, <1>24, TableOnward DEF TypeOK, EventStep, expire, Done, Goto, OnlySt
<1>25. ASSUME heavy_down(v) PROVE EventStep(v)
  BY <1>0, <1>25, TableOnward DEF TypeOK, EventStep, heavy_down, Done, Goto, HeavyDown
<1>26. ASSUME clear_runtime_row(v) PROVE EventStep(v)
  BY <1>0, <1>26, TableOnward, NamedOnward DEF TypeOK, EventStep, clear_runtime_row, Fails, Goto
<1>27. ASSUME state_timeout(v) PROVE EventStep(v)
  BY <1>0, <1>27, NamedOnward DEF TypeOK, EventStep, state_timeout, Goto, OnlySt
<1>28. ASSUME start_os_fs(v) PROVE EventStep(v)
  BY <1>0, <1>28 DEF TypeOK, EventStep, start_os_fs, Onward
<1>29. ASSUME mount_root(v) PROVE EventStep(v)
  BY <1>0, <1>29 DEF TypeOK, EventStep, mount_root, Onward
<1>30. ASSUME tell_running(v) PROVE EventStep(v)
  <2>1. st[v] # "starting/setup/launching"
    BY <1>30 DEF tell_running, IInv, FsDone, Setup
  <2> QED BY <1>0, <1>30, <2>1, TableOnward DEF TypeOK, EventStep, tell_running, Done, Goto
<1>31. ASSUME tell_error(v) PROVE EventStep(v)
  BY <1>0, <1>31, TableOnward DEF TypeOK, EventStep, tell_error, Fails, Goto
<1>32. ASSUME procs_exit(v) PROVE EventStep(v)
  BY <1>0, <1>32 DEF TypeOK, EventStep, procs_exit, handlerVars, Onward
<1>33. ASSUME vma_alive(v) PROVE EventStep(v)
  BY <1>0, <1>33, NamedOnward DEF TypeOK, EventStep, vma_alive, Goto, OnlySt
<1>34. ASSUME vma_failed(v) PROVE EventStep(v)
  BY <1>0, <1>34, NamedOnward DEF TypeOK, EventStep, vma_failed, Goto, OnlySt
<1>35. ASSUME expired_soft(v) PROVE EventStep(v)
  BY <1>0, <1>35, NamedOnward DEF TypeOK, EventStep, expired_soft, Goto, OnlySt
<1>36. ASSUME expired_hard(v) PROVE EventStep(v)
  BY <1>0, <1>36, TableOnward DEF TypeOK, EventStep, expired_hard, Receive, Target, Goto, PendAfter
<1>37. ASSUME on_stop_cmd(v) PROVE EventStep(v)
  BY <1>0, <1>37, TableOnward DEF TypeOK, EventStep, on_stop_cmd, Receive, Target, Goto, PendAfter
<1>38. ASSUME set_host_id(v) PROVE EventStep(v)
  BY <1>0, <1>38 DEF TypeOK, EventStep, set_host_id, handlerVars, Onward
<1>39. ASSUME send_vm_cmd(v) PROVE EventStep(v)
  BY <1>0, <1>39 DEF TypeOK, EventStep, send_vm_cmd, handlerVars, Onward
<1>40. ASSUME withdraw_vm_cmd(v) PROVE EventStep(v)
  BY <1>0, <1>40 DEF TypeOK, EventStep, withdraw_vm_cmd, handlerVars, Onward
<1>41. ASSUME load_start_cmds(v) PROVE EventStep(v)
  BY <1>0, <1>41 DEF TypeOK, EventStep, load_start_cmds, handlerVars, Onward
<1>42. ASSUME lose_start_cmd(v) PROVE EventStep(v)
  BY <1>0, <1>42 DEF TypeOK, EventStep, lose_start_cmd, handlerVars, Onward
<1>43. ASSUME unassign_vms(v) PROVE EventStep(v)
  BY <1>0, <1>43 DEF TypeOK, EventStep, unassign_vms, handlerVars, Onward
<1> QED BY <1>1, <1>2, <1>3, <1>4, <1>5, <1>6, <1>7, <1>8, <1>9, <1>10, <1>11, <1>12, <1>13,
     <1>14, <1>15, <1>16, <1>17, <1>18, <1>19, <1>20, <1>21, <1>22, <1>23, <1>24, <1>25, <1>26,
     <1>27, <1>28, <1>29, <1>30, <1>31, <1>32, <1>33, <1>34, <1>35, <1>36, <1>37, <1>38, <1>39,
     <1>40, <1>41, <1>42, <1>43 DEF Plain

\* Every step of the node keeps both properties.
LEMMA EventInvStep == EInv /\ [Next]_vars => EInv'
<1> SUFFICES ASSUME EInv, [Next]_vars PROVE StopReachesAll' /\ LxcExitSeen'
  BY InvStep DEF EInv
<1>0. IInv /\ TypeOK /\ \A v \in VMs : st[v] \in States
  BY DEF EInv, IInv, TypeOK
<1>1. ASSUME NEW v \in VMs,
             Enter(v) \/ heavy_down(v) \/ FsAgent(v) \/ Container(v) \/ Commands(v)
      PROVE  StopReachesAll' /\ LxcExitSeen'
  <2>1. CASE Plain(v)
    BY <1>0, <2>1, PlainActions, EventKeeps
  <2>2. CASE start_lxc(v)
    <3>1. StopReachesAll'
      <4>1. st[v] \notin Down
        BY <2>2, DownApart DEF start_lxc
      <4> QED BY <1>0, <2>2, <4>1 DEF start_lxc, Done, Goto, TypeOK, EInv, StopReachesAll, Down
    <3>2. LxcExitSeen'
      BY <1>0, <2>2 DEF start_lxc, Done, Goto, TypeOK, EInv, LxcExitSeen
    <3> QED BY <3>1, <3>2
  <2>3. CASE on_stopped(v)
    <3>1. "none" \in Down /\ "none" \notin Watching
      BY DownApart DEF Down
    <3> QED BY <1>0, <2>3, <3>1 DEF on_stopped, Goto, TypeOK, EInv, StopReachesAll, LxcExitSeen,
               Watching
  <2>4. CASE delayed(v)
    <3>1. PICK e \in pend[v] :
               /\ Target(e, st[v]) # "delay"
               /\ Goto(v, StateAfter(Target(e, st[v]), st[v]))
               /\ pend' = [pend EXCEPT ![v] = @ \ {e}]
               /\ UNCHANGED <<hkd, holds, pid, kills, fs, res, row, starts, disowned>>
      BY <2>4 DEF delayed
    <3>2. e \in Events /\ st'[v] = StateAfter(Target(e, st[v]), st[v])
      BY <1>0, <3>1 DEF TypeOK, Goto
    <3>3. e # "hkd_kill" => Onward(st[v], st'[v])
      BY <1>0, <3>2, TableOnward DEF Target, Events
    <3>4. e = "hkd_kill" => st'[v] \in Down
      BY <1>0, <3>1, <3>2, TableOnward DEF Target
    <3>5. StopReachesAll'
      <4>1. \A w \in VMs \ {v} : st'[w] = st[w] /\ pend'[w] = pend[w]
        BY <1>0, <3>1 DEF TypeOK, Goto
      <4>2. e # "hkd_kill" /\ "hkd_kill" \in pend[v] => "hkd_kill" \in pend'[v]
        BY <1>0, <3>1 DEF TypeOK
      <4> QED BY <3>1, <3>3, <3>4, <4>1, <4>2 DEF EInv, StopReachesAll, Onward, Down
    <3>6. LxcExitSeen'
      <4>1. \A w \in VMs \ {v} : st'[w] = st[w] /\ pend'[w] = pend[w]
        BY <1>0, <3>1 DEF TypeOK, Goto
      <4>2. e # "lxc_done" /\ "lxc_done" \in pend[v] => "lxc_done" \in pend'[v]
        BY <1>0, <3>1 DEF TypeOK
      <4>3. e = "lxc_done" => st'[v] \notin Watching
        <5>1. ASSUME e = "lxc_done", st[v] \in Watching PROVE st'[v] = "stopping/cleanup/saving_state"
          BY <1>0, <3>1, <3>2, <5>1, TableOnward DEF Target, StateAfter
        <5>2. "stopping/cleanup/saving_state" \notin Watching
          BY DownApart DEF Down, Stopping, Cleanup
        <5> QED BY <3>3, <5>1, <5>2 DEF Onward
      <4>4. st'[v] \in Watching => st[v] \in Watching
        BY <3>3, <3>4, DownApart DEF Onward
      <4> QED BY <3>1, <4>1, <4>2, <4>3, <4>4 DEF EInv, LxcExitSeen, Watching
    <3> QED BY <3>5, <3>6
  <2>5. CASE lxc_done(v)
    <3>1. /\ st'[v] = StateAfter(OnLxcDone(st[v]), st[v])
          /\ pend'[v] = PendAfter(OnLxcDone(st[v]), "lxc_done", pend[v])
          /\ \A w \in VMs \ {v} : st'[w] = st[w] /\ pend'[w] = pend[w] /\ pid'[w] = pid[w]
          /\ UNCHANGED hkd
      BY <1>0, <2>5 DEF lxc_done, Receive, Target, Goto, TypeOK
    <3>2. Onward(st[v], st'[v]) /\ pend[v] \subseteq pend'[v]
      BY <1>0, <3>1, TableOnward DEF PendAfter
    <3>3. StopReachesAll'
      BY <3>1, <3>2 DEF EInv, StopReachesAll, Onward, Down
    <3>4. st'[v] \in Watching => "lxc_done" \in pend'[v]
      <4>1. "stopping/cleanup/saving_state" \notin Watching
        BY DownApart DEF Down, Stopping, Cleanup
      <4> QED BY <1>0, <3>1, <3>2, <4>1, TableOnward DEF Onward, StateAfter, PendAfter
    <3>5. LxcExitSeen'
      BY <3>1, <3>4 DEF EInv, LxcExitSeen, Watching
    <3> QED BY <3>3, <3>5
  <2>6. CASE on_start_cmd(v)
    <3>1. hkd \notin {"stopping_all_vms", "killing_all_vms"}
      BY <1>0, <2>6 DEF on_start_cmd, IInv, StartsServed
    <3>2. {"starting/db", "stopping/db"} \cap Watching = {}
      BY DEF Watching, Running, Debugging
    <3> QED BY <1>0, <2>6, <3>1, <3>2 DEF on_start_cmd, TypeOK, EInv, StopReachesAll, LxcExitSeen,
               Watching
  <2> QED BY <1>1, <2>1, <2>2, <2>3, <2>4, <2>5, <2>6
         DEF Enter, FsAgent, Container, Commands, Plain
<1>2. CASE Daemon
  <2>1. CASE catch_zombie_vms
    <3>1. {"zombie/config/saving_state", "none"} \cap Watching = {}
      BY DEF Watching, Running, Debugging
    <3> QED BY <2>1, <3>1 DEF catch_zombie_vms, StopReachesAll, LxcExitSeen, Watching
  <2>2. CASE hkd_running \/ hkd_stop \/ vm_command_handler_stopped \/ hkd_exit
    BY <2>2 DEF hkd_running, hkd_stop, vm_command_handler_stopped, hkd_exit, handlerVars, EInv,
       StopReachesAll, LxcExitSeen
  <2>3. CASE stop_all_vms
    <3>1. \A v \in VMs : /\ st'[v] = StateAfter(OnHkdStop(st[v]), st[v])
                         /\ pend'[v] = PendAfter(OnHkdStop(st[v]), "hkd_kill", pend[v])
                         /\ pid'[v] = pid[v]
      BY <1>0, <2>3 DEF stop_all_vms, ToAll
    <3>2. \A v \in VMs : st'[v] \in Down \/ (st'[v] = st[v] /\ "hkd_kill" \in pend'[v])
      BY <1>0, <3>1, TableOnward DEF StateAfter, PendAfter
    <3>3. \A v \in VMs : pend[v] \subseteq pend'[v]
      BY <3>1 DEF PendAfter
    <3> QED BY <3>1, <3>2, <3>3, DownApart DEF EInv, StopReachesAll, LxcExitSeen, Down, Watching
  <2>4. CASE kill_all_vms
    <3>1. \A v \in VMs : /\ st'[v] = StateAfter(OnHkdKill(st[v]), st[v])
                         /\ pend'[v] = PendAfter(OnHkdKill(st[v]), "hkd_kill", pend[v])
                         /\ pid'[v] = pid[v]
      BY <1>0, <2>4 DEF kill_all_vms, ToAll
    <3>2. \A v \in VMs : st'[v] \in Down \/ (st'[v] = st[v] /\ "hkd_kill" \in pend'[v])
      BY <1>0, <3>1, TableOnward DEF StateAfter, PendAfter
    <3>3. \A v \in VMs : pend[v] \subseteq pend'[v]
      BY <3>1 DEF PendAfter
    <3> QED BY <3>1, <3>2, <3>3, DownApart DEF EInv, StopReachesAll, LxcExitSeen, Down, Watching
  <2>5. CASE hkd_crash
    <3>1. "none" \notin Watching
      BY DEF Watching, Running, Debugging
    <3> QED BY <2>5, <3>1 DEF hkd_crash, StopReachesAll, LxcExitSeen, Watching
  <2> QED BY <1>2, <2>1, <2>2, <2>3, <2>4, <2>5 DEF Daemon
<1>3. CASE UNCHANGED vars
  BY <1>3 DEF vars, handlerVars, EInv, StopReachesAll, LxcExitSeen
<1> QED BY <1>1, <1>2, <1>3 DEF Next

\* It holds of a node that has not been started.
LEMMA EventInit == Init => EInv
<1>1. Init => IInv
  <2> SUFFICES ASSUME Init PROVE IInv
    OBVIOUS
  <2>1. TypeOK
    BY NamedStates, ConstantsAssumption DEF Init, TypeOK, Rows, FreeRow
  <2> QED BY <2>1, NamedFacts DEF Init, IInv, ContainerOwned, RowOwned, NoProcs, FsDone,
             KillsPending, StartsServed, DownEmpty, Calm
<1>2. "none" \notin Running \cup Debugging
  BY DEF Running, Debugging
<1> QED BY <1>1, <1>2 DEF Init, EInv, StopReachesAll, LxcExitSeen

\* StopReachesAll, for any number of virtual machines and any combination of
\* faults: once HKD has told its handlers to stop, none of them goes on
\* starting or watching its machine without the event in its queue.
THEOREM StopAlwaysReachesAll == Spec => []StopReachesAll
<1>1. EInv => StopReachesAll
  BY DEF EInv
<1> QED BY <1>1, EventInit, EventInvStep, PTL DEF Spec

\* LxcExitSeen, for any number of virtual machines and any combination of
\* faults: a handler that watches a container whose lxc-start has exited has
\* the event in its queue.
THEOREM LxcExitAlwaysSeen == Spec => []LxcExitSeen
<1>1. EInv => LxcExitSeen
  BY DEF EInv
<1> QED BY <1>1, EventInit, EventInvStep, PTL DEF Spec

=============================================================================
