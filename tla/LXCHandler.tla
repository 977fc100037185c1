----------------------------- MODULE LXCHandler -----------------------------
(***************************************************************************)
(* One QVD node: the HKD daemon, its VM command handler and the LXC        *)
(* handlers it runs for its virtual machines, against the vm_runtimes      *)
(* table they share with the L7R and the API processes.                    *)
(*                                                                         *)
(* A handler is a hierarchical state machine.  st[v] is its current        *)
(* substate, under the source's name.  The operators OnDone, OnError,      *)
(* OnHkdKill, OnCmdStop and OnLxcDone are its transition table; one action *)
(* below stands for every "enter" method, and the set named after the      *)
(* method lists the substates that run it.                                 *)
(*                                                                         *)
(* HKD is single threaded: an enter method runs to its end (or until it    *)
(* waits for a query, a command, a timer or the semaphore) before any      *)
(* other event of that handler is seen.  An event that the current         *)
(* substate delays is queued in pend[v] and offered again on every later   *)
(* change of state.                                                        *)
(***************************************************************************)
EXTENDS Naturals, FiniteSets

CONSTANTS
    VMs,             \* the virtual machines of this node
    MaxHeavy,        \* internal.hkd.max_heavy
    KillerRetries,   \* internal.hkd.lxc.killer.retries
    DebugEnable,     \* internal.vm.debug.enable
    DoesNotCleanup,  \* internal.hkd.lxc.does.not.cleanup may be found set: the
                     \* configuration is reloaded while HKD runs
    Faults           \* the kinds of failure that may happen

\* "kill": a process survives its signal, or the cgroup that names it is unknown;
\* "hub": the VHCI handler croaks, or HKD has none.
FaultKinds == {"query", "cmd", "fs", "umount", "kill", "hub", "reply", "crash", "lost", "late"}

ASSUME ConstantsAssumption ==
    /\ MaxHeavy \in Nat \ {0}
    /\ KillerRetries \in Nat
    /\ DebugEnable \in BOOLEAN
    /\ DoesNotCleanup \in BOOLEAN
    /\ Faults \subseteq FaultKinds

VARIABLES
    hkd,      \* state of the daemon
    st,       \* st[v]: substate of v's handler, "none" when there is no handler
    pend,     \* pend[v]: delayed events of v's handler
    holds,    \* holds[v]: the handler owns a slot of the heavy semaphore
    pid,      \* pid[v]: vm_pid is set, lxc-start is a live child of this HKD
    kills,    \* kills[v]: killer_count of the handler
    fs,       \* fs[v]: progress of the handler's LXC::FS agent
    res,      \* res[v]: what exists on the node for v
    row,      \* row[v]: v's row in vm_runtimes
    starts,   \* VMs marked as starting whose start command is on its way to HKD
    disowned  \* history: VMs that lost their row behind the back of their handler

handlerVars == <<st, pend, holds, pid, kills, fs>>
vars == <<hkd, handlerVars, res, row, starts, disowned>>

(***************************************************************************)
(* The substates, and the enter method of each.                            *)
(* "starting/db" stands for its six substates loading_row ... updating_-   *)
(* stats: the same exits and nothing that the model keeps.  The suffix     *)
(* "cleared" splits the clearing of the row: executed by the database, but *)
(* the reply has not reached HKD.                                          *)
(***************************************************************************)
CleanOld == {"starting/clean_old/killing_lxc", "starting/clean_old/unlinking_iface",
             "starting/clean_old/removing_fw_rules",
             "starting/clean_old/unmounting_filesystems"}

Setup == {"starting/setup/allocating_home_fs", "starting/setup/configuring_dhcpd",
          "starting/setup/configuring_usbip", "starting/setup/creating_lxc",
          "starting/setup/running_prestart_hook", "starting/setup/setting_fw_rules",
          "starting/setup/launching"}

Starting == {"starting/db", "starting/os_fs", "starting/heavy",
             "starting/waiting_for_vma"} \cup CleanOld \cup Setup

Running == {"running/saving_state", "running/updating_stats",
            "running/running_poststart_hook", "running/unheavy",
            "running/monitoring", "running/expiring"}

Debugging == {"debugging/saving_state", "debugging/unheavy", "debugging/monitoring"}

Shutdown == {"stopping/shutdown/saving_state", "stopping/shutdown/heavy",
             "stopping/shutdown/shuttingdown", "stopping/shutdown/waiting_for_lxc"}

Stop == {"stopping/stop/saving_state", "stopping/stop/heavy",
         "stopping/stop/running_stop", "stopping/stop/waiting_for_lxc"}

Cleanup == {"stopping/cleanup/saving_state", "stopping/cleanup/checking_dirty",
            "stopping/cleanup/heavy", "stopping/cleanup/killing_lxc",
            "stopping/cleanup/releasing_cpuset", "stopping/cleanup/unlinking_iface",
            "stopping/cleanup/removing_fw_rules",
            "stopping/cleanup/running_poststop_hook",
            "stopping/cleanup/destroying_lxc", "stopping/cleanup/configuring_dhcpd",
            "stopping/cleanup/configuring_usbip"}

StoppingDb == {"stopping/db", "stopping/db/cleared"}

Stopping == Shutdown \cup Stop \cup Cleanup \cup {"stopping/os_fs"} \cup StoppingDb

ZombieConfig == {"zombie/config/saving_state", "zombie/config/calculating_attrs"}

Reap == {"zombie/reap/saving_state", "zombie/reap/checking_dirty",
         "zombie/reap/heavy", "zombie/reap/checking_lxc",
         "zombie/reap/stopping_lxc", "zombie/reap/waiting_for_lxc",
         "zombie/reap/killing_lxc", "zombie/reap/releasing_cpuset",
         "zombie/reap/unlinking_iface", "zombie/reap/removing_fw_rules",
         "zombie/reap/destroying_lxc", "zombie/reap/unmounting_filesystems",
         "zombie/reap/unheavy", "zombie/reap/configuring_dhcpd",
         "zombie/reap/configuring_usbip", "zombie/reap/delaying"}

ZombieDb == {"zombie/db/clearing_runtime_row", "zombie/db/cleared", "zombie/db/delaying"}

Zombie == ZombieConfig \cup Reap \cup ZombieDb

States == Starting \cup Running \cup Debugging \cup Stopping \cup Zombie
              \cup {"none", "stopped", "dirty"}

\* Mutant: the whole state is saved.
MainStateFull(s) == s

\* The state that _main_state extracts: what precedes the first slash.
MainState(s) ==
    CASE s \in Starting  -> "starting"
      [] s \in Running   -> "running"
      [] s \in Debugging -> "debugging"
      [] s \in Stopping  -> "stopping"
      [] s \in Zombie    -> "zombie"
      [] OTHER           -> s

SaveState == {"running/saving_state", "debugging/saving_state",
              "stopping/shutdown/saving_state", "stopping/stop/saving_state",
              "stopping/cleanup/saving_state", "zombie/config/saving_state",
              "zombie/reap/saving_state"}
HeavyDown == {"starting/heavy", "stopping/shutdown/heavy", "stopping/stop/heavy",
              "stopping/cleanup/heavy", "zombie/reap/heavy"}
HeavyUp == {"running/unheavy", "debugging/unheavy", "zombie/reap/unheavy"}
KillLxc == {"starting/clean_old/killing_lxc", "stopping/cleanup/killing_lxc",
            "zombie/reap/killing_lxc"}
UnlinkIface == {"starting/clean_old/unlinking_iface", "stopping/cleanup/unlinking_iface",
                "zombie/reap/unlinking_iface"}
RemoveFwRules == {"starting/clean_old/removing_fw_rules",
                  "stopping/cleanup/removing_fw_rules", "zombie/reap/removing_fw_rules"}
UnmountFilesystems == {"starting/clean_old/unmounting_filesystems", "stopping/os_fs",
                       "zombie/reap/unmounting_filesystems"}
ReleaseCpuset == {"stopping/cleanup/releasing_cpuset", "zombie/reap/releasing_cpuset"}
DestroyLxc == {"stopping/cleanup/destroying_lxc", "zombie/reap/destroying_lxc"}
RmFromDhcpd == {"stopping/cleanup/configuring_dhcpd", "zombie/reap/configuring_dhcpd"}
ReturnVhciHub == {"stopping/cleanup/configuring_usbip", "zombie/reap/configuring_usbip"}
CheckDirtyFlag == {"stopping/cleanup/checking_dirty", "zombie/reap/checking_dirty"}
StopLxc == {"stopping/stop/running_stop", "zombie/reap/stopping_lxc"}
RunHook == {"starting/setup/running_prestart_hook", "running/running_poststart_hook",
            "stopping/cleanup/running_poststop_hook"}
ClearRuntimeRow == {"stopping/db", "zombie/db/clearing_runtime_row"}
Cleared == {"stopping/db/cleared", "zombie/db/cleared"}
Monitored == {"starting/waiting_for_vma", "running/monitoring", "debugging/monitoring"}

\* The enter method of these substates never waits.
Synchronous ==
    RemoveFwRules \cup ReleaseCpuset \cup DestroyLxc \cup RmFromDhcpd \cup ReturnVhciHub
      \cup CheckDirtyFlag \cup StopLxc \cup HeavyUp
      \cup (Setup \ {"starting/setup/running_prestart_hook"})
      \cup {"zombie/config/calculating_attrs", "zombie/reap/checking_lxc", "stopped"}

(***************************************************************************)
(* The transition table.  advance => '_on_done' moves to the next substate *)
(* in the order of the declaration, skipping those in parentheses.         *)
(***************************************************************************)
OnDone(s) ==
    CASE s = "starting/db"                               -> "starting/clean_old/killing_lxc"
      [] s = "starting/clean_old/killing_lxc"            -> "starting/clean_old/unlinking_iface"
      [] s = "starting/clean_old/unlinking_iface"        -> "starting/clean_old/removing_fw_rules"
      [] s = "starting/clean_old/removing_fw_rules"      -> "starting/clean_old/unmounting_filesystems"
      [] s = "starting/clean_old/unmounting_filesystems" -> "starting/os_fs"
      [] s = "starting/os_fs"                            -> "starting/heavy"
      [] s = "starting/heavy"                            -> "starting/setup/allocating_home_fs"
      [] s = "starting/setup/allocating_home_fs"         -> "starting/setup/configuring_dhcpd"
      [] s = "starting/setup/configuring_dhcpd"          -> "starting/setup/configuring_usbip"
      [] s = "starting/setup/configuring_usbip"          -> "starting/setup/creating_lxc"
      [] s = "starting/setup/creating_lxc"               -> "starting/setup/running_prestart_hook"
      [] s = "starting/setup/running_prestart_hook"      -> "starting/setup/setting_fw_rules"
      [] s = "starting/setup/setting_fw_rules"           -> "starting/setup/launching"
      [] s = "starting/setup/launching"                  -> "starting/waiting_for_vma"
      [] s = "running/saving_state"                      -> "running/updating_stats"
      [] s = "running/updating_stats"                    -> "running/running_poststart_hook"
      [] s = "running/running_poststart_hook"            -> "running/unheavy"
      [] s = "running/unheavy"                           -> "running/monitoring"
      [] s = "running/expiring"                          -> "running/monitoring"
      [] s = "debugging/saving_state"                    -> "debugging/unheavy"
      [] s = "debugging/unheavy"                         -> "debugging/monitoring"
      [] s = "stopping/shutdown/saving_state"            -> "stopping/shutdown/heavy"
      [] s = "stopping/shutdown/heavy"                   -> "stopping/shutdown/shuttingdown"
      [] s = "stopping/shutdown/shuttingdown"            -> "stopping/shutdown/waiting_for_lxc"
      [] s = "stopping/stop/saving_state"                -> "stopping/stop/heavy"
      [] s = "stopping/stop/heavy"                       -> "stopping/stop/running_stop"
      [] s = "stopping/stop/running_stop"                -> "stopping/stop/waiting_for_lxc"
      [] s = "stopping/cleanup/saving_state"             -> "stopping/cleanup/checking_dirty"
      [] s = "stopping/cleanup/checking_dirty"           -> "stopping/cleanup/heavy"
      [] s = "stopping/cleanup/heavy"                    -> "stopping/cleanup/killing_lxc"
      [] s = "stopping/cleanup/killing_lxc"              -> "stopping/cleanup/releasing_cpuset"
      [] s = "stopping/cleanup/releasing_cpuset"         -> "stopping/cleanup/unlinking_iface"
      [] s = "stopping/cleanup/unlinking_iface"          -> "stopping/cleanup/removing_fw_rules"
      [] s = "stopping/cleanup/removing_fw_rules"        -> "stopping/cleanup/running_poststop_hook"
      [] s = "stopping/cleanup/running_poststop_hook"    -> "stopping/cleanup/destroying_lxc"
      [] s = "stopping/cleanup/destroying_lxc"           -> "stopping/cleanup/configuring_dhcpd"
      [] s = "stopping/cleanup/configuring_dhcpd"        -> "stopping/cleanup/configuring_usbip"
      [] s = "stopping/cleanup/configuring_usbip"        -> "stopping/os_fs"
      [] s = "stopping/os_fs"                            -> "stopping/db"
      [] s \in StoppingDb                                -> "stopped"
      [] s = "zombie/config/saving_state"                -> "zombie/config/calculating_attrs"
      [] s = "zombie/config/calculating_attrs"           -> "zombie/reap/saving_state"
      [] s = "zombie/reap/saving_state"                  -> "zombie/reap/checking_dirty"
      [] s = "zombie/reap/checking_dirty"                -> "zombie/reap/heavy"
      [] s = "zombie/reap/heavy"                         -> "zombie/reap/checking_lxc"
      [] s = "zombie/reap/checking_lxc"                  -> "zombie/reap/stopping_lxc"
      [] s = "zombie/reap/stopping_lxc"                  -> "zombie/reap/waiting_for_lxc"
      [] s = "zombie/reap/waiting_for_lxc"               -> "zombie/reap/killing_lxc"
      [] s = "zombie/reap/killing_lxc"                   -> "zombie/reap/releasing_cpuset"
      [] s = "zombie/reap/releasing_cpuset"              -> "zombie/reap/unlinking_iface"
      [] s = "zombie/reap/unlinking_iface"               -> "zombie/reap/removing_fw_rules"
      [] s = "zombie/reap/removing_fw_rules"             -> "zombie/reap/destroying_lxc"
      [] s = "zombie/reap/destroying_lxc"                -> "zombie/reap/unmounting_filesystems"
      [] s = "zombie/reap/unmounting_filesystems"        -> "zombie/reap/unheavy"
      [] s = "zombie/reap/unheavy"                       -> "zombie/reap/configuring_dhcpd"
      [] s = "zombie/reap/configuring_dhcpd"             -> "zombie/reap/configuring_usbip"
      [] s \in {"zombie/reap/configuring_usbip",
                "zombie/reap/delaying"}                  -> "zombie/db/clearing_runtime_row"
      [] s \in ZombieDb \ {"zombie/db/delaying"}         -> "stopped"
      [] OTHER                                           -> s

OnError(s) ==
    CASE s = "starting/db"                            -> "stopping/db"
      [] s \in CleanOld                               -> "zombie/reap/saving_state"
      [] s \in {"starting/os_fs", "starting/heavy"}   -> "stopping/os_fs"
      [] s \in Setup                                  -> "stopping/cleanup/saving_state"
      [] s \in Running \cup Debugging                 -> "stopping/stop/saving_state"
      [] s = "stopping/shutdown/shuttingdown"         -> "stopping/stop/saving_state"
      [] s = "stopping/cleanup/running_poststop_hook" -> "stopping/cleanup/destroying_lxc"
      [] s \in StoppingDb                             -> "zombie/db/clearing_runtime_row"
      [] s \in Stopping \ (StoppingDb \cup {"stopping/shutdown/shuttingdown",
                                             "stopping/cleanup/running_poststop_hook"})
                                                      -> "zombie/reap/saving_state"
      [] s = "zombie/config/saving_state"             -> "zombie/config/calculating_attrs"
      [] s = "zombie/reap/saving_state"               -> "zombie/reap/checking_dirty"
      [] s = "zombie/reap/checking_dirty"             -> "dirty"
      [] s = "zombie/reap/checking_lxc"               -> "zombie/reap/killing_lxc"
      [] s = "zombie/reap/destroying_lxc"             -> "zombie/reap/unmounting_filesystems"
      [] s \in Reap \ {"zombie/reap/saving_state", "zombie/reap/checking_dirty",
                        "zombie/reap/checking_lxc", "zombie/reap/destroying_lxc"}
                                                      -> "zombie/reap/delaying"
      [] s \in ZombieDb                               -> "zombie/db/delaying"
      [] OTHER                                        -> s

OnHkdKill(s) ==
    CASE s = "starting/db" \/ s \in CleanOld          -> "stopping/db"
      [] s \in {"starting/os_fs", "starting/heavy"}   -> "stopping/os_fs"
      [] s \in Setup                                  -> "stopping/cleanup/saving_state"
      [] s \in Monitored                              -> "stopping/stop/saving_state"
      [] s \in Shutdown                               -> "stopping/stop/saving_state"
      [] s \in Zombie \cup {"dirty"}                  -> "stopped"
      [] s = "none"                                   -> "ignore"
      [] OTHER                                        -> "delay"

\* Mutant: a handler that is starting ignores the event as well.
OnHkdStopNotStarting(s) ==
    IF s \in Starting \cup Zombie \cup {"dirty"} THEN "ignore" ELSE OnHkdKill(s)

\* zombie and dirty handlers ignore on_hkd_stop, in any other state it is
\* turned into on_hkd_kill when it arrives.
OnHkdStop(s) == IF s \in Zombie \cup {"dirty"} THEN "ignore" ELSE OnHkdKill(s)

\* Mutant: running/monitoring has lost its transition.
OnCmdStopNotRunning(s) ==
    CASE s \in {"starting/waiting_for_vma", "debugging/monitoring"} -> "stopping/stop/saving_state"
      [] s = "starting/heavy"                                       -> "stopping/os_fs"
      [] s = "none"                                                 -> "ignore"
      [] OTHER                                                      -> "delay"

OnCmdStop(s) ==
    CASE s = "starting/heavy"           -> "stopping/os_fs"
      [] s = "starting/waiting_for_vma" -> "stopping/stop/saving_state"
      [] s = "running/monitoring"       -> "stopping/shutdown/saving_state"
      [] s = "debugging/monitoring"     -> "stopping/stop/saving_state"
      [] s = "none"                     -> "ignore"
      [] OTHER                          -> "delay"

LxcAwaited == Monitored \cup {"stopping/shutdown/shuttingdown",
                              "stopping/shutdown/waiting_for_lxc",
                              "stopping/stop/waiting_for_lxc"}

\* Mutant: the exit of lxc-start is never delayed.
OnLxcDoneNotDelayed(s) ==
    IF s \in Monitored THEN "stopping/cleanup/saving_state" ELSE "ignore"

OnLxcDone(s) ==
    IF s \in LxcAwaited THEN "stopping/cleanup/saving_state"
    ELSE IF s = "zombie/reap/waiting_for_lxc" THEN "zombie/reap/killing_lxc"
    ELSE IF s \in (Running \cup Debugging \cup Stopping \cup Zombie) \ Cleanup THEN "delay"
    ELSE "ignore"

Target(e, s) ==
    CASE e = "hkd_kill" -> OnHkdKill(s)
      [] e = "cmd_stop" -> OnCmdStop(s)
      [] e = "lxc_done" -> OnLxcDone(s)

Events == {"hkd_kill", "cmd_stop", "lxc_done"}

\* Where an event whose disposition is t leaves the handler.
StateAfter(t, s) == IF t \in {"delay", "ignore"} THEN s ELSE t
PendAfter(t, e, p) == IF t = "delay" THEN p \cup {e} ELSE p

(***************************************************************************)
(* The node and the database.                                              *)
(***************************************************************************)
\* In the node: container processes, ebtables chains, mounts under the rootfs.
World == {"procs", "fw", "mnt"}
\* In the memory of HKD: cpus counted by the hypervisor, the dhcpd entry, an entry of
\* the table of hubs, and entries of that table that could not be released.
Memory == {"cpus", "dhcp", "vhci", "stray"}

\* host is TRUE when host_id names this node.
Rows == [host     : BOOLEAN,
         vm_state : {"stopped", "starting", "running", "debugging", "stopping", "zombie"},
         vm_cmd   : {"none", "start", "stop"}]

FreeRow == [host |-> FALSE, vm_state |-> "stopped", vm_cmd |-> "none"]

Fault(f) == f \in Faults

Holders == {v \in VMs : holds[v]}

\* Mutant: only vm_pid is looked at.
PidsOfLxcStart(v) == pid[v]

\* _kill_lxc collects the pids of the cgroup and vm_pid.
Pids(v) == pid[v] \/ "procs" \in res[v]

\* The enter method of v's substate has not given control back to the loop.
InCall(v) ==
    \/ st[v] \in Synchronous
    \/ st[v] \in HeavyDown /\ holds[v]
    \/ st[v] \in UnmountFilesystems /\ "mnt" \notin res[v]
    \/ st[v] \in KillLxc /\ (Pids(v) => kills[v] > KillerRetries)
    \/ st[v] = "starting/os_fs" /\ fs[v] = "idle"

\* Every delayed event was offered to the current substate, which delays it again.
Settled(v) == \A e \in pend[v] : Target(e, st[v]) = "delay"

\* The event loop may call into v's handler.
Ready(v) == st[v] # "none" => ~InCall(v) /\ Settled(v)

Goto(v, s) == st' = [st EXCEPT ![v] = s]

\* v's handler receives event e.
Receive(v, e) ==
    LET t == Target(e, st[v]) IN
    /\ Goto(v, StateAfter(t, st[v]))
    /\ pend' = [pend EXCEPT ![v] = PendAfter(t, e, @)]

OnlySt == <<hkd, pend, holds, pid, kills, fs, res, row, starts, disowned>>
StAndRes == <<hkd, pend, holds, pid, kills, fs, row, starts, disowned>>

(***************************************************************************)
(* The enter methods.                                                      *)
(***************************************************************************)
\* A query or a command that fails is retried or reported with _on_error.
Done(v) == Goto(v, OnDone(st[v]))
Fails(v, f) == Fault(f) /\ Goto(v, OnError(st[v]))

\* _load_row ... _incr_run_attempts and _incr_run_ok: queries that change
\* nothing the model keeps.
query(v) ==
    /\ st[v] \in {"starting/db", "running/updating_stats"}
    /\ Settled(v)
    /\ Done(v) \/ Fails(v, "query")
    /\ UNCHANGED OnlySt

\* The update names this host and must change one row.
save_state(v) ==
    /\ st[v] \in SaveState
    /\ Settled(v)
    /\ \/ /\ row[v].host
          /\ row' = [row EXCEPT ![v].vm_state = MainState(st[v])]
          /\ Done(v) \/ Fails(v, "query")
       \/ /\ row' = row
          /\ \/ ~row[v].host /\ Goto(v, OnError(st[v]))
             \/ Fails(v, "query")
    /\ UNCHANGED <<hkd, pend, holds, pid, kills, fs, res, starts, disowned>>

\* Mutant: one changed row is expected, as in _save_state.
clear_runtime_row_strict(v) ==
    /\ st[v] \in ClearRuntimeRow
    /\ Settled(v)
    /\ IF row[v].host
       THEN row' = [row EXCEPT ![v] = FreeRow] /\ Goto(v, OnDone(st[v]))
       ELSE row' = row /\ Goto(v, OnError(st[v]))
    /\ UNCHANGED <<hkd, pend, holds, pid, kills, fs, res, starts, disowned>>

\* The database executes the update ...  It may be a second try, whose first
\* one released the row: by now the VM may be assigned to this node again, and
\* a start command that is on its way loses its row.
clear_runtime_row(v) ==
    /\ st[v] \in ClearRuntimeRow
    /\ Settled(v)
    /\ \/ /\ row' = IF row[v].host THEN [row EXCEPT ![v] = FreeRow] ELSE row
          /\ disowned' = IF row[v].host /\ v \in starts THEN disowned \cup {v} ELSE disowned
          /\ Goto(v, IF st[v] = "stopping/db" THEN "stopping/db/cleared"
                                              ELSE "zombie/db/cleared")
       \/ Fails(v, "query") /\ UNCHANGED <<row, disowned>>
    /\ UNCHANGED <<hkd, pend, holds, pid, kills, fs, res, starts>>

\* ... and its reply, which does not check the number of rows, arrives.
row_cleared(v) ==
    /\ st[v] \in Cleared
    /\ Settled(v)
    /\ Done(v) \/ Fails(v, "query")
    /\ UNCHANGED OnlySt

\* Mutant: one handler too many.
heavy_down_off_by_one(v) ==
    /\ st[v] \in HeavyDown
    /\ holds[v] \/ (Settled(v) /\ Cardinality(Holders) <= MaxHeavy)
    /\ holds' = [holds EXCEPT ![v] = TRUE]
    /\ Done(v)
    /\ UNCHANGED <<hkd, pend, pid, kills, fs, res, row, starts, disowned>>

heavy_down(v) ==
    /\ st[v] \in HeavyDown
    /\ holds[v] \/ (Settled(v) /\ Cardinality(Holders) < MaxHeavy)
    /\ holds' = [holds EXCEPT ![v] = TRUE]
    /\ Done(v)
    /\ UNCHANGED <<hkd, pend, pid, kills, fs, res, row, starts, disowned>>

heavy_up(v) ==
    /\ st[v] \in HeavyUp
    /\ holds' = [holds EXCEPT ![v] = FALSE]
    /\ Done(v)
    /\ UNCHANGED <<hkd, pend, pid, kills, fs, res, row, starts, disowned>>

\* One pass of the killing loop.  It is an error when the hypervisor has no path of
\* the cgroup, or after too many passes; killer_count is never reset.
kill_lxc(v) ==
    /\ st[v] \in KillLxc
    /\ \/ ~Pids(v) /\ Done(v) /\ UNCHANGED <<kills, res>>
       \/ /\ \/ Pids(v) /\ kills[v] > KillerRetries
             \/ Fault("kill")
          /\ Goto(v, OnError(st[v]))
          /\ UNCHANGED <<kills, res>>
       \/ /\ Pids(v)
          /\ kills[v] <= KillerRetries
          /\ Settled(v)
          /\ "procs" \in res[v] \/ Fault("kill")
          /\ kills' = [kills EXCEPT ![v] = @ + 1]
          /\ \/ res' = [res EXCEPT ![v] = @ \ {"procs"}]
             \/ Fault("kill") /\ res' = res
          /\ st' = st
    /\ UNCHANGED <<hkd, pend, holds, pid, fs, row, starts, disowned>>

\* ip link del ignores errors, rmdir and unlink too, lxc-stop is run and
\* forgotten: all go on to the next substate.
unlink_iface(v) ==
    /\ st[v] \in UnlinkIface
    /\ Settled(v)
    /\ Done(v)
    /\ UNCHANGED OnlySt

destroy_lxc(v) == st[v] \in DestroyLxc /\ Done(v) /\ UNCHANGED OnlySt

stop_lxc(v) == st[v] \in StopLxc /\ Done(v) /\ UNCHANGED OnlySt

calculate_attrs(v) ==
    st[v] = "zombie/config/calculating_attrs" /\ Done(v) /\ UNCHANGED OnlySt

check_lxc(v) ==
    /\ st[v] = "zombie/reap/checking_lxc"
    /\ Goto(v, IF pid[v] THEN OnDone(st[v]) ELSE OnError(st[v]))
    /\ UNCHANGED OnlySt

check_dirty_flag(v) ==
    /\ st[v] \in CheckDirtyFlag
    /\ Done(v) \/ (DoesNotCleanup /\ Goto(v, OnError(st[v])))
    /\ UNCHANGED OnlySt

\* An error is reported only when the chain is still there.
remove_fw_rules(v) ==
    /\ st[v] \in RemoveFwRules
    /\ \/ Done(v) /\ res' = [res EXCEPT ![v] = @ \ {"fw"}]
       \/ "fw" \in res[v] /\ Fails(v, "cmd") /\ res' = res
    /\ UNCHANGED StAndRes

\* umount of every mount found under the rootfs.
unmount_filesystems(v) ==
    /\ st[v] \in UnmountFilesystems
    /\ \/ /\ "mnt" \in res[v] => Settled(v)
          /\ Done(v)
          /\ res' = [res EXCEPT ![v] = @ \ {"mnt"}]
       \/ "mnt" \in res[v] /\ Settled(v) /\ Fails(v, "umount") /\ res' = res
    /\ UNCHANGED StAndRes

\* Mutant: the cpus are not given back.
release_cpuset_leaky(v) == st[v] \in ReleaseCpuset /\ Done(v) /\ UNCHANGED OnlySt

release_cpuset(v) ==
    /\ st[v] \in ReleaseCpuset
    /\ Done(v)
    /\ res' = [res EXCEPT ![v] = @ \ {"cpus"}]
    /\ UNCHANGED StAndRes

rm_from_dhcpd(v) ==
    /\ st[v] \in RmFromDhcpd
    /\ Done(v)
    /\ res' = [res EXCEPT ![v] = @ \ {"dhcp"}]
    /\ UNCHANGED StAndRes

\* release_vhci_hub removes the directory of the VM and then clears one entry of the VM.
\* When it croaks, which is logged and no more, the handler goes on and the entry stays
\* in the table.  Of several entries nobody knows which one is cleared.
return_vhci_hub(v) ==
    /\ st[v] \in ReturnVhciHub
    /\ Done(v)
    /\ \/ res' = [res EXCEPT ![v] = @ \ {"vhci"}]
       \/ "vhci" \notin res[v] /\ res' = [res EXCEPT ![v] = @ \ {"stray"}]
       \/ /\ Fault("hub") /\ "vhci" \in res[v]
          /\ res' = [res EXCEPT ![v] = (@ \ {"vhci"}) \cup {"stray"}]
    /\ UNCHANGED StAndRes

run_hook(v) ==
    /\ st[v] \in RunHook
    /\ Settled(v)
    /\ Done(v) \/ Fails(v, "cmd")
    /\ UNCHANGED OnlySt

\* The setup of the container: every method either fails before it reserves
\* anything or reserves one thing.  Adding the ebtables rules may fail half way.
allocate_home_fs(v) ==
    /\ st[v] = "starting/setup/allocating_home_fs"
    /\ Done(v) \/ Fails(v, "cmd")
    /\ UNCHANGED OnlySt

add_to_dhcpd(v) ==
    /\ st[v] = "starting/setup/configuring_dhcpd"
    /\ Done(v)
    /\ res' = [res EXCEPT ![v] = @ \cup {"dhcp"}]
    /\ UNCHANGED StAndRes

\* reserve_vhci_hub puts the VM in the table first and may croak then: no hub is free,
\* or the directory of the VM cannot be made.  It goes on all the same, and so it does
\* without a VHCI handler: nobody knows here whether the machine has a hub.
request_vhci_hub(v) ==
    /\ st[v] = "starting/setup/configuring_usbip"
    /\ Done(v)
    /\ \/ res' = [res EXCEPT ![v] = @ \cup {"vhci"}]
       \/ Fault("hub") /\ res' = res
    /\ UNCHANGED StAndRes

create_lxc(v) ==
    /\ st[v] = "starting/setup/creating_lxc"
    /\ \/ Done(v) /\ res' = [res EXCEPT ![v] = @ \cup {"cpus"}]
       \/ Fails(v, "cmd") /\ res' = res
    /\ UNCHANGED StAndRes

set_fw_rules(v) ==
    /\ st[v] = "starting/setup/setting_fw_rules"
    /\ Done(v) \/ Fails(v, "cmd")
    /\ res' = [res EXCEPT ![v] = @ \cup {"fw"}]
    /\ UNCHANGED StAndRes

start_lxc(v) ==
    /\ st[v] = "starting/setup/launching"
    /\ Done(v)
    /\ pid' = [pid EXCEPT ![v] = TRUE]
    /\ res' = [res EXCEPT ![v] = @ \cup {"procs"}]
    /\ UNCHANGED <<hkd, pend, holds, kills, fs, row, starts, disowned>>

\* The poweroff RPC.  It is retried; a VMA that does not answer is an error.
shutdown(v) ==
    /\ st[v] = "stopping/shutdown/shuttingdown"
    /\ Settled(v)
    /\ Done(v) \/ Goto(v, OnError(st[v]))
    /\ UNCHANGED OnlySt

\* The expire RPC ignores errors.
expire(v) ==
    /\ st[v] = "running/expiring"
    /\ Settled(v)
    /\ Done(v)
    /\ UNCHANGED OnlySt

\* The timers armed by _set_state_timer.
state_timeout(v) ==
    /\ Settled(v)
    /\ \/ st[v] = "stopping/shutdown/waiting_for_lxc" /\ Goto(v, "stopping/stop/saving_state")
       \/ st[v] = "stopping/stop/waiting_for_lxc" /\ Goto(v, "stopping/cleanup/saving_state")
       \/ st[v] = "zombie/reap/waiting_for_lxc" /\ Goto(v, "zombie/reap/killing_lxc")
       \/ st[v] = "zombie/reap/delaying" /\ Goto(v, "zombie/reap/saving_state")
       \/ st[v] = "zombie/db/delaying" /\ Goto(v, "zombie/db/clearing_runtime_row")
    /\ UNCHANGED OnlySt

\* HKD forgets the handler, which drops its slot of the semaphore.  A mount
\* command of an LXC::FS agent that was still at work goes on without it.
on_stopped(v) ==
    /\ st[v] = "stopped"
    /\ Goto(v, "none")
    /\ pend'  = [pend EXCEPT ![v] = {}]
    /\ holds' = [holds EXCEPT ![v] = FALSE]
    /\ pid'   = [pid EXCEPT ![v] = FALSE]
    /\ kills' = [kills EXCEPT ![v] = 0]
    /\ fs'    = [fs EXCEPT ![v] = "idle"]
    /\ \/ res' = res
       \/ fs[v] = "setup" /\ res' = [res EXCEPT ![v] = @ \cup {"mnt"}]
    /\ UNCHANGED <<hkd, row, starts, disowned>>

(***************************************************************************)
(* The LXC::FS agent of v's handler.  Its callbacks are _on_done and       *)
(* _on_error of the handler, whatever the substate of the handler is then. *)
(***************************************************************************)
\* Mutant: the handler does not wait for the agent.
start_os_fs_nowait(v) ==
    /\ st[v] = "starting/os_fs"
    /\ fs[v] = "idle"
    /\ fs' = [fs EXCEPT ![v] = "setup"]
    /\ Done(v)
    /\ UNCHANGED <<hkd, pend, holds, pid, kills, res, row, starts, disowned>>

start_os_fs(v) ==
    /\ st[v] = "starting/os_fs"
    /\ fs[v] = "idle"
    /\ fs' = [fs EXCEPT ![v] = "setup"]
    /\ UNCHANGED <<hkd, st, pend, holds, pid, kills, res, row, starts, disowned>>

mount_root(v) ==
    /\ fs[v] = "setup"
    /\ fs' = [fs EXCEPT ![v] = "mounted"]
    /\ res' = [res EXCEPT ![v] = @ \cup {"mnt"}]
    /\ UNCHANGED <<hkd, st, pend, holds, pid, kills, row, starts, disowned>>

tell_running(v) ==
    /\ fs[v] = "mounted"
    /\ Ready(v)
    /\ fs' = [fs EXCEPT ![v] = "done"]
    /\ Done(v)
    /\ UNCHANGED <<hkd, pend, holds, pid, kills, res, row, starts, disowned>>

tell_error(v) ==
    /\ fs[v] = "setup"
    /\ Ready(v)
    /\ fs' = [fs EXCEPT ![v] = "done"]
    /\ Fails(v, "fs")
    /\ UNCHANGED <<hkd, pend, holds, pid, kills, res, row, starts, disowned>>

(***************************************************************************)
(* Events of the container and of its VMA.                                 *)
(***************************************************************************)
\* A delayed event is offered to the new substate, before or after the enter
\* method of that substate when the method does not wait.
delayed(v) ==
    \E e \in pend[v] :
        /\ Target(e, st[v]) # "delay"
        /\ Goto(v, StateAfter(Target(e, st[v]), st[v]))
        /\ pend' = [pend EXCEPT ![v] = @ \ {e}]
        /\ UNCHANGED <<hkd, holds, pid, kills, fs, res, row, starts, disowned>>

\* lxc-start exits: vm_pid is deleted and _on_lxc_done called.
lxc_done(v) ==
    /\ pid[v]
    /\ Ready(v)
    /\ pid' = [pid EXCEPT ![v] = FALSE]
    /\ \/ res' = [res EXCEPT ![v] = @ \ {"procs"}]
       \/ Fault("kill") /\ res' = res
    /\ Receive(v, "lxc_done")
    /\ UNCHANGED <<hkd, holds, kills, fs, row, starts, disowned>>

\* The processes of a container whose lxc-start is not a child of HKD go away.
procs_exit(v) ==
    /\ ~pid[v]
    /\ "procs" \in res[v]
    /\ res' = [res EXCEPT ![v] = @ \ {"procs"}]
    /\ UNCHANGED <<hkd, handlerVars, row, starts, disowned>>

vma_alive(v) ==
    /\ st[v] \in {"starting/waiting_for_vma", "debugging/monitoring"}
    /\ Settled(v)
    /\ Goto(v, "running/saving_state")
    /\ UNCHANGED OnlySt

\* max_count failures over more than max_time.
vma_failed(v) ==
    /\ st[v] \in {"starting/waiting_for_vma", "running/monitoring"}
    /\ Settled(v)
    /\ Goto(v, IF DebugEnable THEN "debugging/saving_state" ELSE "stopping/stop/saving_state")
    /\ UNCHANGED OnlySt

\* The soft limit: the user is told.  The hard limit is a stop command.  The
\* ExpirationMonitor is started after the zombies are caught and outlives the
\* handlers.
expired_soft(v) ==
    /\ hkd \notin {"down", "catching"}
    /\ st[v] = "running/monitoring"
    /\ Settled(v)
    /\ row[v].host /\ row[v].vm_state = "running"
    /\ Goto(v, "running/expiring")
    /\ UNCHANGED OnlySt

expired_hard(v) ==
    /\ hkd \notin {"down", "catching"}
    /\ st[v] # "none"
    /\ Ready(v)
    /\ row[v].host /\ row[v].vm_state = "running"
    /\ Receive(v, "cmd_stop")
    /\ UNCHANGED <<hkd, holds, pid, kills, fs, res, row, starts, disowned>>

(***************************************************************************)
(* Commands for the VMs.  L7R and the API write them in vm_runtimes, the   *)
(* VMCommandHandler takes them from there.                                 *)
(***************************************************************************)
\* A stopped VM is assigned to this node.
set_host_id(v) ==
    /\ ~row[v].host /\ row[v].vm_state = "stopped"
    /\ row' = [row EXCEPT ![v].host = TRUE]
    /\ UNCHANGED <<hkd, handlerVars, res, starts, disowned>>

\* The commands that valid_vm_cmd accepts in each vm_state.  L7R looks at a copy
\* of the row: its command may be late, for a row that is another by now.
send_vm_cmd(v) ==
    /\ \/ row[v].host /\ row[v].vm_state = "stopped" /\ row' = [row EXCEPT ![v].vm_cmd = "start"]
       \/ /\ row[v].host /\ row[v].vm_state \in {"starting", "running", "debugging"}
          /\ row' = [row EXCEPT ![v].vm_cmd = "stop"]
       \/ Fault("late") /\ \E c \in {"start", "stop"} : row' = [row EXCEPT ![v].vm_cmd = c]
    /\ UNCHANGED <<hkd, handlerVars, res, starts, disowned>>

\* A command disappears before HKD takes it: vm_stop of the API withdraws a
\* start, and the L7RKiller clears any command when it loads an abort.
withdraw_vm_cmd(v) ==
    /\ row[v].vm_cmd # "none"
    /\ row' = [row EXCEPT ![v].vm_cmd = "none"]
    /\ UNCHANGED <<hkd, handlerVars, res, starts, disowned>>

\* The database marks the row as starting; the reply is on its way to HKD.
load_start_cmds(v) ==
    /\ hkd \in {"running", "draining"}
    /\ row[v] = [host |-> TRUE, vm_state |-> "stopped", vm_cmd |-> "start"]
    /\ row' = [row EXCEPT ![v] = [@ EXCEPT !.vm_cmd = "none", !.vm_state = "starting"]]
    /\ starts' = starts \cup {v}
    /\ UNCHANGED <<hkd, handlerVars, res, disowned>>

\* _on_vm_cmd for a start: a live handler makes it a no-op; a daemon that is
\* no longer running makes it a stop, which the new handler answers by going
\* to stopping/db.
on_start_cmd(v) ==
    /\ v \in starts
    /\ Ready(v)
    /\ starts' = starts \ {v}
    /\ st' = IF st[v] # "none" THEN st
             ELSE [st EXCEPT ![v] = IF hkd = "running" THEN "starting/db" ELSE "stopping/db"]
    /\ UNCHANGED <<hkd, pend, holds, pid, kills, fs, res, row, disowned>>

\* The reply is lost and the query, tried again, finds no command.
lose_start_cmd(v) ==
    /\ Fault("reply")
    /\ v \in starts
    /\ starts' = starts \ {v}
    /\ UNCHANGED <<hkd, handlerVars, res, row, disowned>>

\* A stop command is removed from the row and given to the handler, if any.
on_stop_cmd(v) ==
    /\ hkd \in {"running", "draining"}
    /\ row[v].host /\ row[v].vm_cmd = "stop"
    /\ Ready(v)
    /\ row' = [row EXCEPT ![v].vm_cmd = "none"]
    /\ Receive(v, "cmd_stop")
    /\ UNCHANGED <<hkd, holds, pid, kills, fs, res, starts, disowned>>

\* Another node holds this one for lost and takes its VMs away.
unassign_vms(v) ==
    /\ Fault("lost")
    /\ row[v].host /\ row[v].vm_state # "stopped"
    /\ row' = [row EXCEPT ![v] = [@ EXCEPT !.host = FALSE, !.vm_state = "stopped"]]
    /\ disowned' = disowned \cup {v}
    /\ UNCHANGED <<hkd, handlerVars, res, starts>>

(***************************************************************************)
(* The daemon.  "catching" is starting/setup/catching_zombie_vms,          *)
(* "draining" the stopping substates up to stopping_vm_command_handler and *)
(* "drained" those from there to stopping_all_vms; the start-up before it  *)
(* catches zombies and the shutdown after the last VM has gone touch none  *)
(* of this state and are part of "down".                                   *)
(***************************************************************************)
NoVms == \A v \in VMs : st[v] = "none"

AllReady == \A v \in VMs : Ready(v)

\* Every handler is sent the event with disposition D(s).
ToAll(D(_)) ==
    /\ AllReady
    /\ st' = [v \in VMs |-> StateAfter(D(st[v]), st[v])]
    /\ pend' = [v \in VMs |-> PendAfter(D(st[v]), "hkd_kill", pend[v])]

\* _search_zombie_vms and _catch_zombie_vms.
catch_zombie_vms ==
    /\ hkd = "down"
    /\ hkd' = "catching"
    /\ st' = [v \in VMs |-> IF row[v].host /\ row[v].vm_state # "stopped"
                            THEN "zombie/config/saving_state" ELSE "none"]
    /\ UNCHANGED <<pend, holds, pid, kills, fs, res, row, starts, disowned>>

hkd_running ==
    /\ hkd = "catching" /\ NoVms
    /\ hkd' = "running"
    /\ UNCHANGED <<handlerVars, res, row, starts, disowned>>

\* A stop command for the node, a dead database or a ticker error.  While it
\* catches zombies HKD has no VMCommandHandler to wait for.
hkd_stop ==
    /\ hkd \in {"catching", "running"}
    /\ hkd' = IF hkd = "running" THEN "draining" ELSE "drained"
    /\ UNCHANGED <<handlerVars, res, row, starts, disowned>>

\* The VMCommandHandler delays on_hkd_stop until it has delivered what it loaded.
vm_command_handler_stopped ==
    /\ hkd = "draining" /\ starts = {}
    /\ hkd' = "drained"
    /\ UNCHANGED <<handlerVars, res, row, starts, disowned>>

stop_all_vms ==
    /\ hkd = "drained"
    /\ hkd' = "stopping_all_vms"
    /\ ToAll(OnHkdStop)
    /\ UNCHANGED <<holds, pid, kills, fs, res, row, starts, disowned>>

\* After a timeout, and again and again until no handler is left.
kill_all_vms ==
    /\ hkd \in {"stopping_all_vms", "killing_all_vms"}
    /\ ~NoVms
    /\ hkd' = "killing_all_vms"
    /\ ToAll(OnHkdKill)
    /\ UNCHANGED <<holds, pid, kills, fs, res, row, starts, disowned>>

\* Mutant: the end of the last handler is not waited for once they are killed.
hkd_exit_stopping ==
    /\ hkd = "stopping_all_vms" /\ NoVms
    /\ hkd' = "down"
    /\ res' = [v \in VMs |-> res[v] \cap World]
    /\ UNCHANGED <<handlerVars, row, starts, disowned>>

hkd_exit ==
    /\ hkd \in {"stopping_all_vms", "killing_all_vms"} /\ NoVms
    /\ hkd' = "down"
    /\ res' = [v \in VMs |-> res[v] \cap World]
    /\ UNCHANGED <<handlerVars, row, starts, disowned>>

\* HKD dies: what it kept in memory is gone, what it did to the node stays.
hkd_crash ==
    /\ Fault("crash")
    /\ hkd # "down"
    /\ hkd' = "down"
    /\ st' = [v \in VMs |-> "none"]
    /\ pend' = [v \in VMs |-> {}]
    /\ holds' = [v \in VMs |-> FALSE]
    /\ pid' = [v \in VMs |-> FALSE]
    /\ kills' = [v \in VMs |-> 0]
    /\ fs' = [v \in VMs |-> "idle"]
    /\ \E M \in SUBSET {v \in VMs : fs[v] = "setup"} :
          res' = [v \in VMs |-> (res[v] \cap World) \cup (IF v \in M THEN {"mnt"} ELSE {})]
    /\ starts' = {}
    /\ UNCHANGED <<row, disowned>>

(***************************************************************************)
(* The specification.                                                      *)
(***************************************************************************)
Init ==
    /\ hkd = "down"
    /\ st = [v \in VMs |-> "none"]
    /\ pend = [v \in VMs |-> {}]
    /\ holds = [v \in VMs |-> FALSE]
    /\ pid = [v \in VMs |-> FALSE]
    /\ kills = [v \in VMs |-> 0]
    /\ fs = [v \in VMs |-> "idle"]
    /\ res = [v \in VMs |-> {}]
    /\ row = [v \in VMs |-> FreeRow]
    /\ starts = {}
    /\ disowned = {}

\* The steps of v's handler that end without help from outside the node.
Enter(v) ==
    \/ query(v) \/ save_state(v) \/ clear_runtime_row(v) \/ row_cleared(v)
    \/ heavy_up(v) \/ kill_lxc(v) \/ unlink_iface(v) \/ destroy_lxc(v)
    \/ stop_lxc(v) \/ calculate_attrs(v) \/ check_lxc(v) \/ check_dirty_flag(v)
    \/ remove_fw_rules(v) \/ unmount_filesystems(v) \/ release_cpuset(v)
    \/ rm_from_dhcpd(v) \/ return_vhci_hub(v) \/ run_hook(v)
    \/ allocate_home_fs(v) \/ add_to_dhcpd(v) \/ request_vhci_hub(v)
    \/ create_lxc(v) \/ set_fw_rules(v) \/ start_lxc(v) \/ shutdown(v)
    \/ expire(v) \/ state_timeout(v) \/ on_stopped(v) \/ start_os_fs(v)
    \/ delayed(v)

FsAgent(v) == mount_root(v) \/ tell_running(v) \/ tell_error(v)

Container(v) == lxc_done(v) \/ procs_exit(v) \/ vma_alive(v) \/ vma_failed(v)

Commands(v) ==
    \/ expired_soft(v) \/ expired_hard(v) \/ set_host_id(v) \/ send_vm_cmd(v)
    \/ withdraw_vm_cmd(v)
    \/ load_start_cmds(v) \/ on_start_cmd(v) \/ lose_start_cmd(v)
    \/ on_stop_cmd(v) \/ unassign_vms(v)

Daemon ==
    \/ catch_zombie_vms \/ hkd_running \/ hkd_stop
    \/ vm_command_handler_stopped \/ stop_all_vms \/ kill_all_vms
    \/ hkd_exit \/ hkd_crash

Next ==
    \/ \E v \in VMs : Enter(v) \/ heavy_down(v) \/ FsAgent(v) \/ Container(v) \/ Commands(v)
    \/ Daemon

Spec == Init /\ [][Next]_vars

\* Every enter method ends: the database answers or the query fails, commands
\* and hooks exit, timers fire, a killed process exits.  The semaphore serves
\* its queue in order, and a timer of HKD fires between two calls of handlers.
Fairness ==
    /\ \A v \in VMs :
          /\ WF_vars(Enter(v))
          /\ SF_vars(heavy_down(v))
          /\ WF_vars(FsAgent(v))
          /\ SF_vars("procs" \notin res[v] /\ lxc_done(v))
          /\ WF_vars(st[v] = "starting/waiting_for_vma" /\ (vma_alive(v) \/ vma_failed(v)))
          /\ SF_vars(on_start_cmd(v))
          /\ SF_vars(on_stop_cmd(v))
    /\ WF_vars(hkd_running)
    /\ SF_vars(vm_command_handler_stopped)
    /\ SF_vars(stop_all_vms)
    /\ SF_vars(kill_all_vms)
    /\ WF_vars(hkd_exit)

FairSpec == Spec /\ Fairness

(***************************************************************************)
(* Properties.                                                             *)
(***************************************************************************)
TypeOK ==
    /\ hkd \in {"down", "catching", "running", "draining",
                "drained", "stopping_all_vms", "killing_all_vms"}
    /\ st \in [VMs -> States]
    /\ pend \in [VMs -> SUBSET Events]
    /\ holds \in [VMs -> BOOLEAN]
    /\ pid \in [VMs -> BOOLEAN]
    /\ kills \in [VMs -> 0 .. KillerRetries + 1]
    /\ fs \in [VMs -> {"idle", "setup", "mounted", "done"}]
    /\ res \in [VMs -> SUBSET (World \cup Memory)]
    /\ row \in [VMs -> Rows]
    /\ starts \subseteq VMs
    /\ disowned \subseteq VMs

\* While processes of a container exist the row of its VM names this node and
\* a state other than stopped: no failure, command or restart of HKD makes a
\* handler give up the row of a live container, which is what would let the
\* VM be started a second time.  A VM that lost its row
\* behind the back of its handler is out of this node's control.
ContainerOwned ==
    \A v \in VMs \ disowned :
        "procs" \in res[v] => row[v].host /\ row[v].vm_state # "stopped"

\* While HKD runs, a VM without a handler keeps no cpu of the hypervisor's
\* count and no dhcpd entry, and a VM that was not disowned has no container
\* processes and no ebtables chains in the node.  Every hub that was reserved
\* has been released or the handler has tried: a release that croaks leaves its
\* entry, "stray", in the table until HKD ends (README, section 6).
NothingLeft ==
    hkd = "running" =>
        \A v \in VMs :
            st[v] = "none" =>
                /\ res[v] \cap {"cpus", "dhcp", "vhci"} = {}
                /\ v \notin disowned => res[v] \cap {"procs", "fw"} = {}

\* lxc-start is run with the root file system mounted, the ebtables rules set,
\* the cpus and the dhcpd entry reserved, a slot of the semaphore, and no older
\* container of the same VM alive.  Whether it has a hub nobody looks at: a
\* machine is launched without one when the reservation croaks.
LaunchPrepared ==
    \A v \in VMs :
        st[v] = "starting/setup/launching" =>
            /\ {"mnt", "fw", "cpus", "dhcp"} \subseteq res[v]
            /\ "procs" \notin res[v]
            /\ ~pid[v]
            /\ holds[v]

\* The substates that start, stop or dismantle a container.
HeavyWork == Setup \cup {"starting/waiting_for_vma", "stopping/shutdown/shuttingdown",
                         "stopping/shutdown/waiting_for_lxc",
                         "stopping/stop/running_stop", "stopping/stop/waiting_for_lxc"}
               \cup (Cleanup \ {"stopping/cleanup/saving_state",
                                "stopping/cleanup/checking_dirty",
                                "stopping/cleanup/heavy"})
               \cup {"zombie/reap/checking_lxc", "zombie/reap/stopping_lxc",
                     "zombie/reap/waiting_for_lxc", "zombie/reap/killing_lxc",
                     "zombie/reap/releasing_cpuset", "zombie/reap/unlinking_iface",
                     "zombie/reap/removing_fw_rules", "zombie/reap/destroying_lxc",
                     "zombie/reap/unmounting_filesystems", "zombie/reap/unheavy"}

\* The heavy semaphore limits what it is for: at most MaxHeavy handlers are
\* busy with a container at a time, and one that only watches a running
\* machine, in running/monitoring or debugging/monitoring, holds no slot.
HeavyLimited ==
    /\ Cardinality({v \in VMs : st[v] \in HeavyWork}) <= MaxHeavy
    /\ \A v \in VMs :
          st[v] \in {"running/monitoring", "running/expiring", "debugging/monitoring"}
              => ~holds[v]

\* A handler that watches a container knows when it ends: its lxc-start is
\* still a child of HKD or the event of its exit waits in the queue.
LxcExitSeen ==
    \A v \in VMs :
        st[v] \in Running \cup Debugging \cup {"starting/waiting_for_vma"}
            => pid[v] \/ "lxc_done" \in pend[v]

\* Once HKD has told its handlers to stop none is left that would start or
\* watch its machine for ever: it is on its way down, or was already a zombie,
\* or has the event in its queue.
StopReachesAll ==
    hkd \in {"stopping_all_vms", "killing_all_vms"} =>
        \A v \in VMs :
            \/ st[v] \in Stopping \cup Zombie \cup {"none", "stopped", "dirty"}
            \/ "hkd_kill" \in pend[v]

\* A row marked as starting on a running node has a handler, or its start
\* command is on its way to HKD.  It does not hold: README, section 6.
StartNotIgnored ==
    hkd = "running" =>
        \A v \in VMs :
            row[v].host /\ row[v].vm_state = "starting" => st[v] # "none" \/ v \in starts

\* A daemon that begins to stop does stop, whatever its handlers are doing.
HkdTerminates == hkd \in {"draining", "drained"} ~> hkd = "down"

\* A stop command that reached a handler ends the machine: its handler goes
\* away or is left as a zombie or dirty.
StopHonoured ==
    \A v \in VMs :
        "cmd_stop" \in pend[v] ~> st[v] \in Zombie \cup {"none", "dirty"}

\* A zombie is reaped: the handler of a machine caught by a new HKD, or of one
\* that could not be stopped, goes away.
ZombieReaped == \A v \in VMs : st[v] \in Zombie ~> st[v] = "none"

=============================================================================
