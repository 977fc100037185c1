---------------------- MODULE LXCHandlerResourceProofs ----------------------
(***************************************************************************)
(* Proofs about what the handlers of one QVD node reserve, for any number  *)
(* of virtual machines: the slots of the heavy semaphore, and the cpus,    *)
(* dhcpd entries, hubs, ebtables chains, mounts and processes of the       *)
(* containers.                                                             *)
(***************************************************************************)
EXTENDS LXCHandlerProofs, FiniteSetTheorems

(***************************************************************************)
(* The inductive invariant.                                                *)
(***************************************************************************)
\* The substates before the launch of the container.
Begin == Starting \ {"starting/waiting_for_vma"}

\* The substates in which the container has been dismantled or was never built.
Ended == {"stopping/os_fs"} \cup StoppingDb \cup ZombieDb

\* What comes in the setup after the dhcpd entry, the hub and the cpus.
AfterDhcpd == {"starting/setup/configuring_usbip", "starting/setup/creating_lxc",
               "starting/setup/running_prestart_hook", "starting/setup/setting_fw_rules",
               "starting/setup/launching"}
AfterUsbip == AfterDhcpd \ {"starting/setup/configuring_usbip"}
AfterCreate == AfterUsbip \ {"starting/setup/creating_lxc"}

\* What comes after the mount of the root file system.
AfterOsFs == Setup \cup {"starting/heavy"}

\* What comes after the processes of an older container were found dead.
Killed == Begin \ {"starting/db", "starting/clean_old/killing_lxc"}

\* The substates in which nothing of a kind exists: not yet, or no longer.
NoCpus == (Begin \ AfterCreate) \cup Ended
            \cup {"stopping/cleanup/unlinking_iface", "stopping/cleanup/removing_fw_rules",
                  "stopping/cleanup/running_poststop_hook", "stopping/cleanup/destroying_lxc",
                  "stopping/cleanup/configuring_dhcpd", "stopping/cleanup/configuring_usbip",
                  "zombie/reap/unlinking_iface", "zombie/reap/removing_fw_rules",
                  "zombie/reap/destroying_lxc", "zombie/reap/unmounting_filesystems",
                  "zombie/reap/unheavy", "zombie/reap/configuring_dhcpd",
                  "zombie/reap/configuring_usbip"}
NoDhcp == (Begin \ AfterDhcpd) \cup Ended
            \cup {"stopping/cleanup/configuring_usbip", "zombie/reap/configuring_usbip"}
NoVhci == (Begin \ AfterUsbip) \cup Ended
NoFw == (Begin \ {"starting/setup/launching"}) \cup Ended
            \cup {"stopping/cleanup/running_poststop_hook", "stopping/cleanup/destroying_lxc",
                  "stopping/cleanup/configuring_dhcpd", "stopping/cleanup/configuring_usbip",
                  "zombie/reap/destroying_lxc", "zombie/reap/unmounting_filesystems",
                  "zombie/reap/unheavy", "zombie/reap/configuring_dhcpd",
                  "zombie/reap/configuring_usbip"}

\* The substates that only watch a machine.
Unheld == {"running/monitoring", "running/expiring", "debugging/monitoring"}

Gone == {"none", "stopped"}

\* The file system agent of v's handler has yet to call back.
Busy(v) == fs[v] \in {"setup", "mounted"}

\* The substates that an agent may call back into: its own or, once the handler
\* has been killed there, those that lead to the end of the handler.
Late == Ended \cup {"starting/os_fs", "stopped"}
          \cup (IF Fault("umount") THEN Reap \cup {"dirty"} ELSE {})

BusyLate(v) ==
    Busy(v) => st[v] \in Late /\ (st[v] # "starting/os_fs" => hkd \notin Calm)

\* The cpus, dhcpd entry and hub that HKD remembers.
MemoryFree(v) ==
    LET free == Busy(v) \/ (st[v] \in Gone /\ hkd \in Calm \cup {"down"}) IN
    /\ st[v] \in NoCpus \/ free => "cpus" \notin res[v]
    /\ st[v] \in NoDhcp \/ free => "dhcp" \notin res[v]
    /\ st[v] \in NoVhci \/ free => "vhci" \notin res[v]

\* The ebtables chains, which outlive HKD: the row of their machine leads the
\* next one to them.
FwFree(v) ==
    v \notin disowned =>
        /\ st[v] \in NoFw \/ Busy(v) \/ (st[v] \in Gone /\ hkd \in Calm) => "fw" \notin res[v]
        /\ "fw" \in res[v] => Mine(v)

\* What has been prepared for the container on the way to its launch.
Prepared(v) ==
    /\ st[v] \in AfterOsFs \/ (st[v] = "starting/os_fs" /\ fs[v] = "mounted")
           => "mnt" \in res[v]
    /\ st[v] \in AfterDhcpd => "dhcp" \in res[v]
    /\ st[v] \in AfterCreate => "cpus" \in res[v]
    /\ st[v] = "starting/setup/launching" => "fw" \in res[v]
    /\ st[v] \in Killed => "procs" \notin res[v]
    /\ st[v] \in Begin \cup {"none"} => ~pid[v]

\* The slots of the semaphore.  A file system agent that is told of its mount
\* after a failed umount moves the handler past zombie/reap/heavy without one.
SlotHeld(v) ==
    /\ hkd \in Calm \/ ~Fault("umount") => (st[v] \in HeavyWork => holds[v])
    /\ st[v] \in Setup => holds[v]
    /\ st[v] \in Unheld => ~holds[v]

Fit(v) == BusyLate(v) /\ MemoryFree(v) /\ FwFree(v) /\ Prepared(v) /\ SlotHeld(v)

SlotsCounted == IsFiniteSet(Holders) /\ Cardinality(Holders) <= MaxHeavy

RInv == IInv /\ SlotsCounted /\ \A v \in VMs : Fit(v)

(***************************************************************************)
(* Facts about the transition table.                                       *)
(***************************************************************************)
\* What the end of an enter method may claim of the next substate, and which
\* methods have to make it true.
LEMMA DoneTable ==
    ASSUME NEW s \in States
    PROVE  /\ OnDone(s) \in NoCpus => s \in NoCpus \cup ReleaseCpuset \cup {"zombie/reap/delaying"}
           /\ OnDone(s) \in NoDhcp => s \in NoDhcp \cup RmFromDhcpd \cup {"zombie/reap/delaying"}
           /\ OnDone(s) \in NoVhci => s \in NoVhci \cup ReturnVhciHub \cup {"zombie/reap/delaying"}
           /\ OnDone(s) \in NoFw => s \in NoFw \cup RemoveFwRules \cup {"zombie/reap/delaying"}
           /\ OnDone(s) \in HeavyWork => s \in HeavyWork \cup HeavyDown
           /\ OnDone(s) \in Unheld => s \in Unheld \cup HeavyUp
           /\ OnDone(s) \in AfterOsFs => s \in AfterOsFs \cup {"starting/os_fs"}
           /\ OnDone(s) \in AfterDhcpd => s \in AfterDhcpd \cup {"starting/setup/configuring_dhcpd"}
           /\ OnDone(s) \in AfterUsbip => s \in AfterUsbip \cup {"starting/setup/configuring_usbip"}
           /\ OnDone(s) \in AfterCreate => s \in AfterCreate \cup {"starting/setup/creating_lxc"}
           /\ OnDone(s) = "starting/setup/launching" => s = "starting/setup/setting_fw_rules"
           /\ OnDone(s) \in Killed => s \in Killed \cup {"starting/clean_old/killing_lxc"}
           /\ OnDone(s) \in Begin \cup {"none"} => s \in Begin \cup {"none"}
           /\ OnDone(s) \in Setup => s \in Setup \cup {"starting/heavy"}
           /\ OnDone(s) = "starting/os_fs" => s = "starting/clean_old/unmounting_filesystems"
           /\ s \in Late \ {"starting/os_fs"} => OnDone(s) \in Late
           /\ OnDone(s) \in Gone => s \in Ended \cup Gone
<1> USE DEF States, Starting, CleanOld, Setup, Running, Debugging, Stopping, Shutdown,
            Stop, Cleanup, StoppingDb, Zombie, ZombieConfig, Reap, ZombieDb, Begin, Ended,
            AfterDhcpd, AfterUsbip, AfterCreate, OnDone
<1>1. OnDone(s) \in NoCpus => s \in NoCpus \cup ReleaseCpuset \cup {"zombie/reap/delaying"}
  BY DEF NoCpus, ReleaseCpuset
<1>2. OnDone(s) \in NoDhcp => s \in NoDhcp \cup RmFromDhcpd \cup {"zombie/reap/delaying"}
  BY DEF NoDhcp, RmFromDhcpd
<1>3. OnDone(s) \in NoVhci => s \in NoVhci \cup ReturnVhciHub \cup {"zombie/reap/delaying"}
  BY DEF NoVhci, ReturnVhciHub
<1>4. OnDone(s) \in NoFw => s \in NoFw \cup RemoveFwRules \cup {"zombie/reap/delaying"}
  BY DEF NoFw, RemoveFwRules
<1>5. OnDone(s) \in HeavyWork => s \in HeavyWork \cup HeavyDown
  BY DEF HeavyWork, HeavyDown
<1>6. OnDone(s) \in Unheld => s \in Unheld \cup HeavyUp
  BY DEF Unheld, HeavyUp
<1>7. OnDone(s) \in AfterOsFs => s \in AfterOsFs \cup {"starting/os_fs"}
  BY DEF AfterOsFs
<1>8. OnDone(s) \in AfterDhcpd => s \in AfterDhcpd \cup {"starting/setup/configuring_dhcpd"}
  OBVIOUS
<1>9. OnDone(s) \in AfterUsbip => s \in AfterUsbip \cup {"starting/setup/configuring_usbip"}
  OBVIOUS
<1>10. OnDone(s) \in AfterCreate => s \in AfterCreate \cup {"starting/setup/creating_lxc"}
  OBVIOUS
<1>11. OnDone(s) = "starting/setup/launching" => s = "starting/setup/setting_fw_rules"
  OBVIOUS
<1>12. OnDone(s) \in Killed => s \in Killed \cup {"starting/clean_old/killing_lxc"}
  BY DEF Killed
<1>13. OnDone(s) \in Begin \cup {"none"} => s \in Begin \cup {"none"}
  OBVIOUS
<1>14. OnDone(s) \in Setup => s \in Setup \cup {"starting/heavy"}
  OBVIOUS
<1>15. OnDone(s) = "starting/os_fs" => s = "starting/clean_old/unmounting_filesystems"
  OBVIOUS
<1>16. s \in Late \ {"starting/os_fs"} => OnDone(s) \in Late
  BY DEF Late
<1>17. OnDone(s) \in Gone => s \in Ended \cup Gone
  BY DEF Gone
<1> QED BY <1>1, <1>2, <1>3, <1>4, <1>5, <1>6, <1>7, <1>8, <1>9, <1>10, <1>11, <1>12,
           <1>13, <1>14, <1>15, <1>16, <1>17

\* What may be claimed of the next substate without anything done for it.
Leads(s, t) ==
    /\ t \in NoCpus => s \in NoCpus
    /\ t \in NoDhcp => s \in NoDhcp
    /\ t \in NoVhci => s \in NoVhci
    /\ t \in NoFw => s \in NoFw
    /\ t \in HeavyWork => s \in HeavyWork
    /\ t \in Unheld => s \in Unheld
    /\ t \in AfterOsFs => s \in AfterOsFs
    /\ t \in AfterDhcpd => s \in AfterDhcpd
    /\ t \in AfterUsbip => s \in AfterUsbip
    /\ t \in AfterCreate => s \in AfterCreate
    /\ t = "starting/setup/launching" => s = "starting/setup/launching"
    /\ t \in Killed => s \in Killed
    /\ t \in Begin \cup {"none"} => s \in Begin \cup {"none"}
    /\ t \in Setup => s \in Setup
    /\ t = "starting/os_fs" => s = "starting/os_fs"
    /\ s \in Late => t \in Late

\* The substates whose enter method makes something true.
Making == ReleaseCpuset \cup RmFromDhcpd \cup ReturnVhciHub \cup RemoveFwRules \cup HeavyDown
            \cup HeavyUp \cup KillLxc \cup UnmountFilesystems
            \cup {"zombie/reap/delaying", "starting/os_fs", "starting/setup/configuring_dhcpd",
                  "starting/setup/configuring_usbip", "starting/setup/creating_lxc",
                  "starting/setup/setting_fw_rules"}

\* The end of any other method makes no claim.
LEMMA DoneLeads ==
    ASSUME NEW s \in States, s \notin Making
    PROVE  Leads(s, OnDone(s))
<1>1. s \notin KillLxc \cup UnmountFilesystems \cup HeavyDown \cup HeavyUp
  BY DEF Making
<1>2. s \notin ReleaseCpuset \cup RmFromDhcpd \cup ReturnVhciHub \cup RemoveFwRules
  BY DEF Making
<1>3. s \notin {"zombie/reap/delaying", "starting/os_fs", "starting/setup/configuring_dhcpd",
                "starting/setup/configuring_usbip", "starting/setup/creating_lxc",
                "starting/setup/setting_fw_rules", "starting/heavy",
                "starting/clean_old/killing_lxc", "starting/clean_old/unmounting_filesystems"}
  BY DEF Making, KillLxc, UnmountFilesystems, HeavyDown
<1> QED BY <1>1, <1>2, <1>3, DoneTable DEF Leads

\* A substate of which nothing is claimed may follow any other.
Unclaimed == {"running/saving_state", "running/updating_stats", "debugging/saving_state",
              "debugging/unheavy", "stopping/shutdown/saving_state", "stopping/stop/saving_state",
              "stopping/cleanup/saving_state", "zombie/reap/saving_state",
              "zombie/reap/checking_dirty", "zombie/reap/delaying",
              "zombie/config/calculating_attrs", "stopped", "dirty"}

\* Nothing is claimed of these.
LEMMA UnclaimedFacts ==
    ASSUME NEW t \in Unclaimed
    PROVE  /\ t \notin NoCpus \cup NoDhcp \cup NoVhci \cup NoFw \cup HeavyWork \cup Unheld
           /\ t \notin Begin \cup {"none"}
  BY DEF Unclaimed, NoCpus, NoDhcp, NoVhci, NoFw, HeavyWork, Unheld, Begin, Ended, Starting,
     CleanOld, Setup, Cleanup, StoppingDb, ZombieDb, AfterDhcpd, AfterUsbip, AfterCreate

\* The substates of the way to the launch are all before it.
LEMMA BeginFacts ==
    /\ AfterOsFs \cup Killed \cup AfterDhcpd \subseteq Begin
    /\ AfterCreate \subseteq AfterUsbip /\ AfterUsbip \subseteq AfterDhcpd
    /\ AfterDhcpd \subseteq Setup /\ Setup \subseteq AfterOsFs
    /\ {"starting/setup/launching", "starting/os_fs"} \subseteq Begin
    /\ Gone \cap Begin = {}
    /\ Ended \subseteq NoCpus \cap NoDhcp \cap NoVhci \cap NoFw
    /\ Gone \cap (Ended \cup HeavyWork \cup Unheld) = {}
    /\ Gone \cap (NoCpus \cup NoDhcp \cup NoVhci \cup NoFw) = {}
    /\ "starting/os_fs" \notin Ended
  BY DEF AfterOsFs, Killed, AfterDhcpd, AfterUsbip, AfterCreate, Begin, Gone, Starting, CleanOld,
     Setup, NoCpus, NoDhcp, NoVhci, NoFw, Ended, HeavyWork, Unheld, Cleanup, StoppingDb, ZombieDb,
     Late, HeavyDown, Reap

\* A transition within the claims: to an unclaimed substate, or nowhere.
LEMMA UnclaimedLeads ==
    ASSUME NEW s \in States, NEW t, t \in Unclaimed \/ t = s, s \in Late => t \in Late
    PROVE  Leads(s, t)
  BY UnclaimedFacts, BeginFacts DEF Leads

\* Errors and events claim nothing.  The failure of the umount is the one that
\* takes a handler from its end back to the reaping.
LEMMA EventTable ==
    ASSUME NEW s \in States
    PROVE  /\ s # "stopping/os_fs" \/ Fault("umount") => Leads(s, OnError(s))
           /\ Leads(s, StateAfter(OnCmdStop(s), s))
           /\ Leads(s, StateAfter(OnLxcDone(s), s))
           /\ Leads(s, StateAfter(OnHkdKill(s), s))
           /\ Leads(s, StateAfter(OnHkdStop(s), s))
           /\ OnError(s) \in Gone => s \in Ended \cup Gone
           /\ StateAfter(OnCmdStop(s), s) \in Gone => s \in Ended \cup Gone
           /\ StateAfter(OnLxcDone(s), s) \in Gone => s \in Ended \cup Gone
           /\ StateAfter(OnCmdStop("starting/os_fs"), "starting/os_fs") = "starting/os_fs"
           /\ StateAfter(OnLxcDone("starting/os_fs"), "starting/os_fs") = "starting/os_fs"
<1> USE DEF States, Starting, CleanOld, Setup, Running, Debugging, Stopping, Shutdown,
            Stop, Cleanup, StoppingDb, Zombie, ZombieConfig, Reap, ZombieDb
<1>1. s # "stopping/os_fs" \/ Fault("umount") => Leads(s, OnError(s))
  <2> USE DEF OnError, Begin, Ended, AfterDhcpd, AfterUsbip, AfterCreate
  <2>1. OnError(s) \in NoCpus => s \in NoCpus
    BY DEF NoCpus
  <2>2. OnError(s) \in NoDhcp => s \in NoDhcp
    BY DEF NoDhcp
  <2>3. OnError(s) \in NoVhci => s \in NoVhci
    BY DEF NoVhci
  <2>4. OnError(s) \in NoFw => s \in NoFw
    BY DEF NoFw
  <2>5. OnError(s) \in HeavyWork => s \in HeavyWork
    BY DEF HeavyWork
  <2>6. OnError(s) \in Unheld => s \in Unheld
    BY DEF Unheld
  <2>7. OnError(s) \in AfterOsFs => s \in AfterOsFs
    BY DEF AfterOsFs
  <2>8. OnError(s) \in AfterDhcpd => s \in AfterDhcpd
    OBVIOUS
  <2>9. OnError(s) \in AfterUsbip => s \in AfterUsbip
    OBVIOUS
  <2>10. OnError(s) \in AfterCreate => s \in AfterCreate
    OBVIOUS
  <2>11. OnError(s) \in Killed => s \in Killed
    BY DEF Killed
  <2>12. OnError(s) \in Setup => s \in Setup
    OBVIOUS
  <2>13. OnError(s) = "starting/setup/launching" => s = "starting/setup/launching"
    OBVIOUS
  <2>14. OnError(s) \in Begin \cup {"none"} => s \in Begin \cup {"none"}
    OBVIOUS
  <2>15. OnError(s) = "starting/os_fs" => s = "starting/os_fs"
    OBVIOUS
  <2>16. s # "stopping/os_fs" \/ Fault("umount") => (s \in Late => OnError(s) \in Late)
    BY DEF Late
  <2> HIDE DEF OnError, Begin, Ended, AfterDhcpd, AfterUsbip, AfterCreate, States, Setup
  <2> QED BY <2>1, <2>2, <2>3, <2>4, <2>5, <2>6, <2>7, <2>8,
             <2>9, <2>10, <2>11, <2>12, <2>13, <2>14, <2>15, <2>16
         DEF Leads
<1>2. Leads(s, StateAfter(OnCmdStop(s), s)) /\ (StateAfter(OnCmdStop(s), s) \in Gone => s \in Gone)
  <2>1. CASE s = "starting/heavy"
    BY <2>1 DEF Leads, OnCmdStop, StateAfter, NoCpus, NoDhcp, NoVhci, NoFw, HeavyWork, Unheld,
       Begin, Ended, AfterDhcpd, AfterUsbip, AfterCreate, AfterOsFs, Killed, Late, Gone
  <2>2. CASE s # "starting/heavy"
    <3>1. /\ StateAfter(OnCmdStop(s), s) \in Unclaimed \/ StateAfter(OnCmdStop(s), s) = s
          /\ StateAfter(OnCmdStop(s), s) \in Gone => s \in Gone
      BY <2>2 DEF OnCmdStop, StateAfter, Unclaimed, Gone
    <3>2. s \in Late => StateAfter(OnCmdStop(s), s) \in Late
      BY <2>2 DEF OnCmdStop, StateAfter, Late, Ended
    <3> HIDE DEF States
    <3> QED BY <3>1, <3>2, UnclaimedLeads
  <2> QED BY <2>1, <2>2
<1>3. Leads(s, StateAfter(OnLxcDone(s), s)) /\ (StateAfter(OnLxcDone(s), s) \in Gone => s \in Gone)
  <2>1. CASE s = "zombie/reap/waiting_for_lxc"
    BY <2>1 DEF Leads, OnLxcDone, LxcAwaited, Monitored, StateAfter, NoCpus, NoDhcp, NoVhci, NoFw,
       HeavyWork, Unheld, Begin, Ended, AfterDhcpd, AfterUsbip, AfterCreate, AfterOsFs, Killed,
       Late, Gone
  <2>2. CASE s # "zombie/reap/waiting_for_lxc"
    <3>1. /\ StateAfter(OnLxcDone(s), s) \in Unclaimed \/ StateAfter(OnLxcDone(s), s) = s
          /\ StateAfter(OnLxcDone(s), s) \in Gone => s \in Gone
      BY <2>2 DEF OnLxcDone, LxcAwaited, Monitored, StateAfter, Unclaimed, Gone
    <3>2. s \in Late => StateAfter(OnLxcDone(s), s) \in Late
      BY <2>2 DEF OnLxcDone, LxcAwaited, Monitored, StateAfter, Late, Ended
    <3> HIDE DEF States
    <3> QED BY <3>1, <3>2, UnclaimedLeads
  <2> QED BY <2>1, <2>2
<1>4. Leads(s, StateAfter(OnHkdKill(s), s))
  <2>1. CASE s \in {"starting/db", "starting/os_fs", "starting/heavy"} \cup CleanOld
    BY <2>1 DEF Leads, OnHkdKill, Monitored, StateAfter, NoCpus, NoDhcp, NoVhci, NoFw,
       HeavyWork, Unheld, Begin, Ended, AfterDhcpd, AfterUsbip, AfterCreate, AfterOsFs, Killed,
       Late
  <2>2. CASE s \notin {"starting/db", "starting/os_fs", "starting/heavy"} \cup CleanOld
    <3>1. StateAfter(OnHkdKill(s), s) \in Unclaimed \/ StateAfter(OnHkdKill(s), s) = s
      BY <2>2 DEF OnHkdKill, Monitored, StateAfter, Unclaimed
    <3>2. s \in Late => StateAfter(OnHkdKill(s), s) \in Late
      BY <2>2 DEF OnHkdKill, Monitored, StateAfter, Late, Ended
    <3> HIDE DEF States
    <3> QED BY <3>1, <3>2, UnclaimedLeads
  <2> QED BY <2>1, <2>2
<1>5. Leads(s, StateAfter(OnHkdStop(s), s))
  <2>1. Leads(s, s)
    BY DEF Leads
  <2> QED BY <1>4, <2>1 DEF OnHkdStop, StateAfter
<1>6. OnError(s) \in Gone => s \in Ended \cup Gone
  BY DEF OnError, Gone
<1>7. /\ StateAfter(OnCmdStop("starting/os_fs"), "starting/os_fs") = "starting/os_fs"
      /\ StateAfter(OnLxcDone("starting/os_fs"), "starting/os_fs") = "starting/os_fs"
  BY DEF OnCmdStop, OnLxcDone, LxcAwaited, Monitored, StateAfter
<1> QED BY <1>1, <1>2, <1>3, <1>4, <1>5, <1>6, <1>7

\* So do the substates that the actions name.
LEMMA NamedLeads ==
    /\ \A s \in States \ Late : \A t \in {"running/saving_state", "debugging/saving_state",
                                          "stopping/stop/saving_state",
                                          "stopping/cleanup/saving_state"} : Leads(s, t)
    /\ Leads("running/monitoring", "running/expiring")
    /\ Leads("zombie/reap/waiting_for_lxc", "zombie/reap/killing_lxc")
    /\ Leads("zombie/reap/delaying", "zombie/reap/saving_state")
    /\ Leads("zombie/db/delaying", "zombie/db/clearing_runtime_row")
    /\ Leads("stopping/db", "stopping/db/cleared")
    /\ Leads("zombie/db/clearing_runtime_row", "zombie/db/cleared")
    /\ {"starting/waiting_for_vma", "debugging/monitoring", "running/monitoring",
        "stopping/shutdown/waiting_for_lxc", "stopping/stop/waiting_for_lxc"} \cap Late = {}
    /\ \A s \in {"running/saving_state", "debugging/saving_state", "running/expiring",
                 "stopping/stop/saving_state", "stopping/cleanup/saving_state",
                 "zombie/reap/killing_lxc", "zombie/reap/saving_state",
                 "zombie/db/clearing_runtime_row", "zombie/db/cleared",
                 "stopping/db/cleared"} : s \notin Gone
<1>1. \A s \in States \ Late : \A t \in {"running/saving_state", "debugging/saving_state",
                                         "stopping/stop/saving_state",
                                         "stopping/cleanup/saving_state"} : Leads(s, t)
  BY UnclaimedLeads DEF Unclaimed
<1>2. Leads("running/monitoring", "running/expiring")
  BY DEF Leads, NoCpus, NoDhcp, NoVhci, NoFw, HeavyWork, Unheld, Begin, Ended, AfterDhcpd,
     AfterUsbip, AfterCreate, AfterOsFs, Killed, Late, Starting, CleanOld, Setup, Cleanup,
     StoppingDb, ZombieDb, Reap
<1>3. Leads("zombie/reap/waiting_for_lxc", "zombie/reap/killing_lxc")
  BY DEF Leads, NoCpus, NoDhcp, NoVhci, NoFw, HeavyWork, Unheld, Begin, Ended, AfterDhcpd,
     AfterUsbip, AfterCreate, AfterOsFs, Killed, Late, Starting, CleanOld, Setup, Cleanup,
     StoppingDb, ZombieDb, Reap
<1>4. Leads("zombie/reap/delaying", "zombie/reap/saving_state")
  <2>1. "zombie/reap/delaying" \in Late => "zombie/reap/saving_state" \in Late
    BY DEF Late, Reap, Ended, StoppingDb, ZombieDb
  <2>2. "zombie/reap/delaying" \in States
    BY DEF States, Zombie, Reap
  <2> QED BY <2>1, <2>2, UnclaimedLeads DEF Unclaimed
<1>5. \A s, t \in StoppingDb \cup ZombieDb : Leads(s, t)
  <2>1. StoppingDb \cup ZombieDb \subseteq Ended
    BY DEF Ended
  <2>2. StoppingDb \cup ZombieDb \subseteq Late
    BY DEF Late, Ended
  <2>3. (StoppingDb \cup ZombieDb) \cap (HeavyWork \cup Unheld \cup Begin \cup {"none"}) = {}
    BY DEF StoppingDb, ZombieDb, HeavyWork, Unheld, Begin, Starting, CleanOld, Setup, Cleanup
  <2> QED BY <2>1, <2>2, <2>3, BeginFacts DEF Leads
<1>6. /\ Leads("zombie/db/delaying", "zombie/db/clearing_runtime_row")
      /\ Leads("stopping/db", "stopping/db/cleared")
      /\ Leads("zombie/db/clearing_runtime_row", "zombie/db/cleared")
  BY <1>5 DEF StoppingDb, ZombieDb
<1>7. {"starting/waiting_for_vma", "debugging/monitoring", "running/monitoring",
       "stopping/shutdown/waiting_for_lxc", "stopping/stop/waiting_for_lxc"} \cap Late = {}
  BY DEF Late, Ended, StoppingDb, ZombieDb, Reap
<1> QED BY <1>1, <1>2, <1>3, <1>4, <1>6, <1>7 DEF Gone

(***************************************************************************)
(* Steps that reserve nothing and give nothing back.                       *)
(***************************************************************************)
\* Where handlers move, their substates claim nothing new, and while HKD is
\* calm a handler ends, or leaves its file system agent, only as it should.
PlainMove(w) ==
    /\ Leads(st[w], st'[w])
    /\ hkd' \in Calm \cup {"down"} =>
          /\ st'[w] \in Gone => st[w] \in Ended \cup Gone
          /\ st[w] = "starting/os_fs" => st'[w] = st[w] \/ ~Busy(w)
    /\ res'[w] \subseteq res[w]
    /\ res[w] \ {"procs"} \subseteq res'[w]
    /\ pid'[w] => pid[w]
    /\ w \notin disowned' /\ "fw" \in res'[w] /\ Mine(w) => Mine(w)'

PlainStep ==
    /\ hkd' \in Calm => hkd \in Calm
    /\ hkd' = "down" => hkd = "down"
    /\ UNCHANGED <<fs, holds>>
    /\ disowned \subseteq disowned'
    /\ \A w \in VMs : PlainMove(w)

\* Such a step keeps the invariant.
LEMMA PlainKeeps ==
    ASSUME RInv, PlainStep
    PROVE  SlotsCounted' /\ \A v \in VMs : Fit(v)'
<1>1. SlotsCounted'
  BY DEF RInv, SlotsCounted, Holders, PlainStep
<1>2. ASSUME NEW v \in VMs PROVE Fit(v)'
  <2>0. PlainMove(v) /\ Fit(v)
    BY DEF RInv, PlainStep
  <2>1. BusyLate(v)'
    BY <2>0 DEF Fit, BusyLate, PlainStep, PlainMove, Leads, Busy
  <2>2. MemoryFree(v)'
    BY <2>0, BeginFacts DEF Fit, MemoryFree, PlainStep, PlainMove, Leads, Busy
  <2>3. FwFree(v)'
    BY <2>0, BeginFacts DEF Fit, FwFree, PlainStep, PlainMove, Leads, Busy
  <2>4. Prepared(v)'
    BY <2>0 DEF Fit, Prepared, PlainStep, PlainMove, Leads
  <2>5. SlotHeld(v)'
    BY <2>0 DEF Fit, SlotHeld, PlainStep, PlainMove, Leads
  <2> QED BY <2>1, <2>2, <2>3, <2>4, <2>5 DEF Fit
<1> QED BY <1>1, <1>2

\* A handler that goes where nothing new is claimed, while its row is left to
\* it and no process is born, takes such a step.
LEMMA PlainGoto ==
    ASSUME TypeOK, NEW v \in VMs, NEW t, Goto(v, t), Leads(st[v], t),
           t \in Gone => st[v] \in Ended \cup Gone,
           st[v] = "starting/os_fs" => t = st[v],
           UNCHANGED <<hkd, holds, fs, disowned>>,
           \A w \in VMs : /\ "fw" \in res'[w] /\ Mine(w) => Mine(w)' \/ w \in disowned
                          /\ res'[w] \subseteq res[w]
                          /\ res[w] \ {"procs"} \subseteq res'[w]
                          /\ pid'[w] => pid[w]
    PROVE  PlainStep
<1>1. \A w \in VMs \ {v} : st'[w] = st[w]
  BY DEF TypeOK, Goto
<1>2. st'[v] = t
  BY DEF TypeOK, Goto
<1>3. \A w \in VMs : Leads(st[w], st'[w])
  BY <1>1, <1>2 DEF Leads
<1> QED BY <1>1, <1>2, <1>3 DEF PlainStep, PlainMove

\* The end and the failure of an enter method that makes nothing true.
LEMMA PlainEnter ==
    ASSUME TypeOK, NEW v \in VMs, st[v] \notin Making,
           Goto(v, OnDone(st[v])) \/ Goto(v, OnError(st[v])),
           UNCHANGED <<hkd, holds, fs, pid, res, disowned>>,
           \A w \in VMs : Mine(w) => Mine(w)'
    PROVE  PlainStep
<1>1. st[v] \in States /\ st[v] # "stopping/os_fs" /\ st[v] # "starting/os_fs"
  BY DEF TypeOK, Making, UnmountFilesystems
<1>2. CASE Goto(v, OnDone(st[v]))
  BY <1>1, <1>2, DoneLeads, DoneTable, PlainGoto
<1>3. CASE Goto(v, OnError(st[v]))
  BY <1>1, <1>3, EventTable, PlainGoto
<1> QED BY <1>2, <1>3

\* The enter methods of Making are told apart by their substates.
LEMMA MakingApart ==
    /\ {"starting/db", "running/updating_stats", "zombie/config/calculating_attrs",
        "zombie/reap/checking_lxc", "starting/setup/allocating_home_fs",
        "stopping/shutdown/shuttingdown", "running/expiring"} \cap Making = {}
    /\ SaveState \cap Making = {}
    /\ Cleared \cap Making = {}
    /\ UnlinkIface \cap Making = {}
    /\ DestroyLxc \cap Making = {}
    /\ StopLxc \cap Making = {}
    /\ CheckDirtyFlag \cap Making = {}
    /\ RunHook \cap Making = {}
  BY DEF Making, ReleaseCpuset, RmFromDhcpd, ReturnVhciHub, RemoveFwRules, HeavyDown, HeavyUp,
     KillLxc, UnmountFilesystems, SaveState, Cleared, UnlinkIface, DestroyLxc, StopLxc,
     CheckDirtyFlag, RunHook

\* The enter methods that make nothing true.
PlainMethods(v) ==
    \/ query(v) \/ save_state(v) \/ row_cleared(v) \/ unlink_iface(v) \/ destroy_lxc(v)
    \/ stop_lxc(v) \/ calculate_attrs(v) \/ check_lxc(v) \/ check_dirty_flag(v)
    \/ run_hook(v) \/ allocate_home_fs(v) \/ shutdown(v) \/ expire(v)

\* They are plain steps.
LEMMA PlainMethodsStep ==
    ASSUME TypeOK, NEW v \in VMs, PlainMethods(v)
    PROVE  PlainStep
<1>1. ASSUME query(v) PROVE PlainStep
  BY <1>1, PlainEnter, MakingApart DEF query, Done, Fails, OnlySt, Mine
<1>2. ASSUME row_cleared(v) PROVE PlainStep
  BY <1>2, PlainEnter, MakingApart DEF row_cleared, Done, Fails, OnlySt, Mine
<1>3. ASSUME unlink_iface(v) PROVE PlainStep
  BY <1>3, PlainEnter, MakingApart DEF unlink_iface, Done, Fails, OnlySt, Mine
<1>4. ASSUME destroy_lxc(v) PROVE PlainStep
  BY <1>4, PlainEnter, MakingApart DEF destroy_lxc, Done, Fails, OnlySt, Mine
<1>5. ASSUME stop_lxc(v) PROVE PlainStep
  BY <1>5, PlainEnter, MakingApart DEF stop_lxc, Done, Fails, OnlySt, Mine
<1>6. ASSUME calculate_attrs(v) PROVE PlainStep
  BY <1>6, PlainEnter, MakingApart DEF calculate_attrs, Done, Fails, OnlySt, Mine
<1>7. ASSUME check_lxc(v) PROVE PlainStep
  BY <1>7, PlainEnter, MakingApart DEF check_lxc, Done, Fails, OnlySt, Mine
<1>8. ASSUME check_dirty_flag(v) PROVE PlainStep
  BY <1>8, PlainEnter, MakingApart DEF check_dirty_flag, Done, Fails, OnlySt, Mine
<1>9. ASSUME run_hook(v) PROVE PlainStep
  BY <1>9, PlainEnter, MakingApart DEF run_hook, Done, Fails, OnlySt, Mine
<1>10. ASSUME allocate_home_fs(v) PROVE PlainStep
  BY <1>10, PlainEnter, MakingApart DEF allocate_home_fs, Done, Fails, OnlySt, Mine
<1>11. ASSUME shutdown(v) PROVE PlainStep
  BY <1>11, PlainEnter, MakingApart DEF shutdown, Done, Fails, OnlySt, Mine
<1>12. ASSUME expire(v) PROVE PlainStep
  BY <1>12, PlainEnter, MakingApart DEF expire, Done, Fails, OnlySt, Mine
<1>13. ASSUME save_state(v) PROVE PlainStep
  <2>1. Goto(v, OnDone(st[v])) \/ Goto(v, OnError(st[v]))
    BY <1>13 DEF save_state, Done, Fails
  <2>2. ASSUME NEW w \in VMs, Mine(w) PROVE Mine(w)'
    <3>1. row[v] \in Rows /\ row[w] \in Rows
      BY DEF TypeOK
    <3>2. MainState(st[v]) # "stopped"
      BY <1>13, SavedStates DEF save_state
    <3> QED BY <1>13, <2>2, <3>1, <3>2 DEF TypeOK, save_state, Mine, Rows
  <2> QED BY <1>13, <2>1, <2>2, PlainEnter, MakingApart DEF save_state
<1> QED BY <1>1, <1>2, <1>3, <1>4, <1>5, <1>6, <1>7, <1>8, <1>9, <1>10, <1>11, <1>12, <1>13 DEF PlainMethods

\* The timers, the events of the container and of the daemon, and the commands.
PlainEvents(v) ==
    \/ clear_runtime_row(v) \/ state_timeout(v) \/ delayed(v) \/ lxc_done(v) \/ procs_exit(v)
    \/ vma_alive(v) \/ vma_failed(v) \/ expired_soft(v) \/ expired_hard(v) \/ on_stop_cmd(v)
    \/ set_host_id(v) \/ send_vm_cmd(v) \/ withdraw_vm_cmd(v) \/ load_start_cmds(v)
    \/ lose_start_cmd(v) \/ unassign_vms(v)

\* A step that leaves the handlers alone and no machine without its row, but
\* for one that it disowns.
LEMMA PlainRow ==
    ASSUME UNCHANGED <<hkd, st, holds, pid, fs>>, disowned \subseteq disowned',
           \A w \in VMs : /\ res'[w] \subseteq res[w]
                          /\ res[w] \ {"procs"} \subseteq res'[w]
                          /\ w \notin disowned' /\ Mine(w) => Mine(w)'
    PROVE  PlainStep
  BY DEF PlainStep, PlainMove, Leads

\* They are plain steps.
LEMMA PlainEventsStep ==
    ASSUME RInv, NEW v \in VMs, PlainEvents(v)
    PROVE  PlainStep
<1>0. TypeOK /\ st[v] \in States /\ row \in [VMs -> Rows] /\ res \in [VMs -> SUBSET (World \cup Memory)]
  BY DEF RInv, IInv, TypeOK
<1>1. ASSUME state_timeout(v) PROVE PlainStep
  <2>1. {"stopping/shutdown/waiting_for_lxc", "stopping/stop/waiting_for_lxc"} \subseteq States \ Late
    BY NamedLeads DEF States, Stopping, Shutdown, Stop
  <2> QED BY <1>0, <1>1, <2>1, PlainGoto, NamedLeads DEF state_timeout, OnlySt, Mine
<1>2. ASSUME vma_alive(v) PROVE PlainStep
  <2>1. st[v] \in States \ Late
    BY <1>0, <1>2, NamedLeads DEF vma_alive
  <2> QED BY <1>0, <1>2, <2>1, PlainGoto, NamedLeads DEF vma_alive, OnlySt, Mine
<1>3. ASSUME vma_failed(v) PROVE PlainStep
  <2>1. st[v] \in States \ Late
    BY <1>0, <1>3, NamedLeads DEF vma_failed
  <2> QED BY <1>0, <1>3, <2>1, PlainGoto, NamedLeads DEF vma_failed, OnlySt, Mine
<1>4. ASSUME expired_soft(v) PROVE PlainStep
  BY <1>0, <1>4, PlainGoto, NamedLeads DEF expired_soft, OnlySt, Mine
<1>5. ASSUME expired_hard(v) PROVE PlainStep
  <2>1. Goto(v, StateAfter(OnCmdStop(st[v]), st[v]))
    BY <1>5 DEF expired_hard, Receive, Target
  <2> QED BY <1>0, <1>5, <2>1, PlainGoto, EventTable DEF expired_hard, Mine
<1>6. ASSUME on_stop_cmd(v) PROVE PlainStep
  <2>1. Goto(v, StateAfter(OnCmdStop(st[v]), st[v]))
    BY <1>6 DEF on_stop_cmd, Receive, Target
  <2>2. \A w \in VMs : Mine(w) => Mine(w)'
    BY <1>0, <1>6 DEF on_stop_cmd, Mine, Rows
  <2> QED BY <1>0, <1>6, <2>1, <2>2, PlainGoto, EventTable DEF on_stop_cmd
<1>7. ASSUME lxc_done(v) PROVE PlainStep
  <2>1. Goto(v, StateAfter(OnLxcDone(st[v]), st[v]))
    BY <1>7 DEF lxc_done, Receive, Target
  <2>2. \A w \in VMs : /\ res'[w] \subseteq res[w]
                       /\ res[w] \ {"procs"} \subseteq res'[w]
                       /\ pid'[w] => pid[w]
    BY <1>0, <1>7 DEF lxc_done, TypeOK
  <2> QED BY <1>0, <1>7, <2>1, <2>2, PlainGoto, EventTable DEF lxc_done, Mine
<1>8. ASSUME delayed(v) PROVE PlainStep
  <2>1. PICK e \in pend[v] :
             /\ Goto(v, StateAfter(Target(e, st[v]), st[v]))
             /\ pend' = [pend EXCEPT ![v] = @ \ {e}]
             /\ UNCHANGED <<hkd, holds, pid, kills, fs, res, row, starts, disowned>>
    BY <1>8 DEF delayed
  <2>2. e \in Events
    BY <1>0, <2>1 DEF TypeOK
  <2>3. CASE e = "cmd_stop"
    <3>1. Goto(v, StateAfter(OnCmdStop(st[v]), st[v]))
      BY <2>1, <2>3 DEF Target
    <3> QED BY <1>0, <2>1, <3>1, PlainGoto, EventTable DEF Mine
  <2>4. CASE e = "lxc_done"
    <3>1. Goto(v, StateAfter(OnLxcDone(st[v]), st[v]))
      BY <2>1, <2>4 DEF Target
    <3> QED BY <1>0, <2>1, <3>1, PlainGoto, EventTable DEF Mine
  <2>5. CASE e = "hkd_kill"
    <3>1. st'[v] = StateAfter(OnHkdKill(st[v]), st[v]) /\ \A w \in VMs \ {v} : st'[w] = st[w]
      BY <1>0, <2>1, <2>5 DEF Target, Goto, TypeOK
    <3>2. \A w \in VMs : Leads(st[w], st'[w])
      BY <1>0, <3>1, EventTable DEF Leads
    <3>3. hkd \notin Calm
      BY <2>5 DEF RInv, IInv, KillsPending
    <3>4. hkd # "down"
      BY <2>5 DEF RInv, IInv, KillsPending, DownEmpty
    <3> QED BY <2>1, <3>2, <3>3, <3>4 DEF PlainStep, PlainMove, Mine
  <2> QED BY <2>2, <2>3, <2>4, <2>5 DEF Events
<1>9. ASSUME clear_runtime_row(v) PROVE PlainStep
  <2>1. st[v] \in Ended /\ st[v] \notin Making
    BY <1>9 DEF clear_runtime_row, ClearRuntimeRow, Ended, StoppingDb, ZombieDb, Making,
       ReleaseCpuset, RmFromDhcpd, ReturnVhciHub, RemoveFwRules, HeavyDown, HeavyUp, KillLxc,
       UnmountFilesystems
  <2>2. CASE UNCHANGED <<row, disowned>> /\ Goto(v, OnError(st[v]))
    BY <1>0, <1>9, <2>1, <2>2, PlainEnter DEF clear_runtime_row, Mine
  <2>3. CASE /\ row' = IF row[v].host THEN [row EXCEPT ![v] = FreeRow] ELSE row
             /\ disowned' = IF row[v].host /\ v \in starts THEN disowned \cup {v} ELSE disowned
             /\ Goto(v, IF st[v] = "stopping/db" THEN "stopping/db/cleared"
                                                 ELSE "zombie/db/cleared")
    <3>1. v \in disowned \/ "fw" \notin res[v]
      BY <2>1, BeginFacts DEF RInv, Fit, FwFree
    <3>2. \A w \in VMs : "fw" \in res'[w] /\ Mine(w) => Mine(w)' \/ w \in disowned
      BY <1>0, <1>9, <2>3, <3>1 DEF clear_runtime_row, Mine
    <3>3. st'[v] = IF st[v] = "stopping/db" THEN "stopping/db/cleared" ELSE "zombie/db/cleared"
      BY <1>0, <2>3 DEF Goto, TypeOK
    <3>4. Leads(st[v], st'[v]) /\ st'[v] \notin Gone /\ st[v] # "starting/os_fs"
      BY <1>9, <3>3, NamedLeads DEF clear_runtime_row, ClearRuntimeRow
    <3>5. \A w \in VMs \ {v} : st'[w] = st[w]
      BY <1>0, <2>3 DEF Goto, TypeOK
    <3>6. \A w \in VMs : Leads(st[w], st'[w])
      BY <3>4, <3>5 DEF Leads
    <3>7. disowned \subseteq disowned'
      BY <2>3
    <3> QED BY <1>9, <3>2, <3>4, <3>5, <3>6, <3>7 DEF clear_runtime_row, PlainStep, PlainMove
  <2> QED BY <1>9, <2>2, <2>3 DEF clear_runtime_row, Fails
<1>10. ASSUME procs_exit(v) PROVE PlainStep
  BY <1>0, <1>10, PlainRow DEF procs_exit, handlerVars, Mine
<1>11. ASSUME set_host_id(v) PROVE PlainStep
  BY <1>0, <1>11, PlainRow DEF set_host_id, handlerVars, Mine, Rows
<1>12. ASSUME send_vm_cmd(v) PROVE PlainStep
  BY <1>0, <1>12, PlainRow DEF send_vm_cmd, handlerVars, Mine, Rows
<1>13. ASSUME withdraw_vm_cmd(v) PROVE PlainStep
  BY <1>0, <1>13, PlainRow DEF withdraw_vm_cmd, handlerVars, Mine, Rows
<1>14. ASSUME load_start_cmds(v) PROVE PlainStep
  BY <1>0, <1>14, PlainRow DEF load_start_cmds, handlerVars, Mine, Rows
<1>15. ASSUME lose_start_cmd(v) PROVE PlainStep
  BY <1>0, <1>15, PlainRow DEF lose_start_cmd, handlerVars, Mine
<1>16. ASSUME unassign_vms(v) PROVE PlainStep
  BY <1>0, <1>16, PlainRow DEF unassign_vms, handlerVars, Mine
<1> QED BY <1>1, <1>2, <1>3, <1>4, <1>5, <1>6, <1>7, <1>8, <1>9, <1>10, <1>11, <1>12, <1>13,
           <1>14, <1>15, <1>16 DEF PlainEvents

\* The steps of the daemon that neither begin nor end its life.
LEMMA PlainDaemon ==
    ASSUME RInv, hkd_running \/ hkd_stop \/ vm_command_handler_stopped \/ stop_all_vms
                   \/ kill_all_vms \/ UNCHANGED vars
    PROVE  PlainStep
<1>0. TypeOK /\ \A v \in VMs : st[v] \in States
  BY DEF RInv, IInv, TypeOK
<1>1. CASE hkd_running \/ hkd_stop \/ vm_command_handler_stopped \/ UNCHANGED vars
  BY <1>1 DEF hkd_running, hkd_stop, vm_command_handler_stopped, vars, handlerVars, PlainStep,
     PlainMove, Leads, Calm, Mine
<1>2. CASE stop_all_vms
  <2>1. \A w \in VMs : Leads(st[w], st'[w])
    BY <1>0, <1>2, EventTable DEF stop_all_vms, ToAll
  <2>2. hkd' \notin Calm \cup {"down"}
    BY <1>2 DEF stop_all_vms, Calm
  <2> QED BY <1>2, <2>1, <2>2 DEF stop_all_vms, PlainStep, PlainMove, Mine
<1>3. CASE kill_all_vms
  <2>1. \A w \in VMs : Leads(st[w], st'[w])
    BY <1>0, <1>3, EventTable DEF kill_all_vms, ToAll
  <2>2. hkd' \notin Calm \cup {"down"}
    BY <1>3 DEF kill_all_vms, Calm
  <2> QED BY <1>3, <2>1, <2>2 DEF kill_all_vms, PlainStep, PlainMove, Mine
<1> QED BY <1>1, <1>2, <1>3

(***************************************************************************)
(* Steps that reserve something or give it back.                           *)
(***************************************************************************)
\* Nothing changes but for v.
Elsewhere(v) ==
    /\ UNCHANGED <<hkd, disowned>>
    /\ \A w \in VMs \ {v} : /\ st'[w] = st[w] /\ fs'[w] = fs[w] /\ res'[w] = res[w]
                            /\ holds'[w] = holds[w] /\ pid'[w] = pid[w] /\ row'[w] = row[w]

\* It is then enough to look at v.
LEMMA ElsewhereKeeps ==
    ASSUME RInv, NEW v \in VMs, Elsewhere(v), Fit(v)'
    PROVE  \A w \in VMs : Fit(w)'
<1> SUFFICES ASSUME NEW w \in VMs \ {v} PROVE Fit(w)'
  OBVIOUS
<1>0. Fit(w)
  BY DEF RInv
<1>1. BusyLate(w)' /\ MemoryFree(w)' /\ FwFree(w)'
  BY <1>0 DEF Elsewhere, Fit, BusyLate, MemoryFree, FwFree, Busy, Mine
<1>2. Prepared(w)' /\ SlotHeld(w)'
  BY <1>0 DEF Elsewhere, Fit, Prepared, SlotHeld
<1> QED BY <1>1, <1>2 DEF Fit

\* The slots are those of the handlers that hold one.
LEMMA SlotsKept ==
    ASSUME RInv, UNCHANGED holds
    PROVE  SlotsCounted'
  BY DEF RInv, SlotsCounted, Holders

\* A method of Making is the only one of its kind that its substate runs.
LEMMA MakesOne ==
    /\ ReleaseCpuset \cap (RmFromDhcpd \cup ReturnVhciHub \cup RemoveFwRules \cup HeavyDown \cup HeavyUp) = {}
    /\ RmFromDhcpd \cap (ReturnVhciHub \cup RemoveFwRules \cup HeavyDown \cup HeavyUp) = {}
    /\ ReturnVhciHub \cap (RemoveFwRules \cup HeavyDown \cup HeavyUp) = {}
    /\ RemoveFwRules \cap (HeavyDown \cup HeavyUp) = {}
    /\ HeavyDown \cap HeavyUp = {}
    /\ (KillLxc \cup UnmountFilesystems)
          \cap (ReleaseCpuset \cup RmFromDhcpd \cup ReturnVhciHub \cup RemoveFwRules \cup HeavyDown
                  \cup HeavyUp) = {}
    /\ KillLxc \cap UnmountFilesystems = {}
    /\ (Setup \cup {"zombie/reap/delaying", "starting/os_fs", "starting/heavy"})
          \cap (ReleaseCpuset \cup RmFromDhcpd \cup ReturnVhciHub \cup RemoveFwRules \cup HeavyUp
                  \cup KillLxc \cup UnmountFilesystems) = {}
    /\ HeavyDown \cap (Setup \cup {"starting/os_fs", "zombie/reap/delaying"}) = {}
    /\ "starting/heavy" \in HeavyDown
    /\ "starting/clean_old/killing_lxc" \in KillLxc
    /\ "starting/clean_old/unmounting_filesystems" \in UnmountFilesystems
    /\ Setup \cap {"starting/os_fs", "starting/heavy", "zombie/reap/delaying"} = {}
    /\ "starting/setup/configuring_dhcpd" \in Setup \ AfterDhcpd
    /\ "starting/setup/configuring_usbip" \in AfterDhcpd \ AfterUsbip
    /\ "starting/setup/creating_lxc" \in AfterUsbip \ AfterCreate
    /\ "starting/setup/setting_fw_rules" \in AfterCreate
    /\ "starting/setup/launching" \in AfterCreate
  BY DEF ReleaseCpuset, RmFromDhcpd, ReturnVhciHub, RemoveFwRules, HeavyDown, HeavyUp, KillLxc,
     UnmountFilesystems, Setup, AfterDhcpd, AfterUsbip, AfterCreate

\* The failure of an enter method claims nothing.
LEMMA PlainError ==
    ASSUME TypeOK, NEW v \in VMs, st[v] # "starting/os_fs",
           st[v] # "stopping/os_fs" \/ Fault("umount"),
           Goto(v, OnError(st[v])), UNCHANGED <<hkd, holds, fs, pid, res, row, disowned>>
    PROVE  PlainStep
<1>1. st[v] \in States
  BY DEF TypeOK
<1> QED BY <1>1, EventTable, PlainGoto DEF Mine

\* v's handler gives x back and goes on.  A hub may leave its entry behind, or take
\* one that was left.
GivesBack(v, x) ==
    /\ \/ x = "cpus" /\ st[v] \in ReleaseCpuset
       \/ x = "dhcp" /\ st[v] \in RmFromDhcpd
       \/ x = "vhci" /\ st[v] \in ReturnVhciHub
       \/ x = "fw" /\ st[v] \in RemoveFwRules
       \/ x = "mnt" /\ st[v] \in UnmountFilesystems
    /\ Done(v)
    /\ \/ res' = [res EXCEPT ![v] = @ \ {x}]
       \/ /\ x = "vhci" /\ x \notin res[v]
          /\ res' = [res EXCEPT ![v] = @ \ {"stray"}]
       \/ /\ x = "vhci"
          /\ res' = [res EXCEPT ![v] = (@ \ {"vhci"}) \cup {"stray"}]
    /\ UNCHANGED <<hkd, holds, pid, fs, row, disowned>>

\* What a method gives back is what the next substate may claim.
LEMMA GivesBackKeeps ==
    ASSUME RInv, NEW v \in VMs, NEW x, GivesBack(v, x)
    PROVE  SlotsCounted' /\ \A w \in VMs : Fit(w)'
<1>0. TypeOK /\ st[v] \in States /\ Fit(v)
  BY DEF RInv, IInv, TypeOK
<1>1. /\ Elsewhere(v)
      /\ st'[v] = OnDone(st[v])
      /\ x \notin res'[v]
      /\ \A y \in {"cpus", "dhcp", "vhci", "fw", "mnt", "procs"} \ {x} :
            y \in res'[v] <=> y \in res[v]
      /\ UNCHANGED <<hkd, holds, pid, fs, row, disowned>>
  BY <1>0 DEF TypeOK, Elsewhere, GivesBack, Done, Goto
<1>2. \/ x = "cpus" /\ st[v] \in ReleaseCpuset
      \/ x = "dhcp" /\ st[v] \in RmFromDhcpd
      \/ x = "vhci" /\ st[v] \in ReturnVhciHub
      \/ x = "fw" /\ st[v] \in RemoveFwRules
      \/ x = "mnt" /\ st[v] \in UnmountFilesystems
  BY DEF GivesBack
<1>3. BusyLate(v)'
  BY <1>0, <1>1, <1>2, DoneTable, MakesOne DEF Fit, BusyLate, Busy
<1>4. MemoryFree(v)'
  BY <1>0, <1>1, <1>2, DoneTable, MakesOne, BeginFacts DEF Fit, MemoryFree, Busy
<1>5. FwFree(v)'
  BY <1>0, <1>1, <1>2, DoneTable, MakesOne, BeginFacts DEF Fit, FwFree, Busy, Mine
<1>6. Prepared(v)'
  <2>1. OnDone(st[v]) = "starting/os_fs" => ~Busy(v)
    <3>1. "starting/clean_old/unmounting_filesystems" \notin Late
      BY DEF Late, Ended, StoppingDb, ZombieDb, Reap
    <3> QED BY <1>0, <3>1, DoneTable DEF Fit, BusyLate
  <2>2. st'[v] \notin AfterOsFs
    BY <1>0, <1>1, <1>2, DoneTable, MakesOne DEF AfterOsFs
  <2>3. st'[v] \notin AfterDhcpd \cup AfterUsbip \cup AfterCreate \cup {"starting/setup/launching"}
    BY <2>2, BeginFacts, MakesOne
  <2>4. st'[v] \in Killed => st[v] \in Killed
    BY <1>0, <1>1, <1>2, DoneTable, MakesOne
  <2> QED BY <1>0, <1>1, <2>1, <2>2, <2>3, <2>4, DoneTable DEF Fit, Prepared, Busy
<1>7. SlotHeld(v)'
  BY <1>0, <1>1, <1>2, DoneTable, MakesOne DEF Fit, SlotHeld
<1> QED BY <1>1, <1>3, <1>4, <1>5, <1>6, <1>7, ElsewhereKeeps, SlotsKept DEF Fit

\* Where the methods that reserve something lead.
LEMMA SetupNext ==
    /\ OnDone("starting/setup/configuring_dhcpd") \in AfterDhcpd
    /\ OnDone("starting/setup/configuring_usbip") \in AfterUsbip
    /\ OnDone("starting/setup/creating_lxc") \in AfterCreate
    /\ OnDone("starting/setup/setting_fw_rules") = "starting/setup/launching"
    /\ OnDone("starting/setup/launching") = "starting/waiting_for_vma"
    /\ OnError("starting/setup/setting_fw_rules") = "stopping/cleanup/saving_state"
    /\ AfterDhcpd \cap NoDhcp = {}
    /\ AfterUsbip \cap NoVhci = {}
    /\ AfterCreate \cap NoCpus = {}
    /\ "starting/setup/launching" \notin NoFw
    /\ "starting/waiting_for_vma" \notin NoCpus \cup NoDhcp \cup NoVhci \cup NoFw \cup Unheld
                                           \cup Begin \cup {"none"} \cup Gone
<1>1. /\ OnDone("starting/setup/configuring_dhcpd") \in AfterDhcpd
      /\ OnDone("starting/setup/configuring_usbip") \in AfterUsbip
      /\ OnDone("starting/setup/creating_lxc") \in AfterCreate
      /\ OnDone("starting/setup/setting_fw_rules") = "starting/setup/launching"
      /\ OnDone("starting/setup/launching") = "starting/waiting_for_vma"
  BY DEF OnDone, AfterDhcpd, AfterUsbip, AfterCreate, StoppingDb, ZombieDb
<1>2. OnError("starting/setup/setting_fw_rules") = "stopping/cleanup/saving_state"
  BY DEF OnError, CleanOld, Setup, Running, Debugging, Stopping, Shutdown, Stop, Cleanup,
     StoppingDb, Reap, ZombieDb
<1>3. /\ AfterDhcpd \cap NoDhcp = {}
      /\ AfterUsbip \cap NoVhci = {}
      /\ AfterCreate \cap NoCpus = {}
      /\ "starting/setup/launching" \notin NoFw
      /\ "starting/waiting_for_vma" \notin NoCpus \cup NoDhcp \cup NoVhci \cup NoFw \cup Unheld
                                             \cup Begin \cup {"none"} \cup Gone
  BY DEF AfterDhcpd, AfterUsbip, AfterCreate, NoDhcp, NoVhci, NoCpus, NoFw, Unheld, Begin, Gone,
     Starting, CleanOld, Setup, Ended, StoppingDb, ZombieDb
<1> QED BY <1>1, <1>2, <1>3

\* v's handler reserves x in its setup and goes on, if x is a hub without it too.
Takes(v, x) ==
    /\ \/ x = "dhcp" /\ st[v] = "starting/setup/configuring_dhcpd"
       \/ x = "vhci" /\ st[v] = "starting/setup/configuring_usbip"
       \/ x = "cpus" /\ st[v] = "starting/setup/creating_lxc"
       \/ x = "fw" /\ st[v] = "starting/setup/setting_fw_rules"
    /\ Done(v)
    /\ \/ res' = [res EXCEPT ![v] = @ \cup {x}]
       \/ x = "vhci" /\ res' = res
    /\ UNCHANGED <<hkd, holds, pid, fs, row, disowned>>

\* What a method reserves is what the next substate counts on.
LEMMA TakesKeeps ==
    ASSUME RInv, NEW v \in VMs, NEW x, Takes(v, x)
    PROVE  SlotsCounted' /\ \A w \in VMs : Fit(w)'
<1>0. TypeOK /\ st[v] \in States /\ Fit(v)
  BY DEF RInv, IInv, TypeOK
<1>1. /\ Elsewhere(v)
      /\ st'[v] = OnDone(st[v])
      /\ res'[v] = res[v] \cup {x} \/ (x = "vhci" /\ res'[v] = res[v])
      /\ UNCHANGED <<hkd, holds, pid, fs, row, disowned>>
  BY <1>0 DEF TypeOK, Elsewhere, Takes, Done, Goto
<1>2. \/ x = "dhcp" /\ st[v] = "starting/setup/configuring_dhcpd"
      \/ x = "vhci" /\ st[v] = "starting/setup/configuring_usbip"
      \/ x = "cpus" /\ st[v] = "starting/setup/creating_lxc"
      \/ x = "fw" /\ st[v] = "starting/setup/setting_fw_rules"
  BY DEF Takes
<1>3. st[v] \in Setup /\ ~Busy(v)
  BY <1>2, MakesOne, BeginFacts DEF RInv, IInv, FsDone, Busy
<1>4. st'[v] \in AfterDhcpd /\ st'[v] \notin Gone
  BY <1>1, <1>2, SetupNext, BeginFacts, MakesOne
<1>5. BusyLate(v)'
  BY <1>1, <1>3 DEF BusyLate, Busy
<1>6. MemoryFree(v)'
  BY <1>0, <1>1, <1>2, <1>3, <1>4, DoneTable, MakesOne, SetupNext DEF Fit, MemoryFree, Busy
<1>7. FwFree(v)'
  <2>1. x = "fw" => v \in disowned \/ Mine(v)
    <3>1. "starting/setup/setting_fw_rules" \in Owning
      BY DEF Owning, States, Starting, Setup, ZombieDb
    <3> QED BY <1>2, <3>1 DEF RInv, IInv, RowOwned
  <2> QED BY <1>0, <1>1, <1>2, <1>3, <1>4, <2>1, DoneTable, MakesOne, SetupNext
          DEF Fit, FwFree, Busy, Mine
<1>8. Prepared(v)'
  <2>1. st'[v] \in AfterDhcpd => "dhcp" \in res'[v]
    BY <1>0, <1>1, <1>2, DoneTable DEF Fit, Prepared
  <2>2. st'[v] \in AfterCreate => "cpus" \in res'[v]
    BY <1>0, <1>1, <1>2, DoneTable DEF Fit, Prepared
  <2>3. st'[v] = "starting/setup/launching" => "fw" \in res'[v]
    BY <1>0, <1>1, <1>2, DoneTable
  <2>4. st[v] \in Killed /\ st[v] \in Begin /\ st[v] \in AfterOsFs
    BY <1>3, MakesOne, BeginFacts DEF Killed, KillLxc, Setup
  <2>5. /\ "mnt" \in res'[v]
        /\ "procs" \notin res'[v]
        /\ ~pid'[v]
    BY <1>0, <1>1, <1>2, <2>4 DEF Fit, Prepared
  <2> QED BY <2>1, <2>2, <2>3, <2>5 DEF Prepared
<1>9. SlotHeld(v)'
  BY <1>0, <1>1, <1>3, DoneTable, MakesOne DEF Fit, SlotHeld
<1> QED BY <1>1, <1>5, <1>6, <1>7, <1>8, <1>9, ElsewhereKeeps, SlotsKept DEF Fit

\* Where a handler goes when it leaves the semaphore.
LEMMA UnheavyNext ==
    ASSUME NEW s \in HeavyUp
    PROVE  OnDone(s) \notin HeavyWork \cup Setup
  BY DEF HeavyUp, OnDone, HeavyWork, Setup, Cleanup, StoppingDb, ZombieDb

\* The semaphore: a slot is taken while there is one, and given back.
LEMMA HeavyKeeps ==
    ASSUME RInv, NEW v \in VMs, heavy_down(v) \/ heavy_up(v)
    PROVE  SlotsCounted' /\ \A w \in VMs : Fit(w)'
<1>0. TypeOK /\ st[v] \in States /\ Fit(v)
  BY DEF RInv, IInv, TypeOK
<1>1. /\ Elsewhere(v)
      /\ st'[v] = OnDone(st[v])
      /\ (st[v] \in HeavyDown /\ holds'[v]) \/ (st[v] \in HeavyUp /\ ~holds'[v])
      /\ UNCHANGED <<hkd, pid, fs, res, row, disowned>>
  BY <1>0 DEF TypeOK, Elsewhere, heavy_down, heavy_up, Done, Goto
<1>2. BusyLate(v)'
  BY <1>0, <1>1, DoneTable, MakesOne DEF Fit, BusyLate, Busy
<1>3. MemoryFree(v)'
  BY <1>0, <1>1, DoneTable, MakesOne, BeginFacts DEF Fit, MemoryFree, Busy
<1>4. FwFree(v)'
  BY <1>0, <1>1, DoneTable, MakesOne, BeginFacts DEF Fit, FwFree, Busy, Mine
<1>5. Prepared(v)'
  <2>1. st'[v] \notin AfterDhcpd
    BY <1>0, <1>1, DoneTable, MakesOne, BeginFacts
  <2>2. st'[v] \notin AfterUsbip \cup AfterCreate \cup {"starting/setup/launching", "starting/os_fs"}
    BY <1>0, <1>1, <2>1, DoneTable, MakesOne, BeginFacts
  <2>3. st'[v] \in AfterOsFs => st[v] \in AfterOsFs
    BY <1>0, <1>1, DoneTable, MakesOne
  <2>4. st'[v] \in Killed => st[v] \in Killed
    BY <1>0, <1>1, DoneTable, MakesOne
  <2> QED BY <1>0, <1>1, <2>1, <2>2, <2>3, <2>4, DoneTable DEF Fit, Prepared
<1>6. SlotHeld(v)'
  <2>1. HeavyDown \cap Unheld = {}
    BY DEF HeavyDown, Unheld
  <2> QED BY <1>0, <1>1, <2>1, DoneTable, MakesOne, UnheavyNext DEF Fit, SlotHeld
<1>7. SlotsCounted'
  <2>0. IsFiniteSet(Holders) /\ Cardinality(Holders) <= MaxHeavy /\ Cardinality(Holders) \in Nat
    BY FS_CardinalityType DEF RInv, SlotsCounted
  <2>1. CASE heavy_down(v)
    <3>1. Holders' = Holders \cup {v}
      BY <1>0, <2>1 DEF TypeOK, Holders, heavy_down
    <3>2. v \in Holders \/ Cardinality(Holders) < MaxHeavy
      BY <2>1 DEF Holders, heavy_down
    <3>3. /\ IsFiniteSet(Holders \cup {v})
          /\ Cardinality(Holders \cup {v})
                = IF v \in Holders THEN Cardinality(Holders) ELSE Cardinality(Holders) + 1
      BY <2>0, FS_AddElement
    <3> QED BY <2>0, <3>1, <3>2, <3>3, ConstantsAssumption DEF SlotsCounted
  <2>2. CASE heavy_up(v)
    <3>1. Holders' = Holders \ {v}
      BY <1>0, <2>2 DEF TypeOK, Holders, heavy_up
    <3>2. IsFiniteSet(Holders \ {v}) /\ Cardinality(Holders \ {v}) <= Cardinality(Holders)
      BY <2>0, FS_Subset
    <3>3. Cardinality(Holders \ {v}) \in Nat
      BY <3>2, FS_CardinalityType
    <3> QED BY <2>0, <3>1, <3>2, <3>3, ConstantsAssumption DEF SlotsCounted
  <2> QED BY <2>1, <2>2
<1> QED BY <1>1, <1>2, <1>3, <1>4, <1>5, <1>6, <1>7, ElsewhereKeeps DEF Fit

\* The killing loop ends without processes, or in an error.
LEMMA KillKeeps ==
    ASSUME RInv, NEW v \in VMs, kill_lxc(v)
    PROVE  SlotsCounted' /\ \A w \in VMs : Fit(w)'
<1>0. TypeOK /\ st[v] \in States /\ Fit(v) /\ st[v] \in KillLxc
  BY DEF RInv, IInv, TypeOK, kill_lxc
<1>1. CASE ~Pids(v) /\ Done(v) /\ UNCHANGED <<kills, res>>
  <2>1. /\ Elsewhere(v)
        /\ st'[v] = OnDone(st[v])
        /\ "procs" \notin res'[v]
        /\ UNCHANGED <<hkd, holds, pid, fs, res, row, disowned>>
    BY <1>0, <1>1 DEF TypeOK, Elsewhere, kill_lxc, Done, Goto, Pids
  <2>2. BusyLate(v)'
    BY <1>0, <2>1, DoneTable, MakesOne DEF Fit, BusyLate, Busy
  <2>3. MemoryFree(v)'
    BY <1>0, <2>1, DoneTable, MakesOne, BeginFacts DEF Fit, MemoryFree, Busy
  <2>4. FwFree(v)'
    BY <1>0, <2>1, DoneTable, MakesOne, BeginFacts DEF Fit, FwFree, Busy, Mine
  <2>5. Prepared(v)'
    <3>1. st'[v] \notin AfterOsFs /\ st'[v] # "starting/os_fs"
      BY <1>0, <2>1, DoneTable, MakesOne DEF AfterOsFs
    <3>2. st'[v] \notin AfterDhcpd \cup AfterUsbip \cup AfterCreate \cup {"starting/setup/launching"}
      BY <3>1, BeginFacts, MakesOne
    <3> QED BY <1>0, <2>1, <3>1, <3>2, DoneTable DEF Fit, Prepared
  <2>6. SlotHeld(v)'
    BY <1>0, <2>1, DoneTable, MakesOne DEF Fit, SlotHeld
  <2> QED BY <2>1, <2>2, <2>3, <2>4, <2>5, <2>6, ElsewhereKeeps, SlotsKept DEF Fit
<1>2. CASE Goto(v, OnError(st[v])) /\ UNCHANGED <<kills, res>>
  <2>1. st[v] # "starting/os_fs" /\ st[v] # "stopping/os_fs"
    BY <1>0 DEF KillLxc
  <2> QED BY <1>0, <1>2, <2>1, PlainError, PlainKeeps DEF kill_lxc
<1>3. CASE st' = st /\ (res' = [res EXCEPT ![v] = @ \ {"procs"}] \/ res' = res)
  BY <1>0, <1>3, PlainRow, PlainKeeps DEF kill_lxc, TypeOK, Mine
<1> QED BY <1>1, <1>2, <1>3 DEF kill_lxc

\* The launch finds everything prepared, and leaves the setup.
LEMMA LaunchKeeps ==
    ASSUME RInv, NEW v \in VMs, start_lxc(v)
    PROVE  SlotsCounted' /\ \A w \in VMs : Fit(w)'
<1>0. TypeOK /\ Fit(v) /\ st[v] = "starting/setup/launching"
  BY DEF RInv, IInv, TypeOK, start_lxc
<1>1. /\ Elsewhere(v)
      /\ st'[v] = "starting/waiting_for_vma"
      /\ res'[v] = res[v] \cup {"procs"}
      /\ UNCHANGED <<hkd, holds, fs, row, disowned>>
  BY <1>0, SetupNext DEF TypeOK, Elsewhere, start_lxc, Done, Goto
<1>2. st[v] \in Setup /\ ~Busy(v) /\ holds[v]
  BY <1>0, MakesOne, BeginFacts DEF RInv, IInv, FsDone, Busy, Fit, SlotHeld
<1>3. BusyLate(v)' /\ MemoryFree(v)'
  BY <1>1, <1>2, SetupNext DEF BusyLate, MemoryFree, Busy
<1>4. FwFree(v)'
  BY <1>0, <1>1, <1>2, SetupNext DEF Fit, FwFree, Busy, Mine
<1>5. Prepared(v)'
  BY <1>1, SetupNext, BeginFacts DEF Prepared
<1>6. SlotHeld(v)'
  BY <1>1, <1>2, SetupNext, BeginFacts DEF SlotHeld
<1> QED BY <1>1, <1>3, <1>4, <1>5, <1>6, ElsewhereKeeps, SlotsKept DEF Fit

\* The file system agent is started in its own substate, where nothing has been
\* reserved, and mounts the root.
LEMMA MountKeeps ==
    ASSUME RInv, NEW v \in VMs, start_os_fs(v) \/ mount_root(v)
    PROVE  SlotsCounted' /\ \A w \in VMs : Fit(w)'
<1>0. TypeOK /\ Fit(v)
  BY DEF RInv, IInv, TypeOK
<1>1. /\ Elsewhere(v)
      /\ Busy(v)'
      /\ Busy(v) \/ st[v] = "starting/os_fs"
      /\ res'[v] = res[v] \/ res'[v] = res[v] \cup {"mnt"}
      /\ fs'[v] = "mounted" => "mnt" \in res'[v]
      /\ UNCHANGED <<hkd, st, holds, pid, row, disowned>>
  BY <1>0 DEF TypeOK, Elsewhere, start_os_fs, mount_root, Busy
<1>2. /\ "starting/os_fs" \in NoCpus \cap NoDhcp \cap NoVhci \cap NoFw
      /\ "starting/os_fs" \in Late
  BY DEF NoCpus, NoDhcp, NoVhci, NoFw, Late, Begin, Starting, AfterDhcpd, AfterUsbip, AfterCreate
<1>3. BusyLate(v)'
  BY <1>0, <1>1, <1>2 DEF Fit, BusyLate
<1>4. MemoryFree(v)'
  BY <1>0, <1>1, <1>2 DEF Fit, MemoryFree
<1>5. FwFree(v)'
  BY <1>0, <1>1, <1>2 DEF Fit, FwFree, Mine
<1>6. Prepared(v)'
  BY <1>0, <1>1 DEF Fit, Prepared
<1>7. SlotHeld(v)'
  BY <1>0, <1>1 DEF Fit, SlotHeld
<1>8. UNCHANGED holds
  BY <1>1
<1> QED BY <1>1, <1>3, <1>4, <1>5, <1>6, <1>7, <1>8, ElsewhereKeeps, SlotsKept DEF Fit

\* A late call of the agent finds nothing reserved, and it is only after a
\* failed umount of a daemon that stops its handlers that it may take one past
\* the semaphore.
LEMMA TellKeeps ==
    ASSUME RInv, NEW v \in VMs, tell_running(v) \/ tell_error(v)
    PROVE  SlotsCounted' /\ \A w \in VMs : Fit(w)'
<1>0. TypeOK /\ st[v] \in States /\ Fit(v)
  BY DEF RInv, IInv, TypeOK
<1>1. /\ Elsewhere(v)
      /\ Busy(v)
      /\ fs'[v] = "done"
      /\ (st'[v] = OnDone(st[v]) /\ fs[v] = "mounted") \/ st'[v] = OnError(st[v])
      /\ UNCHANGED <<hkd, holds, pid, res, row, disowned>>
  BY <1>0 DEF TypeOK, Elsewhere, tell_running, tell_error, Done, Fails, Goto, Busy
<1>2. st[v] \in Late /\ st[v] \notin AfterOsFs /\ (st[v] # "starting/os_fs" => hkd \notin Calm)
  BY <1>0, <1>1 DEF Fit, BusyLate, RInv, IInv, FsDone, AfterOsFs, Busy
<1>3. BusyLate(v)'
  BY <1>1 DEF BusyLate, Busy
<1>4. MemoryFree(v)'
  BY <1>0, <1>1 DEF Fit, MemoryFree, Busy
<1>5. FwFree(v)'
  BY <1>0, <1>1 DEF Fit, FwFree, Busy, Mine
<1>6. CASE st'[v] = OnDone(st[v]) /\ fs[v] = "mounted"
  <2>1. Prepared(v)'
    <3>1. st'[v] \in AfterOsFs => st[v] = "starting/os_fs"
      BY <1>0, <1>2, <1>6, DoneTable
    <3>2. st'[v] \notin AfterDhcpd
      BY <1>0, <1>2, <1>6, DoneTable, BeginFacts, MakesOne
    <3>3. st'[v] \notin AfterUsbip \cup AfterCreate \cup {"starting/setup/launching"}
      BY <3>2, BeginFacts, MakesOne
    <3>4. st'[v] \in Killed => st[v] \in Killed
      <4>1. "starting/clean_old/killing_lxc" \notin Late
        BY DEF Late, Ended, StoppingDb, ZombieDb, Reap
      <4> QED BY <1>0, <1>2, <1>6, <4>1, DoneTable
    <3> QED BY <1>0, <1>1, <1>6, <3>1, <3>2, <3>3, <3>4, DoneTable DEF Fit, Prepared
  <2>2. SlotHeld(v)'
    <3>1. /\ Late \cap (Unheld \cup {"running/unheavy", "debugging/unheavy"}) = {}
          /\ OnDone("zombie/reap/unheavy") \notin Unheld
      BY DEF Late, Unheld, Ended, StoppingDb, ZombieDb, Reap, OnDone
    <3>2. st'[v] \notin Unheld
      BY <1>0, <1>2, <1>6, <3>1, DoneTable DEF HeavyUp
    <3>3. st'[v] \notin Setup
      BY <1>0, <1>2, <1>6, DoneTable DEF AfterOsFs
    <3>4. ~Fault("umount") => Late \cap HeavyDown = {}
      BY DEF Late, Ended, StoppingDb, ZombieDb, HeavyDown
    <3>5. "starting/os_fs" \notin HeavyDown
      BY DEF HeavyDown
    <3> QED BY <1>0, <1>1, <1>2, <1>6, <3>2, <3>3, <3>4, <3>5, DoneTable DEF Fit, SlotHeld
  <2> QED BY <1>1, <1>3, <1>4, <1>5, <2>1, <2>2, ElsewhereKeeps, SlotsKept DEF Fit
<1>7. CASE st'[v] = OnError(st[v])
  <2>1. CASE st[v] # "stopping/os_fs"
    <3>1. Leads(st[v], st'[v])
      BY <1>0, <1>7, <2>1, EventTable
    <3>2. Prepared(v)'
      BY <1>0, <1>1, <3>1 DEF Fit, Prepared, Leads
    <3>3. SlotHeld(v)'
      BY <1>0, <1>1, <3>1 DEF Fit, SlotHeld, Leads
    <3> QED BY <1>1, <1>3, <1>4, <1>5, <3>2, <3>3, ElsewhereKeeps, SlotsKept DEF Fit
  <2>2. CASE st[v] = "stopping/os_fs"
    <3>1. st'[v] = "zombie/reap/saving_state"
      BY <1>7, <2>2 DEF OnError, CleanOld, Setup, Running, Debugging, Stopping, Shutdown, Stop,
         Cleanup, StoppingDb, Reap, ZombieDb
    <3>2. st'[v] \notin HeavyWork \cup Unheld \cup Begin \cup {"none"}
      BY <3>1, UnclaimedFacts DEF Unclaimed
    <3>3. Prepared(v)'
      BY <3>2, BeginFacts DEF Prepared
    <3>4. SlotHeld(v)'
      BY <3>2, BeginFacts DEF SlotHeld
    <3> QED BY <1>1, <1>3, <1>4, <1>5, <3>3, <3>4, ElsewhereKeeps, SlotsKept DEF Fit
  <2> QED BY <2>1, <2>2
<1> QED BY <1>1, <1>6, <1>7

\* Nothing is claimed of a machine without a handler but that nothing is left.
LEMMA NoneFacts ==
    /\ "none" \in Gone /\ "stopped" \in Gone
    /\ "none" \notin NoCpus \cup NoDhcp \cup NoVhci \cup NoFw \cup HeavyWork \cup Unheld \cup Late
                        \cup Begin \cup Setup \cup Owning
    /\ {"cpus", "dhcp", "vhci"} \cap World = {}
<1>1. "none" \notin NoCpus \cup NoDhcp \cup NoVhci \cup NoFw \cup HeavyWork \cup Unheld \cup Begin
                      \cup Setup
  BY BeginFacts DEF Gone
<1>2. "none" \notin Late \cup Owning
  BY DEF Late, Ended, StoppingDb, ZombieDb, Reap, Owning
<1> QED BY <1>1, <1>2 DEF Gone, World

\* HKD forgets a handler that has stopped, and its slot with it.
LEMMA StoppedKeeps ==
    ASSUME RInv, NEW v \in VMs, on_stopped(v)
    PROVE  SlotsCounted' /\ \A w \in VMs : Fit(w)'
<1>0. TypeOK /\ Fit(v) /\ st[v] = "stopped"
  BY DEF RInv, IInv, TypeOK, on_stopped
<1>1. /\ Elsewhere(v)
      /\ st'[v] = "none" /\ fs'[v] = "idle"
      /\ ~pid'[v] /\ ~holds'[v]
      /\ res'[v] = res[v] \/ res'[v] = res[v] \cup {"mnt"}
      /\ UNCHANGED <<hkd, row, disowned>>
  BY <1>0 DEF TypeOK, Elsewhere, on_stopped, Goto
<1>2. BusyLate(v)' /\ MemoryFree(v)'
  BY <1>0, <1>1, NoneFacts DEF Fit, BusyLate, MemoryFree, Busy
<1>3. FwFree(v)'
  BY <1>0, <1>1, NoneFacts DEF Fit, FwFree, Busy, Mine
<1>4. Prepared(v)' /\ SlotHeld(v)'
  BY <1>1, NoneFacts, BeginFacts DEF Prepared, SlotHeld
<1>5. SlotsCounted'
  <2>0. IsFiniteSet(Holders) /\ Cardinality(Holders) <= MaxHeavy /\ Cardinality(Holders) \in Nat
    BY FS_CardinalityType DEF RInv, SlotsCounted
  <2>1. Holders' = Holders \ {v}
    BY <1>0 DEF TypeOK, Holders, on_stopped
  <2>2. IsFiniteSet(Holders \ {v}) /\ Cardinality(Holders \ {v}) <= Cardinality(Holders)
    BY <2>0, FS_Subset
  <2>3. Cardinality(Holders \ {v}) \in Nat
    BY <2>2, FS_CardinalityType
  <2> QED BY <2>0, <2>1, <2>2, <2>3, ConstantsAssumption DEF SlotsCounted
<1> QED BY <1>1, <1>2, <1>3, <1>4, <1>5, ElsewhereKeeps DEF Fit

\* A start command finds nothing left of the last run of its machine.
LEMMA StartKeeps ==
    ASSUME RInv, NEW v \in VMs, on_start_cmd(v)
    PROVE  SlotsCounted' /\ \A w \in VMs : Fit(w)'
<1>0. TypeOK /\ Fit(v) /\ hkd \in Calm
  BY DEF RInv, IInv, TypeOK, on_start_cmd, StartsServed, Calm
<1>1. CASE st[v] # "none"
  BY <1>1, PlainRow, PlainKeeps DEF on_start_cmd, Mine
<1>2. CASE st[v] = "none"
  <2>1. /\ Elsewhere(v)
        /\ st'[v] \in {"starting/db", "stopping/db"}
        /\ UNCHANGED <<hkd, holds, pid, fs, res, row, disowned>>
    BY <1>0, <1>2 DEF TypeOK, Elsewhere, on_start_cmd
  <2>2. ~Busy(v)
    BY <1>0, <1>2, NoneFacts DEF Fit, BusyLate
  <2>3. /\ st'[v] \notin HeavyWork \cup Unheld \cup Setup \cup Gone
        /\ st'[v] \notin AfterOsFs \cup AfterDhcpd \cup Killed
        /\ st'[v] # "starting/setup/launching" /\ st'[v] # "starting/os_fs"
    BY <2>1 DEF HeavyWork, Unheld, Setup, Gone, AfterOsFs, AfterDhcpd, Killed, Cleanup,
       Begin, Starting, CleanOld
  <2>4. BusyLate(v)'
    BY <2>1, <2>2 DEF BusyLate, Busy
  <2>5. MemoryFree(v)' /\ FwFree(v)'
    <3>1. MemoryFree(v)'
      BY <1>0, <1>2, <2>1, <2>2, NoneFacts DEF Fit, MemoryFree, Busy
    <3>2. FwFree(v)'
      BY <1>0, <1>2, <2>1, <2>2, NoneFacts DEF Fit, FwFree, Busy, Mine
    <3> QED BY <3>1, <3>2
  <2>6. Prepared(v)'
    BY <1>0, <1>2, <2>1, <2>3, BeginFacts DEF Fit, Prepared
  <2>7. SlotHeld(v)'
    BY <2>3 DEF SlotHeld
  <2> QED BY <2>1, <2>4, <2>5, <2>6, <2>7, ElsewhereKeeps, SlotsKept DEF Fit
<1> QED BY <1>1, <1>2

\* A new HKD finds nothing in its memory, and the row of every machine whose
\* chains the last one left makes a zombie of it.
LEMMA CatchKeeps ==
    ASSUME RInv, catch_zombie_vms
    PROVE  SlotsCounted' /\ \A w \in VMs : Fit(w)'
<1> SUFFICES ASSUME NEW v \in VMs PROVE Fit(v)'
  BY SlotsKept DEF catch_zombie_vms
<1>0. TypeOK /\ Fit(v) /\ st[v] = "none" /\ hkd = "down"
  BY DEF RInv, IInv, TypeOK, DownEmpty, catch_zombie_vms
<1>1. /\ st'[v] = IF Mine(v) THEN "zombie/config/saving_state" ELSE "none"
      /\ UNCHANGED <<holds, pid, fs, res, row, disowned>>
  BY DEF catch_zombie_vms, Mine
<1>2. ~Busy(v)
  BY <1>0, NoneFacts DEF Fit, BusyLate
<1>3. "zombie/config/saving_state" \notin NoCpus \cup NoDhcp \cup NoVhci \cup NoFw \cup HeavyWork
                                            \cup Unheld \cup Begin \cup Setup \cup Gone
  BY DEF NoCpus, NoDhcp, NoVhci, NoFw, HeavyWork, Unheld, Begin, Gone, Starting, CleanOld, Setup,
     Ended, Cleanup, StoppingDb, ZombieDb
<1>4. BusyLate(v)' /\ MemoryFree(v)'
  BY <1>0, <1>1, <1>2, <1>3, NoneFacts DEF Fit, BusyLate, MemoryFree, Busy
<1>5. FwFree(v)'
  BY <1>0, <1>1, <1>2, <1>3, NoneFacts DEF Fit, FwFree, Busy, Mine
<1>6. Prepared(v)' /\ SlotHeld(v)'
  BY <1>0, <1>1, <1>3, NoneFacts, BeginFacts DEF Fit, Prepared, SlotHeld
<1> QED BY <1>4, <1>5, <1>6 DEF Fit

\* With HKD goes all it remembers; the chains stay, and the rows with them.
LEMMA EndKeeps ==
    ASSUME RInv, hkd_exit \/ hkd_crash
    PROVE  SlotsCounted' /\ \A w \in VMs : Fit(w)'
<1>1. SlotsCounted'
  <2>1. CASE hkd_exit
    BY <2>1, SlotsKept DEF hkd_exit, handlerVars
  <2>2. CASE hkd_crash
    <3>1. Holders' = {}
      BY <2>2 DEF hkd_crash, Holders
    <3> QED BY <3>1, FS_EmptySet, ConstantsAssumption DEF SlotsCounted
  <2> QED BY <2>1, <2>2
<1>2. ASSUME NEW v \in VMs PROVE Fit(v)'
  <2>0. TypeOK /\ Fit(v)
    BY DEF RInv, IInv, TypeOK
  <2>1. /\ hkd' = "down"
        /\ st'[v] = "none" /\ ~Busy(v)' /\ ~pid'[v]
        /\ UNCHANGED <<row, disowned>>
    <3>1. CASE hkd_exit
      <4>1. st[v] = "none" /\ UNCHANGED <<st, fs, pid, row, disowned>>
        BY <3>1 DEF hkd_exit, NoVms, handlerVars
      <4> QED BY <2>0, <3>1, <4>1, NoneFacts DEF hkd_exit, Fit, BusyLate, Busy, Prepared
    <3>2. CASE hkd_crash
      BY <3>2 DEF hkd_crash, Busy
    <3> QED BY <3>1, <3>2
  <2>2. res'[v] \subseteq (res[v] \cap World) \cup {"mnt"}
    BY DEF hkd_exit, hkd_crash
  <2>3. BusyLate(v)' /\ MemoryFree(v)'
    BY <2>1, <2>2, NoneFacts DEF BusyLate, MemoryFree
  <2>4. FwFree(v)'
    <3>1. "fw" \in res'[v] => "fw" \in res[v]
      BY <2>2
    <3> QED BY <2>0, <2>1, <3>1, NoneFacts DEF Fit, FwFree, Mine, Calm
  <2>5. Prepared(v)' /\ SlotHeld(v)'
    BY <2>1, NoneFacts, BeginFacts DEF Prepared, SlotHeld
  <2> QED BY <2>3, <2>4, <2>5 DEF Fit
<1> QED BY <1>1, <1>2

(***************************************************************************)
(* The invariant is inductive.                                             *)
(***************************************************************************)
\* The enter methods that reserve something or give it back, and their errors.
LEMMA MethodsKeep ==
    ASSUME RInv, NEW v \in VMs,
           \/ release_cpuset(v) \/ rm_from_dhcpd(v) \/ return_vhci_hub(v)
           \/ remove_fw_rules(v) \/ unmount_filesystems(v) \/ add_to_dhcpd(v)
           \/ request_vhci_hub(v) \/ create_lxc(v) \/ set_fw_rules(v)
    PROVE  SlotsCounted' /\ \A w \in VMs : Fit(w)'
<1> USE DEF StAndRes
<1>0. TypeOK /\ Fit(v)
  BY DEF RInv, IInv, TypeOK
<1>1. CASE release_cpuset(v)
  <2>1. GivesBack(v, "cpus")
    BY <1>1 DEF release_cpuset, GivesBack
  <2> QED BY <2>1, GivesBackKeeps
<1>2. CASE rm_from_dhcpd(v)
  <2>1. GivesBack(v, "dhcp")
    BY <1>2 DEF rm_from_dhcpd, GivesBack
  <2> QED BY <2>1, GivesBackKeeps
<1>3. CASE return_vhci_hub(v)
  <2>1. GivesBack(v, "vhci")
    BY <1>3 DEF return_vhci_hub, GivesBack
  <2> QED BY <2>1, GivesBackKeeps
<1>4. CASE remove_fw_rules(v)
  <2>1. CASE Done(v) /\ res' = [res EXCEPT ![v] = @ \ {"fw"}]
    <3>1. GivesBack(v, "fw")
      BY <1>4, <2>1 DEF remove_fw_rules, GivesBack
    <3> QED BY <3>1, GivesBackKeeps
  <2>2. CASE Fails(v, "cmd") /\ res' = res
    <3>1. st[v] # "starting/os_fs" /\ st[v] # "stopping/os_fs"
      BY <1>4 DEF remove_fw_rules, RemoveFwRules
    <3>2. PlainStep
      BY <1>0, <1>4, <2>2, <3>1, PlainError DEF remove_fw_rules, Fails
    <3> QED BY <3>2, PlainKeeps
  <2> QED BY <1>4, <2>1, <2>2 DEF remove_fw_rules
<1>5. CASE unmount_filesystems(v)
  <2>1. CASE Done(v) /\ res' = [res EXCEPT ![v] = @ \ {"mnt"}]
    <3>1. GivesBack(v, "mnt")
      BY <1>5, <2>1 DEF unmount_filesystems, GivesBack
    <3> QED BY <3>1, GivesBackKeeps
  <2>2. CASE Fails(v, "umount") /\ res' = res
    <3>1. st[v] # "starting/os_fs"
      BY <1>5 DEF unmount_filesystems, UnmountFilesystems
    <3>2. PlainStep
      BY <1>0, <1>5, <2>2, <3>1, PlainError DEF unmount_filesystems, Fails
    <3> QED BY <3>2, PlainKeeps
  <2> QED BY <1>5, <2>1, <2>2 DEF unmount_filesystems
<1>6. CASE add_to_dhcpd(v)
  <2>1. Takes(v, "dhcp")
    BY <1>6 DEF add_to_dhcpd, Takes
  <2> QED BY <2>1, TakesKeeps
<1>7. CASE request_vhci_hub(v)
  <2>1. Takes(v, "vhci")
    BY <1>7 DEF request_vhci_hub, Takes
  <2> QED BY <2>1, TakesKeeps
<1>8. CASE create_lxc(v)
  <2>1. CASE Done(v) /\ res' = [res EXCEPT ![v] = @ \cup {"cpus"}]
    <3>1. Takes(v, "cpus")
      BY <1>8, <2>1 DEF create_lxc, Takes
    <3> QED BY <3>1, TakesKeeps
  <2>2. CASE Fails(v, "cmd") /\ res' = res
    <3>1. PlainStep
      BY <1>0, <1>8, <2>2, PlainError DEF create_lxc, Fails
    <3> QED BY <3>1, PlainKeeps
  <2> QED BY <1>8, <2>1, <2>2 DEF create_lxc
<1>9. CASE set_fw_rules(v)
  <2>1. CASE Done(v)
    <3>1. Takes(v, "fw")
      BY <1>9, <2>1 DEF set_fw_rules, Takes
    <3> QED BY <3>1, TakesKeeps
  <2>2. CASE Fails(v, "cmd")
    <3>1. /\ Elsewhere(v)
          /\ st[v] = "starting/setup/setting_fw_rules"
          /\ st'[v] = "stopping/cleanup/saving_state"
          /\ UNCHANGED <<hkd, holds, pid, fs, row, disowned>>
      BY <1>0, <1>9, <2>2, SetupNext DEF TypeOK, Elsewhere, set_fw_rules, Fails, Goto
    <3>2. /\ st'[v] \notin NoCpus \cup NoDhcp \cup NoVhci \cup NoFw \cup HeavyWork \cup Unheld
          /\ st'[v] \notin Begin \cup {"none"} \cup Gone
      BY <3>1, UnclaimedFacts DEF Unclaimed, Gone
    <3>3. ~Busy(v) /\ ~Busy(v)'
      BY <3>1, MakesOne, BeginFacts DEF RInv, IInv, FsDone, Busy
    <3>4. v \in disowned \/ Mine(v)
      <4>1. "starting/setup/setting_fw_rules" \in Owning
        BY DEF Owning, States, Starting, Setup, ZombieDb
      <4> QED BY <3>1, <4>1 DEF RInv, IInv, RowOwned
    <3>5. BusyLate(v)' /\ MemoryFree(v)'
      BY <3>2, <3>3 DEF BusyLate, MemoryFree
    <3>6. FwFree(v)'
      BY <3>1, <3>2, <3>3, <3>4 DEF FwFree, Mine
    <3>7. Prepared(v)' /\ SlotHeld(v)'
      BY <3>2, BeginFacts DEF Prepared, SlotHeld
    <3> QED BY <3>1, <3>5, <3>6, <3>7, ElsewhereKeeps, SlotsKept DEF Fit
  <2> QED BY <1>9, <2>1, <2>2 DEF set_fw_rules
<1> QED BY <1>1, <1>2, <1>3, <1>4, <1>5, <1>6, <1>7, <1>8, <1>9

\* Every step of the node keeps it.
LEMMA ResourceStep == RInv /\ [Next]_vars => RInv'
<1> SUFFICES ASSUME RInv, [Next]_vars PROVE SlotsCounted' /\ \A w \in VMs : Fit(w)'
  BY InvStep DEF RInv
<1>0. TypeOK
  BY DEF RInv, IInv
<1>1. ASSUME NEW v \in VMs,
             Enter(v) \/ heavy_down(v) \/ FsAgent(v) \/ Container(v) \/ Commands(v)
      PROVE  SlotsCounted' /\ \A w \in VMs : Fit(w)'
  <2>1. CASE PlainMethods(v)
    BY <1>0, <2>1, PlainMethodsStep, PlainKeeps
  <2>2. CASE PlainEvents(v)
    BY <2>2, PlainEventsStep, PlainKeeps
  <2>3. CASE \/ release_cpuset(v) \/ rm_from_dhcpd(v) \/ return_vhci_hub(v)
             \/ remove_fw_rules(v) \/ unmount_filesystems(v) \/ add_to_dhcpd(v)
             \/ request_vhci_hub(v) \/ create_lxc(v) \/ set_fw_rules(v)
    BY <2>3, MethodsKeep
  <2>4. CASE heavy_down(v) \/ heavy_up(v)
    BY <2>4, HeavyKeeps
  <2>5. CASE kill_lxc(v)
    BY <2>5, KillKeeps
  <2>6. CASE start_lxc(v)
    BY <2>6, LaunchKeeps
  <2>7. CASE start_os_fs(v) \/ mount_root(v)
    BY <2>7, MountKeeps
  <2>8. CASE tell_running(v) \/ tell_error(v)
    BY <2>8, TellKeeps
  <2>9. CASE on_stopped(v)
    BY <2>9, StoppedKeeps
  <2>10. CASE on_start_cmd(v)
    BY <2>10, StartKeeps
  <2> QED BY <1>1, <2>1, <2>2, <2>3, <2>4, <2>5, <2>6, <2>7, <2>8, <2>9, <2>10
          DEF Enter, FsAgent, Container, Commands, PlainMethods, PlainEvents
<1>2. CASE Daemon
  <2>1. CASE catch_zombie_vms
    BY <2>1, CatchKeeps
  <2>2. CASE hkd_running \/ hkd_stop \/ vm_command_handler_stopped \/ stop_all_vms \/ kill_all_vms
    BY <2>2, PlainDaemon, PlainKeeps
  <2>3. CASE hkd_exit \/ hkd_crash
    BY <2>3, EndKeeps
  <2> QED BY <1>2, <2>1, <2>2, <2>3 DEF Daemon
<1>3. CASE UNCHANGED vars
  BY <1>3, PlainDaemon, PlainKeeps
<1> QED BY <1>1, <1>2, <1>3 DEF Next

\* It holds of a node that has not been started.
LEMMA ResourceInit == Init => RInv
<1> SUFFICES ASSUME Init PROVE RInv
  OBVIOUS
<1>1. TypeOK
  BY NamedStates, ConstantsAssumption DEF Init, TypeOK, Rows, FreeRow
<1>2. IInv
  BY <1>1, NamedFacts DEF Init, IInv, ContainerOwned, RowOwned, NoProcs, FsDone, KillsPending,
     StartsServed, DownEmpty, Calm
<1>3. SlotsCounted
  <2>1. Holders = {}
    BY DEF Init, Holders
  <2> QED BY <2>1, FS_EmptySet, ConstantsAssumption DEF SlotsCounted
<1>4. ASSUME NEW v \in VMs PROVE Fit(v)
  <2>1. st[v] = "none" /\ ~Busy(v) /\ ~pid[v] /\ res[v] = {}
    BY DEF Init, Busy
  <2> QED BY <2>1, NoneFacts, BeginFacts DEF Fit, BusyLate, MemoryFree, FwFree, Prepared, SlotHeld
<1> QED BY <1>2, <1>3, <1>4 DEF RInv

(***************************************************************************)
(* The theorems.                                                           *)
(***************************************************************************)
\* LaunchPrepared, for any number of virtual machines and any combination of
\* faults: lxc-start is run with its root file system mounted, its ebtables
\* rules set, its cpus and its dhcpd entry reserved, with a slot of the
\* semaphore, and with no older container of its machine alive.  Whether it has
\* a hub is nobody's condition.
THEOREM LaunchAlwaysPrepared == Spec => []LaunchPrepared
<1>1. RInv => LaunchPrepared
  <2> SUFFICES ASSUME RInv, NEW v \in VMs, st[v] = "starting/setup/launching"
               PROVE  /\ {"mnt", "fw", "cpus", "dhcp"} \subseteq res[v]
                      /\ "procs" \notin res[v] /\ ~pid[v] /\ holds[v]
    BY DEF LaunchPrepared
  <2>1. Prepared(v) /\ SlotHeld(v)
    BY DEF RInv, Fit
  <2>2. st[v] \in Setup \cap AfterOsFs \cap AfterDhcpd \cap AfterUsbip \cap AfterCreate \cap Killed
    BY BeginFacts, MakesOne DEF Killed, Begin, Starting, Setup
  <2> QED BY <2>1, <2>2, BeginFacts DEF Prepared, SlotHeld
<1> QED BY <1>1, ResourceInit, ResourceStep, PTL DEF Spec

\* NothingLeft, for any number of virtual machines and any combination of
\* faults: on a running node the end of a handler leaves no cpu counted, no
\* dhcpd entry, no process and no ebtables chain, and no hub whose release was
\* not tried.
THEOREM NothingEverLeft == Spec => []NothingLeft
<1>1. RInv => NothingLeft
  <2> SUFFICES ASSUME RInv, hkd = "running", NEW v \in VMs, st[v] = "none"
               PROVE  /\ res[v] \cap {"cpus", "dhcp", "vhci"} = {}
                      /\ v \notin disowned => res[v] \cap {"procs", "fw"} = {}
    BY DEF NothingLeft
  <2>1. MemoryFree(v) /\ FwFree(v) /\ NoProcs
    BY DEF RInv, IInv, Fit
  <2>2. st[v] \in Gone /\ hkd \in Calm
    BY DEF Gone, Calm
  <2>3. res[v] \cap {"cpus", "dhcp", "vhci"} = {}
    BY <2>1, <2>2 DEF MemoryFree
  <2>4. v \notin disowned => "procs" \notin res[v] /\ "fw" \notin res[v]
    BY <2>1, <2>2 DEF FwFree, NoProcs, Gone
  <2> QED BY <2>3, <2>4
<1> QED BY <1>1, ResourceInit, ResourceStep, PTL DEF Spec

\* HeavyLimited, for any number of virtual machines: the semaphore limits the
\* handlers at work with a container, until HKD has told its handlers to stop
\* on a node where the umount of a file system may fail.  README, section 6,
\* says what happens then.
THEOREM HeavyAlwaysLimited == Spec => [](hkd \in Calm \/ ~Fault("umount") => HeavyLimited)
<1>1. RInv => (hkd \in Calm \/ ~Fault("umount") => HeavyLimited)
  <2> SUFFICES ASSUME RInv, hkd \in Calm \/ ~Fault("umount") PROVE HeavyLimited
    OBVIOUS
  <2> DEFINE W == {v \in VMs : st[v] \in HeavyWork}
  <2>1. \A v \in VMs : SlotHeld(v)
    BY DEF RInv, Fit
  <2>2. W \subseteq Holders
    BY <2>1 DEF SlotHeld, Holders
  <2>3. IsFiniteSet(Holders) /\ Cardinality(Holders) <= MaxHeavy
    BY DEF RInv, SlotsCounted
  <2>4. IsFiniteSet(W) /\ Cardinality(W) <= Cardinality(Holders)
    BY <2>2, <2>3, FS_Subset
  <2>5. Cardinality(W) \in Nat /\ Cardinality(Holders) \in Nat
    BY <2>3, <2>4, FS_CardinalityType
  <2>6. Cardinality(W) <= MaxHeavy
    <3> HIDE DEF W
    <3> QED BY <2>3, <2>4, <2>5, ConstantsAssumption
  <2> QED BY <2>1, <2>6 DEF HeavyLimited, SlotHeld, Unheld
<1> QED BY <1>1, ResourceInit, ResourceStep, PTL DEF Spec

=============================================================================
