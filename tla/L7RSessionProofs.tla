-------------------------- MODULE L7RSessionProofs --------------------------
(***************************************************************************)
(* Proofs about the sessions of a virtual machine, for any number of L7R   *)
(* processes and nodes and any combination of faults: type correctness and *)
(* SessionOwned, OwnerCleaned when no query of HKD fails, ConnectedByOwner *)
(* when no process is left behind, and that row, processes and daemons     *)
(* implement the lock of SessionLock.                                      *)
(***************************************************************************)
EXTENDS L7RSession, TLAPS

(***************************************************************************)
(* The inductive invariant.                                                *)
(***************************************************************************)
\* A process that its HKD did not lose is supervised until it has exited, and
\* its supervisor cleans up only then.
Watched ==
    \A p \in L7Rs :
        /\ p \notin stray /\ pc[p] # "exited" => agent[p] \in {"running", "killing"}
        /\ agent[p] = "cleanup" => pc[p] = "exited"

\* A daemon that is down supervises nothing.
DownEmpty == \A p \in L7Rs : hkd[HostOf[p]] = "down" => agent[p] = "none"

\* A free session has no owner.
FreeUnowned == row.user_state = "disconnected" => row.l7r = NoL7R

SInv == TypeOK /\ SessionOwned /\ Watched /\ DownEmpty /\ FreeUnowned

(***************************************************************************)
(* Types.                                                                  *)
(***************************************************************************)
\* What the updates make of a row is a row.
LEMMA RowTypes ==
    /\ FreeRow \in Rows
    /\ \A r \in Rows :
          /\ Cleared(r) \in Rows
          /\ UserOf(r) \in Rows
          /\ VmOf(r) \in Rows
          /\ \A p \in L7Rs : [r EXCEPT !.user_state = "connecting", !.user_cmd = "none",
                                       !.l7r = p] \in Rows
          /\ [r EXCEPT !.user_cmd = "abort"] \in Rows
          /\ [r EXCEPT !.user_state = "connected"] \in Rows
          /\ [r EXCEPT !.assigned = TRUE] \in Rows
          /\ \A c \in {"none", "start", "stop"} : [r EXCEPT !.vm_cmd = c] \in Rows
          /\ [r EXCEPT !.vm_state = "busy", !.vm_cmd = "none"] \in Rows
          /\ [r EXCEPT !.assigned = TRUE, !.vm_cmd = "start"] \in Rows
          /\ \A s \in {"busy", "running"} : [r EXCEPT !.vm_state = s] \in Rows
          /\ [r EXCEPT !.vm_state = "stopped", !.vm_cmd = "none",
                       !.assigned = FALSE] \in Rows
<1>1. FreeRow \in Rows
  BY DEF Rows, FreeRow
<1>2. ASSUME NEW r \in Rows
      PROVE  /\ Cleared(r) \in Rows
             /\ UserOf(r) \in Rows
             /\ VmOf(r) \in Rows
             /\ \A p \in L7Rs : [r EXCEPT !.user_state = "connecting", !.user_cmd = "none",
                                          !.l7r = p] \in Rows
             /\ [r EXCEPT !.user_cmd = "abort"] \in Rows
             /\ [r EXCEPT !.user_state = "connected"] \in Rows
             /\ [r EXCEPT !.assigned = TRUE] \in Rows
             /\ \A c \in {"none", "start", "stop"} : [r EXCEPT !.vm_cmd = c] \in Rows
             /\ [r EXCEPT !.vm_state = "busy", !.vm_cmd = "none"] \in Rows
             /\ [r EXCEPT !.assigned = TRUE, !.vm_cmd = "start"] \in Rows
             /\ \A s \in {"busy", "running"} : [r EXCEPT !.vm_state = s] \in Rows
             /\ [r EXCEPT !.vm_state = "stopped", !.vm_cmd = "none",
                          !.assigned = FALSE] \in Rows
  <2>1. Cleared(r) \in Rows
    BY <1>2 DEF Rows, Cleared
  <2>2. UserOf(r) \in Rows /\ VmOf(r) \in Rows
    BY <1>2 DEF Rows, FreeRow, UserOf, VmOf
  <2>3. \A p \in L7Rs : [r EXCEPT !.user_state = "connecting", !.user_cmd = "none",
                                  !.l7r = p] \in Rows
    BY <1>2 DEF Rows
  <2>4. /\ [r EXCEPT !.user_cmd = "abort"] \in Rows
        /\ [r EXCEPT !.user_state = "connected"] \in Rows
        /\ [r EXCEPT !.assigned = TRUE] \in Rows
        /\ [r EXCEPT !.assigned = TRUE, !.vm_cmd = "start"] \in Rows
    BY <1>2 DEF Rows
  <2>5. \A c \in {"none", "start", "stop"} : [r EXCEPT !.vm_cmd = c] \in Rows
    BY <1>2 DEF Rows
  <2>6. /\ [r EXCEPT !.vm_state = "busy", !.vm_cmd = "none"] \in Rows
        /\ \A s \in {"busy", "running"} : [r EXCEPT !.vm_state = s] \in Rows
    BY <1>2 DEF Rows
  <2>7. [r EXCEPT !.vm_state = "stopped", !.vm_cmd = "none", !.assigned = FALSE] \in Rows
    BY <1>2 DEF Rows
  <2> QED BY <2>1, <2>2, <2>3, <2>4, <2>5, <2>6, <2>7
<1> QED BY <1>1, <1>2

\* What the updates write in the columns of the session.
LEMMA RowFields ==
    ASSUME NEW r \in Rows, NEW p \in L7Rs
    PROVE  /\ Cleared(r).user_state = "disconnected" /\ Cleared(r).l7r = NoL7R
           /\ [r EXCEPT !.user_state = "connecting", !.user_cmd = "none", !.l7r = p].l7r = p
           /\ [r EXCEPT !.user_state = "connecting", !.user_cmd = "none",
                        !.l7r = p].user_state = "connecting"
  BY DEF Rows, Cleared

\* The machine and its HKD leave the session alone.
LEMMA VmKeepsSession ==
    ASSUME row \in Rows, vm_changes
    PROVE  row'.user_state = row.user_state /\ row'.l7r = row.l7r
<1>1. CASE row' = [row EXCEPT !.vm_state = "busy", !.vm_cmd = "none"]
  BY <1>1 DEF Rows
<1>2. CASE \/ row' = [row EXCEPT !.vm_state = "running"]
           \/ row' = [row EXCEPT !.vm_state = "busy"]
  BY <1>2 DEF Rows
<1>3. CASE row' = [row EXCEPT !.vm_cmd = "none"]
  BY <1>3 DEF Rows
<1>4. CASE row' = [row EXCEPT !.vm_state = "stopped", !.vm_cmd = "none", !.assigned = FALSE]
  BY <1>4 DEF Rows
<1> QED BY <1>1, <1>2, <1>3, <1>4 DEF vm_changes

\* So do the start and stop commands of the API.
LEMMA ApiKeepsSession ==
    ASSUME row \in Rows, vm_start \/ vm_stop \/ stop_vm
    PROVE  row'.user_state = row.user_state /\ row'.l7r = row.l7r
<1>1. CASE row' = row
  BY <1>1
<1>2. CASE row' = [row EXCEPT !.assigned = TRUE, !.vm_cmd = "start"]
  BY <1>2 DEF Rows
<1>3. CASE row' = [row EXCEPT !.vm_cmd = "start"]
  BY <1>3 DEF Rows
<1>4. CASE row' = [row EXCEPT !.vm_cmd = "stop"] \/ row' = [row EXCEPT !.vm_cmd = "none"]
  BY <1>4 DEF Rows
<1> QED BY <1>1, <1>2, <1>3, <1>4 DEF vm_start, vm_stop, stop_vm

\* Every step of the processes and of the daemons keeps the types.
LEMMA TypeStep == TypeOK /\ [Next]_vars => TypeOK'
<1> SUFFICES ASSUME TypeOK, [Next]_vars PROVE TypeOK'
  OBVIOUS
<1> USE SessionAssumption DEF TypeOK
<1>1. ASSUME NEW p \in L7Rs, connect_to_vm(p) PROVE TypeOK'
  BY <1>1, RowTypes DEF connect_to_vm, Goto, Copy, Drop, Dies, Places, Session, ProcessOnly
<1>2. ASSUME NEW p \in L7Rs, takeover_vm(p) PROVE TypeOK'
  <2>1. pc' \in [L7Rs -> Places]
    BY <1>2 DEF takeover_vm, Goto, Dies, Places, Session
  <2>2. row' \in Rows
    <3>1. CASE row' = row
      BY <3>1
    <3>2. CASE row' = [row EXCEPT !.user_state = "connecting", !.user_cmd = "none", !.l7r = p]
      BY <3>2, RowTypes
    <3> QED BY <1>2, <3>1, <3>2 DEF takeover_vm
  <2>3. seen' \in [L7Rs -> Rows]
    BY <1>2, <2>2, RowTypes DEF takeover_vm, Copy, Drop, Dies
  <2> QED BY <1>2, <2>1, <2>2, <2>3 DEF takeover_vm, ProcessOnly
<1>3. ASSUME NEW p \in L7Rs, discard_changes(p) PROVE TypeOK'
  BY <1>3, RowTypes DEF discard_changes, Goto, Copy, Drop, Dies, Places, Session, ProcessOnly
<1>4. ASSUME NEW p \in L7Rs, send_user_abort(p) PROVE TypeOK'
  <2>1. pc' \in [L7Rs -> Places]
    BY <1>4 DEF send_user_abort, Goto, Dies, Places, Session
  <2>2. row' \in Rows
    BY <1>4, RowTypes DEF send_user_abort
  <2>3. seen' \in [L7Rs -> Rows]
    BY <1>4, <2>2, RowTypes DEF send_user_abort, Copy, Drop, Dies
  <2> QED BY <1>4, <2>1, <2>2, <2>3 DEF send_user_abort, ProcessOnly
<1>5. ASSUME NEW p \in L7Rs, assign_vm(p) PROVE TypeOK'
  <2>1. pc' \in [L7Rs -> Places]
    BY <1>5 DEF assign_vm, Goto, Dies, Places, Session
  <2>2. row' \in Rows
    BY <1>5, RowTypes DEF assign_vm
  <2>3. seen' \in [L7Rs -> Rows]
    BY <1>5, <2>2, RowTypes DEF assign_vm, Copy, Drop, Dies
  <2> QED BY <1>5, <2>1, <2>2, <2>3 DEF assign_vm, ProcessOnly
<1>6. ASSUME NEW p \in L7Rs, send_vm_start(p) PROVE TypeOK'
  BY <1>6, RowTypes DEF send_vm_start, Goto, Copy, Drop, Dies, Places, Session, ProcessOnly
<1>7. ASSUME NEW p \in L7Rs, wait_for_vm(p) PROVE TypeOK'
  <2>1. pc' \in [L7Rs -> Places]
    BY <1>7 DEF wait_for_vm, Goto, Dies, Places, Session
  <2>2. row' \in Rows
    BY <1>7, RowTypes DEF wait_for_vm
  <2>3. seen' \in [L7Rs -> Rows]
    BY <1>7, <2>2, RowTypes DEF wait_for_vm, Copy, Drop, Dies
  <2> QED BY <1>7, <2>1, <2>2, <2>3 DEF wait_for_vm, ProcessOnly
<1>8. ASSUME NEW p \in L7Rs, start_x(p) PROVE TypeOK'
  <2>1. pc' \in [L7Rs -> Places]
    BY <1>8 DEF start_x, Goto, Dies, Places, Session
  <2>2. row' \in Rows
    BY <1>8, RowTypes DEF start_x
  <2>3. seen' \in [L7Rs -> Rows]
    BY <1>8, <2>2, RowTypes DEF start_x, Copy, Drop, Dies
  <2> QED BY <1>8, <2>1, <2>2, <2>3 DEF start_x, ProcessOnly
<1>9. ASSUME NEW p \in L7Rs, wait_for_x(p) PROVE TypeOK'
  <2>1. pc' \in [L7Rs -> Places]
    BY <1>9 DEF wait_for_x, Goto, Dies, Places, Session
  <2>2. row' \in Rows
    BY <1>9, RowTypes DEF wait_for_x
  <2>3. seen' \in [L7Rs -> Rows]
    BY <1>9, <2>2, RowTypes DEF wait_for_x, Copy, Drop, Dies
  <2> QED BY <1>9, <2>1, <2>2, <2>3 DEF wait_for_x, ProcessOnly
<1>10. ASSUME NEW p \in L7Rs, run_forwarder(p) PROVE TypeOK'
  <2>1. pc' \in [L7Rs -> Places]
    BY <1>10 DEF run_forwarder, Goto, Dies, Places, Session
  <2>2. row' \in Rows
    BY <1>10, RowTypes DEF run_forwarder
  <2>3. seen' \in [L7Rs -> Rows]
    BY <1>10, <2>2, RowTypes DEF run_forwarder, Copy, Drop, Dies
  <2> QED BY <1>10, <2>1, <2>2, <2>3 DEF run_forwarder, ProcessOnly
<1>11. ASSUME NEW p \in L7Rs, forwarder_ends(p) PROVE TypeOK'
  BY <1>11, RowTypes DEF forwarder_ends, Goto, Copy, Drop, Dies, Places, Session, ProcessOnly
<1>12. ASSUME NEW p \in L7Rs, l7r_exits(p) PROVE TypeOK'
  BY <1>12, RowTypes DEF l7r_exits, Goto, Copy, Drop, Dies, Places, Session, ProcessOnly
<1>13. ASSUME NEW p \in L7Rs, on_l7r_connection(p) PROVE TypeOK'
  BY <1>13, RowTypes DEF on_l7r_connection, Goto, Places
<1>14. ASSUME NEW p \in L7Rs, on_l7r_done(p) PROVE TypeOK'
  BY <1>14, RowTypes DEF on_l7r_done, Goto, Places
<1>15. ASSUME NEW p \in L7Rs, clean_row(p) PROVE TypeOK'
  BY <1>15, RowTypes DEF clean_row, Goto, Places
<1>16. ASSUME NEW h \in Hosts, load_user_cmds(h) PROVE TypeOK'
  <2>1. row.l7r \in L7Rs
    BY <1>16 DEF load_user_cmds, Rows
  <2> QED BY <1>16, <2>1, RowTypes DEF load_user_cmds
<1>17. ASSUME NEW h \in Hosts, abort_l7rs(h) PROVE TypeOK'
  BY <1>17, RowTypes DEF abort_l7rs
<1>18. ASSUME NEW h \in Hosts, hkd_start(h) PROVE TypeOK'
  BY <1>18, RowTypes DEF hkd_start
<1>19. ASSUME NEW h \in Hosts, stop_all_l7rs(h) PROVE TypeOK'
  BY <1>19, RowTypes DEF stop_all_l7rs
<1>20. ASSUME NEW h \in Hosts, hkd_exit(h) PROVE TypeOK'
  BY <1>20, RowTypes DEF hkd_exit, Abandon, Supervised, L7RsOf
<1>21. ASSUME NEW h \in Hosts, hkd_crash(h) PROVE TypeOK'
  BY <1>21, RowTypes DEF hkd_crash, Abandon, Supervised, L7RsOf
<1>22. ASSUME NEW h \in Hosts, unassign_l7rs(h) PROVE TypeOK'
  <2>1. row.l7r \in L7Rs
    BY <1>22 DEF unassign_l7rs, Rows
  <2> QED BY <1>22, <2>1, RowTypes DEF unassign_l7rs
<1>23. CASE vm_changes
  BY <1>23, RowTypes DEF vm_changes
<1>24. CASE vm_start \/ vm_stop \/ stop_vm
  BY <1>24, RowTypes DEF vm_start, vm_stop, stop_vm
<1>25. CASE vm_user_disconnect
  BY <1>25, RowTypes DEF vm_user_disconnect
<1>26. CASE UNCHANGED vars
  BY <1>26 DEF vars
<1> QED BY <1>1, <1>2, <1>3, <1>4, <1>5, <1>6, <1>7, <1>8, <1>9, <1>10, <1>11, <1>12, <1>13, <1>14, <1>15, <1>16, <1>17, <1>18, <1>19, <1>20, <1>21, <1>22, <1>23, <1>24, <1>25, <1>26 DEF Next, Process, Request, Supervisor, L7RKiller, Daemon

\* The state of the processes, daemons and of the row has its type: no cleanup
\* or takeover writes a value that the columns of the session cannot hold.
THEOREM TypeCorrect == Spec => []TypeOK
<1>1. Init => TypeOK
  BY SessionAssumption, RowTypes DEF Init, TypeOK, Places
<1> QED BY <1>1, TypeStep, PTL DEF Spec


(***************************************************************************)
(* The invariant is preserved.                                             *)
(***************************************************************************)
\* Every step keeps the invariant.
LEMMA SessionStep == SInv /\ [Next]_vars => SInv'
<1> SUFFICES ASSUME SInv, [Next]_vars PROVE SInv'
  OBVIOUS
<1>0. TypeOK'
  BY TypeStep DEF SInv
<1> USE <1>0, SessionAssumption DEF SInv, TypeOK, SessionOwned, Watched, DownEmpty, FreeUnowned
<1>1. ASSUME NEW p \in L7Rs, connect_to_vm(p) PROVE SInv'
  BY <1>1 DEF connect_to_vm, Goto, Dies, ProcessOnly, Session, Rows
<1>2. ASSUME NEW p \in L7Rs, takeover_vm(p) PROVE SInv'
  <2>1. CASE row.user_state = "disconnected" /\ pc'[p] = "assign"
    <3>1. \A q \in L7Rs \ stray : pc[q] \notin Session
      BY <2>1
    <3>2. row'.l7r = p /\ row'.user_state = "connecting"
      <4>1. row' = [row EXCEPT !.user_state = "connecting", !.user_cmd = "none", !.l7r = p]
        BY <1>2, <2>1 DEF takeover_vm, Goto
      <4> QED BY <4>1, RowFields
    <3> QED BY <1>2, <3>1, <3>2 DEF takeover_vm, Goto, ProcessOnly, Session
  <2>2. CASE row' = row /\ pc'[p] = "contend"
    BY <1>2, <2>2 DEF takeover_vm, Goto, ProcessOnly, Session
  <2> QED BY <1>2, <2>1, <2>2 DEF takeover_vm, Goto
<1>3. ASSUME NEW p \in L7Rs, discard_changes(p) PROVE SInv'
  BY <1>3 DEF discard_changes, Goto, Dies, ProcessOnly, Session, Rows
<1>4. ASSUME NEW p \in L7Rs, send_user_abort(p) PROVE SInv'
  BY <1>4 DEF send_user_abort, Goto, Dies, ProcessOnly, Session, Rows
<1>5. ASSUME NEW p \in L7Rs, assign_vm(p) PROVE SInv'
  BY <1>5 DEF assign_vm, Goto, Dies, ProcessOnly, Session, Rows
<1>6. ASSUME NEW p \in L7Rs, send_vm_start(p) PROVE SInv'
  BY <1>6 DEF send_vm_start, Goto, Dies, ProcessOnly, Session, Rows
<1>7. ASSUME NEW p \in L7Rs, wait_for_vm(p) PROVE SInv'
  BY <1>7 DEF wait_for_vm, Goto, Dies, ProcessOnly, Session, Rows
<1>8. ASSUME NEW p \in L7Rs, start_x(p) PROVE SInv'
  BY <1>8 DEF start_x, Goto, Dies, ProcessOnly, Session, Rows
<1>9. ASSUME NEW p \in L7Rs, wait_for_x(p) PROVE SInv'
  BY <1>9 DEF wait_for_x, Goto, Dies, ProcessOnly, Session, Rows
<1>10. ASSUME NEW p \in L7Rs, run_forwarder(p) PROVE SInv'
  BY <1>10 DEF run_forwarder, Goto, Dies, ProcessOnly, Session, Rows
<1>11. ASSUME NEW p \in L7Rs, forwarder_ends(p) PROVE SInv'
  BY <1>11 DEF forwarder_ends, Goto, Dies, ProcessOnly, Session, Rows
<1>12. ASSUME NEW p \in L7Rs, l7r_exits(p) PROVE SInv'
  BY <1>12 DEF l7r_exits, Goto, Dies, ProcessOnly, Session, Rows
<1>13. ASSUME NEW p \in L7Rs, on_l7r_connection(p) PROVE SInv'
  BY <1>13 DEF on_l7r_connection, Goto, Session
<1>14. ASSUME NEW p \in L7Rs, on_l7r_done(p) PROVE SInv'
  BY <1>14 DEF on_l7r_done
<1>15. ASSUME NEW p \in L7Rs, clean_row(p) PROVE SInv'
  <2>1. CASE row' = row
    BY <1>15, <2>1 DEF clean_row, Session
  <2>2. CASE row.l7r = p /\ row' = Cleared(row)
    <3>1. row'.l7r = NoL7R /\ \A q \in L7Rs \ stray : pc[q] \notin Session
      BY <1>15, <2>2 DEF clean_row, Cleared, Session, Rows
    <3> QED BY <1>15, <3>1 DEF clean_row, Session
  <2> QED BY <1>15, <2>1, <2>2 DEF clean_row
<1>16. ASSUME NEW h \in Hosts, load_user_cmds(h) PROVE SInv'
  BY <1>16 DEF load_user_cmds, Rows
<1>17. ASSUME NEW h \in Hosts, abort_l7rs(h) PROVE SInv'
  BY <1>17 DEF abort_l7rs
<1>18. ASSUME NEW h \in Hosts, hkd_start(h) PROVE SInv'
  BY <1>18 DEF hkd_start, Cleared, Session, Rows
<1>19. ASSUME NEW h \in Hosts, stop_all_l7rs(h) PROVE SInv'
  BY <1>19 DEF stop_all_l7rs
<1>20. ASSUME NEW h \in Hosts, hkd_exit(h) PROVE SInv'
  BY <1>20 DEF hkd_exit, Abandon, Supervised, L7RsOf
<1>21. ASSUME NEW h \in Hosts, hkd_crash(h) PROVE SInv'
  BY <1>21 DEF hkd_crash, Abandon, Supervised, L7RsOf
<1>22. ASSUME NEW h \in Hosts, unassign_l7rs(h) PROVE SInv'
  BY <1>22 DEF unassign_l7rs, Cleared, Rows
<1>23. CASE vm_changes
  <2>1. row'.user_state = row.user_state /\ row'.l7r = row.l7r
    BY <1>23, VmKeepsSession
  <2> QED BY <1>23, <2>1 DEF vm_changes
<1>24. CASE vm_start \/ vm_stop \/ stop_vm
  <2>1. row'.user_state = row.user_state /\ row'.l7r = row.l7r
    BY <1>24, ApiKeepsSession
  <2> QED BY <1>24, <2>1 DEF vm_start, vm_stop, stop_vm
<1>25. CASE vm_user_disconnect
  BY <1>25 DEF vm_user_disconnect, Rows
<1>26. CASE UNCHANGED vars
  BY <1>26 DEF vars
<1> QED BY <1>1, <1>2, <1>3, <1>4, <1>5, <1>6, <1>7, <1>8, <1>9, <1>10, <1>11, <1>12, <1>13, <1>14, <1>15, <1>16, <1>17, <1>18, <1>19, <1>20, <1>21, <1>22, <1>23, <1>24, <1>25, <1>26 DEF Next, Process, Request, Supervisor, L7RKiller, Daemon

\* It holds of a cluster that has not been started.
LEMMA SessionInit == Init => SInv
<1> SUFFICES ASSUME Init PROVE SInv
  OBVIOUS
<1>1. TypeOK
  BY SessionAssumption, RowTypes DEF Init, TypeOK, Places
<1>2. SessionOwned /\ Watched /\ DownEmpty /\ FreeUnowned
  BY DEF Init, SessionOwned, Watched, DownEmpty, FreeUnowned, Session, FreeRow
<1> QED BY <1>1, <1>2 DEF SInv

\* SessionOwned, for any number of processes and nodes and any combination of
\* serialization failures, failed queries, crashes and restarts of HKD,
\* survivors and lost nodes: a process that its HKD and the cluster have not
\* lost goes on with a session only while it owns the row.
THEOREM SessionAlwaysOwned == Spec => []SessionOwned
<1>1. Init => SInv
  BY SessionInit
<1>2. SInv => SessionOwned
  BY DEF SInv
<1> QED BY <1>1, <1>2, SessionStep, PTL DEF Spec

(***************************************************************************)
(* The release of the row.                                                 *)
(***************************************************************************)
\* A row that names a process of a daemon that is up is supervised.
OwnerSupervised ==
    \A p \in L7Rs \ stray :
        row.l7r = p /\ hkd[HostOf[p]] # "down" => agent[p] # "none"

\* Every step but a failed clean_row keeps the owner of the row supervised.
LEMMA OwnerStep ==
    ASSUME "query" \notin Faults
    PROVE  SInv /\ OwnerSupervised /\ [Next]_vars => OwnerSupervised'
<1> SUFFICES ASSUME SInv, OwnerSupervised, [Next]_vars PROVE OwnerSupervised'
  OBVIOUS
<1> USE SessionAssumption DEF OwnerSupervised
<1>1. ASSUME NEW p \in L7Rs, takeover_vm(p) PROVE OwnerSupervised'
  <2>1. row' = row \/ row'.l7r = p
    BY <1>1 DEF takeover_vm, SInv, TypeOK, Rows
  <2>2. p \in stray \/ agent[p] # "none"
    BY <1>1 DEF takeover_vm, SInv, Watched
  <2> QED BY <1>1, <2>1, <2>2 DEF takeover_vm, ProcessOnly
<1>2. ASSUME NEW p \in L7Rs, Process(p), ~takeover_vm(p) PROVE OwnerSupervised'
  <2>1. row'.l7r = row.l7r
    BY <1>2 DEF Process, Request, connect_to_vm, discard_changes, send_user_abort, assign_vm,
       send_vm_start, wait_for_vm, start_x, wait_for_x, run_forwarder, forwarder_ends,
       l7r_exits, SInv, TypeOK, Rows
  <2>2. UNCHANGED <<agent, hkd, stray>>
    BY <1>2 DEF Process, Request, connect_to_vm, discard_changes, send_user_abort, assign_vm,
       send_vm_start, wait_for_vm, start_x, wait_for_x, run_forwarder, forwarder_ends,
       l7r_exits, ProcessOnly
  <2> QED BY <2>1, <2>2
<1>3. ASSUME NEW p \in L7Rs, Supervisor(p) PROVE OwnerSupervised'
  <2>1. CASE on_l7r_connection(p)
    BY <2>1 DEF on_l7r_connection, SInv, TypeOK
  <2>2. CASE on_l7r_done(p)
    BY <2>2 DEF on_l7r_done, SInv, TypeOK
  <2>3. CASE clean_row(p)
    <3>1. row'.l7r # p /\ (row'.l7r = row.l7r \/ row'.l7r = NoL7R)
      <4>1. row' = IF row.l7r = p THEN Cleared(row) ELSE row
        BY <2>3 DEF clean_row, Fault
      <4> QED BY <4>1, RowFields DEF SInv, TypeOK
    <3> QED BY <2>3, <3>1 DEF clean_row, SInv, TypeOK
  <2> QED BY <1>3, <2>1, <2>2, <2>3 DEF Supervisor
<1>4. ASSUME NEW h \in Hosts, L7RKiller(h) PROVE OwnerSupervised'
  <2>1. row'.l7r = row.l7r /\ UNCHANGED <<hkd, stray>>
    BY <1>4 DEF L7RKiller, load_user_cmds, abort_l7rs, SInv, TypeOK, Rows
  <2>2. \A q \in L7Rs : agent[q] # "none" => agent'[q] # "none"
    BY <1>4 DEF L7RKiller, load_user_cmds, abort_l7rs, SInv, TypeOK
  <2> QED BY <2>1, <2>2
<1>5. ASSUME NEW h \in Hosts, Daemon(h) PROVE OwnerSupervised'
  <2>1. CASE hkd_start(h)
    <3>1. row'.l7r = row.l7r \/ row'.l7r = NoL7R
      BY <2>1 DEF hkd_start, Cleared, SInv, TypeOK, Rows
    <3>2. \A q \in L7Rs : row'.l7r = q => HostOf[q] # h
      BY <2>1, <3>1 DEF hkd_start, Cleared, SInv, TypeOK, Rows
    <3> QED BY <2>1, <3>1, <3>2 DEF hkd_start, SInv, TypeOK
  <2>2. CASE stop_all_l7rs(h)
    BY <2>2 DEF stop_all_l7rs, SInv, TypeOK
  <2>3. CASE hkd_exit(h) \/ hkd_crash(h)
    BY <2>3 DEF hkd_exit, hkd_crash, Abandon, Supervised, L7RsOf, SInv, TypeOK
  <2>4. CASE unassign_l7rs(h)
    <3>1. row'.l7r = NoL7R
      BY <2>4 DEF unassign_l7rs, Cleared, SInv, TypeOK, Rows
    <3> QED BY <2>4, <3>1 DEF unassign_l7rs
  <2> QED BY <1>5, <2>1, <2>2, <2>3, <2>4 DEF Daemon
<1>6. CASE vm_changes \/ vm_start \/ vm_stop \/ stop_vm \/ vm_user_disconnect
  <2>1. row'.l7r = row.l7r
    BY <1>6, VmKeepsSession DEF vm_start, vm_stop, stop_vm, vm_user_disconnect, SInv, TypeOK, Rows
  <2> QED BY <1>6, <2>1 DEF vm_changes, vm_start, vm_stop, stop_vm, vm_user_disconnect
<1>7. CASE UNCHANGED vars
  BY <1>7 DEF vars
<1> QED BY <1>1, <1>2, <1>3, <1>4, <1>5, <1>6, <1>7 DEF Next

\* OwnerCleaned, as long as the queries of HKD do not fail: the row of an L7R
\* process that has exited is always about to be released, by the supervisor
\* of the process or by the next start of its HKD.
THEOREM OwnerAlwaysCleaned ==
    ASSUME "query" \notin Faults
    PROVE  Spec => []OwnerCleaned
<1>1. Init => SInv /\ OwnerSupervised
  BY SessionInit, SessionAssumption DEF Init, OwnerSupervised, FreeRow
<1>2. SInv /\ OwnerSupervised /\ [Next]_vars => (SInv /\ OwnerSupervised)'
  BY SessionStep, OwnerStep
<1>3. SInv /\ OwnerSupervised => OwnerCleaned
  BY DEF SInv, OwnerSupervised, OwnerCleaned
<1> QED BY <1>1, <1>2, <1>3, PTL DEF Spec

(***************************************************************************)
(* The session is a lock.                                                  *)
(***************************************************************************)
\* The processes that go on with the session.
Inside == {p \in L7Rs : pc[p] \in Session}

\* A process that leaves the session, or was not in it, and leaves the owner of
\* the row alone, takes a step of the lock.
LEMMA LeaveStep ==
    ASSUME SInv, NEW p \in L7Rs, row'.l7r = row.l7r, UNCHANGED stray,
           \A q \in L7Rs \ {p} : pc'[q] = pc[q],
           pc'[p] \in Session => pc[p] \in Session
    PROVE  [Lock!Next]_(Lock!lockVars)
<1>1. CASE pc[p] \in Session /\ pc'[p] \notin Session
  <2>1. Inside' = Inside \ {p} /\ p \in Inside
    BY <1>1 DEF Inside
  <2> QED BY <2>1 DEF Lock!Next, Lock!Leave, Inside
<1>2. CASE ~(pc[p] \in Session /\ pc'[p] \notin Session)
  <2>1. Inside' = Inside
    BY <1>2 DEF Inside
  <2> QED BY <2>1 DEF Lock!lockVars, Inside
<1> QED BY <1>1, <1>2

\* Every step of the processes and of the daemons is a step of the lock, or
\* leaves it alone.
LEMMA LockStep == SInv /\ [Next]_vars => [Lock!Next]_(Lock!lockVars)
<1> SUFFICES ASSUME SInv, [Next]_vars PROVE [Lock!Next]_(Lock!lockVars)
  OBVIOUS
<1> USE SessionAssumption
<1>0. TypeOK
  BY DEF SInv
<1>1. ASSUME NEW p \in L7Rs, takeover_vm(p) PROVE [Lock!Next]_(Lock!lockVars)
  <2>1. CASE row.user_state = "disconnected" /\ pc'[p] = "assign"
    <3>1. row.l7r = NoL7R
      BY <2>1 DEF SInv, FreeUnowned
    <3>2. row'.l7r = p
      <4>1. row' = [row EXCEPT !.user_state = "connecting", !.user_cmd = "none", !.l7r = p]
        BY <1>0, <1>1, <2>1 DEF takeover_vm, Goto, TypeOK
      <4> QED BY <1>0, <4>1, RowFields DEF TypeOK
    <3>3. Inside' = Inside \cup {p} /\ UNCHANGED stray
      BY <1>0, <1>1, <2>1 DEF takeover_vm, Goto, ProcessOnly, TypeOK, Inside, Session
    <3> QED BY <3>1, <3>2, <3>3 DEF Lock!Next, Lock!Take, Inside
  <2>2. CASE row' = row /\ pc'[p] = "contend"
    <3>1. \A q \in L7Rs \ {p} : pc'[q] = pc[q]
      BY <1>0, <1>1 DEF takeover_vm, Goto, TypeOK
    <3> QED BY <1>1, <2>2, <3>1, LeaveStep DEF takeover_vm, ProcessOnly, Session
  <2> QED BY <1>0, <1>1, <2>1, <2>2 DEF takeover_vm, Goto, TypeOK
<1>2. ASSUME NEW p \in L7Rs, Process(p), ~takeover_vm(p) PROVE [Lock!Next]_(Lock!lockVars)
  <2>1. row'.l7r = row.l7r
    BY <1>0, <1>2 DEF Process, Request, connect_to_vm, discard_changes, send_user_abort, assign_vm,
       send_vm_start, wait_for_vm, start_x, wait_for_x, run_forwarder, forwarder_ends,
       l7r_exits, TypeOK, Rows
  <2>2. UNCHANGED stray
    BY <1>2 DEF Process, Request, connect_to_vm, discard_changes, send_user_abort, assign_vm,
       send_vm_start, wait_for_vm, start_x, wait_for_x, run_forwarder, forwarder_ends,
       l7r_exits, ProcessOnly
  <2>3. /\ \A q \in L7Rs \ {p} : pc'[q] = pc[q]
        /\ pc'[p] \in Session => pc[p] \in Session
    BY <1>0, <1>2 DEF Process, Request, connect_to_vm, discard_changes, send_user_abort, assign_vm,
       send_vm_start, wait_for_vm, start_x, wait_for_x, run_forwarder, forwarder_ends,
       l7r_exits, Goto, Dies, TypeOK, Session
  <2> QED BY <2>1, <2>2, <2>3, LeaveStep
<1>3. ASSUME NEW p \in L7Rs, on_l7r_connection(p) PROVE [Lock!Next]_(Lock!lockVars)
  <2>1. Inside' = Inside /\ p \notin Inside
    BY <1>0, <1>3 DEF on_l7r_connection, Goto, Inside, Session, TypeOK
  <2> QED BY <1>3, <2>1 DEF on_l7r_connection, Lock!Next, Lock!Begin, Inside
<1>4. ASSUME NEW p \in L7Rs, on_l7r_done(p) PROVE [Lock!Next]_(Lock!lockVars)
  BY <1>4 DEF on_l7r_done, Lock!lockVars
<1>5. ASSUME NEW p \in L7Rs, clean_row(p) PROVE [Lock!Next]_(Lock!lockVars)
  <2>1. CASE row' = row
    BY <1>5, <2>1 DEF clean_row, Lock!lockVars
  <2>2. CASE row.l7r = p /\ row' = Cleared(row)
    <3>1. row'.l7r = NoL7R /\ row.l7r # NoL7R
      BY <1>0, <2>2, RowFields DEF TypeOK
    <3>2. row.l7r \notin Inside
      BY <1>5, <2>2 DEF clean_row, SInv, Watched, Inside, Session
    <3> QED BY <1>5, <3>1, <3>2 DEF clean_row, Lock!Next, Lock!Release, Inside
  <2> QED BY <1>5, <2>1, <2>2 DEF clean_row
<1>6. ASSUME NEW h \in Hosts, L7RKiller(h) PROVE [Lock!Next]_(Lock!lockVars)
  <2>1. row'.l7r = row.l7r /\ UNCHANGED <<pc, stray>>
    BY <1>0, <1>6 DEF L7RKiller, load_user_cmds, abort_l7rs, TypeOK, Rows
  <2> QED BY <2>1 DEF Lock!lockVars
<1>7. ASSUME NEW h \in Hosts, hkd_start(h) PROVE [Lock!Next]_(Lock!lockVars)
  <2>1. CASE row' = row
    BY <1>7, <2>1 DEF hkd_start, Lock!lockVars
  <2>2. CASE row.l7r # NoL7R /\ HostOf[row.l7r] = h /\ row' = Cleared(row)
    <3>0. row.l7r \in L7Rs
      BY <1>0, <2>2 DEF TypeOK, Rows
    <3>1. row'.l7r = NoL7R
      BY <1>0, <2>2, <3>0, RowFields DEF TypeOK
    <3>2. row.l7r \notin Inside \/ row.l7r \in stray
      BY <1>7, <2>2, <3>0 DEF hkd_start, SInv, Watched, DownEmpty, Inside, Session
    <3> QED BY <1>7, <2>2, <3>1, <3>2 DEF hkd_start, Lock!Next, Lock!Release, Inside
  <2> QED BY <1>7, <2>1, <2>2 DEF hkd_start
<1>8. ASSUME NEW h \in Hosts, stop_all_l7rs(h) PROVE [Lock!Next]_(Lock!lockVars)
  BY <1>8 DEF stop_all_l7rs, Lock!lockVars
<1>9. ASSUME NEW h \in Hosts, hkd_exit(h) \/ hkd_crash(h) PROVE [Lock!Next]_(Lock!lockVars)
  <2>1. stray \subseteq stray' /\ stray' \subseteq L7Rs /\ UNCHANGED <<pc, row>>
    BY <1>0, <1>9 DEF hkd_exit, hkd_crash, Abandon, Supervised, L7RsOf, TypeOK
  <2> QED BY <2>1 DEF Lock!Next, Lock!Lose
<1>10. ASSUME NEW h \in Hosts, unassign_l7rs(h) PROVE [Lock!Next]_(Lock!lockVars)
  <2>0. row.l7r \in L7Rs
    BY <1>0, <1>10 DEF unassign_l7rs, TypeOK, Rows
  <2>1. row'.l7r = NoL7R
    BY <1>0, <1>10, <2>0, RowFields DEF unassign_l7rs, TypeOK
  <2>2. stray \subseteq stray' /\ stray' \subseteq L7Rs /\ row.l7r \in stray' /\ UNCHANGED pc
    BY <1>0, <1>10, <2>0 DEF unassign_l7rs, TypeOK
  <2> QED BY <2>1, <2>2 DEF Lock!Next, Lock!Lose
<1>11. CASE vm_changes \/ vm_start \/ vm_stop \/ stop_vm \/ vm_user_disconnect
  <2>1. row'.l7r = row.l7r
    BY <1>0, <1>11, VmKeepsSession DEF vm_start, vm_stop, stop_vm, vm_user_disconnect, TypeOK, Rows
  <2> QED BY <1>11, <2>1 DEF vm_changes, vm_start, vm_stop, stop_vm, vm_user_disconnect, Lock!lockVars
<1>12. CASE UNCHANGED vars
  BY <1>12 DEF vars, Lock!lockVars
<1> QED BY <1>1, <1>2, <1>3, <1>4, <1>5, <1>6, <1>7, <1>8, <1>9, <1>10, <1>11, <1>12 DEF Next, Supervisor, Daemon

\* For any number of processes and nodes and any combination of faults, the row,
\* the processes and the daemons implement the lock.
THEOREM SessionIsLock == Spec => LockImplemented
<1>1. Init => Lock!Init
  BY SessionAssumption DEF Init, Lock!Init, FreeRow, Session
<1>2. Init => SInv
  BY SessionInit
<1> QED BY <1>1, <1>2, SessionStep, LockStep, PTL DEF Spec, LockImplemented, Lock!Spec

(***************************************************************************)
(* Who marks a session as connected.                                       *)
(***************************************************************************)
\* Every process has its HKD, and a session that is not free has an owner.
NoStrays == stray = {} /\ (row.user_state # "disconnected" => row.l7r \in L7Rs)

CInv == SInv /\ NoStrays /\ ConnectedByOwner

\* Without crashes, survivors and lost nodes, every step keeps the processes
\* with their HKD and the mark with the owner.
LEMMA ConnectedStep ==
    ASSUME Faults \cap {"crash", "survive", "lost"} = {}
    PROVE  CInv /\ [Next]_vars => CInv'
<1> SUFFICES ASSUME CInv, [Next]_vars PROVE NoStrays' /\ ConnectedByOwner'
  BY SessionStep DEF CInv
<1> USE SessionAssumption
<1>0. TypeOK
  BY DEF CInv, SInv
<1> USE <1>0 DEF CInv, NoStrays, ConnectedByOwner, TypeOK
<1>1. ASSUME NEW p \in L7Rs, takeover_vm(p) PROVE NoStrays' /\ ConnectedByOwner'
  <2>1. CASE pc'[p] = "assign"
    <3>1. row' = [row EXCEPT !.user_state = "connecting", !.user_cmd = "none", !.l7r = p]
      BY <1>1, <2>1 DEF takeover_vm, Goto
    <3>2. row'.user_state = "connecting" /\ row'.l7r = p
      BY <3>1, RowFields
    <3> QED BY <1>1, <3>2 DEF takeover_vm, ProcessOnly
  <2>2. CASE row' = row /\ pc'[p] = "contend"
    BY <1>1, <2>2 DEF takeover_vm, Goto, ProcessOnly, Session
  <2> QED BY <1>1, <2>1, <2>2 DEF takeover_vm, Goto
<1>2. ASSUME NEW p \in L7Rs, run_forwarder(p) PROVE NoStrays' /\ ConnectedByOwner'
  <2>1. row.l7r = p
    BY <1>2 DEF run_forwarder, SInv, SessionOwned, Session
  <2>2. CASE row' = row /\ pc'[p] = "idle"
    BY <1>2, <2>2 DEF run_forwarder, Dies, Goto, ProcessOnly, Session
  <2>3. CASE pc'[p] = "forwarding"
    <3>1. row'.l7r = p
      BY <1>2, <2>1 DEF run_forwarder, Rows
    <3> QED BY <1>2, <2>3, <3>1 DEF run_forwarder, ProcessOnly, Session
  <2> QED BY <1>2, <2>2, <2>3 DEF run_forwarder, Dies, Goto
<1>3. ASSUME NEW p \in L7Rs, Process(p), ~takeover_vm(p), ~run_forwarder(p)
      PROVE  NoStrays' /\ ConnectedByOwner'
  <2>1. row'.l7r = row.l7r /\ row'.user_state = row.user_state
    BY <1>3 DEF Process, Request, connect_to_vm, discard_changes, send_user_abort, assign_vm,
       send_vm_start, wait_for_vm, start_x, wait_for_x, forwarder_ends,
       l7r_exits, Rows
  <2>2. UNCHANGED stray
    BY <1>3 DEF Process, Request, connect_to_vm, discard_changes, send_user_abort, assign_vm,
       send_vm_start, wait_for_vm, start_x, wait_for_x, forwarder_ends,
       l7r_exits, ProcessOnly
  <2>3. /\ \A q \in L7Rs \ {p} : pc'[q] = pc[q]
        /\ pc'[p] \in Session \ {"forwarding"} => pc[p] \in Session \ {"forwarding"}
    BY <1>3 DEF Process, Request, connect_to_vm, discard_changes, send_user_abort, assign_vm,
       send_vm_start, wait_for_vm, start_x, wait_for_x, forwarder_ends,
       l7r_exits, Goto, Dies, Session
  <2> QED BY <2>1, <2>2, <2>3
<1>4. ASSUME NEW p \in L7Rs, Supervisor(p) PROVE NoStrays' /\ ConnectedByOwner'
  <2>1. CASE on_l7r_connection(p)
    BY <2>1 DEF on_l7r_connection, Goto, Session
  <2>2. CASE on_l7r_done(p)
    BY <2>2 DEF on_l7r_done
  <2>3. CASE clean_row(p)
    BY <2>3, RowFields DEF clean_row
  <2> QED BY <1>4, <2>1, <2>2, <2>3 DEF Supervisor
<1>5. ASSUME NEW h \in Hosts, L7RKiller(h) PROVE NoStrays' /\ ConnectedByOwner'
  BY <1>5 DEF L7RKiller, load_user_cmds, abort_l7rs, Rows
<1>6. ASSUME NEW h \in Hosts, Daemon(h) PROVE NoStrays' /\ ConnectedByOwner'
  <2>1. CASE hkd_start(h)
    BY <2>1 DEF hkd_start, Cleared, Rows
  <2>2. CASE stop_all_l7rs(h)
    BY <2>2 DEF stop_all_l7rs
  <2>3. CASE hkd_exit(h)
    BY <2>3 DEF hkd_exit, Abandon, Fault
  <2>4. ~hkd_crash(h) /\ ~unassign_l7rs(h)
    BY DEF hkd_crash, unassign_l7rs, Fault
  <2> QED BY <1>6, <2>1, <2>2, <2>3, <2>4 DEF Daemon
<1>7. CASE vm_changes \/ vm_start \/ vm_stop \/ stop_vm
  <2>1. row'.user_state = row.user_state /\ row'.l7r = row.l7r
    BY <1>7, VmKeepsSession, ApiKeepsSession
  <2> QED BY <1>7, <2>1 DEF vm_changes, vm_start, vm_stop, stop_vm
<1>8. CASE vm_user_disconnect
  BY <1>8 DEF vm_user_disconnect, Rows
<1>9. CASE UNCHANGED vars
  BY <1>9 DEF vars
<1> QED BY <1>1, <1>2, <1>3, <1>4, <1>5, <1>6, <1>7, <1>8, <1>9 DEF Next

\* ConnectedByOwner, for any number of processes and nodes, as long as every
\* process keeps its HKD: run_forwarder does not look at the owner of the row,
\* and the row is nevertheless marked by its owner only.
THEOREM ConnectedAlwaysByOwner ==
    ASSUME Faults \cap {"crash", "survive", "lost"} = {}
    PROVE  Spec => []ConnectedByOwner
<1>1. Init => CInv
  BY SessionInit, SessionAssumption DEF Init, CInv, NoStrays, ConnectedByOwner, FreeRow
<1>2. CInv => ConnectedByOwner
  BY DEF CInv
<1> QED BY <1>1, <1>2, ConnectedStep, PTL DEF Spec

=============================================================================
