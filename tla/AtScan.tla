------------------------------- MODULE AtScan -------------------------------
(***************************************************************************)
(* AT+CWLAP: the AT task scans, waits for the Wi-Fi task to say that the   *)
(* scan is complete, and prints the list of access points                  *)
(* (ln_at_exec_scan and output_ap_list of                                  *)
(* components/ln_at_cmd/wifi/ln_at_cmd_wifi.c), over the list of ApList.   *)
(* The Wi-Fi task calls the handlers of wifi_manager.c: reports, scan      *)
(* complete, connected.  The Wi-Fi library itself is external: it scans    *)
(* one request at a time, and a scan may take longer than SCAN_TIMEOUT.    *)
(* Both tasks have the priority OS_PRIORITY_NORMAL and can be preempted    *)
(* between any two steps.                                                  *)
(***************************************************************************)
EXTENDS ApList

CONSTANTS
  ConnectedScanTimes   \* CONNECTED_SCAN_TIMES

ASSUME ScanAssumption == ConnectedScanTimes \in Nat \ {0}

VARIABLES
  at,            \* where the AT task is; "fault": it has used NULL or memory
                 \* that was freed and given to somebody else
  scan_cnt,
  sem,           \* the semaphore object: "none", "deleted", or its count
  sem_scan,      \* does the global point to it?
  event_cb,      \* is the scan complete callback registered?
  cursor,        \* the cell of pnode in output_ap_list, 0 for the list's head
  wifi,          \* where the Wi-Fi task is in its callback
  scanning,
  connected

atVars == <<at, scan_cnt, sem, sem_scan, event_cb, cursor>>
wifiVars == <<wifi, scanning, connected>>
vars == <<listVars, atVars, wifiVars>>

Init ==
  /\ ListInit
  /\ at = "idle" /\ scan_cnt = 0
  /\ sem = "none" /\ sem_scan = FALSE /\ event_cb = FALSE
  /\ cursor = 0
  /\ wifi = "idle" /\ scanning = FALSE /\ connected = FALSE

----------------------------------------------------------------------------
(* The AT task *)

\* ln_at_exec_scan, in station mode (in any other it returns an error at once):
\* the semaphore is created, or it is not, which nobody looks at;
AtCreate ==
  /\ at = "idle"
  /\ at' = "register"
  /\ \/ sem' = "0" /\ sem_scan' = TRUE
     \/ sem' = "none" /\ sem_scan' = FALSE
  /\ UNCHANGED <<listVars, scan_cnt, event_cb, cursor, wifiVars>>

\* the callback is registered;
AtRegister ==
  /\ at = "register"
  /\ at' = "status"
  /\ event_cb' = TRUE
  /\ UNCHANGED <<listVars, scan_cnt, sem, sem_scan, cursor, wifiVars>>

\* a station that is connected scans several times.
AtStatus ==
  /\ at = "status"
  /\ at' = "issue"
  /\ scan_cnt' = IF connected THEN ConnectedScanTimes ELSE 1
  /\ UNCHANGED <<listVars, sem, sem_scan, event_cb, cursor, wifiVars>>

\* wifi_sta_scan; the library refuses while it scans.
AtIssue ==
  /\ at = "issue"
  /\ at' = "wait"
  /\ scanning' = TRUE
  /\ UNCHANGED <<listVars, scan_cnt, sem, sem_scan, event_cb, cursor, wifi, connected>>

NextScan ==
  /\ scan_cnt' = scan_cnt - 1
  /\ at' = IF scan_cnt > 1 THEN "issue" ELSE "disable"

\* Mutant: the wait has no timeout.
AtWaitForever ==
  /\ at = "wait" /\ sem_scan /\ sem = "1"
  /\ sem' = "0"
  /\ NextScan
  /\ UNCHANGED <<listVars, sem_scan, event_cb, cursor, wifiVars>>

\* ln_at_sem_wait(sem_scan, SCAN_TIMEOUT): the semaphore, or the timeout.
AtWait ==
  /\ at = "wait" /\ sem_scan
  /\ \/ sem = "1" /\ sem' = "0"
     \/ UNCHANGED sem
  /\ NextScan
  /\ UNCHANGED <<listVars, sem_scan, event_cb, cursor, wifiVars>>

\* The wait for a semaphore that was not created reads through NULL.
AtWaitNull ==
  /\ at = "wait" /\ ~sem_scan
  /\ at' = "fault"
  /\ UNCHANGED <<listVars, scan_cnt, sem, sem_scan, event_cb, cursor, wifiVars>>

AtDisable ==
  /\ at = "disable"
  /\ at' = "get"
  /\ UpdateEnable(FALSE)
  /\ UNCHANGED <<scan_cnt, sem, sem_scan, event_cb, cursor, wifiVars>>

\* The cell that follows position i of the list, or the list's head.
CellAt(l, i) == IF i <= Len(l) THEN l[i].cell ELSE 0

AtGet ==
  /\ at = "get"
  /\ at' = "walk"
  /\ GetApList
  /\ cursor' = CellAt(list', 1)
  /\ UNCHANGED <<scan_cnt, sem, sem_scan, event_cb, wifiVars>>

\* One node is printed.
AtWalk ==
  /\ at = "walk" /\ cursor \in Cells(list)
  /\ \E i \in 1 .. Len(list) : list[i].cell = cursor /\ cursor' = CellAt(list, i + 1)
  /\ UNCHANGED <<listVars, at, scan_cnt, sem, sem_scan, event_cb, wifiVars>>

\* The node has been freed: its pointers still lead, past others that were
\* freed with it, to a node or to the head, or its memory is in use again.
AtWalkFreed ==
  /\ at = "walk" /\ cursor \notin Cells(list) \cup {0}
  /\ \/ cursor' \in Cells(list) \cup {0} /\ UNCHANGED at
     \/ at' = "fault" /\ UNCHANGED cursor
  /\ UNCHANGED <<listVars, scan_cnt, sem, sem_scan, event_cb, wifiVars>>

AtEnable ==
  /\ at = "walk" /\ cursor = 0
  /\ at' = "unregister"
  /\ UpdateEnable(TRUE)
  /\ UNCHANGED <<scan_cnt, sem, sem_scan, event_cb, cursor, wifiVars>>

\* Mutant: the callback stays registered.
AtUnregisterNot ==
  /\ at = "unregister"
  /\ at' = "delete"
  /\ UNCHANGED <<listVars, scan_cnt, sem, sem_scan, event_cb, cursor, wifiVars>>

AtUnregister ==
  /\ at = "unregister"
  /\ at' = "delete"
  /\ event_cb' = FALSE
  /\ UNCHANGED <<listVars, scan_cnt, sem, sem_scan, cursor, wifiVars>>

AtDelete ==
  /\ at = "delete"
  /\ at' = "forget"
  /\ sem' = "deleted"
  /\ UNCHANGED <<listVars, scan_cnt, sem_scan, event_cb, cursor, wifiVars>>

AtForget ==
  /\ at = "forget"
  /\ at' = "cleanup"
  /\ sem_scan' = FALSE
  /\ UNCHANGED <<listVars, scan_cnt, sem, event_cb, cursor, wifiVars>>

AtCleanup ==
  /\ at = "cleanup"
  /\ at' = "idle"
  /\ Cleanup
  /\ UNCHANGED <<scan_cnt, sem, sem_scan, event_cb, cursor, wifiVars>>

AtCommand ==
  \/ AtRegister \/ AtStatus \/ AtIssue \/ AtWait \/ AtWaitNull
  \/ AtDisable \/ AtGet \/ AtWalk \/ AtWalkFreed \/ AtEnable
  \/ AtUnregister \/ AtDelete \/ AtForget \/ AtCleanup

----------------------------------------------------------------------------
(* The Wi-Fi task *)

\* sta_scan_report
ScanReport ==
  /\ wifi = "idle" /\ scanning
  /\ \E b \in Bssid, r \in Rssi : Update(b, r)
  /\ UNCHANGED <<atVars, wifiVars>>

\* sta_scan_complete: the callback is read,
ScanComplete ==
  /\ wifi = "idle" /\ scanning
  /\ scanning' = FALSE
  /\ wifi' = IF event_cb THEN "callback" ELSE "idle"
  /\ UNCHANGED <<listVars, atVars, connected>>

\* wifi_scan_complete_cb: the pointer to the semaphore is read and tested,
ScanCallback ==
  /\ wifi = "callback"
  /\ wifi' = IF sem_scan THEN "release" ELSE "idle"
  /\ UNCHANGED <<listVars, atVars, scanning, connected>>

\* and the semaphore, whose maximum is 1, is released.
ScanRelease ==
  /\ wifi = "release"
  /\ wifi' = "idle"
  /\ sem' = IF sem = "0" THEN "1" ELSE sem
  /\ UNCHANGED <<listVars, at, scan_cnt, sem_scan, event_cb, cursor, scanning, connected>>

\* sta_connected empties the list, whatever enable says.
StaConnected ==
  /\ wifi = "idle" /\ ~connected
  /\ connected' = TRUE
  /\ Cleanup
  /\ UNCHANGED <<atVars, wifi, scanning>>

StaDisconnected ==
  /\ wifi = "idle" /\ connected
  /\ connected' = FALSE
  /\ UNCHANGED <<listVars, atVars, wifi, scanning>>

----------------------------------------------------------------------------
(* The application *)

\* wifi_manager_set_ap_list_sort_rule, which any task may call.
SetRule ==
  /\ \E r \in {"NORMAL_SORT", "RSSI_SORT"} : SetSortRule(r)
  /\ UNCHANGED <<atVars, wifiVars>>

Tick == Age /\ UNCHANGED <<atVars, wifiVars>>

WifiTask == ScanComplete \/ ScanCallback \/ ScanRelease

Next ==
  \/ AtCreate \/ AtCommand
  \/ ScanReport \/ WifiTask \/ StaConnected \/ StaDisconnected
  \/ SetRule \/ Tick

\* The tasks are scheduled, and a wait times out; nothing obliges a scan to end.
Spec ==
  /\ Init /\ [][Next]_vars
  /\ WF_vars(AtCommand) /\ WF_vars(ScanCallback \/ ScanRelease)

----------------------------------------------------------------------------
\* Properties

\* A report costs at most one live access point, the weakest (ApList).
ReportLosesTheWeakest == [][LosesTheWeakest]_vars

\* output_ap_list walks the list without its mutex (ln_at_cmd_wifi.c:969).
\* Turning "enable" off keeps reports from freeing the node it stands on, and
\* so nothing does but the two operations that do not ask for it: the cleanup
\* of a station that connects, and a change of the sort rule.
WalkLosesOnlyToCleanup ==
  [][at = "walk" /\ cursor \in Cells(list) =>
       cursor \in Cells(list') \/ StaConnected \/ SetRule]_vars

\* The global points to a semaphore that does not exist only between its
\* deletion and the assignment of NULL (ln_at_cmd_wifi.c:1037-1038), when no
\* callback can begin any more: a callback releases a deleted semaphore only
\* if the AT task overtakes it in there.
DeadSemaphoreWindow ==
  sem_scan /\ sem \notin {"0", "1"} => at = "forget" /\ ~event_cb

\* AT+CWLAP ends, with the list open for reports again, even when the library
\* never says that a scan is complete; unless it used memory it does not own.
ScanEnds == at # "idle" ~> ((at = "idle" /\ enable) \/ at = "fault")

=============================================================================
