--------------------------- MODULE ConfirmService ---------------------------
(***************************************************************************)
(* WarehouseDataService over the tables: confirming moves in batches, with *)
(* the duplicate-scan guard and the operational counters, while any other  *)
(* station registers, closes, undoes or clears.                            *)
(*                                                                         *)
(* A batch is a loop of scans and each scan takes the write lock of its    *)
(* own, so other requests come between two scans of a batch and between    *)
(* the guard and the tables.  Of the guard only its window is kept here:   *)
(* inWindow holds the pallets scanned less than DuplicateScanWindowMs ago  *)
(* (DuplicateScanGuard has the clock, the records and their clean-up).     *)
(***************************************************************************)
EXTENDS WarehouseStore

CONSTANTS
  Requests,        \* POST /confirm requests the server works on at once
  ScanCounts,      \* values of ConfirmScanCount, any integer
  MaxScans,        \* bound: scans attempted in a behaviour
  MaxCorrections   \* bound: undos and clears in a behaviour

ASSUME ScanCountsAssumption == ScanCounts \subseteq Int
ASSUME ServiceBoundsAssumption == MaxScans \in Nat /\ MaxCorrections \in Nat

VARIABLES
  inWindow,   \* pallets the guard would refuse
  req,        \* request -> where it is and what it has done
  metrics,    \* the counters of OperationalMetricsService used here
  gone,       \* history: confirmed colli whose entries were undone or cleared
  cut         \* history: scans given up before they reached the tables

serviceVars == <<inWindow, req, metrics, gone, cut>>
allVars == <<vars, serviceVars>>

UnreadableCode == 0    \* a scan TryParsePalletCode rejects
Verdicts == {"none", "success", "warning", "error"}
Reasons == {"none", "bad count", "unreadable", "duplicate", "nothing left"}

Request == [pc        : {"idle", "scan", "look up", "record", "write"},
            pallet    : PalletNumbers \union {UnreadableCode},
            count     : Int,      \* confirmScanCount
            confirmed : Nat,
            verdict   : Verdicts, \* the type of the response, "none" without one
            reason    : Reasons]  \* what its message says went wrong

Metrics == [attempts : Nat, failures : Nat, blocked : Nat, undos : Nat, clears : Nat]

ServiceTypeOK ==
  /\ TypeOK
  /\ inWindow \subseteq PalletNumbers
  /\ req \in [Requests -> Request]
  /\ metrics \in Metrics
  /\ gone \in Nat /\ cut \in Nat

NoRequest == [pc |-> "idle", pallet |-> UnreadableCode, count |-> 0, confirmed |-> 0,
              verdict |-> "none", reason |-> "none"]

ServiceInit ==
  /\ Init
  /\ inWindow = {}
  /\ req = [r \in Requests |-> NoRequest]
  /\ metrics = [attempts |-> 0, failures |-> 0, blocked |-> 0, undos |-> 0, clears |-> 0]
  /\ gone = 0 /\ cut = 0

-----------------------------------------------------------------------------
Count(counter) == metrics' = [metrics EXCEPT ![counter] = @ + 1]
Goto(r, step) == req' = [req EXCEPT ![r].pc = step]

\* ConfirmMoveBatchByPalletScanAsync after its loop.
Verdict(confirmed, count) ==
  IF confirmed = count THEN "success" ELSE IF confirmed > 0 THEN "warning" ELSE "error"

Respond(r, confirmed, reason) ==
  req' = [req EXCEPT ![r].pc = "idle", ![r].confirmed = confirmed, ![r].reason = reason,
                     ![r].verdict = Verdict(confirmed, req[r].count)]

Submit(r, n, k) ==
  /\ req[r].pc = "idle"
  /\ metrics.attempts < MaxScans
  /\ LET fresh == [NoRequest EXCEPT !.pallet = n, !.count = k]
     IN  req' = [req EXCEPT ![r] =
                   IF k <= 0 THEN [fresh EXCEPT !.verdict = "error", !.reason = "bad count"]
                             ELSE [fresh EXCEPT !.pc = "scan"]]
  /\ UNCHANGED <<vars, inWindow, metrics, gone, cut>>

\* Mutant of Scan: every scan of a batch asks the guard.
ScanAskingGuard(r) ==
  /\ req[r].pc = "scan" /\ req[r].pallet # UnreadableCode
  /\ Count("attempts")
  /\ Goto(r, "look up")
  /\ UNCHANGED <<vars, inWindow, gone, cut>>

\* One turn of the loop: only the first scan asks the guard.
Scan(r) ==
  /\ req[r].pc = "scan" /\ req[r].pallet # UnreadableCode
  /\ Count("attempts")
  /\ Goto(r, IF req[r].confirmed > 0 THEN "write" ELSE "look up")
  /\ UNCHANGED <<vars, inWindow, gone, cut>>

\* Mutant of RejectCode: without its early return.
RejectCodeAndGoOn(r) ==
  /\ req[r].pc = "scan" /\ req[r].pallet = UnreadableCode
  /\ metrics' = [metrics EXCEPT !.attempts = @ + 1, !.failures = @ + 1]
  /\ Goto(r, "look up")
  /\ UNCHANGED <<vars, inWindow, gone, cut>>

RejectCode(r) ==
  /\ req[r].pc = "scan" /\ req[r].pallet = UnreadableCode
  /\ metrics' = [metrics EXCEPT !.attempts = @ + 1, !.failures = @ + 1]
  /\ Respond(r, req[r].confirmed, "unreadable")
  /\ UNCHANGED <<vars, inWindow, gone, cut>>

\* IsBlocked: looking the pallet up and recording the scan are two steps.
PassGuard(r) ==
  /\ req[r].pc = "look up" /\ req[r].pallet \notin inWindow
  /\ Goto(r, "record")
  /\ UNCHANGED <<vars, inWindow, metrics, gone, cut>>

RejectDuplicate(r) ==
  /\ req[r].pc = "look up" /\ req[r].pallet \in inWindow
  /\ Count("blocked")
  /\ Respond(r, req[r].confirmed, "duplicate")
  /\ UNCHANGED <<vars, inWindow, gone, cut>>

RecordScan(r) ==
  /\ req[r].pc = "record"
  /\ inWindow' = inWindow \union {req[r].pallet}
  /\ Goto(r, "write")
  /\ UNCHANGED <<vars, metrics, gone, cut>>

\* Mutant of NothingLeft: an entry begun counts as done.
NothingUntouched(n) == \A i \in EntriesOf(n) : entries[i].confirmed > 0

NothingLeft(n) == \A i \in 1..Len(entries) : ~IsLatestUnconfirmed(i, n)

ConfirmColli(r) ==
  /\ req[r].pc = "write"
  /\ ConfirmLatestUnconfirmed(req[r].pallet)
  /\ LET confirmed == req[r].confirmed + 1
     IN  IF confirmed = req[r].count
           THEN Respond(r, confirmed, "none")
           ELSE req' = [req EXCEPT ![r].pc = "scan", ![r].confirmed = confirmed]
  /\ UNCHANGED <<inWindow, metrics, gone, cut>>

\* Mutants of FindNothing: the failure is not counted; the loop goes on trying.
FindNothingUncounted(r) ==
  /\ req[r].pc = "write"
  /\ NothingLeft(req[r].pallet)
  /\ Respond(r, req[r].confirmed, "nothing left")
  /\ UNCHANGED <<vars, inWindow, metrics, gone, cut>>

FindNothingRetrying(r) ==
  /\ req[r].pc = "write"
  /\ NothingLeft(req[r].pallet)
  /\ Goto(r, "write")
  /\ UNCHANGED <<vars, inWindow, metrics, gone, cut>>

FindNothing(r) ==
  /\ req[r].pc = "write"
  /\ NothingLeft(req[r].pallet)
  /\ Count("failures")
  /\ Respond(r, req[r].confirmed, "nothing left")
  /\ UNCHANGED <<vars, inWindow, gone, cut>>

\* The client is gone or the database call throws: the exception leaves the
\* service before the next counter and there is no response.  The scan either
\* never reached the tables or was committed all the same.
CutOff(r) ==
  /\ req[r].pc = "write"
  /\ Goto(r, "idle")
  /\ \/ cut' = cut + 1 /\ UNCHANGED vars
     \/ ConfirmLatestUnconfirmed(req[r].pallet) /\ UNCHANGED cut
  /\ UNCHANGED <<inWindow, metrics, gone>>

\* DuplicateScanWindowMs after the last scan of n.
WindowPasses(n) ==
  /\ n \in inWindow
  /\ inWindow' = inWindow \ {n}
  /\ UNCHANGED <<vars, req, metrics, gone, cut>>

-----------------------------------------------------------------------------
(* The other stations.                                                     *)

Confirmed == SumFunctionOnSet([i \in 1..Len(entries) |-> entries[i].confirmed], 1..Len(entries))

RegisterOrClose ==
  /\ Register \/ \E n \in PalletNumbers : ClosePallet(n)
  /\ UNCHANGED serviceVars

MayCorrect == metrics.undos + metrics.clears < MaxCorrections

UndoCounted ==
  /\ MayCorrect
  /\ UndoLast
  /\ Count("undos")
  /\ gone' = gone + entries[Len(entries)].confirmed
  /\ UNCHANGED <<inWindow, req, cut>>

ClearCounted ==
  /\ MayCorrect
  /\ ClearAllData
  /\ Count("clears")
  /\ gone' = gone + Confirmed
  /\ UNCHANGED <<inWindow, req, cut>>

-----------------------------------------------------------------------------
Serve(r) ==
  \/ Scan(r) \/ RejectCode(r)
  \/ PassGuard(r) \/ RejectDuplicate(r) \/ RecordScan(r)
  \/ ConfirmColli(r) \/ FindNothing(r)

ServiceNext ==
  \/ \E r \in Requests, n \in PalletNumbers \union {UnreadableCode}, k \in ScanCounts :
       Submit(r, n, k)
  \/ \E r \in Requests : Serve(r) \/ CutOff(r)
  \/ \E n \in PalletNumbers : WindowPasses(n)
  \/ RegisterOrClose \/ UndoCounted \/ ClearCounted

\* The server's threads run: a request it works on takes its next step.
ServiceSpec ==
  /\ ServiceInit /\ [][ServiceNext]_allVars
  /\ \A r \in Requests : WF_allVars(Serve(r))

-----------------------------------------------------------------------------
(* Properties.                                                             *)

UnderWay == {r \in Requests : req[r].pc \in {"look up", "record", "write"}}

\* Every scan attempt the counters show ended in exactly one way: a colli marked
\* in the tables (or since undone or cleared), a failure, a blocked duplicate, a
\* request that was cut off, or it is still under way.  No batch marks a colli
\* nobody scanned, and none is marked twice for one scan.
ScansAccountedFor ==
  metrics.attempts =
    Confirmed + gone + metrics.failures + metrics.blocked + cut + Cardinality(UnderWay)

\* The guard never breaks a batch in the middle: a batch refused as a duplicate
\* has confirmed nothing, however quickly its own scans follow each other.
GuardStopsOnlyFirstScan ==
  \A r \in Requests : req[r].reason = "duplicate" => req[r].confirmed = 0 /\ req[r].verdict = "error"

\* A batch that stops short of its count for want of colli leaves none on its
\* pallet, whatever the other batches confirmed and undid in the meantime.
ShortBatchLeavesNothing ==
  [][\A r \in Requests :
       req[r].pc # "idle" /\ req'[r].reason = "nothing left" /\ req'[r].pc = "idle"
         => /\ req'[r].confirmed < req'[r].count
            /\ \A i \in 1..Len(entries') : entries'[i].pallet = req'[r].pallet
                 => entries'[i].confirmed >= entries'[i].qty]_allVars

\* A confirm request comes to an end: the loop over ConfirmScanCount stops, also
\* when other stations keep registering on the pallet or emptying it.
RequestsEnd == \A r \in Requests : req[r].pc # "idle" ~> req[r].pc = "idle"
=============================================================================
