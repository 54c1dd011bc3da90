------------------------- MODULE DuplicateScanGuard -------------------------
(***************************************************************************)
(* SlidingWindowDuplicateScanGuard.IsBlocked, called by any number of      *)
(* request threads at once.                                                *)
(*                                                                         *)
(* The guard is a singleton and takes no lock: each operation on the       *)
(* ConcurrentDictionary is atomic, the call is not.  So a call is one      *)
(* action for reading the clock, one for looking the pallet up, one for    *)
(* recording the scan, and the clean-up goes through the table a pair at a *)
(* time, testing a pair and removing its key in separate actions.          *)
(* A disabled guard, or a window that is not positive, returns before any  *)
(* of this and is left out.                                                *)
(***************************************************************************)
EXTENDS Integers, Sequences, FiniteSets

CONSTANTS
  Callers,       \* request threads
  PalletIds,     \* keys of _recentScans
  Window,        \* DuplicateScanWindowMs
  CleanupLimit,  \* 512
  MaxTime,       \* bound: the clock stops there
  MaxCalls       \* bound: calls of IsBlocked in a behaviour

ASSUME WindowAssumption == Window \in Nat \ {0}
ASSUME GuardBoundsAssumption ==
  CleanupLimit \in Nat /\ MaxTime \in Nat /\ MaxCalls \in Nat

VARIABLES
  clock,    \* _timeProvider.GetUtcNow(), which does not run backwards
  recent,   \* _recentScans: pallet -> time of its last scan, Never for no key
  pc,       \* where each call is
  pallet,   \* the argument of each call, during the clean-up the key at hand
  now,      \* its local now
  toVisit,  \* the keys its clean-up has not come to
  calls,    \* calls begun so far
  answers,  \* history: [pallet, at, blocked] in the order scans were recorded
  overlapped \* history: some call began while another was under way

vars == <<clock, recent, pc, pallet, now, toVisit, calls, answers, overlapped>>

Never == -1
Answer == [pallet : PalletIds, at : Nat, blocked : BOOLEAN]
Steps == {"idle", "lookup", "block", "accept", "count", "visit", "remove"}

TypeOK ==
  /\ clock \in Nat
  /\ recent \in [PalletIds -> Nat \union {Never}]
  /\ pc \in [Callers -> Steps]
  /\ pallet \in [Callers -> PalletIds]
  /\ now \in [Callers -> Nat]
  /\ toVisit \in [Callers -> SUBSET PalletIds]
  /\ calls \in Nat
  /\ answers \in Seq(Answer)
  /\ overlapped \in BOOLEAN

Init ==
  /\ clock = 0
  /\ recent = [p \in PalletIds |-> Never]
  /\ pc = [c \in Callers |-> "idle"]
  /\ pallet \in {[c \in Callers |-> p] : p \in PalletIds}
  /\ now = [c \in Callers |-> 0]
  /\ toVisit = [c \in Callers |-> {}]
  /\ calls = 0
  /\ answers = <<>>
  /\ overlapped = FALSE

-----------------------------------------------------------------------------
Recorded == {p \in PalletIds : recent[p] # Never}
Threshold(c) == now[c] - Window
Quiet == \A c \in Callers : pc[c] = "idle"
Goto(c, step) == pc' = [pc EXCEPT ![c] = step]

\* _recentScans[palletId] = now, and what the call is going to return.
Record(c, isBlocked) ==
  /\ recent' = [recent EXCEPT ![pallet[c]] = now[c]]
  /\ answers' = Append(answers, [pallet |-> pallet[c], at |-> now[c], blocked |-> isBlocked])

\* Mutant of ReadClock: now is the start of the window already.
ReadThreshold(c, p) ==
  /\ pc[c] = "idle" /\ calls < MaxCalls
  /\ calls' = calls + 1
  /\ pallet' = [pallet EXCEPT ![c] = p]
  /\ now' = [now EXCEPT ![c] = clock - Window]
  /\ Goto(c, "lookup")
  /\ overlapped' = (overlapped \/ ~Quiet)
  /\ UNCHANGED <<clock, recent, toVisit, answers>>

ReadClock(c, p) ==
  /\ pc[c] = "idle" /\ calls < MaxCalls
  /\ calls' = calls + 1
  /\ pallet' = [pallet EXCEPT ![c] = p]
  /\ now' = [now EXCEPT ![c] = clock]
  /\ Goto(c, "lookup")
  /\ overlapped' = (overlapped \/ ~Quiet)
  /\ UNCHANGED <<clock, recent, toVisit, answers>>

\* Mutants of InWindow: > for >=; without the test of the threshold.
InWindowStrictly(c) == recent[pallet[c]] # Never /\ recent[pallet[c]] > Threshold(c)
EverRecorded(c) == recent[pallet[c]] # Never

InWindow(c) == recent[pallet[c]] # Never /\ recent[pallet[c]] >= Threshold(c)

LookUp(c) ==
  /\ pc[c] = "lookup"
  /\ Goto(c, IF InWindow(c) THEN "block" ELSE "accept")
  /\ UNCHANGED <<clock, recent, pallet, now, toVisit, calls, answers, overlapped>>

\* A blocked scan slides the window, too.
Block(c) ==
  /\ pc[c] = "block"
  /\ Record(c, TRUE)
  /\ Goto(c, "idle")
  /\ UNCHANGED <<clock, pallet, now, toVisit, calls, overlapped>>

Accept(c) ==
  /\ pc[c] = "accept"
  /\ Record(c, FALSE)
  /\ Goto(c, "count")
  /\ UNCHANGED <<clock, pallet, now, toVisit, calls, overlapped>>

\* Mutant of CheckCount: the clean-up begins one key late.
CheckCountLate(c) ==
  /\ pc[c] = "count"
  /\ IF Cardinality(Recorded) > CleanupLimit + 1
       THEN Goto(c, "visit") /\ toVisit' = [toVisit EXCEPT ![c] = PalletIds]
       ELSE Goto(c, "idle") /\ UNCHANGED toVisit
  /\ UNCHANGED <<clock, recent, pallet, now, calls, answers, overlapped>>

CheckCount(c) ==
  /\ pc[c] = "count"
  /\ IF Cardinality(Recorded) > CleanupLimit
       THEN Goto(c, "visit") /\ toVisit' = [toVisit EXCEPT ![c] = PalletIds]
       ELSE Goto(c, "idle") /\ UNCHANGED toVisit
  /\ UNCHANGED <<clock, recent, pallet, now, calls, answers, overlapped>>

\* The enumerator is no snapshot: a pair is what it is when it is visited.
Stale(c, p) == recent[p] # Never /\ recent[p] < Threshold(c)

VisitFresh(c, p) ==
  /\ pc[c] = "visit" /\ p \in toVisit[c] /\ ~Stale(c, p)
  /\ toVisit' = [toVisit EXCEPT ![c] = @ \ {p}]
  /\ UNCHANGED <<clock, recent, pc, pallet, now, calls, answers, overlapped>>

\* The key p stays in toVisit[c] until it is removed.
VisitStale(c, p) ==
  /\ pc[c] = "visit" /\ p \in toVisit[c] /\ Stale(c, p)
  /\ pallet' = [pallet EXCEPT ![c] = p]
  /\ Goto(c, "remove")
  /\ UNCHANGED <<clock, recent, now, toVisit, calls, answers, overlapped>>

\* TryRemove(pair.Key): whatever value the key has by now.
Remove(c) ==
  /\ pc[c] = "remove"
  /\ recent' = [recent EXCEPT ![pallet[c]] = Never]
  /\ toVisit' = [toVisit EXCEPT ![c] = @ \ {pallet[c]}]
  /\ Goto(c, "visit")
  /\ UNCHANGED <<clock, pallet, now, calls, answers, overlapped>>

EndVisit(c) ==
  /\ pc[c] = "visit" /\ toVisit[c] = {}
  /\ Goto(c, "idle")
  /\ UNCHANGED <<clock, recent, pallet, now, toVisit, calls, answers, overlapped>>

Tick ==
  /\ clock < MaxTime
  /\ clock' = clock + 1
  /\ UNCHANGED <<recent, pc, pallet, now, toVisit, calls, answers, overlapped>>

-----------------------------------------------------------------------------
Step(c) ==
  \/ LookUp(c) \/ Block(c) \/ Accept(c) \/ CheckCount(c) \/ Remove(c) \/ EndVisit(c)
  \/ \E p \in PalletIds : VisitFresh(c, p) \/ VisitStale(c, p)

Next ==
  \/ \E c \in Callers, p \in PalletIds : ReadClock(c, p)
  \/ \E c \in Callers : Step(c)
  \/ Tick

Spec == Init /\ [][Next]_vars

-----------------------------------------------------------------------------
(* Properties.                                                             *)

Repeats(i, j) ==
  /\ i < j
  /\ answers[i].pallet = answers[j].pallet
  /\ answers[i].at >= answers[j].at - Window

\* However many threads are inside IsBlocked, a scan is only ever refused
\* because of another scan of the same pallet recorded before it and not older
\* than the window: the guard invents no duplicates.
BlocksAreJustified ==
  \A j \in 1..Len(answers) :
    answers[j].blocked => \E i \in 1..Len(answers) : Repeats(i, j)

\* As long as no two calls overlap, the guard answers as if it remembered every
\* scan for ever: it refuses a scan exactly when the pallet was scanned, accepted
\* or not, within the window before.  The clean-up forgets nothing that could
\* still matter.
AnswersMatchHistory ==
  ~overlapped =>
    \A j \in 1..Len(answers) :
      answers[j].blocked <=> \E i \in 1..Len(answers) : Repeats(i, j)

\* What the option promises, "rejects accidental duplicate pallet scans in short
\* intervals": of two scans of one pallet in the window at most one is accepted.
DuplicatesRejected ==
  \A i, j \in 1..Len(answers) :
    Repeats(i, j) => answers[i].blocked \/ answers[j].blocked

\* The table does not grow without bound: when no call is under way it is either
\* within the limit, or the clean-up of the last accepted scan left only pallets
\* scanned within the window before that scan (while calls have not overlapped).
TableIsSwept ==
  Quiet /\ ~overlapped =>
    \/ Cardinality(Recorded) <= CleanupLimit
    \/ \E i \in 1..Len(answers) :
         /\ ~answers[i].blocked
         /\ \A j \in (i + 1)..Len(answers) : answers[j].blocked
         /\ \A p \in Recorded : recent[p] >= answers[i].at - Window
=============================================================================
