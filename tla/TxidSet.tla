------------------------------ MODULE TxidSet -------------------------------
(***************************************************************************)
(* The two-tier claim store (src/txidset/txidset.go): processes that each  *)
(* hold a Store (a local set, a queue of marks and workers draining it)    *)
(* and share one SetNX backend under one key prefix.  A backend call may   *)
(* be answered, time out, or take effect after the caller gave up, and a   *)
(* process may crash and start again.                                      *)
(***************************************************************************)
EXTENDS LocalShard, Sequences

CONSTANTS
  Stores,          \* the processes, each with its Store
  Callers,         \* goroutines calling Claim and Mark
  Workers,         \* goroutines of markLoop
  Owner,           \* [Callers \cup Workers -> Stores]
  Ops,             \* what each caller calls: [Callers -> SUBSET {"claim", "mark"}]
  Tiers,           \* {1, 2}: Stores with and without a backend; {2}: with
  OwnBackend,      \* the Store built its backend (RedisAddr) and closes it
  CloseLast,       \* no Mark overlaps or follows Close
  MarkQueueDepth,  \* capacity of markCh
  MaxClock,        \* bound on the clock
  MaxCrashes       \* bound on the number of crashes

ASSUME StoreAssumption ==
  /\ TTL > 0
  /\ Callers \cap Workers = {}
  /\ Owner \in [Callers \cup Workers -> Stores]
  /\ \A s \in Stores : \E w \in Workers : Owner[w] = s
  /\ Ops \in [Callers -> SUBSET {"claim", "mark"}]
  /\ {OwnBackend, CloseLast} \subseteq BOOLEAN
  /\ Tiers \subseteq 1..2
  /\ MarkQueueDepth \in Nat \ {0}

VARIABLES
  clock,       \* time.Now(), the same for all
  crashes,     \* how many crashes there were
  tiers,       \* [Stores -> Tiers], 1: New was given no backend, local-only
  local,       \* [Stores -> Shard], tier 1
  markCh,      \* [Stores -> Seq(Keys)], the queued marks
  phase,       \* [Stores -> {"open", "closing", "closed"}]
  procs,       \* [Callers \cup Workers -> the call in progress]
  backend,     \* [Keys -> expiry or None], tier 2
  late,        \* SetNX requests that may still reach the backend
  proceeded,   \* history: Claim told a caller to proceed
  suppressed,  \* history: Claim told a caller to suppress
  marked,      \* history: Mark was called
  orphaned     \* history: a process crashed while claiming

vars == <<clock, crashes, tiers, local, markCh, phase, procs, backend, late,
          proceeded, suppressed, marked, orphaned>>
history == <<proceeded, suppressed, marked, orphaned>>

Procs == Callers \cup Workers
Idle == [at |-> "idle"]
Exited == [at |-> "exited"]
Call ==
  [at : {"local"}, op : {"claim", "mark"}, key : Keys, now : Nat]
    \cup [at : {"enqueue", "sent"}, op : {"claim", "mark"}, key : Keys]
    \cup [at : {"answered"}, op : {"claim", "mark"}, key : Keys, ok : BOOLEAN]

Busy(p) == procs[p].at \notin {"idle", "exited"}
Moved(p, at) == [procs EXCEPT ![p] = [at |-> at, op |-> @.op, key |-> @.key]]
Returned(p) == [procs EXCEPT ![p] = Idle]

Init ==
  /\ clock = 0 /\ crashes = 0
  /\ tiers \in [Stores -> Tiers]
  /\ local = [s \in Stores |-> Empty]
  /\ markCh = [s \in Stores |-> <<>>]
  /\ phase = [s \in Stores |-> "open"]
  /\ procs = [p \in Procs |-> Idle]
  /\ backend = [k \in Keys |-> None]
  /\ late = {}
  /\ proceeded = {} /\ suppressed = {} /\ marked = {} /\ orphaned = {}

-----------------------------------------------------------------------------
(* Claim and Mark both start with SeenAndAdd, which reads the time before  *)
(* it locks the set.                                                       *)
Start(p, op, k) ==
  /\ procs[p].at = "idle"
  /\ op = "mark" /\ CloseLast => phase[Owner[p]] = "open"
  /\ procs' = [procs EXCEPT ![p] = [at |-> "local", op |-> op, key |-> k, now |-> clock]]
  /\ UNCHANGED <<clock, crashes, tiers, local, markCh, phase, backend, late, history>>

(* SeenAndAdd, and whether it reports that the key was there.              *)
AddLocal(p, seen) ==
  LET s == Owner[p]
  IN  /\ procs[p].at = "local"
      /\ seen = Seen(local[s], procs[p].key, procs[p].now)
      /\ local' = [local EXCEPT ![s] = AddedTo(@, procs[p].key, procs[p].now)]

(* Claim: a hit in the local set suppresses, a miss goes to the backend.   *)
(* In local-only mode a miss wins.                                         *)
ClaimLocalHit(p) ==
  /\ procs[p].at = "local" /\ procs[p].op = "claim"
  /\ AddLocal(p, TRUE)
  /\ suppressed' = suppressed \cup {procs[p].key}
  /\ procs' = Returned(p)
  /\ UNCHANGED <<clock, crashes, tiers, markCh, phase, backend, late, proceeded, marked, orphaned>>

ClaimLocalMiss(p) ==
  /\ procs[p].at = "local" /\ procs[p].op = "claim"
  /\ AddLocal(p, FALSE)
  /\ IF tiers[Owner[p]] = 2
     THEN procs' = Moved(p, "sent") /\ UNCHANGED proceeded
     ELSE procs' = Returned(p) /\ proceeded' = proceeded \cup {procs[p].key}
  /\ UNCHANGED <<clock, crashes, tiers, markCh, phase, backend, late, suppressed, marked, orphaned>>

(* In local-only mode Mark ends here, reporting the mark as dropped.       *)
MarkLocal(p) ==
  /\ procs[p].at = "local" /\ procs[p].op = "mark"
  /\ \E seen \in BOOLEAN : AddLocal(p, seen)
  /\ marked' = marked \cup {procs[p].key}
  /\ procs' = IF tiers[Owner[p]] = 2 THEN Moved(p, "enqueue") ELSE Returned(p)
  /\ UNCHANGED <<clock, crashes, tiers, markCh, phase, backend, late, proceeded, suppressed, orphaned>>

(* The send that never blocks: with the queue full the mark is dropped.    *)
(* On a closed channel it would panic.                                     *)
Enqueue(p) ==
  LET s == Owner[p]
  IN  /\ procs[p].at = "enqueue"
      /\ phase[s] = "open"
      /\ markCh' = IF Len(markCh[s]) < MarkQueueDepth
                   THEN [markCh EXCEPT ![s] = Append(@, procs[p].key)] ELSE markCh
      /\ procs' = Returned(p)
      /\ UNCHANGED <<clock, crashes, tiers, local, phase, backend, late, history>>

-----------------------------------------------------------------------------
(* The backend, of which only the contract matters: SetNX stores the key   *)
(* unless a live one is there.                                             *)
Live(k) == backend[k] # None /\ clock < backend[k]

SetNX(k) == backend' = IF Live(k) THEN backend ELSE [backend EXCEPT ![k] = clock + TTL]

Reachable(s) == ~(OwnBackend /\ phase[s] = "closed")

(* The call of Claim or markLoop takes effect at the backend.              *)
Apply(p) ==
  /\ procs[p].at = "sent"
  /\ Reachable(Owner[p])
  /\ SetNX(procs[p].key)
  /\ procs' = [procs EXCEPT ![p] = [at |-> "answered", op |-> @.op, key |-> @.key,
                                    ok |-> ~Live(@.key)]]
  /\ UNCHANGED <<clock, crashes, tiers, local, markCh, phase, late, history>>

(* A request whose caller has given up or crashed takes effect.            *)
ApplyLate(k) ==
  /\ k \in late
  /\ late' = late \ {k}
  /\ SetNX(k)
  /\ UNCHANGED <<clock, crashes, tiers, local, markCh, phase, procs, history>>

(* The answer arrives: Claim proceeds if it won; a worker counts the mark. *)
Reply(p) ==
  LET k == procs[p].key
  IN  /\ procs[p].at = "answered"
      /\ procs' = Returned(p)
      /\ proceeded' = proceeded \cup {x \in {k} : procs[p].op = "claim" /\ procs[p].ok}
      /\ suppressed' = suppressed \cup {x \in {k} : procs[p].op = "claim" /\ ~procs[p].ok}
      /\ UNCHANGED <<clock, crashes, tiers, local, markCh, phase, backend, late, marked, orphaned>>

(* Mutant: the client sends the request again when the answer is lost.     *)
FailRetried(p) ==
  /\ procs[p].at \in {"sent", "answered"}
  /\ procs' = Moved(p, "sent")
  /\ UNCHANGED <<clock, crashes, tiers, local, markCh, phase, backend, late, history>>

(* Mutant: a claim that cannot reach the backend is suppressed.            *)
FailClosed(p) ==
  LET k == procs[p].key
  IN  /\ procs[p].at \in {"sent", "answered"}
      /\ procs' = Returned(p)
      /\ late' = late \cup {x \in {k} : procs[p].at = "sent" /\ Reachable(Owner[p])}
      /\ suppressed' = suppressed \cup {x \in {k} : procs[p].op = "claim"}
      /\ UNCHANGED <<clock, crashes, tiers, local, markCh, phase, backend, proceeded, marked, orphaned>>

(* Mutant: a worker puts a mark that failed back at the end of its queue.  *)
FailRequeued(p) ==
  LET k == procs[p].key
  IN  /\ procs[p].at \in {"sent", "answered"}
      /\ procs' = Returned(p)
      /\ late' = late \cup {x \in {k} : procs[p].at = "sent" /\ Reachable(Owner[p])}
      /\ proceeded' = proceeded \cup {x \in {k} : procs[p].op = "claim"}
      /\ markCh' = IF procs[p].op = "mark" THEN [markCh EXCEPT ![Owner[p]] = Append(@, k)] ELSE markCh
      /\ UNCHANGED <<clock, crashes, tiers, local, phase, backend, suppressed, marked, orphaned>>

(* The call fails or times out, before or after it took effect: Claim      *)
(* proceeds and reports the error, a worker counts the error.              *)
Fail(p) ==
  LET k == procs[p].key
  IN  /\ procs[p].at \in {"sent", "answered"}
      /\ procs' = Returned(p)
      /\ late' = late \cup {x \in {k} : procs[p].at = "sent" /\ Reachable(Owner[p])}
      /\ proceeded' = proceeded \cup {x \in {k} : procs[p].op = "claim"}
      /\ UNCHANGED <<clock, crashes, tiers, local, markCh, phase, backend, suppressed, marked, orphaned>>

-----------------------------------------------------------------------------
(* markLoop ranges over the channel: it takes the next mark.               *)
Take(w) ==
  LET s == Owner[w]
  IN  /\ procs[w].at = "idle"
      /\ markCh[s] # <<>>
      /\ procs' = [procs EXCEPT ![w] = [at |-> "sent", op |-> "mark", key |-> Head(markCh[s])]]
      /\ markCh' = [markCh EXCEPT ![s] = Tail(@)]
      /\ UNCHANGED <<clock, crashes, tiers, local, phase, backend, late, history>>

(* Mutant: a worker leaves as soon as the Store is stopped.                *)
ExitUndrained(w) ==
  LET s == Owner[w]
  IN  /\ procs[w].at = "idle"
      /\ phase[s] # "open"
      /\ procs' = [procs EXCEPT ![w] = Exited]
      /\ UNCHANGED <<clock, crashes, tiers, local, markCh, phase, backend, late, history>>

(* It ends once the channel is closed and empty.                           *)
Exit(w) ==
  LET s == Owner[w]
  IN  /\ procs[w].at = "idle"
      /\ phase[s] # "open" /\ markCh[s] = <<>>
      /\ procs' = [procs EXCEPT ![w] = Exited]
      /\ UNCHANGED <<clock, crashes, tiers, local, markCh, phase, backend, late, history>>

WorkersOf(s) == {w \in Workers : Owner[w] = s}

(* Close closes the channel, once.                                         *)
Close(s) ==
  /\ phase[s] = "open"
  /\ CloseLast => \A p \in Callers : Owner[p] = s /\ Busy(p) => procs[p].op # "mark"
  /\ phase' = [phase EXCEPT ![s] = "closing"]
  /\ UNCHANGED <<clock, crashes, tiers, local, markCh, procs, backend, late, history>>

(* It then waits for the workers, closes its own backend and returns.      *)
CloseReturn(s) ==
  /\ phase[s] = "closing"
  /\ \A w \in WorkersOf(s) : procs[w].at = "exited"
  /\ phase' = [phase EXCEPT ![s] = "closed"]
  /\ UNCHANGED <<clock, crashes, tiers, local, markCh, procs, backend, late, history>>

(* The process dies and starts again with a new Store; requests it had     *)
(* sent may still reach the backend.                                       *)
Crash(s) ==
  LET mine == {p \in Procs : Owner[p] = s}
      busy == {p \in mine : Busy(p)}
  IN  /\ crashes < MaxCrashes
      /\ crashes' = crashes + 1
      /\ local' = [local EXCEPT ![s] = Empty]
      /\ markCh' = [markCh EXCEPT ![s] = <<>>]
      /\ phase' = [phase EXCEPT ![s] = "open"]
      /\ procs' = [p \in Procs |-> IF p \in mine THEN Idle ELSE procs[p]]
      /\ late' = late \cup {procs[p].key : p \in {q \in busy : procs[q].at = "sent"}}
      /\ orphaned' = orphaned \cup {procs[p].key : p \in {q \in busy : procs[q].op = "claim"}}
      /\ UNCHANGED <<clock, tiers, backend, proceeded, suppressed, marked>>

Tick ==
  /\ clock < MaxClock
  /\ clock' = clock + 1
  /\ UNCHANGED <<crashes, tiers, local, markCh, phase, procs, backend, late, history>>

(* A step of a call in progress.                                           *)
Step(p) ==
  \/ ClaimLocalHit(p) \/ ClaimLocalMiss(p) \/ MarkLocal(p) \/ Enqueue(p)
  \/ Apply(p) \/ Reply(p) \/ Fail(p)

Next ==
  \/ \E p \in Procs : Step(p)
  \/ \E p \in Callers, k \in Keys : \E op \in Ops[p] : Start(p, op, k)
  \/ \E w \in Workers : Take(w) \/ Exit(w)
  \/ \E s \in Stores : Close(s) \/ CloseReturn(s) \/ Crash(s)
  \/ \E k \in Keys : ApplyLate(k)
  \/ Tick

Spec == Init /\ [][Next]_vars

(* Goroutines are scheduled, backend calls end by their timeout at the     *)
(* latest, and Close returns once the workers are gone.  Nothing forces    *)
(* a call to begin, a late request to arrive or a process to crash.        *)
FairSpec ==
  /\ Spec
  /\ \A p \in Procs : WF_vars(Step(p))
  /\ \A w \in Workers : WF_vars(Take(w) \/ Exit(w))
  /\ \A s \in Stores : WF_vars(CloseReturn(s))

-----------------------------------------------------------------------------
(* The types of the variables; the queue of marks keeps to its depth.      *)
TypeOK ==
  /\ clock \in Nat /\ crashes \in Nat
  /\ tiers \in [Stores -> Tiers]
  /\ local \in [Stores -> Shard]
  /\ markCh \in [Stores -> Seq(Keys)]
  /\ \A s \in Stores : Len(markCh[s]) <= MarkQueueDepth
  /\ phase \in [Stores -> {"open", "closing", "closed"}]
  /\ procs \in [Procs -> Call \cup {Idle, Exited}]
  /\ backend \in [Keys -> Nat \cup {None}]
  /\ {late, proceeded, suppressed, marked, orphaned} \subseteq SUBSET Keys

Claiming(k) == \E p \in Procs : Busy(p) /\ procs[p].op = "claim" /\ procs[p].key = k

(* Claim suppresses a transaction only if another claimant holds it: some  *)
(* claim of it was told to proceed or is still under way, it was marked as *)
(* seen on the network, or the process claiming it crashed.  No loss of    *)
(* answers, late request, eviction or expiry makes all claimants suppress. *)
SuppressedIsCovered ==
  \A k \in suppressed : k \in proceeded \cup marked \cup orphaned \/ Claiming(k)

(* Close returns only after every queued mark has been handed to the       *)
(* backend and answered, so that its own backend is not closed under one.  *)
CloseDrains ==
  \A s \in Stores : phase[s] = "closed" =>
    markCh[s] = <<>> /\ \A w \in WorkersOf(s) : ~Busy(w)

(* A transaction being claimed gets through: somebody is told to proceed,  *)
(* unless it is marked or a claimant crashed.                              *)
ClaimedGetsThrough ==
  \A k \in Keys : Claiming(k) ~> k \in proceeded \cup marked \cup orphaned

(* Close returns, or the process crashes and starts again.                 *)
CloseReturns ==
  \A s \in Stores : phase[s] = "closing" ~> phase[s] # "closing"
=============================================================================
