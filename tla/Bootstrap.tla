----------------------------- MODULE Bootstrap ------------------------------
(***************************************************************************)
(* The bootstrap resolver (src/bootstrap/bootstrap.go): a list of DNS      *)
(* names and literals resolved at the start and then on every tick, with   *)
(* the difference to the last set handed to OnChange.  A lookup may answer *)
(* with any addresses or fail.  What the callback does is SourceJoins.     *)
(***************************************************************************)
EXTENDS Integers, Sequences, SequencesExt

CONSTANTS
  EntryLists, \* the lists of entries that Config.Entries may be: names, and
              \* literals written as their address
  Names,      \* the DNS names; an entry outside Names and Addresses is a
              \* literal that is not IPv6
  Addresses,  \* the IPv6 addresses, as numbers in their order
  MaxErrs     \* bound on the count of failed refreshes

ASSUME BootstrapAssumption ==
  Addresses \subseteq Nat /\ Names \cap Addresses = {} /\ MaxErrs \in Nat

VARIABLES
  entries,    \* cfg.Entries
  phase,      \* where the resolver is
  started,    \* whether Start has published the first set
  at,         \* resolveAll: the entry it has come to
  seen,       \* resolveAll: addresses found so far
  anyErr,     \* resolveAll: whether a lookup failed
  current,    \* r.current, sorted
  errs,       \* r.errs
  cancelled   \* whether ctx is cancelled

resolver == <<entries, phase, started, at, seen, anyErr, current, errs, cancelled>>

Phases == {"new", "resolving", "published", "loop", "failed", "stopped"}

NoDelta == [added |-> <<>>, removed |-> <<>>]

Sorted(S) == SetToSortSeq(S, <)

Init ==
  /\ entries \in EntryLists
  /\ phase = "new" /\ started = FALSE
  /\ at = 1 /\ seen = {} /\ anyErr = FALSE
  /\ current = <<>>
  /\ errs = 0 /\ cancelled = FALSE

-----------------------------------------------------------------------------
(* Mutant: what is left of the previous set is not removed.                *)
diffSortedKeepsTail(prev, next) ==
  LET diff[i \in 1..Len(prev) + 1, j \in 1..Len(next) + 1] ==
        IF i > Len(prev) \/ j > Len(next)
        THEN [added |-> SubSeq(next, j, Len(next)), removed |-> <<>>]
        ELSE LET rest == diff[IF prev[i] <= next[j] THEN i + 1 ELSE i,
                              IF next[j] <= prev[i] THEN j + 1 ELSE j]
             IN  [added   |-> IF next[j] < prev[i] THEN <<next[j]>> \o rest.added ELSE rest.added,
                  removed |-> IF prev[i] < next[j] THEN <<prev[i]>> \o rest.removed
                              ELSE rest.removed]
  IN  diff[1, 1]

(* Mutant: of an address in both sets only the old one is passed.          *)
diffSortedEqual(prev, next) ==
  LET diff[i \in 1..Len(prev) + 1, j \in 1..Len(next) + 1] ==
        IF i > Len(prev) \/ j > Len(next)
        THEN [added |-> SubSeq(next, j, Len(next)), removed |-> SubSeq(prev, i, Len(prev))]
        ELSE LET rest == diff[IF prev[i] <= next[j] THEN i + 1 ELSE i,
                              IF next[j] < prev[i] THEN j + 1 ELSE j]
             IN  [added   |-> IF next[j] < prev[i] THEN <<next[j]>> \o rest.added ELSE rest.added,
                  removed |-> IF prev[i] < next[j] THEN <<prev[i]>> \o rest.removed
                              ELSE rest.removed]
  IN  diff[1, 1]

(* The two sorted sets are walked together from the positions i and j.     *)
diffSorted(prev, next) ==
  LET diff[i \in 1..Len(prev) + 1, j \in 1..Len(next) + 1] ==
        IF i > Len(prev) \/ j > Len(next)
        THEN [added |-> SubSeq(next, j, Len(next)), removed |-> SubSeq(prev, i, Len(prev))]
        ELSE LET rest == diff[IF prev[i] <= next[j] THEN i + 1 ELSE i,
                              IF next[j] <= prev[i] THEN j + 1 ELSE j]
             IN  [added   |-> IF next[j] < prev[i] THEN <<next[j]>> \o rest.added ELSE rest.added,
                  removed |-> IF prev[i] < next[j] THEN <<prev[i]>> \o rest.removed
                              ELSE rest.removed]
  IN  diff[1, 1]

-----------------------------------------------------------------------------
ResolveAll == phase' = "resolving" /\ UNCHANGED <<at, seen, anyErr>>

(* What resolveAll keeps while it runs goes when it returns.               *)
Resolved ==
  /\ phase = "resolving" /\ at > Len(entries)
  /\ at' = 1 /\ seen' = {} /\ anyErr' = FALSE

Start ==
  /\ phase = "new"
  /\ IF entries = <<>> THEN phase' = "failed" /\ UNCHANGED <<at, seen, anyErr>>
     ELSE ResolveAll
  /\ UNCHANGED <<entries, started, current, errs, cancelled>>

(* A literal counts as it is if it is IPv6.                                *)
Literal ==
  /\ phase = "resolving" /\ at <= Len(entries) /\ entries[at] \notin Names
  /\ seen' = seen \cup ({entries[at]} \cap Addresses)
  /\ at' = at + 1
  /\ UNCHANGED <<entries, phase, started, anyErr, current, errs, cancelled>>

Lookup(found) ==
  /\ phase = "resolving" /\ at <= Len(entries) /\ entries[at] \in Names
  /\ seen' = seen \cup found
  /\ at' = at + 1
  /\ UNCHANGED <<entries, phase, started, anyErr, current, errs, cancelled>>

LookupFails ==
  /\ phase = "resolving" /\ at <= Len(entries) /\ entries[at] \in Names
  /\ anyErr' = TRUE
  /\ at' = at + 1
  /\ UNCHANGED <<entries, phase, started, seen, current, errs, cancelled>>

(* No address at all, for errors or for want of any: Start fails, and a    *)
(* refresh keeps the last set.                                             *)
NothingFound ==
  /\ Resolved /\ seen = {}
  /\ IF started
     THEN phase' = "loop" /\ errs' = errs + 1
     ELSE phase' = "failed" /\ UNCHANGED errs
  /\ UNCHANGED <<entries, started, current, cancelled>>

(* Mutant: the last set is not kept when nothing is found.                 *)
PublishAny ==
  /\ Resolved /\ (seen # {} \/ started)
  /\ current' = Sorted(seen)
  /\ phase' = IF diffSorted(current, current') = NoDelta THEN "loop" ELSE "published"
  /\ started' = TRUE
  /\ UNCHANGED <<entries, errs, cancelled>>

(* The new set replaces the old one under the mutex.                       *)
Publish ==
  /\ Resolved /\ seen # {}
  /\ current' = Sorted(seen)
  /\ phase' = IF diffSorted(current, current') = NoDelta THEN "loop" ELSE "published"
  /\ started' = TRUE
  /\ UNCHANGED <<entries, errs, cancelled>>

(* OnChange, called once the mutex is released, returns.                   *)
OnChange ==
  /\ phase = "published"
  /\ phase' = "loop"
  /\ UNCHANGED <<entries, started, at, seen, anyErr, current, errs, cancelled>>

Refresh ==
  /\ phase = "loop" /\ errs < MaxErrs
  /\ ResolveAll
  /\ UNCHANGED <<entries, started, current, errs, cancelled>>

Exit ==
  /\ phase = "loop" /\ cancelled
  /\ phase' = "stopped"
  /\ UNCHANGED <<entries, started, at, seen, anyErr, current, errs, cancelled>>

Cancel ==
  /\ ~cancelled
  /\ cancelled' = TRUE
  /\ UNCHANGED <<entries, phase, started, at, seen, anyErr, current, errs>>

Resolve ==
  \/ Literal
  \/ \E found \in SUBSET Addresses : Lookup(found)
  \/ LookupFails
  \/ NothingFound

-----------------------------------------------------------------------------
(* Once Start has succeeded the set never empties, and as it comes from    *)
(* resolveAll it has no repetitions and is in order.                       *)
NeverEmpty ==
  started => current # <<>> /\ \A i, j \in DOMAIN current : i < j => current[i] < current[j]
=============================================================================
