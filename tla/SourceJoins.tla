---------------------------- MODULE SourceJoins -----------------------------
(***************************************************************************)
(* The bootstrap resolver driving socket joins: OnChange leaves what was   *)
(* removed and joins what was added, each call after one Acquire of the    *)
(* shared limiter, and gives up at the first error, as the example at the  *)
(* head of Limiter does.  A listener with no bootstrap list joins ASM.     *)
(***************************************************************************)
EXTENDS Bootstrap, NetJoin

VARIABLES
  perSource, \* whether the callback makes a call per source or one per list
  work,     \* the calls the callback has still to make
  held,     \* whether it has acquired the token of the first of them
  troubled  \* history: a call failed for want of memory, or was given up

callback == <<perSource, work, held, troubled>>
vars == <<resolver, kernel, limiter, callback>>

SourcesInit ==
  /\ Init /\ NewLimiter
  /\ joined = {} /\ asm = FALSE /\ perSource \in BOOLEAN
  /\ work = <<>> /\ held = FALSE /\ troubled = FALSE

-----------------------------------------------------------------------------
(* The callback makes no call for an empty list: Join would take it for    *)
(* ASM.                                                                    *)
Calls(op, sources) ==
  IF perSource THEN [i \in DOMAIN sources |-> [op |-> op, sources |-> <<sources[i]>>]]
  ELSE IF sources = <<>> THEN <<>> ELSE <<[op |-> op, sources |-> sources]>>

PublishAndCall ==
  /\ Publish
  /\ LET delta == diffSorted(current, current')
     IN  work' = Calls("leave", delta.removed) \o Calls("join", delta.added)
  /\ UNCHANGED <<perSource, held, troubled, kernel, limiter>>

Acquire ==
  /\ work # <<>> /\ ~held
  /\ AcquireToken
  /\ held' = TRUE
  /\ UNCHANGED <<perSource, work, troubled, resolver, kernel>>

(* Mutant: Acquire waits for a token whatever the context.                 *)
GiveUpNever ==
  /\ work # <<>> /\ ~held
  /\ FALSE
  /\ UNCHANGED <<resolver, kernel, limiter, callback>>

GiveUp ==
  /\ work # <<>> /\ ~held
  /\ AcquireFails(cancelled)
  /\ work' = <<>> /\ troubled' = TRUE
  /\ UNCHANGED <<perSource, held, resolver, kernel>>

(* The call's own loop goes on to its next source, or the call returns.    *)
Called(call) ==
  IF Len(call.sources) > 1
  THEN work' = [work EXCEPT ![1].sources = Tail(@)] /\ UNCHANGED held
  ELSE work' = Tail(work) /\ held' = FALSE

Call ==
  /\ held
  /\ IF Head(work).op = "join" THEN Join(Head(work).sources) ELSE Leave(Head(work).sources)
  /\ Called(Head(work))
  /\ UNCHANGED <<perSource, troubled, resolver, limiter>>

(* The kernel refuses the call: the callback drops the calls to come.      *)
CallRefused ==
  /\ held
  /\ LET src == Head(Head(work).sources)
     IN  Head(work).op = "join" <=> src \in joined
  /\ work' = <<>> /\ held' = FALSE
  /\ UNCHANGED <<perSource, troubled, resolver, kernel, limiter>>

(* It has no memory for it.                                                *)
CallFails ==
  /\ held
  /\ work' = <<>> /\ held' = FALSE /\ troubled' = TRUE
  /\ UNCHANGED <<perSource, resolver, kernel, limiter>>

Return ==
  /\ work = <<>>
  /\ OnChange
  /\ UNCHANGED <<kernel, limiter, callback>>

(* A listener with no list: Join and Leave without sources.                *)
JoinAny == phase = "failed" /\ entries = <<>> /\ ~cancelled /\ Join(<<>>)

LeaveAny == phase = "failed" /\ entries = <<>> /\ cancelled /\ Leave(<<>>)

-----------------------------------------------------------------------------
Limit == Tick \/ Refill \/ RefillReturns \/ Stop

Resolver == Resolve \/ Start \/ Refresh \/ Exit \/ Cancel

Callback == Acquire \/ GiveUp \/ Call \/ CallRefused \/ CallFails \/ Return

Next ==
  \/ Resolver /\ UNCHANGED <<kernel, limiter, callback>>
  \/ PublishAndCall
  \/ Callback
  \/ Limit /\ UNCHANGED <<resolver, kernel, callback>>
  \/ (JoinAny \/ LeaveAny) /\ UNCHANGED <<resolver, limiter, callback>>

Spec == SourcesInit /\ [][Next]_vars

(* A lookup ends with an answer or an error, so a resolution goes on to    *)
(* its end; the clock ticks and the refill goroutine is scheduled; select  *)
(* picks at random, so a cancelled context is seen in the end however      *)
(* often the ticker fires.                                                 *)
Fairness ==
  /\ WF_vars((Resolve /\ UNCHANGED <<kernel, limiter, callback>>) \/ PublishAndCall)
  /\ WF_vars(Callback)
  /\ WF_vars(Tick /\ UNCHANGED <<resolver, kernel, callback>>)
  /\ WF_vars(Refill /\ UNCHANGED <<resolver, kernel, callback>>)
  /\ SF_vars(Exit /\ UNCHANGED <<kernel, limiter, callback>>)

FairSpec == Spec /\ Fairness

-----------------------------------------------------------------------------
(* Unless the kernel ran out of memory or the context was cancelled, no    *)
(* call is ever refused: the deltas that OnChange is given, one refresh    *)
(* after the other, never join what is joined nor leave what is not.       *)
CallsLegitimate ==
  held /\ ~troubled => (Head(work).op = "join" <=> Head(Head(work).sources) \notin joined)

(* Likewise, between two refreshes the sources joined on the socket are    *)
(* the ones Current returns: diffSorted misses nothing and the callback    *)
(* makes every call.                                                       *)
JoinedIsCurrent ==
  phase \in {"loop", "stopped"} /\ ~troubled => joined = ToSet(current)

(* The limiter keeps its rate: with one call allowed per tick, and Rate    *)
(* (and the tick that waits) at once, no call is made beyond that.         *)
Paced == credit >= 0

(* A resolver whose context is cancelled after Start stops, though its     *)
(* callback waits for a token that never comes.                            *)
Stops == [](cancelled /\ started => <>(phase = "stopped"))

(* While the limiter runs, every callback returns: the tokens last.        *)
Returns == []((phase = "published" /\ stopping = "no") => <>(phase # "published" \/ stopping # "no"))
=============================================================================
