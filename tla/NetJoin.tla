------------------------------ MODULE NetJoin -------------------------------
(***************************************************************************)
(* Socket joins and their rate limit (src/netjoin/netjoin.go).  The kernel *)
(* keeps the sources joined on the socket, or the group joined from any    *)
(* source; the Limiter is a channel of tokens that a goroutine refills on  *)
(* every tick.                                                             *)
(***************************************************************************)
EXTENDS Integers, Sequences

CONSTANT Rate  \* perSecond; no limit unless positive

VARIABLES
  joined,    \* kernel: the sources of the (S, G) joins
  asm,       \* kernel: whether ASM is joined
  bucket,    \* tokens in l.bucket
  tick,      \* whether a tick waits in l.ticker.C
  stopping,  \* "no", "closed" once l.stop is, "done" once the ticker is stopped
  refilling, \* whether the refill goroutine runs
  credit     \* history: calls the rate still allows

kernel == <<joined, asm>>
limiter == <<bucket, tick, stopping, refilling, credit>>

Limited == Rate > 0

(* NewLimiter prefills the burst.                                          *)
NewLimiter ==
  /\ bucket = IF Limited THEN Rate ELSE 0
  /\ tick = FALSE /\ stopping = "no" /\ refilling = Limited
  /\ credit = IF Limited THEN Rate ELSE 0

(* A tick that finds another one waiting is dropped by the ticker.         *)
Tick ==
  /\ Limited /\ stopping # "done"
  /\ tick' = TRUE
  /\ credit' = IF credit > Rate THEN credit ELSE credit + 1
  /\ UNCHANGED <<bucket, stopping, refilling>>

(* Mutant: the bucket has no capacity.                                     *)
RefillAlways ==
  /\ refilling /\ tick
  /\ tick' = FALSE
  /\ bucket' = bucket + 1
  /\ UNCHANGED <<stopping, refilling, credit>>

(* Mutant: a token is only put into a bucket that has some.                *)
RefillSome ==
  /\ refilling /\ tick
  /\ tick' = FALSE
  /\ bucket' = IF bucket \in 1..Rate - 1 THEN bucket + 1 ELSE bucket
  /\ UNCHANGED <<stopping, refilling, credit>>

Refill ==
  /\ refilling /\ tick
  /\ tick' = FALSE
  /\ bucket' = IF bucket < Rate THEN bucket + 1 ELSE bucket
  /\ UNCHANGED <<stopping, refilling, credit>>

RefillReturns ==
  /\ refilling /\ stopping # "no"
  /\ refilling' = FALSE
  /\ UNCHANGED <<bucket, tick, stopping, credit>>

(* Stop closes l.stop and then stops the ticker.                           *)
Stop ==
  /\ Limited /\ stopping # "done"
  /\ stopping' = IF stopping = "no" THEN "closed" ELSE "done"
  /\ UNCHANGED <<bucket, tick, refilling, credit>>

(* Acquire takes a token, if there is a limiter.                           *)
AcquireToken ==
  IF Limited
  THEN /\ bucket > 0
       /\ bucket' = bucket - 1 /\ credit' = credit - 1
       /\ UNCHANGED <<tick, stopping, refilling>>
  ELSE UNCHANGED limiter

(* Only a limiter looks at the context.                                    *)
AcquireFails(cancelled) == Limited /\ cancelled /\ UNCHANGED limiter

-----------------------------------------------------------------------------
(* The kernel refuses a join of what is joined, a leave of what is not,    *)
(* and a mix of (S, G) and ASM on the socket.                              *)
joinSSM(src) == src \notin joined /\ ~asm /\ joined' = joined \cup {src} /\ UNCHANGED asm

leaveSSM(src) == src \in joined /\ joined' = joined \ {src} /\ UNCHANGED asm

joinASM == ~asm /\ joined = {} /\ asm' = TRUE /\ UNCHANGED joined

leaveASM == asm /\ asm' = FALSE /\ UNCHANGED joined

(* One turn of the loop of Join or Leave over the sources still to come;   *)
(* with no source at all the call is about ASM.  The group and every       *)
(* address of the model are IPv6, as resolveAll keeps no others, so that   *)
(* the checks for it never fail.                                           *)
Join(sources) == IF sources = <<>> THEN joinASM ELSE joinSSM(Head(sources))

Leave(sources) == IF sources = <<>> THEN leaveASM ELSE leaveSSM(Head(sources))
=============================================================================
