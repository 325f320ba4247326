------------------------------ MODULE RateLimit ------------------------------
(***************************************************************************)
(* The rate limiter: InMemoryRateLimitMiddleware of                        *)
(* backend/app/middleware.py.  It keeps, for each client, the times of the *)
(* requests it let through, and drops those that are too old when the next *)
(* request comes.  dispatch does not yield before it has decided, so one   *)
(* request is one step; clients do not share anything, so one is enough.   *)
(***************************************************************************)
EXTENDS Naturals, Sequences, SequencesExt, FiniteSets

CONSTANTS
    Window,     \* seconds (60 in the code)
    PerWindow,  \* rate_limit_per_minute
    MaxBurst    \* bound: requests of one second

ASSUME LimitAssumption ==
    /\ Window \in Nat \ {0} /\ PerWindow \in Nat \ {0} /\ MaxBurst \in Nat

VARIABLES
    bucket,      \* ages of the requests in the client's deque, oldest first
    admitted,    \* ages of the requests let through, up to Window
    refused,     \* was the last request refused?
    burst        \* requests of this second

rateVars == <<bucket, admitted, refused, burst>>

-----------------------------------------------------------------------------

RateInit ==
    /\ bucket = <<>> /\ admitted = <<>>
    /\ refused = FALSE /\ burst = 0

Older(ages) == [n \in DOMAIN ages |-> ages[n] + 1]

\* How many requests let through leave the window with this second.
Leaving == Cardinality({n \in DOMAIN admitted : admitted[n] + 1 > Window})

\* A second passes (bound: ages stop after the window, where they are alike).
SecondPasses ==
    /\ bucket' = [n \in DOMAIN bucket |->
                     IF bucket[n] > Window THEN bucket[n] ELSE bucket[n] + 1]
    /\ admitted' = SubSeq(Older(admitted), Leaving + 1, Len(admitted))
    /\ burst' = 0
    /\ UNCHANGED refused

\* A defect: the count begins anew when its first request is too old.
BadTrimmed == IF bucket # <<>> /\ Head(bucket) > Window THEN <<>> ELSE bucket

\* The loop that drops, from the left, what is older than the window; a
\* request exactly as old as the window stays.
Trimmed ==
    LET recent == SelectInSeq(bucket, LAMBDA age : age <= Window) IN
    IF recent = 0 THEN <<>> ELSE SubSeq(bucket, recent, Len(bucket))

\* A defect: refused requests are counted too.
BadWhenRefused == Append(Trimmed, 0)

\* What a refused request leaves behind.
WhenRefused == Trimmed

\* dispatch, with the limiter enabled and a path it looks at.
Request ==
    /\ burst < MaxBurst
    /\ burst' = burst + 1
    /\ \/ /\ Len(Trimmed) >= PerWindow
          /\ bucket' = WhenRefused
          /\ refused' = TRUE
          /\ UNCHANGED admitted
       \/ /\ Len(Trimmed) < PerWindow
          /\ bucket' = Append(Trimmed, 0)
          /\ admitted' = Append(admitted, 0)
          /\ refused' = FALSE

RateNext == SecondPasses \/ Request

RateSpec == RateInit /\ [][RateNext]_rateVars

-----------------------------------------------------------------------------
(* Properties.                                                             *)

\* The deque holds ages in their order.
RateTypeOK ==
    /\ bucket \in Seq(Nat) /\ admitted \in Seq(0..Window)
    /\ refused \in BOOLEAN /\ burst \in 0..MaxBurst

\* No window, wherever it begins, lets more requests through than the limit,
\* although the deque is trimmed only when a request comes.
WindowIsKept == Len(admitted) <= PerWindow

\* A request is refused only if the window before it is full of requests that
\* were let through: a client that was refused is not kept out by asking again.
RefusedOnlyWhenFull ==
    [][burst' > burst /\ refused' => Len(admitted) = PerWindow]_rateVars

-----------------------------------------------------------------------------
(* The inductive invariant of the proofs.                                  *)

\* The deque ends with the requests let through in the window, the older ones
\* before them are too old; so what a trim leaves is exactly the window.
BucketFits ==
    LET old == Len(bucket) - Len(admitted) IN
    /\ Len(admitted) <= Len(bucket)
    /\ \A n \in 1..old : bucket[n] > Window
    /\ \A n \in 1..Len(admitted) : bucket[old + n] = admitted[n]

OldestFirst ==
    \A m, n \in 1..Len(admitted) : m <= n => admitted[n] <= admitted[m]

RateInv == RateTypeOK /\ BucketFits /\ OldestFirst /\ WindowIsKept
=============================================================================
