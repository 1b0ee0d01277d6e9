--------------------------- MODULE RateDivision ----------------------------
(***************************************************************************)
(* How a plan's rate becomes the --rps of every backend: Divide for a pool  *)
(* sortie drives itself, uniformShare for a distributor, in Go's uint32     *)
(* arithmetic.  The program is one call, so a state is a call and its       *)
(* outcome.                                                                 *)
(***************************************************************************)
EXTENDS Naturals, Functions

CONSTANTS
  Width,       \* the values of a uint32: 0 .. Width - 1 (2^32)
  Rates, Workers, Backends  \* the calls: rates, concurrencies and sizes of the pool, all below Width

VARIABLES
  call,   \* rate, workers, backends, perBackend and aggregate
  result  \* how it ended, and the --rps of every backend

vars == <<call, result>>

Calls ==
  [rate : Rates, workers : Workers, backends : Backends, perBackend : BOOLEAN,
   aggregate : BOOLEAN, distributor : BOOLEAN]

U32(n) == n % Width

Ended(status) == [status |-> status, rps |-> <<>>]
Options(rps) == [status |-> "ok", rps |-> rps]

\* The engine of a gRPC stream or a WebSocket takes a backend's aggregate.
BackendRate(c, share) == IF c.aggregate THEN U32(share * c.workers) ELSE share

\* Fault: the remainder is dropped.
SharesRounded(total, backends) == [i \in 1 .. backends |-> total \div backends]

\* The first backends get one more each.
Shares(total, backends) ==
  [i \in 1 .. backends |-> total \div backends + (IF i <= total % backends THEN 1 ELSE 0)]

TooFew(total, backends) == backends > total

Divide(c) ==
  LET total  == c.rate \div c.workers
      shares == IF c.perBackend THEN [i \in 1 .. c.backends |-> total]
                ELSE Shares(total, c.backends)
  IN  IF c.rate % c.workers # 0 \/ (~c.perBackend /\ TooFew(total, c.backends)) THEN Ended("refused")
      ELSE Options([i \in 1 .. c.backends |-> BackendRate(c, shares[i])])

\* One options object for all of the targets, and a 32-bit divisor.
UniformShare(c) ==
  LET divisor == IF c.perBackend THEN c.workers ELSE U32(c.backends * c.workers)
  IN  IF divisor = 0 THEN Ended("panic")
      ELSE IF c.rate % divisor # 0 THEN Ended("refused")
      ELSE Options([i \in 1 .. c.backends |-> BackendRate(c, c.rate \div divisor)])

Init == call \in Calls /\ result = Ended("pending")

Compile ==
  /\ result.status = "pending"
  /\ result' = IF call.distributor THEN UniformShare(call) ELSE Divide(call)
  /\ UNCHANGED call

Next == Compile

Spec == Init /\ [][Next]_vars

----------------------------------------------------------------------------
Compiled == result.status = "ok"

\* What the workers of backend i send in a second.
Sent(i) == IF call.aggregate THEN result.rps[i] ELSE result.rps[i] * call.workers

TypeOK ==
  /\ call \in Calls
  /\ Compiled => result.rps \in [1 .. call.backends -> 0 .. Width - 1]

\* A compiled plan of a pool that sortie divides itself sends exactly its rate:
\* to the target in all, or from every backend with per_backend.
RateExact ==
  Compiled /\ ~call.distributor =>
    IF call.perBackend THEN \A i \in 1 .. call.backends : Sent(i) = call.rate
    ELSE SumFunction([i \in 1 .. call.backends |-> Sent(i)]) = call.rate

\* No backend of such a pool is left idle, and no two differ by more than one
\* request per second and worker.
SharesEven ==
  Compiled /\ ~call.distributor /\ call.rate > 0 =>
    \A i, j \in 1 .. call.backends :
      /\ result.rps[i] > 0
      /\ Sent(i) <= Sent(j) + call.workers

\* A rate "has to divide exactly by targets x workers" on the distributor's
\* path, so that it means there what it means on the other one; if it does not,
\* the plan is refused. Where the product does not fit a uint32 the code does not keep
\* to this: the divisor wraps.
UniformExact ==
  /\ call.distributor /\ ~call.perBackend /\ call.backends * call.workers < Width
  /\ result.status \notin {"pending", "refused"}
  => Compiled /\ call.rate = call.backends * Sent(1)

============================================================================
