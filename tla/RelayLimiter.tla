--------------------------- MODULE RelayLimiter ---------------------------
(***************************************************************************)
(* The brake of the gasless relay (app/src/lib/ratelimit.ts): every POST   *)
(* counts against one window of the whole instance and one of its client.  *)
(* A window starts with the first request after its end, not on a grid;    *)
(* the windows of quiet clients are dropped when the map has grown, and    *)
(* all of it is lost with the process.                                     *)
(***************************************************************************)
EXTENDS Integers, FiniteSets, Functions

CONSTANTS
  Keys,          \* client identities taken from the proxy headers
  WindowLength,  \* WINDOW_MS
  PerKeyLimit,   \* PER_KEY_PER_MIN
  GlobalLimit,   \* GLOBAL_PER_MIN
  KeysKept,      \* 10_000: clients remembered before expired windows are dropped
  MaxNow         \* bound: the clock stops here

\* A process sees finitely many clients; a limit may be 0.
LimiterAssumption ==
  /\ IsFiniteSet(Keys) /\ MaxNow \in Nat
  /\ WindowLength \in Nat \ {0} /\ PerKeyLimit \in Nat /\ GlobalLimit \in Nat

VARIABLES
  now,           \* Date.now()
  perKey,        \* client -> its window, for the clients in the map
  globalWindow,  \* the window of the instance
  admitted       \* history: requests admitted, by client and time, since the process started

limiterVars == <<now, perKey, globalWindow, admitted>>

Times == 0 .. MaxNow

NoneAdmitted == [slot \in Keys \X Times |-> 0]

\* Mutant: the count starts again, the end of the window does not move.
BumpStuck(win) ==
  IF now >= win.resetAt THEN [win EXCEPT !.count = 1] ELSE [win EXCEPT !.count = @ + 1]

\* The window after one more request.
Bump(win) ==
  IF now >= win.resetAt
  THEN [count |-> 1, resetAt |-> now + WindowLength]
  ELSE [win EXCEPT !.count = @ + 1]

\* The clients still in the map when a request arrives.
Kept ==
  IF Cardinality(DOMAIN perKey) > KeysKept
  THEN {k \in DOMAIN perKey : now < perKey[k].resetAt}
  ELSE DOMAIN perKey

\* A request refused by the instance's window never reaches its client's.
CheckRateLimit(key, ok) ==
  LET all == Bump(globalWindow)
      reaches == all.count <= GlobalLimit
      fresh == [count |-> 0, resetAt |-> now + WindowLength]
      own == Bump(IF key \in Kept THEN perKey[key] ELSE fresh)
  IN /\ ok = (reaches /\ own.count <= PerKeyLimit)
     /\ globalWindow' = all
     /\ perKey' = [k \in Kept \cup (IF reaches THEN {key} ELSE {}) |->
                     IF reaches /\ k = key THEN own ELSE perKey[k]]
     /\ admitted' = IF ok THEN [admitted EXCEPT ![<<key, now>>] = @ + 1] ELSE admitted
     /\ UNCHANGED now

\* One refusal in a row is enough to see what refusals do to the counts.
Request(key) ==
  /\ now >= globalWindow.resetAt \/ globalWindow.count <= GlobalLimit
  /\ \E ok \in BOOLEAN : CheckRateLimit(key, ok)

Wait ==
  /\ now < MaxNow
  /\ now' = now + 1
  /\ UNCHANGED <<perKey, globalWindow, admitted>>

ColdStart ==
  /\ perKey' = << >>
  /\ globalWindow' = [count |-> 0, resetAt |-> 0]
  /\ admitted' = NoneAdmitted
  /\ UNCHANGED now

LimiterInit ==
  /\ now = 0
  /\ perKey = << >>
  /\ globalWindow = [count |-> 0, resetAt |-> 0]
  /\ admitted = NoneAdmitted

LimiterNext == (\E key \in Keys : Request(key)) \/ Wait \/ ColdStart

LimiterSpec == LimiterInit /\ [][LimiterNext]_limiterVars

\* Requests of the clients in ks admitted in the WindowLength instants from t on.
AdmittedIn(ks, t) ==
  SumFunctionOnSet(admitted, ks \X {u \in Times : t <= u /\ u < t + WindowLength})

\* Whatever the order of clients, refusals and dropped windows, no stretch of
\* time as long as a window lets through more than two windows' worth, of the
\* instance or of one client (ratelimit.ts:30-59).
RatesBounded ==
  \A t \in 0 .. now :
    /\ AdmittedIn(Keys, t) <= 2 * GlobalLimit
    /\ \A k \in Keys : AdmittedIn({k}, t) <= 2 * PerKeyLimit
=============================================================================
