------------------------- MODULE OperationalMetrics -------------------------
(***************************************************************************)
(* backend/app/operational_metrics.py: the counters of requests, and the   *)
(* table of requests by method and normalized path, whose size is limited. *)
(* Requests overlap; begin and finish each run under one lock, and finish  *)
(* runs however the request ends.  Durations and statuses are left out.    *)
(*                                                                         *)
(* The requests past the limit are counted under the path "/:other".  A    *)
(* client can ask for this very path, which normalize_metric_path leaves   *)
(* as it is: OtherPath may be one of Paths, and then <<method, OtherPath>> *)
(* is one key for the overflow and for those requests.                     *)
(***************************************************************************)
EXTENDS Integers, FiniteSets, FiniteSetsExt, Functions

CONSTANTS
    Handlers,           \* requests that may be in the server at a time
    Methods,
    Paths,              \* normalized paths of requests
    OtherPath,          \* "/:other", one of Paths or not
    MaxRouteKeys,       \* max_route_keys
    MaxRequests,        \* bound: requests served
    NoRoute

ASSUME MetricsAssumption ==
    /\ IsFiniteSet(Handlers) /\ IsFiniteSet(Methods)
    /\ MaxRouteKeys \in Nat \ {0}
    /\ NoRoute \notin Methods \X Paths

Routes == Methods \X Paths
RouteKeys == Methods \X (Paths \cup {OtherPath})

VARIABLES
    serving,            \* the route of each request in the server
    inFlight,           \* _in_flight
    requests,           \* _requests_total
    routes,             \* _routes: requests of each key that the table has
    overflowed,         \* _overflow_route_observations
    literal             \* history: requests for "/:other" counted as a route of their own

metricsVars == <<serving, inFlight, requests, routes, overflowed, literal>>

MetricsTypeOK ==
    /\ serving \in [Handlers -> Routes \cup {NoRoute}]
    /\ inFlight \in Nat
    /\ requests \in Nat
    /\ DOMAIN routes \subseteq RouteKeys
    /\ \A key \in DOMAIN routes : routes[key] \in Nat \ {0}
    /\ overflowed \in 0 .. requests
    /\ literal \in 0 .. requests

-----------------------------------------------------------------------------
BeginRequest(c, route) ==
    /\ serving[c] = NoRoute
    /\ requests + inFlight < MaxRequests
    /\ serving' = [serving EXCEPT ![c] = route]
    /\ inFlight' = inFlight + 1
    /\ UNCHANGED <<requests, routes, overflowed, literal>>

\* All slots but the last are for routes of their own.
RegularCapacity == MaxRouteKeys - 1

Overflows(route) ==
    route \notin DOMAIN routes /\ Cardinality(DOMAIN routes) >= RegularCapacity

\* The aggregate that counts a request: past the limit, the method's overflow.
KeyOf(route) == IF Overflows(route) THEN <<route[1], OtherPath>> ELSE route

TakenLiterally(route) == route[2] = OtherPath /\ ~Overflows(route)

\* Seeded fault: a request past the limit is not counted under any key.
Counted_DropsOverflow(route) ==
    IF Overflows(route) THEN routes
    ELSE [key \in DOMAIN routes \cup {route} |->
             (IF key \in DOMAIN routes THEN routes[key] ELSE 0) + (IF key = route THEN 1 ELSE 0)]

\* Seeded fault: the first request of a key only enters it into the table.
Counted_StartsAtZero(route) ==
    [key \in DOMAIN routes \cup {KeyOf(route)} |->
        IF key \in DOMAIN routes THEN routes[key] + (IF key = KeyOf(route) THEN 1 ELSE 0) ELSE 0]

Counted(route) ==
    [key \in DOMAIN routes \cup {KeyOf(route)} |->
        (IF key \in DOMAIN routes THEN routes[key] ELSE 0) + (IF key = KeyOf(route) THEN 1 ELSE 0)]

FinishRequest(c) ==
    /\ serving[c] # NoRoute
    /\ inFlight' = IF inFlight > 0 THEN inFlight - 1 ELSE 0
    /\ requests' = requests + 1
    /\ overflowed' = overflowed + (IF Overflows(serving[c]) THEN 1 ELSE 0)
    /\ literal' = literal + (IF TakenLiterally(serving[c]) THEN 1 ELSE 0)
    /\ routes' = Counted(serving[c])
    /\ serving' = [serving EXCEPT ![c] = NoRoute]

MetricsInit ==
    /\ serving = [c \in Handlers |-> NoRoute]
    /\ inFlight = 0
    /\ requests = 0
    /\ routes = [key \in {} |-> 0]
    /\ overflowed = 0
    /\ literal = 0

MetricsNext ==
    \E c \in Handlers :
        \/ \E route \in Routes : BeginRequest(c, route)
        \/ FinishRequest(c)

MetricsSpec == MetricsInit /\ [][MetricsNext]_metricsVars

-----------------------------------------------------------------------------
OtherKeys == {key \in DOMAIN routes : key[2] = OtherPath}

(***************************************************************************)
(* The numbers of a snapshot agree, at the limit of the table as well: the *)
(* requests in flight are those in the server, every finished request is   *)
(* counted under exactly one key, and the "/:other" keys count the         *)
(* observations that found the table full and, beside them, only requests  *)
(* for that very path.                                                     *)
(***************************************************************************)
MetricsAddUp ==
    /\ inFlight = Cardinality({c \in Handlers : serving[c] # NoRoute})
    /\ SumFunction(routes) = requests
    /\ SumFunctionOnSet(routes, OtherKeys) = overflowed + literal

(***************************************************************************)
(* "route_cardinality_limit_is_a_hard_bound": the table never holds more   *)
(* keys than the route_key_limit that snapshot reports, whose final slot   *)
(* finish reserves "for one overflow aggregate".  Not so: the overflow has *)
(* a key for each method.                                                  *)
(***************************************************************************)
RouteTableWithinLimit == Cardinality(DOMAIN routes) <= MaxRouteKeys
=============================================================================
