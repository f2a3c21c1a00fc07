--------------------------- MODULE ComponentsProofs ---------------------------
(***************************************************************************)
(* The operational metrics for any number of requests, methods, paths and  *)
(* route keys; and the four components of MCComponents side by side, whose *)
(* invariants hold together because a step of one leaves the others alone. *)
(* That every request is counted under exactly one key is about sums over  *)
(* the table, which the community modules define by a fold: what is needed *)
(* of a sum is proved first, each fact from a smallest counterexample.     *)
(***************************************************************************)
EXTENDS MCComponents, RuntimeControllerProofs, ArtifactRouterProofs, PublicationSlotProofs,
        FiniteSetTheorems, WellFoundedInduction, TLAPS

InServer == {c \in Handlers : serving[c] # NoRoute}
OwnKeys == DOMAIN routes \ OtherKeys

(***************************************************************************)
(* The inductive invariant of the metrics.  What stays within the limit    *)
(* are the keys of other paths than "/:other"; the code compares the whole *)
(* table with it.                                                          *)
(***************************************************************************)
MetricsInv ==
    /\ MetricsTypeOK
    /\ IsFiniteSet(DOMAIN routes)
    /\ inFlight = Cardinality(InServer)
    /\ Cardinality(OwnKeys) <= MaxRouteKeys - 1

-----------------------------------------------------------------------------
(* Sums over a finite set. *)

\* The element that a fold takes first, and what is left for the next ones.
Taken(S) == CHOOSE x \in S : TRUE
Rest(S) == S \ {Taken(S)}

\* iter is the function by which a sum is defined: on every subset of S.
Iterates(iter, f, S) ==
    iter = [s \in SUBSET S |-> IF s = {} THEN 0 ELSE f[Taken(s)] + iter[Rest(s)]]

\* The sum of the community modules, down to the function it chooses.
LEMMA SumIsIterated ==
    ASSUME NEW f, NEW S
    PROVE  SumFunctionOnSet(f, S) = (CHOOSE iter : Iterates(iter, f, S))[S]
BY DEF SumFunctionOnSet, FoldFunctionOnSet, MapThenFoldSet, Iterates, Taken, Rest

\* Induction over subsets, in first order: a set of subsets of a finite set
\* has a smallest member, so that a counterexample may be taken smallest.
LEMMA SmallestSubset ==
    ASSUME NEW S, IsFiniteSet(S), NEW T, T \in SUBSET (SUBSET S), T # {}
    PROVE  \E U \in T : \A V \in SUBSET U : V # U => V \notin T
<1>1. IsWellFoundedOn(StrictSubsetOrdering(S), FiniteSubsetsOf(S))
  BY FS_StrictSubsetOrderingWellFounded
<1>2. FiniteSubsetsOf(S) = SUBSET S
  BY FS_FiniteSubsetsOfFinite
<1>3. PICK U \in T : \A V \in T : ~(<<V, U>> \in StrictSubsetOrdering(S))
  <2> DEFINE R == StrictSubsetOrdering(S)
  <2>1. IsWellFoundedOn(R, SUBSET S)
    BY <1>1, <1>2
  <2> HIDE DEF R
  <2>2. \E U \in T : \A V \in T : ~(<<V, U>> \in R)
    BY <2>1, WFMin
  <2> QED BY <2>2 DEF R
<1>4. ASSUME NEW V \in SUBSET U, V # U, V \in T
      PROVE  FALSE
  <2>1. /\ U \in SUBSET S /\ V \in SUBSET S
    BY <1>4
  <2>2. <<V, U>> \in StrictSubsetOrdering(S)
    BY <1>4, <2>1 DEF StrictSubsetOrdering
  <2> QED BY <1>3, <1>4, <2>2
<1> QED BY <1>3, <1>4

LEMMA TakenOut ==
    ASSUME NEW S, S # {}
    PROVE  Taken(S) \in S /\ Rest(S) \in SUBSET S /\ Rest(S) # S
BY DEF Taken, Rest

\* The function at one subset.
LEMMA IteratesStep ==
    ASSUME NEW f, NEW S, NEW iter, Iterates(iter, f, S), NEW s \in SUBSET S
    PROVE  iter[s] = IF s = {} THEN 0 ELSE f[Taken(s)] + iter[Rest(s)]
<1> DEFINE F(g) == [t \in SUBSET S |-> IF t = {} THEN 0 ELSE f[Taken(t)] + g[Rest(t)]]
<1>1. iter = F(iter)
  BY DEF Iterates
<1>2. F(iter)[s] = IF s = {} THEN 0 ELSE f[Taken(s)] + iter[Rest(s)]
  OBVIOUS
<1> QED BY <1>1, <1>2

\* Two such functions agree on the subsets that they share.
LEMMA IteratesOnce ==
    ASSUME NEW f, NEW S, IsFiniteSet(S), NEW R, IsFiniteSet(R), NEW g, NEW h,
           Iterates(g, f, S), Iterates(h, f, R), NEW s \in (SUBSET S) \cap (SUBSET R)
    PROVE  g[s] = h[s]
<1> DEFINE T == {t \in SUBSET S : t \in SUBSET R /\ g[t] # h[t]}
<1>1. SUFFICES ASSUME T # {} PROVE FALSE
  BY <1>1
<1>2. PICK t \in T : \A v \in SUBSET t : v # t => v \notin T
  <2>1. T \in SUBSET (SUBSET S)
    OBVIOUS
  <2> HIDE DEF T
  <2> QED BY <1>1, <2>1, SmallestSubset
<1>3. /\ g[t] = IF t = {} THEN 0 ELSE f[Taken(t)] + g[Rest(t)]
      /\ h[t] = IF t = {} THEN 0 ELSE f[Taken(t)] + h[Rest(t)]
  BY <1>2, IteratesStep
<1>4. t # {}
  BY <1>2, <1>3
<1>5. Rest(t) \in SUBSET t /\ Rest(t) # t
  BY <1>4, TakenOut
<1>6. g[Rest(t)] = h[Rest(t)]
  BY <1>2, <1>5
<1> QED BY <1>2, <1>3, <1>4, <1>6

\* There is such a function: glued from those of the smaller subsets.
LEMMA IteratesExists ==
    ASSUME NEW f, NEW S, IsFiniteSet(S)
    PROVE  \E g : Iterates(g, f, S)
<1> DEFINE T == {t \in SUBSET S : ~ \E g : Iterates(g, f, t)}
<1>1. SUFFICES ASSUME T # {} PROVE FALSE
  <2>1. S \in SUBSET S OBVIOUS
  <2> QED BY <1>1, <2>1
<1>2. PICK t \in T : \A v \in SUBSET t : v # t => v \notin T
  <2>1. T \in SUBSET (SUBSET S)
    OBVIOUS
  <2> HIDE DEF T
  <2> QED BY <1>1, <2>1, SmallestSubset
<1> DEFINE G(v) == CHOOSE g : Iterates(g, f, v)
           h == [s \in SUBSET t |-> IF s = {} THEN 0 ELSE f[Taken(s)] + G(Rest(s))[Rest(s)]]
<1>3. ASSUME NEW v \in SUBSET t, v # t
      PROVE  Iterates(G(v), f, v) /\ IsFiniteSet(v)
  <2>1. v \in SUBSET S /\ v \notin T
    BY <1>2, <1>3
  <2>2. \E g : Iterates(g, f, v)
    BY <2>1
  <2> QED BY <2>1, <2>2, FS_Subset
<1> HIDE DEF G
<1>4. ASSUME NEW s \in SUBSET t, s # {}
      PROVE  h[Rest(s)] = G(Rest(s))[Rest(s)]
  <2> DEFINE r == Rest(s)
  <2>1. r \in SUBSET t /\ r # t
    BY <1>4, TakenOut
  <2>2. Iterates(G(r), f, r) /\ IsFiniteSet(r)
    BY <1>3, <2>1
  <2>3. r \in SUBSET r
    OBVIOUS
  <2> HIDE DEF r
  <2>4. G(r)[r] = IF r = {} THEN 0 ELSE f[Taken(r)] + G(r)[Rest(r)]
    BY <2>2, <2>3, IteratesStep
  <2>5. h[r] = IF r = {} THEN 0 ELSE f[Taken(r)] + G(Rest(r))[Rest(r)]
    BY <2>1
  <2>6. CASE r = {}
    BY <2>4, <2>5, <2>6 DEF r
  <2>7. CASE r # {}
    <3>1. Rest(r) \in SUBSET r /\ Rest(r) # r
      BY <2>7, TakenOut
    <3>2. Rest(r) \in SUBSET t /\ Rest(r) # t
      BY <2>1, <3>1
    <3>3. Iterates(G(Rest(r)), f, Rest(r)) /\ IsFiniteSet(Rest(r))
      BY <1>3, <3>2
    <3>4. Rest(r) \in (SUBSET r) \cap (SUBSET Rest(r))
      BY <3>1
    <3>5. G(r)[Rest(r)] = G(Rest(r))[Rest(r)]
      BY <2>2, <3>3, <3>4, IteratesOnce
    <3> QED BY <2>4, <2>5, <2>7, <3>5 DEF r
  <2> QED BY <2>6, <2>7
<1>5. Iterates(h, f, t)
  <2>1. h = [s \in SUBSET t |-> IF s = {} THEN 0 ELSE f[Taken(s)] + h[Rest(s)]]
    <3>1. \A s \in SUBSET t : s # {} => h[Rest(s)] = G(Rest(s))[Rest(s)]
      BY <1>4
    <3>2. \A s \in SUBSET t :
             (IF s = {} THEN 0 ELSE f[Taken(s)] + G(Rest(s))[Rest(s)])
                 = (IF s = {} THEN 0 ELSE f[Taken(s)] + h[Rest(s)])
      <4> HIDE DEF h
      <4> QED BY <3>1
    <3> QED BY <3>2
  <2> HIDE DEF h
  <2> QED BY <2>1 DEF Iterates
<1> QED BY <1>2, <1>5

\* The sum as a recursion over the set, whatever element is taken first.
LEMMA SumStep ==
    ASSUME NEW f, NEW S, IsFiniteSet(S)
    PROVE  SumFunctionOnSet(f, S)
             = IF S = {} THEN 0 ELSE f[Taken(S)] + SumFunctionOnSet(f, Rest(S))
<1> DEFINE G(v) == CHOOSE g : Iterates(g, f, v)
<1>1. ASSUME NEW v \in SUBSET S
      PROVE  /\ IsFiniteSet(v)
             /\ Iterates(G(v), f, v)
             /\ SumFunctionOnSet(f, v) = G(v)[v]
  <2>1. IsFiniteSet(v)
    BY FS_Subset
  <2>2. \E g : Iterates(g, f, v)
    BY <2>1, IteratesExists
  <2>3. SumFunctionOnSet(f, v) = (CHOOSE g : Iterates(g, f, v))[v]
    BY SumIsIterated
  <2> QED BY <2>1, <2>2, <2>3
<1> HIDE DEF G
<1>2. S \in SUBSET S
  OBVIOUS
<1>3. Iterates(G(S), f, S) /\ SumFunctionOnSet(f, S) = G(S)[S]
  BY <1>1, <1>2
<1>4. G(S)[S] = IF S = {} THEN 0 ELSE f[Taken(S)] + G(S)[Rest(S)]
  BY <1>2, <1>3, IteratesStep
<1>5. CASE S = {}
  BY <1>3, <1>4, <1>5
<1>6. CASE S # {}
  <2>1. Rest(S) \in SUBSET S
    BY <1>6, TakenOut
  <2>2. /\ IsFiniteSet(Rest(S))
        /\ Iterates(G(Rest(S)), f, Rest(S))
        /\ SumFunctionOnSet(f, Rest(S)) = G(Rest(S))[Rest(S)]
    BY <1>1, <2>1
  <2>3. Rest(S) \in (SUBSET S) \cap (SUBSET Rest(S))
    BY <2>1
  <2>4. G(S)[Rest(S)] = G(Rest(S))[Rest(S)]
    <3>1. PICK all, rest, r : all = G(S) /\ rest = G(r) /\ r = Rest(S)
      OBVIOUS
    <3>2. /\ Iterates(all, f, S) /\ Iterates(rest, f, r)
          /\ IsFiniteSet(S) /\ IsFiniteSet(r)
      BY <1>3, <2>2, <3>1
    <3>3. r \in (SUBSET S) \cap (SUBSET r)
      BY <2>3, <3>1
    <3>4. all[r] = rest[r]
      BY <3>2, <3>3, IteratesOnce
    <3> QED BY <3>1, <3>4
  <2> QED BY <1>3, <1>4, <1>6, <2>2, <2>4
<1> QED BY <1>5, <1>6

LEMMA SumOfNone == ASSUME NEW f PROVE SumFunctionOnSet(f, {}) = 0
BY FS_EmptySet, SumStep

\* A sum of integers is an integer.
LEMMA SumType ==
    ASSUME NEW f, NEW S, IsFiniteSet(S), \A x \in S : f[x] \in Int
    PROVE  SumFunctionOnSet(f, S) \in Int
<1> DEFINE T == {t \in SUBSET S : SumFunctionOnSet(f, t) \notin Int}
<1>1. SUFFICES ASSUME T # {} PROVE FALSE
  <2>1. S \in SUBSET S OBVIOUS
  <2> QED BY <1>1, <2>1
<1>2. PICK t \in T : \A v \in SUBSET t : v # t => v \notin T
  <2>1. T \in SUBSET (SUBSET S)
    OBVIOUS
  <2> HIDE DEF T
  <2> QED BY <1>1, <2>1, SmallestSubset
<1>3. t \in SUBSET S /\ IsFiniteSet(t)
  BY <1>2, FS_Subset
<1>4. t # {}
  BY <1>2, SumOfNone
<1>5. Taken(t) \in t /\ Rest(t) \in SUBSET t /\ Rest(t) # t
  BY <1>4, TakenOut
<1>6. SumFunctionOnSet(f, t) = f[Taken(t)] + SumFunctionOnSet(f, Rest(t))
  BY <1>3, <1>4, SumStep
<1>7. f[Taken(t)] \in Int /\ SumFunctionOnSet(f, Rest(t)) \in Int
  BY <1>2, <1>3, <1>5
<1>8. SumFunctionOnSet(f, t) \in Int
  BY <1>6, <1>7
<1> QED BY <1>2, <1>8

\* Any element may be taken out first: the order of the terms does not matter.
LEMMA SumOfOneMore ==
    ASSUME NEW f, NEW S, IsFiniteSet(S), \A x \in S : f[x] \in Int, NEW x \in S
    PROVE  SumFunctionOnSet(f, S) = f[x] + SumFunctionOnSet(f, S \ {x})
<1> DEFINE Sum(s) == SumFunctionOnSet(f, s)
           T == {t \in SUBSET S : \E y \in t : Sum(t) # f[y] + Sum(t \ {y})}
<1>1. SUFFICES ASSUME T # {} PROVE FALSE
  <2>1. S \in SUBSET S OBVIOUS
  <2> QED BY <1>1, <2>1
<1>2. PICK t \in T : \A v \in SUBSET t : v # t => v \notin T
  <2>1. T \in SUBSET (SUBSET S)
    OBVIOUS
  <2> HIDE DEF T
  <2> QED BY <1>1, <2>1, SmallestSubset
<1>3. PICK y \in t : Sum(t) # f[y] + Sum(t \ {y})
  BY <1>2
<1>4. t \in SUBSET S /\ IsFiniteSet(t) /\ t # {}
  BY <1>2, <1>3, FS_Subset
<1> DEFINE z == Taken(t)
<1>5. z \in t /\ Rest(t) = t \ {z}
  BY <1>4, TakenOut DEF Rest
<1>6. Sum(t) = f[z] + Sum(t \ {z})
  BY <1>4, <1>5, SumStep
<1> HIDE DEF z
<1>7. y # z
  BY <1>3, <1>6
<1>8. ASSUME NEW v \in SUBSET t, v # t, NEW w \in v
      PROVE  Sum(v) = f[w] + Sum(v \ {w})
  BY <1>2, <1>8, <1>4
<1>9. Sum(t \ {z}) = f[y] + Sum((t \ {z}) \ {y})
  BY <1>5, <1>7, <1>8
<1>10. Sum(t \ {y}) = f[z] + Sum((t \ {y}) \ {z})
  BY <1>5, <1>7, <1>8
<1>11. (t \ {y}) \ {z} = (t \ {z}) \ {y}
  OBVIOUS
<1>12. /\ f[y] \in Int /\ f[z] \in Int
       /\ Sum((t \ {z}) \ {y}) \in Int
  <2>1. f[y] \in Int /\ f[z] \in Int
    BY <1>4, <1>5
  <2>2. (t \ {z}) \ {y} \in SUBSET S
    BY <1>4
  <2>3. IsFiniteSet((t \ {z}) \ {y})
    BY <2>2, FS_Subset
  <2> QED BY <2>1, <2>2, <2>3, SumType
<1> HIDE DEF Sum
<1>13. Sum(t) = f[y] + Sum(t \ {y})
  <2>1. \A a, b, c \in Int : a + (b + c) = b + (a + c)
    OBVIOUS
  <2>2. f[z] + (f[y] + Sum((t \ {z}) \ {y})) = f[y] + (f[z] + Sum((t \ {z}) \ {y}))
    BY <1>12, <2>1
  <2> QED BY <1>6, <1>9, <1>10, <1>11, <2>2
<1> QED BY <1>3, <1>13

\* Only the terms of the set count.
LEMMA SumAgrees ==
    ASSUME NEW f, NEW g, NEW S, IsFiniteSet(S), \A x \in S : f[x] = g[x]
    PROVE  SumFunctionOnSet(f, S) = SumFunctionOnSet(g, S)
<1> DEFINE T == {t \in SUBSET S : SumFunctionOnSet(f, t) # SumFunctionOnSet(g, t)}
<1>1. SUFFICES ASSUME T # {} PROVE FALSE
  <2>1. S \in SUBSET S OBVIOUS
  <2> QED BY <1>1, <2>1
<1>2. PICK t \in T : \A v \in SUBSET t : v # t => v \notin T
  <2>1. T \in SUBSET (SUBSET S)
    OBVIOUS
  <2> HIDE DEF T
  <2> QED BY <1>1, <2>1, SmallestSubset
<1>3. t \in SUBSET S /\ IsFiniteSet(t)
  BY <1>2, FS_Subset
<1>4. t # {}
  BY <1>2, SumOfNone
<1>5. Taken(t) \in t /\ Rest(t) \in SUBSET t /\ Rest(t) # t
  BY <1>4, TakenOut
<1>6. /\ SumFunctionOnSet(f, t) = f[Taken(t)] + SumFunctionOnSet(f, Rest(t))
      /\ SumFunctionOnSet(g, t) = g[Taken(t)] + SumFunctionOnSet(g, Rest(t))
  BY <1>3, <1>4, SumStep
<1>7. SumFunctionOnSet(f, Rest(t)) = SumFunctionOnSet(g, Rest(t))
  BY <1>2, <1>3, <1>5
<1>8. f[Taken(t)] = g[Taken(t)]
  BY <1>3, <1>5
<1> QED BY <1>2, <1>6, <1>7, <1>8

-----------------------------------------------------------------------------
\* The requests in the server are finitely many.
LEMMA ServerIsFinite == IsFiniteSet(InServer) /\ Cardinality(InServer) \in Nat
<1>1. InServer \in SUBSET Handlers
  BY DEF InServer
<1>2. IsFiniteSet(InServer)
  BY <1>1, FS_Subset, MetricsAssumption
<1> QED BY <1>2, FS_CardinalityType

\* The key of a request is its route, or the overflow key of its method.
LEMMA KeysOfARoute ==
    ASSUME NEW route \in Routes
    PROVE  /\ KeyOf(route) \in RouteKeys
           /\ route \in RouteKeys /\ route # NoRoute
           /\ KeyOf(route) # route => KeyOf(route)[2] = OtherPath
<1>1. PICK m \in Methods, p \in Paths : route = <<m, p>>
  BY DEF Routes
<1>2. route[1] = m /\ route[2] = p
  BY <1>1
<1>3. <<m, OtherPath>> \in RouteKeys /\ <<m, p>> \in RouteKeys /\ <<m, OtherPath>>[2] = OtherPath
  BY DEF RouteKeys
<1>4. route # NoRoute
  BY MetricsAssumption DEF Routes
<1> QED BY <1>1, <1>2, <1>3, <1>4 DEF KeyOf

LEMMA MetricsInvInit == MetricsInit => MetricsInv
<1> SUFFICES ASSUME MetricsInit PROVE MetricsInv
  OBVIOUS
<1>1. DOMAIN routes = {} /\ InServer = {} /\ OwnKeys = {}
  BY DEF MetricsInit, InServer, OwnKeys
<1>2. MetricsTypeOK
  BY <1>1 DEF MetricsInit, MetricsTypeOK
<1>3. IsFiniteSet({}) /\ Cardinality({}) = 0
  BY FS_EmptySet
<1>4. 0 <= MaxRouteKeys - 1
  BY MetricsAssumption
<1>5. inFlight = 0
  BY DEF MetricsInit
<1> QED BY <1>1, <1>2, <1>3, <1>4, <1>5 DEF MetricsInv

\* begin
LEMMA BeginRequestInv ==
    ASSUME MetricsInv, NEW c \in Handlers, NEW route \in Routes, BeginRequest(c, route)
    PROVE  MetricsInv'
<1>1. serving \in [Handlers -> Routes \cup {NoRoute}] /\ route # NoRoute
  BY KeysOfARoute DEF MetricsInv, MetricsTypeOK
<1>2. UNCHANGED <<requests, routes, overflowed, literal>>
  BY DEF BeginRequest
<1>3. InServer' = InServer \cup {c} /\ c \notin InServer
  BY <1>1 DEF InServer, BeginRequest
<1>4. inFlight' = Cardinality(InServer')
  <2>1. Cardinality(InServer \cup {c}) = Cardinality(InServer) + 1
    BY <1>3, ServerIsFinite, FS_AddElement
  <2> QED BY <1>3, <2>1 DEF BeginRequest, MetricsInv
<1>5. MetricsTypeOK'
  BY <1>1, <1>2 DEF MetricsInv, MetricsTypeOK, BeginRequest
<1> QED BY <1>2, <1>4, <1>5 DEF MetricsInv, OwnKeys, OtherKeys

\* finish, the table: one key is added at most, and within the limit unless
\* it is an overflow key.
LEMMA CountedTable ==
    ASSUME MetricsInv, NEW route \in Routes, routes' = Counted(route)
    PROVE  /\ DOMAIN routes' = DOMAIN routes \cup {KeyOf(route)}
           /\ \A key \in DOMAIN routes' : routes'[key] \in Nat \ {0}
           /\ IsFiniteSet(DOMAIN routes')
           /\ Cardinality(OwnKeys') <= MaxRouteKeys - 1
<1> DEFINE key == KeyOf(route)
<1>0. DOMAIN routes' = DOMAIN routes \cup {key}
  BY DEF Counted
<1>1. \A k \in DOMAIN routes : routes[k] \in Nat \ {0}
  BY DEF MetricsInv, MetricsTypeOK
<1>2. ASSUME NEW k \in DOMAIN routes' PROVE routes'[k] \in Nat \ {0}
  <2>1. routes'[k] = (IF k \in DOMAIN routes THEN routes[k] ELSE 0) + (IF k = key THEN 1 ELSE 0)
    BY <1>0, <1>2 DEF Counted
  <2>2. CASE k \in DOMAIN routes
    <3>1. routes[k] \in Nat \ {0}
      BY <1>1, <2>2
    <3> HIDE DEF key
    <3> QED BY <2>1, <2>2, <3>1
  <2>3. CASE k \notin DOMAIN routes
    <3>1. k = key
      BY <1>0, <1>2, <2>3
    <3> QED BY <2>1, <2>3, <3>1
  <2> QED BY <2>2, <2>3
<1>3. IsFiniteSet(DOMAIN routes')
  BY <1>0, FS_AddElement DEF MetricsInv
<1>4. Cardinality(OwnKeys') <= MaxRouteKeys - 1
  <2>1. OwnKeys = {k \in DOMAIN routes : k[2] # OtherPath}
        /\ OwnKeys' = {k \in DOMAIN routes' : k[2] # OtherPath}
    BY DEF OwnKeys, OtherKeys
  <2>2. CASE key \in DOMAIN routes \/ key[2] = OtherPath
    <3>1. OwnKeys' = OwnKeys
      BY <1>0, <2>1, <2>2
    <3> QED BY <3>1 DEF MetricsInv
  <2>3. CASE key \notin DOMAIN routes /\ key[2] # OtherPath
    <3>1. key = route
      BY <2>3, KeysOfARoute
    <3>2. ~Overflows(route)
      <4>1. <<route[1], OtherPath>>[2] = OtherPath
        OBVIOUS
      <4> QED BY <2>3, <4>1 DEF KeyOf
    <3>3. ~(Cardinality(DOMAIN routes) >= MaxRouteKeys - 1)
      BY <2>3, <3>1, <3>2 DEF Overflows, RegularCapacity
    <3>4. OwnKeys' = OwnKeys \cup {key}
      BY <1>0, <2>1, <2>3
    <3>5. OwnKeys \in SUBSET DOMAIN routes
      BY DEF OwnKeys
    <3>6. IsFiniteSet(OwnKeys) /\ Cardinality(OwnKeys) <= Cardinality(DOMAIN routes)
      BY <3>5, FS_Subset DEF MetricsInv
    <3>7. Cardinality(OwnKeys \cup {key}) <= Cardinality(OwnKeys) + 1
          /\ Cardinality(OwnKeys) \in Nat /\ Cardinality(OwnKeys \cup {key}) \in Nat
      <4> HIDE DEF key
      <4>1. IsFiniteSet(OwnKeys \cup {key}) /\ Cardinality(OwnKeys \cup {key}) =
               IF key \in OwnKeys THEN Cardinality(OwnKeys) ELSE Cardinality(OwnKeys) + 1
        BY <3>6, FS_AddElement
      <4>2. Cardinality(OwnKeys) \in Nat /\ Cardinality(OwnKeys \cup {key}) \in Nat
        BY <3>6, <4>1, FS_CardinalityType
      <4> QED BY <4>1, <4>2
    <3>8. Cardinality(DOMAIN routes) \in Nat /\ MaxRouteKeys \in Nat
      BY FS_CardinalityType, MetricsAssumption DEF MetricsInv
    <3> HIDE DEF key
    <3> QED BY <3>3, <3>4, <3>6, <3>7, <3>8
  <2> QED BY <2>2, <2>3
<1> QED BY <1>0, <1>2, <1>3, <1>4

LEMMA FinishRequestInv ==
    ASSUME MetricsInv, NEW c \in Handlers, FinishRequest(c)
    PROVE  MetricsInv'
<1> DEFINE route == serving[c]
<1>1. serving \in [Handlers -> Routes \cup {NoRoute}] /\ route \in Routes
  BY DEF MetricsInv, MetricsTypeOK, FinishRequest
<1>2. /\ DOMAIN routes' = DOMAIN routes \cup {KeyOf(route)}
      /\ \A key \in DOMAIN routes' : routes'[key] \in Nat \ {0}
      /\ IsFiniteSet(DOMAIN routes')
      /\ Cardinality(OwnKeys') <= MaxRouteKeys - 1
  BY <1>1, CountedTable DEF FinishRequest
<1>3. InServer' = InServer \ {c} /\ c \in InServer
  BY <1>1 DEF InServer, FinishRequest
<1>4. inFlight' \in Nat /\ inFlight' = Cardinality(InServer')
  <2>1. /\ IsFiniteSet(InServer \ {c})
        /\ Cardinality(InServer \ {c}) = Cardinality(InServer) - 1
    BY <1>3, ServerIsFinite, FS_RemoveElement
  <2>2. Cardinality(InServer \ {c}) \in Nat
    BY <2>1, FS_CardinalityType
  <2>3. inFlight = Cardinality(InServer) /\ inFlight > 0
    BY <2>1, <2>2, ServerIsFinite DEF MetricsInv
  <2> QED BY <1>3, <2>1, <2>2, <2>3 DEF FinishRequest
<1>5. MetricsTypeOK'
  <2>1. DOMAIN routes' \subseteq RouteKeys
    BY <1>1, <1>2, KeysOfARoute DEF MetricsInv, MetricsTypeOK
  <2>2. /\ requests' \in Nat
        /\ overflowed' \in 0 .. requests' /\ literal' \in 0 .. requests'
    BY DEF FinishRequest, MetricsInv, MetricsTypeOK
  <2>3. serving' \in [Handlers -> Routes \cup {NoRoute}]
    BY <1>1 DEF FinishRequest
  <2> QED BY <1>2, <1>4, <2>1, <2>2, <2>3 DEF MetricsTypeOK
<1> QED BY <1>2, <1>4, <1>5 DEF MetricsInv

LEMMA MetricsInvNext == MetricsInv /\ [MetricsNext]_metricsVars => MetricsInv'
<1> SUFFICES ASSUME MetricsInv, [MetricsNext]_metricsVars PROVE MetricsInv'
  OBVIOUS
<1>1. CASE UNCHANGED metricsVars
  BY <1>1 DEF metricsVars, MetricsInv, MetricsTypeOK, InServer, OwnKeys, OtherKeys
<1>2. CASE MetricsNext
  BY <1>2, BeginRequestInv, FinishRequestInv DEF MetricsNext
<1> QED BY <1>1, <1>2

\* The keys of "/:other", one per method at most, come on top of the limit.
LEMMA MetricsInvBounds ==
    MetricsInv => Cardinality(DOMAIN routes) <= MaxRouteKeys - 1 + Cardinality(Methods)
<1> SUFFICES ASSUME MetricsInv
             PROVE  Cardinality(DOMAIN routes) <= MaxRouteKeys - 1 + Cardinality(Methods)
  OBVIOUS
<1>1. /\ IsFiniteSet(OtherKeys) /\ Cardinality(OtherKeys) <= Cardinality(Methods)
      /\ Cardinality(Methods) \in Nat
  <2> DEFINE method == [key \in OtherKeys |-> key[1]]
  <2>1. \A key \in OtherKeys : \E m \in Methods : key = <<m, OtherPath>>
    BY DEF OtherKeys, MetricsInv, MetricsTypeOK, RouteKeys
  <2>2. method \in [OtherKeys -> Methods]
    BY <2>1
  <2>3. \A k, l \in OtherKeys : method[k] = method[l] => k = l
    BY <2>1
  <2>4. method \in Injection(OtherKeys, Methods)
    BY <2>2, <2>3 DEF Injection, IsInjective
  <2>5. IsFiniteSet(Methods)
    BY MetricsAssumption
  <2> HIDE DEF method
  <2> QED BY <2>4, <2>5, FS_Injection, FS_CardinalityType
<1>2. DOMAIN routes = OwnKeys \cup OtherKeys /\ OwnKeys \cap OtherKeys = {}
  BY DEF OwnKeys, OtherKeys
<1>3. IsFiniteSet(OwnKeys)
  <2>1. OwnKeys \in SUBSET DOMAIN routes
    BY DEF OwnKeys
  <2> QED BY <2>1, FS_Subset DEF MetricsInv
<1>4. /\ Cardinality(DOMAIN routes) =
             Cardinality(OwnKeys) + Cardinality(OtherKeys) - Cardinality({})
      /\ Cardinality({}) = 0
  BY <1>1, <1>2, <1>3, FS_Union, FS_EmptySet
<1>5. Cardinality(OwnKeys) \in Nat /\ Cardinality(OtherKeys) \in Nat /\ MaxRouteKeys \in Nat
  BY <1>1, <1>3, FS_CardinalityType, MetricsAssumption
<1>6. Cardinality(OwnKeys) <= MaxRouteKeys - 1
  BY DEF MetricsInv
<1> QED BY <1>1, <1>4, <1>5, <1>6

(***************************************************************************)
(* The number in flight is the number of requests in the server, and the   *)
(* numbers keep their types.                                               *)
(***************************************************************************)
THEOREM MetricsInvariant == MetricsSpec => []MetricsInv
BY MetricsInvInit, MetricsInvNext, PTL DEF MetricsSpec

(***************************************************************************)
(* What finish enforces, in place of the route_key_limit that it reports   *)
(* (RouteTableWithinLimit is violated): one key fewer than the limit for   *)
(* paths of their own, and one key of "/:other" for each method.           *)
(***************************************************************************)
THEOREM RouteTableStaysBounded ==
    MetricsSpec => [](Cardinality(DOMAIN routes) <= MaxRouteKeys - 1 + Cardinality(Methods))
BY MetricsInvariant, MetricsInvBounds, PTL

-----------------------------------------------------------------------------
(* Every finished request is counted under exactly one key. *)

MetricsSums ==
    /\ SumFunction(routes) = requests
    /\ SumFunctionOnSet(routes, OtherKeys) = overflowed + literal

LEMMA MetricsSumsInit == MetricsInit => MetricsSums
<1> SUFFICES ASSUME MetricsInit PROVE MetricsSums
  OBVIOUS
<1>1. /\ DOMAIN routes = {} /\ OtherKeys = {}
      /\ requests = 0 /\ overflowed = 0 /\ literal = 0
  BY DEF MetricsInit, OtherKeys
<1> QED BY <1>1, SumOfNone DEF MetricsSums, SumFunction

\* finish adds one to the keys that hold the key of the request, and nothing
\* to the others.
LEMMA CountedSum ==
    ASSUME MetricsInv, NEW route \in Routes, NEW S,
           S \in SUBSET (DOMAIN routes \cup {KeyOf(route)})
    PROVE  SumFunctionOnSet(Counted(route), S) =
               SumFunctionOnSet(routes, S \cap DOMAIN routes)
                   + (IF KeyOf(route) \in S THEN 1 ELSE 0)
<1>1. PICK key, new : key = KeyOf(route) /\ new = Counted(route)
  OBVIOUS
<1> DEFINE old == S \cap DOMAIN routes
<1>2. IsFiniteSet(DOMAIN routes) /\ \A k \in DOMAIN routes : routes[k] \in Int
  BY DEF MetricsInv, MetricsTypeOK
<1>3. IsFiniteSet(S) /\ IsFiniteSet(old) /\ S \in SUBSET (DOMAIN routes \cup {key})
  <2>1. IsFiniteSet(DOMAIN routes \cup {key})
    BY <1>2, FS_AddElement
  <2> QED BY <1>1, <2>1, FS_Subset
<1>4. \A k \in DOMAIN routes \cup {key} :
         new[k] = (IF k \in DOMAIN routes THEN routes[k] ELSE 0) + (IF k = key THEN 1 ELSE 0)
  BY <1>1 DEF Counted
<1>5. \A k \in DOMAIN routes : k # key => new[k] = routes[k]
  <2> SUFFICES ASSUME NEW k \in DOMAIN routes, k # key PROVE new[k] = routes[k]
    OBVIOUS
  <2>1. new[k] = routes[k] + 0
    BY <1>4
  <2> QED BY <1>2, <2>1
<1>6. SumFunctionOnSet(routes, old) \in Int
  BY <1>2, <1>3, SumType
<1>7. CASE key \notin S
  <2>1. S = old /\ \A k \in S : new[k] = routes[k]
    BY <1>3, <1>5, <1>7
  <2>2. SumFunctionOnSet(new, S) = SumFunctionOnSet(routes, S)
    BY <1>3, <2>1, SumAgrees
  <2> HIDE DEF old
  <2> QED BY <1>1, <1>6, <1>7, <2>1, <2>2
<1>8. CASE key \in S
  <2> DEFINE others == S \ {key}
  <2>1. \A k \in S : new[k] \in Int
    <3> SUFFICES ASSUME NEW k \in S PROVE new[k] \in Int
      OBVIOUS
    <3>1. CASE k \in DOMAIN routes /\ k # key
      BY <1>2, <1>5, <3>1
    <3>2. CASE k = key /\ k \in DOMAIN routes
      <4>1. new[k] = routes[k] + 1 /\ routes[k] \in Int
        BY <1>2, <1>4, <3>2
      <4> QED BY <4>1
    <3>3. CASE k = key /\ k \notin DOMAIN routes
      <4>1. new[k] = 0 + 1
        BY <1>4, <3>3
      <4> QED BY <4>1
    <3> QED BY <1>3, <3>1, <3>2, <3>3
  <2>2. SumFunctionOnSet(new, S) = new[key] + SumFunctionOnSet(new, others)
    BY <1>3, <1>8, <2>1, SumOfOneMore
  <2>3. IsFiniteSet(others) /\ \A k \in others : k \in DOMAIN routes /\ new[k] = routes[k]
    BY <1>3, <1>5, FS_Subset
  <2>4. SumFunctionOnSet(new, others) = SumFunctionOnSet(routes, others)
    BY <2>3, SumAgrees
  <2>5. SumFunctionOnSet(routes, others) \in Int
    BY <1>2, <2>3, SumType
  <2>6. CASE key \in DOMAIN routes
    <3>1. key \in old /\ old \ {key} = others /\ \A k \in old : routes[k] \in Int
      BY <1>2, <1>3, <1>8, <2>6
    <3>2. SumFunctionOnSet(routes, old) = routes[key] + SumFunctionOnSet(routes, others)
      BY <1>3, <3>1, SumOfOneMore
    <3>3. new[key] = routes[key] + 1 /\ routes[key] \in Int
      BY <1>2, <1>4, <2>6
    <3>4. \A a, b \in Int : (a + 1) + b = (a + b) + 1
      OBVIOUS
    <3>5. (routes[key] + 1) + SumFunctionOnSet(routes, others)
              = (routes[key] + SumFunctionOnSet(routes, others)) + 1
      BY <2>5, <3>3, <3>4
    <3>6. SumFunctionOnSet(new, S) = SumFunctionOnSet(routes, old) + 1
      BY <2>2, <2>4, <3>2, <3>3, <3>5
    <3> QED BY <1>1, <1>8, <3>6
  <2>7. CASE key \notin DOMAIN routes
    <3>1. old = others
      BY <1>3, <2>7
    <3>2. new[key] = 0 + 1
      BY <1>4, <2>7
    <3>3. \A a \in Int : (0 + 1) + a = a + 1
      OBVIOUS
    <3>4. (0 + 1) + SumFunctionOnSet(routes, others) = SumFunctionOnSet(routes, others) + 1
      BY <2>5, <3>3
    <3>5. SumFunctionOnSet(new, S) = SumFunctionOnSet(routes, old) + 1
      BY <2>2, <2>4, <3>1, <3>2, <3>4
    <3> QED BY <1>1, <1>8, <3>5
  <2> QED BY <2>6, <2>7
<1> QED BY <1>7, <1>8

LEMMA FinishRequestSums ==
    ASSUME MetricsInv, MetricsSums, NEW c \in Handlers, FinishRequest(c)
    PROVE  MetricsSums'
<1>1. PICK route \in Routes : route = serving[c]
  BY DEF MetricsInv, MetricsTypeOK, FinishRequest
<1>2. /\ routes' = Counted(route)
      /\ requests' = requests + 1
      /\ overflowed' = overflowed + (IF Overflows(route) THEN 1 ELSE 0)
      /\ literal' = literal + (IF TakenLiterally(route) THEN 1 ELSE 0)
  BY <1>1 DEF FinishRequest
<1>3. DOMAIN routes' = DOMAIN routes \cup {KeyOf(route)}
  BY <1>2 DEF Counted
<1>4. SumFunction(routes') = requests'
  <2>1. (DOMAIN routes') \cap DOMAIN routes = DOMAIN routes /\ KeyOf(route) \in DOMAIN routes'
    BY <1>3
  <2>2. SumFunctionOnSet(Counted(route), DOMAIN routes') =
           SumFunctionOnSet(routes, (DOMAIN routes') \cap DOMAIN routes)
               + (IF KeyOf(route) \in DOMAIN routes' THEN 1 ELSE 0)
    BY <1>3, CountedSum
  <2>3. SumFunctionOnSet(routes', DOMAIN routes') = SumFunctionOnSet(routes, DOMAIN routes) + 1
    BY <1>2, <2>1, <2>2
  <2> QED BY <1>2, <2>3 DEF MetricsSums, SumFunction
<1>5. SumFunctionOnSet(routes', OtherKeys') = overflowed' + literal'
  <2>1. KeyOf(route) \in OtherKeys' <=> Overflows(route) \/ TakenLiterally(route)
    <3>1. KeyOf(route)[2] = OtherPath <=> Overflows(route) \/ TakenLiterally(route)
      <4>1. <<route[1], OtherPath>>[2] = OtherPath
        OBVIOUS
      <4> QED BY <4>1 DEF KeyOf, TakenLiterally
    <3> QED BY <1>3, <3>1 DEF OtherKeys
  <2>2. OtherKeys' \cap DOMAIN routes = OtherKeys /\ OtherKeys' \in SUBSET DOMAIN routes'
    BY <1>3 DEF OtherKeys
  <2>3. SumFunctionOnSet(Counted(route), OtherKeys') =
           SumFunctionOnSet(routes, OtherKeys' \cap DOMAIN routes)
               + (IF KeyOf(route) \in OtherKeys' THEN 1 ELSE 0)
    BY <1>3, <2>2, CountedSum
  <2>4. SumFunctionOnSet(routes', OtherKeys') =
           (overflowed + literal) + (IF KeyOf(route) \in OtherKeys' THEN 1 ELSE 0)
    BY <1>2, <2>2, <2>3 DEF MetricsSums
  <2>5. (IF KeyOf(route) \in OtherKeys' THEN 1 ELSE 0)
           = (IF Overflows(route) THEN 1 ELSE 0) + (IF TakenLiterally(route) THEN 1 ELSE 0)
    BY <2>1 DEF TakenLiterally
  <2>6. overflowed \in Int /\ literal \in Int
    BY DEF MetricsInv, MetricsTypeOK
  <2> QED BY <1>2, <2>4, <2>5, <2>6
<1> QED BY <1>4, <1>5 DEF MetricsSums

LEMMA MetricsSumsNext ==
    MetricsInv /\ MetricsSums /\ [MetricsNext]_metricsVars => MetricsSums'
<1> SUFFICES ASSUME MetricsInv, MetricsSums, [MetricsNext]_metricsVars PROVE MetricsSums'
  OBVIOUS
<1>1. CASE UNCHANGED <<requests, routes, overflowed, literal>>
  BY <1>1 DEF MetricsSums, OtherKeys
<1>2. CASE \E c \in Handlers : FinishRequest(c)
  BY <1>2, FinishRequestSums
<1> QED BY <1>1, <1>2 DEF MetricsNext, metricsVars, BeginRequest

(***************************************************************************)
(* The numbers of a snapshot agree for any number of requests, methods,    *)
(* paths and keys: the requests in flight are those in the server, each    *)
(* finished request is counted under exactly one key of the table, and the *)
(* "/:other" keys count the observations that found it full and, beside    *)
(* them, only requests for that very path, which is a path like any other. *)
(***************************************************************************)
THEOREM CountersAddUp == MetricsSpec => []MetricsAddUp
<1>1. MetricsInv /\ MetricsSums => MetricsAddUp
  BY DEF MetricsInv, MetricsSums, MetricsAddUp, InServer
<1>2. MetricsInit => MetricsInv /\ MetricsSums
  BY MetricsInvInit, MetricsSumsInit
<1>3. MetricsInv /\ MetricsSums /\ [MetricsNext]_metricsVars => (MetricsInv /\ MetricsSums)'
  BY MetricsInvNext, MetricsSumsNext
<1> QED BY <1>1, <1>2, <1>3, PTL DEF MetricsSpec

-----------------------------------------------------------------------------
(* The four components of one instance. *)

ComponentsInv == RuntimeInv /\ RouterInv /\ SlotInv /\ MetricsInv

LEMMA ComponentsInvInit == ComponentsInit => ComponentsInv
BY RuntimeInvInit, RouterInvInit, InitEstablishesInv, MetricsInvInit
   DEF ComponentsInit, ComponentsInv

LEMMA ComponentsInvNext == ComponentsInv /\ [ComponentsNext]_componentsVars => ComponentsInv'
<1> SUFFICES ASSUME ComponentsInv, [ComponentsNext]_componentsVars PROVE ComponentsInv'
  OBVIOUS
<1>1. /\ [RuntimeNext]_runtimeVars /\ [RouterNext]_routerVars
      /\ [SlotNext]_slotVars /\ [MetricsNext]_metricsVars
  BY Zenon DEF ComponentsNext, componentsVars
<1> QED BY <1>1, RuntimeInvNext, RouterInvNext, NextPreservesInv, MetricsInvNext
        DEF ComponentsInv

\* Every component keeps its types, whichever of them runs.
THEOREM ComponentsTypeCorrect == ComponentsSpec => []ComponentsTypeOK
<1>1. ComponentsInv => ComponentsTypeOK
  BY DEF ComponentsInv, ComponentsTypeOK, RuntimeInv, RouterInv, SlotInv, MetricsInv
<1> QED BY <1>1, ComponentsInvInit, ComponentsInvNext, PTL DEF ComponentsSpec
===============================================================================
