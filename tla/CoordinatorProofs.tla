-------------------------- MODULE CoordinatorProofs --------------------------
(***************************************************************************)
(* JobCoordinator, for any number of coordinations and any job lists.      *)
(* What topologicalSort returns is an induction over its recursion: the    *)
(* provers cannot instantiate the library's theorems about recursive       *)
(* definitions, which take an operator, but a set of counterexamples has a *)
(* least one (WFMin), and that a recursive function exists can be stated   *)
(* of a functional that is a function itself (Recursion).                  *)
(***************************************************************************)
EXTENDS JobCoordinator, FiniteSetTheorems, SequenceTheorems, WellFoundedInduction, TLAPS

-----------------------------------------------------------------------------
(* Induction and recursion.                                                *)

\* A set of natural numbers has a least one.
LEMMA LeastNumber ==
  ASSUME NEW S \in SUBSET Nat, S # {}
  PROVE  \E n \in S : \A m \in S : n <= m
<1>1. PICK R : R = OpToRel(<, Nat)
  OBVIOUS
<1>2. \A m, n \in Nat : <<m, n>> \in R <=> m < n
  BY <1>1 DEF OpToRel
<1>3. IsWellFoundedOn(R, Nat)
  BY <1>1, NatLessThanWellFounded
<1>4. PICK n \in S : \A m \in S : ~ (<<m, n>> \in R)
  BY <1>3, WFMin
<1>5. ASSUME NEW m \in S PROVE n <= m
  <2>1. m \in Nat /\ n \in Nat /\ ~ (m < n)
    BY <1>2, <1>4
  <2> QED BY <2>1
<1> QED BY <1>5

\* Every set of members of D has one below which there is no other.
Founded(R, D) ==
  /\ \A T \in SUBSET D : T # {} => \E x \in T : \A y \in T : <<y, x>> \notin R
  /\ \A x, y, z \in D : <<x, y>> \in R /\ <<y, z>> \in R => <<x, z>> \in R

\* What G makes of a function at x depends on its values at lesser arguments only.
Recursive(G, R, D, V) ==
  /\ G \in [D \X [D -> V] -> V]
  /\ \A x \in D : \A f, g \in [D -> V] :
       (\A y \in D : <<y, x>> \in R => f[y] = g[y]) => G[<<x, f>>] = G[<<x, g>>]

Solves(f, G, D, V) == f \in [D -> V] /\ \A x \in D : f[x] = G[<<x, f>>]

\* Then G defines a function.
LEMMA Recursion ==
  ASSUME NEW D, NEW V, V # {}, NEW R, Founded(R, D), NEW G, Recursive(G, R, D, V)
  PROVE  \E f : Solves(f, G, D, V)
<1> DEFINE Below(y, x) == y = x \/ <<y, x>> \in R
           Upto(x) == {f \in [D -> V] : \A y \in D : Below(y, x) => f[y] = G[<<y, f>>]}
           At(x) == (CHOOSE f \in Upto(x) : TRUE)[x]
<1> USE DEF Recursive
<1>1. \A x, y, z \in D : <<x, y>> \in R /\ Below(y, z) => <<x, z>> \in R
  BY DEF Founded
<1>2. \A x \in D : <<x, x>> \notin R
  <2> SUFFICES ASSUME NEW x \in D PROVE <<x, x>> \notin R
    OBVIOUS
  <2>1. {x} \in SUBSET D /\ {x} # {}
    OBVIOUS
  <2> QED BY <2>1 DEF Founded
<1>3. ASSUME NEW x \in D, NEW z \in D, NEW f \in Upto(x), NEW g \in Upto(z),
             NEW y \in D, Below(y, x), Below(y, z)
      PROVE  f[y] = g[y]
  <2> DEFINE T == {u \in D : Below(u, x) /\ Below(u, z) /\ f[u] # g[u]}
  <2> SUFFICES ASSUME y \in T PROVE FALSE
    BY <1>3
  <2>1. PICK u \in T : \A w \in T : <<w, u>> \notin R
    BY DEF Founded
  <2>2. \A w \in D : <<w, u>> \in R => f[w] = g[w]
    <3> SUFFICES ASSUME NEW w \in D, <<w, u>> \in R PROVE f[w] = g[w]
      OBVIOUS
    <3>1. Below(w, x) /\ Below(w, z)
      BY <1>1
    <3> QED BY <2>1, <3>1
  <2>3. G[<<u, f>>] = G[<<u, g>>]
    BY <2>2
  <2> QED BY <2>1, <2>3
<1>4. ASSUME NEW x \in D, NEW h \in [D -> V],
             \A y \in D : <<y, x>> \in R => Upto(y) # {} /\ h[y] = At(y)
      PROVE  \A y \in D : <<y, x>> \in R => h[y] = G[<<y, h>>]
  <2> SUFFICES ASSUME NEW y \in D, <<y, x>> \in R PROVE h[y] = G[<<y, h>>]
    OBVIOUS
  <2>1. PICK f \in Upto(y) : h[y] = f[y]
    BY <1>4
  <2>2. \A w \in D : <<w, y>> \in R => f[w] = h[w]
    <3> SUFFICES ASSUME NEW w \in D, <<w, y>> \in R PROVE f[w] = h[w]
      OBVIOUS
    <3>1. <<w, x>> \in R
      BY <1>1
    <3>2. PICK g \in Upto(w) : h[w] = g[w]
      BY <1>4, <3>1
    <3>3. Below(w, y) /\ Below(w, w)
      OBVIOUS
    <3> HIDE DEF Below, Upto
    <3>4. f[w] = g[w]
      BY <1>3, <3>3
    <3> QED BY <3>2, <3>4
  <2>3. G[<<y, f>>] = G[<<y, h>>]
    BY <2>2
  <2> QED BY <2>1, <2>3
<1>5. \A x \in D : Upto(x) # {}
  <2> DEFINE T == {x \in D : Upto(x) = {}}
  <2> SUFFICES ASSUME T # {} PROVE FALSE
    OBVIOUS
  <2>1. PICK x \in T : \A w \in T : <<w, x>> \notin R
    BY DEF Founded
  <2>2. PICK v \in V : TRUE
    OBVIOUS
  <2> DEFINE h == [y \in D |-> IF <<y, x>> \in R THEN At(y) ELSE v]
             k == [h EXCEPT ![x] = G[<<x, h>>]]
  <2>3. \A y \in D : <<y, x>> \in R => Upto(y) # {}
    BY <2>1
  <2>4. \A y \in D : <<y, x>> \in R => At(y) \in V
    BY <2>3
  <2>5. h \in [D -> V] /\ \A y \in D : <<y, x>> \in R => h[y] = At(y)
    BY <2>2, <2>4
  <2>6. k \in [D -> V] /\ k[x] = G[<<x, h>>] /\ \A y \in D : y # x => k[y] = h[y]
    BY <2>5
  <2> HIDE DEF h, k
  <2>7. \A y \in D : <<y, x>> \in R => k[y] = h[y]
    BY <1>2, <2>6
  <2>8. \A y \in D : <<y, x>> \in R => k[y] = G[<<y, k>>]
    <3>1. \A y \in D : <<y, x>> \in R => Upto(y) # {} /\ k[y] = At(y)
      BY <2>3, <2>5, <2>7
    <3>2. k \in [D -> V]
      BY <2>6
    <3> HIDE DEF Upto, At
    <3> QED BY <1>4, <3>1, <3>2
  <2>9. k[x] = G[<<x, k>>]
    <3>0. h \in [D -> V] /\ k \in [D -> V]
      BY <2>5, <2>6
    <3>1. G[<<x, k>>] = G[<<x, h>>]
      BY ONLY <2>7, <3>0, x \in D,
         \A z \in D : \A f, g \in [D -> V] :
           (\A y \in D : <<y, z>> \in R => f[y] = g[y]) => G[<<z, f>>] = G[<<z, g>>]
    <3> QED BY <2>6, <3>1
  <2>10. k \in Upto(x)
    BY <2>6, <2>8, <2>9
  <2> QED BY <2>1, <2>10
<1>6. PICK F : F = [x \in D |-> At(x)]
  OBVIOUS
<1>7. F \in [D -> V] /\ \A x \in D : F[x] = At(x)
  BY <1>5, <1>6
<1>8. ASSUME NEW x \in D PROVE F[x] = G[<<x, F>>]
  <2>1. PICK f \in Upto(x) : F[x] = f[x]
    BY <1>5, <1>7
  <2>2. \A y \in D : <<y, x>> \in R => F[y] = f[y]
    <3> SUFFICES ASSUME NEW y \in D, <<y, x>> \in R PROVE F[y] = f[y]
      OBVIOUS
    <3>1. PICK g \in Upto(y) : F[y] = g[y]
      BY <1>5, <1>7
    <3>2. Below(y, x) /\ Below(y, y)
      OBVIOUS
    <3> HIDE DEF Below, Upto
    <3>3. f[y] = g[y]
      BY <1>3, <3>2
    <3> QED BY <3>1, <3>3
  <2>3. f \in [D -> V] /\ F \in [D -> V]
    BY <1>7
  <2> HIDE DEF Upto, At
  <2>4. G[<<x, f>>] = G[<<x, F>>]
    BY ONLY <2>2, <2>3, x \in D,
       \A z \in D : \A i, g \in [D -> V] :
         (\A y \in D : <<y, z>> \in R => i[y] = g[y]) => G[<<z, i>>] = G[<<z, g>>]
  <2> USE DEF Upto
  <2> QED BY <2>1, <2>4
<1> QED BY <1>7, <1>8 DEF Solves

-----------------------------------------------------------------------------
(* The calls of visit: each is made with more jobs in progress than the    *)
(* one that makes it, or with fewer jobs left.                             *)

Known(r) == ToSet(r.jobs)
Fresh(r, v) == Cardinality(Known(r) \ v.inProgress)
Inner(r, u, v) ==
  \/ Fresh(r, u) < Fresh(r, v)
  \/ Fresh(r, u) = Fresh(r, v) /\ Len(u.left) < Len(v.left)
Within(r) == {p \in Visits(r) \X Visits(r) : Inner(r, p[1], p[2])}

LEMMA RequestTypes ==
  ASSUME NEW r \in Requests
  PROVE  /\ r.jobs \in Seq(Jobs) /\ \A j \in Jobs : r.deps[j] \in Seq(Jobs)
         /\ Known(r) \subseteq Jobs /\ IsFiniteSet(Known(r))
         /\ Known(r) = {r.jobs[i] : i \in 1..Len(r.jobs)} /\ Len(r.jobs) \in Nat
<1>1. r.jobs \in Seq(Jobs) /\ \A j \in Jobs : r.deps[j] \in Seq(Jobs)
  BY CoordinatorAssumption
<1>2. /\ Len(r.jobs) \in Nat /\ DOMAIN r.jobs = 1..Len(r.jobs)
      /\ \A i \in 1..Len(r.jobs) : r.jobs[i] \in Jobs
  BY <1>1
<1>3. Known(r) = {r.jobs[i] : i \in 1..Len(r.jobs)} /\ Known(r) \subseteq Jobs
  BY <1>2 DEF Known, ToSet
<1>4. r.jobs \in [1..Len(r.jobs) -> Known(r)]
  BY <1>1, <1>3, r.jobs \in [1..Len(r.jobs) -> Jobs]
<1>5. r.jobs \in Surjection(1..Len(r.jobs), Known(r))
  BY <1>3, <1>4 DEF Surjection
<1>6. IsFiniteSet(1..Len(r.jobs))
  BY <1>2, FS_Interval
<1>7. IsFiniteSet(Known(r))
  BY <1>5, <1>6, FS_Surjection
<1> QED BY <1>1, <1>2, <1>3, <1>7

LEMMA VisitTypes ==
  ASSUME NEW r \in Requests, NEW v \in Visits(r)
  PROVE  /\ v.left \in Seq(Jobs) /\ Len(v.left) \in Nat
         /\ v.inProgress \subseteq Known(r) /\ v.sorted \in Seq(Known(r))
         /\ Fresh(r, v) \in Nat
         /\ v = [left |-> v.left, inProgress |-> v.inProgress, sorted |-> v.sorted]
<1>1. /\ v.left \in Seq(Jobs) /\ Len(v.left) \in Nat
      /\ v.inProgress \subseteq Known(r) /\ v.sorted \in Seq(Known(r))
      /\ v = [left |-> v.left, inProgress |-> v.inProgress, sorted |-> v.sorted]
  BY DEF Visits, Known
<1>2. IsFiniteSet(Known(r) \ v.inProgress)
  BY RequestTypes, FS_Subset
<1>3. Fresh(r, v) \in Nat
  BY <1>2, FS_CardinalityType DEF Fresh
<1> QED BY <1>1, <1>3

\* The members of a sequence.
LEMMA Members ==
  ASSUME NEW S, NEW s \in Seq(S)
  PROVE  /\ ToSet(s) \subseteq S /\ DOMAIN s = 1..Len(s) /\ Len(s) \in Nat
         /\ ToSet(s) = {s[i] : i \in 1..Len(s)}
BY DEF ToSet

\* A sequence that is not empty, and one that is one longer.
LEMMA HeadAndTail ==
  ASSUME NEW S, NEW s \in Seq(S), s # <<>>
  PROVE  /\ Head(s) \in S /\ Tail(s) \in Seq(S) /\ Len(Tail(s)) = Len(s) - 1
         /\ Len(s) \in Nat /\ Len(s) > 0 /\ Head(s) \in ToSet(s)
         /\ ToSet(Tail(s)) \subseteq ToSet(s)
         /\ ToSet(s) = {Head(s)} \cup ToSet(Tail(s))
<1>1. /\ Head(s) \in S /\ Tail(s) \in Seq(S) /\ Len(Tail(s)) = Len(s) - 1
      /\ Len(s) \in Nat \ {0} /\ Head(s) = s[1]
      /\ \A i \in 1..Len(s) - 1 : Tail(s)[i] = s[i + 1]
  BY HeadTailProperties, EmptySeq
<1>2. /\ ToSet(s) = {s[i] : i \in 1..Len(s)}
      /\ ToSet(Tail(s)) = {Tail(s)[i] : i \in 1..Len(s) - 1}
  BY <1>1, Members
<1>3. ASSUME NEW x \in ToSet(Tail(s)) PROVE x \in ToSet(s)
  BY <1>1, <1>2
<1>4. ASSUME NEW x \in ToSet(s), x # Head(s) PROVE x \in ToSet(Tail(s))
  <2>1. PICK i \in 1..Len(s) : x = s[i]
    BY <1>2
  <2>2. i # 1 /\ i - 1 \in 1..Len(s) - 1 /\ i = (i - 1) + 1
    BY <1>1, <1>4, <2>1
  <2>3. Tail(s)[i - 1] = x
    BY <1>1, <2>1, <2>2
  <2> QED BY <1>2, <2>2, <2>3
<1>5. Head(s) \in ToSet(s)
  BY <1>1, <1>2
<1> QED BY <1>1, <1>3, <1>4, <1>5

\* The calls are less and less.
LEMMA VisitsFounded ==
  ASSUME NEW r \in Requests
  PROVE  Founded(Within(r), Visits(r))
<1>1. ASSUME NEW T \in SUBSET Visits(r), T # {}
      PROVE  \E x \in T : \A y \in T : <<y, x>> \notin Within(r)
  <2>1. \A v \in T : Fresh(r, v) \in Nat /\ Len(v.left) \in Nat
    BY VisitTypes
  <2>2. PICK f \in {Fresh(r, v) : v \in T} : \A m \in {Fresh(r, v) : v \in T} : f <= m
    <3>1. {Fresh(r, v) : v \in T} \in SUBSET Nat /\ {Fresh(r, v) : v \in T} # {}
      BY <1>1, <2>1
    <3> QED BY <3>1, LeastNumber
  <2> DEFINE L == {Len(v.left) : v \in {u \in T : Fresh(r, u) = f}}
  <2>3. PICK n \in L : \A m \in L : n <= m
    <3>1. L \in SUBSET Nat /\ L # {}
      BY <2>1, <2>2
    <3> QED BY <3>1, LeastNumber
  <2>4. PICK x \in T : Fresh(r, x) = f /\ Len(x.left) = n
    OBVIOUS
  <2>5. ASSUME NEW y \in T, Inner(r, y, x) PROVE FALSE
    <3>1. f <= Fresh(r, y)
      BY <2>2
    <3>2. Fresh(r, y) = f /\ Len(y.left) < n
      BY <2>1, <2>4, <2>5, <3>1 DEF Inner
    <3>3. n <= Len(y.left)
      BY <2>3, <3>2
    <3> QED BY <2>1, <2>4, <3>2, <3>3
  <2>6. \A y \in T : <<y, x>> \notin Within(r)
    BY <2>5 DEF Within
  <2> QED BY <2>6
<1>2. ASSUME NEW x \in Visits(r), NEW y \in Visits(r), NEW z \in Visits(r),
             <<x, y>> \in Within(r), <<y, z>> \in Within(r)
      PROVE  <<x, z>> \in Within(r)
  <2>1. \A v \in {x, y, z} : Fresh(r, v) \in Nat /\ Len(v.left) \in Nat
    BY VisitTypes
  <2>2. Inner(r, x, y) /\ Inner(r, y, z)
    BY <1>2 DEF Within
  <2>3. Inner(r, x, z)
    BY <2>1, <2>2 DEF Inner
  <2> QED BY <2>3 DEF Within
<1> QED BY <1>1, <1>2 DEF Founded

LEMMA CallsAreLess ==
  ASSUME NEW r \in Requests, NEW v \in Visits(r), v.left # <<>>
  PROVE  /\ \A s \in Seq(Known(r)) :
              OfRest(v, s) \in Visits(r) /\ <<OfRest(v, s), v>> \in Within(r)
         /\ Unseen(r, v) => OfDeps(r, v) \in Visits(r) /\ <<OfDeps(r, v), v>> \in Within(r)
         /\ Unseen(r, v) => \A s \in Seq(Known(r)) : Append(s, Head(v.left)) \in Seq(Known(r))
<1>1. /\ v.left \in Seq(Jobs) /\ Len(v.left) \in Nat
      /\ v.inProgress \subseteq Known(r) /\ v.sorted \in Seq(Known(r)) /\ Fresh(r, v) \in Nat
      /\ v = [left |-> v.left, inProgress |-> v.inProgress, sorted |-> v.sorted]
  BY VisitTypes
<1>2. Tail(v.left) \in Seq(Jobs) /\ Len(Tail(v.left)) = Len(v.left) - 1
  BY <1>1, HeadAndTail
<1>3. ASSUME NEW s \in Seq(Known(r))
      PROVE  OfRest(v, s) \in Visits(r) /\ <<OfRest(v, s), v>> \in Within(r)
  <2>1. OfRest(v, s) = [left |-> Tail(v.left), inProgress |-> v.inProgress, sorted |-> s]
    BY DEF OfRest
  <2>2. OfRest(v, s) \in Visits(r)
    BY <1>1, <1>2, <2>1 DEF Visits, Known
  <2>3. Fresh(r, OfRest(v, s)) = Fresh(r, v) /\ Len(OfRest(v, s).left) < Len(v.left)
    BY <1>1, <1>2, <2>1 DEF Fresh
  <2> QED BY <2>2, <2>3 DEF Within, Inner
<1>4. ASSUME Unseen(r, v)
      PROVE  OfDeps(r, v) \in Visits(r) /\ <<OfDeps(r, v), v>> \in Within(r)
  <2>1. Head(v.left) \in Known(r) \ v.inProgress
    BY <1>4 DEF Unseen, Known
  <2>2. Head(v.left) \in Jobs /\ r.deps[Head(v.left)] \in Seq(Jobs) /\ IsFiniteSet(Known(r))
    BY <2>1, RequestTypes
  <2>3. OfDeps(r, v) \in Visits(r)
    BY <1>1, <2>1, <2>2 DEF OfDeps, Visits, Known
  <2>4. Fresh(r, OfDeps(r, v)) < Fresh(r, v)
    <3>1. PICK A, B : A = Known(r) \ v.inProgress /\ B = Known(r) \ OfDeps(r, v).inProgress
      OBVIOUS
    <3>2. B = A \ {Head(v.left)} /\ Head(v.left) \in A
      BY <2>1, <3>1 DEF OfDeps
    <3>3. IsFiniteSet(A)
      BY <2>2, <3>1, FS_Subset
    <3>4. Cardinality(B) = Cardinality(A) - 1 /\ Cardinality(A) \in Nat
      BY <3>2, <3>3, FS_RemoveElement, FS_CardinalityType
    <3> QED BY <3>1, <3>4 DEF Fresh
  <2> QED BY <2>3, <2>4 DEF Within, Inner
<1>5. ASSUME Unseen(r, v), NEW s \in Seq(Known(r))
      PROVE  Append(s, Head(v.left)) \in Seq(Known(r))
  <2>1. Head(v.left) \in Known(r)
    BY <1>5 DEF Unseen, Known
  <2> QED BY <2>1
<1> QED BY <1>3, <1>4, <1>5

\* What is made of the values of lesser calls.
LEMMA VisitOfLess ==
  ASSUME NEW r \in Requests, NEW v \in Visits(r)
  PROVE  /\ \A f \in [Visits(r) -> Seq(Known(r))] : Visit(f, r, v) \in Seq(Known(r))
         /\ \A f \in [Visits(r) -> Seq(Known(r))] : \A g :
              (\A u \in Visits(r) : <<u, v>> \in Within(r) => f[u] = g[u])
                => Visit(f, r, v) = Visit(g, r, v)
<1>1. v.sorted \in Seq(Known(r))
  BY VisitTypes
<1>2. CASE v.left = <<>>
  BY <1>1, <1>2 DEF Visit
<1>3. CASE v.left # <<>> /\ Unseen(r, v)
  <2>1. /\ OfDeps(r, v) \in Visits(r) /\ <<OfDeps(r, v), v>> \in Within(r)
        /\ \A s \in Seq(Known(r)) : /\ Append(s, Head(v.left)) \in Seq(Known(r))
                                    /\ OfRest(v, s) \in Visits(r)
                                    /\ <<OfRest(v, s), v>> \in Within(r)
    BY <1>3, CallsAreLess
  <2>2. \A f : Visit(f, r, v) = f[OfRest(v, Append(f[OfDeps(r, v)], Head(v.left)))]
    BY <1>3 DEF Visit
  <2> QED BY <2>1, <2>2
<1>4. CASE v.left # <<>> /\ ~Unseen(r, v)
  <2>1. OfRest(v, v.sorted) \in Visits(r) /\ <<OfRest(v, v.sorted), v>> \in Within(r)
    BY <1>1, <1>4, CallsAreLess
  <2>2. \A f : Visit(f, r, v) = f[OfRest(v, v.sorted)]
    BY <1>4 DEF Visit
  <2> QED BY <2>1, <2>2
<1> QED BY <1>2, <1>3, <1>4

\* The recursion of visit ends, and its result is a list of jobs that were given.
LEMMA VisitedIs ==
  ASSUME NEW r \in Requests
  PROVE  /\ Visited(r) \in [Visits(r) -> Seq(Known(r))]
         /\ \A v \in Visits(r) : Visited(r)[v] = Visit(Visited(r), r, v)
<1>1. PICK D, V : D = Visits(r) /\ V = Seq(Known(r))
  OBVIOUS
<1>2. V # {}
  BY <1>1, EmptySeq
<1>3. PICK G : G = [p \in D \X [D -> V] |-> Visit(p[2], r, p[1])]
  OBVIOUS
<1>4. \A v \in D, f \in [D -> V] : G[<<v, f>>] = Visit(f, r, v)
  BY <1>3
<1>5. G \in [D \X [D -> V] -> V]
  <2>1. \A p \in D \X [D -> V] : Visit(p[2], r, p[1]) \in V
    BY <1>1, VisitOfLess
  <2> QED BY <1>3, <2>1
<1>6. \A x \in D : \A f, g \in [D -> V] :
        (\A y \in D : <<y, x>> \in Within(r) => f[y] = g[y]) => G[<<x, f>>] = G[<<x, g>>]
  <2> SUFFICES ASSUME NEW x \in D, NEW f \in [D -> V], NEW g \in [D -> V],
                      \A y \in D : <<y, x>> \in Within(r) => f[y] = g[y]
               PROVE  G[<<x, f>>] = G[<<x, g>>]
    OBVIOUS
  <2>1. Visit(f, r, x) = Visit(g, r, x)
    BY <1>1, VisitOfLess
  <2> QED BY <1>4, <2>1
<1>7. PICK f \in [D -> V] : \A x \in D : f[x] = G[<<x, f>>]
  <2>1. PICK R : R = Within(r)
    OBVIOUS
  <2>2. Founded(R, D)
    BY <1>1, <2>1, VisitsFounded
  <2>3. \A x \in D : \A f, g \in [D -> V] :
          (\A y \in D : <<y, x>> \in R => f[y] = g[y]) => G[<<x, f>>] = G[<<x, g>>]
    BY <1>6, <2>1
  <2>4. Recursive(G, R, D, V)
    BY <1>5, <2>3 DEF Recursive
  <2>5. PICK f : Solves(f, G, D, V)
    BY ONLY <1>2, <2>2, <2>4, Recursion
  <2> QED BY <2>5 DEF Solves
<1>8. f = [v \in D |-> Visit(f, r, v)]
  BY <1>4, <1>7
<1>9. Visited(r) = [v \in D |-> Visit(Visited(r), r, v)]
  BY <1>1, <1>8 DEF Visited
<1>10. PICK F : F = Visited(r)
  OBVIOUS
<1>11. F = [v \in D |-> Visit(F, r, v)] /\ \A v \in D : F[v] = Visit(F, r, v)
  BY <1>9, <1>10
<1>12. \A v \in D : F[v] = f[v]
  <2> DEFINE T == {v \in D : F[v] # f[v]}
  <2> SUFFICES ASSUME T # {} PROVE FALSE
    OBVIOUS
  <2>1. PICK v \in T : \A u \in T : <<u, v>> \notin Within(r)
    BY <1>1, VisitsFounded DEF Founded
  <2>2. \A u \in D : <<u, v>> \in Within(r) => f[u] = F[u]
    BY <2>1
  <2>3. Visit(f, r, v) = Visit(F, r, v)
    BY <1>1, <2>2, VisitOfLess
  <2>4. F[v] = f[v]
    BY <1>4, <1>7, <1>11, <2>3
  <2> QED BY <2>4
<1>13. F \in [D -> V]
  BY <1>7, <1>11, <1>12
<1> QED BY <1>1, <1>10, <1>11, <1>13

-----------------------------------------------------------------------------
(* What visit returns.                                                     *)

LEMMA NeedsDep ==
  ASSUME NEW r, NEW j, NEW d \in Known(r), d \in ToSet(r.deps[j])
  PROVE  Needs(r, j, d)
BY DEF Needs, Known

LEMMA NeedsStep ==
  ASSUME NEW r, NEW a, NEW j, NEW d \in Known(r), Needs(r, a, j), d \in ToSet(r.deps[j])
  PROVE  Needs(r, a, d)
BY DEF Needs, Known

Injective(s) == \A i, k \in 1..Len(s) : s[i] = s[k] => i = k

\* A job comes after the ones it depends on, cycles apart.
Ordered(r, s) ==
  \A i \in 1..Len(s) : \A d \in Known(r) \cap ToSet(r.deps[s[i]]) :
    Needs(r, d, s[i]) \/ \E k \in 1..Len(s) : k < i /\ s[k] = d

Extends(s, t) == Len(s) <= Len(t) /\ \A i \in 1..Len(s) : t[i] = s[i]

\* A call is made for jobs that those in progress depend on.
Before(r, v) ==
  /\ Injective(v.sorted) /\ Ordered(r, v.sorted)
  /\ \A a \in v.inProgress : \A j \in Known(r) \cap ToSet(v.left) : Needs(r, a, j)

\* It adds jobs to the sorted ones, those it is made for among them, unless they are in
\* progress.
After(r, v, t) ==
  /\ Injective(t) /\ Ordered(r, t) /\ Extends(v.sorted, t)
  /\ \A i \in 1..Len(t) : Len(v.sorted) < i => t[i] \notin v.inProgress
  /\ Known(r) \cap ToSet(v.left) \subseteq ToSet(t) \cup v.inProgress

LEMMA AppendIs ==
  ASSUME NEW S, NEW s \in Seq(S), NEW x \in S
  PROVE  /\ Append(s, x) \in Seq(S) /\ Len(Append(s, x)) = Len(s) + 1 /\ Len(s) \in Nat
         /\ \A i \in 1..Len(s) : Append(s, x)[i] = s[i]
         /\ Append(s, x)[Len(s) + 1] = x
OBVIOUS

LEMMA ExtendsMembers ==
  ASSUME NEW S, NEW s \in Seq(S), NEW t \in Seq(S), Extends(s, t)
  PROVE  ToSet(s) \subseteq ToSet(t)
<1>1. /\ Len(s) \in Nat /\ ToSet(s) = {s[i] : i \in 1..Len(s)}
      /\ Len(t) \in Nat /\ ToSet(t) = {t[i] : i \in 1..Len(t)}
  BY Members
<1>2. \A i \in 1..Len(s) : i \in 1..Len(t) /\ t[i] = s[i]
  BY <1>1 DEF Extends
<1> QED BY <1>1, <1>2

\* What is in a sequence and not in one that it extends comes later.
LEMMA ExtendsLater ==
  ASSUME NEW S, NEW s \in Seq(S), NEW t \in Seq(S), Extends(s, t),
         NEW i \in 1..Len(t), t[i] \notin ToSet(s)
  PROVE  Len(s) < i
<1>1. /\ Len(s) \in Nat /\ ToSet(s) = {s[k] : k \in 1..Len(s)} /\ Len(t) \in Nat
  BY Members
<1>2. i \in 1..Len(s) => t[i] = s[i]
  BY DEF Extends
<1> QED BY <1>1, <1>2

\* A new job may be appended whose dependencies are sorted, or depend on it.
LEMMA AppendKeeps ==
  ASSUME NEW r \in Requests, NEW s \in Seq(Known(r)), NEW h \in Known(r),
         Injective(s), Ordered(r, s), h \notin ToSet(s),
         \A d \in Known(r) \cap ToSet(r.deps[h]) : Needs(r, d, h) \/ d \in ToSet(s)
  PROVE  Injective(Append(s, h)) /\ Ordered(r, Append(s, h)) /\ Extends(s, Append(s, h))
<1>1. PICK t : t = Append(s, h)
  OBVIOUS
<1>2. /\ Len(t) = Len(s) + 1 /\ Len(s) \in Nat /\ t[Len(s) + 1] = h
      /\ \A i \in 1..Len(s) : t[i] = s[i]
  BY <1>1, AppendIs
<1>3. ToSet(s) = {s[i] : i \in 1..Len(s)}
  BY Members
<1>4. \A i \in 1..Len(t) : i \in 1..Len(s) \/ i = Len(s) + 1
  BY <1>2
<1>5. Injective(t)
  <2>1. \A i \in 1..Len(s) : s[i] # h
    BY <1>3
  <2> QED BY <1>2, <1>4, <2>1 DEF Injective
<1>6. Ordered(r, t)
  <2>1. ASSUME NEW i \in 1..Len(s), NEW d \in Known(r) \cap ToSet(r.deps[t[i]])
        PROVE  Needs(r, d, t[i]) \/ \E k \in 1..Len(t) : k < i /\ t[k] = d
    <3>1. t[i] = s[i]
      BY <1>2
    <3>2. CASE Needs(r, d, s[i])
      BY <3>1, <3>2
    <3>3. CASE ~Needs(r, d, s[i])
      <4>1. PICK k \in 1..Len(s) : k < i /\ s[k] = d
        BY <3>1, <3>3 DEF Ordered
      <4>2. k \in 1..Len(t) /\ t[k] = d
        BY <1>2, <4>1
      <4> QED BY <4>1, <4>2
    <3> QED BY <3>2, <3>3
  <2>2. ASSUME NEW d \in Known(r) \cap ToSet(r.deps[h])
        PROVE  Needs(r, d, h) \/ \E k \in 1..Len(t) : k < Len(s) + 1 /\ t[k] = d
    <3>1. CASE d \in ToSet(s)
      <4>1. PICK k \in 1..Len(s) : s[k] = d
        BY <1>3, <3>1
      <4>2. k \in 1..Len(t) /\ k < Len(s) + 1 /\ t[k] = d
        BY <1>2, <4>1
      <4> QED BY <4>2
    <3> QED BY <3>1
  <2>3. ASSUME NEW i \in 1..Len(t), NEW d \in Known(r) \cap ToSet(r.deps[t[i]])
        PROVE  Needs(r, d, t[i]) \/ \E k \in 1..Len(t) : k < i /\ t[k] = d
    <3>1. CASE i \in 1..Len(s)
      BY <2>1, <3>1
    <3>2. CASE i = Len(s) + 1
      BY <1>2, <2>2, <3>2
    <3> QED BY <1>4, <3>1, <3>2
  <2> QED BY <2>3 DEF Ordered
<1>7. Extends(s, t)
  BY <1>2 DEF Extends
<1> QED BY <1>1, <1>5, <1>6, <1>7

\* The calls for the dependencies of the next job, and the job after them.
LEMMA DepsThenJob ==
  ASSUME NEW r \in Requests, NEW v \in Visits(r), v.left # <<>>, Unseen(r, v), Before(r, v),
         NEW t \in Seq(Known(r)), Before(r, OfDeps(r, v)) => After(r, OfDeps(r, v), t)
  PROVE  /\ Before(r, OfRest(v, Append(t, Head(v.left))))
         /\ Extends(v.sorted, Append(t, Head(v.left)))
         /\ \A i \in 1..Len(t) + 1 :
              Len(v.sorted) < i => Append(t, Head(v.left))[i] \notin v.inProgress
<1>1. PICK h, s, u : h = Head(v.left) /\ s = Append(t, h) /\ u = OfDeps(r, v)
  OBVIOUS
<1>2. /\ v.left \in Seq(Jobs) /\ v.inProgress \subseteq Known(r)
      /\ v.sorted \in Seq(Known(r))
  BY VisitTypes
<1>3. /\ h \in Known(r) /\ h \notin v.inProgress /\ h \notin ToSet(v.sorted)
      /\ h \in ToSet(v.left) /\ ToSet(Tail(v.left)) \subseteq ToSet(v.left)
  BY <1>1, <1>2, HeadAndTail DEF Unseen, Known
<1>4. /\ u.left = r.deps[h] /\ u.inProgress = v.inProgress \cup {h}
      /\ u.sorted = v.sorted
  BY <1>1 DEF OfDeps
<1>5. \A a \in v.inProgress : \A j \in Known(r) \cap ToSet(v.left) : Needs(r, a, j)
  BY DEF Before
<1>6. Before(r, u)
  <2>1. ASSUME NEW a \in u.inProgress, NEW j \in Known(r) \cap ToSet(u.left)
        PROVE  Needs(r, a, j)
    <3>1. CASE a = h
      BY <1>4, <3>1, NeedsDep
    <3>2. CASE a \in v.inProgress
      <4>1. Needs(r, a, h)
        BY <1>3, <1>5, <3>2
      <4> QED BY <1>4, <4>1, NeedsStep
    <3> QED BY <1>4, <3>1, <3>2
  <2> QED BY <1>4, <2>1 DEF Before
<1>7. /\ Injective(t) /\ Ordered(r, t) /\ Extends(v.sorted, t)
      /\ \A i \in 1..Len(t) : Len(v.sorted) < i => t[i] \notin v.inProgress \cup {h}
      /\ Known(r) \cap ToSet(r.deps[h]) \subseteq ToSet(t) \cup v.inProgress \cup {h}
  BY <1>1, <1>4, <1>6 DEF After
<1>8. Len(t) \in Nat /\ ToSet(t) = {t[i] : i \in 1..Len(t)}
  BY Members
<1>9. h \notin ToSet(t)
  <2> SUFFICES ASSUME NEW i \in 1..Len(t), t[i] = h PROVE FALSE
    BY <1>8
  <2>1. Len(v.sorted) < i
    BY <1>2, <1>3, <1>7, ExtendsLater
  <2> QED BY <1>7, <2>1
<1>10. ASSUME NEW d \in Known(r) \cap ToSet(r.deps[h]), d \notin ToSet(t)
       PROVE  Needs(r, d, h)
  <2>1. CASE d = h
    BY <2>1, NeedsDep
  <2>2. CASE d \in v.inProgress
    BY <1>3, <1>5, <2>2
  <2> QED BY <1>7, <1>10, <2>1, <2>2
<1>11. Injective(s) /\ Ordered(r, s) /\ Extends(t, s)
  BY <1>1, <1>3, <1>7, <1>9, <1>10, AppendKeeps
<1>12. /\ Len(s) = Len(t) + 1 /\ s[Len(t) + 1] = h
       /\ \A i \in 1..Len(t) : s[i] = t[i]
  BY <1>1, <1>3, AppendIs
<1>13. Before(r, OfRest(v, s))
  <2>1. /\ OfRest(v, s).left = Tail(v.left) /\ OfRest(v, s).sorted = s
        /\ OfRest(v, s).inProgress = v.inProgress
    BY DEF OfRest
  <2> QED BY <1>3, <1>5, <1>11, <2>1 DEF Before
<1>14. Extends(v.sorted, s)
  <2>1. Len(v.sorted) \in Nat
    BY <1>2
  <2> QED BY <1>7, <1>8, <1>12, <2>1 DEF Extends
<1>15. ASSUME NEW i \in 1..Len(t) + 1, Len(v.sorted) < i
       PROVE  s[i] \notin v.inProgress
  <2>1. CASE i = Len(t) + 1
    BY <1>3, <1>12, <2>1
  <2>2. CASE i \in 1..Len(t)
    BY <1>7, <1>12, <1>15, <2>2
  <2> QED BY <1>8, <2>1, <2>2
<1> QED BY <1>1, <1>13, <1>14, <1>15

\* The calls for the jobs after the next one, with what is sorted by then.
LEMMA RestAfter ==
  ASSUME NEW r \in Requests, NEW v \in Visits(r), v.left # <<>>,
         NEW s \in Seq(Known(r)), Extends(v.sorted, s),
         \A i \in 1..Len(s) : Len(v.sorted) < i => s[i] \notin v.inProgress,
         Head(v.left) \in Known(r) => Head(v.left) \in ToSet(s) \cup v.inProgress,
         NEW t \in Seq(Known(r)), After(r, OfRest(v, s), t)
  PROVE  After(r, v, t)
<1>1. /\ v.left \in Seq(Jobs) /\ v.inProgress \subseteq Known(r)
      /\ v.sorted \in Seq(Known(r))
  BY VisitTypes
<1>2. /\ OfRest(v, s).left = Tail(v.left) /\ OfRest(v, s).sorted = s
      /\ OfRest(v, s).inProgress = v.inProgress
  BY DEF OfRest
<1>3. /\ Injective(t) /\ Ordered(r, t) /\ Extends(s, t)
      /\ \A i \in 1..Len(t) : Len(s) < i => t[i] \notin v.inProgress
      /\ Known(r) \cap ToSet(Tail(v.left)) \subseteq ToSet(t) \cup v.inProgress
  BY <1>2 DEF After
<1>4. Len(v.sorted) \in Nat /\ Len(s) \in Nat /\ Len(t) \in Nat
  BY <1>1
<1>5. Extends(v.sorted, t)
  BY <1>3, <1>4 DEF Extends
<1>6. ASSUME NEW i \in 1..Len(t), Len(v.sorted) < i PROVE t[i] \notin v.inProgress
  <2>1. CASE i \in 1..Len(s)
    BY <1>3, <1>6, <2>1 DEF Extends
  <2>2. CASE Len(s) < i
    BY <1>3, <2>2
  <2> QED BY <1>4, <2>1, <2>2
<1>7. Known(r) \cap ToSet(v.left) \subseteq ToSet(t) \cup v.inProgress
  <2>1. ToSet(v.left) = {Head(v.left)} \cup ToSet(Tail(v.left))
    BY <1>1, HeadAndTail
  <2>2. ToSet(s) \subseteq ToSet(t)
    BY <1>3, ExtendsMembers
  <2> QED BY <1>3, <2>1, <2>2
<1> QED BY <1>3, <1>5, <1>6, <1>7 DEF After

\* An induction over the calls: take one that has the least left to do of those for which
\* this is wrong.
LEMMA VisitedAfter ==
  ASSUME NEW r \in Requests
  PROVE  \A v \in Visits(r) : Before(r, v) => After(r, v, Visited(r)[v])
<1>1. PICK f : f = Visited(r)
  OBVIOUS
<1>2. /\ \A v \in Visits(r) : f[v] \in Seq(Known(r))
      /\ \A v \in Visits(r) : f[v] = Visit(f, r, v)
  BY <1>1, VisitedIs
<1> DEFINE T == {v \in Visits(r) : Before(r, v) /\ ~After(r, v, f[v])}
<1> SUFFICES ASSUME T # {} PROVE FALSE
  BY <1>1
<1>3. PICK v \in T : \A u \in T : <<u, v>> \notin Within(r)
  BY VisitsFounded DEF Founded
<1>4. \A u \in Visits(r) : <<u, v>> \in Within(r) /\ Before(r, u) => After(r, u, f[u])
  BY <1>3
<1>5. v \in Visits(r) /\ Before(r, v) /\ ~After(r, v, f[v]) /\ f[v] = Visit(f, r, v)
  BY <1>2
<1> HIDE DEF T
<1>6. /\ v.left \in Seq(Jobs) /\ v.inProgress \subseteq Known(r)
      /\ v.sorted \in Seq(Known(r)) /\ Len(v.sorted) \in Nat
  BY <1>5, VisitTypes
<1>7. CASE v.left = <<>>
  <2>1. f[v] = v.sorted
    BY <1>5, <1>7 DEF Visit
  <2>2. ToSet(v.left) = {}
    BY <1>7 DEF ToSet
  <2>3. Extends(v.sorted, v.sorted)
    BY <1>6 DEF Extends
  <2>4. \A i \in 1..Len(v.sorted) : ~ (Len(v.sorted) < i)
    BY <1>6
  <2> QED BY <1>5, <2>1, <2>2, <2>3, <2>4 DEF Before, After
<1>8. CASE v.left # <<>> /\ Unseen(r, v)
  <2>1. PICK h, u, t, s : /\ h = Head(v.left) /\ u = OfDeps(r, v) /\ t = f[u]
                          /\ s = Append(t, h)
    OBVIOUS
  <2>2. u \in Visits(r) /\ <<u, v>> \in Within(r)
    BY <1>5, <1>8, <2>1, CallsAreLess
  <2>3. t \in Seq(Known(r)) /\ h \in Known(r)
    BY <1>2, <1>8, <2>1, <2>2 DEF Unseen, Known
  <2>4. s \in Seq(Known(r)) /\ Len(s) = Len(t) + 1 /\ h \in ToSet(s)
    <3>1. /\ s \in Seq(Known(r)) /\ Len(s) = Len(t) + 1 /\ Len(t) \in Nat
          /\ s[Len(t) + 1] = h
      BY <2>1, <2>3, AppendIs
    <3>2. ToSet(s) = {s[i] : i \in 1..Len(s)}
      BY <3>1, Members
    <3> QED BY <3>1, <3>2
  <2>5. PICK w : w = OfRest(v, s)
    OBVIOUS
  <2>6. w \in Visits(r) /\ <<w, v>> \in Within(r)
    BY <1>5, <1>8, <2>4, <2>5, CallsAreLess
  <2>7. f[v] = f[w]
    BY <1>5, <1>8, <2>1, <2>5 DEF Visit
  <2>8. Before(r, u) => After(r, u, t)
    BY <1>4, <2>1, <2>2
  <2>9. /\ Before(r, w) /\ Extends(v.sorted, s)
        /\ \A i \in 1..Len(s) : Len(v.sorted) < i => s[i] \notin v.inProgress
    BY <1>5, <1>8, <2>1, <2>3, <2>4, <2>5, <2>8, DepsThenJob
  <2>10. After(r, w, f[w]) /\ f[w] \in Seq(Known(r))
    BY <1>2, <1>4, <2>6, <2>9
  <2>11. After(r, v, f[w])
    BY <1>5, <1>8, <2>1, <2>4, <2>5, <2>9, <2>10, RestAfter
  <2> QED BY <1>5, <2>7, <2>11
<1>9. CASE v.left # <<>> /\ ~Unseen(r, v)
  <2>1. PICK s, w : s = v.sorted /\ w = OfRest(v, s)
    OBVIOUS
  <2>2. w \in Visits(r) /\ <<w, v>> \in Within(r)
    BY <1>5, <1>6, <1>9, <2>1, CallsAreLess
  <2>3. f[v] = f[w]
    BY <1>5, <1>9, <2>1 DEF Visit
  <2>4. Before(r, w)
    <3>1. ToSet(Tail(v.left)) \subseteq ToSet(v.left)
      BY <1>6, <1>9, HeadAndTail
    <3>2. w.left = Tail(v.left) /\ w.sorted = s /\ w.inProgress = v.inProgress
      BY <2>1 DEF OfRest
    <3> QED BY <1>5, <2>1, <3>1, <3>2 DEF Before
  <2>5. After(r, w, f[w]) /\ f[w] \in Seq(Known(r))
    BY <1>2, <1>4, <2>2, <2>4
  <2>6. Extends(v.sorted, s) /\ \A i \in 1..Len(s) : ~ (Len(v.sorted) < i)
    BY <1>6, <2>1 DEF Extends
  <2>7. Head(v.left) \in Known(r) => Head(v.left) \in ToSet(s) \cup v.inProgress
    BY <1>9, <2>1 DEF Unseen, Known
  <2>8. After(r, v, f[w])
    BY <1>5, <1>6, <1>9, <2>1, <2>5, <2>6, <2>7, RestAfter
  <2> QED BY <1>5, <2>3, <2>8
<1> QED BY <1>7, <1>8, <1>9

\* The jobs in their order: every job once, and after the jobs it depends on.
LEMMA SortedIs ==
  ASSUME NEW r \in Requests
  PROVE  /\ Sorted(r) \in Seq(Known(r)) /\ ToSet(Sorted(r)) = Known(r)
         /\ Injective(Sorted(r)) /\ Ordered(r, Sorted(r))
<1>1. PICK v : v = [left |-> r.jobs, inProgress |-> {}, sorted |-> <<>>]
  OBVIOUS
<1>2. v \in Visits(r)
  BY <1>1, RequestTypes, EmptySeq DEF Visits
<1>3. Before(r, v)
  BY <1>1 DEF Before, Injective, Ordered
<1>4. PICK t : t = Sorted(r)
  OBVIOUS
<1>5. t = Visited(r)[v]
  BY <1>1, <1>4 DEF Sorted
<1>6. t \in Seq(Known(r)) /\ After(r, v, t)
  BY <1>2, <1>3, <1>5, VisitedIs, VisitedAfter
<1>7. Known(r) \subseteq ToSet(t)
  <2>1. Known(r) \cap ToSet(v.left) \subseteq ToSet(t) \cup v.inProgress
    BY <1>6 DEF After
  <2> QED BY <1>1, <2>1 DEF Known
<1>8. ToSet(t) \subseteq Known(r)
  BY <1>6, Members
<1> QED BY <1>4, <1>6, <1>7, <1>8 DEF After

\* topologicalSort makes no exception unless there is a cycle: where no job depends on itself,
\* every job comes after all the jobs of the list it depends on.
THEOREM AcyclicInOrder ==
  ASSUME NEW r \in Requests, \A j \in ToSet(r.jobs) : ~Needs(r, j, j)
  PROVE  \A i \in 1..Len(Sorted(r)) :
           \A d \in ToSet(r.jobs) \cap ToSet(r.deps[Sorted(r)[i]]) :
             \E k \in 1..Len(Sorted(r)) : k < i /\ Sorted(r)[k] = d
<1> SUFFICES ASSUME NEW i \in 1..Len(Sorted(r)),
                    NEW d \in Known(r) \cap ToSet(r.deps[Sorted(r)[i]])
             PROVE  \E k \in 1..Len(Sorted(r)) : k < i /\ Sorted(r)[k] = d
  BY DEF Known
<1>1. Needs(r, d, Sorted(r)[i]) \/ \E k \in 1..Len(Sorted(r)) : k < i /\ Sorted(r)[k] = d
  BY SortedIs DEF Ordered
<1>2. Needs(r, d, Sorted(r)[i]) => Needs(r, d, d)
  BY NeedsStep
<1> QED BY <1>1, <1>2 DEF Known

-----------------------------------------------------------------------------
(* The inductive invariant.                                                *)

Held(c) == coords[c].pc \in {"waiting", "register", "rejected"}
Over == {"completed", "cancelled"}

NoRequest == [jobs |-> <<>>, deps |-> [j \in Jobs |-> <<>>]]

Coordinations ==
  [pc : {"new", "waiting", "register", "resolved", "rejected"}, order : Seq(Jobs),
   at : Nat, request : Requests \cup {NoRequest}]

Shape ==
  executingJobs \in [Jobs -> Statuses \cup {None}] /\ coords \in [Coords -> Coordinations]

\* A coordination has the jobs of its request in their order, and is held up by one with
\* dependencies only.
Listed(c) ==
  coords[c].pc # "new" =>
    /\ coords[c].request \in Requests /\ coords[c].order = Sorted(coords[c].request)
    /\ coords[c].at \in 1..Len(coords[c].order) + 1
    /\ Held(c) => coords[c].at <= Len(coords[c].order) /\ DepsOf(c) # <<>>

\* It has let in those before the one it is at, and that one when its wait is over.
LetIn(c, i) ==
  \/ i < coords[c].at
  \/ i = coords[c].at /\ coords[c].pc = "register"

\* The i-th job of c depends on the k-th, which comes before it.
Earlier(c, k, i) ==
  k < i /\ coords[c].order[k] \in ToSet(coords[c].request.deps[coords[c].order[i]])

\* Apart from the others, what it has registered stays registered, and what the jobs let in
\* depend on is over.
Passed(c) ==
  coords[c].pc # "new" /\ Apart(c) =>
    \A i \in 1..Len(coords[c].order) :
      /\ i < coords[c].at => executingJobs[coords[c].order[i]] # None
      /\ LetIn(c, i) => \A k \in 1..Len(coords[c].order) :
                          Earlier(c, k, i) => executingJobs[coords[c].order[k]] \in Over

CoordInv == Shape /\ \A c \in Coords : Listed(c) /\ Passed(c)

-----------------------------------------------------------------------------
(* Proceed, from first to the job it stops at.                             *)

Proceeded(c, r, first, stop) ==
  LET order == Sorted(r)
      n     == Len(order)
  IN /\ \A i \in 1..n : first < i /\ i < stop => r.deps[order[i]] = <<>>
     /\ stop <= n => r.deps[order[stop]] # <<>>
     /\ executingJobs' \in [Jobs -> Statuses \cup {None}]
     /\ \A i \in 1..n : first <= i /\ i < stop => executingJobs'[order[i]] = "pending"
     /\ \A i \in 1..n : i < first => executingJobs'[order[i]] = executingJobs[order[i]]
     /\ \A j \in Jobs \ Known(r) : executingJobs'[j] = executingJobs[j]
     /\ coords' \in [Coords -> Coordinations]
     /\ \A b \in Coords : b # c => coords'[b] = coords[b]
     /\ coords'[c].order = order /\ coords'[c].at = stop /\ coords'[c].request = r
     /\ coords'[c].pc \in {"resolved", "waiting", "register"}
     /\ coords'[c].pc \in {"waiting", "register"} => stop <= n
     /\ coords'[c].pc = "register" => ~Blocked(r.deps[order[stop]], executingJobs')

LEMMA ProceedIs ==
  ASSUME Shape, NEW c \in Coords, NEW r \in Requests, NEW first \in Nat,
         first <= Len(Sorted(r)), Proceed(c, Sorted(r), r, first)
  PROVE  \E stop \in Nat : /\ first < stop /\ stop <= Len(Sorted(r)) + 1
                           /\ Proceeded(c, r, first, stop)
<1> DEFINE order == Sorted(r)
           waits == {i \in DOMAIN order : i > first /\ r.deps[order[i]] # <<>>}
           least == IF waits = {} THEN Len(order) + 1
                    ELSE CHOOSE i \in waits : \A k \in waits : i <= k
<1> HIDE DEF order, waits, least
<1>1. /\ order \in Seq(Known(r)) /\ order \in Seq(Jobs) /\ Injective(order)
      /\ DOMAIN order = 1..Len(order) /\ Len(order) \in Nat
      /\ \A i \in 1..Len(order) : order[i] \in Jobs /\ order[i] \in Known(r)
  <2>1. order \in Seq(Known(r)) /\ Injective(order) /\ Known(r) \subseteq Jobs
    BY SortedIs, RequestTypes DEF order
  <2> QED BY <2>1
<1>2. waits = {i \in 1..Len(order) : i > first /\ r.deps[order[i]] # <<>>}
  BY <1>1 DEF waits
<1>3. /\ least \in Nat /\ first < least /\ least <= Len(order) + 1
      /\ least <= Len(order) => least \in waits
      /\ \A k \in waits : least <= k
  <2>1. CASE waits = {}
    BY <1>1, <2>1 DEF least, order
  <2>2. CASE waits # {}
    <3>1. waits \in SUBSET Nat
      BY <1>1, <1>2
    <3>2. \E i \in waits : \A k \in waits : i <= k
      BY <2>2, <3>1, LeastNumber
    <3>3. least \in waits /\ \A k \in waits : least <= k
      BY <2>2, <3>2 DEF least
    <3> QED BY <1>1, <1>2, <3>1, <3>3
  <2> QED BY <2>1, <2>2
<1>4. PICK stop \in Nat : stop = least
  BY <1>3
<1>5. PICK jobs : jobs = [j \in Jobs |->
                            IF \E i \in DOMAIN order : order[i] = j /\ first <= i /\ i < stop
                            THEN "pending" ELSE executingJobs[j]]
  OBVIOUS
<1>6. PICK rec : rec = [pc    |-> IF stop > Len(order) THEN "resolved"
                                  ELSE IF Blocked(r.deps[order[stop]], jobs) THEN "waiting"
                                  ELSE "register",
                        order |-> order, at |-> stop, request |-> r]
  OBVIOUS
<1>7. executingJobs' = jobs /\ coords' = [coords EXCEPT ![c] = rec]
  <2>1. Proceed(c, order, r, first)
    BY DEF order
  <2>2. executingJobs' = [j \in Jobs |->
                            IF \E i \in DOMAIN order : order[i] = j /\ first <= i /\ i < least
                            THEN "pending" ELSE executingJobs[j]]
    BY <2>1 DEF Proceed, least, waits
  <2>3. coords' = [coords EXCEPT ![c] =
          [pc    |-> IF least > Len(order) THEN "resolved"
                     ELSE IF Blocked(r.deps[order[least]], executingJobs') THEN "waiting"
                     ELSE "register",
           order |-> order, at |-> least, request |-> r]]
    BY <2>1 DEF Proceed, least, waits
  <2> QED BY <1>4, <1>5, <1>6, <2>2, <2>3
<1>8. /\ \A i \in 1..Len(order) : first < i /\ i < stop => r.deps[order[i]] = <<>>
      /\ stop <= Len(order) => r.deps[order[stop]] # <<>>
  BY <1>1, <1>2, <1>3, <1>4
<1>9. executingJobs' \in [Jobs -> Statuses \cup {None}]
  BY <1>5, <1>7 DEF Shape, Statuses
<1>10. \A i \in 1..Len(order) : first <= i /\ i < stop => executingJobs'[order[i]] = "pending"
  BY <1>1, <1>5, <1>7
<1>11. ASSUME NEW i \in 1..Len(order), i < first
       PROVE  executingJobs'[order[i]] = executingJobs[order[i]]
  <2>1. ASSUME NEW k \in 1..Len(order), order[k] = order[i], first <= k PROVE FALSE
    <3>1. k = i
      BY <1>1, <2>1 DEF Injective
    <3> QED BY <1>11, <2>1, <3>1
  <2> QED BY <1>1, <1>5, <1>7, <2>1
<1>12. /\ rec.order = order /\ rec.at = stop /\ rec.request = r
       /\ rec.pc \in {"resolved", "waiting", "register"}
       /\ rec.pc \in {"waiting", "register"} => stop <= Len(order)
       /\ rec.pc = "register" => ~Blocked(r.deps[order[stop]], jobs)
  BY <1>1, <1>6
<1>13. rec \in Coordinations
  BY <1>1, <1>6 DEF Coordinations
<1>14. /\ coords' \in [Coords -> Coordinations] /\ coords'[c] = rec
       /\ \A b \in Coords : b # c => coords'[b] = coords[b]
  BY <1>7, <1>13 DEF Shape
<1>15. \A j \in Jobs \ Known(r) : executingJobs'[j] = executingJobs[j]
  BY <1>1, <1>5, <1>7
<1>16. Proceeded(c, r, first, stop)
  BY <1>7, <1>8, <1>9, <1>10, <1>11, <1>12, <1>14, <1>15 DEF Proceeded, order
<1> QED BY <1>3, <1>4, <1>16 DEF order

\* Either the beginning of a coordination, or its next job after a wait.
LEMMA ProceedKeeps ==
  ASSUME CoordInv, NEW c \in Coords, NEW r \in Requests, NEW first \in Nat,
         first <= Len(Sorted(r)), Proceed(c, Sorted(r), r, first),
         \/ coords[c].pc = "new" /\ first = 0
         \/ coords[c].pc = "register" /\ r = coords[c].request /\ first = coords[c].at
  PROVE  CoordInv'
<1>1. Shape /\ \A b \in Coords : Listed(b) /\ Passed(b)
  BY DEF CoordInv
<1>2. PICK stop \in Nat : /\ first < stop /\ stop <= Len(Sorted(r)) + 1
                          /\ Proceeded(c, r, first, stop)
  BY <1>1, ProceedIs
<1>3. PICK order, n : order = Sorted(r) /\ n = Len(order)
  OBVIOUS
<1>4. order \in Seq(Known(r)) /\ n \in Nat /\ \A i \in 1..n : order[i] \in Jobs
  BY <1>3, SortedIs, RequestTypes
<1>5. /\ \A i \in 1..n : first < i /\ i < stop => r.deps[order[i]] = <<>>
      /\ stop <= n => r.deps[order[stop]] # <<>>
      /\ \A i \in 1..n : first <= i /\ i < stop => executingJobs'[order[i]] = "pending"
      /\ \A i \in 1..n : i < first => executingJobs'[order[i]] = executingJobs[order[i]]
      /\ \A j \in Jobs \ Known(r) : executingJobs'[j] = executingJobs[j]
      /\ \A b \in Coords : b # c => coords'[b] = coords[b]
      /\ coords'[c].order = order /\ coords'[c].at = stop /\ coords'[c].request = r
      /\ coords'[c].pc \in {"resolved", "waiting", "register"}
      /\ coords'[c].pc \in {"waiting", "register"} => stop <= n
      /\ coords'[c].pc = "register" => ~Blocked(r.deps[order[stop]], executingJobs')
  BY <1>2, <1>3 DEF Proceeded
<1>6. Shape'
  BY <1>2 DEF Proceeded, Shape
<1>7. first < stop /\ stop <= n + 1
  BY <1>2, <1>3
<1>8. Listed(c)'
  BY <1>3, <1>4, <1>5, <1>7 DEF Listed, Held, DepsOf
<1>9. ASSUME NEW b \in Coords, b # c PROVE Listed(b)'
  BY <1>1, <1>5, <1>9 DEF Listed, Held, DepsOf
<1>10. ASSUME NEW b \in Coords, b # c PROVE Passed(b)'
  <2> SUFFICES ASSUME coords[b].pc # "new", Apart(b)' PROVE Passed(b)'
    BY <1>5, <1>10 DEF Passed
  <2>1. PICK q : q = coords[b].request
    OBVIOUS
  <2>2. /\ q \in Requests /\ coords[b].order = Sorted(q)
        /\ coords'[b] = coords[b]
    BY <1>1, <1>5, <1>10, <2>1 DEF Listed
  <2>3. Known(q) \cap Known(r) = {}
    BY <1>5, <1>10, <2>1, <2>2 DEF Apart, Known
  <2>4. \A i \in 1..Len(coords[b].order) :
          executingJobs'[coords[b].order[i]] = executingJobs[coords[b].order[i]]
    <3>1. Sorted(q) \in Seq(Known(q)) /\ Known(q) \subseteq Jobs
      BY <2>2, SortedIs, RequestTypes
    <3>2. \A i \in 1..Len(Sorted(q)) : Sorted(q)[i] \in Jobs \ Known(r)
      BY <2>3, <3>1
    <3> QED BY <1>5, <2>2, <3>2
  <2>5. Apart(b)
    BY <1>5, <1>10, <2>2 DEF Apart
  <2>6. \A i, k : (LetIn(b, i)' <=> LetIn(b, i)) /\ (Earlier(b, k, i)' <=> Earlier(b, k, i))
    BY <2>2 DEF LetIn, Earlier
  <2> QED BY <1>1, <2>2, <2>4, <2>5, <2>6 DEF Passed
<1>11. Passed(c)'
  <2> SUFFICES ASSUME Apart(c)', NEW i \in 1..n
               PROVE  /\ i < stop => executingJobs'[order[i]] # None
                      /\ LetIn(c, i)' => \A k \in 1..n :
                           Earlier(c, k, i)' => executingJobs'[order[k]] \in Over
    BY <1>3, <1>5 DEF Passed
  <2>1. coords[c].pc = "register" => Apart(c)
    BY <1>5 DEF Apart
  <2>2. ASSUME NEW k \in 1..n, k <= first, coords[c].pc = "register"
        PROVE  /\ k < first => executingJobs[order[k]] # None
               /\ \A m \in 1..n : m < k /\ order[m] \in ToSet(r.deps[order[k]]) =>
                    executingJobs[order[m]] \in Over
    <3>1. r = coords[c].request /\ first = coords[c].at
      BY <2>2
    <3>2. coords[c].order = order
      BY <1>1, <1>3, <2>2, <3>1 DEF Listed
    <3>3. /\ k < first => executingJobs[order[k]] # None
          /\ LetIn(c, k) => \A m \in 1..n :
               Earlier(c, m, k) => executingJobs[order[m]] \in Over
      BY <1>1, <1>3, <2>1, <2>2, <3>1, <3>2 DEF Passed
    <3>4. LetIn(c, k)
      BY <1>4, <2>2, <3>1 DEF LetIn
    <3> QED BY <3>1, <3>2, <3>3, <3>4 DEF Earlier
  <2>3. ASSUME NEW k \in 1..n, k < stop PROVE executingJobs'[order[k]] # None
    <3>1. CASE k < first
      <4>1. coords[c].pc = "register"
        BY <1>4, <3>1
      <4> QED BY <1>4, <1>5, <2>2, <3>1, <4>1
    <3>2. CASE first <= k
      BY <1>5, <2>3, <3>2 DEF None
    <3> QED BY <1>4, <3>1, <3>2
  <2>4. ASSUME LetIn(c, i)', NEW k \in 1..n, Earlier(c, k, i)'
        PROVE  executingJobs'[order[k]] \in Over
    <3>1. k < i /\ order[k] \in ToSet(r.deps[order[i]])
      BY <1>5, <2>4 DEF Earlier
    <3>2. \/ i < stop
          \/ i = stop /\ coords'[c].pc = "register"
      BY <1>5, <2>4 DEF LetIn
    <3>3. CASE i <= first
      <4>1. coords[c].pc = "register"
        BY <1>4, <3>3
      <4>2. executingJobs[order[k]] \in Over
        BY <1>4, <2>2, <3>1, <3>3, <4>1
      <4>3. k < first
        BY <1>4, <3>1, <3>3
      <4> QED BY <1>5, <4>2, <4>3
    <3>4. CASE first < i /\ i < stop
      <4>1. r.deps[order[i]] = <<>>
        BY <1>5, <3>4
      <4> QED BY <3>1, <4>1 DEF ToSet
    <3>5. CASE i = stop /\ coords'[c].pc = "register"
      <4>1. executingJobs'[order[k]] \in {None, "completed"}
        BY <1>5, <3>1, <3>5 DEF Blocked
      <4>2. executingJobs'[order[k]] # None
        BY <1>4, <2>3, <3>1, <3>5
      <4> QED BY <4>1, <4>2 DEF Over
    <3> QED BY <1>4, <3>2, <3>3, <3>4, <3>5
  <2> QED BY <2>3, <2>4
<1> QED BY <1>6, <1>8, <1>9, <1>10, <1>11 DEF CoordInv

-----------------------------------------------------------------------------
(* The actions.                                                            *)

LEMMA InitCoord == Init => CoordInv
<1> SUFFICES ASSUME Init PROVE CoordInv
  OBVIOUS
<1>1. /\ executingJobs = [j \in Jobs |-> None]
      /\ coords = [c \in Coords |->
           [pc |-> "new", order |-> <<>>, at |-> 0, request |-> NoRequest]]
  BY DEF Init, NoRequest
<1>2. [pc |-> "new", order |-> <<>>, at |-> 0, request |-> NoRequest] \in Coordinations
  BY EmptySeq DEF Coordinations
<1>3. Shape
  BY <1>1, <1>2 DEF Shape
<1>4. \A c \in Coords : coords[c].pc = "new"
  BY <1>1
<1> QED BY <1>3, <1>4 DEF CoordInv, Listed, Passed

LEMMA CoordinateJobsKeeps ==
  ASSUME CoordInv, NEW c \in Coords, NEW r \in Requests, CoordinateJobs(c, r)
  PROVE  CoordInv'
<1>1. coords[c].pc = "new" /\ Proceed(c, Sorted(r), r, 0)
  BY DEF CoordinateJobs
<1>2. 0 \in Nat /\ 0 <= Len(Sorted(r))
  <2>1. Len(Sorted(r)) \in Nat
    BY SortedIs
  <2> QED BY <2>1
<1> QED BY <1>1, <1>2, ProceedKeeps

LEMMA RegisterKeeps ==
  ASSUME CoordInv, NEW c \in Coords, Register(c)
  PROVE  CoordInv'
<1>1. coords[c].pc = "register" /\ Listed(c) /\ coords[c] \in Coordinations
  BY DEF Register, CoordInv, Shape
<1>2. PICK r, first : r = coords[c].request /\ first = coords[c].at
  OBVIOUS
<1>3. /\ r \in Requests /\ coords[c].order = Sorted(r) /\ first \in Nat
      /\ first <= Len(Sorted(r))
  BY <1>1, <1>2 DEF Listed, Held, Coordinations
<1>4. Proceed(c, Sorted(r), r, first)
  BY <1>2, <1>3 DEF Register
<1> QED BY <1>1, <1>2, <1>3, <1>4, ProceedKeeps

\* Poll and Timeout: a held coordination goes on to register, or gives up.
LEMMA GoToKeeps ==
  ASSUME CoordInv, NEW c \in Coords, coords[c].pc = "waiting",
         NEW pc \in {"register", "rejected"}, GoTo(c, pc),
         pc = "register" => ~Blocked(DepsOf(c), executingJobs)
  PROVE  CoordInv'
<1>1. Shape /\ \A b \in Coords : Listed(b) /\ Passed(b)
  BY DEF CoordInv
<1>2. executingJobs' = executingJobs /\ coords' = [coords EXCEPT ![c].pc = pc]
  BY DEF GoTo
<1>3. PICK s : s = coords[c]
  OBVIOUS
<1>4. s \in Coordinations /\ coords[c] = s
  BY <1>1, <1>3 DEF Shape
<1>5. /\ coords' = [coords EXCEPT ![c] = [s EXCEPT !.pc = pc]]
      /\ [s EXCEPT !.pc = pc] \in Coordinations
  BY <1>2, <1>4 DEF Coordinations
<1>6. /\ coords' \in [Coords -> Coordinations]
      /\ coords'[c] = [s EXCEPT !.pc = pc]
      /\ \A b \in Coords : b # c => coords'[b] = coords[b]
  BY <1>1, <1>5 DEF Shape
<1>7. /\ coords'[c].pc = pc /\ coords'[c].order = coords[c].order
      /\ coords'[c].at = coords[c].at /\ coords'[c].request = coords[c].request
  BY <1>4, <1>6 DEF Coordinations
<1>8. Shape'
  BY <1>1, <1>2, <1>6 DEF Shape
<1>9. Listed(c)'
  BY <1>1, <1>7 DEF Listed, Held, DepsOf
<1>10. ASSUME NEW b \in Coords, b # c PROVE Listed(b)' /\ Passed(b)'
  <2>1. coords'[b] = coords[b]
    BY <1>6, <1>10
  <2>2. Listed(b)'
    BY <1>1, <2>1 DEF Listed, Held, DepsOf
  <2>3. Apart(b)' => Apart(b)
    BY <1>6, <1>7, <2>1 DEF Apart
  <2>4. \A i, k : (LetIn(b, i)' <=> LetIn(b, i)) /\ (Earlier(b, k, i)' <=> Earlier(b, k, i))
    BY <2>1 DEF LetIn, Earlier
  <2>5. Passed(b)'
    BY <1>1, <1>2, <2>1, <2>3, <2>4 DEF Passed
  <2> QED BY <2>2, <2>5
<1>11. Passed(c)'
  <2>1. PICK order, r, at : /\ order = coords[c].order /\ r = coords[c].request
                            /\ at = coords[c].at
    OBVIOUS
  <2>2. at \in 1..Len(order) /\ Len(order) \in Nat
    BY <1>1, <1>4, <2>1 DEF Listed, Held, Coordinations
  <2> SUFFICES ASSUME Apart(c)', NEW i \in 1..Len(order)
               PROVE  /\ i < at => executingJobs[order[i]] # None
                      /\ LetIn(c, i)' => \A k \in 1..Len(order) :
                           Earlier(c, k, i)' => executingJobs[order[k]] \in Over
    BY <1>2, <1>7, <2>1 DEF Passed
  <2>3. Apart(c)
    BY <1>6, <1>7 DEF Apart
  <2>4. \A k \in 1..Len(order) :
          /\ k < at => executingJobs[order[k]] # None
          /\ k < at => \A m \in 1..Len(order) :
               Earlier(c, m, k) => executingJobs[order[m]] \in Over
    BY <1>1, <2>1, <2>3 DEF Passed, LetIn
  <2>5. ASSUME LetIn(c, i)', NEW k \in 1..Len(order), Earlier(c, k, i)'
        PROVE  executingJobs[order[k]] \in Over
    <3>1. Earlier(c, k, i) /\ k < i /\ order[k] \in ToSet(r.deps[order[i]])
      BY <1>7, <2>1, <2>5 DEF Earlier
    <3>2. \/ i < at
          \/ i = at /\ pc = "register"
      BY <1>7, <2>1, <2>5 DEF LetIn
    <3>3. CASE i < at
      BY <2>4, <3>1, <3>3
    <3>4. CASE i = at /\ pc = "register"
      <4>1. executingJobs[order[k]] \in {None, "completed"}
        BY <2>1, <3>1, <3>4 DEF Blocked, DepsOf
      <4>2. executingJobs[order[k]] # None
        BY <2>4, <3>1, <3>4
      <4> QED BY <4>1, <4>2 DEF Over
    <3> QED BY <3>2, <3>3, <3>4
  <2> QED BY <2>4, <2>5
<1> QED BY <1>8, <1>9, <1>10, <1>11 DEF CoordInv

\* Neither a report nor the cancellation of all jobs takes back what is registered, or over.
LEMMA ReportKeeps ==
  ASSUME CoordInv, UNCHANGED coords, executingJobs' \in [Jobs -> Statuses \cup {None}],
         \A j \in Jobs : /\ executingJobs[j] # None => executingJobs'[j] # None
                         /\ executingJobs[j] \in Over => executingJobs'[j] \in Over
  PROVE  CoordInv'
<1>1. Shape /\ \A c \in Coords : Listed(c) /\ Passed(c)
  BY DEF CoordInv
<1>2. Shape'
  BY <1>1 DEF Shape
<1>3. ASSUME NEW c \in Coords PROVE Listed(c)' /\ Passed(c)'
  <2>1. Listed(c)'
    BY <1>1 DEF Listed, Held, DepsOf
  <2>2. \A i \in 1..Len(coords[c].order) : coords[c].order[i] \in Jobs
    BY <1>1 DEF Shape, Coordinations
  <2>3. Apart(c)' <=> Apart(c)
    BY DEF Apart
  <2>4. \A i, k : (LetIn(c, i)' <=> LetIn(c, i)) /\ (Earlier(c, k, i)' <=> Earlier(c, k, i))
    BY DEF LetIn, Earlier
  <2>5. Passed(c)'
    <3> SUFFICES ASSUME coords[c].pc # "new", Apart(c), NEW i \in 1..Len(coords[c].order)
                 PROVE  /\ i < coords[c].at => executingJobs'[coords[c].order[i]] # None
                        /\ LetIn(c, i) => \A k \in 1..Len(coords[c].order) :
                             Earlier(c, k, i) => executingJobs'[coords[c].order[k]] \in Over
      BY <2>3, <2>4 DEF Passed
    <3>1. /\ i < coords[c].at => executingJobs[coords[c].order[i]] # None
          /\ LetIn(c, i) => \A k \in 1..Len(coords[c].order) :
               Earlier(c, k, i) => executingJobs[coords[c].order[k]] \in Over
      BY <1>1 DEF Passed
    <3> QED BY <2>2, <3>1
  <2> QED BY <2>1, <2>5
<1> QED BY <1>2, <1>3 DEF CoordInv

LEMMA NextCoord == CoordInv /\ [Next]_vars => CoordInv'
<1> SUFFICES ASSUME CoordInv, [Next]_vars PROVE CoordInv'
  OBVIOUS
<1>0. executingJobs \in [Jobs -> Statuses \cup {None}]
  BY DEF CoordInv, Shape
<1>1. ASSUME NEW c \in Coords, NEW r \in Requests, CoordinateJobs(c, r) PROVE CoordInv'
  BY <1>1, CoordinateJobsKeeps
<1>2. ASSUME NEW c \in Coords, Poll(c) PROVE CoordInv'
  BY <1>2, GoToKeeps DEF Poll
<1>3. ASSUME NEW c \in Coords, Register(c) PROVE CoordInv'
  BY <1>3, RegisterKeeps
<1>4. ASSUME NEW c \in Coords, Timeout(c) PROVE CoordInv'
  BY <1>4, GoToKeeps DEF Timeout
<1>5. ASSUME NEW j \in Jobs, NEW s \in Statuses, UpdateJobStatus(j, s) PROVE CoordInv'
  <2>1. /\ executingJobs' = [executingJobs EXCEPT ![j] = s] /\ UNCHANGED coords
        /\ executingJobs[j] \notin Ended \cup {None}
    BY <1>5 DEF UpdateJobStatus
  <2>2. executingJobs' \in [Jobs -> Statuses \cup {None}]
    BY <1>0, <2>1
  <2>3. \A i \in Jobs : /\ executingJobs[i] # None => executingJobs'[i] # None
                        /\ executingJobs[i] \in Over => executingJobs'[i] \in Over
    BY <1>0, <2>1 DEF Ended, Over, Statuses, None
  <2> QED BY <2>1, <2>2, <2>3, ReportKeeps
<1>6. ASSUME CancelAllInCoordination PROVE CoordInv'
  <2>1. /\ executingJobs' = [i \in Jobs |-> IF executingJobs[i] = None THEN None
                                           ELSE "cancelled"]
        /\ UNCHANGED coords
    BY <1>6 DEF CancelAllInCoordination
  <2>2. executingJobs' \in [Jobs -> Statuses \cup {None}]
    BY <2>1 DEF Statuses
  <2>3. \A i \in Jobs : /\ executingJobs[i] # None => executingJobs'[i] # None
                        /\ executingJobs[i] \in Over => executingJobs'[i] \in Over
    BY <2>1 DEF Over, None
  <2> QED BY <2>1, <2>2, <2>3, ReportKeeps
<1>7. ASSUME UNCHANGED vars PROVE CoordInv'
  BY <1>0, <1>7, ReportKeeps DEF vars
<1> QED BY <1>1, <1>2, <1>3, <1>4, <1>5, <1>6, <1>7 DEF Next

THEOREM CoordinatorInvariant == Spec => []CoordInv
<1> QED BY InitCoord, NextCoord, PTL DEF Spec

-----------------------------------------------------------------------------
(* The properties.                                                         *)

\* Every variable keeps its type, and coordinateJobs is held up only by a job of its list
\* that has dependencies.
THEOREM CoordinatorTypeCorrect == Spec => []TypeOK
<1>1. CoordInv => TypeOK
  <2> SUFFICES ASSUME CoordInv PROVE TypeOK
    OBVIOUS
  <2>1. executingJobs \in [Jobs -> Statuses \cup {None}]
    BY DEF CoordInv, Shape
  <2>2. ASSUME NEW c \in Coords, coords[c].pc \in {"waiting", "register", "rejected"}
        PROVE  coords[c].at \in DOMAIN coords[c].order /\ DepsOf(c) # <<>>
    <3>1. /\ coords[c].at \in 1..Len(coords[c].order) + 1
          /\ coords[c].at <= Len(coords[c].order) /\ DepsOf(c) # <<>>
      BY <2>2 DEF CoordInv, Listed, Held
    <3>2. DOMAIN coords[c].order = 1..Len(coords[c].order) /\ Len(coords[c].order) \in Nat
      BY DEF CoordInv, Shape, Coordinations
    <3> QED BY <3>1, <3>2
  <2>3. \A c \in Coords :
          coords[c].pc \in {"new", "waiting", "register", "resolved", "rejected"}
    BY DEF CoordInv, Shape, Coordinations
  <2> QED BY <2>1, <2>2, <2>3 DEF TypeOK
<1> QED BY <1>1, CoordinatorInvariant, PTL

\* What coordinateJobs works through is a topological order of its jobs: each of them once,
\* and after each job it depends on, whatever the dependencies are (cycles apart).
THEOREM OrderAlwaysRight == Spec => []OrderRespectsDeps
<1>1. CoordInv => OrderRespectsDeps
  <2> SUFFICES ASSUME CoordInv, NEW c \in Coords, coords[c].pc # "new",
                      NEW j \in ToSet(coords[c].request.jobs)
               PROVE  LET r == coords[c].request
                          Place(i) == {k \in DOMAIN coords[c].order : coords[c].order[k] = i}
                      IN /\ \E i \in DOMAIN coords[c].order : Place(j) = {i}
                         /\ \A d \in ToSet(r.jobs) \cap ToSet(r.deps[j]) :
                              ~Needs(r, d, j) => \A i \in Place(j), k \in Place(d) : k < i
    BY DEF OrderRespectsDeps
  <2>1. PICK r, s : r = coords[c].request /\ s = coords[c].order
    OBVIOUS
  <2>2. r \in Requests /\ s = Sorted(r) /\ j \in Known(r)
    BY <2>1 DEF CoordInv, Listed, Known
  <2>3. /\ s \in Seq(Known(r)) /\ ToSet(s) = Known(r) /\ Injective(s) /\ Ordered(r, s)
    BY <2>2, SortedIs
  <2>4. /\ DOMAIN s = 1..Len(s) /\ Len(s) \in Nat /\ ToSet(s) = {s[i] : i \in 1..Len(s)}
    BY <2>3, Members
  <2>5. PICK i \in 1..Len(s) : s[i] = j
    BY <2>2, <2>3, <2>4
  <2>6. {k \in DOMAIN s : s[k] = j} = {i}
    BY <2>3, <2>4, <2>5 DEF Injective
  <2>7. ASSUME NEW d \in Known(r) \cap ToSet(r.deps[j]), ~Needs(r, d, j),
               NEW k \in 1..Len(s), s[k] = d
        PROVE  k < i
    <3>1. PICK m \in 1..Len(s) : m < i /\ s[m] = d
      BY <2>3, <2>5, <2>7 DEF Ordered
    <3>2. m = k
      BY <2>3, <2>7, <3>1 DEF Injective
    <3> QED BY <3>1, <3>2
  <2> QED BY <2>1, <2>4, <2>6, <2>7 DEF Known
<1> QED BY <1>1, CoordinatorInvariant, PTL

\* waitForDependencies: a coordination that has jobs of its own registers a job when those it
\* depends on that were registered before it are completed, however its polls, the reports,
\* the cancellation and other coordinations interleave.
THEOREM DependenciesAlwaysFirst == Spec => []DependenciesFirst
<1>1. CoordInv => DependenciesFirst
  <2> SUFFICES ASSUME CoordInv, NEW c \in Coords, coords[c].pc # "new", Apart(c),
                      NEW i \in DOMAIN coords[c].order, NEW k \in DOMAIN coords[c].order,
                      k < i, i < coords[c].at,
                      coords[c].order[k] \in ToSet(coords[c].request.deps[coords[c].order[i]])
               PROVE  executingJobs[coords[c].order[k]] \in Over
    BY DEF DependenciesFirst, Over
  <2>1. DOMAIN coords[c].order = 1..Len(coords[c].order)
    BY DEF CoordInv, Shape, Coordinations
  <2>2. LetIn(c, i) /\ Earlier(c, k, i)
    BY DEF LetIn, Earlier
  <2> QED BY <2>1, <2>2 DEF CoordInv, Passed
<1> QED BY <1>1, CoordinatorInvariant, PTL
=============================================================================
