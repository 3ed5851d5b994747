--------------------------- MODULE WorkloadsProofs ---------------------------
(* Theorems about Workloads: for any cluster, what a poll has listed and     *)
(* nobody has touched since it began is published as it is, and the totals   *)
(* of the pages add up however torn the lists are.                           *)
EXTENDS Workloads, FiniteSetTheorems, FunctionTheorems, WellFoundedInduction, TLAPS

-----------------------------------------------------------------------------
(* The inductive invariant behind UntouchedIsExact and TotalsAgree.         *)

\* A pod is made from a template.
IsPod(x, p) ==
    \E t \in Templates, node \in NodeNames \cup {Unset}, phase \in {Unset, "Pending", "Running"},
       restarts \in 0..MaxRestarts : p = Made(x, t, node, phase, restarts)

\* What exists, and what was listed, is finite and of the names there are.
ObjectsInv ==
    /\ DOMAIN deployments \subseteq Deployments /\ DOMAIN listed.deployments \subseteq Deployments
    /\ IsFiniteSet(DOMAIN listed.deployments) /\ IsFiniteSet(DOMAIN deployments)
    /\ DOMAIN nodes \subseteq NodeNames /\ DOMAIN listed.nodes \subseteq NodeNames
    /\ IsFiniteSet(DOMAIN listed.nodes) /\ IsFiniteSet(DOMAIN nodes)
    /\ DOMAIN pods \subseteq Pods /\ DOMAIN listed.pods \subseteq Pods
    /\ \A x \in DOMAIN pods : IsPod(x, pods[x])
    /\ \A x \in DOMAIN listed.pods : IsPod(x, listed.pods[x])

\* What a poll has listed and nobody has touched since it began is still so.
SameApartFrom(T, f, g) ==
    DOMAIN f \ T = DOMAIN g \ T /\ \A x \in DOMAIN f \ T : f[x] = g[x]

NodesKept == SameApartFrom(touched.nodes, listed.nodes, nodes)

PodsKept ==
    /\ \A x \in DOMAIN pods :
         RootKey(pods[x]) \notin touched.keys \/ pods[x].node \notin touched.nodes =>
           x \in DOMAIN listed.pods /\ listed.pods[x] = pods[x]
    /\ \A x \in DOMAIN listed.pods :
         \/ RootKey(listed.pods[x]) \notin touched.keys
         \/ listed.pods[x].node \notin touched.nodes \cup {Unset}
         => x \in DOMAIN pods /\ listed.pods[x] = pods[x]

DeploymentsKept == SameApartFrom(touched.keys, listed.deployments, deployments)

HpasKept == listed.hpaErr \/ listed.hpas \ touched.keys = hpas \ touched.keys

IInv ==
    /\ stage \in {"nodes", "pods", "deployments", "hpas", "listed"}
    /\ DOMAIN listed = DOMAIN NothingListed
    /\ ObjectsInv
    /\ stage # "nodes" => NodesKept
    /\ stage \in {"deployments", "hpas", "listed"} => PodsKept
    /\ stage \in {"hpas", "listed"} => DeploymentsKept
    /\ stage = "listed" => HpasKept

-----------------------------------------------------------------------------
(* Sums.  The sum of a function is the size of a disjoint union: its units.  *)

\* As many units for every x as f tells.
Units(f, s) == UNION {{x} \X (1..f[x]) : x \in s}

\* The equation of the recursive function behind SumFunction.
SumsUp(f, g) ==
    g = [s \in SUBSET DOMAIN f |->
           IF s = {} THEN 0
           ELSE f[CHOOSE x \in s : TRUE] + g[s \ {CHOOSE x \in s : TRUE}]]

\* All that is to be summed: finitely many natural numbers.
Summable(f) == IsFiniteSet(DOMAIN f) /\ \A x \in DOMAIN f : f[x] \in Nat

\* A sum is what a solution of its equation makes of the whole domain.
LEMMA SumIsChosen ==
    ASSUME NEW f
    PROVE  SumFunction(f) = (CHOOSE g : SumsUp(f, g))[DOMAIN f]
BY DEF SumFunction, SumFunctionOnSet, FoldFunctionOnSet, MapThenFoldSet, SumsUp

\* The units of finitely many natural numbers are finite,
LEMMA UnitsFinite ==
    ASSUME NEW f, NEW s, IsFiniteSet(s), \A x \in s : f[x] \in Nat
    PROVE  IsFiniteSet(Units(f, s))
<1> DEFINE P == {{x} \X (1..f[x]) : x \in s}
           h == [x \in s |-> {x} \X (1..f[x])]
<1>1. h \in Surjection(s, P)
  BY Fun_IsSurj
<1>2. IsFiniteSet(P)
  <2> HIDE DEF h, P
  <2> QED
    BY <1>1, FS_Surjection
<1>3. ASSUME NEW x \in s PROVE IsFiniteSet({x} \X (1..f[x]))
  <2>1. f[x] \in Int
    BY <1>3
  <2>2. IsFiniteSet(1..f[x])
    BY <2>1, FS_Interval
  <2> QED
    BY <2>2, FS_Singleton, FS_Product
<1> QED
  BY <1>2, <1>3, FS_UNION DEF Units

\* and those of one element can be counted apart.
LEMMA UnitsOfOne ==
    ASSUME NEW f, NEW s, IsFiniteSet(s), \A x \in s : f[x] \in Nat, NEW y \in s
    PROVE  Cardinality(Units(f, s)) = f[y] + Cardinality(Units(f, s \ {y}))
<1> DEFINE one == {y} \X (1..f[y])
           rest == Units(f, s \ {y})
<1>1. Units(f, s) = one \cup rest
  BY DEF Units
<1>2. one \cap rest = {}
  BY DEF Units
<1>3. IsFiniteSet(one) /\ Cardinality(one) = f[y]
  <2>1. f[y] \in Nat /\ f[y] \in Int
    OBVIOUS
  <2>2. IsFiniteSet({y}) /\ Cardinality({y}) = 1
    BY FS_Singleton
  <2>3. IsFiniteSet(1..f[y]) /\ Cardinality(1..f[y]) = f[y]
    BY <2>1, FS_Interval
  <2>4. IsFiniteSet(one) /\ Cardinality(one) = 1 * f[y]
    BY <2>2, <2>3, FS_Product
  <2> QED
    BY <2>1, <2>4
<1>4. IsFiniteSet(rest)
  <2>1. IsFiniteSet(s \ {y})
    BY FS_Difference
  <2> QED
    BY <2>1, UnitsFinite
<1> HIDE DEF one, rest
<1>5. Cardinality(one \cup rest) = Cardinality(one) + Cardinality(rest) - Cardinality({})
  BY <1>2, <1>3, <1>4, FS_Union
<1> QED
  BY <1>1, <1>3, <1>4, <1>5, FS_EmptySet, FS_CardinalityType DEF rest

\* The equation has a solution: the number of the units.
LEMMA SumEquation ==
    ASSUME NEW f, Summable(f)
    PROVE  \E g : SumsUp(f, g)
<1> DEFINE size(s) == Cardinality(Units(f, s))
           g == [s \in SUBSET DOMAIN f |-> size(s)]
<1>1. size({}) = 0
  BY FS_EmptySet DEF Units
<1>2. ASSUME NEW s \in SUBSET DOMAIN f, s # {}, NEW x, x = CHOOSE y \in s : TRUE
      PROVE  size(s) = f[x] + size(s \ {x})
  <2>1. x \in s
    BY <1>2
  <2>2. IsFiniteSet(s)
    BY FS_Subset DEF Summable
  <2> QED
    BY <2>1, <2>2, UnitsOfOne DEF Summable
<1> HIDE DEF size
<1>3. ASSUME NEW s \in SUBSET DOMAIN f
      PROVE  g[s] = IF s = {} THEN 0
                    ELSE f[CHOOSE x \in s : TRUE] + g[s \ {CHOOSE x \in s : TRUE}]
  <2>1. PICK x : x = CHOOSE y \in s : TRUE
    OBVIOUS
  <2>2. g[s] = size(s) /\ g[s \ {x}] = size(s \ {x})
    OBVIOUS
  <2> QED
    BY <1>1, <1>2, <2>1, <2>2
<1>4. g = [s \in SUBSET DOMAIN f |->
           IF s = {} THEN 0
           ELSE f[CHOOSE x \in s : TRUE] + g[s \ {CHOOSE x \in s : TRUE}]]
  BY <1>3
<1>5. SumsUp(f, g)
  BY <1>4 DEF SumsUp
<1> QED
  BY <1>5

\* It has no other.  A smallest set where another solution differs would lose its chosen
\* element and differ still: this is the induction, over the finite sets.
LEMMA SumUnique ==
    ASSUME NEW f, Summable(f), NEW g, SumsUp(f, g)
    PROVE  \A s \in SUBSET DOMAIN f : g[s] = Cardinality(Units(f, s))
<1> DEFINE S == DOMAIN f
           Wrong == {s \in SUBSET S : g[s] # Cardinality(Units(f, s))}
<1>1. IsWellFoundedOn(StrictSubsetOrdering(S), SUBSET S)
  BY FS_StrictSubsetOrderingWellFounded, FS_FiniteSubsetsOfFinite DEF Summable
<1>2. SUFFICES ASSUME Wrong # {} PROVE FALSE
  OBVIOUS
<1>3. PICK s \in Wrong : \A t \in Wrong : <<t, s>> \notin StrictSubsetOrdering(S)
  BY <1>1, <1>2, WFMin
<1>4. CASE s = {}
  <2>1. g[s] = 0
    BY <1>4 DEF SumsUp
  <2>2. Units(f, s) = {}
    BY <1>4 DEF Units
  <2> QED
    BY <2>1, <2>2, FS_EmptySet
<1>5. CASE s # {}
  <2>1. PICK x : x = CHOOSE y \in s : TRUE
    OBVIOUS
  <2>2. x \in s
    BY <1>5, <2>1
  <2>3. g[s] = f[x] + g[s \ {x}]
    BY <1>5, <2>1 DEF SumsUp
  <2>4. <<s \ {x}, s>> \in StrictSubsetOrdering(S)
    BY <2>2 DEF StrictSubsetOrdering
  <2>5. g[s \ {x}] = Cardinality(Units(f, s \ {x}))
    BY <1>3, <2>4
  <2>6. IsFiniteSet(s)
    BY FS_Subset DEF Summable
  <2>7. Cardinality(Units(f, s)) = f[x] + Cardinality(Units(f, s \ {x}))
    BY <2>2, <2>6, UnitsOfOne DEF Summable
  <2> QED
    BY <2>3, <2>5, <2>7
<1> QED
  BY <1>4, <1>5

\* Hence a sum of natural numbers counts their units, in whatever order it is taken.
LEMMA SumIsSize ==
    ASSUME NEW f, Summable(f)
    PROVE  SumFunction(f) = Cardinality(Units(f, DOMAIN f))
<1>1. SumsUp(f, CHOOSE g : SumsUp(f, g))
  BY SumEquation
<1> QED
  BY <1>1, SumUnique, SumIsChosen

\* The sizes of disjoint parts add up to the size of the whole.
LEMMA SumOfParts ==
    ASSUME NEW part, NEW f, DOMAIN f = DOMAIN part, IsFiniteSet(DOMAIN part),
           \A k \in DOMAIN part : IsFiniteSet(part[k]) /\ f[k] = Cardinality(part[k]),
           \A k, l \in DOMAIN part : k # l => part[k] \cap part[l] = {}
    PROVE  SumFunction(f) = Cardinality(UNION {part[k] : k \in DOMAIN part})
<1> DEFINE K == DOMAIN part
           Whole == UNION {part[k] : k \in K}
           b == [k \in K |-> CHOOSE c : c \in Bijection(1..f[k], part[k])]
           F == [u \in Units(f, K) |-> b[u[1]][u[2]]]
<1>1. \A k \in K : f[k] \in Nat
  BY FS_CardinalityType
<1>2. Summable(f)
  BY <1>1 DEF Summable
<1>3. ASSUME NEW k \in K PROVE b[k] \in Bijection(1..f[k], part[k])
  <2>1. ExistsBijection(1..f[k], part[k])
    BY FS_CardinalityType
  <2> QED
    BY <2>1 DEF ExistsBijection
<1>4. ASSUME NEW k \in K
      PROVE  /\ \A i \in 1..f[k] : b[k][i] \in part[k]
             /\ \A i, j \in 1..f[k] : b[k][i] = b[k][j] => i = j
             /\ \A x \in part[k] : \E i \in 1..f[k] : b[k][i] = x
  <2>1. PICK c, D, T : c = b[k] /\ D = 1..f[k] /\ T = part[k]
    OBVIOUS
  <2>2. c \in Bijection(D, T)
    BY <1>3, <2>1
  <2> HIDE DEF b
  <2>3. c \in [D -> T]
    BY <2>2 DEF Bijection, Injection
  <2>4. \A i, j \in D : c[i] = c[j] => i = j
    BY <2>2 DEF Bijection, Injection, IsInjective
  <2>5. \A x \in T : \E i \in D : c[i] = x
    BY <2>2 DEF Bijection, Surjection
  <2> QED
    BY <2>1, <2>3, <2>4, <2>5
<1>5. \A u \in Units(f, K) : u[1] \in K /\ u[2] \in 1..f[u[1]] /\ u = <<u[1], u[2]>>
  BY DEF Units
<1>6. \A k \in K : \A i \in 1..f[k] : <<k, i>> \in Units(f, K)
  BY DEF Units
<1> HIDE DEF b
<1>7. F \in [Units(f, K) -> Whole]
  BY <1>4, <1>5
<1>8. ASSUME NEW x \in Whole PROVE \E u \in Units(f, K) : F[u] = x
  <2>1. PICK k \in K : x \in part[k]
    OBVIOUS
  <2>2. PICK i \in 1..f[k] : b[k][i] = x
    BY <1>4, <2>1
  <2>3. <<k, i>> \in Units(f, K)
    BY <1>6, <2>2
  <2>4. F[<<k, i>>] = x
    BY <2>2, <2>3
  <2> QED
    BY <2>3, <2>4
<1>9. ASSUME NEW u \in Units(f, K), NEW v \in Units(f, K), F[u] = F[v] PROVE u = v
  <2>1. F[u] \in part[u[1]] /\ F[v] \in part[v[1]]
    BY <1>4, <1>5
  <2>2. u[1] = v[1]
    BY <1>5, <1>9, <2>1
  <2>3. u[2] = v[2]
    BY <1>4, <1>5, <1>9, <2>2
  <2> QED
    BY <1>5, <2>2, <2>3
<1>10. F \in Bijection(Units(f, K), Whole)
  BY <1>7, <1>8, <1>9, Fun_IsBij
<1> HIDE DEF F, Whole
<1>11. ExistsBijection(Units(f, K), Whole)
  BY <1>10 DEF ExistsBijection
<1>12. IsFiniteSet(Units(f, K))
  BY <1>1, UnitsFinite
<1>13. Cardinality(Whole) = Cardinality(Units(f, K))
  BY <1>11, <1>12, FS_Bijection
<1> QED
  BY <1>2, <1>13, SumIsSize DEF Whole

-----------------------------------------------------------------------------
(* Names.                                                                   *)

\* The parts of a pod.
Record(x, ns, refs, labels, root, n, ph, r) ==
    [pod |-> x, ns |-> ns, refs |-> refs, labels |-> labels, root |-> root,
     node |-> n, phase |-> ph, restarts |-> r]

\* A pod has the owners, the labels and the root that its template tells.
LEMMA PodOfTemplate ==
    ASSUME NEW x, NEW p, IsPod(x, p)
    PROVE  \E t \in Templates :
             /\ p.pod = x /\ p.labels = t.labels /\ p.root = Root(x, t)
             /\ Known(p) = Known(t) /\ owner(p) = owner(t)
<1>1. PICK t \in Templates, n \in NodeNames \cup {Unset}, ph \in {Unset, "Pending", "Running"},
           r \in 0..MaxRestarts : p = Made(x, t, n, ph, r)
  BY DEF IsPod
<1>2. p.pod = x /\ p.refs = t.refs /\ p.labels = t.labels /\ p.root = Root(x, t)
  BY <1>1 DEF Made
<1>3. Known(p) = Known(t)
  BY <1>2 DEF Known
<1>4. owner(p) = owner(t)
  BY <1>2, <1>3 DEF owner
<1> QED
  BY <1>2, <1>3, <1>4

\* A name that does not mislead tells the workload that a pod truly belongs to.
LEMMA TrueName ==
    ASSUME RootAssumption, NEW x, NEW p, IsPod(x, p), ~Misleads(p)
    PROVE  workloadOf(p) = p.root
<1>2. PICK t \in Templates : /\ p.pod = x /\ p.labels = t.labels /\ p.root = Root(x, t)
                             /\ Known(p) = Known(t) /\ owner(p) = owner(t)
  BY PodOfTemplate
<1>3. CASE Known(p) # {}
  <2>1. p.root = t.root
    BY <1>2, <1>3 DEF Root
  <2>2. \/ p.root = owner(p).name
        \/ /\ owner(p).kind = "ReplicaSet"
           /\ p.root = Front(owner(p).name) /\ p.root # owner(p).name
    BY <1>2, <1>3, <2>1 DEF RootAssumption
  <2>3. CASE owner(p).kind = "ReplicaSet"
    BY <1>3, <2>2, <2>3 DEF workloadOf, StripHash, Misleads
  <2>4. CASE owner(p).kind # "ReplicaSet"
    BY <1>3, <2>2, <2>4 DEF workloadOf
  <2> QED
    BY <2>3, <2>4
<1>4. CASE Known(p) = {}
  <2>1. CASE "app" \in DOMAIN t.labels
    BY <1>2, <1>4, <2>1 DEF workloadOf, Root, RootAssumption
  <2>2. CASE "app" \notin DOMAIN t.labels /\ "app.kubernetes.io/name" \in DOMAIN t.labels
    BY <1>2, <1>4, <2>2 DEF workloadOf, Root, RootAssumption
  <2>3. CASE {"app", "app.kubernetes.io/name"} \cap DOMAIN t.labels = {}
    <3>1. "app" \notin DOMAIN t.labels /\ "app.kubernetes.io/name" \notin DOMAIN t.labels
      BY <2>3
    <3> QED
      BY <1>2, <1>4, <2>3, <3>1 DEF workloadOf, Root
  <2> QED
    BY <2>1, <2>2, <2>3
<1> QED
  BY <1>3, <1>4

\* A name that misleads is still one of those that blur.
LEMMA FalseName ==
    ASSUME NEW p, Misleads(p)
    PROVE  workloadOf(p) \in {owner(p).name, Front(owner(p).name)}
BY DEF Misleads, workloadOf, StripHash

-----------------------------------------------------------------------------
(* The pods of the cluster.                                                 *)

LEMMA PodFields ==
    ASSUME NEW x, NEW p, IsPod(x, p)
    PROVE  /\ p.pod = x
           /\ DOMAIN p = {"pod", "ns", "refs", "labels", "root", "node", "phase", "restarts"}
<1>1. PICK t \in Templates, n \in NodeNames \cup {Unset}, ph \in {Unset, "Pending", "Running"},
           r \in 0..MaxRestarts : p = Made(x, t, n, ph, r)
  BY DEF IsPod
<1> QED
  BY <1>1 DEF Made

\* What binding, running and restarting make of a pod.
LEMMA PodChanged ==
    ASSUME WorkloadsAssumption, NEW x, NEW p, IsPod(x, p)
    PROVE  /\ \A n \in NodeNames :
                LET q == [p EXCEPT !.node = n, !.phase = "Pending"] IN
                  IsPod(x, q) /\ RootKey(q) = RootKey(p) /\ q.node = n
           /\ LET q == [p EXCEPT !.phase = "Running"] IN
                IsPod(x, q) /\ RootKey(q) = RootKey(p) /\ q.node = p.node
           /\ p.restarts < MaxRestarts =>
                LET q == [p EXCEPT !.restarts = @ + 1] IN
                  IsPod(x, q) /\ RootKey(q) = RootKey(p) /\ q.node = p.node
<1>1. PICK t \in Templates, n \in NodeNames \cup {Unset}, ph \in {Unset, "Pending", "Running"},
           r \in 0..MaxRestarts : p = Made(x, t, n, ph, r)
  BY DEF IsPod
<1>a. PICK ns, refs, labels, root :
        ns = t.ns /\ refs = t.refs /\ labels = t.labels /\ root = Root(x, t)
  OBVIOUS
<1> DEFINE R(n1, ph1, r1) == Record(x, ns, refs, labels, root, n1, ph1, r1)
<1>0. \A n1, ph1, r1 : Made(x, t, n1, ph1, r1) = R(n1, ph1, r1)
  BY <1>a DEF Made, Record
<1>b. p = R(n, ph, r)
  BY <1>0, <1>1
<1>2. ASSUME NEW m \in NodeNames
      PROVE  [p EXCEPT !.node = m, !.phase = "Pending"] = Made(x, t, m, "Pending", r)
  <2>1. [p EXCEPT !.node = m] = R(m, ph, r)
    BY <1>b DEF Record
  <2>2. [R(m, ph, r) EXCEPT !.phase = "Pending"] = R(m, "Pending", r)
    BY DEF Record
  <2>3. [p EXCEPT !.node = m, !.phase = "Pending"] = [[p EXCEPT !.node = m] EXCEPT !.phase = "Pending"]
    OBVIOUS
  <2>4. R(m, "Pending", r) = Made(x, t, m, "Pending", r)
    BY <1>0
  <2> HIDE DEF R
  <2> QED
    BY <2>1, <2>2, <2>3, <2>4
<1>3. [p EXCEPT !.phase = "Running"] = Made(x, t, n, "Running", r)
  <2>1. [p EXCEPT !.phase = "Running"] = R(n, "Running", r)
    BY <1>b DEF Record
  <2> HIDE DEF R
  <2> QED
    BY <1>0, <2>1
<1>4. [p EXCEPT !.restarts = @ + 1] = Made(x, t, n, ph, r + 1)
  <2>1. [p EXCEPT !.restarts = @ + 1] = R(n, ph, r + 1)
    BY <1>b DEF Record
  <2> HIDE DEF R
  <2> QED
    BY <1>0, <2>1
<1>5. \A m, h, s : /\ RootKey(Made(x, t, m, h, s)) = [ns |-> t.ns, name |-> Root(x, t)]
                   /\ Made(x, t, m, h, s).node = m
  BY DEF Made, RootKey
<1>6. \A m \in NodeNames : IsPod(x, Made(x, t, m, "Pending", r))
  BY DEF IsPod
<1>7. IsPod(x, Made(x, t, n, "Running", r))
  BY <1>1 DEF IsPod
<1>8. r < MaxRestarts => r + 1 \in 0..MaxRestarts
  BY <1>1 DEF WorkloadsAssumption
<1>9. r < MaxRestarts => IsPod(x, Made(x, t, n, ph, r + 1))
  BY <1>1, <1>8 DEF IsPod
<1>10. p.restarts = r
  BY <1>1 DEF Made
<1>11. RootKey(p) = [ns |-> t.ns, name |-> Root(x, t)] /\ p.node = n
  BY <1>1, <1>5
<1>12. ASSUME NEW m \in NodeNames
       PROVE  LET q == [p EXCEPT !.node = m, !.phase = "Pending"] IN
                IsPod(x, q) /\ RootKey(q) = RootKey(p) /\ q.node = m
  <2>1. PICK q : q = [p EXCEPT !.node = m, !.phase = "Pending"]
    OBVIOUS
  <2>2. q = Made(x, t, m, "Pending", r)
    BY <1>2, <2>1
  <2>3. IsPod(x, q) /\ RootKey(q) = RootKey(p) /\ q.node = m
    BY <1>5, <1>6, <1>11, <2>2
  <2> QED
    BY <2>1, <2>3
<1>13. LET q == [p EXCEPT !.phase = "Running"] IN
         IsPod(x, q) /\ RootKey(q) = RootKey(p) /\ q.node = p.node
  BY <1>3, <1>5, <1>7, <1>11
<1>14. p.restarts < MaxRestarts =>
         LET q == [p EXCEPT !.restarts = @ + 1] IN
           IsPod(x, q) /\ RootKey(q) = RootKey(p) /\ q.node = p.node
  BY <1>4, <1>5, <1>9, <1>10, <1>11
<1> QED
  BY <1>12, <1>13, <1>14

-----------------------------------------------------------------------------
(* A change of the cluster.                                                 *)

\* A pod is set: it is new, or of the same workload and, once bound, on the same node.
LEMMA PodSet ==
    ASSUME IInv, NEW x \in Pods, NEW q, IsPod(x, q), SetPod(x, q),
           x \in DOMAIN pods => /\ RootKey(q) = RootKey(pods[x])
                                /\ pods[x].node = Unset \/ q.node = pods[x].node
    PROVE  IInv'
<1>1. /\ DOMAIN pods' = DOMAIN pods \cup {x}
      /\ pods'[x] = q /\ \A y \in DOMAIN pods \ {x} : pods'[y] = pods[y]
      /\ UNCHANGED <<nodes, deployments, hpas, stage, listed>>
  BY DEF SetPod, With, Touch
<1>2. /\ touched'.keys = touched.keys \cup {RootKey(q)}
      /\ touched'.nodes = touched.nodes \cup {q.node}
  BY DEF SetPod, Touch
<1>3. ObjectsInv'
  BY <1>1 DEF IInv, ObjectsInv
<1>4. PodsKept => PodsKept'
  BY <1>1, <1>2 DEF PodsKept
<1>5. NodesKept => NodesKept'
  BY <1>1, <1>2 DEF NodesKept, SameApartFrom
<1>6. DeploymentsKept => DeploymentsKept'
  BY <1>1, <1>2 DEF DeploymentsKept, SameApartFrom
<1>7. HpasKept => HpasKept'
  BY <1>1, <1>2 DEF HpasKept
<1> QED
  BY <1>1, <1>3, <1>4, <1>5, <1>6, <1>7 DEF IInv

LEMMA PodDeleted ==
    ASSUME IInv, NEW x \in Pods, Delete(x)
    PROVE  IInv'
<1>1. /\ x \in DOMAIN pods /\ DOMAIN pods' = DOMAIN pods \ {x}
      /\ \A y \in DOMAIN pods' : pods'[y] = pods[y]
      /\ UNCHANGED <<nodes, deployments, hpas, stage, listed>>
  BY DEF Delete, Without, Touch
<1>2. /\ touched'.keys = touched.keys \cup {RootKey(pods[x])}
      /\ touched'.nodes = touched.nodes \cup {pods[x].node}
  BY DEF Delete, Touch
<1>3. ObjectsInv'
  BY <1>1 DEF IInv, ObjectsInv
<1>4. PodsKept => PodsKept'
  BY <1>1, <1>2 DEF PodsKept
<1>5. NodesKept => NodesKept'
  BY <1>1, <1>2 DEF NodesKept, SameApartFrom
<1>6. DeploymentsKept => DeploymentsKept'
  BY <1>1, <1>2 DEF DeploymentsKept, SameApartFrom
<1>7. HpasKept => HpasKept'
  BY <1>1, <1>2 DEF HpasKept
<1> QED
  BY <1>1, <1>3, <1>4, <1>5, <1>6, <1>7 DEF IInv

LEMMA ClusterInv ==
    ASSUME WorkloadsAssumption, IInv, ClusterChanges
    PROVE  IInv'
<1>1. ASSUME NEW x \in Pods, NEW t \in Templates, Create(x, t) PROVE IInv'
  <2>1. SetPod(x, Made(x, t, Unset, Unset, 0)) /\ x \notin DOMAIN pods
    BY <1>1 DEF Create
  <2>2. 0 \in 0..MaxRestarts
    BY DEF WorkloadsAssumption
  <2>3. IsPod(x, Made(x, t, Unset, Unset, 0))
    BY <2>2 DEF IsPod
  <2> QED
    BY <2>1, <2>3, PodSet
<1>2. ASSUME NEW x \in Pods, NEW n \in NodeNames, Bind(x, n) PROVE IInv'
  <2>1. PICK q : q = [pods[x] EXCEPT !.node = n, !.phase = "Pending"]
    OBVIOUS
  <2>2. SetPod(x, q) /\ x \in DOMAIN pods /\ pods[x].node = Unset
    BY <1>2, <2>1 DEF Bind
  <2>3. IsPod(x, pods[x])
    BY <2>2 DEF IInv, ObjectsInv
  <2>4. IsPod(x, q) /\ RootKey(q) = RootKey(pods[x])
    BY <2>1, <2>3, PodChanged
  <2> QED
    BY <2>2, <2>4, PodSet
<1>3. ASSUME NEW x \in Pods, Run(x) PROVE IInv'
  <2>1. PICK q : q = [pods[x] EXCEPT !.phase = "Running"]
    OBVIOUS
  <2>2. SetPod(x, q) /\ x \in DOMAIN pods
    BY <1>3, <2>1 DEF Run
  <2>3. IsPod(x, pods[x])
    BY <2>2 DEF IInv, ObjectsInv
  <2>4. IsPod(x, q) /\ RootKey(q) = RootKey(pods[x]) /\ q.node = pods[x].node
    BY <2>1, <2>3, PodChanged
  <2> QED
    BY <2>2, <2>4, PodSet
<1>4. ASSUME NEW x \in Pods, Restart(x) PROVE IInv'
  <2>1. PICK q : q = [pods[x] EXCEPT !.restarts = @ + 1]
    OBVIOUS
  <2>2. SetPod(x, q) /\ x \in DOMAIN pods /\ pods[x].restarts < MaxRestarts
    BY <1>4, <2>1 DEF Restart
  <2>3. IsPod(x, pods[x])
    BY <2>2 DEF IInv, ObjectsInv
  <2>4. IsPod(x, q) /\ RootKey(q) = RootKey(pods[x]) /\ q.node = pods[x].node
    BY <2>1, <2>2, <2>3, PodChanged
  <2> QED
    BY <2>2, <2>4, PodSet
<1>5. ASSUME NEW x \in Pods, Delete(x) PROVE IInv'
  BY <1>5, PodDeleted
<1>6. ASSUME NEW n \in NodeNames, NodeChanges(n) PROVE IInv'
  <2>0. DOMAIN nodes' \in {DOMAIN nodes \cup {n}, DOMAIN nodes \ {n}}
    BY <1>6 DEF NodeChanges, With, Without
  <2>f. IsFiniteSet(DOMAIN nodes) => IsFiniteSet(DOMAIN nodes')
    BY <2>0, FS_AddElement, FS_RemoveElement
  <2>1. /\ DOMAIN nodes' \ {n} = DOMAIN nodes \ {n}
        /\ \A m \in DOMAIN nodes \ {n} : nodes'[m] = nodes[m]
        /\ UNCHANGED <<pods, deployments, hpas, stage, listed>>
        /\ touched'.keys = touched.keys /\ touched'.nodes = touched.nodes \cup {n}
    BY <1>6 DEF NodeChanges, Touch, With, Without
  <2>2. NodesKept => NodesKept'
    BY <2>1 DEF NodesKept, SameApartFrom
  <2>3. (PodsKept => PodsKept') /\ (DeploymentsKept => DeploymentsKept') /\ (HpasKept => HpasKept')
    BY <2>1 DEF PodsKept, DeploymentsKept, HpasKept
  <2> QED
    BY <2>0, <2>f, <2>1, <2>2, <2>3 DEF IInv, ObjectsInv
<1>7. ASSUME NEW d \in Deployments, DeploymentChanges(d) PROVE IInv'
  <2>0. DOMAIN deployments' \in {DOMAIN deployments \cup {d}, DOMAIN deployments \ {d}}
    BY <1>7 DEF DeploymentChanges, With, Without
  <2>f. IsFiniteSet(DOMAIN deployments) => IsFiniteSet(DOMAIN deployments')
    BY <2>0, FS_AddElement, FS_RemoveElement
  <2>1. /\ DOMAIN deployments' \ {d} = DOMAIN deployments \ {d}
        /\ \A e \in DOMAIN deployments \ {d} : deployments'[e] = deployments[e]
        /\ UNCHANGED <<pods, nodes, hpas, stage, listed>>
        /\ touched'.keys = touched.keys \cup {d} /\ touched'.nodes = touched.nodes
    BY <1>7 DEF DeploymentChanges, Touch, With, Without
  <2>2. DeploymentsKept => DeploymentsKept'
    BY <2>1 DEF DeploymentsKept, SameApartFrom
  <2>3. (PodsKept => PodsKept') /\ (NodesKept => NodesKept') /\ (HpasKept => HpasKept')
    BY <2>1 DEF PodsKept, NodesKept, HpasKept
  <2> QED
    BY <2>0, <2>f, <2>1, <2>2, <2>3 DEF IInv, ObjectsInv
<1>8. ASSUME NEW d \in Deployments, HpaChanges(d) PROVE IInv'
  <2>1. /\ hpas' \ {d} = hpas \ {d}
        /\ UNCHANGED <<pods, nodes, deployments, stage, listed>>
        /\ touched'.keys = touched.keys \cup {d} /\ touched'.nodes = touched.nodes
    BY <1>8 DEF HpaChanges, Touch
  <2>2. (PodsKept => PodsKept') /\ (NodesKept => NodesKept') /\ (HpasKept => HpasKept')
    BY <2>1 DEF PodsKept, NodesKept, HpasKept
  <2>3. DeploymentsKept => DeploymentsKept'
    BY <2>1 DEF DeploymentsKept, SameApartFrom
  <2> QED
    BY <2>1, <2>2, <2>3 DEF IInv, ObjectsInv
<1> QED
  BY <1>1, <1>2, <1>3, <1>4, <1>5, <1>6, <1>7, <1>8 DEF ClusterChanges

-----------------------------------------------------------------------------
(* The poll.                                                                *)

LEMMA PollInv ==
    ASSUME IInv, ListNodes \/ ListPods \/ ListDeployments \/ ListHPAs \/ Publish
    PROVE  IInv'
<1>1. CASE ListNodes
  BY <1>1, FS_EmptySet DEF ListNodes, NothingListed, Nothing, IInv, ObjectsInv, NodesKept, SameApartFrom, cluster
<1>2. CASE ListPods
  BY <1>2 DEF ListPods, NothingListed, IInv, ObjectsInv, NodesKept, PodsKept, cluster
<1>3. CASE ListDeployments
  BY <1>3 DEF ListDeployments, NothingListed, IInv, ObjectsInv, NodesKept, PodsKept, DeploymentsKept, SameApartFrom, cluster
<1>4. CASE ListHPAs
  BY <1>4 DEF ListHPAs, NothingListed, IInv, ObjectsInv, NodesKept, PodsKept, DeploymentsKept, HpasKept, cluster
<1>5. CASE Publish
  BY <1>5, FS_EmptySet DEF Publish, NothingListed, Nothing, IInv, ObjectsInv, cluster
<1> QED
  BY <1>1, <1>2, <1>3, <1>4, <1>5

LEMMA InitIInv == Init => IInv
BY FS_EmptySet DEF Init, IInv, ObjectsInv, Nothing, NothingListed

LEMMA NextIInv == WorkloadsAssumption /\ IInv /\ [Next]_vars => IInv'
<1>1. CASE UNCHANGED vars
  BY <1>1 DEF vars, cluster, IInv, ObjectsInv, NodesKept, PodsKept, DeploymentsKept, HpasKept
<1> QED
  BY <1>1, ClusterInv, PollInv DEF Next

-----------------------------------------------------------------------------
(* The snapshot.                                                            *)

\* The pods of a node that nobody touched are all there, and no others.
LEMMA NodePods ==
    ASSUME WorkloadsAssumption, IInv, stage = "listed", NEW n \in NodeNames \ touched.nodes
    PROVE  Cardinality(byNode(n)) = Cardinality({x \in DOMAIN pods : pods[x].node = n})
<1> DEFINE X == {x \in DOMAIN pods : pods[x].node = n}
           F == [x \in X |-> pods[x]]
<1>1. n # Unset
  BY DEF WorkloadsAssumption
<1>2. \A x \in X : x \in DOMAIN listed.pods /\ listed.pods[x] = pods[x]
  BY DEF IInv, PodsKept
<1>3. \A x \in DOMAIN listed.pods : listed.pods[x].node = n => x \in X /\ listed.pods[x] = pods[x]
  BY <1>1 DEF IInv, PodsKept
<1>4. F \in [X -> byNode(n)]
  BY <1>1, <1>2 DEF byNode, podList
<1>5. \A p \in byNode(n) : \E x \in X : F[x] = p
  BY <1>3 DEF byNode, podList
<1>6. \A x, y \in X : F[x] = F[y] => x = y
  BY PodFields DEF IInv, ObjectsInv
<1>7. F \in Bijection(X, byNode(n))
  BY <1>4, <1>5, <1>6, Fun_IsBij
<1>8. IsFiniteSet(X)
  <2>1. X \subseteq Pods
    BY DEF IInv, ObjectsInv
  <2> QED
    BY <2>1, FS_Subset DEF WorkloadsAssumption
<1> HIDE DEF X, F
<1>9. ExistsBijection(X, byNode(n))
  BY <1>7 DEF ExistsBijection
<1> QED
  BY <1>8, <1>9, FS_Bijection DEF X

\* A node that nobody touched is published as it is.
LEMMA NodesExact ==
    ASSUME WorkloadsAssumption, IInv, stage = "listed"
    PROVE  UntouchedNodes
<1> SUFFICES ASSUME NEW n \in NodeNames \ touched.nodes
             PROVE  /\ n \in DOMAIN buildNodes <=> n \in DOMAIN nodes
                    /\ n \in DOMAIN nodes =>
                         /\ buildNodes[n].ready = nodes[n]
                         /\ buildNodes[n].podCount = Cardinality({x \in DOMAIN pods : pods[x].node = n})
  BY DEF UntouchedNodes
<1>1. /\ n \in DOMAIN listed.nodes <=> n \in DOMAIN nodes
      /\ n \in DOMAIN nodes => listed.nodes[n] = nodes[n]
  BY DEF IInv, NodesKept, SameApartFrom
<1>2. DOMAIN buildNodes = DOMAIN listed.nodes
  BY DEF buildNodes
<1>3. ASSUME n \in DOMAIN listed.nodes
      PROVE  buildNodes[n].ready = listed.nodes[n] /\ buildNodes[n].podCount = Cardinality(byNode(n))
  BY <1>3 DEF buildNodes
<1> QED
  BY <1>1, <1>2, <1>3, NodePods

\* A workload is told apart from the others, and a pod that is listed under its key
\* is one of its own.
LEMMA OwnPods ==
    ASSUME RootAssumption, IInv, stage = "listed",
           NEW k, k = [ns |-> k.ns, name |-> k.name], k \notin touched.keys, ~Blurred(k)
    PROVE  byMS(k) = PodsOf(k) /\ DetailPods(k) = PodsOf(k)
<1>1. ASSUME NEW p \in podList
      PROVE  /\ KeyOf(p) = k <=> RootKey(p) = k
             /\ p.ns = k.ns /\ workloadOf(p) = k.name <=> RootKey(p) = k
  <2>1. PICK x \in DOMAIN listed.pods : p = listed.pods[x]
    BY DEF podList
  <2>2. IsPod(x, p)
    BY <2>1 DEF IInv, ObjectsInv
  <2>3. KeyOf(p) = k <=> p.ns = k.ns /\ workloadOf(p) = k.name
    BY DEF KeyOf
  <2>4. RootKey(p) = k <=> p.ns = k.ns /\ p.root = k.name
    BY DEF RootKey
  <2>5. CASE Misleads(p)
    <3>1. p.ns = k.ns => k.name \notin {p.root, owner(p).name, Front(owner(p).name)}
      BY <2>5 DEF Blurred
    <3> QED
      BY <2>3, <2>4, <2>5, <3>1, FalseName
  <2>6. CASE ~Misleads(p)
    BY <2>2, <2>3, <2>4, <2>6, TrueName
  <2> QED
    BY <2>5, <2>6
<1>2. \A p : p \in podList /\ RootKey(p) = k <=> p \in PodsOf(k)
  BY DEF podList, PodsOf, IInv, PodsKept
<1>3. byMS(k) = PodsOf(k)
  BY <1>1, <1>2 DEF byMS
<1>4. DetailPods(k) = PodsOf(k)
  BY <1>1, <1>2 DEF DetailPods
<1> QED
  BY <1>3, <1>4

\* A key is a namespace and a name.
LEMMA KeysAreKeys ==
    ASSUME WorkloadsAssumption, IInv, stage = "listed",
           NEW k \in Deployments \cup Keys, k \notin touched.keys
    PROVE  k = [ns |-> k.ns, name |-> k.name]
<1>1. CASE k \in Deployments
  BY <1>1 DEF WorkloadsAssumption
<1>2. CASE k \in DOMAIN listed.deployments
  <2>1. k \in DOMAIN deployments
    BY <1>2 DEF IInv, DeploymentsKept, SameApartFrom
  <2> QED
    BY <1>1, <2>1 DEF IInv, ObjectsInv
<1>3. ASSUME NEW p \in podList, k = KeyOf(p) PROVE k = [ns |-> k.ns, name |-> k.name]
  BY <1>3 DEF KeyOf
<1> QED
  BY <1>1, <1>2, <1>3 DEF Keys

\* A workload that nobody touched is published as it is.
LEMMA WorkloadExact ==
    ASSUME WorkloadsAssumption, RootAssumption, IInv, stage = "listed",
           NEW k \in Deployments \cup Keys, k \notin touched.keys, ~Blurred(k)
    PROVE  /\ k \in DOMAIN buildMicroservices <=> k \in DOMAIN deployments \/ PodsOf(k) # {}
           /\ k \in DOMAIN buildMicroservices =>
                LET e == buildMicroservices[k]
                    own == PodsOf(k) IN
                  /\ DetailPods(k) = own
                  /\ e.restarts = Restarts(own) /\ e.running = RunningIn(own)
                  /\ e.nodes = {p.node : p \in own} \ {Unset}
                  /\ IF k \in DOMAIN deployments
                       THEN e.kind = "Deployment" /\ e.desired = Desired
                              /\ deployments[k] > 0 => e.ready = deployments[k]
                       ELSE e.kind = "Other" /\ e.desired = Cardinality(own)
                  /\ ~listed.hpaErr => (e.hpa <=> k \in hpas)
<1>1. byMS(k) = PodsOf(k) /\ DetailPods(k) = PodsOf(k)
  BY KeysAreKeys, OwnPods
<1>2. /\ k \in DOMAIN listed.deployments <=> k \in DOMAIN deployments
      /\ k \in DOMAIN deployments => listed.deployments[k] = deployments[k]
  BY DEF IInv, DeploymentsKept, SameApartFrom
<1>3. ~listed.hpaErr => (k \in listed.hpas <=> k \in hpas)
  BY DEF IInv, HpasKept
<1>4. DOMAIN buildMicroservices = Keys
  BY DEF buildMicroservices
<1>5. k \in Keys <=> k \in DOMAIN listed.deployments \/ byMS(k) # {}
  BY DEF Keys, byMS
<1>h. PICK h : h = (k \in listed.hpas)
  OBVIOUS
<1>6. ASSUME k \in Keys, k \in DOMAIN deployments
      PROVE  buildMicroservices[k]
               = msEntry("Deployment", Desired, deployments[k], PodsOf(k), h)
  BY <1>1, <1>2, <1>6, <1>h DEF buildMicroservices
<1>7. ASSUME k \in Keys, k \notin DOMAIN deployments
      PROVE  buildMicroservices[k]
               = msEntry("Other", Cardinality(PodsOf(k)), 0, PodsOf(k), h)
  BY <1>1, <1>2, <1>7, <1>h DEF buildMicroservices
<1>8. ASSUME NEW kind, NEW want, NEW ready, NEW P, NEW hpa, NEW e,
             e = msEntry(kind, want, ready, P, hpa)
      PROVE  /\ e.kind = kind /\ e.desired = want /\ e.hpa = hpa
             /\ e.restarts = Restarts(P) /\ e.running = RunningIn(P)
             /\ e.nodes = {p.node : p \in P} \ {Unset}
             /\ ready # 0 => e.ready = ready
  BY <1>8 DEF msEntry
<1>9. ASSUME k \in Keys, NEW e, e = buildMicroservices[k], NEW own, own = PodsOf(k)
      PROVE  /\ e.restarts = Restarts(own) /\ e.running = RunningIn(own)
             /\ e.nodes = {p.node : p \in own} \ {Unset}
             /\ IF k \in DOMAIN deployments
                  THEN e.kind = "Deployment" /\ e.desired = Desired
                         /\ deployments[k] > 0 => e.ready = deployments[k]
                  ELSE e.kind = "Other" /\ e.desired = Cardinality(own)
             /\ e.hpa = h
  <2>1. CASE k \in DOMAIN deployments
    BY <1>6, <1>8, <1>9, <2>1
  <2>2. CASE k \notin DOMAIN deployments
    BY <1>7, <1>8, <1>9, <2>2
  <2> QED
    BY <2>1, <2>2
<1>10. ~listed.hpaErr => (h <=> k \in hpas)
  BY <1>3, <1>h
<1> QED
  BY <1>1, <1>2, <1>4, <1>5, <1>9, <1>10

-----------------------------------------------------------------------------
(* The totals.                                                              *)

\* The image of a finite set is finite.
LEMMA FiniteImage ==
    ASSUME NEW h, IsFiniteSet(DOMAIN h)
    PROVE  IsFiniteSet({h[x] : x \in DOMAIN h})
<1> DEFINE F == [x \in DOMAIN h |-> h[x]]
<1>1. F \in Surjection(DOMAIN h, {h[x] : x \in DOMAIN h})
  BY Fun_IsSurj
<1> HIDE DEF F
<1> QED
  BY <1>1, FS_Surjection

\* Finitely many pods are listed, their workloads and their phases are finitely many, and
\* a pod has a number of restarts.
LEMMA FiniteLists ==
    ASSUME WorkloadsAssumption, IInv
    PROVE  /\ IsFiniteSet(podList) /\ IsFiniteSet(Keys)
           /\ IsFiniteSet({PhaseOf(p) : p \in podList})
           /\ \A p \in podList : p.restarts \in Nat
<1>1. IsFiniteSet(podList)
  <2>1. IsFiniteSet(DOMAIN listed.pods)
    BY FS_Subset DEF IInv, ObjectsInv, WorkloadsAssumption
  <2> QED
    BY <2>1, FiniteImage DEF podList
<1>2. IsFiniteSet({KeyOf(p) : p \in podList})
  <2> DEFINE h == [p \in podList |-> KeyOf(p)]
  <2>1. IsFiniteSet({h[p] : p \in DOMAIN h})
    <3>1. IsFiniteSet(DOMAIN h)
      BY <1>1
    <3> HIDE DEF h
    <3> QED
      BY <3>1, FiniteImage
  <2>2. {h[p] : p \in DOMAIN h} = {KeyOf(p) : p \in podList}
    OBVIOUS
  <2> QED
    BY <2>1, <2>2
<1>3. IsFiniteSet({PhaseOf(p) : p \in podList})
  <2> DEFINE h == [p \in podList |-> PhaseOf(p)]
  <2>1. IsFiniteSet({h[p] : p \in DOMAIN h})
    <3>1. IsFiniteSet(DOMAIN h)
      BY <1>1
    <3> HIDE DEF h
    <3> QED
      BY <3>1, FiniteImage
  <2>2. {h[p] : p \in DOMAIN h} = {PhaseOf(p) : p \in podList}
    OBVIOUS
  <2> QED
    BY <2>1, <2>2
<1>4. IsFiniteSet(Keys)
  BY <1>2, FS_Union DEF Keys, IInv, ObjectsInv
<1>5. ASSUME NEW p \in podList PROVE p.restarts \in Nat
  <2>1. PICK x \in DOMAIN listed.pods : p = listed.pods[x]
    BY DEF podList
  <2>2. PICK t \in Templates, n \in NodeNames \cup {Unset}, ph \in {Unset, "Pending", "Running"},
             r \in 0..MaxRestarts : p = Made(x, t, n, ph, r)
    BY <2>1 DEF IInv, ObjectsInv, IsPod
  <2>3. p.restarts = r
    BY <2>2 DEF Made
  <2> QED
    BY <2>3 DEF WorkloadsAssumption
<1> QED
  BY <1>1, <1>3, <1>4, <1>5

\* The page of a workload shows the pods of its entry, every pod is on the page that its
\* own name tells, and the entry sums what the page shows.
LEMMA PagesAndEntries ==
    ASSUME WorkloadsAssumption, IInv
    PROVE  /\ DOMAIN buildMicroservices = Keys
           /\ \A k \in Keys : /\ DetailPods(k) = byMS(k)
                              /\ buildMicroservices[k].restarts = Restarts(byMS(k))
                              /\ buildMicroservices[k].running = RunningIn(byMS(k))
           /\ \A p \in podList : KeyOf(p) \in Keys
<1>1. \A k \in Keys : k = [ns |-> k.ns, name |-> k.name]
  BY DEF IInv, ObjectsInv, Keys, KeyOf, WorkloadsAssumption
<1>2. \A k \in Keys : DetailPods(k) = byMS(k)
  BY <1>1 DEF DetailPods, byMS, KeyOf
<1>3. ASSUME NEW k \in Keys
      PROVE  /\ buildMicroservices[k].restarts = Restarts(byMS(k))
             /\ buildMicroservices[k].running = RunningIn(byMS(k))
  <2>1. \E kind, want, ready, hpa : buildMicroservices[k] = msEntry(kind, want, ready, byMS(k), hpa)
    BY <1>3 DEF buildMicroservices
  <2> QED
    BY <2>1 DEF msEntry
<1>4. \A p \in podList : KeyOf(p) \in Keys
  BY DEF Keys
<1>5. DOMAIN buildMicroservices = Keys
  BY DEF buildMicroservices
<1> QED
  BY <1>2, <1>3, <1>4, <1>5

\* Each pod is on one detail page and no other: the pages add up to the pods.
LEMMA PagesAddUp ==
    ASSUME WorkloadsAssumption, IInv
    PROVE  SumFunction([k \in Keys |-> Cardinality(byMS(k))]) = Cardinality(podList)
<1> DEFINE part == [k \in Keys |-> byMS(k)]
           f == [k \in Keys |-> Cardinality(byMS(k))]
<1>1. UNION {part[k] : k \in DOMAIN part} = podList
  BY PagesAndEntries DEF byMS
<1>2. \A k, l \in DOMAIN part : k # l => part[k] \cap part[l] = {}
  BY DEF byMS
<1>3. \A k \in Keys : IsFiniteSet(byMS(k))
  BY FiniteLists, FS_Subset DEF byMS
<1>4. \A k \in DOMAIN part : IsFiniteSet(part[k]) /\ f[k] = Cardinality(part[k])
  BY <1>3
<1>5. DOMAIN f = DOMAIN part /\ IsFiniteSet(DOMAIN part)
  BY FiniteLists
<1> HIDE DEF part, f
<1>6. SumFunction(f) = Cardinality(podList)
  BY <1>1, <1>2, <1>4, <1>5, SumOfParts
<1> QED
  BY <1>6 DEF f

\* What is summed workload by workload is the sum over all pods.
LEMMA RestartsAddUp ==
    ASSUME WorkloadsAssumption, IInv
    PROVE  SumFunction([k \in Keys |-> Restarts(byMS(k))]) = Restarts(podList)
<1> DEFINE r == [p \in podList |-> p.restarts]
           part == [k \in Keys |-> Units(r, byMS(k))]
           f == [k \in Keys |-> Restarts(byMS(k))]
<1>1. ASSUME NEW P, P \subseteq podList
      PROVE  Restarts(P) = Cardinality(Units(r, P)) /\ IsFiniteSet(Units(r, P))
  <2> DEFINE q == [p \in P |-> p.restarts]
  <2>1. IsFiniteSet(P)
    BY <1>1, FiniteLists, FS_Subset
  <2>2. Summable(q)
    BY <1>1, <2>1, FiniteLists DEF Summable
  <2>3. Units(q, P) = Units(r, P)
    BY <1>1 DEF Units
  <2>4. \A p \in P : r[p] \in Nat
    BY <1>1, FiniteLists
  <2>5. DOMAIN q = P
    OBVIOUS
  <2>6. Restarts(P) = SumFunction(q)
    BY DEF Restarts
  <2> HIDE DEF q, r
  <2>7. SumFunction(q) = Cardinality(Units(q, P))
    BY <2>2, <2>5, SumIsSize
  <2> QED
    BY <2>1, <2>3, <2>4, <2>6, <2>7, UnitsFinite
<1>2. UNION {part[k] : k \in DOMAIN part} = Units(r, podList)
  BY PagesAndEntries DEF byMS, Units
<1>3. \A k, l \in DOMAIN part : k # l => part[k] \cap part[l] = {}
  BY DEF byMS, Units
<1>4. \A k \in Keys : byMS(k) \subseteq podList
  BY DEF byMS
<1> HIDE DEF r
<1>5. \A k \in DOMAIN part : IsFiniteSet(part[k]) /\ f[k] = Cardinality(part[k])
  BY <1>1, <1>4
<1>6. DOMAIN f = DOMAIN part /\ IsFiniteSet(DOMAIN part)
  BY FiniteLists
<1> HIDE DEF part, f
<1>7. SumFunction(f) = Cardinality(Units(r, podList))
  BY <1>2, <1>3, <1>5, <1>6, SumOfParts
<1> QED
  BY <1>1, <1>7 DEF f

\* Every pod has one phase.
LEMMA PhasesAddUp ==
    ASSUME WorkloadsAssumption, IInv
    PROVE  SumFunction(buildCluster.byPhase) = Cardinality(podList)
<1> DEFINE phases == {PhaseOf(p) : p \in podList}
           part == [ph \in phases |-> {p \in podList : PhaseOf(p) = ph}]
           f == [ph \in phases |-> Cardinality({p \in podList : PhaseOf(p) = ph})]
<1>1. buildCluster.byPhase = f
  BY DEF buildCluster
<1>2. UNION {part[ph] : ph \in DOMAIN part} = podList
  <2>1. \A p \in podList : PhaseOf(p) \in DOMAIN part /\ p \in part[PhaseOf(p)]
    OBVIOUS
  <2>2. \A ph \in DOMAIN part : part[ph] \subseteq podList
    OBVIOUS
  <2> HIDE DEF part
  <2> QED
    BY <2>1, <2>2
<1>3. \A k, l \in DOMAIN part : k # l => part[k] \cap part[l] = {}
  OBVIOUS
<1>4. \A ph \in phases : IsFiniteSet({p \in podList : PhaseOf(p) = ph})
  BY FiniteLists, FS_Subset
<1>5. \A ph \in DOMAIN part : IsFiniteSet(part[ph]) /\ f[ph] = Cardinality(part[ph])
  BY <1>4
<1>6. DOMAIN f = DOMAIN part /\ IsFiniteSet(DOMAIN part)
  BY FiniteLists
<1> HIDE DEF part, f
<1> QED
  BY <1>1, <1>2, <1>3, <1>5, <1>6, SumOfParts

\* A pod is under its node, or its node was not listed.
LEMMA NodesAddUp ==
    ASSUME WorkloadsAssumption, IInv
    PROVE  SumFunction([n \in DOMAIN listed.nodes |-> Cardinality(byNode(n))])
             = Cardinality(podList)
                 - Cardinality({p \in podList : p.node \notin DOMAIN listed.nodes})
<1> DEFINE N == DOMAIN listed.nodes
           stray == {p \in podList : p.node \notin N}
           part == [n \in N |-> byNode(n)]
           f == [n \in N |-> Cardinality(byNode(n))]
<1>1. UNION {part[n] : n \in DOMAIN part} = podList \ stray
  <2>1. Unset \notin N
    BY DEF IInv, ObjectsInv, WorkloadsAssumption
  <2>2. \A p \in podList : p.node \in N => p \in part[p.node]
    BY <2>1 DEF byNode
  <2>3. \A n \in DOMAIN part : part[n] \subseteq podList \ stray
    BY DEF byNode
  <2>4. DOMAIN part = N
    OBVIOUS
  <2> HIDE DEF part
  <2> QED
    BY <2>2, <2>3, <2>4
<1>2. \A k, l \in DOMAIN part : k # l => part[k] \cap part[l] = {}
  BY DEF byNode
<1>3. \A n \in N : IsFiniteSet(byNode(n))
  BY FiniteLists, FS_Subset DEF byNode
<1>4. \A n \in DOMAIN part : IsFiniteSet(part[n]) /\ f[n] = Cardinality(part[n])
  BY <1>3
<1>5. DOMAIN f = DOMAIN part /\ IsFiniteSet(DOMAIN part)
  BY DEF IInv, ObjectsInv
<1>6. Cardinality(podList \ stray) = Cardinality(podList) - Cardinality(stray)
  <2>1. podList \cap stray = stray
    OBVIOUS
  <2> HIDE DEF stray
  <2> QED
    BY <2>1, FiniteLists, FS_Difference
<1> HIDE DEF part, f
<1>7. SumFunction(f) = Cardinality(podList \ stray)
  BY <1>1, <1>2, <1>4, <1>5, SumOfParts
<1> QED
  BY <1>6, <1>7 DEF f

-----------------------------------------------------------------------------
(* The theorems.                                                            *)

\* While a poll lists, whatever changes meanwhile, what it has listed and nobody has
\* touched is still so (collector.go:126-153).
THEOREM WorkloadsInvariant == Spec => []IInv
<1>1. WorkloadsAssumption
  BY WorkloadsAssumption
<1>2. Init => IInv
  BY InitIInv
<1>3. IInv /\ [Next]_vars => IInv'
  BY <1>1, NextIInv
<1> QED
  BY <1>2, <1>3, PTL DEF Spec

\* Whatever else changes during a poll, a node and a workload that have not changed
\* since it began are published as they are (collector.go:126-153, 246-324, 410-429).
THEOREM Exact == Spec => []UntouchedIsExact
<1>1. IInv => UntouchedIsExact
  <2> SUFFICES ASSUME IInv, stage = "listed" PROVE UntouchedIsExact
    BY DEF UntouchedIsExact
  <2>1. UntouchedNodes
    BY NodesExact, WorkloadsAssumption
  <2> QED
    BY <2>1, WorkloadExact, WorkloadsAssumption, RootAssumption DEF UntouchedIsExact
<1> QED
  BY <1>1, WorkloadsInvariant, PTL

\* A pod that was listed is on the detail page of one workload and of
\* no other, and the entry of that workload sums the pods of its page
\* (server.go:193-198, collector.go:286-323).
PagesPartitionPods ==
    stage = "listed" =>
      /\ \A p \in podList : \E k \in Keys : \A l \in Keys : p \in DetailPods(l) <=> l = k
      /\ \A k \in Keys :
           /\ DetailPods(k) \subseteq podList
           /\ buildMicroservices[k].restarts = Restarts(DetailPods(k))
           /\ buildMicroservices[k].running = RunningIn(DetailPods(k))

\* However torn the lists are, every pod is on exactly one detail page, and what an entry
\* sums is what its page shows (server.go:193-198, collector.go:286-323).
THEOREM OnePageEach == Spec => []PagesPartitionPods
<1>1. IInv => PagesPartitionPods
  <2> SUFFICES ASSUME IInv, stage = "listed" PROVE PagesPartitionPods
    BY DEF PagesPartitionPods
  <2>1. ASSUME NEW p \in podList
        PROVE  KeyOf(p) \in Keys /\ \A l \in Keys : p \in DetailPods(l) <=> l = KeyOf(p)
    BY <2>1, PagesAndEntries, WorkloadsAssumption DEF byMS
  <2>2. \A k \in Keys : byMS(k) \subseteq podList
    BY DEF byMS
  <2> QED
    BY <2>1, <2>2, PagesAndEntries, WorkloadsAssumption DEF PagesPartitionPods
<1> QED
  BY <1>1, WorkloadsInvariant, PTL

\* However torn the lists are, the pages of the workloads, the entries, the phases and the
\* totals of the cluster count the same pods and sum the same restarts; under the nodes
\* only the pods of a node that was not listed are missing (server.go:193-198,
\* collector.go:148-155, 263-266, 286-323, 384-398).
THEOREM TotalsAddUp == Spec => []TotalsAgree
<1>1. IInv => TotalsAgree
  <2> SUFFICES ASSUME IInv PROVE TotalsAgree
    OBVIOUS
  <2> DEFINE ms == buildMicroservices
             cl == buildCluster
  <2>1. cl.pods = Cardinality(podList)
    BY DEF buildCluster
  <2>2. \A k \in DOMAIN ms : ms[k].restarts = Restarts(DetailPods(k))
    BY PagesAndEntries, WorkloadsAssumption
  <2>3. [k \in DOMAIN ms |-> Cardinality(DetailPods(k))] = [k \in Keys |-> Cardinality(byMS(k))]
    BY PagesAndEntries, WorkloadsAssumption
  <2>4. [k \in DOMAIN ms |-> ms[k].restarts] = [k \in Keys |-> Restarts(byMS(k))]
    BY PagesAndEntries, WorkloadsAssumption
  <2>5. [n \in DOMAIN buildNodes |-> buildNodes[n].podCount]
          = [n \in DOMAIN listed.nodes |-> Cardinality(byNode(n))]
    BY DEF buildNodes
  <2>6. SumFunction([k \in DOMAIN ms |-> Cardinality(DetailPods(k))]) = cl.pods
    BY <2>1, <2>3, PagesAddUp, WorkloadsAssumption
  <2>7. SumFunction([k \in DOMAIN ms |-> ms[k].restarts]) = Restarts(podList)
    BY <2>4, RestartsAddUp, WorkloadsAssumption
  <2>8. SumFunction(cl.byPhase) = cl.pods
    BY <2>1, PhasesAddUp, WorkloadsAssumption
  <2>9. SumFunction([n \in DOMAIN buildNodes |-> buildNodes[n].podCount])
          = cl.pods - Cardinality({p \in podList : p.node \notin DOMAIN listed.nodes})
    BY <2>1, <2>5, NodesAddUp, WorkloadsAssumption
  <2> HIDE DEF ms, cl
  <2> QED
    BY <2>2, <2>6, <2>7, <2>8, <2>9 DEF TotalsAgree, ms, cl
<1> QED
  BY <1>1, WorkloadsInvariant, PTL
=============================================================================
