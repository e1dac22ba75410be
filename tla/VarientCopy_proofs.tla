------------------------- MODULE VarientCopy_proofs -------------------------
(***************************************************************************)
(* Copies of trees of any depth: they are deep, the memory that there was  *)
(* for them lasts, and they end, as every call does.                       *)
(***************************************************************************)
EXTENDS VarientTree_proofs, FunctionTheorems

-----------------------------------------------------------------------------
(* Trees, for any assignment d of Nodes to Varients: after a step, d is data'. *)

Leads(d, P) == \A x \in P : d[x] # NULL => d[x] \in P

Tree(d, v) ==
  {o \in Obj : \A P \in SUBSET Obj : Leads(d, P) /\ (d[v] = NULL \/ d[v] \in P) => o \in P}

LEMMA TreesBelow ==
  ASSUME NEW v \in Slot
  PROVE  Below(v) = Tree(data, v) /\ Below(v)' = Tree(data', v)
  BY DEF Below, Closed, Tree, Leads

LEMMA TreeFacts ==
  ASSUME NEW d \in [Slot -> Obj \cup {NULL}], NEW v \in Slot
  PROVE  /\ Tree(d, v) \subseteq Obj /\ Leads(d, Tree(d, v))
         /\ d[v] # NULL => d[v] \in Tree(d, v)
         /\ \A P \in SUBSET Obj :
              Leads(d, P) /\ (d[v] = NULL \/ d[v] \in P) => Tree(d, v) \subseteq P
<1>1. Tree(d, v) \subseteq Obj
  BY DEF Tree
<1>2. \A P \in SUBSET Obj :
        Leads(d, P) /\ (d[v] = NULL \/ d[v] \in P) => Tree(d, v) \subseteq P
  BY DEF Tree
<1>3. d[v] # NULL => d[v] \in Tree(d, v)
  BY DEF Tree
<1>4. ASSUME NEW x \in Tree(d, v), d[x] # NULL PROVE d[x] \in Tree(d, v)
  <2>1. d[x] \in Obj
    BY <1>1, <1>4 DEF Slot
  <2>2. ASSUME NEW P \in SUBSET Obj, Leads(d, P), d[v] = NULL \/ d[v] \in P
        PROVE  d[x] \in P
    BY <1>2, <1>4, <2>2 DEF Leads
  <2> QED
    BY <2>1, <2>2 DEF Tree
<1> QED
  BY <1>1, <1>2, <1>3, <1>4 DEF Leads

(* Of an empty Varient there is no tree.                                     *)
LEMMA NoTree ==
  ASSUME NEW d \in [Slot -> Obj \cup {NULL}], NEW v \in Slot, d[v] = NULL
  PROVE  Tree(d, v) = {}
<1>1. Leads(d, {})
  BY DEF Leads
<1> QED
  BY <1>1, TreeFacts

(* Two trees of which one is a mirror of the other, Node by Node, have as    *)
(* many Nodes.                                                               *)
LEMMA MirrorTrees ==
  ASSUME IsFiniteSet(Obj), NEW d \in [Slot -> Obj \cup {NULL}],
         NEW v \in Slot, NEW w \in Slot,
         NEW P \in SUBSET Obj, NEW S \in SUBSET Obj, P \cap S = {}, Leads(d, S),
         NEW f, \A a \in P : f[a] \in S,
         \A a, b \in P : f[a] = f[b] => a = b,
         \A o \in P : IF d[f[o]] = NULL THEN d[o] = NULL
                      ELSE d[o] \in P /\ f[d[o]] = d[f[o]],
         d[v] \in P, f[d[v]] = d[w]
  PROVE  Cardinality(Tree(d, v)) = Cardinality(Tree(d, w)) /\ Tree(d, v) \cap Tree(d, w) = {}
<1>1. Leads(d, P) /\ NULL \notin Obj
  BY TreeAssumption DEF Leads
<1>2. Tree(d, v) \subseteq P /\ Tree(d, w) \subseteq S
  BY <1>1, TreeFacts
<1>3. \A o \in Tree(d, v) : f[o] \in Tree(d, w)
  <2> DEFINE Q == {o \in P : f[o] \in Tree(d, w)}
  <2>1. Leads(d, Q)
    <3> SUFFICES ASSUME NEW o \in Q, d[o] # NULL PROVE d[o] \in Q
      BY DEF Leads
    <3>1. d[o] \in P /\ f[d[o]] = d[f[o]] /\ d[f[o]] # NULL
      OBVIOUS
    <3>2. d[f[o]] \in Tree(d, w)
      BY <3>1, TreeFacts DEF Leads
    <3> QED
      BY <3>1, <3>2
  <2>2. d[v] \in Q
    <3>1. d[w] \in S
      OBVIOUS
    <3>2. d[w] # NULL
      BY <1>1, <3>1
    <3> QED
      BY <3>2, TreeFacts
  <2>3. Tree(d, v) \subseteq Q
    BY <2>1, <2>2, TreeFacts
  <2> QED
    BY <2>3
<1>4. \A s \in Tree(d, w) : \E o \in Tree(d, v) : f[o] = s
  <2> DEFINE Q == {s \in S : \E o \in Tree(d, v) : f[o] = s}
  <2>1. Leads(d, Q)
    <3> SUFFICES ASSUME NEW s \in Q, d[s] # NULL PROVE d[s] \in Q
      BY DEF Leads
    <3>1. PICK o \in Tree(d, v) : f[o] = s
      OBVIOUS
    <3>2. o \in P /\ d[o] \in P /\ f[d[o]] = d[s] /\ d[o] # NULL
      BY <1>1, <1>2, <3>1
    <3>3. d[o] \in Tree(d, v)
      BY <3>2, TreeFacts DEF Leads
    <3>4. d[s] \in S
      BY <3>2
    <3> QED
      BY <3>2, <3>3, <3>4
  <2>2. d[w] \in Q
    <3>1. d[v] \in Tree(d, v) /\ d[w] \in S
      BY <1>1, TreeFacts
    <3> QED
      BY <3>1
  <2>3. Tree(d, w) \subseteq Q
    <3>1. Q \in SUBSET Obj
      OBVIOUS
    <3> QED
      BY <2>1, <2>2, <3>1, TreeFacts
  <2> QED
    BY <2>3
<1>5. ExistsBijection(Tree(d, v), Tree(d, w))
  <2> DEFINE g == [o \in Tree(d, v) |-> f[o]]
  <2>1. /\ g \in [Tree(d, v) -> Tree(d, w)]
        /\ \A a, b \in Tree(d, v) : g[a] = g[b] => a = b
        /\ \A s \in Tree(d, w) : \E o \in Tree(d, v) : g[o] = s
    BY <1>2, <1>3, <1>4
  <2>2. g \in Bijection(Tree(d, v), Tree(d, w))
    BY <2>1, Fun_IsBij
  <2> QED
    BY <2>2, Fun_ExistsBij
<1>6. IsFiniteSet(Tree(d, v))
  BY TreeFacts, FS_Subset
<1> QED
  BY <1>2, <1>5, <1>6, FS_Bijection

-----------------------------------------------------------------------------
(* While a copy is made, the Nodes made so far, N, are a mirror of Nodes of  *)
(* the source's tree, S: f leads from a Node to the one it was copied from.  *)

Copying == stack # <<>> /\ Builds(stack[1]) /\ stack[1].src # NULL

(* The two are apart, and apart from the Varients of the client's call.      *)
Separate(N, S) ==
  /\ N \cap S = {} /\ Closed(S)
  /\ \A o \in S : heap[o] = "live"
  /\ \A o \in N : heap[o] # "free"
  /\ stack[1].to \notin N \cup S /\ stack[1].src \notin N \cup S \cup {stack[1].to}

(* Each call copies the Node below the one that the call below it copies;    *)
(* while the calls go down, theirs are all the Nodes made.                   *)
Descends(N, f) ==
  /\ stack[1].read = data[stack[1].src]
  /\ \A i \in 2 .. Len(stack) : stack[i].read = data[stack[i - 1].read]
  /\ \A i \in 1 .. Len(stack) : stack[i].obj \in N /\ stack[i].read = f[stack[i].obj]
  /\ Top.obj \notin exists => N = {stack[i].obj : i \in 1 .. Len(stack)}

(* The child of a Node made is the mirror of the child of its original.      *)
Same(N, f) ==
  /\ \A a, b \in N : f[a] = f[b] => a = b
  /\ \A o \in N \cap exists :
       IF data[f[o]] = NULL THEN data[o] = NULL
       ELSE data[o] \in N \cap exists /\ f[data[o]] = data[f[o]]

(* There is memory for a mirror of the rest.                                 *)
Room(N, S) == Cardinality(Obj \ Allocated) + Cardinality(N) >= Cardinality(S)

Mirrors(N, S, f) == Separate(N, S) /\ Descends(N, f) /\ Same(N, f) /\ Room(N, S)

(* What operator= is to copy fits, before and after it deletes.              *)
Reserved == stack # <<>> /\ stack[1].op = "release" => Fits(stack[1].src)

(* A Varient constructed from a Node does not copy the child.                *)
Created ==
  stack # <<>> /\ Builds(stack[1]) /\ stack[1].src = NULL =>
    Len(stack) = 1 /\ stack[1].read = NULL

Mirrored ==
  Copying => \E N, S \in SUBSET Obj : \E f \in [N -> S] : Mirrors(N, S, f)

(* Memory is taken for one Node.                                             *)
LEMMA OneTaken ==
  ASSUME IsFiniteSet(Obj), NEW F \in SUBSET Obj, NEW G \in SUBSET Obj, NEW o \in Obj,
         F \subseteq G \cup {o}
  PROVE  Cardinality(F) \in Nat /\ Cardinality(G) \in Nat /\ Cardinality(F) <= Cardinality(G) + 1
<1>1. IsFiniteSet(F) /\ IsFiniteSet(G)
  BY FS_Subset
<1>2. IsFiniteSet(G \cup {o}) /\ Cardinality(G \cup {o}) <= Cardinality(G) + 1
      /\ Cardinality(G) \in Nat
  <2>1. Cardinality(G) \in Nat
    BY <1>1, FS_CardinalityType
  <2>2. IsFiniteSet(G \cup {o})
        /\ (Cardinality(G \cup {o}) = Cardinality(G) \/ Cardinality(G \cup {o}) = Cardinality(G) + 1)
    BY <1>1, FS_AddElement
  <2> QED
    BY <2>1, <2>2
<1>3. Cardinality(F) <= Cardinality(G \cup {o})
  BY <1>2, FS_Subset
<1> QED
  BY <1>1, <1>2, <1>3, FS_CardinalityType

(* The copy of a tree begins: of a tree whose Varients no call works on.     *)
LEMMA MirrorBegins ==
  ASSUME IsFiniteSet(Obj), IInv, NEW g \in Frame, g.src \in exists, g.src # NULL, data[g.src] # NULL,
         g.read = data[g.src], g.obj \notin exists, g.to # g.obj,
         NEW S0 \in SUBSET exists, Closed(S0), g.src \in S0, g.to \notin S0,
         S0 \cap Targets = {},
         data' = [data EXCEPT ![g.to] = data[g.src]], exists' = exists, stack' = <<g>>,
         heap'[g.obj] = "building",
         \A o \in Obj : heap[o] = "live" => heap'[o] = "live",
         Fits(g.src), \A o \in Obj \ {g.obj} : heap[o] = "free" => heap'[o] = "free"
  PROVE  Mirrored'
<1>1. /\ TypeOK /\ g.src \in Slot /\ g.to \in Slot /\ g.obj \in Obj /\ data[g.src] \in Obj
      /\ exists \subseteq Slot /\ Len(stack') = 1 /\ stack'[1] = g
      /\ \A x \in Slot \ {g.to} : data'[x] = data[x]
  BY DEF IInv, TypeOK, Frame
<1>2. PICK w \in exists : w = g.src
  OBVIOUS
<1>3. PICK S : S = Below(w)
  OBVIOUS
<1>4. S \subseteq S0 \cap Obj
  <2>1. Closed(S0 \cap Obj)
    BY <1>1 DEF Closed, TypeOK
  <2>2. data[w] \in S0 \cap Obj
    BY <1>1, <1>2 DEF Closed
  <2> QED
    BY <1>1, <1>2, <1>3, <2>1, <2>2, BelowFacts
<1>5. Closed(S) /\ data[w] \in S
  BY <1>1, <1>2, <1>3, BelowFacts
<1>6. \A x \in S \cup {w} : x \in exists /\ x \notin Targets
  BY <1>2, <1>4
<1>7. ASSUME NEW o \in S PROVE heap[o] = "live"
  <2>1. PICK y \in S \cup {w} : data[y] = o
    BY <1>1, <1>2, <1>3, OwnersBelow
  <2>2. o # NULL
    BY <1>4, TreeAssumption
  <2> QED
    BY <1>6, <2>1, <2>2, QuietHolds
<1>8. w \notin S
  <2>1. PICK depth \in [Slot -> Nat] : Deeper(depth)
    BY DEF IInv, Ranked
  <2> DEFINE P == {x \in S : depth[w] < depth[x]}
  <2>2. ASSUME NEW x \in S \cup {w}, data[x] # NULL
        PROVE  depth[x] < depth[data[x]] /\ depth[x] \in Nat /\ depth[data[x]] \in Nat
    <3>1. x \in Owners /\ data[x] \in Obj
      BY <1>6, <2>2, QuietHolds
    <3> QED
      BY <1>1, <1>6, <2>1, <3>1 DEF Deeper, Slot
  <2>3. Closed(P)
    <3> SUFFICES ASSUME NEW x \in P, data[x] # NULL PROVE data[x] \in P
      BY DEF Closed
    <3>1. depth[x] < depth[data[x]] /\ depth[x] \in Nat /\ depth[data[x]] \in Nat
      BY <2>2
    <3>2. depth[w] \in Nat /\ data[x] \in S
      BY <1>1, <1>2, <1>5 DEF Closed
    <3> QED
      BY <3>1, <3>2
  <2>4. data[w] \in P
    BY <1>1, <1>2, <1>5, <2>2
  <2>5. S \subseteq P
    BY <1>1, <1>2, <1>3, <1>4, <2>3, <2>4, BelowFacts
  <2>6. ~(depth[w] < depth[w])
    BY <1>1, <1>2
  <2> QED
    BY <2>5, <2>6
<1> DEFINE N == {g.obj}
           f == [x \in N |-> g.read]
<1>9. N \in SUBSET Obj /\ S \in SUBSET Obj /\ f \in [N -> S] /\ f[g.obj] = g.read
  BY <1>1, <1>2, <1>4, <1>5
<1>10. Separate(N, S)'
  <2>1. Closed(S)'
    BY <1>1, <1>4, <1>5 DEF Closed, Slot
  <2>2. g.obj \notin S /\ g.src # g.obj /\ g.to \notin S /\ g.src \notin S /\ g.src # g.to
    BY <1>2, <1>6, <1>8, <1>4
  <2>3. heap'[g.obj] # "free" /\ \A o \in S : heap'[o] = "live"
    BY <1>4, <1>7
  <2> QED
    BY <1>1, <2>1, <2>2, <2>3 DEF Separate
<1>11. Descends(N, f)'
  <2>1. \A i \in 1 .. Len(stack') : i = 1
    BY <1>1
  <2>2. ~ \E i \in 2 .. Len(stack') : TRUE
    BY <1>1
  <2>3. stack'[1].read = data'[stack'[1].src]
    BY <1>1
  <2>4. N = {stack'[i].obj : i \in 1 .. Len(stack')}
    BY <1>1
  <2> QED
    BY <1>1, <1>9, <2>1, <2>2, <2>3, <2>4 DEF Descends
<1>12. Same(N, f)'
  BY DEF Same
<1>13. Room(N, S)'
  <2>0. PICK F, G : F = Obj \ Allocated /\ G = Obj \ Allocated'
    OBVIOUS
  <2>1. F \in SUBSET Obj /\ G \in SUBSET Obj /\ F \subseteq G \cup {g.obj}
    BY <2>0 DEF Allocated
  <2>2. Cardinality(F) <= Cardinality(G) + 1 /\ Cardinality(F) \in Nat /\ Cardinality(G) \in Nat
    BY <1>1, <2>1, OneTaken
  <2>3. Cardinality(N) = 1 /\ Cardinality(S) \in Nat
    BY <1>9, FS_Singleton, FS_Subset, FS_CardinalityType
  <2>4. Cardinality(F) >= Cardinality(S)
    BY <1>2, <1>3, <2>0 DEF Fits
  <2>5. Cardinality(G) + Cardinality(N) >= Cardinality(S)
    <3> HIDE DEF N
    <3> QED
      BY <2>2, <2>3, <2>4
  <2> QED
    BY <2>0, <2>5 DEF Room
<1> HIDE DEF N, f
<1> QED
  BY <1>9, <1>10, <1>11, <1>12, <1>13 DEF Mirrored, Mirrors

(* What a mirror says of the call on top and of the Varients involved        *)
LEMMA MirrorFacts ==
  ASSUME IInv, Copying, NEW N \in SUBSET Obj, NEW S \in SUBSET Obj, NEW f \in [N -> S],
         Mirrors(N, S, f)
  PROVE  /\ TypeOK /\ Top \in Frame /\ Top = stack[Len(stack)] /\ exists \subseteq Slot
         /\ Len(stack) \in 1 .. Len(stack) /\ 1 \in 1 .. Len(stack)
         /\ Builds(Top) /\ stack[1].src \in exists /\ stack[1].src \in Slot
         /\ Top.obj \in N /\ Top.obj \notin S /\ Top.obj \in Obj /\ Top.obj \notin Targets
         /\ Top.read = f[Top.obj] /\ Top.read \in S /\ Top.read # NULL
         /\ Top.read \in exists /\ Top.read \notin Targets
         /\ Top.obj # stack[1].src /\ NULL \notin S
         /\ \A i \in 1 .. Len(stack) : stack[i].read \in S /\ i <= Len(stack)
<1>1. /\ TypeOK /\ Top \in Frame /\ Top = stack[Len(stack)] /\ exists \subseteq Slot
      /\ Len(stack) \in 1 .. Len(stack) /\ 1 \in 1 .. Len(stack) /\ Builds(Top)
      /\ Top.obj \notin Targets
  BY TopFree DEF IInv, TypeOK, Copying
<1>2. \A i \in 1 .. Len(stack) : stack[i].read \in S /\ i <= Len(stack)
  BY <1>1 DEF Mirrors, Descends
<1>3. /\ Top.obj \in N /\ Top.obj \in Obj /\ Top.obj \notin S
      /\ Top.read = f[Top.obj] /\ Top.read \in S /\ Top.obj # stack[1].src
  BY <1>1 DEF Mirrors, Separate, Descends
<1>4. NULL \notin S
  BY TreeAssumption
<1>5. stack[1].src \in exists
  BY <1>1 DEF IInv, InCall, Building, Copying
<1> QED
  BY <1>1, <1>2, <1>3, <1>4, <1>5, ReadRests DEF Copying

(* The Node to be copied next has not been copied: it has one owner, whose    *)
(* mirror is still to own one.                                               *)
LEMMA NextIsNew ==
  ASSUME IInv, Copying, NEW N \in SUBSET Obj, NEW S \in SUBSET Obj, NEW f \in [N -> S],
         Mirrors(N, S, f), Top.obj \notin exists, data[Top.read] # NULL
  PROVE  \A a \in N : f[a] # data[Top.read]
<1>1. PICK c \in N, r \in S, n \in Nat : c = Top.obj /\ r = Top.read /\ n = Len(stack)
  BY MirrorFacts, StackFacts
<1>2. /\ c \notin exists /\ r \in exists /\ r \notin Targets /\ f[c] = r
      /\ data[r] # NULL /\ stack[n] = Top /\ n \in 1 .. n /\ TypeOK /\ stack[1].src \in exists
      /\ \A i \in 1 .. n : stack[i].read \in S /\ i <= n
  BY <1>1, MirrorFacts
<1>3. /\ \A o \in S : heap[o] = "live" /\ o \in exists
      /\ stack[1].to \notin S /\ stack[1].src \notin S \cup {stack[1].to}
  BY DEF Mirrors, Separate, IInv, Children
<1>4. /\ \A i \in 1 .. n : stack[i].obj \in N /\ stack[i].read = f[stack[i].obj]
      /\ N = {stack[i].obj : i \in 1 .. n}
  BY <1>1, <1>2 DEF Mirrors, Descends
<1>5. r \in Owners
  BY <1>2, QuietHolds
<1>6. SUFFICES ASSUME NEW i \in 1 .. n, f[stack[i].obj] = data[r] PROVE FALSE
  BY <1>1, <1>4
<1>7. stack[i].read = data[r]
  BY <1>4, <1>6
<1>8. CASE i = 1
  <2>1. data[stack[1].src] = data[r]
    BY <1>7, <1>8 DEF Mirrors, Descends
  <2>2. stack[1].src \in Owners
    BY <1>2, <1>3, <2>1 DEF Owners, Unfinished
  <2> QED
    BY <1>3, <1>5, <2>1, <2>2 DEF IInv, Single
<1>9. CASE i # 1
  <2>1. i \in 2 .. n /\ i - 1 \in 1 .. n /\ i - 1 # n /\ i - 1 <= n
    BY <1>1, <1>9
  <2>2. PICK y \in S : y = stack[i - 1].read
    BY <1>2, <2>1
  <2>3. data[y] = data[r]
    BY <1>1, <1>7, <2>1, <2>2 DEF Mirrors, Descends
  <2>4. y \in Owners
    BY <1>2, <1>3, <2>3 DEF Owners, Unfinished
  <2>5. y = r
    BY <1>5, <2>3, <2>4 DEF IInv, Single
  <2>6. f[stack[i - 1].obj] = f[c] /\ stack[i - 1].obj \in N
    BY <1>2, <1>4, <2>1, <2>2, <2>5
  <2>7. stack[i - 1].obj = c
    BY <2>6 DEF Mirrors, Same
  <2> QED
    BY <1>1, <1>2, <2>1, <2>7, Distinct DEF IInv
<1> QED
  BY <1>8, <1>9

(* The copy of the child of a Node begins.                                   *)
LEMMA MirrorGrows ==
  ASSUME IsFiniteSet(Obj), IInv, Copying, NEW N \in SUBSET Obj, NEW S \in SUBSET Obj, NEW f \in [N -> S],
         Mirrors(N, S, f), Top.obj \notin exists, data[Top.read] # NULL,
         NEW g \in Frame, g.to = Top.obj, g.src = Top.read, g.read = data[Top.read],
         heap[g.obj] = "free", heap' = [heap EXCEPT ![g.obj] = "building"],
         data' = [data EXCEPT ![Top.obj] = data[Top.read]], exists' = exists,
         stack' = Append(stack, g)
  PROVE  Mirrored'
<1> DEFINE M == N \cup {g.obj}
           h == [x \in M |-> IF x = g.obj THEN g.read ELSE f[x]]
<1>1. PICK c \in Obj, r \in S, b \in Obj, n \in Nat :
        c = Top.obj /\ r = Top.read /\ b = g.obj /\ n = Len(stack)
  BY MirrorFacts, StackFacts DEF Frame
<1>2. /\ c \in N /\ c \notin S /\ c \notin exists /\ r \in exists /\ r \notin Targets
      /\ f[c] = r /\ c # stack[1].src /\ data[r] # NULL /\ stack[n] = Top /\ n \in 1 .. n
      /\ exists \subseteq Slot /\ stack[1].src \in exists /\ 1 \in 1 .. n /\ TypeOK
      /\ \A i \in 1 .. n : stack[i].read \in S /\ i <= n
  BY <1>1, MirrorFacts
<1>3. /\ Len(stack') = n + 1 /\ stack'[n + 1] = g /\ stack'[1] = stack[1]
      /\ \A i \in 1 .. n : stack'[i] = stack[i] /\ i \in 1 .. n + 1
      /\ \A i \in 1 .. n + 1 : i \in 1 .. n \/ i = n + 1
  BY <1>1, <1>2, PushFacts DEF TypeOK, Copying
<1>4. /\ N \cap S = {} /\ Closed(S) /\ \A o \in S : heap[o] = "live"
      /\ \A o \in N : heap[o] # "free"
      /\ stack[1].to \notin N \cup S /\ stack[1].src \notin N \cup S \cup {stack[1].to}
  BY DEF Mirrors, Separate
<1>5. b \notin N /\ b \notin S /\ b \notin exists /\ heap[b] = "free" /\ heap'[b] = "building"
      /\ \A o \in Obj \ {b} : heap'[o] = heap[o]
  BY <1>1, <1>4 DEF IInv, Children, TypeOK
<1>6. g.read \in S /\ g.read = data[r]
  BY <1>1, <1>2, <1>4 DEF Closed
<1>7. M \in SUBSET Obj /\ h \in [M -> S] /\ h[b] = data[r] /\ \A o \in N : h[o] = f[o]
  BY <1>1, <1>5, <1>6
<1>8. \A x \in Slot \ {c} : data'[x] = data[x]
  BY <1>1, <1>2 DEF TypeOK
<1>9. Separate(M, S)'
  <2>1. Closed(S)'
    BY <1>2, <1>4, <1>8 DEF Closed, Slot
  <2>2. stack[1].to # b
    BY <1>1, <1>2, <1>5, TargetsUsed DEF IInv
  <2>3. stack[1].src # b
    BY <1>2, <1>5
  <2>4. \A o \in M : heap'[o] # "free"
    BY <1>1, <1>4, <1>5
  <2>5. \A o \in S : heap'[o] = "live"
    BY <1>4, <1>5
  <2> QED
    BY <1>1, <1>3, <1>4, <1>5, <2>1, <2>2, <2>3, <2>4, <2>5 DEF Separate
<1>10. \A i \in 1 .. n : stack[i].obj \in N /\ stack[i].read = f[stack[i].obj]
  BY <1>1 DEF Mirrors, Descends
<1>11. N = {stack[i].obj : i \in 1 .. n}
  BY <1>1, <1>2 DEF Mirrors, Descends
<1>12. Descends(M, h)'
  <2>1. stack'[1].read = data'[stack'[1].src]
    BY <1>2, <1>3, <1>8 DEF Mirrors, Descends
  <2>2. ASSUME NEW i \in 2 .. n + 1 PROVE stack'[i].read = data'[stack'[i - 1].read]
    <3>1. i - 1 \in 1 .. n /\ stack'[i - 1] = stack[i - 1] /\ (i = n + 1 => i - 1 = n)
      BY <1>1, <1>3
    <3>2. data'[stack[i - 1].read] = data[stack[i - 1].read]
      BY <1>2, <1>8, <3>1 DEF Slot
    <3>3. CASE i = n + 1
      BY <1>1, <1>2, <1>3, <1>6, <3>1, <3>2, <3>3
    <3>4. CASE i # n + 1
      <4>1. i \in 2 .. n /\ i \in 1 .. n
        BY <1>1, <3>4
      <4>2. stack[i].read = data[stack[i - 1].read]
        BY <1>1, <4>1 DEF Mirrors, Descends
      <4> QED
        BY <1>3, <3>1, <3>2, <4>1, <4>2
    <3> QED
      BY <3>3, <3>4
  <2>3. ASSUME NEW i \in 1 .. n + 1
        PROVE  stack'[i].obj \in M /\ stack'[i].read = h[stack'[i].obj]
    BY <1>1, <1>3, <1>6, <1>7, <1>10
  <2>4. M = {stack'[i].obj : i \in 1 .. n + 1}
    <3>1. \A i \in 1 .. n + 1 : stack'[i].obj \in M
      BY <2>3
    <3>2. \A o \in M : \E i \in 1 .. n + 1 : o = stack'[i].obj
      <4>1. \A o \in N : \E i \in 1 .. n + 1 : o = stack'[i].obj
        BY <1>3, <1>11
      <4>2. n + 1 \in 1 .. n + 1
        BY <1>1
      <4> QED
        BY <1>3, <4>1, <4>2
    <3> HIDE DEF M
    <3> QED
      BY <3>1, <3>2
  <2> HIDE DEF M, h
  <2> QED
    BY <1>3, <2>1, <2>2, <2>3, <2>4 DEF Descends
<1>13. Same(M, h)'
  <2>1. \A a \in N : f[a] # data[r]
    BY <1>1, <1>2, NextIsNew
  <2>2. ASSUME NEW a \in M, NEW e \in M, h[a] = h[e] PROVE a = e
    <3>1. \A x \in M : x = b \/ x \in N
      BY <1>1
    <3>2. a \in N /\ e \in N => a = e
      BY <1>7, <2>2 DEF Mirrors, Same
    <3>3. a = b /\ e \in N => FALSE
      BY <1>6, <1>7, <2>1, <2>2
    <3>4. e = b /\ a \in N => FALSE
      BY <1>7, <2>1, <2>2
    <3> QED
      BY <3>1, <3>2, <3>3, <3>4
  <2>3. ASSUME NEW o \in M \cap exists
        PROVE  IF data'[h[o]] = NULL THEN data'[o] = NULL
               ELSE data'[o] \in M \cap exists' /\ h[data'[o]] = data'[h[o]]
    <3>1. o \in N \cap exists /\ h[o] = f[o] /\ f[o] \in S
      BY <1>1, <1>5, <1>7
    <3>2. data'[o] = data[o] /\ data'[f[o]] = data[f[o]]
      BY <1>2, <1>8, <3>1 DEF Slot
    <3>3. IF data[f[o]] = NULL THEN data[o] = NULL
          ELSE data[o] \in N \cap exists /\ f[data[o]] = data[f[o]]
      BY <3>1 DEF Mirrors, Same
    <3> QED
      BY <1>7, <3>1, <3>2, <3>3
  <2> HIDE DEF M, h
  <2> QED
    BY <2>2, <2>3 DEF Same
<1>14. Room(M, S)'
  <2>0. PICK F, G : F = Obj \ Allocated /\ G = Obj \ Allocated'
    OBVIOUS
  <2>1. F \in SUBSET Obj /\ G \in SUBSET Obj /\ F \subseteq G \cup {b}
    BY <1>5, <2>0 DEF Allocated
  <2>2. Cardinality(F) <= Cardinality(G) + 1 /\ Cardinality(F) \in Nat /\ Cardinality(G) \in Nat
    BY <2>1, OneTaken
  <2>3. Cardinality(M) = Cardinality(N) + 1 /\ Cardinality(N) \in Nat /\ Cardinality(S) \in Nat
    <3>1. IsFiniteSet(N) /\ IsFiniteSet(S)
      BY FS_Subset
    <3> QED
      BY <1>1, <1>5, <3>1, FS_AddElement, FS_CardinalityType
  <2>4. Cardinality(F) + Cardinality(N) >= Cardinality(S)
    BY <2>0 DEF Mirrors, Room
  <2>5. Cardinality(G) + Cardinality(M) >= Cardinality(S)
    <3> HIDE DEF M
    <3> QED
      BY <2>2, <2>3, <2>4
  <2> QED
    BY <2>0, <2>5 DEF Room
<1> HIDE DEF M, h
<1> QED
  BY <1>7, <1>9, <1>12, <1>13, <1>14 DEF Mirrored, Mirrors

(* The child of a Node is constructed: empty, or its copy begins.            *)
LEMMA MirrorChild ==
  ASSUME IsFiniteSet(Obj), IInv, Copying, Mirrored, BuildChild
  PROVE  Mirrored'
<1>1. PICK N \in SUBSET Obj, S \in SUBSET Obj : \E f \in [N -> S] : Mirrors(N, S, f)
  BY DEF Mirrored
<1>2. PICK f \in [N -> S] : Mirrors(N, S, f)
  BY <1>1
<1>3. PICK c \in Obj, r \in S : c = Top.obj /\ r = Top.read
  BY <1>2, MirrorFacts
<1>4. /\ TypeOK /\ c \in N /\ c \notin S /\ c \notin exists /\ f[c] = r /\ c # stack[1].src
      /\ r \in exists /\ c \in Slot /\ Top.read # NULL /\ Top = stack[Len(stack)]
      /\ \A i \in 1 .. Len(stack) : stack[i].read \in S
      /\ stack[1].src \in Slot /\ exists \subseteq Slot
  BY <1>2, <1>3, MirrorFacts DEF BuildChild, Slot
<1>5. TakeMembers(c, r, "copy", heap, stack)
  BY <1>3, <1>4 DEF BuildChild
<1>6. CASE data[r] = NULL
  <2>1. /\ data' = [data EXCEPT ![c] = NULL] /\ exists' = exists \cup {c}
        /\ heap' = heap /\ stack' = stack
    BY <1>4, <1>5, <1>6, TakesFrom
  <2>2. data'[c] = NULL /\ \A x \in Slot \ {c} : data'[x] = data[x]
    BY <1>4, <2>1 DEF TypeOK
  <2>3. Separate(N, S)'
    <3>1. Closed(S)'
      BY <1>2, <1>4, <2>2 DEF Mirrors, Separate, Closed, Slot
    <3> QED
      BY <1>2, <2>1, <3>1 DEF Mirrors, Separate
  <2>4. Descends(N, f)'
    <3>1. data'[stack[1].src] = data[stack[1].src]
      BY <1>4, <2>2
    <3>2. ASSUME NEW i \in 2 .. Len(stack)
          PROVE  stack[i].read = data'[stack[i - 1].read]
      <4>1. i - 1 \in 1 .. Len(stack)
        BY StackFacts, <1>4
      <4>2. stack[i - 1].read \in S /\ stack[i].read = data[stack[i - 1].read]
        BY <1>2, <1>4, <4>1 DEF Mirrors, Descends
      <4> QED
        BY <1>4, <2>2, <4>2 DEF Slot
    <3>3. Top.obj \in exists'
      BY <1>3, <2>1
    <3>4. Top' = Top
      BY <2>1 DEF Top
    <3> QED
      BY <1>2, <2>1, <3>1, <3>2, <3>3, <3>4 DEF Mirrors, Descends
  <2>5. Same(N, f)'
    <3>1. ASSUME NEW o \in N \cap exists'
          PROVE  IF data'[f[o]] = NULL THEN data'[o] = NULL
                 ELSE data'[o] \in N \cap exists' /\ f[data'[o]] = data'[f[o]]
      <4>1. f[o] \in S /\ data'[f[o]] = data[f[o]]
        BY <1>4, <2>2 DEF Slot
      <4>2. CASE o = c
        BY <1>4, <1>6, <2>2, <4>1, <4>2
      <4>3. CASE o # c
        BY <1>2, <2>1, <2>2, <4>1, <4>3 DEF Mirrors, Same, Slot
      <4> QED
        BY <4>2, <4>3
    <3> QED
      BY <1>2, <3>1 DEF Mirrors, Same
  <2>6. Room(N, S)'
    BY <1>2, <2>1 DEF Mirrors, Room, Allocated
  <2> QED
    BY <2>3, <2>4, <2>5, <2>6 DEF Mirrored, Mirrors
<1>7. CASE data[r] # NULL
  <2>1. PICK g \in Frame :
          /\ g.op = "copy" /\ g.to = c /\ g.src = r /\ g.read = data[r]
          /\ heap[g.obj] = "free" /\ heap' = [heap EXCEPT ![g.obj] = "building"]
          /\ stack' = Append(stack, g)
    BY <1>4, <1>5, <1>7, TakesFrom
  <2>2. data' = [data EXCEPT ![c] = data[r]] /\ exists' = exists
    BY <1>4, <1>5, <1>7, TakesFrom
  <2> QED
    BY <1>2, <1>3, <1>4, <1>7, <2>1, <2>2, MirrorGrows
<1> QED
  BY <1>6, <1>7

(* A Node is stored in the Node above it.                                    *)
LEMMA MirrorStores ==
  ASSUME IInv, Copying, Mirrored, EndBuild, stack' # <<>>
  PROVE  Mirrored'
<1>1. PICK N \in SUBSET Obj, S \in SUBSET Obj : \E f \in [N -> S] : Mirrors(N, S, f)
  BY DEF Mirrored
<1>2. PICK f \in [N -> S] : Mirrors(N, S, f)
  BY <1>1
<1>3. PICK b \in Obj, r \in S : b = Top.obj /\ r = Top.read
  BY <1>2, MirrorFacts
<1>4. /\ TypeOK /\ b \in N /\ f[b] = r /\ b \in exists /\ Top = stack[Len(stack)]
      /\ \A i \in 1 .. Len(stack) : stack[i].read \in S
      /\ Len(stack) \in 1 .. Len(stack) /\ NULL \notin S /\ stack # <<>>
      /\ stack[1].src \in Slot
  BY <1>2, <1>3, MirrorFacts DEF EndBuild, Copying
<1>5. PICK m \in Nat : m = Len(stack) - 1
  BY <1>4, StackFacts
<1>6. /\ Len(stack') = m /\ stack'[1] = stack[1] /\ m \in 1 .. m
      /\ \A i \in 1 .. m : i \in 1 .. Len(stack) /\ stack'[i] = stack[i]
  <2>1. stack' = Popped
    BY DEF EndBuild
  <2>2. /\ Len(stack') = Len(stack) - 1 /\ stack'[1] = stack[1] /\ 1 \in 1 .. Len(stack')
        /\ \A i \in 1 .. Len(stack') : i \in 1 .. Len(stack) /\ stack'[i] = stack[i]
    BY <1>4, <2>1, Popping DEF IInv
  <2> QED
    BY <1>5, <2>2
<1>7. m + 1 \in 2 .. Len(stack) /\ (m + 1) - 1 = m /\ m + 1 = Len(stack)
  BY <1>5, <1>6
<1>8. PICK c \in N : c = Top.to /\ c = stack[m].obj /\ stack[m].read = f[c]
  <2>1. Top.to = stack[m].obj
    BY <1>4, <1>7 DEF IInv, Nested
  <2> QED
    BY <1>2, <1>6, <2>1 DEF Mirrors, Descends
<1>9. r = data[f[c]] /\ r # NULL
  BY <1>2, <1>3, <1>4, <1>7, <1>8 DEF Mirrors, Descends
<1>10. /\ data'[c] = b /\ \A x \in Slot \ {c} : data'[x] = data[x]
       /\ exists' = exists \cup {c} /\ heap' = [heap EXCEPT ![b] = "live"]
  BY <1>3, <1>8 DEF EndBuild, IInv, TypeOK, Slot
<1>11. c \notin S /\ c # stack[1].src /\ \A x \in S : data'[x] = data[x]
  BY <1>2, <1>10 DEF Mirrors, Separate, Slot
<1>12. Separate(N, S)'
  <2>1. Closed(S)'
    BY <1>2, <1>11 DEF Mirrors, Separate, Closed
  <2>2. /\ \A o \in S : heap'[o] = "live"
        /\ \A o \in N : heap'[o] # "free"
    BY <1>2, <1>4, <1>10 DEF Mirrors, Separate, TypeOK
  <2> QED
    BY <1>2, <1>6, <2>1, <2>2 DEF Mirrors, Separate
<1>13. Descends(N, f)'
  <2>1. stack'[1].read = data'[stack'[1].src]
    BY <1>2, <1>4, <1>6, <1>10, <1>11 DEF Mirrors, Descends
  <2>2. ASSUME NEW i \in 2 .. m PROVE stack'[i].read = data'[stack'[i - 1].read]
    <3>1. i \in 1 .. m /\ i - 1 \in 1 .. m /\ i \in 2 .. Len(stack)
      BY <1>5
    <3> QED
      BY <1>2, <1>4, <1>6, <1>11, <3>1 DEF Mirrors, Descends
  <2>3. \A i \in 1 .. m : stack'[i].obj \in N /\ stack'[i].read = f[stack'[i].obj]
    BY <1>2, <1>6 DEF Mirrors, Descends
  <2>4. Top'.obj \in exists'
    BY <1>6, <1>8, <1>10 DEF Top
  <2> QED
    BY <1>6, <2>1, <2>2, <2>3, <2>4 DEF Descends
<1>14. Same(N, f)'
  <2>1. ASSUME NEW o \in N \cap exists'
        PROVE  IF data'[f[o]] = NULL THEN data'[o] = NULL
               ELSE data'[o] \in N \cap exists' /\ f[data'[o]] = data'[f[o]]
    <3>1. data'[f[o]] = data[f[o]]
      BY <1>11
    <3>2. CASE o = c
      BY <1>4, <1>9, <1>10, <3>1, <3>2
    <3>3. CASE o # c
      BY <1>2, <1>10, <3>1, <3>3 DEF Mirrors, Same, Slot
    <3> QED
      BY <3>2, <3>3
  <2> QED
    BY <1>2, <2>1 DEF Mirrors, Same
<1>15. Room(N, S)'
  <2>1. heap[b] # "free"
    BY <1>2, <1>4 DEF Mirrors, Separate
  <2>2. Allocated' = Allocated
    BY <1>4, <1>10, <2>1 DEF Allocated, TypeOK
  <2> QED
    BY <1>2, <2>2 DEF Mirrors, Room
<1> QED
  BY <1>12, <1>13, <1>14, <1>15 DEF Mirrored, Mirrors

(* The client copies or assigns, to a Varient that has nothing to release.   *)
LEMMA MirrorStart ==
  ASSUME IsFiniteSet(Obj), IInv, Related = FALSE, Start
  PROVE  Mirrored'
<1>1. /\ TypeOK /\ stack = <<>> /\ Targets = {} /\ exists \subseteq Slot
      /\ Children /\ Root \subseteq Slot /\ Root \cap Obj = {}
  <2>1. Len(stack) = 0
    BY DEF Start
  <2> QED
    BY <2>1, TreeAssumption DEF IInv, TypeOK, Start, Targets, Slot
<1>2. ASSUME stack' = stack PROVE Mirrored'
  BY <1>1, <1>2 DEF Mirrored, Copying
<1>3. ASSUME NEW g \in Frame, stack' = Append(stack, g), g.src = NULL \/ ~Builds(g)
      PROVE  Mirrored'
  <2>1. stack'[1] = g
    BY <1>1, <1>3
  <2> QED
    BY <1>3, <2>1 DEF Mirrored, Copying
<1>4. ASSUME NEW v \in Slot, NEW w \in exists, NEW op \in {"copy", "assign"},
             TakeMembers(v, w, op, heap, stack),
             NEW S0 \in SUBSET exists, Closed(S0), w \in S0, v \notin S0,
             v \in exists \/ v \in Root, Fits(w)
      PROVE  Mirrored'
  <2>1. CASE data[w] = NULL
    BY <1>1, <1>2, <1>4, <2>1, TakesFrom
  <2>2. CASE data[w] # NULL
    <3>1. PICK g \in Frame :
            /\ g.op = op /\ g.to = v /\ g.src = w /\ g.read = data[w]
            /\ heap[g.obj] = "free" /\ heap' = [heap EXCEPT ![g.obj] = "building"]
            /\ stack' = Append(stack, g)
      BY <1>1, <1>4, <2>2, TakesFrom
    <3>2. data' = [data EXCEPT ![v] = data[w]] /\ exists' = exists
      BY <1>1, <1>4, <2>2, TakesFrom
    <3>3. g.obj \in Obj /\ g.obj \notin exists /\ g.obj # v /\ w # NULL
      <4>1. g.obj \in Obj /\ g.obj \notin exists
        BY <1>1, <3>1 DEF Frame, Children
      <4>2. NULL \notin Slot
        BY TreeAssumption DEF Slot
      <4> QED
        BY <1>1, <1>4, <4>1, <4>2
    <3>4. /\ heap'[g.obj] = "building" /\ stack' = <<g>>
          /\ \A o \in Obj : heap[o] = "live" => heap'[o] = "live"
          /\ \A o \in Obj \ {g.obj} : heap[o] = "free" => heap'[o] = "free"
      BY <1>1, <3>1, <3>3 DEF TypeOK
    <3> QED
      BY <1>1, <1>4, <2>2, <3>1, <3>2, <3>3, <3>4, MirrorBegins
  <2> QED
    BY <2>1, <2>2
<1>5. ASSUME NEW v \in Slot, NEW w \in Slot \cup {NULL}, NEW op \in {"release", "destroy"},
             data[v] # NULL, CallDestructor(op, v, w)
      PROVE  Mirrored'
  <2>1. data[v] \in Obj
    BY <1>1, <1>5 DEF TypeOK
  <2>2. PICK g \in Frame : g = Call(op, v, w, data[v], NULL) /\ g.op = op
    BY <2>1, CallFacts
  <2> QED
    BY <1>3, <1>5, <2>2 DEF CallDestructor, Builds
<1>6. ASSUME NEW v \in Root \ exists, Create(v) PROVE Mirrored'
  <2>1. PICK o \in Obj : stack' = <<Call("create", v, NULL, o, NULL)>>
    BY <1>6 DEF Create, Allocated
  <2>2. PICK g \in Frame : g = Call("create", v, NULL, o, NULL) /\ g.src = NULL
    BY <1>1, CallFacts
  <2>3. stack' = Append(stack, g)
    BY <1>1, <2>1, <2>2
  <2> QED
    BY <1>3, <2>2, <2>3
<1>7. ASSUME NEW v \in Root \ exists, NEW w \in exists, Copy(v, w) PROVE Mirrored'
  <2>1. Closed(exists)
    <3> SUFFICES ASSUME NEW x \in exists, data[x] # NULL PROVE data[x] \in exists
      BY DEF Closed
    <3> QED
      BY <1>1, QuietHolds DEF Children
  <2> QED
    BY <1>1, <1>4, <1>7, <2>1 DEF Copy
<1>8. ASSUME NEW v \in exists, NEW w \in exists, Assign(v, w) PROVE Mirrored'
  <2>1. CASE data[v] # NULL
    BY <1>1, <1>5, <1>8, <2>1 DEF Assign
  <2>2. CASE data[v] = NULL
    <3>1. TakeMembers(v, w, "assign", heap, stack) /\ ~SameTree(v, w) /\ Fits(w)
      BY <1>8, <2>2 DEF Assign
    <3>2. PICK S0 \in SUBSET exists : Closed(S0) /\ w \in S0 /\ v \notin S0
      BY <1>1, <1>8, <3>1, TwoTrees
    <3> QED
      BY <1>1, <1>4, <1>8, <3>1, <3>2
  <2> QED
    BY <2>1, <2>2
<1>9. ASSUME NEW v \in Root \cap exists, Destroy(v) PROVE Mirrored'
  BY <1>1, <1>2, <1>5, <1>9 DEF Destroy
<1>10. ASSUME NEW v, ConstructEmpty(v) PROVE Mirrored'
  BY <1>2, <1>10 DEF ConstructEmpty
<1> QED
  BY <1>6, <1>7, <1>8, <1>9, <1>10 DEF Start

(* operator= goes on, with the copy of what it was given.                    *)
LEMMA MirrorAssigns ==
  ASSUME IsFiniteSet(Obj), IInv, Reserved, stack # <<>>, EndRelease
  PROVE  /\ Mirrored'
         /\ stack' = <<>> => data' = [data EXCEPT ![Top.to] = NULL] /\ data[Top.src] = NULL
<1>1. /\ TypeOK /\ Len(stack) = 1 /\ stack[1] = Top /\ Popped = <<>>
      /\ Top.src \in exists /\ Top.to \in exists /\ Top.src # Top.to
      /\ data[Top.to] = Top.obj /\ heap[Top.obj] = "dying" /\ Top.op = "release"
      /\ Top \in Frame /\ Top.obj \notin exists /\ exists \subseteq Slot /\ Children
  BY ReleaseAlone, TopFree DEF EndRelease, IInv, TypeOK
<1>2. PICK S0 \in SUBSET exists : Closed(S0) /\ Top.src \in S0 /\ Top.to \notin S0
  BY <1>1, ReleaseAlone
<1>3. PICK v \in exists, w \in exists, b \in Obj : v = Top.to /\ w = Top.src /\ b = Top.obj
  BY <1>1 DEF Frame
<1>4. Targets = {v}
  BY <1>1, <1>3 DEF Targets
<1>5. TakeMembers(v, w, "assign", [heap EXCEPT ![b] = "free"], <<>>)
  BY <1>1, <1>3 DEF EndRelease
<1>6. /\ data' = [data EXCEPT ![v] = data[w]]
      /\ \/ data[w] = NULL /\ stack' = <<>>
         \/ /\ data[w] # NULL /\ exists' = exists
            /\ \E o \in Obj :
                 /\ [heap EXCEPT ![b] = "free"][o] = "free"
                 /\ heap' = [heap EXCEPT ![b] = "free", ![o] = "building"]
                 /\ stack' = Append(<<>>, Call("assign", v, w, o, data[w]))
  BY <1>5 DEF TakeMembers, Found
<1>7. CASE data[w] = NULL
  BY <1>3, <1>6, <1>7 DEF Mirrored, Copying
<1>8. CASE data[w] # NULL
  <2>1. PICK o \in Obj :
          /\ [heap EXCEPT ![b] = "free"][o] = "free"
          /\ heap' = [heap EXCEPT ![b] = "free", ![o] = "building"]
          /\ stack' = Append(<<>>, Call("assign", v, w, o, data[w]))
    BY <1>6, <1>8
  <2>2. v \in Slot /\ w \in Slot /\ data[w] \in Obj
    BY <1>1, <1>8 DEF TypeOK
  <2>3. PICK g \in Frame :
          /\ stack' = Append(<<>>, g) /\ g.op = "assign"
          /\ g.to = v /\ g.src = w /\ g.obj = o /\ g.read = data[w]
    BY <2>1, <2>2, CallFacts
  <2>4. o = b \/ heap[o] = "free"
    BY <2>1 DEF TypeOK
  <2>5. /\ heap'[o] = "building" /\ o \notin exists
        /\ \A x \in Obj : heap[x] = "live" => heap'[x] = "live"
        /\ \A x \in Obj \ {o} : heap[x] = "free" => heap'[x] = "free"
    BY <1>1, <1>3, <2>1, <2>4 DEF Children, TypeOK
  <2>6. w # NULL
    BY <2>2, TreeAssumption DEF Slot
  <2>7. stack' = <<g>> /\ stack' # <<>>
    BY <2>3
  <2>8. /\ g.src \in exists /\ g.src # NULL /\ data[g.src] # NULL /\ g.read = data[g.src]
        /\ g.obj \notin exists /\ g.to # g.obj /\ heap'[g.obj] = "building"
    BY <1>8, <2>3, <2>5, <2>6
  <2>9. Closed(S0) /\ g.src \in S0 /\ g.to \notin S0 /\ S0 \cap Targets = {}
    BY <1>2, <1>3, <1>4, <2>3
  <2>10. data' = [data EXCEPT ![g.to] = data[g.src]] /\ exists' = exists
    BY <1>6, <1>8, <2>3
  <2>11. Fits(g.src) /\ \A x \in Obj \ {g.obj} : heap[x] = "free" => heap'[x] = "free"
    BY <1>1, <1>3, <2>3, <2>5 DEF Reserved
  <2>12. Mirrored'
    BY <2>5, <2>7, <2>8, <2>9, <2>10, <2>11, MirrorBegins
  <2> QED
    BY <2>7, <2>12
<1> QED
  BY <1>7, <1>8

LEMMA MirrorStep ==
  ASSUME IsFiniteSet(Obj), IInv, Related = FALSE, Mirrored, Reserved, [Next]_vars
  PROVE  Mirrored'
<1>1. CASE UNCHANGED vars
  <2>1. exists' = exists /\ data' = data /\ heap' = heap /\ stack' = stack
    BY <1>1 DEF vars
  <2>2. ASSUME NEW N, NEW S, NEW f, Mirrors(N, S, f) PROVE Mirrors(N, S, f)'
    BY <2>1, <2>2 DEF Mirrors, Separate, Closed, Descends, Same, Room, Allocated, Top
  <2> QED
    BY <2>1, <2>2 DEF Mirrored, Copying, Builds
<1>2. CASE Start
  BY <1>2, MirrorStart
<1>3. CASE Return
  <2>1. stack # <<>> /\ TypeOK /\ Nested /\ Ranked
    BY <1>3 DEF Return, IInv
  <2>2. CASE BuildChild
    <3>1. CASE Copying
      BY <2>2, <3>1, MirrorChild
    <3>2. CASE ~Copying
      <4>1. stack' # <<>> => stack'[1] = stack[1]
        BY <2>1, <2>2 DEF BuildChild, ConstructEmpty, TakeMembers
      <4> QED
        BY <2>1, <3>2, <4>1 DEF Mirrored, Copying, Builds
    <3> QED
      BY <3>1, <3>2
  <2>3. CASE EndBuild
    <3>1. CASE Copying /\ stack' # <<>>
      BY <2>3, <3>1, MirrorStores
    <3>2. CASE ~(Copying /\ stack' # <<>>)
      <4>1. stack' # <<>> => stack'[1] = stack[1]
        BY <2>1, <2>3, Popping DEF EndBuild
      <4> QED
        BY <2>1, <3>2, <4>1 DEF Mirrored, Copying, Builds
    <3> QED
      BY <3>1, <3>2
  <2>4. CASE DestroyChild \/ EndDestroy
    <3>1. ~Builds(stack[1])
      BY <2>1, <2>4, TopFree DEF DestroyChild, EndDestroy, Builds
    <3>2. stack' # <<>> => stack'[1] = stack[1]
      <4>1. CASE DestroyChild
        BY <2>1, <4>1 DEF DestroyChild, Destroy, CallDestructor
      <4>2. CASE EndDestroy
        BY <2>1, <4>2, Popping DEF EndDestroy
      <4> QED
        BY <2>4, <4>1, <4>2
    <3> QED
      BY <3>1, <3>2 DEF Mirrored, Copying, Builds
  <2>5. CASE EndRelease
    BY <2>1, <2>5, MirrorAssigns
  <2> QED
    BY <1>3, <2>2, <2>3, <2>4, <2>5 DEF Return
<1> QED
  BY <1>1, <1>2, <1>3 DEF Next

(* The step in which the client's copy or assignment returns                 *)
LEMMA CopyReturns ==
  ASSUME IsFiniteSet(Obj), IInv, IInv', Mirrored, Reserved, [Next]_vars, stack # <<>>, stack' = <<>>,
         NEW v \in Slot, NEW w \in Slot, stack[1].to = v, stack[1].src = w
  PROVE  /\ Cardinality(Below(v)') = Cardinality(Below(w)')
         /\ Below(v)' \cap Below(w)' = {}
<1>1. /\ data' \in [Slot -> Obj \cup {NULL}] /\ NULL \notin Slot /\ TypeOK
      /\ Nested /\ Ranked /\ Return
  BY TreeAssumption DEF IInv, TypeOK, Slot, Next, Start, vars
<1>2. CASE BuildChild
  BY <1>2 DEF BuildChild, ConstructEmpty, TakeMembers, IInv, TypeOK
<1>3. CASE DestroyChild
  BY <1>3 DEF DestroyChild, Destroy, CallDestructor, IInv, TypeOK
<1>4. stack' = Popped => Top = stack[1]
  <2> SUFFICES ASSUME stack' = Popped PROVE Len(stack) = 1
    BY DEF Top
  <2>1. Len(stack') = Len(stack) - 1 /\ Len(stack') = 0 /\ Len(stack) \in Nat
    BY <1>1, Popping, StackFacts
  <2> QED
    BY <2>1
<1>5. CASE EndDestroy
  <2>1. Top = stack[1] /\ Top.op = "destroy" /\ 1 \in 1 .. Len(stack)
    BY <1>1, <1>4, <1>5, StackFacts DEF EndDestroy
  <2>2. Destroying(Top)
    BY <2>1 DEF IInv, InCall, Builds
  <2> QED
    BY <1>1, <2>1, <2>2 DEF Destroying
<1>6. CASE EndRelease
  <2>1. /\ data' = [data EXCEPT ![Top.to] = NULL] /\ data[Top.src] = NULL
        /\ Top = stack[1] /\ Top.src # Top.to
    BY <1>6, MirrorAssigns, ReleaseAlone DEF EndRelease
  <2>2. data'[v] = NULL /\ data'[w] = NULL
    BY <1>1, <2>1 DEF TypeOK
  <2>3. Tree(data', v) = {} /\ Tree(data', w) = {}
    BY <1>1, <2>2, NoTree
  <2> QED
    BY <2>3, TreesBelow
<1>7. CASE EndBuild
  <2>1. Copying
    BY <1>1, <1>4, <1>7 DEF Copying, EndBuild, Builds
  <2>2. PICK N \in SUBSET Obj, S \in SUBSET Obj : \E f \in [N -> S] : Mirrors(N, S, f)
    BY <2>1 DEF Mirrored
  <2>3. PICK f \in [N -> S] : Mirrors(N, S, f)
    BY <2>2
  <2>4. PICK b \in N : b = Top.obj /\ f[b] = data[w] /\ b \in exists /\ b \in Slot
    <3>1. Top.obj \in N /\ Top.read = f[Top.obj] /\ Top.obj \in Obj
      BY <2>1, <2>3, MirrorFacts
    <3>2. Top.read = data[w]
      BY <1>4, <1>7, <2>3 DEF EndBuild, Mirrors, Descends
    <3> QED
      BY <1>7, <3>1, <3>2 DEF EndBuild, Slot
  <2>5. /\ data'[v] = b /\ \A x \in Slot \ {v} : data'[x] = data[x]
        /\ exists' = exists \cup {v}
    BY <1>1, <1>4, <1>7, <2>4 DEF EndBuild, TypeOK
  <2>6. v \notin N \cup S /\ w # v /\ N \cap S = {} /\ Closed(S)
    BY <2>3 DEF Mirrors, Separate
  <2> DEFINE P == N \cap exists
  <2>7. \A x \in N \cup S : data'[x] = data[x]
    BY <2>5, <2>6 DEF Slot
  <2>8. Leads(data', S) /\ P \in SUBSET Obj /\ P \cap S = {}
    BY <2>6, <2>7 DEF Closed, Leads
  <2>9. \A o \in P : IF data'[f[o]] = NULL THEN data'[o] = NULL
                     ELSE data'[o] \in P /\ f[data'[o]] = data'[f[o]]
    BY <2>3, <2>7 DEF Mirrors, Same
  <2>10. /\ \A a \in P : f[a] \in S
         /\ \A a, e \in P : f[a] = f[e] => a = e
    BY <2>3 DEF Mirrors, Same
  <2>11. data'[v] \in P /\ f[data'[v]] = data'[w]
    BY <2>4, <2>5, <2>6
  <2> HIDE DEF P
  <2>12. PICK d \in [Slot -> Obj \cup {NULL}] : d = data'
    BY <1>1
  <2>13. /\ Cardinality(Tree(d, v)) = Cardinality(Tree(d, w))
         /\ Tree(d, v) \cap Tree(d, w) = {}
    BY <2>8, <2>9, <2>10, <2>11, <2>12, MirrorTrees
  <2> QED
    BY <2>12, <2>13, TreesBelow
<1> QED
  BY <1>1, <1>2, <1>3, <1>5, <1>6, <1>7 DEF Return

(* Until it copies, operator= keeps the memory for it.                       *)
LEMMA ReservedStep ==
  ASSUME IsFiniteSet(Obj), IInv, Reserved, [Next]_vars
  PROVE  Reserved'
<1>1. TypeOK /\ TypeOK'
  BY StartTypes, ReturnTypes DEF IInv, Next, vars, TypeOK
<1>2. ASSUME data' = data, Allocated' = Allocated, NEW w, Fits(w) PROVE Fits(w)'
  BY <1>2 DEF Fits, Below, Closed
<1>3. ASSUME NEW v, NEW w, NEW op, CallDestructor(op, v, w) PROVE Allocated' = Allocated
  BY <1>1, <1>3 DEF CallDestructor, Allocated, TypeOK
<1>4. ASSUME stack # <<>>, stack' # <<>>, stack'[1] = stack[1], data' = data,
             Allocated' = Allocated
      PROVE  Reserved'
  BY <1>2, <1>4 DEF Reserved
<1>5. ASSUME stack' # <<>> => stack'[1].op # "release" PROVE Reserved'
  BY <1>5 DEF Reserved
<1>6. CASE UNCHANGED vars
  <2>1. stack' = stack /\ data' = data /\ Allocated' = Allocated
    BY <1>6 DEF vars, Allocated
  <2> QED
    BY <2>1, <1>2 DEF Reserved
<1>7. CASE Start
  <2>1. stack = <<>>
    BY <1>7 DEF Start
  <2>2. ASSUME NEW v \in exists, NEW w \in exists, Assign(v, w), CallDestructor("release", v, w)
        PROVE  Reserved'
    <3>1. Fits(w) /\ data' = data /\ Allocated' = Allocated
      BY <1>3, <2>2 DEF Assign, CallDestructor
    <3>2. stack'[1].src = w
      BY <2>1, <2>2 DEF CallDestructor, Call
    <3> QED
      BY <1>2, <3>1, <3>2 DEF Reserved
  <2>3. ASSUME NEW v, NEW w, NEW op, op # "release", TakeMembers(v, w, op, heap, stack)
        PROVE  Reserved'
    BY <1>5, <2>1, <2>3 DEF TakeMembers, Call
  <2>4. ASSUME NEW v, Create(v) PROVE Reserved'
    BY <1>5, <2>4 DEF Create, Call
  <2>5. ASSUME NEW v, Destroy(v) PROVE Reserved'
    BY <1>5, <2>1, <2>5 DEF Destroy, CallDestructor, Call
  <2>6. ASSUME NEW v, ConstructEmpty(v) PROVE Reserved'
    BY <1>5, <2>1, <2>6 DEF ConstructEmpty
  <2> QED
    BY <1>7, <2>2, <2>3, <2>4, <2>5, <2>6 DEF Start, Copy, Assign
<1>8. CASE Return
  <2>1. stack # <<>> /\ Nested /\ Ranked /\ TypeOK
    BY <1>8 DEF Return, IInv
  <2>2. CASE BuildChild \/ EndBuild
    <3>1. stack[1].op # "release"
      BY <2>1, <2>2, TopFree DEF BuildChild, EndBuild, Builds
    <3>2. CASE BuildChild
      <4>1. stack' # <<>> => stack'[1] = stack[1]
        BY <2>1, <3>2 DEF BuildChild, ConstructEmpty, TakeMembers
      <4> QED
        BY <1>5, <3>1, <4>1
    <3>3. CASE EndBuild
      <4>1. stack' # <<>> => stack'[1] = stack[1]
        BY <2>1, <3>3, Popping DEF EndBuild
      <4> QED
        BY <1>5, <3>1, <4>1
    <3> QED
      BY <2>2, <3>2, <3>3
  <2>3. CASE DestroyChild
    <3>1. stack' # <<>> /\ stack'[1] = stack[1] /\ data' = data
      BY <2>1, <2>3 DEF DestroyChild, Destroy, CallDestructor
    <3>2. Allocated' = Allocated
      BY <1>3, <2>3 DEF DestroyChild, Destroy, Allocated
    <3> QED
      BY <1>4, <2>1, <3>1, <3>2
  <2>4. CASE EndDestroy
    <3> SUFFICES ASSUME stack' # <<>>, stack'[1].op = "release" PROVE Fits(stack[1].src)'
      BY DEF Reserved
    <3>1. /\ stack'[1] = stack[1] /\ stack[1].op = "release" /\ Top.to # stack[1].to
          /\ Len(stack) \in 1 .. Len(stack)
      BY <2>1, <2>4, Popping DEF EndDestroy
    <3>2. PICK S \in SUBSET exists, R \in SUBSET Slot : Copied(S) /\ Deleted(R) /\ R \cap S = {}
      BY <2>1, <3>1 DEF IInv, Apart
    <3>3. PICK w \in Slot : w = stack[1].src /\ w \in S /\ Closed(S)
      BY <1>1, <3>2 DEF Copied, TypeOK
    <3>4. PICK c \in Slot : c = Top.to /\ c \notin S
      BY <3>1, <3>2 DEF Deleted, Top
    <3>5. \A x \in Slot \ {c} : data'[x] = data[x]
      BY <1>1, <2>4, <3>4 DEF EndDestroy, TypeOK
    <3>6. PICK B : B = Below(w)
      OBVIOUS
    <3>7. B \subseteq S /\ B \subseteq Obj /\ Closed(B) /\ (data[w] # NULL => data[w] \in B)
      <4>1. Closed(S \cap Obj)
        BY <1>1, <3>3 DEF Closed, TypeOK
      <4>2. data[w] = NULL \/ data[w] \in S \cap Obj
        BY <1>1, <3>3 DEF Closed, TypeOK
      <4> QED
        BY <1>1, <3>6, <4>1, <4>2, BelowFacts
    <3>8. Below(w)' \subseteq B
      <4>1. Leads(data', B)
        BY <3>4, <3>5, <3>7 DEF Leads, Closed, Slot
      <4>2. data'[w] = NULL \/ data'[w] \in B
        BY <3>3, <3>4, <3>5, <3>7
      <4>3. PICK d \in [Slot -> Obj \cup {NULL}] : d = data'
        BY <1>1 DEF TypeOK
      <4>4. Tree(d, w) \subseteq B
        BY <3>7, <4>1, <4>2, <4>3, TreeFacts
      <4> QED
        BY <4>3, <4>4, TreesBelow
    <3>9. Cardinality(Below(w)') <= Cardinality(B) /\ Cardinality(B) \in Nat
          /\ Cardinality(Below(w)') \in Nat
      <4>1. IsFiniteSet(B)
        BY <3>7, FS_Subset
      <4> QED
        BY <3>8, <4>1, FS_Subset, FS_CardinalityType
    <3>10. Cardinality(Obj \ Allocated) <= Cardinality((Obj \ Allocated)')
           /\ Cardinality(Obj \ Allocated) \in Nat /\ Cardinality((Obj \ Allocated)') \in Nat
      <4> DEFINE F == Obj \ Allocated
                 G == (Obj \ Allocated)'
      <4>1. F \subseteq G /\ G \subseteq Obj
        BY <1>1, <2>4 DEF EndDestroy, Allocated, TypeOK
      <4>2. IsFiniteSet(G)
        BY <4>1, FS_Subset
      <4> HIDE DEF F, G
      <4>3. Cardinality(F) <= Cardinality(G) /\ IsFiniteSet(F)
        BY <4>1, <4>2, FS_Subset
      <4>4. Cardinality(F) \in Nat /\ Cardinality(G) \in Nat
        BY <4>2, <4>3, FS_CardinalityType
      <4> QED
        BY <4>3, <4>4 DEF F, G
    <3>11. Cardinality(Obj \ Allocated) >= Cardinality(B)
      BY <2>1, <3>1, <3>3, <3>6 DEF Reserved, Fits
    <3>12. Fits(w)'
      BY <3>9, <3>10, <3>11 DEF Fits
    <3> QED
      BY <3>1, <3>3, <3>12
  <2>5. CASE EndRelease
    <3>1. Popped = <<>>
      BY <2>1, <2>5, ReleaseAlone DEF EndRelease
    <3>2. stack' # <<>> => stack'[1].op = "assign"
      BY <2>5, <3>1 DEF EndRelease, TakeMembers, Call
    <3> QED
      BY <1>5, <3>2
  <2> QED
    BY <1>8, <2>2, <2>3, <2>4, <2>5 DEF Return
<1> QED
  BY <1>6, <1>7, <1>8 DEF Next

LEMMA CreatedStep ==
  ASSUME IInv, Created, [Next]_vars
  PROVE  Created'
<1>1. TypeOK /\ Nested /\ Ranked
  BY DEF IInv
<1>2. CASE UNCHANGED vars
  BY <1>2 DEF vars, Created, Builds
<1>3. ASSUME stack' # <<>> => ~Builds(stack'[1]) \/ stack'[1].src # NULL PROVE Created'
  BY <1>3 DEF Created, Builds
<1>4. ASSUME NEW v, NEW w, w # NULL, NEW op, NEW h, TakeMembers(v, w, op, h, <<>>)
      PROVE  Created'
  BY <1>3, <1>4 DEF TakeMembers, Call
<1>5. NULL \notin exists
  BY <1>1, TreeAssumption DEF TypeOK, Slot
<1>6. CASE Start
  <2>1. stack = <<>>
    BY <1>6 DEF Start
  <2>2. ASSUME NEW op \in {"release", "destroy"}, NEW v, NEW w, CallDestructor(op, v, w)
        PROVE  Created'
    BY <1>3, <2>1, <2>2 DEF CallDestructor, Call, Builds
  <2>3. ASSUME NEW v, Create(v) PROVE Created'
    <3>1. PICK o : stack' = <<Call("create", v, NULL, o, NULL)>>
      BY <2>3 DEF Create
    <3> QED
      BY <3>1 DEF Created, Call
  <2>4. ASSUME stack' = stack PROVE Created'
    BY <1>3, <2>1, <2>4
  <2> QED
    BY <1>4, <1>5, <1>6, <2>1, <2>2, <2>3, <2>4
       DEF Start, ConstructEmpty, Copy, Assign, Destroy
<1>7. CASE Return
  <2>1. stack # <<>>
    BY <1>7 DEF Return
  <2>2. CASE BuildChild
    <3>1. stack' # <<>> => stack'[1] = stack[1]
      BY <1>1, <2>1, <2>2 DEF BuildChild, ConstructEmpty, TakeMembers
    <3>2. CASE Builds(stack[1]) /\ stack[1].src = NULL
      <4>1. Top.read = NULL
        BY <2>1, <3>2 DEF Created, Top
      <4>2. stack' = stack
        BY <2>2, <4>1 DEF BuildChild, ConstructEmpty
      <4> QED
        BY <4>2 DEF Created, Builds
    <3> QED
      BY <1>3, <3>1, <3>2
  <2>3. CASE EndBuild
    <3>1. stack' # <<>> => stack'[1] = stack[1] /\ Len(stack) # 1
      <4>1. stack' # <<>> => stack'[1] = stack[1]
        BY <1>1, <2>1, <2>3, Popping DEF EndBuild
      <4>2. Len(stack) = 1 => Len(stack') = 0
        BY <1>1, <2>1, <2>3, Popping DEF EndBuild
      <4>3. Len(stack') = 0 => stack' = <<>>
        BY <1>1, <2>1, <2>3, PopFacts DEF EndBuild
      <4> QED
        BY <4>1, <4>2, <4>3
    <3> QED
      BY <1>3, <2>1, <3>1 DEF Created
  <2>4. CASE DestroyChild \/ EndDestroy
    <3>1. ~Builds(stack[1])
      BY <2>1, <2>4, TopFree DEF DestroyChild, EndDestroy, Builds
    <3>2. stack' # <<>> => stack'[1] = stack[1]
      <4>1. CASE DestroyChild
        BY <1>1, <2>1, <4>1 DEF DestroyChild, Destroy, CallDestructor
      <4>2. CASE EndDestroy
        BY <1>1, <2>1, <4>2, Popping DEF EndDestroy
      <4> QED
        BY <2>4, <4>1, <4>2
    <3> QED
      BY <1>3, <3>1, <3>2
  <2>5. CASE EndRelease
    <3>1. Popped = <<>> /\ Top.src # NULL
      BY <1>5, <2>1, <2>5, ReleaseAlone DEF EndRelease
    <3> QED
      BY <1>4, <2>5, <3>1 DEF EndRelease
  <2> QED
    BY <1>7, <2>2, <2>3, <2>4, <2>5 DEF Return
<1> QED
  BY <1>2, <1>6, <1>7 DEF Next

LEMMA CopyInvariant ==
  ASSUME Related = FALSE, IsFiniteSet(Obj)
  PROVE  Spec => [](IInv /\ Mirrored /\ Reserved /\ Created)
<1>1. Init => Mirrored /\ Reserved /\ Created
  BY DEF Init, Mirrored, Reserved, Created, Copying
<1>2. /\ IInv /\ Mirrored /\ Reserved /\ Created /\ [Next]_vars
      => Mirrored' /\ Reserved' /\ Created'
  BY MirrorStep, ReservedStep, CreatedStep
<1>3. Spec => []IInv
  BY TreeInvariant
<1> QED
  BY <1>1, <1>2, <1>3, PTL DEF Spec

(* A copy never reads what it is building: in trees of any depth, each Node  *)
(* of the original is copied once, and the memory that there was for it when *)
(* the call began is enough.                                                 *)
THEOREM CopiesFit ==
  ASSUME Related = FALSE, IsFiniteSet(Obj)
  PROVE  Spec => []MemoryLasts
<1>1. ASSUME IInv, Mirrored, Created,
             stack # <<>>, Builds(Top), Top.obj \notin exists,
             Top.read # NULL, Found(Top.read) # {NULL}
      PROVE  Allocated # Obj
  <2>1. Copying
    <3>1. Builds(stack[1]) /\ (Len(stack) = 1 => Top = stack[1])
      BY <1>1, TopFree DEF Top
    <3> QED
      BY <1>1, <3>1 DEF Copying, Created
  <2>2. PICK N \in SUBSET Obj, S \in SUBSET Obj : \E f \in [N -> S] : Mirrors(N, S, f)
    BY <1>1, <2>1 DEF Mirrored
  <2>3. PICK f \in [N -> S] : Mirrors(N, S, f)
    BY <2>2
  <2>4. Top.read \in S /\ Top.read \in exists
    BY <1>1, <2>1, <2>3, MirrorFacts
  <2>5. PICK d : d = data[Top.read]
    OBVIOUS
  <2>6. d # NULL /\ d \in S
    BY <1>1, <2>3, <2>4, <2>5 DEF Found, Mirrors, Separate, Closed
  <2>7. \A a \in N : f[a] \in S \ {d}
    BY <1>1, <2>1, <2>3, <2>5, <2>6, NextIsNew
  <2>8. IsFiniteSet(N) /\ IsFiniteSet(S) /\ IsFiniteSet(S \ {d})
    BY FS_Subset, FS_RemoveElement
  <2>9. Cardinality(N) <= Cardinality(S \ {d})
    <3>1. f \in [N -> S \ {d}] /\ \A a, b \in N : f[a] = f[b] => a = b
      BY <2>3, <2>7 DEF Mirrors, Same
    <3>2. f \in Injection(N, S \ {d})
      BY <3>1, Fun_IsInj
    <3> QED
      BY <2>8, <3>2, FS_Injection
  <2>10. Cardinality(S \ {d}) = Cardinality(S) - 1
    BY <2>6, <2>8, FS_RemoveElement
  <2>11. Cardinality(N) \in Nat /\ Cardinality(S) \in Nat
    BY <2>8, FS_CardinalityType
  <2>12. SUFFICES ASSUME Allocated = Obj PROVE FALSE
    OBVIOUS
  <2>13. Cardinality(Obj \ Allocated) = 0
    <3>1. Obj \ Allocated = {}
      BY <2>12
    <3> QED
      BY <3>1, FS_EmptySet
  <2>14. Cardinality(Obj \ Allocated) + Cardinality(N) >= Cardinality(S)
    BY <2>3 DEF Mirrors, Room
  <2> QED
    BY <2>9, <2>10, <2>11, <2>13, <2>14
<1>2. IInv /\ Mirrored /\ Created => MemoryLasts
  BY <1>1 DEF MemoryLasts, Builds
<1>3. Spec => [](IInv /\ Mirrored /\ Reserved /\ Created)
  BY CopyInvariant
<1> QED
  BY <1>2, <1>3, PTL

(* A copy is deep, and it is whole: when a copy or an assignment returns to  *)
(* the client, the new tree has as many Nodes as the one it was copied from, *)
(* and none of them.                                                         *)
THEOREM CopiesAreDeep ==
  ASSUME Related = FALSE, IsFiniteSet(Obj)
  PROVE  Spec => DeepCopy
<1>1. Spec => [](IInv /\ Mirrored /\ Reserved /\ Created)
  BY CopyInvariant
<1>2. ASSUME IInv, IInv', Mirrored, Reserved, [Next]_vars
      PROVE  [\A v, w \in Slot :
                stack # <<>> /\ stack' = <<>> /\ stack[1].to = v /\ stack[1].src = w =>
                  /\ Cardinality(Below(v)') = Cardinality(Below(w)')
                  /\ Below(v)' \cap Below(w)' = {}]_vars
  BY <1>2, CopyReturns
<1> QED
  BY <1>1, <1>2, PTL DEF Spec, DeepCopy

-----------------------------------------------------------------------------
(* Every call ends.                                                          *)

LEMMA Smaller ==
  ASSUME IsFiniteSet(Obj), NEW A \in SUBSET Obj, NEW B \in SUBSET Obj, A \subseteq B
  PROVE  /\ Cardinality(A) \in Nat /\ Cardinality(B) \in Nat /\ Cardinality(Obj) \in Nat
         /\ Cardinality(A) <= Cardinality(B) /\ Cardinality(B) <= Cardinality(Obj)
         /\ (\E o \in B : o \notin A) => Cardinality(A) < Cardinality(B)
<1>1. IsFiniteSet(A) /\ IsFiniteSet(B)
  BY FS_Subset
<1>2. Cardinality(A) \in Nat /\ Cardinality(B) \in Nat /\ Cardinality(Obj) \in Nat
  BY <1>1, FS_CardinalityType
<1>3. /\ Cardinality(A) <= Cardinality(B) /\ Cardinality(B) <= Cardinality(Obj)
      /\ Cardinality(A) = Cardinality(B) => A = B
  BY <1>1, FS_Subset
<1> QED
  BY <1>2, <1>3
(* A step that takes nothing away, and one that adds o; a step that adds     *)
(* nothing, and one that takes o away                                        *)
Growing == \A o \in Obj : /\ o \in Allocated => o \in Allocated'
                          /\ o \in exists => o \in exists'
                          /\ o \in Live => o \in Live'
Added(o) == \/ o \notin Allocated /\ o \in Allocated'
            \/ o \notin exists /\ o \in exists'
            \/ o \notin Live /\ o \in Live'
Dwindling == \A o \in Obj : /\ o \in Allocated' => o \in Allocated
                            /\ o \in exists' => o \in exists
                            /\ o \in Live' => o \in Live
Removed(o) == \/ o \in Allocated /\ o \notin Allocated'
              \/ o \in exists /\ o \notin exists'
              \/ o \in Live /\ o \notin Live'

LEMMA LessToBuild ==
  ASSUME IsFiniteSet(Obj),
         Growing, NEW x \in Obj, Added(x)
  PROVE  ToBuild' < ToBuild
<1>0. PICK F, F1, X, X1, Y, Y1 :
        /\ F = Obj \ Allocated /\ F1 = Obj \ Allocated' /\ X = Obj \ exists
        /\ X1 = Obj \ exists' /\ Y = Obj \ Live /\ Y1 = Obj \ Live'
  OBVIOUS
<1>1. /\ F \in SUBSET Obj /\ F1 \in SUBSET Obj /\ X \in SUBSET Obj /\ X1 \in SUBSET Obj
      /\ Y \in SUBSET Obj /\ Y1 \in SUBSET Obj
      /\ F1 \subseteq F /\ X1 \subseteq X /\ Y1 \subseteq Y
      /\ (x \in F /\ x \notin F1) \/ (x \in X /\ x \notin X1) \/ (x \in Y /\ x \notin Y1)
  BY <1>0 DEF Growing, Added
<1>2. /\ Cardinality(F) \in Nat /\ Cardinality(F1) \in Nat /\ Cardinality(F1) <= Cardinality(F)
      /\ (\E o : o \in F /\ o \notin F1) => Cardinality(F1) < Cardinality(F)
  BY <1>1, Smaller
<1>3. /\ Cardinality(X) \in Nat /\ Cardinality(X1) \in Nat /\ Cardinality(X1) <= Cardinality(X)
      /\ (\E o : o \in X /\ o \notin X1) => Cardinality(X1) < Cardinality(X)
  BY <1>1, Smaller
<1>4. /\ Cardinality(Y) \in Nat /\ Cardinality(Y1) \in Nat /\ Cardinality(Y1) <= Cardinality(Y)
      /\ (\E o : o \in Y /\ o \notin Y1) => Cardinality(Y1) < Cardinality(Y)
  BY <1>1, Smaller
<1>5. /\ ToBuild = 1 + Cardinality(F) + Cardinality(X) + Cardinality(Y)
      /\ ToBuild' = 1 + Cardinality(F1) + Cardinality(X1) + Cardinality(Y1)
  BY <1>0 DEF ToBuild
<1>6. \/ Cardinality(F1) < Cardinality(F) \/ Cardinality(X1) < Cardinality(X)
      \/ Cardinality(Y1) < Cardinality(Y)
  BY <1>1, <1>2, <1>3, <1>4
<1> QED
  BY <1>2, <1>3, <1>4, <1>5, <1>6

LEMMA LessToDestroy ==
  ASSUME IsFiniteSet(Obj),
         Dwindling, NEW x \in Obj, Removed(x)
  PROVE  ToDestroy' < ToDestroy /\ ToDestroy \in Nat /\ ToDestroy' \in Nat
<1>0. PICK A, A1, E, E1, L, L1 :
        /\ A = Allocated /\ A1 = Allocated' /\ E = Obj \cap exists
        /\ E1 = Obj \cap exists' /\ L = Live /\ L1 = Live'
  OBVIOUS
<1>1. /\ A \in SUBSET Obj /\ A1 \in SUBSET Obj /\ E \in SUBSET Obj /\ E1 \in SUBSET Obj
      /\ L \in SUBSET Obj /\ L1 \in SUBSET Obj
      /\ A1 \subseteq A /\ E1 \subseteq E /\ L1 \subseteq L
      /\ (x \in A /\ x \notin A1) \/ (x \in E /\ x \notin E1) \/ (x \in L /\ x \notin L1)
  BY <1>0 DEF Dwindling, Removed, Allocated, Live
<1>2. /\ Cardinality(A) \in Nat /\ Cardinality(A1) \in Nat /\ Cardinality(A1) <= Cardinality(A)
      /\ (\E o : o \in A /\ o \notin A1) => Cardinality(A1) < Cardinality(A)
  BY <1>1, Smaller
<1>3. /\ Cardinality(E) \in Nat /\ Cardinality(E1) \in Nat /\ Cardinality(E1) <= Cardinality(E)
      /\ (\E o : o \in E /\ o \notin E1) => Cardinality(E1) < Cardinality(E)
  BY <1>1, Smaller
<1>4. /\ Cardinality(L) \in Nat /\ Cardinality(L1) \in Nat /\ Cardinality(L1) <= Cardinality(L)
      /\ (\E o : o \in L /\ o \notin L1) => Cardinality(L1) < Cardinality(L)
  BY <1>1, Smaller
<1>5. /\ ToDestroy = 1 + Cardinality(A) + Cardinality(E) + Cardinality(L)
      /\ ToDestroy' = 1 + Cardinality(A1) + Cardinality(E1) + Cardinality(L1)
  BY <1>0 DEF ToDestroy
<1>6. \/ Cardinality(A1) < Cardinality(A) \/ Cardinality(E1) < Cardinality(E)
      \/ Cardinality(L1) < Cardinality(L)
  BY <1>1, <1>2, <1>3, <1>4
<1> QED
  BY <1>2, <1>3, <1>4, <1>5, <1>6

(* How much work there is at most                                            *)
LEMMA WorkBounds ==
  ASSUME IsFiniteSet(Obj)
  PROVE  /\ ToBuild \in Nat /\ ToBuild > 0 /\ ToDestroy \in Nat /\ ToDestroy > 0
         /\ Cardinality(Obj) \in Nat
         /\ ToBuild <= 3 * Cardinality(Obj) + 1 /\ ToDestroy <= 3 * Cardinality(Obj) + 1
         /\ ToBuild' \in Nat /\ ToBuild' <= 3 * Cardinality(Obj) + 1
<1>1. ASSUME NEW A \in SUBSET Obj
      PROVE  /\ Cardinality(A) \in Nat /\ Cardinality(Obj) \in Nat
             /\ Cardinality(A) <= Cardinality(Obj)
  BY Smaller
<1>2. /\ Cardinality(Obj \ Allocated) \in Nat /\ Cardinality(Obj \ Allocated) <= Cardinality(Obj)
      /\ Cardinality(Obj \ exists) \in Nat /\ Cardinality(Obj \ exists) <= Cardinality(Obj)
      /\ Cardinality(Obj \ Live) \in Nat /\ Cardinality(Obj \ Live) <= Cardinality(Obj)
      /\ Cardinality(Obj) \in Nat
  BY <1>1
<1>3. /\ Cardinality(Allocated) \in Nat /\ Cardinality(Allocated) <= Cardinality(Obj)
      /\ Cardinality(Obj \cap exists) \in Nat /\ Cardinality(Obj \cap exists) <= Cardinality(Obj)
      /\ Cardinality(Live) \in Nat /\ Cardinality(Live) <= Cardinality(Obj)
  <2>1. Allocated \in SUBSET Obj /\ (Obj \cap exists) \in SUBSET Obj /\ Live \in SUBSET Obj
    BY DEF Allocated, Live
  <2> QED
    BY <1>1, <2>1
<1>4. /\ Cardinality(Obj \ Allocated') \in Nat /\ Cardinality(Obj \ Allocated') <= Cardinality(Obj)
      /\ Cardinality(Obj \ exists') \in Nat /\ Cardinality(Obj \ exists') <= Cardinality(Obj)
      /\ Cardinality(Obj \ Live') \in Nat /\ Cardinality(Obj \ Live') <= Cardinality(Obj)
  BY <1>1
<1> QED
  BY <1>2, <1>3, <1>4 DEF ToBuild, ToDestroy

(* One step of a call that builds, of one that destroys, and of operator=    *)
(* from the one to the other                                                 *)
LEMMA BuildingShrinks ==
  ASSUME IsFiniteSet(Obj), IInv, stack # <<>>, BuildChild \/ EndBuild, stack' # <<>>
  PROVE  ToBuild' < ToBuild /\ stack'[1] = stack[1]
<1>1. /\ TypeOK /\ Nested /\ Ranked /\ InCall /\ Top \in Frame /\ Top = stack[Len(stack)]
      /\ Len(stack) \in 1 .. Len(stack)
  BY TopFree DEF IInv
<1>2. PICK c \in Obj : c = Top.obj
  BY <1>1 DEF Frame
<1>4. CASE BuildChild
  <2>1. c \notin exists
    BY <1>2, <1>4 DEF BuildChild
  <2>2. \/ /\ exists' = exists \cup {c} /\ heap' = heap /\ stack' = stack
        \/ /\ exists' = exists
           /\ \E o \in Obj : \E g :
                /\ heap[o] = "free" /\ heap' = [heap EXCEPT ![o] = "building"]
                /\ stack' = Append(stack, g)
    BY <1>2, <1>4 DEF BuildChild, ConstructEmpty, TakeMembers
  <2>3. CASE exists' = exists \cup {c} /\ heap' = heap /\ stack' = stack
    <3>1. Growing /\ Added(c)
      BY <2>1, <2>3 DEF Growing, Added, Allocated, Live
    <3> QED
      BY <2>3, <3>1, LessToBuild
  <2>4. ASSUME exists' = exists, NEW o \in Obj, NEW g, heap[o] = "free",
               heap' = [heap EXCEPT ![o] = "building"], stack' = Append(stack, g)
        PROVE  ToBuild' < ToBuild /\ stack'[1] = stack[1]
    <3>1. Growing /\ Added(o)
      BY <1>1, <2>4 DEF Growing, Added, Allocated, Live, TypeOK
    <3>2. stack'[1] = stack[1]
      BY <1>1, <2>4 DEF TypeOK
    <3> QED
      BY <3>1, <3>2, LessToBuild
  <2> QED
    BY <2>2, <2>3, <2>4
<1>5. CASE EndBuild
  <2>1. heap[c] = "building" /\ heap' = [heap EXCEPT ![c] = "live"] /\ exists \subseteq exists'
    BY <1>1, <1>2, <1>5 DEF EndBuild, InCall, Building, Builds
  <2>2. Growing /\ Added(c)
    BY <1>1, <2>1 DEF Growing, Added, Allocated, Live, TypeOK
  <2>3. stack'[1] = stack[1]
    BY <1>1, <1>5, Popping DEF EndBuild
  <2> QED
    BY <2>2, <2>3, LessToBuild
<1> QED
  BY <1>4, <1>5

LEMMA DestroyingShrinks ==
  ASSUME IsFiniteSet(Obj), IInv, stack # <<>>, DestroyChild \/ EndDestroy, stack' # <<>>
  PROVE  /\ ToDestroy' < ToDestroy /\ ToDestroy \in Nat /\ ToDestroy' \in Nat
         /\ stack'[1] = stack[1]
<1>1. /\ TypeOK /\ Nested /\ Ranked /\ InCall /\ Top \in Frame /\ Top = stack[Len(stack)]
      /\ Len(stack) \in 1 .. Len(stack) /\ Top.obj \notin Targets
  BY TopFree DEF IInv
<1>2. PICK c \in Obj : c = Top.obj
  BY <1>1 DEF Frame
<1>4. CASE DestroyChild
  <2>1. c \in exists /\ Destroy(c)
    BY <1>2, <1>4 DEF DestroyChild
  <2>2. CASE data[c] = NULL
    <3>1. exists' = exists \ {c} /\ heap' = heap /\ stack' = stack
      BY <2>1, <2>2 DEF Destroy
    <3>2. Dwindling /\ Removed(c)
      BY <2>1, <3>1 DEF Dwindling, Removed, Allocated, Live
    <3> QED
      BY <3>1, <3>2, LessToDestroy
  <2>3. CASE data[c] # NULL
    <3>1. PICK o \in Obj : o = data[c] /\ heap[o] = "live"
      BY <1>1, <1>2, <2>1, <2>3, QuietHolds
    <3>2. /\ exists' = exists /\ heap' = [heap EXCEPT ![o] = "dying"]
          /\ \E g : stack' = Append(stack, g)
      BY <2>1, <2>3, <3>1 DEF Destroy, CallDestructor
    <3>3. Dwindling /\ Removed(o)
      BY <1>1, <3>1, <3>2 DEF Dwindling, Removed, Allocated, Live, TypeOK
    <3>4. stack'[1] = stack[1]
      BY <1>1, <3>2 DEF TypeOK
    <3> QED
      BY <3>3, <3>4, LessToDestroy
  <2> QED
    BY <2>2, <2>3
<1>5. CASE EndDestroy
  <2>1. heap[c] = "dying" /\ heap' = [heap EXCEPT ![c] = "free"] /\ exists' \subseteq exists
    BY <1>1, <1>2, <1>5 DEF EndDestroy, InCall, Destroying, Builds
  <2>2. Dwindling /\ Removed(c)
    BY <1>1, <2>1 DEF Dwindling, Removed, Allocated, Live, TypeOK
  <2>3. stack'[1] = stack[1]
    BY <1>1, <1>5, Popping DEF EndDestroy
  <2> QED
    BY <2>2, <2>3, LessToDestroy
<1> QED
  BY <1>4, <1>5

LEMMA WorkShrinks ==
  ASSUME IsFiniteSet(Obj), IInv, stack # <<>>, Return
  PROVE  Work' < Work
<1>1. TypeOK /\ Nested /\ (Builds(Top) <=> Builds(stack[1])) /\ 1 \in 1 .. Len(stack)
      /\ stack[1].op \in {"create", "copy", "assign", "release", "destroy"}
  BY TopFree, StackFacts DEF IInv, Frame
<1>2. /\ Builds(stack[1]) => Work = ToBuild
      /\ stack[1].op = "destroy" => Work = ToDestroy
      /\ stack[1].op = "release" => Work = ToDestroy + 3 * Cardinality(Obj) + 1
  BY DEF Work, Builds
<1>3. /\ stack' = <<>> => Work' = 0
      /\ stack' # <<>> /\ Builds(stack'[1]) => Work' = ToBuild'
      /\ stack' # <<>> /\ stack'[1].op = "destroy" => Work' = ToDestroy'
      /\ stack' # <<>> /\ stack'[1].op = "release" =>
           Work' = ToDestroy' + 3 * Cardinality(Obj) + 1
  BY DEF Work, Builds
<1>4. CASE stack' = <<>>
  <2>1. \/ Work = ToBuild \/ Work = ToDestroy \/ Work = ToDestroy + 3 * Cardinality(Obj) + 1
    BY <1>1, <1>2 DEF Builds
  <2> QED
    BY <1>3, <1>4, <2>1, WorkBounds
<1>5. CASE stack' # <<>> /\ (BuildChild \/ EndBuild)
  <2>1. Builds(stack[1])
    BY <1>1, <1>5 DEF BuildChild, EndBuild, Builds
  <2>2. ToBuild' < ToBuild /\ stack'[1] = stack[1]
    BY <1>5, BuildingShrinks
  <2> QED
    BY <1>2, <1>3, <1>5, <2>1, <2>2
<1>6. CASE stack' # <<>> /\ (DestroyChild \/ EndDestroy)
  <2>1. ~Builds(stack[1])
    BY <1>1, <1>6 DEF DestroyChild, EndDestroy, Builds
  <2>2. stack[1].op \in {"release", "destroy"}
    BY <1>1, <2>1 DEF Builds
  <2>3. /\ ToDestroy' < ToDestroy /\ ToDestroy \in Nat /\ ToDestroy' \in Nat
        /\ stack'[1] = stack[1]
    BY <1>6, DestroyingShrinks
  <2> QED
    BY <1>2, <1>3, <1>6, <2>2, <2>3, WorkBounds
<1>7. CASE stack' # <<>> /\ EndRelease
  <2>1. Popped = <<>> /\ stack[1].op = "release"
    BY <1>7, ReleaseAlone DEF EndRelease
  <2>2. stack'[1].op = "assign"
    BY <1>7, <2>1 DEF EndRelease, TakeMembers, Call
  <2>3. Builds(stack'[1])
    BY <2>2 DEF Builds
  <2> QED
    BY <1>2, <1>3, <1>7, <2>1, <2>3, WorkBounds
<1> QED
  BY <1>4, <1>5, <1>6, <1>7 DEF Return

(* Each step of a call leaves less to do: however deep the trees, a call of  *)
(* the client returns within 6 |Obj| + 2 steps of the class's code.          *)
THEOREM CallsEnd ==
  ASSUME Related = FALSE, IsFiniteSet(Obj)
  PROVE  Spec => CallsShrink
<1>1. Spec => []IInv
  BY TreeInvariant
<1>2. ASSUME IInv, [Next]_vars PROVE [stack # <<>> => Work' < Work]_vars
  BY <1>2, WorkShrinks DEF Next, Start
<1> QED
  BY <1>1, <1>2, PTL DEF Spec, CallsShrink

=============================================================================
