-------------------------- MODULE FreeListsProofs --------------------------
(* What pushing, popping and writing elsewhere do to the nodes of a list. *)
EXTENDS FreeLists, TLAPS

(* The nodes of a list hold its head and are closed under next. *)
LEMMA ReachClosed ==
  ASSUME NEW S, NEW h \in S \union {NULL}, NEW next \in [S -> S \union {NULL}]
  PROVE  Reach(S, h, next) \in SUBSET S /\ Closed(Reach(S, h, next), h, next)
BY SMT DEF Reach, Closed

(* They are the smallest such set. *)
LEMMA ReachLeast ==
  ASSUME NEW S, NEW h, NEW next, NEW N \in SUBSET S, Closed(N, h, next)
  PROVE  Reach(S, h, next) \subseteq N
BY DEF Reach

(* A null head is an empty list. *)
LEMMA ReachNull ==
  ASSUME NEW S, NEW next
  PROVE  Reach(S, NULL, next) = {}
<1>1. Closed({}, NULL, next)
  BY DEF Closed
<1>. QED
  BY <1>1, ReachLeast

(* A write to an address off the list leaves its nodes alone. *)
LEMMA ReachFrame ==
  ASSUME NEW S, NEW h \in S \union {NULL},
         NEW next \in [S -> S \union {NULL}], NEW other \in [S -> S \union {NULL}],
         \A n \in Reach(S, h, next) : other[n] = next[n]
  PROVE  Reach(S, h, other) = Reach(S, h, next)
<1> DEFINE R == Reach(S, h, next)
           Q == Reach(S, h, other)
<1>1. R \in SUBSET S /\ Closed(R, h, next)
  BY ReachClosed
<1>2. Q \in SUBSET S /\ Closed(Q, h, other)
  BY ReachClosed
<1>3. Q \subseteq R
  <2>1. Closed(R, h, other)
    BY <1>1 DEF Closed
  <2>. QED
    BY <1>1, <2>1, ReachLeast
<1>4. R \subseteq Q
  <2>1. Closed(Q, h, next)
    BY <1>1, <1>2, <1>3 DEF Closed
  <2>. QED
    BY <1>2, <2>1, ReachLeast
<1>. QED
  BY <1>3, <1>4

(* InsertNode: a node linked to the old head becomes the new head. *)
LEMMA ReachPush ==
  ASSUME NEW S, NULL \notin S,
         NEW next \in [S -> S \union {NULL}],
         NEW n \in S, n \notin Reach(S, next[n], next)
  PROVE  Reach(S, n, next) = Reach(S, next[n], next) \union {n}
<1> DEFINE h == next[n]
           R == Reach(S, h, next)
           Q == Reach(S, n, next)
<1>1. R \in SUBSET S /\ Closed(R, h, next)
  BY ReachClosed
<1>2. Q \in SUBSET S /\ Closed(Q, n, next)
  BY ReachClosed
<1>3. Q \subseteq R \union {n}
  <2>1. Closed(R \union {n}, n, next)
    BY <1>1 DEF Closed
  <2>. QED
    BY <1>1, <2>1, ReachLeast
<1>4. n \in Q /\ Closed(Q, h, next)
  BY <1>2 DEF Closed
<1>5. R \subseteq Q
  BY <1>2, <1>4, ReachLeast
<1>. QED
  BY <1>3, <1>4, <1>5

(* The push keeps the list a simple path. *)
LEMMA ListPush ==
  ASSUME NEW S, NULL \notin S,
         NEW next \in [S -> S \union {NULL}], NEW n \in S, n \notin Reach(S, next[n], next),
         IsList(S, next[n], next)
  PROVE  IsList(S, n, next)
<1> DEFINE h == next[n]
           R == Reach(S, h, next)
<1>1. R \in SUBSET S /\ Closed(R, h, next)
  BY ReachClosed
<1>2. Reach(S, n, next) = R \union {n}
  BY ReachPush
<1>3. \A m \in R : next[m] # n /\ (h # NULL => next[m] # h)
  BY <1>1 DEF Closed, IsList
<1>4. next[n] # n
  BY <1>1 DEF Closed
<1>. QED
  BY <1>2, <1>3, <1>4 DEF IsList

(* Taking the first node off leaves the others. *)
LEMMA ReachPop ==
  ASSUME NEW S, NULL \notin S, NEW h \in S,
         NEW next \in [S -> S \union {NULL}], IsList(S, h, next)
  PROVE  /\ Reach(S, next[h], next) = Reach(S, h, next) \ {h}
         /\ IsList(S, next[h], next)
<1> DEFINE R == Reach(S, h, next)
           Q == Reach(S, next[h], next)
<1>1. R \in SUBSET S /\ Closed(R, h, next) /\ h \in R
  BY ReachClosed DEF Closed
<1>2. next[h] \in S \union {NULL} /\ Q \in SUBSET S /\ Closed(Q, next[h], next)
  BY ReachClosed
<1>3. \A n \in R : next[n] # h
  BY DEF IsList
<1>4. Q \subseteq R \ {h}
  <2>1. Closed(R \ {h}, next[h], next)
    BY <1>1, <1>3 DEF Closed
  <2>. QED
    BY <1>1, <2>1, ReachLeast
<1>5. R \ {h} \subseteq Q
  <2>1. Closed(Q \union {h}, h, next)
    BY <1>2 DEF Closed
  <2>2. R \subseteq Q \union {h}
    BY <1>2, <2>1, ReachLeast
  <2>. QED
    BY <2>2
<1>6. IsList(S, next[h], next)
  BY <1>1, <1>4 DEF IsList
<1>. QED
  BY <1>4, <1>5, <1>6

(* What is behind a node is reached from its successor. *)
LEMMA ReachStep ==
  ASSUME NEW S, NEW h \in S, NEW next \in [S -> S \union {NULL}]
  PROVE  Reach(S, h, next) \subseteq Reach(S, next[h], next) \union {h}
<1> DEFINE Q == Reach(S, next[h], next)
<1>1. Q \in SUBSET S /\ Closed(Q, next[h], next)
  BY ReachClosed
<1>2. Closed(Q \union {h}, h, next)
  BY <1>1 DEF Closed
<1>. QED
  BY <1>1, <1>2, ReachLeast

(* No node of a list is its own successor. *)
LEMMA NoSelfLoop ==
  ASSUME NEW S, NULL \notin S, NEW h \in S,
         NEW next \in [S -> S \union {NULL}], IsList(S, h, next),
         NEW n \in Reach(S, h, next)
  PROVE  next[n] # n
<1> DEFINE R == Reach(S, h, next)
<1>1. R \in SUBSET S /\ Closed(R, h, next) /\ h \in R
  BY ReachClosed DEF Closed
<1>2. ASSUME next[n] = n PROVE FALSE
  <2>1. n # NULL /\ n # h
    BY <1>1, <1>2 DEF IsList
  <2>2. \A k \in R \ {n} : next[k] # n
    BY <1>2, <2>1 DEF IsList
  <2>3. Closed(R \ {n}, h, next)
    BY <1>1, <2>1, <2>2 DEF Closed
  <2>. QED
    BY <1>1, <2>3, ReachLeast
<1>. QED
  BY <1>2

(* Unlinking the node behind k, as FindSuitableNode does. *)
Unlinked(S, h, next, k, other) ==
  /\ NULL \notin S /\ h \in S /\ k \in Reach(S, h, next) /\ next[k] # NULL
  /\ next \in [S -> S \union {NULL}] /\ other \in [S -> S \union {NULL}]
  /\ IsList(S, h, next)
  /\ other[k] = next[next[k]] /\ \A n \in S \ {k} : other[n] = next[n]

LEMMA ReachUnlink ==
  ASSUME NEW S, NEW h, NEW next, NEW k, NEW other, Unlinked(S, h, next, k, other)
  PROVE  /\ next[k] \in Reach(S, h, next)
         /\ Reach(S, h, other) = Reach(S, h, next) \ {next[k]}
         /\ IsList(S, h, other)
<1> DEFINE R == Reach(S, h, next)
           Q == Reach(S, h, other)
           r == next[k]
<1>0. /\ NULL \notin S /\ h \in S /\ k \in Reach(S, h, next) /\ next[k] # NULL
      /\ next \in [S -> S \union {NULL}] /\ other \in [S -> S \union {NULL}]
      /\ IsList(S, h, next)
      /\ other[k] = next[next[k]] /\ \A n \in S \ {k} : other[n] = next[n]
  BY DEF Unlinked
<1>1. R \in SUBSET S /\ Closed(R, h, next) /\ h \in R
  BY <1>0, ReachClosed DEF Closed
<1>2. Q \in SUBSET S /\ Closed(Q, h, other) /\ h \in Q
  BY <1>0, ReachClosed DEF Closed
<1>3. r \in R /\ r # h /\ r # k /\ next[r] # r
  BY <1>0, <1>1, NoSelfLoop DEF Closed, IsList
<1>4. \A n \in R \ {k} : next[n] # r
  BY <1>0 DEF IsList
<1>5. Q \subseteq R \ {r}
  <2>1. Closed(R \ {r}, h, other)
    BY <1>0, <1>1, <1>3, <1>4 DEF Closed
  <2>. QED
    BY <1>0, <1>1, <2>1, ReachLeast
<1>6. k \in Q
  <2>1. ASSUME k \notin Q PROVE FALSE
    <3>1. Closed(Q, h, next)
      BY <1>0, <1>2, <2>1 DEF Closed
    <3>. QED
      BY <1>0, <1>2, <2>1, <3>1, ReachLeast
  <2>. QED
    BY <2>1
<1>7. R \ {r} \subseteq Q
  <2>1. next[r] # NULL => next[r] \in Q
    BY <1>0, <1>2, <1>6 DEF Closed
  <2>2. Closed(Q \union {r}, h, next)
    BY <1>0, <1>1, <1>2, <1>3, <2>1 DEF Closed
  <2>3. Q \union {r} \in SUBSET S
    BY <1>0, <1>1, <1>2, <1>3
  <2>4. R \subseteq Q \union {r}
    BY <2>2, <2>3, ReachLeast
  <2>. QED
    BY <2>4
<1>8. IsList(S, h, other)
  <2>1. \A n \in Q : other[n] # h
    BY <1>0, <1>1, <1>3, <1>5 DEF IsList
  <2>2. ASSUME NEW m \in Q, NEW n \in Q, other[m] = other[n], other[m] # NULL
        PROVE  m = n
    <3>1. m \in R /\ n \in R /\ m # r /\ n # r /\ m \in S /\ n \in S /\ k \in S
      BY <1>0, <1>1, <1>5
    <3>2. \A x, y \in R : next[x] = next[y] /\ next[x] # NULL => x = y
      BY <1>0 DEF IsList
    <3>3. CASE m = k
      BY <1>0, <1>3, <2>2, <3>1, <3>2, <3>3
    <3>4. CASE n = k
      BY <1>0, <1>3, <2>2, <3>1, <3>2, <3>4
    <3>5. CASE m # k /\ n # k
      BY <1>0, <2>2, <3>1, <3>2, <3>5
    <3>. QED
      BY <3>3, <3>4, <3>5
  <2>. QED
    BY <2>1, <2>2 DEF IsList
<1>. QED
  BY <1>3, <1>5, <1>7, <1>8

(* The shape survives a write off the list as well. *)
LEMMA ListFrame ==
  ASSUME NEW S, NEW h \in S \union {NULL},
         NEW next \in [S -> S \union {NULL}], NEW other \in [S -> S \union {NULL}],
         \A n \in Reach(S, h, next) : other[n] = next[n],
         IsList(S, h, next)
  PROVE  IsList(S, h, other)
BY ReachFrame, SMT DEF IsList

-----------------------------------------------------------------------------
(* The addresses covered when a block joins or leaves a set of blocks. *)
LEMMA CoverPush ==
  ASSUME NEW N, NEW n, NEW size
  PROVE  Cover(N \union {n}, size) = Cover(N, size) \union Extent(n, size[n])
BY DEF Cover

LEMMA CoverPop ==
  ASSUME NEW N, NEW n \in N, NEW size, NoOverlap(N, size)
  PROVE  /\ Cover(N \ {n}, size) = Cover(N, size) \ Extent(n, size[n])
         /\ NoOverlap(N \ {n}, size)
         /\ Extent(n, size[n]) \subseteq Cover(N, size)
BY DEF Cover, NoOverlap

(* Only the sizes of the blocks themselves matter. *)
LEMMA CoverFrame ==
  ASSUME NEW N, NEW size, NEW other, \A n \in N : other[n] = size[n]
  PROVE  /\ Cover(N, other) = Cover(N, size)
         /\ NoOverlap(N, size) => NoOverlap(N, other)
BY DEF Cover, NoOverlap

(* A block covers its own base, so an uncovered address is no block's base. *)
LEMMA CoverBase ==
  ASSUME NEW N \in SUBSET Nat, NEW size, \A n \in N : size[n] \in Nat \ {0}
  PROVE  N \subseteq Cover(N, size)
<1>1. \A n \in N : n \in Extent(n, size[n])
  BY DEF Extent
<1>. QED
  BY <1>1 DEF Cover
=============================================================================
