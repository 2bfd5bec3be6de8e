---------------------------- MODULE ReceiptsProofs ----------------------------
(***************************************************************************)
(* Theorems about Receipts, for any repository, scopes, files and bounds:  *)
(* what a review attests, what a receipt signs and what a verification     *)
(* that passes means.                                                      *)
(***************************************************************************)
EXTENDS Receipts, NumberLemmas, SequenceTheorems

-----------------------------------------------------------------------------
(* Commits. *)

\* A line of ancestors, as far as it has been followed.
LineUpTo(r, m) ==
    {f \in [0 .. m -> SUBSET Nat] :
        \A c \in 0 .. m :
            f[c] = IF c = 0 THEN {} ELSE {c} \cup f[r.commits[c].parent]}

LEMMA LineExists ==
  ASSUME NEW r, IsRepository(r), NEW n \in Nat, n <= Len(r.commits)
  PROVE  LineUpTo(r, n) # {}
<1> DEFINE Bad == {m \in 0 .. n : LineUpTo(r, m) = {}}
<1>0. PICK len \in Nat : len = Len(r.commits)
  BY DEF IsRepository
<1>1. SUFFICES ASSUME Bad # {} PROVE FALSE
  OBVIOUS
<1>2. PICK m \in Bad : \A k \in Bad : m <= k
  <2>1. Bad \in SUBSET Nat
    OBVIOUS
  <2> HIDE DEF Bad
  <2>2. QED
    BY <1>1, <2>1, LeastNumber
<1>3. m \in 0 .. n /\ LineUpTo(r, m) = {}
  OBVIOUS
<1>4. CASE m = 0
  <2> DEFINE f == [c \in 0 .. 0 |-> {}]
  <2>1. f \in LineUpTo(r, 0)
    BY DEF LineUpTo
  <2>2. QED
    BY <1>3, <1>4, <2>1
<1>5. CASE m # 0
  <2>1. PICK k \in 0 .. n : m = k + 1
    <3>1. m - 1 \in 0 .. n /\ m = (m - 1) + 1
      BY <1>3, <1>5
    <3>2. QED
      BY <3>1
  <2>2. LineUpTo(r, k) # {}
    <3>1. ~(m <= k)
      BY <2>1
    <3>2. QED
      BY <1>2, <3>1
  <2>3. PICK f \in [0 .. k -> SUBSET Nat] :
          \A c \in 0 .. k : f[c] = IF c = 0 THEN {} ELSE {c} \cup f[r.commits[c].parent]
    BY <2>2 DEF LineUpTo
  <2>4. PICK parent \in 0 .. k : parent = r.commits[m].parent
    <3>1. m \in 1 .. len
      BY <1>0, <1>3, <1>5
    <3>2. r.commits[m].parent \in 0 .. (m - 1)
      BY <1>0, <3>1 DEF IsRepository
    <3>3. QED
      BY <2>1, <3>2
  <2> DEFINE g == [c \in 0 .. m |-> IF c = m THEN {m} \cup f[parent] ELSE f[c]]
  <2>5. g \in [0 .. m -> SUBSET Nat]
    <3>1. f[parent] \in SUBSET Nat /\ {m} \in SUBSET Nat
      BY <2>1, <2>3, <2>4
    <3>2. \A c \in 0 .. m : c # m => c \in 0 .. k
      BY <2>1
    <3>3. QED
      BY <2>3, <3>1, <3>2
  <2>6. ASSUME NEW c \in 0 .. m
        PROVE  g[c] = IF c = 0 THEN {} ELSE {c} \cup g[r.commits[c].parent]
    <3>1. CASE c = m
      <4>1. parent # m /\ parent \in 0 .. m
        BY <2>1, <2>4
      <4>2. g[parent] = f[parent] /\ g[m] = {m} \cup f[parent]
        BY <4>1
      <4>3. QED
        BY <1>5, <2>4, <3>1, <4>2
    <3>2. CASE c # m
      <4>1. c \in 0 .. k /\ g[c] = f[c]
        BY <2>1, <3>2
      <4>2. CASE c = 0
        BY <2>3, <4>1, <4>2
      <4>3. CASE c # 0
        <5>1. c \in 1 .. len
          BY <1>0, <1>3, <4>3
        <5>2. r.commits[c].parent \in 0 .. (c - 1)
          BY <1>0, <5>1 DEF IsRepository
        <5>3. PICK q \in 0 .. m : q = r.commits[c].parent /\ q # m
          BY <2>1, <4>1, <5>2
        <5>4. g[q] = f[q]
          BY <5>3
        <5>5. QED
          BY <2>3, <4>1, <4>3, <5>3, <5>4
      <4>4. QED
        BY <4>2, <4>3
    <3>3. QED
      BY <3>1, <3>2
  <2> HIDE DEF g
  <2>7. g \in LineUpTo(r, m)
    BY <2>5, <2>6 DEF LineUpTo
  <2>8. QED
    BY <1>3, <2>7
<1>6. QED
  BY <1>4, <1>5

\* Ancestors unfolds: a commit, and the ancestors of its parent.
LEMMA AncestorsUnfold ==
  ASSUME NEW r, IsRepository(r), NEW c \in 0 .. Len(r.commits)
  PROVE  Ancestors(r)[c] = IF c = 0 THEN {} ELSE {c} \cup Ancestors(r)[r.commits[c].parent]
<1>1. PICK n \in Nat : n = Len(r.commits)
  BY DEF IsRepository
<1>2. PICK f \in [0 .. n -> SUBSET Nat] :
        \A d \in 0 .. n : f[d] = IF d = 0 THEN {} ELSE {d} \cup f[r.commits[d].parent]
  <2>1. LineUpTo(r, n) # {}
    BY <1>1, LineExists
  <2>2. QED
    BY <2>1 DEF LineUpTo
<1> DEFINE Is(g) == g = [d \in 0 .. n |-> IF d = 0 THEN {} ELSE {d} \cup g[r.commits[d].parent]]
<1>3. Is(f)
  BY <1>2
<1>4. Ancestors(r) = CHOOSE g : Is(g)
  BY <1>1 DEF Ancestors
<1>5. Is(Ancestors(r))
  <2>1. Is(CHOOSE g : Is(g))
    BY <1>3
  <2>2. QED
    BY <1>4, <2>1
<1>6. QED
  BY <1>1, <1>5

\* One repository is found after another: commits and flags are only added.
Later(r, s) ==
    /\ Len(r.commits) <= Len(s.commits)
    /\ \A c \in 1 .. Len(r.commits) : s.commits[c] = r.commits[c]
    /\ r.flags \subseteq s.flags

\* The parent of a commit is there and older.
LEMMA ParentBefore ==
  ASSUME NEW r, IsRepository(r), NEW c \in 0 .. Len(r.commits), c # 0
  PROVE  /\ r.commits[c].parent \in 0 .. Len(r.commits) /\ ~(c <= r.commits[c].parent)
         /\ r.commits[c].parent \in Nat /\ c \in 1 .. Len(r.commits)
<1>1. PICK n \in Nat : n = Len(r.commits)
  BY DEF IsRepository
<1>2. c \in 1 .. n
  BY <1>1
<1>3. PICK parent \in 0 .. (c - 1) : parent = r.commits[c].parent
  BY <1>1, <1>2 DEF IsRepository
<1>4. parent \in 0 .. n /\ ~(c <= parent) /\ parent \in Nat
  BY <1>2
<1>5. QED
  BY <1>1, <1>2, <1>3, <1>4

\* Ancestors are not younger than the commit.
LEMMA AncestorsBelow ==
  ASSUME NEW r, IsRepository(r), NEW c \in 0 .. Len(r.commits)
  PROVE  Ancestors(r)[c] \subseteq 1 .. c
<1>1. PICK n \in Nat : n = Len(r.commits)
  BY DEF IsRepository
<1> DEFINE Bad == {d \in 0 .. n : ~(Ancestors(r)[d] \subseteq 1 .. d)}
<1>2. ASSUME Bad # {} PROVE FALSE
  <2>1. PICK d \in Bad : \A e \in Bad : d <= e
    <3>1. Bad \in SUBSET Nat
      OBVIOUS
    <3> HIDE DEF Bad
    <3>2. QED
      BY <1>2, <3>1, LeastNumber
  <2>2. d \in 0 .. n /\ ~(Ancestors(r)[d] \subseteq 1 .. d)
    OBVIOUS
  <2>3. Ancestors(r)[d] = IF d = 0 THEN {} ELSE {d} \cup Ancestors(r)[r.commits[d].parent]
    BY <1>1, <2>2, AncestorsUnfold
  <2>4. d # 0
    BY <2>2, <2>3
  <2>5. PICK parent \in 0 .. n : parent = r.commits[d].parent /\ ~(d <= parent)
    BY <1>1, <2>2, <2>4, ParentBefore
  <2>6. Ancestors(r)[parent] \subseteq 1 .. parent
    BY <2>1, <2>5
  <2>7. 1 .. parent \subseteq 1 .. d /\ d \in 1 .. d
    BY <2>2, <2>4, <2>5
  <2>8. QED
    BY <2>2, <2>3, <2>4, <2>5, <2>6, <2>7
<1>3. QED
  BY <1>1, <1>2

LEMMA SelfAncestor ==
  ASSUME NEW r, IsRepository(r), NEW c \in 0 .. Len(r.commits), c # 0
  PROVE  IsAncestor(r, c, c)
<1>1. Ancestors(r)[c] = {c} \cup Ancestors(r)[r.commits[c].parent]
  BY AncestorsUnfold
<1>2. QED
  BY <1>1 DEF IsAncestor

\* What the ancestors of a commit are, later commits do not change.
LEMMA AncestorsKept ==
  ASSUME NEW r, NEW s, IsRepository(r), IsRepository(s), Later(r, s),
         NEW c \in 0 .. Len(r.commits)
  PROVE  Ancestors(s)[c] = Ancestors(r)[c]
<1>1. PICK n \in Nat : n = Len(r.commits)
  BY DEF IsRepository
<1>2. PICK m \in Nat : m = Len(s.commits) /\ n <= m
  BY <1>1 DEF IsRepository, Later
<1> DEFINE Bad == {d \in 0 .. n : Ancestors(s)[d] # Ancestors(r)[d]}
<1>3. ASSUME Bad # {} PROVE FALSE
  <2>1. PICK d \in Bad : \A e \in Bad : d <= e
    <3>1. Bad \in SUBSET Nat
      OBVIOUS
    <3> HIDE DEF Bad
    <3>2. QED
      BY <1>3, <3>1, LeastNumber
  <2>2. d \in 0 .. n /\ d \in 0 .. m /\ Ancestors(s)[d] # Ancestors(r)[d]
    BY <1>2
  <2>3. Ancestors(r)[d] = IF d = 0 THEN {} ELSE {d} \cup Ancestors(r)[r.commits[d].parent]
    BY <1>1, <2>2, AncestorsUnfold
  <2>4. Ancestors(s)[d] = IF d = 0 THEN {} ELSE {d} \cup Ancestors(s)[s.commits[d].parent]
    BY <1>2, <2>2, AncestorsUnfold
  <2>5. d # 0
    BY <2>2, <2>3, <2>4
  <2>6. PICK parent \in 0 .. n : parent = r.commits[d].parent /\ ~(d <= parent)
    BY <1>1, <2>2, <2>5, ParentBefore
  <2>7. s.commits[d].parent = parent
    <3>1. d \in 1 .. Len(r.commits)
      BY <1>1, <2>2, <2>5
    <3>2. QED
      BY <2>6, <3>1 DEF Later
  <2>8. Ancestors(s)[parent] = Ancestors(r)[parent]
    BY <2>1, <2>6
  <2>9. QED
    BY <2>2, <2>3, <2>4, <2>6, <2>7, <2>8
<1>4. QED
  BY <1>1, <1>3

\* The merge base is an ancestor of both commits, and an ancestor is its own
\* merge base.
LEMMA MergeBases ==
  ASSUME NEW r, IsRepository(r), NEW c \in 0 .. Len(r.commits), NEW d \in 0 .. Len(r.commits),
         NEW base, base = MergeBase(r, c, d)
  PROVE  /\ base \in 0 .. Len(r.commits)
         /\ base # 0 => IsAncestor(r, base, c) /\ IsAncestor(r, base, d)
         /\ c # 0 /\ IsAncestor(r, c, d) => base = c
<1>1. PICK n \in Nat : n = Len(r.commits)
  BY DEF IsRepository
<1> DEFINE common == Ancestors(r)[c] \cap Ancestors(r)[d]
<1>2. Ancestors(r)[c] \subseteq 1 .. c /\ Ancestors(r)[d] \subseteq 1 .. d
  BY AncestorsBelow
<1>3. common \subseteq 1 .. c /\ common \subseteq 0 .. n /\ common \subseteq 1 .. n
  <2>1. 1 .. c \subseteq 0 .. n /\ 1 .. c \subseteq 1 .. n
    BY <1>1
  <2>2. QED
    BY <1>2, <2>1
<1>4. base = IF common = {} THEN 0 ELSE Max(common)
  BY DEF MergeBase
<1> HIDE DEF common
<1>5. CASE common = {}
  <2>1. base = 0 /\ base \in 0 .. n
    BY <1>4, <1>5
  <2>2. c # 0 /\ IsAncestor(r, c, d) => c \in common
    BY SelfAncestor DEF IsAncestor, common
  <2>3. QED
    BY <1>1, <1>5, <2>1, <2>2
<1>6. CASE common # {}
  <2>1. PICK x \in common : \A y \in common : y <= x
    BY <1>1, <1>3, <1>6, GreatestNumber
  <2>2. \A y \in common : x >= y
    <3>1. ASSUME NEW y \in common PROVE x >= y
      <4>1. x \in 0 .. n /\ y \in 0 .. n /\ y <= x
        BY <1>3, <2>1
      <4>2. QED
        BY <4>1
    <3>2. QED
      BY <3>1
  <2>3. Max(common) \in common /\ \A y \in common : Max(common) >= y
    <3>1. Max(common) = CHOOSE z \in common : \A y \in common : z >= y
      BY DEF Max
    <3>2. QED
      BY <2>2, <3>1
  <2>4. base \in common /\ \A y \in common : base >= y
    BY <1>4, <1>6, <2>3
  <2>5. base \in 1 .. n /\ base \in 1 .. c
    BY <1>3, <2>4
  <2>6. c # 0 /\ IsAncestor(r, c, d) => base = c
    <3>1. SUFFICES ASSUME c # 0, IsAncestor(r, c, d) PROVE base = c
      OBVIOUS
    <3>2. c \in common
      BY <3>1, SelfAncestor DEF IsAncestor, common
    <3>3. base >= c
      BY <2>4, <3>2
    <3>4. QED
      BY <2>5, <3>3
  <2>7. base \in 0 .. n
    BY <2>5
  <2>8. QED
    BY <1>1, <2>4, <2>6, <2>7 DEF IsAncestor, common
<1>7. QED
  BY <1>5, <1>6

-----------------------------------------------------------------------------
(* What happens to a repository. *)

Repo(commits, head, index, work, flags) ==
    [commits |-> commits, head |-> head, index |-> index, work |-> work, flags |-> flags]

Commits == Seq([tree : Trees, parent : Nat])

LEMMA RepositoryParts ==
  ASSUME NEW r, IsRepository(r)
  PROVE  /\ r = Repo(r.commits, r.head, r.index, r.work, r.flags)
         /\ r.commits \in Commits /\ r.head \in 0 .. Len(r.commits) /\ r.head \in Nat
         /\ r.index \in Trees /\ r.work \in Trees /\ r.flags \in SUBSET Paths
  BY DEF IsRepository, Repo, Commits

LEMMA PartsOfRepository ==
  ASSUME NEW commits \in Commits, NEW head \in Nat, NEW index \in Trees, NEW work \in Trees,
         NEW flags \in SUBSET Paths, head \in 0 .. Len(commits),
         \A c \in 1 .. Len(commits) : commits[c].parent \in 0 .. (c - 1)
  PROVE  IsRepository(Repo(commits, head, index, work, flags))
<1>1. PICK r : r = Repo(commits, head, index, work, flags)
  OBVIOUS
<1>2. /\ r.commits = commits /\ r.head = head /\ r.index = index /\ r.work = work
      /\ r.flags = flags
  BY <1>1 DEF Repo
<1>3. r \in [commits : Commits, head : Nat, index : Trees, work : Trees, flags : SUBSET Paths]
  BY <1>1 DEF Repo
<1>4. IsRepository(r)
  BY <1>2, <1>3 DEF IsRepository, Commits
<1>5. QED
  BY <1>1, <1>4

LEMMA LaterSelf ==
  ASSUME NEW r, IsRepository(r) PROVE Later(r, r)
<1>1. PICK n \in Nat : n = Len(r.commits)
  BY DEF IsRepository
<1>2. n <= n
  OBVIOUS
<1>3. QED
  BY <1>1, <1>2 DEF Later

LEMMA LaterThenLater ==
  ASSUME NEW r, NEW s, NEW t, IsRepository(r), IsRepository(s), IsRepository(t),
         Later(r, s), Later(s, t)
  PROVE  Later(r, t)
<1>1. PICK k \in Nat, m \in Nat, n \in Nat :
        k = Len(r.commits) /\ m = Len(s.commits) /\ n = Len(t.commits)
  BY DEF IsRepository
<1>2. k <= m /\ m <= n
  BY <1>1 DEF Later
<1>3. k <= n /\ 1 .. k \subseteq 1 .. m
  BY <1>2
<1>4. QED
  BY <1>1, <1>3 DEF Later

\* What is read of a commit, later commits do not change.
LEMMA TreesKept ==
  ASSUME NEW r, NEW s, IsRepository(r), IsRepository(s), Later(r, s),
         NEW c \in 0 .. Len(r.commits)
  PROVE  TreeOf(s, c) = TreeOf(r, c) /\ c \in 0 .. Len(s.commits)
<1>1. PICK k \in Nat, m \in Nat : k = Len(r.commits) /\ m = Len(s.commits)
  BY DEF IsRepository
<1>2. k <= m /\ c \in 0 .. k
  BY <1>1 DEF Later
<1>3. c \in 0 .. m /\ (c # 0 => c \in 1 .. k)
  BY <1>2
<1>4. QED
  BY <1>1, <1>3 DEF Later, TreeOf

LEMMA TreeOfIsTree ==
  ASSUME NEW r, IsRepository(r), NEW c \in 0 .. Len(r.commits)
  PROVE  TreeOf(r, c) \in Trees
<1>1. Bare \in Trees
  BY DEF Bare, Trees
<1>2. PICK n \in Nat : n = Len(r.commits)
  BY DEF IsRepository
<1>3. c # 0 => c \in 1 .. n
  BY <1>2
<1>4. c # 0 => r.commits[c].tree \in Trees
  <2>1. PICK T, commits : T = [tree : Trees, parent : Nat] /\ commits \in Seq(T)
                          /\ commits = r.commits
    BY DEF IsRepository
  <2>2. \A d \in 1 .. Len(commits) : commits[d] \in T
    BY <2>1, ElementOfSeq
  <2>3. c # 0 => commits[c] \in T
    BY <1>2, <1>3, <2>1, <2>2
  <2>4. QED
    BY <2>1, <2>3
<1>5. QED
  BY <1>1, <1>4 DEF TreeOf

\* The index, the checkout and the flags change, and no flag is taken back.
LEMMA CheckoutActs ==
  ASSUME NEW r, IsRepository(r), NEW index \in Trees, NEW work \in Trees,
         NEW flags \in SUBSET Paths, r.flags \subseteq flags,
         NEW s, s = Repo(r.commits, r.head, index, work, flags)
  PROVE  IsRepository(s) /\ Later(r, s)
<1>1. /\ r.commits \in Commits /\ r.head \in Nat /\ r.head \in 0 .. Len(r.commits)
      /\ \A c \in 1 .. Len(r.commits) : r.commits[c].parent \in 0 .. (c - 1)
  BY RepositoryParts DEF IsRepository
<1>2. IsRepository(s)
  BY <1>1, PartsOfRepository
<1>3. s.commits = r.commits /\ s.flags = flags
  BY DEF Repo
<1>4. PICK n \in Nat : n = Len(r.commits)
  BY DEF IsRepository
<1>5. n <= n
  OBVIOUS
<1>6. QED
  BY <1>2, <1>3, <1>4, <1>5 DEF Later

\* A commit is added on top of an older one.
LEMMA CommitActs ==
  ASSUME NEW r, IsRepository(r), NEW parent \in 0 .. Len(r.commits)
  PROVE  /\ IsRepository(Committed(r, parent)) /\ Later(r, Committed(r, parent))
         /\ Committed(r, parent) =
              Repo(Append(r.commits, [tree |-> r.index, parent |-> parent]),
                   Len(r.commits) + 1, r.index, r.work, r.flags)
         /\ TreeOf(Committed(r, parent), Len(r.commits) + 1) = r.index
<1>1. PICK n \in Nat : n = Len(r.commits)
  BY DEF IsRepository
<1>2. PICK commits, index, work, flags :
         /\ r = Repo(commits, r.head, index, work, flags)
         /\ commits = r.commits /\ index = r.index /\ work = r.work /\ flags = r.flags
         /\ commits \in Commits /\ index \in Trees /\ work \in Trees /\ flags \in SUBSET Paths
  BY RepositoryParts
<1>3. PICK one : one = [tree |-> index, parent |-> parent]
  OBVIOUS
<1>4. parent \in Nat /\ parent \in 0 .. n
  BY <1>1
<1>5. one \in [tree : Trees, parent : Nat] /\ one.parent = parent /\ one.tree = index
  BY <1>2, <1>3, <1>4
<1>6. PICK more : more = Append(commits, one)
  OBVIOUS
<1>7. /\ more \in Commits /\ Len(more) = n + 1
      /\ \A c \in 1 .. n : more[c] = commits[c]
      /\ more[n + 1] = one
  BY <1>1, <1>2, <1>5, <1>6 DEF Commits
<1>8. PICK s : s = Repo(more, n + 1, index, work, flags)
  OBVIOUS
<1>9. Committed(r, parent) = s
  <2>1. Committed(r, parent) = [[r EXCEPT !.commits = more] EXCEPT !.head = n + 1]
    BY <1>1, <1>2, <1>3, <1>6, Zenon DEF Committed
  <2>2. [r EXCEPT !.commits = more] = Repo(more, r.head, index, work, flags)
    BY <1>2 DEF Repo
  <2>3. [Repo(more, r.head, index, work, flags) EXCEPT !.head = n + 1] = s
    BY <1>8 DEF Repo
  <2>4. QED
    BY <2>1, <2>2, <2>3
<1>10. \A c \in 1 .. Len(more) : more[c].parent \in 0 .. (c - 1)
  <2>1. ASSUME NEW c \in 1 .. (n + 1) PROVE more[c].parent \in 0 .. (c - 1)
    <3>1. CASE c = n + 1
      <4>1. parent \in 0 .. (c - 1)
        BY <1>4, <3>1
      <4>2. QED
        BY <1>5, <1>7, <3>1, <4>1
    <3>2. CASE c # n + 1
      <4>1. c \in 1 .. n
        BY <3>2
      <4>2. QED
        BY <1>1, <1>2, <1>7, <4>1 DEF IsRepository
    <3>3. QED
      BY <3>1, <3>2
  <2>2. QED
    BY <1>7, <2>1
<1>11. n + 1 \in 0 .. Len(more) /\ n + 1 \in Nat /\ n <= n + 1 /\ n + 1 # 0
  BY <1>7
<1>12. IsRepository(s)
  BY <1>2, <1>7, <1>8, <1>10, <1>11, PartsOfRepository
<1>13. s.commits = more /\ s.flags = flags
  BY <1>8 DEF Repo
<1>14. Later(r, s)
  BY <1>1, <1>2, <1>7, <1>11, <1>13 DEF Later
<1>15. TreeOf(s, n + 1) = index
  BY <1>5, <1>7, <1>11, <1>13 DEF TreeOf
<1>16. QED
  BY <1>1, <1>2, <1>3, <1>6, <1>8, <1>9, <1>12, <1>14, <1>15

LEMMA StagedIs ==
  ASSUME NEW r, IsRepository(r)
  PROVE  /\ IsRepository(Staged(r)) /\ Later(r, Staged(r))
         /\ Staged(r) = Repo(r.commits, r.head, Staged(r).index, r.work, r.flags)
         /\ Staged(r).index \in Trees
         /\ \A p \in Paths : Staged(r).index[p] = IF p \in Ignored /\ r.index[p] = Gone
                                                  THEN Gone ELSE r.work[p]
<1>1. PICK commits, head, index, work, flags :
         /\ r = Repo(commits, head, index, work, flags)
         /\ commits = r.commits /\ head = r.head
         /\ index = r.index /\ work = r.work /\ flags = r.flags
         /\ commits \in Commits /\ index \in Trees /\ work \in Trees /\ flags \in SUBSET Paths
  BY RepositoryParts
<1>2. PICK staged : staged = [p \in Paths |-> IF p \in Ignored /\ index[p] = Gone
                                             THEN Gone ELSE work[p]]
  OBVIOUS
<1>3. staged \in Trees
  BY <1>1, <1>2 DEF Trees
<1>4. Staged(r) = [r EXCEPT !.index = staged]
  BY <1>1, <1>2, Zenon DEF Staged
<1>5. Staged(r) = Repo(commits, head, staged, work, flags)
  BY <1>1, <1>4 DEF Repo
<1>6. Staged(r).index = staged
  BY <1>5 DEF Repo
<1>7. IsRepository(Staged(r)) /\ Later(r, Staged(r))
  <2>1. flags \subseteq flags
    OBVIOUS
  <2>2. QED
    BY <1>1, <1>3, <1>5, <2>1, CheckoutActs
<1>8. QED
  BY <1>1, <1>2, <1>3, <1>5, <1>6, <1>7

\* What the operator does to the repository, and what the operator leaves alone.
LEMMA OperatorActs ==
  ASSUME IsRepository(repo), Operator
  PROVE  /\ IsRepository(repo') /\ Later(repo, repo')
         /\ acts < MaxActs /\ acts' = acts + 1
         /\ UNCHANGED <<scope, reading, review, sealing, receipt, checking>>
<1>1. /\ acts < MaxActs /\ acts' = acts + 1
      /\ UNCHANGED <<scope, reading, review, sealing, receipt, checking>>
  <2>1. acts < MaxActs
    BY DEF Operator
  <2>2. Acts
    BY DEF Operator, Edit, Stage, Hide, Move, Commit, Tick, Revoke, Changes
  <2>3. QED
    BY <2>1, <2>2 DEF Acts
<1>2. PICK commits, head, index, work, flags :
         /\ repo = Repo(commits, head, index, work, flags)
         /\ commits = repo.commits /\ head = repo.head
         /\ index = repo.index /\ work = repo.work /\ flags = repo.flags
         /\ commits \in Commits /\ head \in 0 .. Len(commits)
         /\ index \in Trees /\ work \in Trees /\ flags \in SUBSET Paths
  BY RepositoryParts
<1> DEFINE Done == IsRepository(repo') /\ Later(repo, repo')
<1>3. ASSUME NEW index2 \in Trees, NEW work2 \in Trees, NEW flags2 \in SUBSET Paths,
             flags \subseteq flags2, repo' = Repo(commits, head, index2, work2, flags2)
      PROVE  Done
  BY <1>2, <1>3, CheckoutActs
<1>4. ASSUME NEW p \in Paths, NEW content \in Bytes \cup {Gone}, Edit(p, content)
      PROVE  Done
  <2>1. PICK work2 : work2 = [work EXCEPT ![p] = content]
    OBVIOUS
  <2>2. work2 \in Trees
    BY <1>2, <2>1 DEF Trees
  <2>3. repo' = [repo EXCEPT !.work = work2]
    BY <1>2, <1>4, <2>1, Zenon DEF Edit, Changes
  <2>4. repo' = Repo(commits, head, index, work2, flags)
    BY <1>2, <2>3 DEF Repo
  <2>5. QED
    BY <1>2, <1>3, <2>2, <2>4
<1>5. ASSUME NEW p \in Paths, Stage(p)
      PROVE  Done
  <2>1. PICK index2 : index2 = [index EXCEPT ![p] = work[p]]
    OBVIOUS
  <2>2. index2 \in Trees
    BY <1>2, <2>1 DEF Trees
  <2>3. repo' = [repo EXCEPT !.index = index2]
    BY <1>2, <1>5, <2>1, Zenon DEF Stage, Changes
  <2>4. repo' = Repo(commits, head, index2, work, flags)
    BY <1>2, <2>3 DEF Repo
  <2>5. QED
    BY <1>2, <1>3, <2>2, <2>4
<1>6. ASSUME NEW p \in Paths, Hide(p)
      PROVE  Done
  <2>1. PICK flags2 : flags2 = flags \cup {p}
    OBVIOUS
  <2>2. flags2 \in SUBSET Paths /\ flags \subseteq flags2
    BY <1>2, <2>1
  <2>3. repo' = [repo EXCEPT !.flags = flags2]
    BY <1>2, <1>6, <2>1, Zenon DEF Hide, Changes
  <2>4. repo' = Repo(commits, head, index, work, flags2)
    BY <1>2, <2>3 DEF Repo
  <2>5. QED
    BY <1>2, <1>3, <2>2, <2>4
<1>7. ASSUME NEW p \in Paths, NEW q \in Paths, Move(p, q)
      PROVE  Done
  <2>1. PICK index2, work2 :
          /\ index2 = [[index EXCEPT ![q] = index[p]] EXCEPT ![p] = Gone]
          /\ work2 = [[work EXCEPT ![q] = work[p]] EXCEPT ![p] = Gone]
    OBVIOUS
  <2>2. index2 \in Trees /\ work2 \in Trees
    BY <1>2, <2>1 DEF Trees
  <2>3. repo' = [[repo EXCEPT !.index = index2] EXCEPT !.work = work2]
    BY <1>2, <1>7, <2>1, Zenon DEF Move, Changes
  <2>4. [repo EXCEPT !.index = index2] = Repo(commits, head, index2, work, flags)
    BY <1>2 DEF Repo
  <2>5. [Repo(commits, head, index2, work, flags) EXCEPT !.work = work2]
          = Repo(commits, head, index2, work2, flags)
    BY DEF Repo
  <2>6. repo' = Repo(commits, head, index2, work2, flags)
    BY <2>3, <2>4, <2>5
  <2>7. QED
    BY <1>2, <1>3, <2>2, <2>6
<1>8. ASSUME Commit PROVE Done
  <2>1. PICK r \in {repo, Staged(repo)},
             parent \in {repo.head} \cup
                (IF repo.head = 0 THEN {} ELSE {repo.commits[repo.head].parent}) :
          Changes(Committed(r, parent))
    BY <1>8 DEF Commit
  <2>2. repo' = Committed(r, parent)
    BY <2>1 DEF Changes
  <2>3. IsRepository(r) /\ Later(repo, r) /\ r.commits = commits
    <3>1. CASE r = repo
      BY <1>2, <3>1, LaterSelf
    <3>2. CASE r = Staged(repo)
      <4>1. Repo(commits, head, r.index, work, flags).commits = commits
        BY DEF Repo
      <4>2. QED
        BY <1>2, <3>2, <4>1, StagedIs
    <3>3. QED
      BY <2>1, <3>1, <3>2
  <2>4. parent \in 0 .. Len(commits)
    <3>1. CASE parent = repo.head
      BY <1>2, <3>1
    <3>2. CASE repo.head # 0 /\ parent = repo.commits[repo.head].parent
      BY <1>2, <3>2, ParentBefore
    <3>3. QED
      BY <2>1, <3>1, <3>2
  <2>5. IsRepository(repo') /\ Later(r, repo')
    BY <2>2, <2>3, <2>4, CommitActs
  <2>6. QED
    BY <2>3, <2>5, LaterThenLater
<1>9. ASSUME Tick \/ Revoke PROVE Done
  <2>1. repo' = repo
    BY <1>9 DEF Tick, Revoke
  <2>2. QED
    BY <2>1, LaterSelf
<1> HIDE DEF Done
<1>10. Done
  BY <1>4, <1>5, <1>6, <1>7, <1>8, <1>9 DEF Operator
<1>11. QED
  BY <1>1, <1>10 DEF Done

\* A command of acceptance changes the checkout alone, the other steps nothing
\* of the repository.
LEMMA RepositoryKept ==
  ASSUME IsRepository(repo), [Next]_vars
  PROVE  IsRepository(repo') /\ Later(repo, repo')
<1>1. ASSUME UNCHANGED repo PROVE IsRepository(repo') /\ Later(repo, repo')
  BY <1>1, LaterSelf
<1>2. ASSUME FinalizeAcceptance PROVE IsRepository(repo') /\ Later(repo, repo')
  <2>1. CASE UNCHANGED repo
    BY <1>1, <2>1
  <2>2. ASSUME NEW out \in Outputs, repo' = [repo EXCEPT !.work[out[1]] = out[2]]
        PROVE  IsRepository(repo') /\ Later(repo, repo')
    <3>1. PICK commits, head, index, work, flags :
             /\ repo = Repo(commits, head, index, work, flags)
             /\ commits = repo.commits /\ head = repo.head
             /\ index = repo.index /\ work = repo.work /\ flags = repo.flags
             /\ index \in Trees /\ work \in Trees /\ flags \in SUBSET Paths
      BY RepositoryParts
    <3>2. PICK p \in Paths, content \in Bytes : p = out[1] /\ content = out[2]
      BY ReceiptsAssumption
    <3>3. PICK work2 : work2 = [work EXCEPT ![p] = content]
      OBVIOUS
    <3>4. work2 \in Trees
      BY <3>1, <3>3 DEF Trees
    <3>5. repo' = [repo EXCEPT !.work = work2]
      BY <2>2, <3>1, <3>2, <3>3, Zenon
    <3>6. repo' = Repo(commits, head, index, work2, flags) /\ flags \subseteq flags
      BY <3>1, <3>5 DEF Repo
    <3>7. QED
      BY <3>1, <3>4, <3>6, CheckoutActs
  <2>3. QED
    BY <1>2, <2>1, <2>2 DEF FinalizeAcceptance
<1>3. CASE Operator
  BY <1>3, OperatorActs
<1>4. CASE UNCHANGED vars
  BY <1>1, <1>4 DEF vars
<1>5. CASE \/ ReviewStart \/ ReviewGuard \/ ReviewRecord \/ HumanReview
           \/ FinalizeGate \/ FinalizeCover \/ FinalizeSnapshot \/ FinalizeMint
  <2>1. UNCHANGED repo
    BY <1>5 DEF ReviewStart, ReviewGuard, ReviewRecord, HumanReview, FinalizeGate,
                FinalizeCover, FinalizeSnapshot, FinalizeMint, workspace
  <2>2. QED
    BY <1>1, <2>1
<1>6. CASE VerifyStart \/ VerifyTrust \/ VerifyMaterial \/ VerifyAcceptance
  <2>1. UNCHANGED repo
    BY <1>6 DEF VerifyStart, VerifyTrust, VerifyMaterial, VerifyAcceptance, workspace
  <2>2. QED
    BY <1>1, <2>1
<1>7. QED
  BY <1>2, <1>3, <1>4, <1>5, <1>6 DEF Next

-----------------------------------------------------------------------------
(* Snapshots and seals. *)

\* The digests are the scoped files of the tree.
DigestsOf(f, tree, sc) ==
    /\ DOMAIN f = {p \in sc \ Runtime : tree[p] # Gone}
    /\ \A p \in DOMAIN f : f[p] = tree[p]

LEMMA DigestsAre ==
  ASSUME NEW tree \in Trees, NEW sc \in SUBSET Paths, NEW f, f = FileDigests(tree, sc)
  PROVE  /\ IsPartialTree(f) /\ f # Failed /\ DOMAIN f \in SUBSET Paths
         /\ DOMAIN f = {p \in sc \ Runtime : tree[p] # Gone}
         /\ f = [p \in DOMAIN f |-> tree[p]]
         /\ \A p \in DOMAIN f : f[p] = tree[p]
<1>1. DOMAIN f = {p \in sc \ Runtime : tree[p] # Gone} /\ f = [p \in DOMAIN f |-> tree[p]]
  BY DEF FileDigests
<1>2. DOMAIN f \in SUBSET Paths
  BY <1>1
<1>3. \A p \in DOMAIN f : f[p] = tree[p] /\ tree[p] \in Bytes
  BY <1>1 DEF Trees
<1>4. f \in [DOMAIN f -> Bytes]
  BY <1>1, <1>3
<1>5. f # Failed
  BY <1>2, <1>4, FailedAssumption
<1>6. QED
  BY <1>1, <1>2, <1>3, <1>4, <1>5 DEF IsPartialTree

LEMMA PartialTreeIsNoError ==
  ASSUME NEW f, IsPartialTree(f)
  PROVE  f # Failed
<1>1. DOMAIN f \in SUBSET Paths /\ f \in [DOMAIN f -> Bytes]
  BY DEF IsPartialTree
<1>2. QED
  BY <1>1, FailedAssumption

LEMMA TemporaryTreeIs ==
  ASSUME NEW r, IsRepository(r)
  PROVE  /\ TemporaryTree(r) \in Trees
         /\ \A p \in Paths :
              TemporaryTree(r)[p] = IF p \in Runtime \/ (TreeOf(r, r.head)[p] = Gone /\ p \in Ignored)
                                    THEN Gone ELSE r.work[p]
  BY RepositoryParts DEF TemporaryTree, Trees

LEMMA RefTreeIs ==
  ASSUME NEW r, IsRepository(r), NEW c \in 0 .. Len(r.commits)
  PROVE  /\ RefTree(r, c) \in Trees
         /\ \A p \in Paths : RefTree(r, c)[p] = IF p \in Runtime THEN Gone ELSE TreeOf(r, c)[p]
  BY TreeOfIsTree DEF RefTree, Trees

\* Facts that were read are not an error.
LEMMA FactsAre ==
  ASSUME NEW r, IsRepository(r), NEW base \in Nat, NEW head \in Nat, NEW tree \in Trees,
         NEW sc \in SUBSET Paths, NEW ignored \in SUBSET Paths,
         NEW snap, snap = Facts(r, base, head, tree, sc, ignored)
  PROVE  /\ snap # Failed /\ snap.base = base /\ snap.head = head
         /\ snap.digests = FileDigests(tree, sc)
         /\ snap.deleted = DeletedPaths(r, base, tree, sc) /\ snap.deleted \in SUBSET Paths
         /\ snap.ignored = ignored
<1>1. PICK digests, deleted : digests = FileDigests(tree, sc) /\ deleted = DeletedPaths(r, base, tree, sc)
  OBVIOUS
<1>2. deleted \in SUBSET Paths
  BY <1>1 DEF DeletedPaths
<1>3. PICK ps \in SUBSET Paths : digests \in [ps -> Bytes]
  BY <1>1, DigestsAre DEF IsPartialTree
<1>4. snap = [base |-> base, head |-> head, digests |-> digests, deleted |-> deleted,
              ignored |-> ignored]
  BY <1>1 DEF Facts
<1>5. snap \in [base : Nat, head : Nat, digests : [ps -> Bytes],
                deleted : SUBSET Paths, ignored : SUBSET Paths]
  BY <1>2, <1>3, <1>4
<1>6. snap # Failed
  BY <1>5, FailedAssumption
<1>7. QED
  BY <1>1, <1>2, <1>4, <1>6

LEMMA IgnoredIn ==
  ASSUME NEW r, NEW sc \in SUBSET Paths
  PROVE  IgnoredPaths(r, sc) \in SUBSET Paths
  BY DEF IgnoredPaths

\* The base a snapshot is taken against.
SnapshotBase(r, baseRef) ==
    IF r.head = 0 \/ baseRef = 0 THEN r.head ELSE MergeBase(r, baseRef, r.head)

LEMMA SnapshotBaseIs ==
  ASSUME NEW r, IsRepository(r), NEW baseRef \in 0 .. Len(r.commits)
  PROVE  SnapshotBase(r, baseRef) \in 0 .. Len(r.commits) /\ SnapshotBase(r, baseRef) \in Nat
<1>1. SnapshotBase(r, baseRef) \in 0 .. Len(r.commits)
  <2>1. r.head \in 0 .. Len(r.commits)
    BY RepositoryParts
  <2>2. MergeBase(r, baseRef, r.head) \in 0 .. Len(r.commits)
    BY <2>1, MergeBases
  <2>3. QED
    BY <2>1, <2>2 DEF SnapshotBase
<1>2. PICK n \in Nat : n = Len(r.commits)
  BY DEF IsRepository
<1>3. QED
  BY <1>1, <1>2

\* What a snapshot of the checkout is when it is taken, and when it is.
LEMMA SnapshotIs ==
  ASSUME NEW r, IsRepository(r), NEW sc \in SUBSET Paths, NEW baseRef \in 0 .. Len(r.commits),
         NEW snap, snap = Snapshot(r, sc, baseRef)
  PROVE  /\ snap = Failed <=> \/ sc = {} \/ Flagged(r, sc)
                              \/ r.head # 0 /\ SnapshotBase(r, baseRef) = 0
         /\ snap # Failed =>
              /\ snap.base = SnapshotBase(r, baseRef) /\ snap.head = r.head
              /\ snap.digests = FileDigests(TemporaryTree(r), sc)
              /\ snap.deleted \in SUBSET Paths
              /\ snap.ignored = IgnoredPaths(r, sc) /\ snap.ignored \in SUBSET Paths
<1>1. PICK base \in Nat : base = SnapshotBase(r, baseRef)
  BY SnapshotBaseIs
<1>2. PICK facts : facts = Facts(r, base, r.head, TemporaryTree(r), sc, IgnoredPaths(r, sc))
  OBVIOUS
<1>3. /\ facts # Failed /\ facts.base = base /\ facts.head = r.head
      /\ facts.digests = FileDigests(TemporaryTree(r), sc)
      /\ facts.deleted \in SUBSET Paths
      /\ facts.ignored = IgnoredPaths(r, sc) /\ facts.ignored \in SUBSET Paths
  <2>1. PICK head \in Nat, tree \in Trees, ignored \in SUBSET Paths :
          head = r.head /\ tree = TemporaryTree(r) /\ ignored = IgnoredPaths(r, sc)
    BY RepositoryParts, TemporaryTreeIs, IgnoredIn
  <2>2. facts = Facts(r, base, head, tree, sc, ignored)
    BY <1>2, <2>1
  <2>3. facts.digests = FileDigests(tree, sc) /\ facts.deleted \in SUBSET Paths
    BY <2>2, FactsAre
  <2>4. facts # Failed /\ facts.base = base /\ facts.head = head /\ facts.ignored = ignored
    BY <2>2, <2>3, FactsAre
  <2>5. QED
    BY <2>1, <2>3, <2>4
<1>4. snap = IF sc = {} \/ Flagged(r, sc) \/ (r.head # 0 /\ base = 0) THEN Failed ELSE facts
  BY <1>1, <1>2 DEF Snapshot, SnapshotBase
<1>5. QED
  BY <1>1, <1>3, <1>4

\* The seal of the material.
LEMMA SealIs ==
  ASSUME NEW r, IsRepository(r), NEW sc \in SUBSET Paths
  PROVE  MaterialSeal(r, sc) = IF sc = {} \/ Flagged(r, sc) THEN Failed
                               ELSE FileDigests(TemporaryTree(r), sc)
<1>1. PICK snap : snap = Snapshot(r, sc, 0)
  OBVIOUS
<1>2. 0 \in 0 .. Len(r.commits)
  <2>1. PICK n \in Nat : n = Len(r.commits)
    BY DEF IsRepository
  <2>2. QED
    BY <2>1
<1>3. SnapshotBase(r, 0) = r.head
  BY DEF SnapshotBase
<1>4. /\ snap = Failed <=> sc = {} \/ Flagged(r, sc)
      /\ snap # Failed => snap.digests = FileDigests(TemporaryTree(r), sc)
  BY <1>1, <1>2, <1>3, SnapshotIs
<1>5. QED
  BY <1>1, <1>4 DEF MaterialSeal

\* The seal that is part of a snapshot.
LEMMA SealOfSnapshot ==
  ASSUME NEW r, IsRepository(r), NEW sc \in SUBSET Paths, NEW baseRef \in 0 .. Len(r.commits),
         Snapshot(r, sc, baseRef) # Failed
  PROVE  Snapshot(r, sc, baseRef).digests = MaterialSeal(r, sc)
<1>1. PICK snap : snap = Snapshot(r, sc, baseRef)
  OBVIOUS
<1>2. ~(sc = {} \/ Flagged(r, sc)) /\ snap.digests = FileDigests(TemporaryTree(r), sc)
  BY <1>1, SnapshotIs
<1>3. QED
  BY <1>1, <1>2, SealIs

\* A seal is a partial tree of scoped files.
LEMMA SealShape ==
  ASSUME NEW r, IsRepository(r), NEW sc \in SUBSET Paths, NEW f, f = MaterialSeal(r, sc),
         f # Failed
  PROVE  /\ IsPartialTree(f) /\ sc # {} /\ ~Flagged(r, sc)
         /\ f = FileDigests(TemporaryTree(r), sc)
         /\ DigestsOf(f, TemporaryTree(r), sc)
<1>1. f = FileDigests(TemporaryTree(r), sc) /\ sc # {} /\ ~Flagged(r, sc)
  <2>1. MaterialSeal(r, sc) = IF sc = {} \/ Flagged(r, sc) THEN Failed
                              ELSE FileDigests(TemporaryTree(r), sc)
    BY SealIs
  <2>2. QED
    BY <2>1
<1>2. PICK tree \in Trees : tree = TemporaryTree(r)
  BY TemporaryTreeIs
<1>3. /\ IsPartialTree(f)
      /\ DOMAIN f = {p \in sc \ Runtime : tree[p] # Gone}
      /\ \A p \in DOMAIN f : f[p] = tree[p]
  <2>1. f = FileDigests(tree, sc)
    BY <1>1, <1>2
  <2>2. QED
    BY <2>1, DigestsAre
<1>4. QED
  BY <1>1, <1>2, <1>3 DEF DigestsOf

-----------------------------------------------------------------------------
(* The inductive invariant, a part for every process. *)

IsReading(r) ==
    r = [pc |-> r.pc, before |-> r.before, saw |-> r.saw, met |-> r.met, finding |-> r.finding]

IsSealing(s) ==
    s = [pc |-> s.pc, scope |-> s.scope, base |-> s.base, minted |-> s.minted,
         host |-> s.host, cover |-> s.cover, snap |-> s.snap,
         gated |-> s.gated, shown |-> s.shown, taken |-> s.taken]

IsChecking(c) ==
    c = [pc |-> c.pc, ref |-> c.ref, target |-> c.target, root |-> c.root,
         minimum |-> c.minimum, opened |-> c.opened, passed |-> c.passed]

WorldInv ==
    /\ IsRepository(repo)
    /\ scope \in Scopes /\ acts \in 0 .. MaxActs /\ now \in 0 .. MaxTime
    /\ keys \in [revoked : BOOLEAN, until : 0 .. (MaxTime + 1)]

\* What the review command holds while it runs was read from two repositories,
\* the second found after the first.
ReviewInv ==
    /\ IsReading(reading) /\ reading.pc \in Stages("review") /\ reading.finding \in BOOLEAN
    /\ review # NoReview =>
         /\ reading.pc = "over"
         /\ review.scope \in Scopes /\ IsPartialTree(review.files)
         /\ review.passes \in BOOLEAN /\ review.provider \in Vendors \cup {Human}
    /\ reading.pc \in {"provider", "judged"} =>
         /\ IsRepository(reading.saw) /\ Later(reading.saw, repo)
         /\ MaterialSeal(reading.saw, scope) # Failed
         /\ reading.before = Fingerprints(reading.saw)
    /\ reading.pc = "judged" =>
         /\ IsRepository(reading.met)
         /\ Later(reading.saw, reading.met) /\ Later(reading.met, repo)
         /\ reading.finding = (BlockingMutations(reading.before, Fingerprints(reading.met),
                                                 scope, Alone[scope], SpecFile) # {})

\* What finalize compares and signs is the snapshot of a repository it read.
SnapshotOf(r) == Snapshot(r, sealing.scope, sealing.base)

Read(r) ==
    /\ IsRepository(r) /\ sealing.base \in 0 .. Len(r.commits)
    /\ SnapshotOf(r) # Failed

SealingInv ==
    /\ IsSealing(sealing) /\ sealing.pc \in Stages("finalize")
    /\ sealing.scope \in SUBSET Paths /\ sealing.base \in 0 .. Len(repo.commits)
    /\ sealing.minted \in 0 .. now
    /\ sealing.pc \notin {"idle", "over"} =>
         /\ review # NoReview
         /\ IsRepository(sealing.gated)
         /\ review.provider = Human
              \/ MaterialSeal(sealing.gated, review.scope) = review.files
    /\ sealing.pc \in {"covered", "snapped", "accepted"} =>
         Read(sealing.shown) /\ sealing.cover = Coverage(SnapshotOf(sealing.shown))
    /\ sealing.pc \in {"snapped", "accepted"} =>
         /\ Read(sealing.taken) /\ sealing.snap = SnapshotOf(sealing.taken)
         /\ Later(sealing.taken, repo)

\* A receipt is signed over commits that are there, and withholds the pinned
\* files among those it signs.
ReceiptInv ==
    receipt # NoReceipt =>
        /\ sealing.pc = "over" /\ review # NoReview
        /\ receipt.provider = review.provider
        /\ receipt.level = Independence(receipt.provider, receipt.host)
        /\ receipt.scope \in SUBSET Paths /\ receipt.scope # {}
        /\ receipt.base \in 1 .. Len(repo.commits) /\ receipt.head \in 1 .. Len(repo.commits)
        /\ IsPartialTree(receipt.digests) /\ DOMAIN receipt.digests \subseteq receipt.scope \ Runtime
        /\ receipt.withheld \in SUBSET Paths
        /\ Pinned \cap DOMAIN receipt.digests \subseteq receipt.withheld

\* The claims a verification of a commit has checked.
CommitInv(ref, target) ==
    /\ CarriesReceipt(TreeOf(repo, ref))
    /\ IsAncestor(repo, receipt.base, ref)
    /\ target # 0 => IsAncestor(repo, target, ref)

\* The claims a verification has checked of the checkout that it read.
CheckoutInv(r) ==
    /\ r.head \in 0 .. Len(r.commits)
    /\ Forced(r, receipt.scope) = {} => CarriesReceipt(r.work)
    /\ IsAncestor(r, receipt.base, r.head)

CheckingInv ==
    /\ IsChecking(checking) /\ checking.pc \in Stages("verify") /\ checking.passed \in BOOLEAN
    /\ checking.ref \in 0 .. Len(repo.commits) /\ checking.target \in 0 .. Len(repo.commits)
    /\ checking.ref = 0 => checking.root = "here"
    /\ checking.passed => checking.pc = "over"
    /\ checking.pc # "idle" => receipt # NoReceipt
    /\ checking.pc \in {"trusted", "matched"} =>
         /\ Independent(checking.minimum)
         /\ checking.root = "here" /\ checking.ref # 0 =>
              /\ IsRepository(checking.opened)
              /\ checking.opened.head = checking.ref /\ ExactlyHead(checking.opened)
    /\ checking.pc = "matched" =>
         /\ checking.root # "none"
         /\ checking.ref # 0 => CommitInv(checking.ref, checking.target)
         /\ checking.ref = 0 => CheckoutInv(checking.opened)

ReceiptsIInv == WorldInv /\ ReviewInv /\ SealingInv /\ ReceiptInv /\ CheckingInv

-----------------------------------------------------------------------------
(* The world: the repository, the clock and the key. *)

LEMMA ScopesArePaths ==
  ASSUME NEW sc \in Scopes \cup Hints PROVE sc \in SUBSET Paths /\ sc # {}
  BY ReceiptsAssumption

LEMMA Bounds ==
  MaxActs \in Nat /\ MaxTime \in Nat
  BY ReceiptsAssumption

\* Every step but the operator's leaves the clock, the key and the acts alone.
LEMMA ClockKept ==
  ASSUME [Next]_vars, ~Operator
  PROVE  UNCHANGED <<now, keys, acts>>
<1>1. CASE \/ ReviewStart \/ ReviewGuard \/ ReviewRecord \/ HumanReview
           \/ FinalizeGate \/ FinalizeCover \/ FinalizeSnapshot \/ FinalizeMint
  BY <1>1 DEF ReviewStart, ReviewGuard, ReviewRecord, HumanReview, FinalizeGate,
              FinalizeCover, FinalizeSnapshot, FinalizeMint, workspace
<1>2. CASE FinalizeAcceptance \/ VerifyStart \/ VerifyTrust \/ VerifyMaterial \/ VerifyAcceptance
  BY <1>2 DEF FinalizeAcceptance, VerifyStart, VerifyTrust, VerifyMaterial, VerifyAcceptance,
              workspace
<1>3. CASE UNCHANGED vars
  BY <1>3 DEF vars
<1>4. QED
  BY <1>1, <1>2, <1>3 DEF Next

\* Nothing declares another scope.
LEMMA ScopeKept ==
  ASSUME [Next]_vars
  PROVE  scope' = scope
<1>1. CASE \/ ReviewStart \/ ReviewGuard \/ ReviewRecord \/ HumanReview
           \/ FinalizeGate \/ FinalizeCover \/ FinalizeSnapshot \/ FinalizeMint
  BY <1>1 DEF ReviewStart, ReviewGuard, ReviewRecord, HumanReview, FinalizeGate,
              FinalizeCover, FinalizeSnapshot, FinalizeMint
<1>2. CASE FinalizeAcceptance \/ VerifyStart \/ VerifyTrust \/ VerifyMaterial \/ VerifyAcceptance
  BY <1>2 DEF FinalizeAcceptance, VerifyStart, VerifyTrust, VerifyMaterial, VerifyAcceptance
<1>3. CASE UNCHANGED vars
  BY <1>3 DEF vars
<1>4. CASE Operator
  BY <1>4 DEF Operator, Edit, Stage, Hide, Move, Commit, Tick, Revoke, Changes, Acts
<1>5. QED
  BY <1>1, <1>2, <1>3, <1>4 DEF Next

LEMMA OperatorKeepsWorld ==
  ASSUME WorldInv, Operator
  PROVE  /\ acts' \in 0 .. MaxActs /\ now' \in 0 .. MaxTime /\ now <= now'
         /\ keys' \in [revoked : BOOLEAN, until : 0 .. (MaxTime + 1)]
<1>1. PICK top \in Nat, last \in Nat : top = MaxActs /\ last = MaxTime
  BY Bounds
<1>2. PICK a \in Nat, n \in Nat : a = acts /\ n = now /\ a <= top /\ n <= last
  BY <1>1 DEF WorldInv
<1>3. acts' \in 0 .. top
  <2>1. a < top /\ acts' = a + 1
    BY <1>1, <1>2, OperatorActs DEF WorldInv
  <2>2. a + 1 \in 0 .. top
    BY <2>1
  <2>3. QED
    BY <2>1, <2>2
<1>4. CASE Tick
  <2>1. n < last /\ now' = n + 1 /\ keys' = keys
    BY <1>1, <1>2, <1>4 DEF Tick
  <2>2. n + 1 \in 0 .. last /\ n <= n + 1
    BY <2>1
  <2>3. QED
    BY <1>1, <1>2, <1>3, <2>1, <2>2 DEF WorldInv
<1>5. CASE Revoke
  <2>1. now' = n /\ n <= n
    BY <1>2, <1>5 DEF Revoke
  <2>2. keys' \in [revoked : BOOLEAN, until : 0 .. (last + 1)]
    <3>1. PICK k \in [revoked : BOOLEAN, until : 0 .. (last + 1)] : k = keys
      BY <1>1 DEF WorldInv
    <3>2. CASE keys' = [keys EXCEPT !.revoked = TRUE]
      BY <3>1, <3>2
    <3>3. ASSUME NEW t \in 0 .. now, keys' = [keys EXCEPT !.until = t]
          PROVE  keys' \in [revoked : BOOLEAN, until : 0 .. (last + 1)]
      <4>1. t \in 0 .. (last + 1)
        <5>1. t \in 0 .. n
          BY <1>2
        <5>2. QED
          BY <1>2, <5>1
      <4>2. QED
        BY <3>1, <3>3, <4>1
    <3>4. QED
      BY <1>5, <3>2, <3>3 DEF Revoke
  <2>3. QED
    BY <1>1, <1>2, <1>3, <2>1, <2>2
<1>6. CASE UNCHANGED <<now, keys>>
  <2>1. n <= n
    OBVIOUS
  <2>2. QED
    BY <1>1, <1>2, <1>3, <1>6, <2>1 DEF WorldInv
<1>7. QED
  BY <1>4, <1>5, <1>6 DEF Operator, Edit, Stage, Hide, Move, Commit, Changes

LEMMA WorldKept ==
  ASSUME WorldInv, [Next]_vars
  PROVE  WorldInv' /\ Later(repo, repo') /\ now <= now'
<1>1. IsRepository(repo') /\ Later(repo, repo')
  BY RepositoryKept DEF WorldInv
<1>2. PICK n \in Nat : n = now
  BY Bounds DEF WorldInv
<1>3. n <= n
  OBVIOUS
<1>4. CASE Operator
  BY <1>1, <1>4, OperatorKeepsWorld, ScopeKept DEF WorldInv
<1>5. CASE ~Operator
  BY <1>1, <1>2, <1>3, <1>5, ClockKept, ScopeKept DEF WorldInv
<1>6. QED
  BY <1>4, <1>5

-----------------------------------------------------------------------------
(* Which process a step belongs to. *)

ReviewSteps   == ReviewStart \/ ReviewGuard \/ ReviewRecord \/ HumanReview
FinalizeSteps == FinalizeGate \/ FinalizeCover \/ FinalizeSnapshot \/ FinalizeAcceptance
                 \/ FinalizeMint
VerifySteps   == VerifyStart \/ VerifyTrust \/ VerifyMaterial \/ VerifyAcceptance

LEMMA ReviewAlone ==
  ASSUME ReviewSteps
  PROVE  UNCHANGED <<repo, now, keys, acts, scope, sealing, receipt, checking>>
  BY DEF ReviewSteps, ReviewStart, ReviewGuard, ReviewRecord, HumanReview, workspace

LEMMA FinalizeAlone ==
  ASSUME FinalizeSteps
  PROVE  UNCHANGED <<now, keys, acts, scope, reading, review, checking>>
  BY DEF FinalizeSteps, FinalizeGate, FinalizeCover, FinalizeSnapshot, FinalizeAcceptance,
         FinalizeMint, workspace

LEMMA VerifyAlone ==
  ASSUME VerifySteps
  PROVE  UNCHANGED <<repo, now, keys, acts, scope, reading, review, sealing, receipt>>
  BY DEF VerifySteps, VerifyStart, VerifyTrust, VerifyMaterial, VerifyAcceptance, workspace

LEMMA OthersAlone ==
  ASSUME [Next]_vars, ~ReviewSteps, ~FinalizeSteps, ~VerifySteps
  PROVE  UNCHANGED <<scope, reading, review, sealing, receipt, checking>>
<1>1. CASE Operator
  BY <1>1 DEF Operator, Edit, Stage, Hide, Move, Commit, Tick, Revoke, Changes, Acts
<1>2. CASE UNCHANGED vars
  BY <1>2 DEF vars
<1>3. QED
  BY <1>1, <1>2 DEF Next, ReviewSteps, FinalizeSteps, VerifySteps

-----------------------------------------------------------------------------
(* The review command. *)

\* A commit or an edit of somebody else leaves what the review command has read.
LEMMA ReviewWaits ==
  ASSUME WorldInv, WorldInv', Later(repo, repo'), ReviewInv, UNCHANGED <<scope, reading, review>>
  PROVE  ReviewInv'
<1>1. reading.pc \in {"provider", "judged"} => Later(reading.saw, repo')
  BY LaterThenLater DEF WorldInv, ReviewInv
<1>2. reading.pc = "judged" => Later(reading.met, repo')
  BY LaterThenLater DEF WorldInv, ReviewInv
<1>3. QED
  BY <1>1, <1>2 DEF ReviewInv, IsReading

LEMMA ReviewStages ==
  Stages("review") = {"idle", "provider", "judged", "over"}
  BY DEF Stages

ReadingWith(pc, before, saw, met, finding) ==
    [pc |-> pc, before |-> before, saw |-> saw, met |-> met, finding |-> finding]

LEMMA ReadingStarts ==
  ASSUME NEW r, IsReading(r), NEW pc, NEW new, NEW last
  PROVE  [r EXCEPT !.pc = pc, !.before = new, !.saw = last]
           = ReadingWith(pc, new, last, r.met, r.finding)
<1>1. PICK one, before, saw, met, finding :
        /\ r = ReadingWith(one, before, saw, met, finding)
        /\ before = r.before /\ saw = r.saw /\ met = r.met /\ finding = r.finding
  BY DEF IsReading, ReadingWith
<1>2. PICK s : s = ReadingWith(pc, before, saw, met, finding)
  OBVIOUS
<1>3. [r EXCEPT !.pc = pc] = s
  BY <1>1, <1>2 DEF ReadingWith
<1>4. PICK t : t = ReadingWith(pc, new, saw, met, finding)
  OBVIOUS
<1>5. [s EXCEPT !.before = new] = t
  BY <1>2, <1>4 DEF ReadingWith
<1>6. [t EXCEPT !.saw = last] = ReadingWith(pc, new, last, met, finding)
  BY <1>4 DEF ReadingWith
<1>7. QED
  BY <1>1, <1>3, <1>5, <1>6, Zenon

LEMMA ReviewStartKeeps ==
  ASSUME WorldInv, ReviewInv, ReviewStart
  PROVE  ReviewInv'
<1>1. PICK r : r = ReadingWith("provider", Fingerprints(repo), repo, reading.met,
                               reading.finding)
  OBVIOUS
<1>2. reading' = r
  <2>1. IsReading(reading) /\ reading' = [reading EXCEPT !.pc = "provider",
            !.before = Fingerprints(repo), !.saw = repo]
    BY DEF ReviewStart, ReviewInv
  <2>2. QED
    BY <1>1, <2>1, ReadingStarts, Zenon
<1>3. /\ r.pc = "provider" /\ r.before = Fingerprints(repo) /\ r.saw = repo
      /\ r.finding = reading.finding /\ IsReading(r)
  BY <1>1 DEF IsReading, ReadingWith
<1>4. /\ review' = NoReview /\ scope' = scope /\ repo' = repo
      /\ MaterialSeal(repo, scope) # Failed
  BY DEF ReviewStart, workspace
<1>5. IsRepository(repo) /\ Later(repo, repo)
  BY LaterSelf DEF WorldInv
<1>6. r.pc \in Stages("review") /\ r.pc # "judged" /\ r.finding \in BOOLEAN
  BY <1>3, ReviewStages DEF ReviewInv
<1>7. QED
  BY <1>2, <1>3, <1>4, <1>5, <1>6 DEF ReviewInv

LEMMA ReviewGuardKeeps ==
  ASSUME WorldInv, ReviewInv, ReviewGuard
  PROVE  ReviewInv'
<1>1. PICK finding \in BOOLEAN :
        finding = (BlockingMutations(reading.before, Fingerprints(repo), scope, Alone[scope],
                                     SpecFile) # {})
  OBVIOUS
<1>2. PICK r : r = ReadingWith("judged", reading.before, reading.saw, repo, finding)
  OBVIOUS
<1>3. reading' = r
  <2>1. PICK r0, one, before, saw, met, old, now0 :
          /\ r0 = ReadingWith(one, before, saw, met, old) /\ now0 = repo
          /\ r0 = reading /\ before = reading.before /\ saw = reading.saw
    BY DEF ReviewInv, IsReading, ReadingWith
  <2>2. PICK s, t : /\ s = ReadingWith("judged", before, saw, met, old)
                   /\ t = ReadingWith("judged", before, saw, now0, old)
    OBVIOUS
  <2>3. [r0 EXCEPT !.pc = "judged"] = s
    BY <2>1, <2>2 DEF ReadingWith
  <2>4. [s EXCEPT !.met = now0] = t
    BY <2>2 DEF ReadingWith
  <2>5. [t EXCEPT !.finding = finding] = ReadingWith("judged", before, saw, now0, finding)
    BY <2>2 DEF ReadingWith
  <2>6. reading' = [[[r0 EXCEPT !.pc = "judged"] EXCEPT !.met = now0] EXCEPT !.finding = finding]
    BY <1>1, <2>1, Zenon DEF ReviewGuard
  <2>7. reading' = ReadingWith("judged", before, saw, now0, finding)
    BY <2>3, <2>4, <2>5, <2>6, Zenon
  <2>8. QED
    BY <1>2, <2>1, <2>7
<1>4. /\ r.pc = "judged" /\ r.before = reading.before /\ r.saw = reading.saw
      /\ r.met = repo /\ r.finding = finding /\ IsReading(r)
  BY <1>2 DEF IsReading, ReadingWith
<1>5. review' = review /\ scope' = scope /\ repo' = repo /\ reading.pc = "provider"
  BY DEF ReviewGuard, workspace
<1>6. review = NoReview
  BY <1>5 DEF ReviewInv
<1>7. /\ IsRepository(repo) /\ Later(repo, repo)
      /\ IsRepository(reading.saw) /\ Later(reading.saw, repo)
      /\ MaterialSeal(reading.saw, scope) # Failed
      /\ reading.before = Fingerprints(reading.saw)
  BY <1>5, LaterSelf DEF WorldInv, ReviewInv
<1>8. r.pc \in Stages("review")
  BY <1>4, ReviewStages
<1>9. QED
  BY <1>1, <1>3, <1>4, <1>5, <1>6, <1>7, <1>8 DEF ReviewInv

LEMMA RecordedIs ==
  ASSUME NEW provider, NEW files, NEW passes, NEW saw,
         NEW r, r = Recorded(provider, files, passes, saw)
  PROVE  r.scope = scope /\ r.files = files /\ r.passes = passes /\ r.provider = provider
  BY DEF Recorded

\* A review that is over.
LEMMA ReviewIsOver ==
  ASSUME WorldInv, WorldInv', reading' = Reading("over"), scope' = scope,
         review' # NoReview =>
            /\ review'.scope = scope /\ IsPartialTree(review'.files)
            /\ review'.passes \in BOOLEAN /\ review'.provider \in Vendors \cup {Human}
  PROVE  ReviewInv'
<1>1. PICK r : r = Reading("over")
  OBVIOUS
<1>2. r.pc = "over" /\ r.finding = FALSE /\ IsReading(r)
  BY <1>1 DEF Reading, IsReading
<1>3. r.pc \in Stages("review") /\ r.finding \in BOOLEAN
  BY <1>2, ReviewStages
<1>4. QED
  BY <1>1, <1>2, <1>3 DEF ReviewInv, WorldInv

LEMMA ReviewRecordKeeps ==
  ASSUME WorldInv, WorldInv', ReviewInv, ReviewRecord
  PROVE  ReviewInv'
<1>1. PICK files : files = MaterialSeal(repo, scope)
  OBVIOUS
<1>2. PICK provider \in Vendors :
        review' = IF files = Failed THEN NoReview
                  ELSE Recorded(provider, files, ~reading.finding, reading.saw)
  BY <1>1 DEF ReviewRecord
<1>3. PICK passes \in BOOLEAN : passes = ~reading.finding
  OBVIOUS
<1>4. PICK r : r = Recorded(provider, files, passes, reading.saw)
  OBVIOUS
<1>5. r.scope = scope /\ r.files = files /\ r.passes = passes /\ r.provider = provider
  BY <1>4, RecordedIs
<1>6. files # Failed => IsPartialTree(files)
  BY <1>1, SealShape, ScopesArePaths DEF WorldInv
<1>7. review' = IF files = Failed THEN NoReview ELSE r
  BY <1>2, <1>3, <1>4
<1>8. reading' = Reading("over") /\ scope' = scope
  BY DEF ReviewRecord
<1>9. review' # NoReview =>
        /\ review'.scope = scope /\ IsPartialTree(review'.files)
        /\ review'.passes \in BOOLEAN /\ review'.provider \in Vendors \cup {Human}
  BY <1>5, <1>6, <1>7
<1>10. QED
  BY <1>8, <1>9, ReviewIsOver

LEMMA HumanReviewKeeps ==
  ASSUME WorldInv, WorldInv', HumanReview
  PROVE  ReviewInv'
<1>1. PICK files, no, yes : files = << >> /\ no = FALSE /\ yes = TRUE
  OBVIOUS
<1>2. PICK r : r = Recorded(Human, files, yes, repo)
  OBVIOUS
<1>3. r.scope = scope /\ r.files = files /\ r.passes = yes /\ r.provider = Human
  BY <1>2, RecordedIs
<1>4. IsPartialTree(files)
  <2>1. DOMAIN files = {}
    BY <1>1
  <2>2. files = [x \in {} |-> x]
    BY <1>1
  <2>3. files \in [{} -> Bytes]
    BY <2>2
  <2>4. QED
    BY <2>1, <2>3 DEF IsPartialTree
<1>5. review' = r /\ reading' = Reading("over") /\ scope' = scope
  BY <1>1, <1>2 DEF HumanReview
<1>6. /\ review'.scope = scope /\ IsPartialTree(review'.files)
      /\ review'.passes \in BOOLEAN /\ review'.provider \in Vendors \cup {Human}
  BY <1>1, <1>3, <1>4, <1>5
<1>7. QED
  BY <1>5, <1>6, ReviewIsOver

LEMMA ReviewKept ==
  ASSUME WorldInv, ReviewInv, [Next]_vars
  PROVE  ReviewInv' /\ (review # NoReview => review' = review)
<1>1. WorldInv' /\ Later(repo, repo')
  BY WorldKept
<1>2. CASE ReviewSteps
  <2>1. ReviewInv'
    BY <1>1, <1>2, ReviewStartKeeps, ReviewGuardKeeps, ReviewRecordKeeps, HumanReviewKeeps
       DEF ReviewSteps
  <2>2. review # NoReview => review' = review
    BY <1>2 DEF ReviewSteps, ReviewStart, ReviewGuard, ReviewRecord, HumanReview, ReviewInv
  <2>3. QED
    BY <2>1, <2>2
<1>3. CASE ~ReviewSteps
  <2>1. UNCHANGED <<scope, reading, review>>
    BY <1>3, FinalizeAlone, VerifyAlone, OthersAlone
  <2>2. QED
    BY <1>1, <2>1, ReviewWaits
<1>4. QED
  BY <1>2, <1>3

-----------------------------------------------------------------------------
(* The finalize command. *)

LEMMA FinalizeStages ==
  Stages("finalize") = {"idle", "gated", "covered", "snapped", "accepted", "over"}
  BY DEF Stages

SealingWith(pc, sc, base, minted, host, cover, snap, gated, shown, taken) ==
    [pc |-> pc, scope |-> sc, base |-> base, minted |-> minted, host |-> host,
     cover |-> cover, snap |-> snap, gated |-> gated, shown |-> shown, taken |-> taken]

LEMMA SealingFields ==
  ASSUME NEW pc, NEW sc, NEW base, NEW minted, NEW host, NEW cover, NEW snap, NEW gated,
         NEW shown, NEW taken,
         NEW s, s = SealingWith(pc, sc, base, minted, host, cover, snap, gated, shown, taken)
  PROVE  /\ IsSealing(s)
         /\ s.pc = pc /\ s.scope = sc /\ s.base = base /\ s.minted = minted /\ s.host = host
         /\ s.cover = cover /\ s.snap = snap
         /\ s.gated = gated /\ s.shown = shown /\ s.taken = taken
  BY DEF SealingWith, IsSealing

LEMMA SealingParts ==
  ASSUME NEW s, IsSealing(s)
  PROVE  s = SealingWith(s.pc, s.scope, s.base, s.minted, s.host, s.cover, s.snap,
                         s.gated, s.shown, s.taken)
  BY DEF SealingWith, IsSealing

\* What the three steps that go on write.
LEMMA GateIs ==
  ASSUME SealingInv, FinalizeGate
  PROVE  \E hint \in Hints \cup {{}}, baseRef \in 0 .. Len(repo.commits),
            host \in Vendors \cup {Unknown} :
           sealing' = SealingWith("gated", GateScope(hint), BaseOf(baseRef), now, host,
                                  sealing.cover, sealing.snap, repo, sealing.shown,
                                  sealing.taken)
<1>1. PICK hint \in Hints \cup {{}}, baseRef \in 0 .. Len(repo.commits),
           host \in Vendors \cup {Unknown} :
         sealing' = [sealing EXCEPT !.pc = "gated",
                         !.scope = GateScope(hint),
                         !.base = BaseOf(baseRef),
                         !.minted = now, !.host = host, !.gated = repo]
  BY DEF FinalizeGate
<1>2. PICK s0, pc0, sc0, base0, minted0, host0, cover, snap, gated0, shown, taken :
        /\ s0 = SealingWith(pc0, sc0, base0, minted0, host0, cover, snap, gated0, shown, taken)
        /\ s0 = sealing /\ cover = sealing.cover /\ snap = sealing.snap
        /\ shown = sealing.shown /\ taken = sealing.taken
  BY SealingParts DEF SealingInv
<1>3. PICK sc, base, minted, gated :
        sc = GateScope(hint) /\ base = BaseOf(baseRef) /\ minted = now /\ gated = repo
  OBVIOUS
<1>4. sealing' = [[[[[[s0 EXCEPT !.pc = "gated"] EXCEPT !.scope = sc] EXCEPT !.base = base]
                      EXCEPT !.minted = minted] EXCEPT !.host = host] EXCEPT !.gated = gated]
  BY <1>1, <1>2, <1>3, Zenon
<1>5. PICK s1, s2, s3, s4, s5 :
        /\ s1 = SealingWith("gated", sc0, base0, minted0, host0, cover, snap, gated0, shown, taken)
        /\ s2 = SealingWith("gated", sc, base0, minted0, host0, cover, snap, gated0, shown, taken)
        /\ s3 = SealingWith("gated", sc, base, minted0, host0, cover, snap, gated0, shown, taken)
        /\ s4 = SealingWith("gated", sc, base, minted, host0, cover, snap, gated0, shown, taken)
        /\ s5 = SealingWith("gated", sc, base, minted, host, cover, snap, gated0, shown, taken)
  OBVIOUS
<1>6. [s0 EXCEPT !.pc = "gated"] = s1
  BY <1>2, <1>5 DEF SealingWith
<1>7. [s1 EXCEPT !.scope = sc] = s2
  BY <1>5 DEF SealingWith
<1>8. [s2 EXCEPT !.base = base] = s3
  BY <1>5 DEF SealingWith
<1>9. [s3 EXCEPT !.minted = minted] = s4
  BY <1>5 DEF SealingWith
<1>10. [s4 EXCEPT !.host = host] = s5
  BY <1>5 DEF SealingWith
<1>11. [s5 EXCEPT !.gated = gated]
          = SealingWith("gated", sc, base, minted, host, cover, snap, gated, shown, taken)
  BY <1>5 DEF SealingWith
<1>12. sealing' = SealingWith("gated", sc, base, minted, host, cover, snap, gated, shown, taken)
  BY <1>4, <1>6, <1>7, <1>8, <1>9, <1>10, <1>11, Zenon
<1>13. QED
  BY <1>2, <1>3, <1>12

LEMMA CoverIs ==
  ASSUME SealingInv, FinalizeCover
  PROVE  \/ SnapshotOf(repo) = Failed /\ Stop
         \/ /\ SnapshotOf(repo) # Failed
            /\ sealing' = SealingWith("covered", sealing.scope, sealing.base, sealing.minted,
                                      sealing.host, Coverage(SnapshotOf(repo)), sealing.snap,
                                      sealing.gated, repo, sealing.taken)
<1>1. PICK new, now0 : new = Coverage(SnapshotOf(repo)) /\ now0 = repo
  OBVIOUS
<1>2. SnapshotOf(repo) = Failed => Stop
  BY DEF FinalizeCover, SnapshotOf
<1>3. ASSUME SnapshotOf(repo) # Failed
      PROVE  sealing' = SealingWith("covered", sealing.scope, sealing.base, sealing.minted,
                                    sealing.host, new, sealing.snap,
                                    sealing.gated, now0, sealing.taken)
  <2>1. sealing' = [sealing EXCEPT !.pc = "covered", !.cover = new, !.shown = now0]
    BY <1>1, <1>3, Zenon DEF FinalizeCover, SnapshotOf
  <2>2. PICK s0, pc0, sc, base, minted, host, cover0, snap, gated, shown0, taken :
          /\ s0 = SealingWith(pc0, sc, base, minted, host, cover0, snap, gated, shown0, taken)
          /\ s0 = sealing /\ sc = sealing.scope /\ base = sealing.base
          /\ minted = sealing.minted /\ host = sealing.host /\ snap = sealing.snap
          /\ gated = sealing.gated /\ taken = sealing.taken
    BY SealingParts DEF SealingInv
  <2>3. sealing' = [[[s0 EXCEPT !.pc = "covered"] EXCEPT !.cover = new] EXCEPT !.shown = now0]
    BY <2>1, <2>2, Zenon
  <2>4. PICK s1, s2 :
          /\ s1 = SealingWith("covered", sc, base, minted, host, cover0, snap, gated, shown0, taken)
          /\ s2 = SealingWith("covered", sc, base, minted, host, new, snap, gated, shown0, taken)
    OBVIOUS
  <2>5. [s0 EXCEPT !.pc = "covered"] = s1
    BY <2>2, <2>4 DEF SealingWith
  <2>6. [s1 EXCEPT !.cover = new] = s2
    BY <2>4 DEF SealingWith
  <2>7. [s2 EXCEPT !.shown = now0]
          = SealingWith("covered", sc, base, minted, host, new, snap, gated, now0, taken)
    BY <2>4 DEF SealingWith
  <2>8. sealing' = SealingWith("covered", sc, base, minted, host, new, snap, gated, now0, taken)
    BY <2>3, <2>5, <2>6, <2>7, Zenon
  <2>9. QED
    BY <2>2, <2>8
<1>4. QED
  BY <1>1, <1>2, <1>3

LEMMA SnapshotStepIs ==
  ASSUME SealingInv, FinalizeSnapshot
  PROVE  \/ SnapshotOf(repo) = Failed /\ Stop
         \/ /\ SnapshotOf(repo) # Failed
            /\ sealing' = SealingWith("snapped", sealing.scope, sealing.base, sealing.minted,
                                      sealing.host, sealing.cover, SnapshotOf(repo),
                                      sealing.gated, sealing.shown, repo)
<1>1. PICK new, now0 : new = SnapshotOf(repo) /\ now0 = repo
  OBVIOUS
<1>2. SnapshotOf(repo) = Failed => Stop
  BY DEF FinalizeSnapshot, SnapshotOf, Taken
<1>3. ASSUME SnapshotOf(repo) # Failed
      PROVE  sealing' = SealingWith("snapped", sealing.scope, sealing.base, sealing.minted,
                                    sealing.host, sealing.cover, new,
                                    sealing.gated, sealing.shown, now0)
  <2>1. sealing' = [sealing EXCEPT !.pc = "snapped", !.snap = new, !.taken = now0]
    BY <1>1, <1>3, Zenon DEF FinalizeSnapshot, SnapshotOf, Taken
  <2>2. PICK s0, pc0, sc, base, minted, host, cover, snap0, gated, shown, taken0 :
          /\ s0 = SealingWith(pc0, sc, base, minted, host, cover, snap0, gated, shown, taken0)
          /\ s0 = sealing /\ sc = sealing.scope /\ base = sealing.base
          /\ minted = sealing.minted /\ host = sealing.host /\ cover = sealing.cover
          /\ gated = sealing.gated /\ shown = sealing.shown
    BY SealingParts DEF SealingInv
  <2>3. sealing' = [[[s0 EXCEPT !.pc = "snapped"] EXCEPT !.snap = new] EXCEPT !.taken = now0]
    BY <2>1, <2>2, Zenon
  <2>4. PICK s1, s2 :
          /\ s1 = SealingWith("snapped", sc, base, minted, host, cover, snap0, gated, shown, taken0)
          /\ s2 = SealingWith("snapped", sc, base, minted, host, cover, new, gated, shown, taken0)
    OBVIOUS
  <2>5. [s0 EXCEPT !.pc = "snapped"] = s1
    BY <2>2, <2>4 DEF SealingWith
  <2>6. [s1 EXCEPT !.snap = new] = s2
    BY <2>4 DEF SealingWith
  <2>7. [s2 EXCEPT !.taken = now0]
          = SealingWith("snapped", sc, base, minted, host, cover, new, gated, shown, now0)
    BY <2>4 DEF SealingWith
  <2>8. sealing' = SealingWith("snapped", sc, base, minted, host, cover, new, gated, shown, now0)
    BY <2>3, <2>5, <2>6, <2>7, Zenon
  <2>9. QED
    BY <2>2, <2>8
<1>4. QED
  BY <1>1, <1>2, <1>3

\* Acceptance passes on with what it has, or stops.
LEMMA AcceptanceIs ==
  ASSUME SealingInv, FinalizeAcceptance
  PROVE  \/ Stop
         \/ sealing' = SealingWith("accepted", sealing.scope, sealing.base, sealing.minted,
                                   sealing.host, sealing.cover, sealing.snap,
                                   sealing.gated, sealing.shown, sealing.taken)
<1>1. CASE sealing' = [sealing EXCEPT !.pc = "accepted"]
  <2>1. PICK s0, pc0, sc, base, minted, host, cover, snap, gated, shown, taken :
          /\ s0 = SealingWith(pc0, sc, base, minted, host, cover, snap, gated, shown, taken)
          /\ s0 = sealing /\ sc = sealing.scope /\ base = sealing.base
          /\ minted = sealing.minted /\ host = sealing.host /\ cover = sealing.cover
          /\ snap = sealing.snap
          /\ gated = sealing.gated /\ shown = sealing.shown /\ taken = sealing.taken
    BY SealingParts DEF SealingInv
  <2>2. [s0 EXCEPT !.pc = "accepted"]
          = SealingWith("accepted", sc, base, minted, host, cover, snap, gated, shown, taken)
    BY <2>1 DEF SealingWith
  <2>3. QED
    BY <1>1, <2>1, <2>2
<1>2. QED
  BY <1>1 DEF FinalizeAcceptance

\* What holds of a number of commits holds when commits are added.
LEMMA CommitsStay ==
  ASSUME NEW r, NEW s, IsRepository(r), IsRepository(s), Later(r, s)
  PROVE  /\ 0 .. Len(r.commits) \subseteq 0 .. Len(s.commits)
         /\ 1 .. Len(r.commits) \subseteq 1 .. Len(s.commits)
<1>1. PICK k \in Nat, m \in Nat : k = Len(r.commits) /\ m = Len(s.commits)
  BY DEF IsRepository
<1>2. k <= m
  BY <1>1 DEF Later
<1>3. 0 .. k \subseteq 0 .. m /\ 1 .. k \subseteq 1 .. m
  BY <1>2
<1>4. QED
  BY <1>1, <1>3

\* A finalization that is over, or has not begun.
LEMMA SealingStops ==
  ASSUME WorldInv, WorldInv', Stop
  PROVE  SealingInv'
<1>1. PICK s, sc, zero : s = Sealing("over") /\ sc = {} /\ zero = 0
  OBVIOUS
<1>2. s = SealingWith("over", sc, zero, zero, Unknown, NoReceipt, NoReceipt, NoReceipt,
                      NoReceipt, NoReceipt)
  BY <1>1 DEF Sealing, SealingWith
<1>3. IsSealing(s) /\ s.pc = "over" /\ s.scope = {} /\ s.base = 0 /\ s.minted = 0
  BY <1>1, <1>2, SealingFields
<1>4. sealing' = s
  BY <1>1 DEF Stop
<1>5. PICK k \in Nat, n \in Nat : k = Len(repo'.commits) /\ n = now'
  BY Bounds DEF WorldInv, IsRepository
<1>6. 0 \in 0 .. k /\ 0 \in 0 .. n
  OBVIOUS
<1>7. s.pc \in Stages("finalize")
  BY <1>3, FinalizeStages
<1>8. QED
  BY <1>3, <1>4, <1>5, <1>6, <1>7 DEF SealingInv

\* Time and commits of others leave what finalize has read.
LEMMA SealingWaits ==
  ASSUME WorldInv, WorldInv', Later(repo, repo'), now <= now', SealingInv,
         review # NoReview => review' = review, UNCHANGED sealing
  PROVE  SealingInv'
<1>1. sealing.base \in 0 .. Len(repo'.commits)
  BY CommitsStay DEF WorldInv, SealingInv
<1>2. sealing.minted \in 0 .. now'
  <2>1. PICK n \in Nat, m \in Nat : n = now /\ m = now'
    BY Bounds DEF WorldInv
  <2>2. 0 .. n \subseteq 0 .. m
    BY <2>1
  <2>3. QED
    BY <2>1, <2>2 DEF SealingInv
<1>3. sealing.pc \in {"snapped", "accepted"} => Later(sealing.taken, repo')
  BY LaterThenLater DEF WorldInv, SealingInv, Read
<1>4. QED
  BY <1>1, <1>2, <1>3 DEF SealingInv, IsSealing, Read, SnapshotOf

LEMMA GateKeeps ==
  ASSUME WorldInv, ReviewInv, SealingInv, FinalizeGate
  PROVE  SealingInv'
<1>1. PICK hint \in Hints \cup {{}}, baseRef \in 0 .. Len(repo.commits),
           host \in Vendors \cup {Unknown} :
        sealing' = SealingWith("gated", GateScope(hint), BaseOf(baseRef), now, host,
                               sealing.cover, sealing.snap, repo, sealing.shown, sealing.taken)
  BY GateIs
<1>2. PICK s : s = sealing'
  OBVIOUS
<1>3. /\ IsSealing(s) /\ s.pc = "gated" /\ s.scope = GateScope(hint) /\ s.base = BaseOf(baseRef)
      /\ s.minted = now /\ s.gated = repo
  BY <1>1, <1>2, SealingFields
<1>4. /\ review # NoReview /\ repo' = repo /\ now' = now /\ review' = review
      /\ review.provider = Human \/ MaterialSeal(repo, review.scope) = review.files
  BY DEF FinalizeGate, workspace
<1>5. GateScope(hint) \in SUBSET Paths
  <2>1. review.scope \in SUBSET Paths
    BY <1>4, ScopesArePaths DEF ReviewInv
  <2>2. hint \in SUBSET Paths
    BY ScopesArePaths
  <2>3. QED
    BY <2>1, <2>2 DEF GateScope
<1>6. BaseOf(baseRef) \in 0 .. Len(repo.commits)
  BY RepositoryParts DEF BaseOf, WorldInv
<1>7. now \in 0 .. now
  <2>1. PICK n \in Nat : n = now
    BY Bounds DEF WorldInv
  <2>2. n \in 0 .. n
    OBVIOUS
  <2>3. QED
    BY <2>1, <2>2
<1>8. s.pc \in Stages("finalize") /\ IsRepository(repo)
  BY <1>3, FinalizeStages DEF WorldInv
<1>9. QED
  BY <1>2, <1>3, <1>4, <1>5, <1>6, <1>7, <1>8 DEF SealingInv

LEMMA CoverKeeps ==
  ASSUME WorldInv, WorldInv', SealingInv, FinalizeCover
  PROVE  SealingInv'
<1>1. CASE Stop
  BY <1>1, SealingStops
<1>2. CASE /\ SnapshotOf(repo) # Failed
           /\ sealing' = SealingWith("covered", sealing.scope, sealing.base, sealing.minted,
                                     sealing.host, Coverage(SnapshotOf(repo)), sealing.snap,
                                     sealing.gated, repo, sealing.taken)
  <2>1. PICK s : s = sealing'
    OBVIOUS
  <2>2. /\ IsSealing(s) /\ s.pc = "covered" /\ s.scope = sealing.scope
        /\ s.base = sealing.base /\ s.minted = sealing.minted
        /\ s.cover = Coverage(SnapshotOf(repo)) /\ s.gated = sealing.gated /\ s.shown = repo
    BY <1>2, <2>1, SealingFields
  <2>3. UNCHANGED <<repo, now, review>> /\ sealing.pc = "gated"
    BY DEF FinalizeCover, workspace
  <2>4. SnapshotOf(repo)' = SnapshotOf(repo)
    BY <2>1, <2>2, <2>3 DEF SnapshotOf
  <2>5. s.pc \in Stages("finalize") /\ IsRepository(repo)
    BY <2>2, FinalizeStages DEF WorldInv
  <2>6. Read(repo)'
    BY <1>2, <2>1, <2>2, <2>3, <2>4, <2>5 DEF Read, SealingInv
  <2>7. Read(sealing.shown)' /\ sealing'.cover = Coverage(SnapshotOf(sealing.shown)')
    BY <2>1, <2>2, <2>3, <2>4, <2>6 DEF Read, SnapshotOf
  <2>8. QED
    BY <2>1, <2>2, <2>3, <2>5, <2>7 DEF SealingInv, Coverage
<1>3. QED
  BY <1>1, <1>2, CoverIs

LEMMA SnapshotStepKeeps ==
  ASSUME WorldInv, WorldInv', SealingInv, FinalizeSnapshot
  PROVE  SealingInv'
<1>1. CASE Stop
  BY <1>1, SealingStops
<1>2. CASE /\ SnapshotOf(repo) # Failed
           /\ sealing' = SealingWith("snapped", sealing.scope, sealing.base, sealing.minted,
                                     sealing.host, sealing.cover, SnapshotOf(repo),
                                     sealing.gated, sealing.shown, repo)
  <2>1. PICK s : s = sealing'
    OBVIOUS
  <2>2. /\ IsSealing(s) /\ s.pc = "snapped" /\ s.scope = sealing.scope
        /\ s.base = sealing.base /\ s.minted = sealing.minted
        /\ s.cover = sealing.cover /\ s.snap = SnapshotOf(repo)
        /\ s.gated = sealing.gated /\ s.shown = sealing.shown /\ s.taken = repo
    BY <1>2, <2>1, SealingFields
  <2>3. UNCHANGED <<repo, now, review>> /\ sealing.pc = "covered"
    BY DEF FinalizeSnapshot, workspace
  <2>4. SnapshotOf(repo)' = SnapshotOf(repo)
    BY <2>1, <2>2, <2>3 DEF SnapshotOf
  <2>5. s.pc \in Stages("finalize") /\ IsRepository(repo) /\ Later(repo, repo)
    BY <2>2, FinalizeStages, LaterSelf DEF WorldInv
  <2>6. Read(sealing.taken)' /\ sealing'.snap = SnapshotOf(sealing.taken)'
    BY <1>2, <2>1, <2>2, <2>3, <2>4, <2>5 DEF Read, SealingInv, SnapshotOf
  <2>7. Read(sealing.shown)' /\ sealing'.cover = Coverage(SnapshotOf(sealing.shown)')
    BY <2>1, <2>2, <2>3 DEF Read, SnapshotOf, SealingInv
  <2>8. QED
    BY <2>1, <2>2, <2>3, <2>5, <2>6, <2>7 DEF SealingInv, Coverage
<1>3. QED
  BY <1>1, <1>2, SnapshotStepIs

LEMMA AcceptanceKeeps ==
  ASSUME WorldInv, WorldInv', Later(repo, repo'), SealingInv, FinalizeAcceptance
  PROVE  SealingInv'
<1>1. CASE Stop
  BY <1>1, SealingStops
<1>2. CASE sealing' = SealingWith("accepted", sealing.scope, sealing.base, sealing.minted,
                                  sealing.host, sealing.cover, sealing.snap,
                                  sealing.gated, sealing.shown, sealing.taken)
  <2>1. PICK s : s = sealing'
    OBVIOUS
  <2>2. /\ IsSealing(s) /\ s.pc = "accepted" /\ s.scope = sealing.scope
        /\ s.base = sealing.base /\ s.minted = sealing.minted
        /\ s.cover = sealing.cover /\ s.snap = sealing.snap
        /\ s.gated = sealing.gated /\ s.shown = sealing.shown /\ s.taken = sealing.taken
    BY <1>2, <2>1, SealingFields
  <2>3. UNCHANGED <<now, review>> /\ sealing.pc = "snapped"
    BY DEF FinalizeAcceptance
  <2>4. sealing.base \in 0 .. Len(repo'.commits)
    BY CommitsStay DEF WorldInv, SealingInv
  <2>5. Later(sealing.taken, repo')
    BY <2>3, LaterThenLater DEF WorldInv, SealingInv, Read
  <2>6. s.pc \in Stages("finalize")
    BY <2>2, FinalizeStages
  <2>7. Read(sealing.taken)' /\ sealing'.snap = SnapshotOf(sealing.taken)'
    BY <2>1, <2>2, <2>3 DEF Read, SealingInv, SnapshotOf
  <2>8. Read(sealing.shown)' /\ sealing'.cover = Coverage(SnapshotOf(sealing.shown)')
    BY <2>1, <2>2, <2>3 DEF Read, SnapshotOf, SealingInv
  <2>9. QED
    BY <2>1, <2>2, <2>3, <2>4, <2>5, <2>6, <2>7, <2>8 DEF SealingInv, Coverage
<1>3. QED
  BY <1>1, <1>2, AcceptanceIs

LEMMA SealingKept ==
  ASSUME WorldInv, ReviewInv, SealingInv, [Next]_vars
  PROVE  SealingInv'
<1>1. WorldInv' /\ Later(repo, repo') /\ now <= now' /\ (review # NoReview => review' = review)
  BY WorldKept, ReviewKept
<1>2. CASE FinalizeSteps
  <2>1. CASE FinalizeMint
    BY <1>1, <2>1, SealingStops DEF FinalizeMint
  <2>2. QED
    BY <1>1, <1>2, <2>1, GateKeeps, CoverKeeps, SnapshotStepKeeps, AcceptanceKeeps
       DEF FinalizeSteps
<1>3. CASE ~FinalizeSteps
  <2>1. UNCHANGED sealing
    BY <1>3, ReviewAlone, VerifyAlone, OthersAlone
  <2>2. QED
    BY <1>1, <2>1, SealingWaits
<1>4. QED
  BY <1>2, <1>3

-----------------------------------------------------------------------------
(* What a receipt says. *)

\* A snapshot that was taken, as the proofs about receipts use it.
LEMMA ReadIs ==
  ASSUME NEW r, Read(r), sealing.scope \in SUBSET Paths, NEW snap, snap = SnapshotOf(r)
  PROVE  /\ sealing.scope # {} /\ IsRepository(r)
         /\ snap.digests = MaterialSeal(r, sealing.scope) /\ IsPartialTree(snap.digests)
         /\ DOMAIN snap.digests \subseteq sealing.scope \ Runtime
         /\ snap.deleted \in SUBSET Paths
         /\ snap.ignored = IgnoredPaths(r, sealing.scope) /\ snap.ignored \in SUBSET Paths
         /\ snap.base \in 0 .. Len(r.commits) /\ snap.head \in 0 .. Len(r.commits)
<1>1. PICK sc \in SUBSET Paths, base \in 0 .. Len(r.commits) :
        sc = sealing.scope /\ base = sealing.base
  BY DEF Read
<1>2. IsRepository(r) /\ snap = Snapshot(r, sc, base) /\ snap # Failed
  BY <1>1 DEF Read, SnapshotOf
<1>3. /\ sc # {}
      /\ snap.base = SnapshotBase(r, base) /\ snap.head = r.head
      /\ snap.digests = FileDigests(TemporaryTree(r), sc)
      /\ snap.deleted \in SUBSET Paths
      /\ snap.ignored = IgnoredPaths(r, sc) /\ snap.ignored \in SUBSET Paths
  BY <1>1, <1>2, SnapshotIs, SMTT(60)
<1>4. snap.digests = MaterialSeal(r, sc)
  BY <1>1, <1>2, SealOfSnapshot
<1>5. IsPartialTree(snap.digests) /\ DOMAIN snap.digests \subseteq sc \ Runtime
  <2>1. PICK tree \in Trees : tree = TemporaryTree(r)
    BY <1>2, TemporaryTreeIs
  <2>2. PICK f : f = FileDigests(tree, sc)
    OBVIOUS
  <2>3. IsPartialTree(f) /\ DOMAIN f = {p \in sc \ Runtime : tree[p] # Gone}
    BY <2>2, DigestsAre
  <2>4. QED
    BY <1>3, <2>1, <2>2, <2>3
<1>6. snap.base \in 0 .. Len(r.commits) /\ snap.head \in 0 .. Len(r.commits)
  BY <1>1, <1>2, <1>3, SnapshotBaseIs, RepositoryParts
<1>7. QED
  BY <1>1, <1>2, <1>3, <1>4, <1>5, <1>6

\* The receipt that is minted.
LEMMA MintIs ==
  ASSUME FinalizeMint, receipt' # receipt
  PROVE  /\ sealing.pc = "accepted" /\ Stop
         /\ Taken # Failed /\ SameMaterial(Taken, sealing.snap)
         /\ ValidBody(sealing.snap, sealing.cover)
         /\ receipt' = Body(sealing.snap, sealing.cover)
         /\ UNCHANGED <<repo, review>>
  BY DEF FinalizeMint, Undisturbed, workspace

LEMMA BodyFields ==
  ASSUME NEW snap, NEW cover, NEW b, b = Body(snap, cover)
  PROVE  /\ b.scope = sealing.scope /\ b.base = snap.base /\ b.head = snap.head
         /\ b.digests = snap.digests /\ b.withheld = snap.ignored \cup cover.withheld
         /\ b.provider = review.provider /\ b.minted = sealing.minted
         /\ b.level = Independence(b.provider, b.host)
  BY DEF Body

\* What is called reviewed is read from the snapshot: pinned files are withheld.
LEMMA CoverageIs ==
  ASSUME NEW snap, NEW cover, cover = Coverage(snap)
  PROVE  /\ DOMAIN cover.shown = DOMAIN snap.digests \ Pinned
         /\ \A p \in DOMAIN cover.shown : cover.shown[p] = snap.digests[p]
         /\ cover.gone = snap.deleted \ Pinned
         /\ cover.withheld = snap.ignored \cup (Pinned \cap (DOMAIN snap.digests \cup snap.deleted))
<1>1. PICK shown : shown = [p \in DOMAIN snap.digests \ Pinned |-> snap.digests[p]]
  OBVIOUS
<1>2. cover.shown = shown
  BY <1>1 DEF Coverage
<1>3. QED
  BY <1>1, <1>2 DEF Coverage, Unpinned

LEMMA MintKeepsReceipt ==
  ASSUME WorldInv, SealingInv, FinalizeMint, receipt' # receipt
  PROVE  ReceiptInv'
<1>1. PICK snap, cover : snap = sealing.snap /\ cover = sealing.cover
  OBVIOUS
<1>2. /\ sealing.pc = "accepted" /\ Stop /\ ValidBody(snap, cover)
      /\ receipt' = Body(snap, cover) /\ UNCHANGED <<repo, review>>
  BY <1>1, MintIs
<1>3. /\ Read(sealing.taken) /\ snap = SnapshotOf(sealing.taken) /\ Later(sealing.taken, repo)
      /\ Read(sealing.shown) /\ cover = Coverage(SnapshotOf(sealing.shown))
      /\ sealing.scope \in SUBSET Paths
  BY <1>1, <1>2 DEF SealingInv
<1>4. PICK seen : seen = SnapshotOf(sealing.shown)
  OBVIOUS
<1>5. PICK b : b = receipt'
  OBVIOUS
<1>6. /\ b.scope = sealing.scope /\ b.base = snap.base /\ b.head = snap.head
      /\ b.digests = snap.digests /\ b.withheld = snap.ignored \cup cover.withheld
      /\ b.provider = review.provider
      /\ b.level = Independence(b.provider, b.host)
  BY <1>2, <1>5, BodyFields
<1>7. /\ sealing.scope # {} /\ IsPartialTree(snap.digests)
      /\ DOMAIN snap.digests \subseteq sealing.scope \ Runtime
      /\ snap.ignored \in SUBSET Paths
      /\ snap.base \in 0 .. Len(repo.commits) /\ snap.head \in 0 .. Len(repo.commits)
  <2>1. IsRepository(sealing.taken)
    BY <1>3 DEF Read
  <2>2. 0 .. Len(sealing.taken.commits) \subseteq 0 .. Len(repo.commits)
    BY <1>3, <2>1, CommitsStay DEF WorldInv
  <2>3. QED
    BY <1>3, <2>2, ReadIs
<1>8. snap.base \in 1 .. Len(repo.commits) /\ snap.head \in 1 .. Len(repo.commits)
  <2>1. PICK n \in Nat : n = Len(repo.commits)
    BY DEF WorldInv, IsRepository
  <2>2. PICK x \in 0 .. n, y \in 0 .. n : x = snap.base /\ y = snap.head
    BY <1>7, <2>1
  <2>3. x # 0 /\ y # 0
    BY <1>2, <2>2 DEF ValidBody
  <2>4. x \in 1 .. n /\ y \in 1 .. n
    BY <2>3
  <2>5. QED
    BY <2>1, <2>2, <2>4
<1>9. /\ DOMAIN cover.shown \cap Pinned = {} /\ cover.gone \cap Pinned = {}
      /\ cover.withheld \in SUBSET Paths
  <2>1. seen.ignored \in SUBSET Paths
    BY <1>3, <1>4, ReadIs
  <2>2. cover = Coverage(seen)
    BY <1>3, <1>4
  <2>3. /\ DOMAIN cover.shown = DOMAIN seen.digests \ Pinned
        /\ cover.gone = seen.deleted \ Pinned
        /\ cover.withheld = seen.ignored \cup (Pinned \cap (DOMAIN seen.digests \cup seen.deleted))
    BY <2>2, CoverageIs
  <2>4. QED
    BY <2>1, <2>3, PathsAssumption
<1>10. Pinned \cap DOMAIN snap.digests \subseteq cover.withheld
  <2>1. Covered(snap, cover)
    BY <1>2 DEF ValidBody
  <2>2. QED
    BY <1>9, <2>1 DEF Covered
<1>11. sealing'.pc = "over"
  BY <1>2 DEF Stop, Sealing
<1>12. review # NoReview
  BY <1>2 DEF SealingInv
<1>13. QED
  BY <1>2, <1>5, <1>6, <1>7, <1>8, <1>9, <1>10, <1>11, <1>12, <1>3 DEF ReceiptInv, Independence

LEMMA ReceiptKept ==
  ASSUME WorldInv, ReviewInv, SealingInv, ReceiptInv, [Next]_vars
  PROVE  ReceiptInv' /\ (receipt # NoReceipt => receipt' = receipt)
<1>1. WorldInv' /\ Later(repo, repo') /\ (review # NoReview => review' = review)
  BY WorldKept, ReviewKept
<1>2. 1 .. Len(repo.commits) \subseteq 1 .. Len(repo'.commits)
  BY <1>1, CommitsStay DEF WorldInv
<1>3. CASE receipt' # receipt
  <2>1. FinalizeMint
    <3>1. FinalizeSteps
      BY <1>3, ReviewAlone, VerifyAlone, OthersAlone
    <3>2. QED
      BY <1>3, <3>1 DEF FinalizeSteps, FinalizeGate, FinalizeCover, FinalizeSnapshot,
                        FinalizeAcceptance
  <2>2. ReceiptInv'
    BY <1>3, <2>1, MintKeepsReceipt
  <2>3. receipt = NoReceipt
    BY <1>3, <2>1, MintIs DEF ReceiptInv
  <2>4. QED
    BY <2>2, <2>3
<1>4. CASE receipt' = receipt
  <2>1. receipt # NoReceipt => sealing'.pc = "over"
    <3>1. CASE FinalizeSteps
      <4>1. sealing.pc # "over" \/ FinalizeMint
        BY <3>1 DEF FinalizeSteps, FinalizeGate, FinalizeCover, FinalizeSnapshot,
                    FinalizeAcceptance
      <4>2. FinalizeMint => sealing.pc # "over"
        BY DEF FinalizeMint
      <4>3. QED
        BY <4>1, <4>2 DEF ReceiptInv
    <3>2. CASE ~FinalizeSteps
      BY <3>2, ReviewAlone, VerifyAlone, OthersAlone DEF ReceiptInv
    <3>3. QED
      BY <3>1, <3>2
  <2>2. QED
    BY <1>1, <1>2, <1>4, <2>1 DEF ReceiptInv, Independence
<1>5. QED
  BY <1>3, <1>4

-----------------------------------------------------------------------------
(* The verify command. *)

LEMMA VerifyStages ==
  Stages("verify") = {"idle", "opened", "trusted", "matched", "over"}
  BY DEF Stages

CheckingWith(pc, ref, target, root, minimum, opened, passed) ==
    [pc |-> pc, ref |-> ref, target |-> target, root |-> root, minimum |-> minimum,
     opened |-> opened, passed |-> passed]

LEMMA CheckingFields ==
  ASSUME NEW pc, NEW ref, NEW target, NEW root, NEW minimum, NEW opened, NEW passed,
         NEW c, c = CheckingWith(pc, ref, target, root, minimum, opened, passed)
  PROVE  /\ IsChecking(c)
         /\ c.pc = pc /\ c.ref = ref /\ c.target = target /\ c.root = root
         /\ c.minimum = minimum /\ c.opened = opened /\ c.passed = passed
  BY DEF CheckingWith, IsChecking

LEMMA CheckingParts ==
  ASSUME NEW c, IsChecking(c)
  PROVE  c = CheckingWith(c.pc, c.ref, c.target, c.root, c.minimum, c.opened, c.passed)
  BY DEF CheckingWith, IsChecking

\* What the steps that go on write.
LEMMA VerifyStartIs ==
  ASSUME CheckingInv, VerifyStart
  PROVE  \E ref \in 0 .. Len(repo.commits), target \in 0 .. Len(repo.commits),
            root \in {"here", "clone", "none"},
            minimum \in {"isolation_only", "cross_vendor"} :
           /\ ref = 0 => root = "here"
           /\ checking' = CheckingWith("opened", ref, target, root, minimum, checking.opened,
                                       checking.passed)
<1>1. PICK ref \in 0 .. Len(repo.commits), target \in 0 .. Len(repo.commits),
           root \in {"here", "clone", "none"},
           minimum \in {"isolation_only", "cross_vendor"} :
         /\ ref = 0 => root = "here"
         /\ checking' = [checking EXCEPT !.pc = "opened", !.ref = ref, !.target = target,
                             !.root = root, !.minimum = minimum]
  BY DEF VerifyStart
<1>2. PICK c0, pc0, ref0, target0, root0, minimum0, opened, passed :
        /\ c0 = CheckingWith(pc0, ref0, target0, root0, minimum0, opened, passed)
        /\ c0 = checking /\ opened = checking.opened /\ passed = checking.passed
  BY CheckingParts DEF CheckingInv
<1>3. checking' = [[[[[c0 EXCEPT !.pc = "opened"] EXCEPT !.ref = ref] EXCEPT !.target = target]
                    EXCEPT !.root = root] EXCEPT !.minimum = minimum]
  BY <1>1, <1>2, Zenon
<1>4. PICK c1, c2, c3, c4 :
        /\ c1 = CheckingWith("opened", ref0, target0, root0, minimum0, opened, passed)
        /\ c2 = CheckingWith("opened", ref, target0, root0, minimum0, opened, passed)
        /\ c3 = CheckingWith("opened", ref, target, root0, minimum0, opened, passed)
        /\ c4 = CheckingWith("opened", ref, target, root, minimum0, opened, passed)
  OBVIOUS
<1>5. [c0 EXCEPT !.pc = "opened"] = c1
  BY <1>2, <1>4 DEF CheckingWith
<1>6. [c1 EXCEPT !.ref = ref] = c2
  BY <1>4 DEF CheckingWith
<1>7. [c2 EXCEPT !.target = target] = c3
  BY <1>4 DEF CheckingWith
<1>8. [c3 EXCEPT !.root = root] = c4
  BY <1>4 DEF CheckingWith
<1>9. [c4 EXCEPT !.minimum = minimum]
        = CheckingWith("opened", ref, target, root, minimum, opened, passed)
  BY <1>4 DEF CheckingWith
<1>10. checking' = CheckingWith("opened", ref, target, root, minimum, opened, passed)
  BY <1>3, <1>5, <1>6, <1>7, <1>8, <1>9, Zenon
<1>11. QED
  BY <1>1, <1>2, <1>10

\* The stage and the repository read are what a step that goes on changes.
LEMMA CheckingGoesOn ==
  ASSUME CheckingInv, NEW pc, NEW opened, NEW next,
         next = [[checking EXCEPT !.pc = pc] EXCEPT !.opened = opened]
  PROVE  next = CheckingWith(pc, checking.ref, checking.target, checking.root,
                             checking.minimum, opened, checking.passed)
<1>1. PICK c0, pc0, ref, target, root, minimum, opened0, passed :
        /\ c0 = CheckingWith(pc0, ref, target, root, minimum, opened0, passed)
        /\ c0 = checking /\ ref = checking.ref /\ target = checking.target
        /\ root = checking.root /\ minimum = checking.minimum /\ passed = checking.passed
  BY CheckingParts DEF CheckingInv
<1>2. PICK c1 : c1 = CheckingWith(pc, ref, target, root, minimum, opened0, passed)
  OBVIOUS
<1>3. [c0 EXCEPT !.pc = pc] = c1
  BY <1>1, <1>2 DEF CheckingWith
<1>4. [c1 EXCEPT !.opened = opened] = CheckingWith(pc, ref, target, root, minimum, opened, passed)
  BY <1>2 DEF CheckingWith
<1>5. next = CheckingWith(pc, ref, target, root, minimum, opened, passed)
  BY <1>1, <1>3, <1>4, Zenon
<1>6. QED
  BY <1>1, <1>5

LEMMA TrustIs ==
  ASSUME CheckingInv, VerifyTrust
  PROVE  \/ Verdict(FALSE) /\ ~(/\ RootIsMaterial(checking.root, checking.ref) /\ KeyInForce
                                /\ Independent(checking.minimum))
         \/ /\ RootIsMaterial(checking.root, checking.ref) /\ Independent(checking.minimum)
            /\ checking' = CheckingWith("trusted", checking.ref, checking.target, checking.root,
                                        checking.minimum, repo, checking.passed)
<1> DEFINE Trusted == /\ RootIsMaterial(checking.root, checking.ref) /\ KeyInForce
                      /\ Independent(checking.minimum)
<1>1. CASE ~Trusted
  BY <1>1 DEF VerifyTrust
<1>2. CASE Trusted
  <2>1. checking' = [checking EXCEPT !.pc = "trusted", !.opened = repo]
    BY <1>2 DEF VerifyTrust
  <2>2. PICK next, now0 : next = checking' /\ now0 = repo
    OBVIOUS
  <2>3. next = [[checking EXCEPT !.pc = "trusted"] EXCEPT !.opened = now0]
    BY <2>1, <2>2, Zenon
  <2>4. next = CheckingWith("trusted", checking.ref, checking.target, checking.root,
                            checking.minimum, now0, checking.passed)
    BY <2>3, CheckingGoesOn
  <2>5. QED
    BY <1>2, <2>2, <2>4
<1>3. QED
  BY <1>1, <1>2

\* The material is what was signed, and lies where the receipt says.
Matches(ref, target) ==
    Target(ref) # Failed /\ MaterialMatches(Target(ref)) /\ Descends(ref, target)

LEMMA MaterialIs ==
  ASSUME CheckingInv, VerifyMaterial
  PROVE  \/ Verdict(FALSE) /\ ~Matches(checking.ref, checking.target)
         \/ Verdict(TRUE) /\ Matches(checking.ref, checking.target) /\ checking.root = "none"
         \/ /\ Matches(checking.ref, checking.target) /\ checking.root # "none"
            /\ checking' = CheckingWith("matched", checking.ref, checking.target, checking.root,
                                        checking.minimum,
                                        IF checking.ref = 0 THEN repo ELSE checking.opened,
                                        checking.passed)
<1>1. CASE ~Matches(checking.ref, checking.target)
  BY <1>1 DEF VerifyMaterial, Matches
<1>2. CASE Matches(checking.ref, checking.target) /\ checking.root = "none"
  BY <1>2 DEF VerifyMaterial, Matches
<1>3. CASE Matches(checking.ref, checking.target) /\ checking.root # "none"
  <2>1. checking' = [checking EXCEPT !.pc = "matched",
                                     !.opened = IF checking.ref = 0 THEN repo ELSE @]
    BY <1>3 DEF VerifyMaterial, Matches
  <2>2. PICK next, opened : /\ next = checking'
                           /\ opened = IF checking.ref = 0 THEN repo ELSE checking.opened
    OBVIOUS
  <2>3. next = [[checking EXCEPT !.pc = "matched"] EXCEPT !.opened = opened]
    <3>1. PICK c0, pc0, ref, target, root, minimum, opened0, passed :
            /\ c0 = CheckingWith(pc0, ref, target, root, minimum, opened0, passed)
            /\ c0 = checking
      BY CheckingParts DEF CheckingInv
    <3>2. c0.opened = opened0 /\ c0.ref = ref
      BY <3>1 DEF CheckingWith
    <3>3. PICK c1 : c1 = CheckingWith("matched", ref, target, root, minimum, opened0, passed)
      OBVIOUS
    <3>4. [c0 EXCEPT !.pc = "matched"] = c1
      BY <3>1, <3>3 DEF CheckingWith
    <3>5. c1.opened = opened0
      BY <3>3, CheckingFields
    <3>6. checking' = [c1 EXCEPT !.opened = IF ref = 0 THEN repo ELSE c1.opened]
      BY <2>1, <3>1, <3>2, <3>4, Zenon
    <3>7. (IF ref = 0 THEN repo ELSE c1.opened) = opened
      BY <2>2, <3>1, <3>2, <3>5
    <3>8. QED
      BY <2>2, <3>1, <3>4, <3>6, <3>7
  <2>4. next = CheckingWith("matched", checking.ref, checking.target, checking.root,
                            checking.minimum, opened, checking.passed)
    BY <2>3, CheckingGoesOn
  <2>5. QED
    BY <1>3, <2>2, <2>4
<1>4. QED
  BY <1>1, <1>2, <1>3

\* What the snapshot of a commit says of its tree.
LEMMA CommitHolds ==
  ASSUME NEW r, IsRepository(r), NEW sc \in SUBSET Paths, NEW base \in 1 .. Len(r.commits),
         NEW c \in 1 .. Len(r.commits), NEW snap, snap = SnapshotRef(r, sc, base, c),
         snap # Failed, snap.base = base
  PROVE  /\ IsAncestor(r, base, c)
         /\ DigestsOf(snap.digests, TreeOf(r, c), sc)
<1>1. PICK n \in Nat : n = Len(r.commits)
  BY DEF IsRepository
<1>2. base \in 0 .. n /\ c \in 0 .. n /\ base # 0
  BY <1>1
<1>3. base = MergeBase(r, base, c) /\ snap.digests = FileDigests(RefTree(r, c), sc)
  <2>1. snap = Facts(r, MergeBase(r, base, c), c, RefTree(r, c), sc, {})
    BY <1>2 DEF SnapshotRef
  <2>2. PICK met, digests : met = MergeBase(r, base, c) /\ digests = FileDigests(RefTree(r, c), sc)
    OBVIOUS
  <2>3. snap.base = met /\ snap.digests = digests
    BY <2>1, <2>2 DEF Facts
  <2>4. QED
    BY <2>2, <2>3
<1>4. IsAncestor(r, base, c)
  BY <1>1, <1>2, <1>3, MergeBases
<1>5. PICK tree \in Trees : tree = RefTree(r, c)
  BY <1>1, <1>2, RefTreeIs
<1>6. \A p \in Paths : tree[p] = IF p \in Runtime THEN Gone ELSE TreeOf(r, c)[p]
  BY <1>1, <1>2, <1>5, RefTreeIs
<1>7. PICK f : f = FileDigests(tree, sc)
  OBVIOUS
<1>8. /\ DOMAIN f = {p \in sc \ Runtime : tree[p] # Gone}
      /\ \A p \in DOMAIN f : f[p] = tree[p]
  BY <1>7 DEF FileDigests
<1>9. f = snap.digests
  BY <1>3, <1>5, <1>7
<1>10. DigestsOf(f, TreeOf(r, c), sc)
  BY <1>6, <1>8 DEF DigestsOf
<1>11. QED
  BY <1>4, <1>9, <1>10

\* A commit whose snapshot is what was signed carries the receipt.
LEMMA MatchedCommit ==
  ASSUME WorldInv, ReceiptInv, receipt # NoReceipt, NEW ref \in 0 .. Len(repo.commits), ref # 0,
         NEW target \in 0 .. Len(repo.commits), Matches(ref, target)
  PROVE  CommitInv(ref, target)
<1>1. PICK snap, tree : snap = Target(ref) /\ tree = TreeOf(repo, ref)
  OBVIOUS
<1>2. /\ snap = SnapshotRef(repo, receipt.scope, receipt.base, ref)
      /\ snap # Failed /\ snap.base = receipt.base /\ snap.digests = receipt.digests
      /\ Descends(ref, target)
  BY <1>1 DEF Matches, Target, MaterialMatches
<1>3. ref \in 1 .. Len(repo.commits)
  BY ParentBefore DEF WorldInv
<1>4. /\ receipt.scope \in SUBSET Paths /\ receipt.base \in 1 .. Len(repo.commits)
      /\ IsRepository(repo)
  BY DEF ReceiptInv, WorldInv
<1>5. IsAncestor(repo, receipt.base, ref) /\ DigestsOf(snap.digests, tree, receipt.scope)
  BY <1>1, <1>2, <1>3, <1>4, CommitHolds
<1>6. CarriesReceipt(tree)
  BY <1>2, <1>5 DEF CarriesReceipt, DigestsOf
<1>7. target # 0 => IsAncestor(repo, target, ref)
  <2>1. target = ref => IsAncestor(repo, target, ref)
    BY SelfAncestor DEF WorldInv
  <2>2. target # ref /\ target # 0 => IsAncestor(repo, target, ref)
    BY <1>2 DEF Descends
  <2>3. QED
    BY <2>1, <2>2
<1>8. QED
  BY <1>1, <1>5, <1>6, <1>7 DEF CommitInv

\* A checkout whose snapshot is what was signed carries the receipt, but for
\* ignored files that were forced into the index or out of it.
LEMMA MatchedCheckout ==
  ASSUME WorldInv, ReceiptInv, receipt # NoReceipt, NEW target, Matches(0, target)
  PROVE  CheckoutInv(repo)
<1>1. PICK n \in Nat : n = Len(repo.commits)
  BY DEF WorldInv, IsRepository
<1>2. PICK head \in 0 .. n : head = repo.head
  BY <1>1, RepositoryParts DEF WorldInv
<1>3. PICK base \in 1 .. n, sc \in SUBSET Paths : base = receipt.base /\ sc = receipt.scope
  BY <1>1 DEF ReceiptInv
<1>4. base \in 0 .. n /\ base # 0
  OBVIOUS
<1>5. PICK snap : snap = Snapshot(repo, sc, base)
  OBVIOUS
<1>6. /\ snap # Failed /\ snap.base = base /\ snap.digests = receipt.digests
      /\ Withheld(snap) = receipt.withheld
  BY <1>3, <1>5 DEF Matches, Target, MaterialMatches
<1>7. /\ snap.base = SnapshotBase(repo, base)
      /\ snap.digests = FileDigests(TemporaryTree(repo), sc)
      /\ snap.ignored = IgnoredPaths(repo, sc)
  BY <1>1, <1>4, <1>5, <1>6, SnapshotIs, ZenonT(60) DEF WorldInv
<1>8. IsAncestor(repo, base, head)
  <2>1. base = IF head = 0 THEN head ELSE MergeBase(repo, base, head)
    BY <1>2, <1>4, <1>6, <1>7 DEF SnapshotBase
  <2>2. head # 0 /\ base = MergeBase(repo, base, head)
    BY <1>4, <2>1
  <2>3. QED
    BY <1>1, <1>4, <2>2, MergeBases DEF WorldInv
<1>9. PICK tree \in Trees : tree = TemporaryTree(repo)
  BY TemporaryTreeIs DEF WorldInv
<1>10. PICK was \in Trees, work \in Trees :
         /\ was = TreeOf(repo, repo.head) /\ work = repo.work
         /\ \A p \in Paths : tree[p] = IF p \in Runtime \/ (was[p] = Gone /\ p \in Ignored)
                                       THEN Gone ELSE work[p]
  BY <1>1, <1>2, <1>9, TemporaryTreeIs, TreeOfIsTree, RepositoryParts DEF WorldInv
<1>11. PICK f : f = FileDigests(tree, sc)
  OBVIOUS
<1>12. /\ DOMAIN f = {p \in sc \ Runtime : tree[p] # Gone}
       /\ \A p \in DOMAIN f : f[p] = tree[p]
  BY <1>11, DigestsAre
<1>13. f = receipt.digests
  BY <1>6, <1>7, <1>9, <1>11
<1>14. ASSUME Forced(repo, sc) = {}
       PROVE  CarriesReceipt(work)
  <2>1. \A p \in DOMAIN f : work[p] = f[p]
    BY <1>10, <1>12
  <2>2. ASSUME NEW p \in sc \ Runtime, work[p] # Gone, tree[p] = Gone
        PROVE  p \in receipt.withheld
    <3>1. was[p] = Gone /\ p \in Ignored
      BY <1>10, <2>2
    <3>2. repo.index[p] = Gone
      BY <1>10, <1>14, <3>1 DEF Forced
    <3>3. p \in IgnoredPaths(repo, sc)
      BY <1>10, <2>2, <3>1, <3>2 DEF IgnoredPaths
    <3>4. QED
      BY <1>6, <1>7, <3>3 DEF Withheld
  <2>3. QED
    BY <1>3, <1>12, <1>13, <2>1, <2>2 DEF CarriesReceipt
<1>15. QED
  BY <1>1, <1>2, <1>3, <1>8, <1>10, <1>14 DEF CheckoutInv

\* Claims about commits stay, whatever is committed later.
LEMMA CommitClaimsStay ==
  ASSUME WorldInv, WorldInv', Later(repo, repo'), receipt' = receipt, receipt # NoReceipt,
         ReceiptInv,
         NEW ref \in 0 .. Len(repo.commits), NEW target, CommitInv(ref, target)
  PROVE  CommitInv(ref, target)'
<1>1. TreeOf(repo', ref) = TreeOf(repo, ref)
  BY TreesKept DEF WorldInv
<1>2. Ancestors(repo')[ref] = Ancestors(repo)[ref]
  BY AncestorsKept DEF WorldInv
<1>3. CarriesReceipt(TreeOf(repo, ref))'
  BY <1>1 DEF CommitInv, CarriesReceipt
<1>4. QED
  BY <1>2, <1>3 DEF CommitInv, IsAncestor

LEMMA VerdictKeeps ==
  ASSUME WorldInv', receipt' # NoReceipt, NEW passed \in BOOLEAN, Verdict(passed)
  PROVE  CheckingInv'
<1>1. PICK c, zero : c = checking' /\ zero = 0
  OBVIOUS
<1>2. c = CheckingWith("over", zero, zero, "here", "isolation_only", NoReceipt, passed)
  BY <1>1 DEF Verdict, Checking, CheckingWith
<1>3. /\ IsChecking(c) /\ c.pc = "over" /\ c.ref = 0 /\ c.target = 0 /\ c.root = "here"
      /\ c.passed = passed
  BY <1>1, <1>2, CheckingFields
<1>4. 0 \in 0 .. Len(repo'.commits)
  <2>1. PICK n \in Nat : n = Len(repo'.commits)
    BY DEF WorldInv, IsRepository
  <2>2. 0 \in 0 .. n
    OBVIOUS
  <2>3. QED
    BY <2>1, <2>2
<1>5. c.pc \in Stages("verify") /\ c.passed \in BOOLEAN
  BY <1>3, VerifyStages
<1>6. QED
  BY <1>1, <1>3, <1>4, <1>5 DEF CheckingInv

\* A verification that waits: what it has checked stays true.
LEMMA CheckingWaits ==
  ASSUME WorldInv, WorldInv', Later(repo, repo'), ReceiptInv, CheckingInv,
         receipt # NoReceipt => receipt' = receipt, UNCHANGED checking
  PROVE  CheckingInv'
<1>1. 0 .. Len(repo.commits) \subseteq 0 .. Len(repo'.commits)
  BY CommitsStay DEF WorldInv
<1>2. ASSUME checking.pc = "matched", checking.ref # 0
      PROVE  CommitInv(checking.ref, checking.target)'
  <2>1. /\ receipt # NoReceipt /\ checking.ref \in 0 .. Len(repo.commits)
        /\ CommitInv(checking.ref, checking.target)
    BY <1>2 DEF CheckingInv
  <2>2. receipt' = receipt
    BY <2>1
  <2>3. PICK ref, target : ref = checking.ref /\ target = checking.target
    OBVIOUS
  <2>4. CommitInv(ref, target)'
    BY <2>1, <2>2, <2>3, CommitClaimsStay
  <2>5. QED
    BY <2>3, <2>4 DEF CommitInv
<1>3. checking.pc # "idle" => receipt' = receipt
  BY DEF CheckingInv
<1>4. checking.pc \in {"trusted", "matched"} => Independent(checking.minimum)'
  BY <1>3 DEF CheckingInv, Independent, Independence
<1>5. checking.pc = "matched" /\ checking.ref = 0 => CheckoutInv(checking.opened)'
  BY <1>3 DEF CheckingInv, CheckoutInv, CarriesReceipt
<1>6. QED
  BY <1>1, <1>2, <1>3, <1>4, <1>5 DEF CheckingInv, IsChecking

LEMMA StartKeeps ==
  ASSUME WorldInv, CheckingInv, VerifyStart
  PROVE  CheckingInv'
<1>1. PICK ref \in 0 .. Len(repo.commits), target \in 0 .. Len(repo.commits),
           root \in {"here", "clone", "none"},
           minimum \in {"isolation_only", "cross_vendor"} :
         /\ ref = 0 => root = "here"
         /\ checking' = CheckingWith("opened", ref, target, root, minimum, checking.opened,
                                     checking.passed)
  BY VerifyStartIs
<1>2. PICK c : c = checking'
  OBVIOUS
<1>3. /\ IsChecking(c) /\ c.pc = "opened" /\ c.ref = ref /\ c.target = target
      /\ c.root = root /\ c.passed = checking.passed
  BY <1>1, <1>2, CheckingFields
<1>4. checking.pc = "idle" /\ receipt # NoReceipt /\ UNCHANGED <<repo, receipt>>
  BY DEF VerifyStart, workspace
<1>5. c.pc \in Stages("verify") /\ c.passed \in BOOLEAN /\ ~c.passed
  BY <1>3, <1>4, VerifyStages DEF CheckingInv
<1>6. QED
  BY <1>1, <1>2, <1>3, <1>4, <1>5 DEF CheckingInv

LEMMA TrustKeeps ==
  ASSUME WorldInv, WorldInv', CheckingInv, VerifyTrust
  PROVE  CheckingInv'
<1>1. checking.pc = "opened" /\ receipt # NoReceipt /\ UNCHANGED <<repo, receipt>>
  BY DEF VerifyTrust, workspace, CheckingInv
<1>2. CASE Verdict(FALSE)
  BY <1>1, <1>2, VerdictKeeps
<1>3. CASE /\ RootIsMaterial(checking.root, checking.ref) /\ Independent(checking.minimum)
           /\ checking' = CheckingWith("trusted", checking.ref, checking.target, checking.root,
                                       checking.minimum, repo, checking.passed)
  <2>1. PICK c : c = checking'
    OBVIOUS
  <2>2. /\ IsChecking(c) /\ c.pc = "trusted" /\ c.ref = checking.ref
        /\ c.target = checking.target /\ c.root = checking.root
        /\ c.minimum = checking.minimum /\ c.opened = repo /\ c.passed = checking.passed
    BY <1>3, <2>1, CheckingFields
  <2>3. c.pc \in Stages("verify") /\ c.passed \in BOOLEAN /\ ~c.passed
    BY <1>1, <2>2, VerifyStages DEF CheckingInv
  <2>4. c.root = "here" /\ c.ref # 0 => repo.head = c.ref /\ ExactlyHead(repo)
    BY <1>3, <2>2 DEF RootIsMaterial
  <2>5. Independent(c.minimum)'
    BY <1>1, <1>3, <2>1, <2>2 DEF Independent, Independence
  <2>6. IsRepository(repo)
    BY DEF WorldInv
  <2>7. QED
    BY <1>1, <2>1, <2>2, <2>3, <2>4, <2>5, <2>6 DEF CheckingInv, Independent, Independence
<1>4. QED
  BY <1>2, <1>3, TrustIs

LEMMA MaterialKeeps ==
  ASSUME WorldInv, WorldInv', ReceiptInv, CheckingInv, VerifyMaterial
  PROVE  CheckingInv'
<1>1. checking.pc = "trusted" /\ receipt # NoReceipt /\ UNCHANGED <<repo, receipt>>
  BY DEF VerifyMaterial, workspace, CheckingInv
<1>2. CASE Verdict(FALSE)
  BY <1>1, <1>2, VerdictKeeps
<1>3. CASE Verdict(TRUE)
  BY <1>1, <1>3, VerdictKeeps
<1>4. CASE /\ Matches(checking.ref, checking.target) /\ checking.root # "none"
           /\ checking' = CheckingWith("matched", checking.ref, checking.target, checking.root,
                                       checking.minimum,
                                       IF checking.ref = 0 THEN repo ELSE checking.opened,
                                       checking.passed)
  <2>1. PICK c, opened : c = checking' /\ opened = IF checking.ref = 0 THEN repo ELSE checking.opened
    OBVIOUS
  <2>2. /\ IsChecking(c) /\ c.pc = "matched" /\ c.ref = checking.ref
        /\ c.target = checking.target /\ c.root = checking.root
        /\ c.minimum = checking.minimum /\ c.opened = opened /\ c.passed = checking.passed
    BY <1>4, <2>1, CheckingFields
  <2>3. c.pc \in Stages("verify") /\ c.passed \in BOOLEAN /\ ~c.passed
    BY <1>1, <2>2, VerifyStages DEF CheckingInv
  <2>4. c.ref \in 0 .. Len(repo.commits) /\ c.target \in 0 .. Len(repo.commits)
    BY <2>2 DEF CheckingInv
  <2>5. c.ref # 0 => CommitInv(c.ref, c.target)
    BY <1>1, <1>4, <2>2, <2>4, MatchedCommit
  <2>6. c.ref = 0 => CheckoutInv(repo) /\ c.opened = repo
    BY <1>1, <1>4, <2>1, <2>2, MatchedCheckout
  <2>7. c.ref # 0 => c.opened = checking.opened
    BY <2>1, <2>2
  <2>8. (c.ref # 0 => CommitInv(c.ref, c.target)') /\ (c.ref = 0 => CheckoutInv(c.opened)')
    BY <1>1, <2>1, <2>5, <2>6 DEF CommitInv, CheckoutInv, CarriesReceipt
  <2>9. Independent(c.minimum)'
    BY <1>1, <2>1, <2>2 DEF CheckingInv, Independent, Independence
  <2>10. QED
    BY <1>1, <1>4, <2>1, <2>2, <2>3, <2>4, <2>7, <2>8, <2>9
       DEF CheckingInv, Independent, Independence
<1>5. QED
  BY <1>2, <1>3, <1>4, MaterialIs

LEMMA CheckingKept ==
  ASSUME WorldInv, ReviewInv, SealingInv, ReceiptInv, CheckingInv, [Next]_vars
  PROVE  CheckingInv'
<1>1. WorldInv' /\ Later(repo, repo') /\ (receipt # NoReceipt => receipt' = receipt)
  BY WorldKept, ReceiptKept
<1>2. CASE VerifyAcceptance
  <2>1. receipt' = receipt /\ receipt # NoReceipt
    BY <1>2 DEF VerifyAcceptance, CheckingInv
  <2>2. PICK tree : tree = IF checking.root = "clone" THEN TreeOf(repo, checking.ref)
                          ELSE repo.work
    OBVIOUS
  <2>3. PICK passed : passed = (tree[Criterion] \in Good)
    OBVIOUS
  <2>4. passed \in BOOLEAN
    BY <2>3, SMT
  <2>5. Verdict(passed)
    BY <1>2, <2>2, <2>3, Zenon DEF VerifyAcceptance, Passes
  <2>6. QED
    BY <1>1, <2>1, <2>4, <2>5, VerdictKeeps
<1>3. CASE VerifySteps
  BY <1>1, <1>2, <1>3, StartKeeps, TrustKeeps, MaterialKeeps DEF VerifySteps
<1>4. CASE ~VerifySteps
  <2>1. UNCHANGED checking
    BY <1>4, ReviewAlone, FinalizeAlone, OthersAlone
  <2>2. QED
    BY <1>1, <2>1, CheckingWaits
<1>5. QED
  BY <1>3, <1>4

-----------------------------------------------------------------------------
(* The invariant holds. *)

LEMMA InitIInv ==
  ASSUME Init PROVE ReceiptsIInv
<1>1. PICK top \in Nat, last \in Nat : top = MaxActs /\ last = MaxTime
  BY Bounds
<1>2. WorldInv
  <2>1. IsRepository(repo) /\ scope \in Scopes
    BY ReceiptsAssumption DEF Init
  <2>2. 0 \in 0 .. top /\ 0 \in 0 .. last /\ last + 1 \in 0 .. (last + 1)
    BY <1>1
  <2>3. acts \in 0 .. MaxActs /\ now \in 0 .. MaxTime
    BY <1>1, <2>2 DEF Init
  <2>4. keys \in [revoked : BOOLEAN, until : 0 .. (MaxTime + 1)]
    <3>1. PICK end \in 0 .. (last + 1) : end = last + 1
      BY <2>2
    <3>2. keys = [revoked |-> FALSE, until |-> end]
      BY <1>1, <3>1 DEF Init
    <3>3. QED
      BY <1>1, <3>2
  <2>5. QED
    BY <2>1, <2>3, <2>4 DEF WorldInv
<1>3. 0 \in 0 .. Len(repo.commits) /\ 0 \in 0 .. now
  <2>1. PICK n \in Nat, m \in Nat : n = Len(repo.commits) /\ m = now
    BY <1>2, Bounds DEF WorldInv, IsRepository
  <2>2. 0 \in 0 .. n /\ 0 \in 0 .. m
    OBVIOUS
  <2>3. QED
    BY <2>1, <2>2
<1>4. ReviewInv
  <2>1. PICK r : r = Reading("idle")
    OBVIOUS
  <2>2. r.pc = "idle" /\ r.finding = FALSE /\ IsReading(r)
    BY <2>1 DEF Reading, IsReading
  <2>3. QED
    BY <2>1, <2>2, ReviewStages DEF Init, ReviewInv
<1>5. SealingInv
  <2>1. PICK s, sc, zero : s = Sealing("idle") /\ sc = {} /\ zero = 0
    OBVIOUS
  <2>2. s = SealingWith("idle", sc, zero, zero, Unknown, NoReceipt, NoReceipt, NoReceipt,
                        NoReceipt, NoReceipt)
    BY <2>1 DEF Sealing, SealingWith
  <2>3. IsSealing(s) /\ s.pc = "idle" /\ s.scope = {} /\ s.base = 0 /\ s.minted = 0
    BY <2>1, <2>2, SealingFields
  <2>4. QED
    BY <1>3, <2>1, <2>3, FinalizeStages DEF Init, SealingInv
<1>6. ReceiptInv
  BY DEF Init, ReceiptInv
<1>7. CheckingInv
  <2>1. PICK c, zero, no, yes : c = Checking("idle", FALSE) /\ zero = 0 /\ no = FALSE /\ yes = TRUE
    OBVIOUS
  <2>2. c = CheckingWith("idle", zero, zero, "here", "isolation_only", NoReceipt, no)
    BY <2>1 DEF Checking, CheckingWith
  <2>3. /\ IsChecking(c) /\ c.pc = "idle" /\ c.ref = zero /\ c.target = zero /\ c.root = "here"
        /\ c.passed = no
    BY <2>2, CheckingFields
  <2>4. c.pc \in Stages("verify") /\ c.passed \in BOOLEAN /\ ~c.passed
    BY <2>1, <2>3, VerifyStages
  <2>5. QED
    BY <1>3, <2>1, <2>3, <2>4 DEF Init, CheckingInv
<1>8. QED
  BY <1>2, <1>4, <1>5, <1>6, <1>7 DEF ReceiptsIInv

LEMMA NextIInv ==
  ASSUME ReceiptsIInv, [Next]_vars PROVE ReceiptsIInv'
  BY WorldKept, ReviewKept, SealingKept, ReceiptKept, CheckingKept DEF ReceiptsIInv

THEOREM ReceiptsInductive == Spec => []ReceiptsIInv
<1>1. Init => ReceiptsIInv
  BY InitIInv
<1>2. ReceiptsIInv /\ [Next]_vars => ReceiptsIInv'
  BY NextIInv
<1>3. QED
  BY <1>1, <1>2, PTL DEF Spec

-----------------------------------------------------------------------------
(* What is signed. *)

LEMMA SignedStep ==
  ASSUME ReceiptsIInv, [Next]_vars, receipt' # receipt
  PROVE  /\ MaterialSeal(sealing.taken, sealing.scope) = receipt'.digests
         /\ MaterialSeal(repo, sealing.scope) = receipt'.digests
         /\ IgnoredPaths(repo, sealing.scope) \subseteq receipt'.withheld
<1>1. FinalizeMint
  <2>1. FinalizeSteps
    BY ReviewAlone, VerifyAlone, OthersAlone
  <2>2. QED
    BY <2>1 DEF FinalizeSteps, FinalizeGate, FinalizeCover, FinalizeSnapshot, FinalizeAcceptance
<1>2. PICK snap, cover, b, again :
        snap = sealing.snap /\ cover = sealing.cover /\ b = receipt' /\ again = SnapshotOf(repo)
  OBVIOUS
<1>3. /\ sealing.pc = "accepted" /\ again # Failed /\ SameMaterial(again, snap)
      /\ b = Body(snap, cover)
  BY <1>1, <1>2, MintIs DEF Taken, SnapshotOf
<1>4. b.digests = snap.digests /\ b.withheld = snap.ignored \cup cover.withheld
  BY <1>3, BodyFields
<1>5. /\ Read(sealing.taken) /\ snap = SnapshotOf(sealing.taken)
      /\ sealing.scope \in SUBSET Paths /\ Read(repo)
  BY <1>2, <1>3 DEF ReceiptsIInv, SealingInv, WorldInv, Read
<1>6. snap.digests = MaterialSeal(sealing.taken, sealing.scope)
  BY <1>5, ReadIs
<1>7. /\ again.digests = MaterialSeal(repo, sealing.scope)
      /\ again.ignored = IgnoredPaths(repo, sealing.scope)
  BY <1>2, <1>5, ReadIs
<1>8. again.digests = snap.digests /\ again.ignored = snap.ignored
  BY <1>3 DEF SameMaterial
<1>9. QED
  BY <1>2, <1>4, <1>6, <1>7, <1>8

\* What is signed stood on disk before the acceptance commands ran and after the
\* last of them, whatever they wrote and whatever the operator did: the second
\* snapshot of `scafld finalize` is compared with the first before the signature.
THEOREM SignedStood == Spec => SignedSurvivesAcceptance
<1>1. ReceiptsIInv /\ [Next]_vars =>
        [receipt' # receipt =>
           /\ MaterialSeal(sealing.taken, sealing.scope) = receipt'.digests
           /\ MaterialSeal(repo, sealing.scope) = receipt'.digests
           /\ IgnoredPaths(repo, sealing.scope) \subseteq receipt'.withheld]_vars
  BY SignedStep
<1>2. QED
  BY <1>1, ReceiptsInductive, PTL DEF Spec, SignedSurvivesAcceptance

LEMMA AttestedStep ==
  ASSUME ReceiptsIInv, [Next]_vars, receipt' # receipt, review.provider # Human,
         NEW p \in DOMAIN receipt'.digests, p \in review.scope, sealing.shown = sealing.gated,
         p \notin sealing.cover.gone \cup sealing.cover.withheld
  PROVE  p \in DOMAIN review.files /\ review.files[p] = receipt'.digests[p]
<1>1. FinalizeMint
  <2>1. FinalizeSteps
    BY ReviewAlone, VerifyAlone, OthersAlone
  <2>2. QED
    BY <2>1 DEF FinalizeSteps, FinalizeGate, FinalizeCover, FinalizeSnapshot, FinalizeAcceptance
<1>2. PICK snap, cover, b, r, files, sc :
        /\ snap = sealing.snap /\ cover = sealing.cover /\ b = receipt' /\ r = sealing.gated
        /\ files = review.files /\ sc = review.scope
  OBVIOUS
<1>3. sealing.pc = "accepted" /\ ValidBody(snap, cover) /\ b = Body(snap, cover)
  BY <1>1, <1>2, MintIs
<1>4. b.digests = snap.digests
  BY <1>3, BodyFields
<1>5. /\ Read(r) /\ cover = Coverage(SnapshotOf(r)) /\ sealing.scope \in SUBSET Paths
      /\ IsRepository(r) /\ MaterialSeal(r, sc) = files /\ review # NoReview
  BY <1>2, <1>3 DEF ReceiptsIInv, SealingInv
<1>6. files # Failed /\ sc \in SUBSET Paths
  BY <1>2, <1>5, PartialTreeIsNoError, ScopesArePaths DEF ReceiptsIInv, ReviewInv
<1>7. p \in DOMAIN cover.shown /\ cover.shown[p] = snap.digests[p]
  BY <1>2, <1>3, <1>4 DEF ValidBody, Covered
<1>8. PICK seen, tree : seen = SnapshotOf(r) /\ tree = TemporaryTree(r)
  OBVIOUS
<1>9. p \in DOMAIN seen.digests /\ seen.digests[p] = snap.digests[p]
  BY <1>5, <1>7, <1>8, CoverageIs
<1>10. seen.digests = MaterialSeal(r, sealing.scope) /\ IsPartialTree(seen.digests)
  BY <1>5, <1>8, ReadIs
<1>11. p \in sealing.scope \ Runtime /\ tree[p] # Gone /\ seen.digests[p] = tree[p]
  <2>1. PICK f : f = seen.digests
    OBVIOUS
  <2>2. f = MaterialSeal(r, sealing.scope) /\ f # Failed
    BY <1>10, <2>1, PartialTreeIsNoError
  <2>3. DigestsOf(f, tree, sealing.scope)
    BY <1>5, <1>8, <2>2, SealShape
  <2>4. QED
    BY <1>9, <2>1, <2>3 DEF DigestsOf
<1>12. DigestsOf(files, tree, sc)
  BY <1>5, <1>6, <1>8, SealShape
<1>13. p \in sc
  BY <1>2
<1>14. p \in DOMAIN files /\ files[p] = tree[p]
  BY <1>11, <1>12, <1>13 DEF DigestsOf
<1>15. QED
  BY <1>2, <1>4, <1>9, <1>11, <1>14

\* A receipt attests reviewed bytes: every digest it signs is the one that a
\* provider's review sealed, but where finalize was given another scope, the
\* checkout changed between the gate and the snapshot that is called reviewed, or
\* the path was withheld or deleted in that snapshot.
THEOREM ReceiptsAttest == Spec => ReceiptAttestsReview
<1>1. ReceiptsIInv /\ [Next]_vars =>
        [receipt' # receipt /\ review.provider # Human =>
           \A p \in DOMAIN receipt'.digests :
              \/ p \in DOMAIN review.files /\ review.files[p] = receipt'.digests[p]
              \/ p \notin review.scope
              \/ sealing.shown # sealing.gated
              \/ p \in sealing.cover.gone \cup sealing.cover.withheld]_vars
  BY AttestedStep
<1>2. QED
  BY <1>1, ReceiptsInductive, PTL DEF Spec, ReceiptAttestsReview

-----------------------------------------------------------------------------
(* What a verification that passes means. *)

LEMMA CrossVendor ==
  ASSUME ReceiptInv, receipt # NoReceipt, Independent("cross_vendor")
  PROVE  /\ {review.provider, receipt.host} \subseteq Vendors
         /\ review.provider # receipt.host
<1>1. PICK provider, host : provider = review.provider /\ host = receipt.host
  OBVIOUS
<1>2. Independence(provider, host) = "cross_vendor"
  BY <1>1 DEF ReceiptInv, Independent
<1>3. provider \in Vendors /\ host \in Vendors /\ provider # host
  BY <1>2 DEF Independence
<1>4. QED
  BY <1>1, <1>3

\* What was checked by the time acceptance is run.
LEMMA MatchedMeans ==
  ASSUME ReceiptsIInv, checking.pc = "matched"
  PROVE  /\ receipt # NoReceipt /\ Independent(checking.minimum)
         /\ checking.ref # 0 => CommitInv(checking.ref, checking.target)
         /\ checking.root = "here" /\ repo = checking.opened =>
              /\ Forced(repo, receipt.scope) = {} => CarriesReceipt(repo.work)
              /\ IsAncestor(repo, receipt.base, repo.head)
<1>1. /\ receipt # NoReceipt /\ Independent(checking.minimum)
      /\ checking.ref # 0 => CommitInv(checking.ref, checking.target)
  BY DEF ReceiptsIInv, CheckingInv
<1>2. ASSUME checking.root = "here", repo = checking.opened
      PROVE  /\ Forced(repo, receipt.scope) = {} => CarriesReceipt(repo.work)
             /\ IsAncestor(repo, receipt.base, repo.head)
  <2>1. CASE checking.ref = 0
    BY <1>2, <2>1 DEF ReceiptsIInv, CheckingInv, CheckoutInv
  <2>2. CASE checking.ref # 0
    <3>1. repo.head = checking.ref /\ ExactlyHead(repo)
      BY <1>2, <2>2 DEF ReceiptsIInv, CheckingInv
    <3>2. repo.work = TreeOf(repo, checking.ref)
      BY <3>1 DEF ExactlyHead
    <3>3. CommitInv(checking.ref, checking.target)
      BY <1>1, <2>2
    <3>4. QED
      BY <3>1, <3>2, <3>3 DEF CommitInv
  <2>3. QED
    BY <2>1, <2>2
<1>3. QED
  BY <1>1, <1>2

LEMMA SoundStep ==
  ASSUME ReceiptsIInv, [Next]_vars, checking'.passed, ~checking.passed
  PROVE  /\ checking.ref # 0 =>
              /\ CarriesReceipt(TreeOf(repo, checking.ref))
              /\ IsAncestor(repo, receipt.base, checking.ref)
              /\ checking.target # 0 => IsAncestor(repo, checking.target, checking.ref)
         /\ checking.root = "here" /\ repo = checking.opened =>
              /\ Forced(repo, receipt.scope) = {} => CarriesReceipt(repo.work)
              /\ Passes(repo.work)
              /\ IsAncestor(repo, receipt.base, repo.head)
         /\ checking.root = "clone" => Passes(TreeOf(repo, checking.ref))
         /\ checking.minimum = "cross_vendor" =>
              /\ {review.provider, receipt.host} \subseteq Vendors
              /\ review.provider # receipt.host
<1>1. VerifySteps
  BY ReviewAlone, FinalizeAlone, OthersAlone
<1>2. ASSUME NEW c, c = checking', NEW pc, NEW ref, NEW target, NEW root, NEW minimum,
             NEW opened,
             c = CheckingWith(pc, ref, target, root, minimum, opened, checking.passed)
      PROVE  FALSE
  BY <1>2, CheckingFields
<1>3. ASSUME NEW passed \in BOOLEAN, Verdict(passed)
      PROVE  passed
  <2>1. PICK c, zero : c = checking' /\ zero = 0
    OBVIOUS
  <2>2. c = CheckingWith("over", zero, zero, "here", "isolation_only", NoReceipt, passed)
    BY <1>3, <2>1 DEF Verdict, Checking, CheckingWith
  <2>3. c.passed = passed
    BY <2>2, CheckingFields
  <2>4. QED
    BY <2>1, <2>3
<1>4. ~VerifyStart
  BY <1>2, VerifyStartIs DEF ReceiptsIInv
<1>5. ~VerifyTrust
  BY <1>2, <1>3, TrustIs DEF ReceiptsIInv
<1>6. CASE VerifyMaterial
  <2>1. Verdict(TRUE) /\ Matches(checking.ref, checking.target) /\ checking.root = "none"
    BY <1>2, <1>3, <1>6, MaterialIs DEF ReceiptsIInv
  <2>2. /\ checking.pc = "trusted" /\ receipt # NoReceipt /\ Independent(checking.minimum)
        /\ checking.ref # 0 /\ checking.ref \in 0 .. Len(repo.commits)
        /\ checking.target \in 0 .. Len(repo.commits)
    BY <1>6, <2>1 DEF VerifyMaterial, ReceiptsIInv, CheckingInv
  <2>3. CommitInv(checking.ref, checking.target)
    BY <2>1, <2>2, MatchedCommit DEF ReceiptsIInv
  <2>4. QED
    BY <2>1, <2>2, <2>3, CrossVendor DEF CommitInv, ReceiptsIInv
<1>7. CASE VerifyAcceptance
  <2>1. PICK tree : tree = IF checking.root = "clone" THEN TreeOf(repo, checking.ref)
                          ELSE repo.work
    OBVIOUS
  <2>2. PICK passed : passed = (tree[Criterion] \in Good)
    OBVIOUS
  <2>3. passed \in BOOLEAN
    BY <2>2, SMT
  <2>4. Verdict(passed)
    BY <1>7, <2>1, <2>2, Zenon DEF VerifyAcceptance, Passes
  <2>5. Passes(tree) /\ checking.pc = "matched"
    BY <1>3, <1>7, <2>2, <2>3, <2>4 DEF VerifyAcceptance, Passes
  <2>6. /\ receipt # NoReceipt /\ Independent(checking.minimum)
        /\ checking.ref # 0 => CommitInv(checking.ref, checking.target)
        /\ checking.root = "here" /\ repo = checking.opened =>
             /\ Forced(repo, receipt.scope) = {} => CarriesReceipt(repo.work)
             /\ IsAncestor(repo, receipt.base, repo.head)
    BY <2>5, MatchedMeans
  <2>7. checking.minimum = "cross_vendor" =>
          /\ {review.provider, receipt.host} \subseteq Vendors
          /\ review.provider # receipt.host
    BY <2>6, CrossVendor DEF ReceiptsIInv
  <2>8. QED
    BY <2>1, <2>5, <2>6, <2>7 DEF CommitInv
<1>8. QED
  BY <1>1, <1>4, <1>5, <1>6, <1>7 DEF VerifySteps

\* A verification that passes means what it says: the commit, or the checkout as
\* it was read, carries exactly the signed material on top of the signed base,
\* acceptance passed on that very tree, and a cross-vendor policy met two vendors.
THEOREM PassedIsSound == Spec => VerifyIsSound
<1>1. ReceiptsIInv /\ [Next]_vars =>
        [checking'.passed /\ ~checking.passed =>
           LET still == repo = checking.opened
           IN  /\ checking.ref # 0 =>
                    /\ CarriesReceipt(TreeOf(repo, checking.ref))
                    /\ IsAncestor(repo, receipt.base, checking.ref)
                    /\ checking.target # 0 => IsAncestor(repo, checking.target, checking.ref)
               /\ checking.root = "here" /\ still =>
                    /\ Forced(repo, receipt.scope) = {} => CarriesReceipt(repo.work)
                    /\ Passes(repo.work)
                    /\ IsAncestor(repo, receipt.base, repo.head)
               /\ checking.root = "clone" => Passes(TreeOf(repo, checking.ref))
               /\ checking.minimum = "cross_vendor" =>
                    /\ {review.provider, receipt.host} \subseteq Vendors
                    /\ review.provider # receipt.host]_vars
  BY SoundStep
<1>2. QED
  BY <1>1, ReceiptsInductive, PTL DEF Spec, VerifyIsSound

-----------------------------------------------------------------------------
(* The types. *)

LEMMA InvariantTypes ==
  ASSUME ReceiptsIInv PROVE TypeOK
<1>1. /\ IsRepository(repo) /\ scope \in Scopes /\ acts \in 0 .. MaxActs
      /\ now \in 0 .. MaxTime
      /\ keys \in [revoked : BOOLEAN, until : 0 .. (MaxTime + 1)]
  BY DEF ReceiptsIInv, WorldInv
<1>2. /\ reading.pc \in Stages("review") /\ reading.finding \in BOOLEAN
      /\ review # NoReview =>
           /\ IsPartialTree(review.files) /\ review.passes \in BOOLEAN
           /\ review.provider \in Vendors \cup {Human}
  BY DEF ReceiptsIInv, ReviewInv
<1>3. sealing.pc \in Stages("finalize") /\ sealing.minted \in 0 .. now
  BY DEF ReceiptsIInv, SealingInv
<1>4. checking.pc \in Stages("verify") /\ checking.passed \in BOOLEAN
  BY DEF ReceiptsIInv, CheckingInv
<1>5. DOMAIN repo.commits = 1 .. Len(repo.commits)
  BY DEF ReceiptsIInv, WorldInv, IsRepository
<1>6. receipt # NoReceipt =>
        /\ IsPartialTree(receipt.digests) /\ receipt.withheld \subseteq Paths
        /\ receipt.base \in DOMAIN repo.commits /\ receipt.head \in DOMAIN repo.commits
        /\ receipt.level = Independence(receipt.provider, receipt.host)
  BY <1>5 DEF ReceiptsIInv, ReceiptInv
<1>7. QED
  BY <1>1, <1>2, <1>3, <1>4, <1>6 DEF TypeOK

\* What is on disk, staged and committed, what the review recorded and what the
\* receipt says keep their shape, and a receipt names commits that are there and
\* the level that its two vendors give it.
THEOREM ReceiptsTyped == Spec => []TypeOK
<1>1. ReceiptsIInv => TypeOK
  BY InvariantTypes
<1>2. QED
  BY <1>1, ReceiptsInductive, PTL

-----------------------------------------------------------------------------
(* An honest receipt. *)

\* The honest claims, of the commit that is verified.
HonestCommit(c, target) ==
    /\ c # 0 /\ CarriesReceipt(TreeOf(repo, c))
    /\ receipt.withheld \subseteq Pinned \cap DOMAIN receipt.digests
    /\ DeletedPaths(repo, receipt.base, TreeOf(repo, c), receipt.scope) \cap Pinned = {}
    /\ IsAncestor(repo, receipt.base, c)
    /\ target # 0 => /\ IsAncestor(repo, receipt.base, target)
                     /\ IsAncestor(repo, target, c)

\* The snapshot of a commit that carries the receipt.
LEMMA HonestSnapshot ==
  ASSUME WorldInv, ReceiptInv, receipt # NoReceipt, NEW c \in 0 .. Len(repo.commits),
         NEW target, HonestCommit(c, target), NEW snap, snap = Target(c)
  PROVE  /\ snap # Failed /\ snap.base = receipt.base /\ snap.ignored = {}
         /\ DigestsOf(snap.digests, TreeOf(repo, c), receipt.scope)
         /\ snap.deleted \cap Pinned = {}
<1>1. PICK sc \in SUBSET Paths : sc = receipt.scope /\ sc # {}
  BY DEF ReceiptInv
<1> DEFINE base == receipt.base
<1>2. PICK n \in Nat : n = Len(repo.commits)
  BY DEF WorldInv, IsRepository
<1>3. base \in 0 .. n /\ base # 0 /\ base \in Nat /\ c \in 0 .. n /\ c # 0 /\ c \in Nat
  <2>1. base \in 1 .. n /\ c # 0
    BY <1>1, <1>2 DEF ReceiptInv, HonestCommit
  <2>2. QED
    BY <1>2, <2>1
<1>4. IsRepository(repo) /\ IsAncestor(repo, base, c)
  BY <1>1 DEF WorldInv, HonestCommit
<1>5. MergeBase(repo, base, c) = base
  BY <1>2, <1>3, <1>4, MergeBases
<1>6. PICK tree \in Trees, none \in SUBSET Paths : tree = RefTree(repo, c) /\ none = {}
  BY <1>4, RefTreeIs
<1>7. \A p \in Paths : tree[p] = IF p \in Runtime THEN Gone ELSE TreeOf(repo, c)[p]
  BY <1>2, <1>3, <1>4, <1>6, RefTreeIs
<1>8. snap = Facts(repo, base, c, tree, sc, none)
  BY <1>1, <1>3, <1>5, <1>6 DEF Target, SnapshotRef
<1>9. /\ snap.digests = FileDigests(tree, sc)
      /\ snap.deleted = DeletedPaths(repo, base, tree, sc)
  BY <1>3, <1>4, <1>8, FactsAre
<1>10. snap # Failed /\ snap.base = base /\ snap.ignored = none
  BY <1>3, <1>4, <1>8, <1>9, FactsAre
<1>11. PICK f : f = FileDigests(tree, sc)
  OBVIOUS
<1>12. DOMAIN f = {p \in sc \ Runtime : tree[p] # Gone} /\ \A p \in DOMAIN f : f[p] = tree[p]
  BY <1>11 DEF FileDigests
<1>13. DigestsOf(f, TreeOf(repo, c), sc)
  BY <1>7, <1>12 DEF DigestsOf
<1>14. DeletedPaths(repo, base, tree, sc) = DeletedPaths(repo, base, TreeOf(repo, c), sc)
  BY <1>7 DEF DeletedPaths
<1>15. QED
  BY <1>1, <1>6, <1>9, <1>10, <1>11, <1>13, <1>14 DEF HonestCommit

LEMMA HonestMatches ==
  ASSUME WorldInv, ReceiptInv, receipt # NoReceipt, NEW c \in 0 .. Len(repo.commits),
         NEW target, HonestCommit(c, target)
  PROVE  Matches(c, target)
<1>1. PICK snap, tree, f, d, sc :
        /\ snap = Target(c) /\ tree = TreeOf(repo, c) /\ f = snap.digests
        /\ d = receipt.digests /\ sc = receipt.scope
  OBVIOUS
<1>2. /\ snap # Failed /\ snap.base = receipt.base /\ snap.ignored = {}
      /\ DigestsOf(f, tree, sc) /\ snap.deleted \cap Pinned = {}
  BY <1>1, HonestSnapshot
<1>3. /\ IsPartialTree(d) /\ DOMAIN d \subseteq sc \ Runtime /\ Gone \notin Bytes
      /\ sc \in SUBSET Paths /\ Pinned \cap DOMAIN d \subseteq receipt.withheld
  BY <1>1, PathsAssumption DEF ReceiptInv
<1>4. /\ \A p \in DOMAIN d : tree[p] = d[p]
      /\ \A p \in sc \ Runtime : tree[p] # Gone => p \in DOMAIN d \cup receipt.withheld
      /\ receipt.withheld \subseteq Pinned \cap DOMAIN d
  BY <1>1 DEF HonestCommit, CarriesReceipt
<1>5. \A p \in DOMAIN d : d[p] \in Bytes
  BY <1>3 DEF IsPartialTree
<1>6. DOMAIN f = DOMAIN d
  BY <1>2, <1>3, <1>4, <1>5 DEF DigestsOf
<1>7. f = d
  <2>1. PICK ps \in SUBSET Paths : ps = DOMAIN d /\ d \in [ps -> Bytes]
    BY <1>3 DEF IsPartialTree
  <2>2. f = [p \in DOMAIN f |-> f[p]]
    <3>1. PICK commit \in Trees : commit = RefTree(repo, c)
      BY RefTreeIs DEF WorldInv
    <3>2. f = FileDigests(commit, sc)
      BY <1>1, <1>2, <3>1 DEF Target, SnapshotRef, Facts, HonestCommit
    <3>3. QED
      BY <3>2 DEF FileDigests
  <2>3. d = [p \in DOMAIN d |-> d[p]]
    BY <2>1
  <2>4. \A p \in DOMAIN d : f[p] = d[p]
    BY <1>2, <1>4, <1>6 DEF DigestsOf
  <2>5. QED
    BY <1>6, <2>2, <2>3, <2>4
<1>8. Withheld(snap) = receipt.withheld
  <2>1. Withheld(snap) = {} \cup (Pinned \cap (DOMAIN d \cup snap.deleted))
    BY <1>1, <1>2, <1>7 DEF Withheld, Unpinned
  <2>2. QED
    BY <1>2, <1>3, <1>4, <2>1
<1>9. Descends(c, target)
  BY DEF Descends, HonestCommit
<1>10. QED
  BY <1>1, <1>2, <1>7, <1>8, <1>9 DEF Matches, MaterialMatches

LEMMA HonestStep ==
  ASSUME ReceiptsIInv, [Next]_vars, checking.pc # "over", checking'.pc = "over",
         ~checking'.passed
  PROVE  ~Honest
<1>1. VerifySteps
  BY ReviewAlone, FinalizeAlone, OthersAlone
<1>2. ASSUME NEW c, c = checking', NEW pc, pc # "over", NEW ref, NEW target, NEW root,
             NEW minimum, NEW opened,
             c = CheckingWith(pc, ref, target, root, minimum, opened, checking.passed)
      PROVE  FALSE
  BY <1>2, CheckingFields
<1>3. ASSUME NEW passed \in BOOLEAN, Verdict(passed)
      PROVE  ~passed
  <2>1. PICK c, zero : c = checking' /\ zero = 0
    OBVIOUS
  <2>2. c = CheckingWith("over", zero, zero, "here", "isolation_only", NoReceipt, passed)
    BY <1>3, <2>1 DEF Verdict, Checking, CheckingWith
  <2>3. c.passed = passed
    BY <2>2, CheckingFields
  <2>4. QED
    BY <2>1, <2>3
<1>4. /\ receipt # NoReceipt \/ VerifyStart
      /\ checking.ref \in 0 .. Len(repo.commits)
      /\ receipt # NoReceipt => receipt.level = Independence(receipt.provider, receipt.host)
  BY <1>1 DEF ReceiptsIInv, CheckingInv, ReceiptInv, VerifySteps, VerifyTrust, VerifyMaterial,
              VerifyAcceptance
<1>5. ~VerifyStart
  BY <1>2, VerifyStartIs DEF ReceiptsIInv
<1>6. CASE VerifyTrust
  <2>1. ~(/\ RootIsMaterial(checking.root, checking.ref) /\ KeyInForce
          /\ Independent(checking.minimum))
    BY <1>2, <1>6, TrustIs DEF ReceiptsIInv
  <2>2. QED
    BY <1>4, <1>5, <2>1 DEF Honest, RootIsMaterial, KeyInForce, Independent
<1>7. CASE VerifyMaterial
  <2>1. ~Matches(checking.ref, checking.target)
    BY <1>2, <1>3, <1>7, MaterialIs DEF ReceiptsIInv
  <2>2. ~HonestCommit(checking.ref, checking.target)
    BY <1>4, <1>5, <2>1, HonestMatches DEF ReceiptsIInv
  <2>3. QED
    BY <2>2 DEF Honest, HonestCommit
<1>8. CASE VerifyAcceptance
  <2>1. PICK tree : tree = IF checking.root = "clone" THEN TreeOf(repo, checking.ref)
                          ELSE repo.work
    OBVIOUS
  <2>2. PICK passed : passed = (tree[Criterion] \in Good)
    OBVIOUS
  <2>3. passed \in BOOLEAN
    BY <2>2, SMT
  <2>4. Verdict(passed)
    BY <1>8, <2>1, <2>2, Zenon DEF VerifyAcceptance, Passes
  <2>5. ~Passes(tree) /\ checking.root # "none"
    BY <1>3, <1>8, <2>2, <2>3, <2>4 DEF VerifyAcceptance, Passes, ReceiptsIInv, CheckingInv
  <2>6. QED
    BY <2>1, <2>5 DEF Honest
<1>9. QED
  BY <1>1, <1>5, <1>6, <1>7, <1>8 DEF VerifySteps

\* An honest receipt verifies: no verification of a commit fails that descends
\* from the signed base and carries the signed material, while the key is in
\* force and the policy is met.
THEOREM HonestVerifies == Spec => HonestReceiptVerifies
<1>1. ReceiptsIInv /\ [Next]_vars =>
        [checking.pc # "over" /\ checking'.pc = "over" /\ ~checking'.passed => ~Honest]_vars
  BY HonestStep
<1>2. QED
  BY <1>1, ReceiptsInductive, PTL DEF Spec, HonestReceiptVerifies

-----------------------------------------------------------------------------
(* The seals. *)

\* A seal reads the scoped files alone.
LEMMA SameDigests ==
  ASSUME NEW one, NEW other, NEW sc, \A p \in sc \ Runtime : one[p] = other[p]
  PROVE  FileDigests(one, sc) = FileDigests(other, sc)
  BY DEF FileDigests

\* What `git status` says of a file that it does not list.
LEMMA NotListed ==
  ASSUME NEW r, NEW p \in Paths, NEW was, was = TreeOf(r, r.head)[p],
         p \notin Listed(r), p \notin r.flags
  PROVE  /\ was = r.index[p]
         /\ r.index[p] = Gone /\ p \notin Ignored => r.work[p] = Gone
         /\ r.index[p] # Gone => r.work[p] = r.index[p]
<1>1. StatusCode(r, p) = <<" ", " ">>
  BY DEF Listed
<1>2. p \notin Untracked(r)
  BY <1>1 DEF StatusCode
<1>3. r.index[p] = Gone /\ p \notin Ignored => r.work[p] = Gone
  BY <1>2 DEF Untracked
<1>4. CASE r.index[p] = Gone
  BY <1>1, <1>2, <1>3, <1>4 DEF StatusCode
<1>5. CASE r.index[p] # Gone
  BY <1>1, <1>2, <1>3, <1>5 DEF StatusCode
<1>6. QED
  BY <1>4, <1>5

\* A file that is neither committed nor staged is listed only as untracked.
LEMMA NeverAdded ==
  ASSUME NEW r, NEW p \in Paths, TreeOf(r, r.head)[p] = Gone, r.index[p] = Gone,
         p \in Ignored \/ r.work[p] = Gone
  PROVE  p \notin Listed(r)
<1>1. p \notin Untracked(r)
  BY DEF Untracked
<1>2. StatusCode(r, p) = <<" ", " ">>
  BY <1>1 DEF StatusCode
<1>3. QED
  BY <1>2 DEF Listed

\* Everything is committed, and the seal stays.
LEMMA CommittedSeal ==
  ASSUME NEW r, IsRepository(r), NEW sc \in SUBSET Paths, Forced(r, sc) = {},
         MaterialSeal(r, sc) # Failed
  PROVE  MaterialSeal(Committed(Staged(r), r.head), sc) = MaterialSeal(r, sc)
<1>1. PICK staged : staged = Staged(r)
  OBVIOUS
<1>2. /\ IsRepository(staged)
      /\ staged = Repo(r.commits, r.head, staged.index, r.work, r.flags)
      /\ \A p \in Paths : staged.index[p] = IF p \in Ignored /\ r.index[p] = Gone
                                            THEN Gone ELSE r.work[p]
  BY <1>1, StagedIs
<1>3. staged.commits = r.commits /\ staged.work = r.work /\ staged.flags = r.flags
  BY <1>2 DEF Repo
<1>4. PICK n, head : n \in Nat /\ n = Len(r.commits) /\ head = r.head /\ head \in 0 .. n
  BY RepositoryParts DEF IsRepository
<1>5. PICK s : s = Committed(staged, head)
  OBVIOUS
<1>6. /\ IsRepository(s)
      /\ s = Repo(Append(staged.commits, [tree |-> staged.index, parent |-> head]),
                  Len(staged.commits) + 1, staged.index, staged.work, staged.flags)
      /\ TreeOf(s, Len(staged.commits) + 1) = staged.index
  <2>1. head \in 0 .. Len(staged.commits)
    BY <1>3, <1>4
  <2>2. QED
    BY <1>2, <1>5, <2>1, CommitActs
<1>7. s.work = r.work /\ s.flags = r.flags /\ TreeOf(s, s.head) = staged.index
  BY <1>3, <1>6 DEF Repo
<1>8. \A p \in sc \ Runtime : TemporaryTree(s)[p] = TemporaryTree(r)[p]
  <2>1. ASSUME NEW p \in sc \ Runtime
        PROVE  TemporaryTree(s)[p] = TemporaryTree(r)[p]
    <3>1. p \in Paths
      OBVIOUS
    <3>2. PICK was, index, work, set :
            /\ was = TreeOf(r, r.head)[p] /\ index = r.index[p] /\ work = r.work[p]
            /\ set = staged.index[p]
      OBVIOUS
    <3>3. TemporaryTree(r)[p] = IF was = Gone /\ p \in Ignored THEN Gone ELSE work
      BY <3>1, <3>2, TemporaryTreeIs
    <3>4. TemporaryTree(s)[p] = IF set = Gone /\ p \in Ignored THEN Gone ELSE work
      BY <1>6, <1>7, <3>1, <3>2, TemporaryTreeIs
    <3>5. set = IF p \in Ignored /\ index = Gone THEN Gone ELSE work
      BY <1>2, <3>1, <3>2
    <3>6. p \in Ignored => (index = Gone) = (was = Gone)
      BY <3>1, <3>2 DEF Forced
    <3>7. QED
      BY <3>3, <3>4, <3>5, <3>6
  <2>2. QED
    BY <2>1
<1>9. FileDigests(TemporaryTree(s), sc) = FileDigests(TemporaryTree(r), sc)
  BY <1>8, SameDigests
<1>10. Flagged(s, sc) = Flagged(r, sc)
  BY <1>7 DEF Flagged
<1>11. MaterialSeal(s, sc) = IF sc = {} \/ Flagged(s, sc) THEN Failed
                             ELSE FileDigests(TemporaryTree(s), sc)
  BY <1>6, SealIs
<1>12. MaterialSeal(r, sc) = IF sc = {} \/ Flagged(r, sc) THEN Failed
                             ELSE FileDigests(TemporaryTree(r), sc)
  BY SealIs
<1>13. QED
  BY <1>1, <1>4, <1>5, <1>9, <1>10, <1>11, <1>12

\* The cheap seal of status.
LEMMA StatusSeal ==
  ASSUME NEW r, IsRepository(r), NEW sc \in SUBSET Paths, MaterialSeal(r, sc) # Failed,
         Forced(r, sc) = {}, Vanished(r, sc) = {},
         Renamings(r, sc) = {}
  PROVE  StatusMaterialSeal(r, sc) = MaterialSeal(r, sc)
<1>1. PICK was \in Trees, index \in Trees, work \in Trees :
        was = TreeOf(r, r.head) /\ index = r.index /\ work = r.work
  BY RepositoryParts, TreeOfIsTree
<1>2. PICK old : old = {q[1] : q \in Renamings(r, sc)} \ Untracked(r)
  OBVIOUS
<1>3. old \cap sc = {}
  BY <1>2
<1>4. PICK listed : listed = (Listed(r) \cap sc) \ (old \cup Runtime)
  OBVIOUS
<1>5. /\ sc # {} /\ ~Flagged(r, sc)
      /\ MaterialSeal(r, sc) = FileDigests(TemporaryTree(r), sc)
  <2>1. MaterialSeal(r, sc) = IF sc = {} \/ Flagged(r, sc) THEN Failed
                              ELSE FileDigests(TemporaryTree(r), sc)
    BY SealIs
  <2>2. QED
    BY <2>1
<1>6. ASSUME NEW p \in listed, was[p] = Gone
      PROVE  work[p] # Gone /\ p \notin Ignored
  <2>1. p \in Paths /\ p \in sc /\ p \in Listed(r)
    BY <1>4
  <2>2. work[p] = Gone => index[p] = Gone
    BY <1>1, <1>6, <2>1 DEF Vanished
  <2>3. p \in Ignored => index[p] = Gone
    BY <1>1, <1>6, <2>1 DEF Forced
  <2>4. QED
    BY <1>1, <1>6, <2>1, <2>2, <2>3, NeverAdded
<1>7. PICK tree : tree = [p \in Paths |-> IF p \in listed THEN work[p] ELSE was[p]]
  OBVIOUS
<1>8. ScopedTree(r, listed) = tree
  BY <1>1, <1>6, <1>7 DEF ScopedTree
<1>9. tree # Failed
  <2>1. tree \in Trees
    BY <1>1, <1>7 DEF Trees
  <2>2. QED
    BY <2>1, FailedAssumption
<1>10. StatusMaterialSeal(r, sc) = FileDigests(tree, sc)
  BY <1>2, <1>4, <1>5, <1>8, <1>9 DEF StatusMaterialSeal
<1>11. ASSUME NEW p \in sc \ Runtime
       PROVE  tree[p] = TemporaryTree(r)[p]
  <2>1. p \in Paths
    OBVIOUS
  <2>2. TemporaryTree(r)[p] = IF was[p] = Gone /\ p \in Ignored THEN Gone ELSE work[p]
    BY <1>1, <2>1, TemporaryTreeIs
  <2>3. CASE p \in listed
    <3>1. tree[p] = work[p]
      BY <1>7, <2>1, <2>3
    <3>2. was[p] = Gone => p \notin Ignored
      BY <1>6, <2>3
    <3>3. QED
      BY <2>2, <3>1, <3>2
  <2>4. CASE p \notin listed
    <3>1. p \notin Listed(r)
      BY <1>3, <1>4, <2>4
    <3>2. p \notin r.flags
      BY <1>5 DEF Flagged
    <3>3. /\ was[p] = index[p]
          /\ index[p] # Gone => work[p] = index[p]
          /\ index[p] = Gone /\ p \notin Ignored => work[p] = Gone
      BY <1>1, <2>1, <3>1, <3>2, NotListed
    <3>4. tree[p] = was[p]
      BY <1>7, <2>1, <2>4
    <3>5. QED
      BY <2>2, <3>3, <3>4
  <2>5. QED
    BY <2>3, <2>4
<1>12. FileDigests(tree, sc) = FileDigests(TemporaryTree(r), sc)
  BY <1>11, SameDigests
<1>13. QED
  BY <1>5, <1>10, <1>12

\* One seal for the same bytes: committing everything keeps the seal of a review,
\* and the cheap seal that `scafld status` compares with it is the same one, but
\* for forced, vanished and renamed files.
THEOREM OneSeal == Spec => []SealsAgree
<1>1. ASSUME ReceiptsIInv PROVE SealsAgree
  <2>1. IsRepository(repo) /\ scope \in SUBSET Paths
    BY <1>1, ScopesArePaths DEF ReceiptsIInv, WorldInv
  <2>2. ASSUME MaterialSeal(repo, scope) # Failed, Forced(repo, scope) = {}
        PROVE  MaterialSeal(Committed(Staged(repo), repo.head), scope)
                 = MaterialSeal(repo, scope)
    BY <2>1, <2>2, CommittedSeal
  <2>3. ASSUME MaterialSeal(repo, scope) # Failed, Forced(repo, scope) = {},
               Vanished(repo, scope) = {},
               Renamings(repo, scope) = {}
        PROVE  StatusMaterialSeal(repo, scope) = MaterialSeal(repo, scope)
    BY <2>1, <2>3, StatusSeal
  <2>4. QED
    BY <2>2, <2>3 DEF SealsAgree
<1>2. QED
  BY <1>1, ReceiptsInductive, PTL

-----------------------------------------------------------------------------
(* What the guard of a review sees. *)

\* The two kinds of lines of `git status`.
LineOf(r, p) ==
    [path |-> IF p \in Odd THEN <<p>> ELSE p, code |-> StatusCode(r, p),
     print |-> IF p \in Odd THEN Gone ELSE r.work[p]]

RenamingLine(r, q) == [path |-> q, print |-> Gone, code |-> <<"R", StatusCode(r, q[2])[2]>>]

LEMMA LinesAre ==
  ASSUME NEW r
  PROVE  Fingerprints(r) = {LineOf(r, p) : p \in OwnLines(r)}
                           \cup {RenamingLine(r, q) :
                                   q \in {q \in Renamings(r, Paths) : q[1] \notin Runtime}}
  BY DEF Fingerprints, LineOf, RenamingLine, FingerprintOf

LEMMA OwnLinesAre ==
  ASSUME NEW r, NEW p \in OwnLines(r)
  PROVE  p \in Paths
  BY DEF OwnLines, Listed

LEMMA NamesAreNoPairs ==
  /\ \A p \in Paths : <<p>> \notin Paths
  /\ \A q \in Paths \X Paths : q \notin Paths /\ q = <<q[1], q[2]>> /\ q[1] \in Paths /\ q[2] \in Paths
  BY PathsAssumption

\* A renaming that the other of two looks does not show the same way is a mutated
\* path.
LEMMA RenamingSeen ==
  ASSUME NEW one, NEW other, NEW q \in Renamings(one, Paths), q[1] \notin Runtime,
         q \in Renamings(other, Paths) => StatusCode(other, q[2])[2] # StatusCode(one, q[2])[2]
  PROVE  \E x \in Fingerprints(one) : x \notin Fingerprints(other) /\ x.path = q
<1>1. PICK x : x = RenamingLine(one, q)
  OBVIOUS
<1>2. x \in Fingerprints(one) /\ x.path = q
  BY <1>1, LinesAre DEF RenamingLine
<1>3. q \in Paths \X Paths
  BY DEF Renamings
<1>4. ASSUME NEW p \in OwnLines(other), x = LineOf(other, p)
      PROVE  FALSE
  <2>1. p \in Paths
    BY OwnLinesAre
  <2>2. q = IF p \in Odd THEN <<p>> ELSE p
    BY <1>2, <1>4 DEF LineOf
  <2>3. q # p
    BY <1>3, <2>1, NamesAreNoPairs
  <2>4. q # <<p>>
    <3>1. PICK a, b : q = <<a, b>>
      BY <1>3
    <3>2. Len(<<a, b>>) = 2 /\ Len(<<p>>) = 1
      OBVIOUS
    <3>3. QED
      BY <3>1, <3>2
  <2>5. QED
    BY <2>2, <2>3, <2>4
<1>5. ASSUME NEW s \in Renamings(other, Paths), x = RenamingLine(other, s)
      PROVE  FALSE
  <2>1. q = s
    BY <1>2, <1>5 DEF RenamingLine
  <2>2. x.code = <<"R", StatusCode(one, q[2])[2]>> /\ x.code = <<"R", StatusCode(other, q[2])[2]>>
    BY <1>1, <1>5, <2>1 DEF RenamingLine
  <2>3. QED
    BY <2>1, <2>2
<1>6. x \notin Fingerprints(other)
  BY <1>4, <1>5, LinesAre
<1>7. QED
  BY <1>2, <1>6

\* So is a file that one of two looks lists by itself and the other found otherwise.
LEMMA FileSeen ==
  ASSUME NEW one, NEW other, NEW p \in OwnLines(one), p \notin Odd,
         one.work[p] # other.work[p]
  PROVE  \E x \in Fingerprints(one) : x \notin Fingerprints(other) /\ x.path = p
<1>1. PICK x : x = LineOf(one, p)
  OBVIOUS
<1>2. x \in Fingerprints(one)
  BY <1>1, LinesAre
<1>3. x.path = p /\ x.print = one.work[p]
  BY <1>1 DEF LineOf
<1>4. p \in Paths
  BY OwnLinesAre
<1>5. ASSUME NEW s \in OwnLines(other), x = LineOf(other, s)
      PROVE  FALSE
  <2>1. s \in Paths
    BY OwnLinesAre
  <2>2. /\ p = IF s \in Odd THEN <<s>> ELSE s
        /\ one.work[p] = IF s \in Odd THEN Gone ELSE other.work[s]
    BY <1>3, <1>5 DEF LineOf
  <2>3. p # <<s>>
    BY <1>4, <2>1, NamesAreNoPairs
  <2>4. QED
    BY <2>2, <2>3
<1>6. ASSUME NEW s \in Renamings(other, Paths), x = RenamingLine(other, s)
      PROVE  FALSE
  <2>1. s \in Paths \X Paths
    BY DEF Renamings
  <2>2. p = s
    BY <1>3, <1>6 DEF RenamingLine
  <2>3. QED
    BY <1>4, <2>1, <2>2, NamesAreNoPairs
<1>7. x \notin Fingerprints(other)
  BY <1>5, <1>6, LinesAre
<1>8. QED
  BY <1>2, <1>3, <1>7

\* What a look shows and the other does not is held against the provider.
LEMMA SeenBlocks ==
  ASSUME NEW before, NEW after, NEW sc \in SUBSET Paths, sc # Paths, NEW alone,
         NEW m, m \notin Runtime, m \in sc \/ \E q \in Paths : \E a \in sc \ alone : m = <<a, q>>,
         \/ \E x \in before : x \notin after /\ x.path = m
         \/ \E x \in after : x \notin before /\ x.path = m
  PROVE  BlockingMutations(before, after, sc, alone, SpecFile) # {}
<1>1. m \in Mutated(before, after)
  BY DEF Mutated
<1>2. InScope(m, sc, alone)
  BY DEF InScope
<1>3. QED
  BY <1>1, <1>2 DEF BlockingMutations

\* A file that neither look lists is as it was committed.
LEMMA UnlistedStays ==
  ASSUME NEW one, NEW other, NEW p \in Paths, p \notin Listed(one), p \notin Listed(other),
         p \notin one.flags, p \notin other.flags,
         TreeOf(other, other.head)[p] = TreeOf(one, one.head)[p],
         p \in Ignored => TreeOf(one, one.head)[p] # Gone
  PROVE  one.work[p] = other.work[p]
<1> PICK was : was = TreeOf(one, one.head)[p]
  OBVIOUS
<1>1. /\ was = one.index[p]
      /\ one.index[p] = Gone /\ p \notin Ignored => one.work[p] = Gone
      /\ one.index[p] # Gone => one.work[p] = one.index[p]
  BY NotListed
<1>2. /\ was = other.index[p]
      /\ other.index[p] = Gone /\ p \notin Ignored => other.work[p] = Gone
      /\ other.index[p] # Gone => other.work[p] = other.index[p]
  BY NotListed
<1>3. QED
  BY <1>1, <1>2

LEMMA MovedIsSeen ==
  ASSUME NEW saw, NEW met, IsRepository(saw), IsRepository(met), Later(saw, met),
         met.head = saw.head, NEW sc \in SUBSET Paths, sc # Paths, NEW alone,
         NEW p \in sc \ Runtime,
         p \notin Odd, p \notin met.flags, met.work[p] # saw.work[p],
         ~(p \in Ignored /\ TreeOf(saw, saw.head)[p] = Gone),
         p \notin OwnLines(saw) \cup OwnLines(met) =>
            \A q \in Renamings(saw, Paths) \cup Renamings(met, Paths) :
               p \in {q[1], q[2]} =>
                 /\ q[1] \in (sc \ alone) \ Runtime
                 /\ q \in Renamings(saw, Paths) \cap Renamings(met, Paths) =>
                      StatusCode(saw, q[2])[2] # StatusCode(met, q[2])[2]
  PROVE  BlockingMutations(Fingerprints(saw), Fingerprints(met), sc, alone, SpecFile) # {}
<1>1. CASE p \in OwnLines(saw) \cup OwnLines(met)
  <2>1. \/ \E x \in Fingerprints(saw) : x \notin Fingerprints(met) /\ x.path = p
        \/ \E x \in Fingerprints(met) : x \notin Fingerprints(saw) /\ x.path = p
    BY <1>1, FileSeen
  <2>2. QED
    BY <2>1, SeenBlocks
<1>2. ASSUME p \notin OwnLines(saw) \cup OwnLines(met),
             NEW q \in Renamings(saw, Paths) \cup Renamings(met, Paths), p \in {q[1], q[2]}
      PROVE  BlockingMutations(Fingerprints(saw), Fingerprints(met), sc, alone, SpecFile) # {}
  <2>1. q \in Paths \X Paths
    BY <1>2 DEF Renamings
  <2>2. /\ q[1] \in (sc \ alone) \ Runtime
        /\ q \in Renamings(saw, Paths) \cap Renamings(met, Paths) =>
             StatusCode(saw, q[2])[2] # StatusCode(met, q[2])[2]
    BY <1>2
  <2>3. q \notin Runtime /\ q = <<q[1], q[2]>> /\ q[2] \in Paths
    BY <2>1, NamesAreNoPairs, PathsAssumption
  <2>4. \/ \E x \in Fingerprints(saw) : x \notin Fingerprints(met) /\ x.path = q
        \/ \E x \in Fingerprints(met) : x \notin Fingerprints(saw) /\ x.path = q
    BY <1>2, <2>2, RenamingSeen
  <2>5. QED
    BY <2>2, <2>3, <2>4, SeenBlocks
<1>3. CASE /\ p \notin OwnLines(saw) \cup OwnLines(met)
           /\ \A q \in Renamings(saw, Paths) \cup Renamings(met, Paths) : p \notin {q[1], q[2]}
  <2>1. p \notin Renamed(saw, Paths) /\ p \notin Renamed(met, Paths)
    BY <1>3 DEF Renamed
  <2>2. p \notin Listed(saw) /\ p \notin Listed(met)
    BY <1>3, <2>1 DEF OwnLines
  <2>3. p \notin saw.flags /\ p \in Paths
    BY DEF Later
  <2>4. TreeOf(met, met.head) = TreeOf(saw, saw.head)
    BY TreesKept, RepositoryParts
  <2>5. TreeOf(met, met.head)[p] = TreeOf(saw, saw.head)[p]
    BY <2>4
  <2>6. saw.work[p] = met.work[p]
    BY <2>2, <2>3, <2>5, UnlistedStays
  <2>7. QED
    BY <2>6
<1>4. QED
  BY <1>1, <1>2, <1>3

LEMMA SeenStep ==
  ASSUME ReceiptsIInv, [Next]_vars, reading.pc = "judged", review' # review, review'.passes,
         NEW p \in DOMAIN review'.files \cup DOMAIN MaterialSeal(reading.saw, scope)
  PROVE  \/ reading.met.work[p] = reading.saw.work[p]
         \/ p \in Odd \/ RenamedUnseen(p)
         \/ p \in Ignored /\ TreeOf(reading.saw, reading.saw.head)[p] = Gone
         \/ reading.met.head # reading.saw.head
         \/ scope = Paths
<1>1. ReviewRecord
  <2>1. ReviewSteps
    BY FinalizeAlone, VerifyAlone, OthersAlone
  <2>2. QED
    BY <2>1 DEF ReviewSteps, ReviewStart, ReviewGuard, HumanReview
<1>2. PICK saw, met, sc, alone, files :
        /\ saw = reading.saw /\ met = reading.met /\ sc = scope /\ alone = Alone[scope]
        /\ files = MaterialSeal(repo, sc)
  OBVIOUS
<1>3. /\ IsRepository(saw) /\ IsRepository(met) /\ IsRepository(repo) /\ sc \in SUBSET Paths
      /\ Later(saw, met) /\ Later(met, repo) /\ MaterialSeal(saw, sc) # Failed
      /\ reading.finding = (BlockingMutations(Fingerprints(saw), Fingerprints(met), sc, alone,
                                              SpecFile) # {})
      /\ review = NoReview
  BY <1>2, ScopesArePaths DEF ReceiptsIInv, ReviewInv, WorldInv
<1>4. files # Failed
  BY <1>1, <1>2, <1>3 DEF ReviewRecord
<1>5. review'.files = files /\ ~reading.finding
  <2>1. PICK provider \in Vendors :
          review' = IF files = Failed THEN NoReview
                    ELSE Recorded(provider, files, ~reading.finding, reading.saw)
    BY <1>1, <1>2 DEF ReviewRecord
  <2>2. PICK passes \in BOOLEAN : passes = ~reading.finding
    OBVIOUS
  <2> PICK r : r = review'
    OBVIOUS
  <2>3. r = Recorded(provider, files, passes, reading.saw)
    BY <1>4, <2>1, <2>2
  <2>4. r.files = files /\ r.passes = passes
    BY <2>3, RecordedIs
  <2>5. QED
    BY <2>2, <2>4
<1>6. p \in sc \ Runtime
  <2>1. ASSUME NEW r, IsRepository(r), NEW f, f = MaterialSeal(r, sc), f # Failed
        PROVE  DOMAIN f \subseteq sc \ Runtime
    <3>1. DigestsOf(f, TemporaryTree(r), sc)
      BY <1>3, <2>1, SealShape
    <3>2. QED
      BY <3>1 DEF DigestsOf
  <2>2. PICK sealed : sealed = MaterialSeal(saw, sc)
    OBVIOUS
  <2>3. DOMAIN sealed \subseteq sc \ Runtime /\ DOMAIN files \subseteq sc \ Runtime
    BY <1>2, <1>3, <1>4, <2>1, <2>2
  <2>4. QED
    BY <1>2, <1>5, <2>2, <2>3
<1>7. p \notin met.flags
  <2>1. ~Flagged(repo, sc)
    BY <1>2, <1>3, <1>4, SealShape
  <2>2. p \notin repo.flags
    BY <1>6, <2>1 DEF Flagged
  <2>3. QED
    BY <1>3, <2>2 DEF Later
<1>8. BlockingMutations(Fingerprints(saw), Fingerprints(met), sc, alone, SpecFile) = {}
  BY <1>3, <1>5
<1>9. SUFFICES ASSUME met.work[p] # saw.work[p], p \notin Odd, ~RenamedUnseen(p),
                      ~(p \in Ignored /\ TreeOf(saw, saw.head)[p] = Gone),
                      met.head = saw.head, sc # Paths
               PROVE  FALSE
  BY <1>2
<1>10. p \notin OwnLines(saw) \cup OwnLines(met) =>
          \A q \in Renamings(saw, Paths) \cup Renamings(met, Paths) :
             p \in {q[1], q[2]} =>
               /\ q[1] \in (sc \ alone) \ Runtime
               /\ q \in Renamings(saw, Paths) \cap Renamings(met, Paths) =>
                    StatusCode(saw, q[2])[2] # StatusCode(met, q[2])[2]
  <2>1. ASSUME p \notin OwnLines(saw) \cup OwnLines(met),
               NEW q \in Renamings(saw, Paths) \cup Renamings(met, Paths), p \in {q[1], q[2]}
        PROVE  ~ \/ q[1] \notin (sc \ alone) \ Runtime
                 \/ /\ q \in Renamings(saw, Paths) \cap Renamings(met, Paths)
                    /\ StatusCode(saw, q[2])[2] = StatusCode(met, q[2])[2]
    BY <1>2, <1>9, <2>1 DEF RenamedUnseen
  <2>2. QED
    BY <2>1
<1>11. QED
  BY <1>3, <1>6, <1>7, <1>8, <1>9, <1>10, MovedIsSeen

\* No review passes over code that moved under the provider: a scoped file of the
\* seal holds after the provider's answer what it held before, but where one of
\* the named gaps of the guard hides the change.
THEOREM MovedCodeSeen == Spec => MovingCodeIsSeen
<1>1. ReceiptsIInv /\ [Next]_vars =>
        [reading.pc = "judged" /\ review' # review /\ review'.passes =>
           \A p \in DOMAIN review'.files \cup DOMAIN MaterialSeal(reading.saw, scope) :
              \/ reading.met.work[p] = reading.saw.work[p]
              \/ p \in Odd \/ RenamedUnseen(p)
              \/ p \in Ignored /\ TreeOf(reading.saw, reading.saw.head)[p] = Gone
              \/ reading.met.head # reading.saw.head
              \/ scope = Paths]_vars
  BY SeenStep
<1>2. QED
  BY <1>1, ReceiptsInductive, PTL DEF Spec, MovingCodeIsSeen
=============================================================================
