---------------------------- MODULE GitWorkspace ----------------------------
(***************************************************************************)
(* What scafld reads out of a Git repository: internal/adapters/git, with  *)
(* the comparisons of internal/core/workspace, core/reviewscope and        *)
(* core/reviewevidence that are made on it.  A repository is a record      *)
(*                                                                         *)
(*   commits   the commits, oldest first, each with its tree and parent    *)
(*   head      the commit HEAD names, 0 while there is none                *)
(*   index     the staged files        work    the files on disk           *)
(*   flags     files whose index entry is assume-unchanged or              *)
(*             skip-worktree                                               *)
(*                                                                         *)
(* A tree maps every path to its bytes, or to Gone.  Digests are their     *)
(* bytes.  A scope is the set of the paths that its entries reach: an      *)
(* entry is a directory or a file.  The one that reaches every path is the *)
(* scope ".".  Nested repositories, modes and symbolic links are left out. *)
(***************************************************************************)
EXTENDS FiniteSetsExt, Integers, Sequences

CONSTANTS
    Paths,      \* repository-relative file names
    Bytes,      \* what a file can hold
    Gone,       \* no file
    Runtime,    \* paths under .scafld/specs, runs, reviews and receipts
    Ignored,    \* paths an ignore pattern matches
    Odd,        \* paths whose name Git quotes: spaces, non-ASCII characters
    Pinned,     \* agent instruction files and the local configuration
    Failed,     \* a Git command returned an error
    Detected(_, _)  \* Git's own: the renamings it finds from HEAD to the index

ASSUME PathsAssumption ==
    /\ Gone \notin Bytes /\ Failed \notin Bytes \cup {Gone}
    /\ Runtime \cup Ignored \cup Odd \cup Pinned \subseteq Paths
    /\ Paths \cap ({<<p>> : p \in Paths} \cup (Paths \X Paths)) = {}

Trees == [Paths -> Bytes \cup {Gone}]
Bare  == [p \in Paths |-> Gone]

IsPartialTree(f) == DOMAIN f \subseteq Paths /\ f \in [DOMAIN f -> Bytes]

\* An error is no tree, and none of the values that a successful call gives.
ASSUME FailedAssumption ==
    /\ Failed \notin Trees
    /\ \A ps \in SUBSET Paths : Failed \notin [ps -> Bytes]
    /\ \A ps \in SUBSET Paths :
         Failed \notin [base : Nat, head : Nat, digests : [ps -> Bytes],
                       deleted : SUBSET Paths, ignored : SUBSET Paths]

\* What a repository is: every parent is an older commit.
IsRepository(repo) ==
    /\ repo \in [commits : Seq([tree : Trees, parent : Nat]), head : Nat, index : Trees,
                 work : Trees, flags : SUBSET Paths]
    /\ repo.head \in 0 .. Len(repo.commits)
    /\ \A c \in 1 .. Len(repo.commits) : repo.commits[c].parent \in 0 .. (c - 1)

-----------------------------------------------------------------------------
(* Commits. *)

TreeOf(repo, c) == IF c = 0 THEN Bare ELSE repo.commits[c].tree

Ancestors(repo) ==
    LET line[c \in 0 .. Len(repo.commits)] ==
            IF c = 0 THEN {} ELSE {c} \cup line[repo.commits[c].parent]
    IN  line

IsAncestor(repo, c, d) == c \in Ancestors(repo)[d]

\* git merge-base, 0 where the two have no common ancestor
MergeBase(repo, c, d) ==
    LET common == Ancestors(repo)[c] \cap Ancestors(repo)[d]
    IN  IF common = {} THEN 0 ELSE Max(common)

-----------------------------------------------------------------------------
(* The real index, as `git status` shows it. *)

Untracked(repo) == {p \in Paths \ Ignored : repo.index[p] = Gone /\ repo.work[p] # Gone}

IgnoredPaths(repo, scope) ==
    {p \in (scope \cap Ignored) \ Runtime : repo.index[p] = Gone /\ repo.work[p] # Gone}

\* Files that left the index paired with files that came into it.  Git pairs
\* identical ones first, then such as are similar enough: a file that was moved and
\* edited is a renaming too.  Which pairs it makes is Detected, whatever that is; a
\* status that is asked about a scope looks at the files in it only.
Renamings(repo, scope) ==
    LET Within(tree) == [p \in Paths |-> IF p \in scope THEN tree[p] ELSE Gone]
        was == Within(TreeOf(repo, repo.head))
        set == Within(repo.index)
    IN  {r \in Detected(was, set) :
            /\ r \in Paths \X Paths
            /\ was[r[1]] # Gone /\ set[r[1]] = Gone
            /\ was[r[2]] = Gone /\ set[r[2]] # Gone}

\* the two letters of a line of `git status`
StatusCode(repo, p) ==
    LET was == TreeOf(repo, repo.head)[p]
        set == repo.index[p]
        now == IF p \in repo.flags THEN set ELSE repo.work[p]
        Letter(old, new) == IF old = new THEN " " ELSE IF new = Gone THEN "D"
                            ELSE IF old = Gone THEN "A" ELSE "M"
    IN  IF p \in Untracked(repo) THEN <<"?", "?">>
        ELSE <<Letter(was, set), IF set = Gone THEN " " ELSE Letter(set, now)>>

Listed(repo) == {p \in Paths : StatusCode(repo, p) # <<" ", " ">>}

Flagged(repo, scope) == (repo.flags \cap scope) \ Runtime # {}

\* the files that share a line: of an old name that is on disk again there is a
\* second line, of an untracked file
Renamed(repo, scope) == UNION {{r[1], r[2]} : r \in Renamings(repo, scope)} \ Untracked(repo)

OwnLines(repo) == Listed(repo) \ (Renamed(repo, Paths) \cup Runtime)

\* the digest of the file that the text of a line names
FingerprintOf(repo, p) == IF p \in Odd THEN Gone ELSE repo.work[p]

(***************************************************************************)
(* Status, the fingerprints of the changed files: `git status` without -z, *)
(* so a renaming is one line that names two paths and an odd name comes in *)
(* quotes.  The text after the letters is then looked up as a file: where  *)
(* it names none, the fingerprint is "deleted" whatever the file holds.    *)
(***************************************************************************)
Fingerprints(repo) ==
    LET Line(p) == [path |-> IF p \in Odd THEN <<p>> ELSE p,
                    code |-> StatusCode(repo, p), print |-> FingerprintOf(repo, p)]
    IN  {Line(p) : p \in OwnLines(repo)}
        \cup {[path |-> r, print |-> Gone, code |-> <<"R", StatusCode(repo, r[2])[2]>>] :
                r \in {r \in Renamings(repo, Paths) : r[1] \notin Runtime}}

\* ExactStatus: any difference of the checkout from HEAD, ignored files included
ExactlyHead(repo) ==
    repo.flags = {} /\ repo.index = TreeOf(repo, repo.head) /\ repo.work = repo.index

-----------------------------------------------------------------------------
(* Trees written through a temporary index that starts as HEAD. *)

\* Mutant: the tree is written from the index as it is staged.
TemporaryTreeStaged(repo) ==
    [p \in Paths |-> IF p \in Runtime THEN Gone ELSE repo.index[p]]

\* git add of every path: a file HEAD lacks is taken unless it is ignored
TemporaryTree(repo) ==
    LET was == TreeOf(repo, repo.head)
    IN  [p \in Paths |-> IF p \in Runtime \/ (was[p] = Gone /\ p \in Ignored)
                         THEN Gone ELSE repo.work[p]]

\* git add of the paths alone: it fails on an ignored or unknown path
ScopedTree(repo, paths) ==
    LET was == TreeOf(repo, repo.head)
    IN  IF \E p \in paths : was[p] = Gone /\ (repo.work[p] = Gone \/ p \in Ignored)
        THEN Failed
        ELSE [p \in Paths |-> IF p \in paths THEN repo.work[p] ELSE was[p]]

RefTree(repo, c) == [p \in Paths |-> IF p \in Runtime THEN Gone ELSE TreeOf(repo, c)[p]]

FileDigests(tree, scope) ==
    [p \in {p \in scope \ Runtime : tree[p] # Gone} |-> tree[p]]

DeletedPaths(repo, base, tree, scope) ==
    IF base = 0 THEN {}
    ELSE {p \in scope \ Runtime : TreeOf(repo, base)[p] # Gone /\ tree[p] = Gone}

Facts(repo, base, head, tree, scope, ignored) ==
    [base |-> base, head |-> head, digests |-> FileDigests(tree, scope),
     deleted |-> DeletedPaths(repo, base, tree, scope), ignored |-> ignored]

\* the commit-free snapshot of the checkout, against baseRef or HEAD
Snapshot(repo, scope, baseRef) ==
    LET base == IF repo.head = 0 \/ baseRef = 0 THEN repo.head
                ELSE MergeBase(repo, baseRef, repo.head)
    IN  IF scope = {} \/ Flagged(repo, scope) \/ (repo.head # 0 /\ base = 0) THEN Failed
        ELSE Facts(repo, base, repo.head, TemporaryTree(repo), scope,
                   IgnoredPaths(repo, scope))

\* the snapshot of a commit: nothing on disk is read
SnapshotRef(repo, scope, baseRef, c) ==
    LET base == IF baseRef = 0 THEN c ELSE MergeBase(repo, baseRef, c)
    IN  IF scope = {} \/ base = 0 THEN Failed
        ELSE Facts(repo, base, c, RefTree(repo, c), scope, {})

MaterialSeal(repo, scope) ==
    LET snap == Snapshot(repo, scope, 0)
    IN  IF snap = Failed THEN Failed ELSE snap.digests

\* the cheap seal of `scafld status`: only the paths git status lists are added,
\* and of a renaming only the new one
StatusMaterialSeal(repo, scope) ==
    LET old == {r[1] : r \in Renamings(repo, scope)} \ Untracked(repo)
        tree == ScopedTree(repo, (Listed(repo) \cap scope) \ (old \cup Runtime))
    IN  IF scope = {} \/ Flagged(repo, scope) \/ tree = Failed THEN Failed
        ELSE FileDigests(tree, scope)

-----------------------------------------------------------------------------
(* Two sets of fingerprints compared. *)

\* Mutant: what was clean before is not compared.
MutatedOnlyListed(before, after) == {x.path : x \in before \ after}

Mutated(before, after) ==
    {x.path : x \in (before \ after) \cup (after \ before)}

(***************************************************************************)
(* core/workspace.PathInScope on the path of a fingerprint.  A quoted name *)
(* is beneath no prefix.  The text "old -> new" of a renaming is beneath a *)
(* directory that holds the old name, but it is not equal to an entry that *)
(* names the old file, so not in scope where that entry stands "alone".    *)
(* Unlike in the Git adapter nothing is in ".".                            *)
(***************************************************************************)
InScope(path, scope, alone) ==
    /\ scope # Paths
    /\ \/ path \in scope
       \/ \E p \in scope \ alone, q \in Paths : path = <<p, q>>

\* what the read-only guard of a review holds against the provider
BlockingMutations(before, after, scope, alone, specPath) ==
    {m \in Mutated(before, after) :
        \/ m = specPath
        \/ m \notin Runtime /\ (scope = {} \/ InScope(m, scope, alone))}
=============================================================================
