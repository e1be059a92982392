------------------------------- MODULE Matrix -------------------------------
(***************************************************************************)
(* How a suite's directory becomes its jobs: _build_matrix turns the       *)
(* directory into a matrix (matrix.py), and index(m, i) is the set of yaml *)
(* fragments of the i-th job.  A fragment is a number; the order of the    *)
(* numbers is the order of the paths.                                      *)
(***************************************************************************)
EXTENDS Naturals, Sequences, FiniteSets
LOCAL INSTANCE SequencesExt

CONSTANT Draw(_, _, _)  \* random.randint(0, n - 1): of the seed, where, and n

(* Directories.  `kind` is what its magic file makes of a directory: "list", "product"
   ("%", with its divisions), "concat" ("+") or "random" ("$"); "nothing" is a
   hidden, disabled or empty one. *)
File(leaf)            == [kind |-> "file", leaf |-> leaf]
Dir(kind, kids)       == [kind |-> kind, kids |-> kids, divisions |-> 1]
Nested(kids, d)       == [kind |-> "product", kids |-> kids, divisions |-> d]
Nothing               == [kind |-> "nothing"]

\* The sequence of F(x) for every x of s.
Map(F(_), s)     == FoldLeft(LAMBDA seen, x: Append(seen, F(x)), <<>>, s)
Largest(F(_), s) == Max({F(s[k]): k \in DOMAIN s})
ceil(a, b)       == (a + b - 1) \div b

RECURSIVE gcd(_, _)
gcd(a, b) == IF b = 0 THEN a ELSE gcd(b, a % b)
lcm(a, b) == (a * b) \div gcd(a, b)

size(m)       == m.size
minscanlen(m) == m.scan
cyclicity(m)  == m.size \div m.scan

(* The classes of matrix.py. *)
Base(leaf)      == [op |-> "base", leaf |-> leaf, size |-> 1, scan |-> 1]
Cycle(num, mat) == [op |-> "cycle", mat |-> mat, size |-> mat.size * num, scan |-> mat.scan]
Subset(mat, divisions, which) ==
  [op |-> "subset", mat |-> mat, which |-> which,
   size |-> mat.size \div divisions, scan |-> mat.scan]
Concat(submats) == [op |-> "concat", submats |-> submats, size |-> 1, scan |-> 1]
PickRandom(submats, seed) ==
  [op |-> "random", submats |-> submats, seed |-> seed, size |-> 1, scan |-> 1]

\* sorted by size and then by position, the smallest first
BySize(submats) ==
  LET Before(a, b) == \/ submats[a].size < submats[b].size
                      \/ submats[a].size = submats[b].size /\ a < b
      Ranked(r) == CHOOSE a \in DOMAIN submats: Cardinality({b \in DOMAIN submats: Before(b, a)}) = r - 1
  IN Map(LAMBDA r: submats[Ranked(r)], [r \in DOMAIN submats |-> r])

SizeOfProduct(submats) == FoldLeft(LAMBDA n, m: n * m.size, 1, submats)

\* Mutant of product_scan: one item less, as if the facets moved in step.
product_scan_tight(submats) == Largest(minscanlen, submats) - 1
product_scan(submats) == Largest(minscanlen, submats) + 1
Product(submats) ==
  LET all == SizeOfProduct(submats)
      one == product_scan(submats)
  IN [op |-> "product", submats |-> BySize(submats), size |-> all,
      scan |-> IF one > all THEN all ELSE one]

(* Sum spreads the items of each submatrix evenly: item si of submatrix k stands at
   offset + si * multiple, and the items are taken in this order, off a heap. *)
LcmOf(submats) == FoldLeft(LAMBDA n, m: lcm(n, m.size), 1, submats)
pseudo_size(submats) == LcmOf(submats) * Len(submats)
multiple(submats, k) == pseudo_size(submats) \div submats[k].size

pseudo_index(submats, k, si) == (k - 1) + si * multiple(submats, k)

RECURSIVE PopOff(_, _, _)
PopOff(submats, seen, n) ==   \* seen[k]: how many items of submatrix k are out
  IF n = 0 THEN <<>>
  ELSE LET At(k) == pseudo_index(submats, k, seen[k])
           next  == CHOOSE k \in DOMAIN submats: \A j \in DOMAIN submats: At(k) <= At(j)
       IN <<[sub |-> next, si |-> seen[next]]>>
            \o PopOff(submats, [seen EXCEPT ![next] = @ + 1], n - 1)

\* How many items stand at pi or before.
UpTo(submats, pi) ==
  FoldLeft(LAMBDA n, k: n + (IF pi < k - 1 THEN 0 ELSE (pi - (k - 1)) \div multiple(submats, k) + 1),
           0, [k \in DOMAIN submats |-> k])

sum_scan(submats) ==
  UpTo(submats, Max({submats[k].scan * multiple(submats, k): k \in DOMAIN submats})) - 1

Sum(submats) ==
  LET all == FoldLeft(LAMBDA n, m: n + m.size, 0, submats)
  IN [op |-> "sum", submats |-> submats, size |-> all, scan |-> sum_scan(submats),
      order |-> PopOff(submats, [k \in DOMAIN submats |-> 0], all)]

(* index(): the assert in Subset.index fails as {AssertionError}. *)
AssertionError == 0

\* _index walks along both dimensions at once, and steps aside when it is back.
\* Mutant of step_aside: as if the sizes were always relatively prime.
step_aside_never(i, lsize, rsize) == 0
step_aside(i, lsize, rsize) == LET cycles == gcd(rsize, lsize)
                               IN (i \div ((rsize * lsize) \div cycles)) % cycles

RECURSIVE index(_, _), _index(_, _)
_index(i, submats) ==
  IF Len(submats) = 1 THEN index(Head(submats), i)
  ELSE LET lmat == Head(submats)
           off  == step_aside(i, lmat.size, SizeOfProduct(Tail(submats)))
       \* Python's % of a negative number is that of the positive one it is congruent to
       IN index(lmat, (i + lmat.size * off - off) % lmat.size) \cup _index(i, Tail(submats))

SubsetIndex(m, i) == IF i + m.which * m.size < m.mat.size
                     THEN index(m.mat, i + m.which * m.size) ELSE {AssertionError}

index(m, i) ==
  CASE m.op = "base"    -> {m.leaf}
    [] m.op = "cycle"   -> index(m.mat, i % m.mat.size)
    [] m.op = "subset"  -> SubsetIndex(m, i)
    [] m.op = "product" -> _index(i, m.submats)
    [] m.op = "concat"  -> UNION UNION {{index(s, k): k \in 0..(s.size - 1)}: s \in ToSet(m.submats)}
    [] m.op = "random"  -> LET indx == Draw(m.seed, i, Len(m.submats))
                           IN index(m.submats[indx + 1], indx)
    [] m.op = "sum"     -> LET at == m.order[(i % m.size) + 1]
                           IN index(m.submats[at.sub], at.si)

(* _build_matrix: a subset of N pieces wants a matrix that can be cut into N good ones,
   so what is too small for that is repeated. *)
Repeated(mat, minc) ==
  IF cyclicity(mat) < minc THEN Cycle(ceil(minc, cyclicity(mat)), mat) ELSE mat

Submats(kids) == SelectSeq(kids, LAMBDA d: d.kind # "nothing")

\* below a product nothing is repeated
nested_minc == 0

RECURSIVE _build_matrix(_, _, _, _)
_build_matrix(dir, mincyclicity, no_nested_subset, seed) ==
  LET Below(minc)     == Map(LAMBDA d: _build_matrix(d, minc, no_nested_subset, seed), Submats(dir.kids))
      Spread(submats) == Map(LAMBDA m: Repeated(m, mincyclicity), submats)
      divisions       == IF no_nested_subset THEN 1 ELSE dir.divisions
  IN CASE dir.kind = "file"    -> Base(dir.leaf)
       [] dir.kind = "concat"  -> Concat(Below(mincyclicity))
       [] dir.kind = "random"  -> PickRandom(Below(mincyclicity), seed)
       [] dir.kind = "list"    -> Sum(Spread(Below(mincyclicity)))
       [] dir.kind = "product" ->
            LET mat == Repeated(Product(Below(nested_minc)), mincyclicity * divisions)
            IN IF divisions > 1 THEN Subset(mat, divisions, Draw(seed, 0, divisions)) ELSE mat

_get_matrix(dir, subset, no_nested_subset, seed) ==
  IF subset[2] > 1
  THEN Subset(_build_matrix(dir, subset[2], no_nested_subset, seed), subset[2], subset[1])
  ELSE _build_matrix(dir, 0, no_nested_subset, seed)

build_matrix(dir, subset, no_nested_subset, seed) ==
  LET mat == _get_matrix(dir, subset, no_nested_subset, seed)
  IN [i \in 1..mat.size |-> index(mat, i - 1)]

(* What the jobs of a directory are, said without indices. *)
RECURSIVE Facets(_), Combinations(_)
Facets(dir) == CASE dir.kind = "file"    -> {dir.leaf}
                 [] dir.kind = "nothing" -> {}
                 [] OTHER                -> UNION {Facets(d): d \in ToSet(dir.kids)}

Combinations(dir) ==
  LET kids == {d \in ToSet(dir.kids): d.kind # "nothing"}
  IN CASE dir.kind = "file"    -> {{dir.leaf}}
       [] dir.kind = "list"    -> UNION {Combinations(d): d \in kids}
       [] dir.kind = "concat"  -> {UNION UNION {Combinations(d): d \in kids}}
       [] dir.kind = "product" -> {UNION {f[d]: d \in kids}: f \in {g \in [kids -> UNION {Combinations(d): d \in kids}]:
                                                            \A d \in kids: g[d] \in Combinations(d)}}

RECURSIVE IsPlain(_)   \* nothing random in it
IsPlain(dir) == \/ dir.kind \in {"file", "nothing"}
                \/ /\ dir.kind # "random" /\ dir.divisions = 1
                   /\ \A k \in DOMAIN dir.kids: IsPlain(dir.kids[k])
=============================================================================
