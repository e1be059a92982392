--------------------------- MODULE JobTasks_proofs ---------------------------
(***************************************************************************)
(* Proofs about JobTasks.  Programs nest: a command has a handler, a branch*)
(* two programs, a parallel command one for each node.  What all commands  *)
(* of a program spare is said with a set of commands that is closed under  *)
(* this nesting, so that no induction on programs is needed.               *)
(***************************************************************************)
EXTENDS JobTasks, FiniteSetTheorems, SequenceTheorems, TLAPS

-----------------------------------------------------------------------------
(* Programs that spare the evidence                                        *)

\* Commands that only look at marks, or that copy them.
Copies == Reads \cup {"pull"}

Fields == {"how", "on", "puts", "drops", "as", "quiet", "handler", "yes", "no"}

\* A command that puts no mark of `puts`, drops none of `drops`, and makes no job pass.
Fits(c, puts, drops) ==
  /\ DOMAIN c = Fields
  /\ \A m \in drops : m \notin c.drops
  /\ c.how \notin Copies => \A m \in puts : m \notin c.puts
  /\ c.as # "pass"

\* Commands that fit and lead to commands of C only, or to a greenlet of `sides`.
Closed(C, puts, drops, sides) ==
  \A c \in C :
    /\ Fits(c, puts, drops)
    /\ c.handler \in Seq(C)
    /\ c.how = "branch" => c.yes \in Seq(C) /\ c.no \in Seq(C)
    /\ c.how = "parallel" => \A n \in Nodes : c.yes[n] \in sides

Spares(p, puts, drops, sides) == \E C : Closed(C, puts, drops, sides) /\ p \in Seq(C)

\* The evidence, and what it takes to find it.
Traces == Evidence \cup {"coredump_dir", "core_pattern", "sysctl_line", "kernel_bug", "denial"}

\* A program that puts no evidence, drops no traces, and starts no greenlets.
Mute(p) == Spares(p, Evidence, Traces, {})

\* A program that puts and drops none of these marks; its greenlets, which start
\* none, put none of `puts` and drop none of `drops`.
Nests(p, puts, drops, ownputs, owndrops) ==
  \E D : Closed(D, puts, drops, {}) /\ Spares(p, ownputs, owndrops, Seq(D))

\* A program that drops none of the marks, and whose greenlets are mute.
Gentle(p, marks) == Nests(p, Evidence, Traces, {}, marks)

\* A program that drops no traces.
Tame(p) == Gentle(p, Traces)

\* The same of programs that moreover start no reboot, and drop no kernel.
Unput     == Evidence \cup {"rebooting"}
Undropped == Traces \cup {"running_new"}
Still(p) == Spares(p, Unput, Undropped, {})
Calm(p, marks) == Nests(p, Unput, Undropped, {"rebooting"}, marks \cup {"running_new"})
Serene(p) == Calm(p, Traces)

\* Sets of commands that are closed may be joined.
LEMMA ClosedUnion ==
  ASSUME NEW C, NEW D, NEW puts, NEW drops, NEW sides, Closed(C, puts, drops, sides), Closed(D, puts, drops, sides)
  PROVE  Closed(C \cup D, puts, drops, sides)
  <1>1. \A p : p \in Seq(C) \/ p \in Seq(D) => p \in Seq(C \cup D)
    BY SeqMonotonic
  <1> QED BY <1>1 DEF Closed

\* The ways to make programs: what is spared by the parts is spared by the whole.
LEMMA SparesEmpty ==
  ASSUME NEW puts, NEW drops, NEW sides
  PROVE  Spares(<<>>, puts, drops, sides)
  <1>1. Closed({}, puts, drops, sides)
    BY DEF Closed
  <1> QED BY <1>1 DEF Spares

\* One program after the other.
LEMMA SparesConcat ==
  ASSUME NEW p, NEW q, NEW puts, NEW drops, NEW sides, Spares(p, puts, drops, sides), Spares(q, puts, drops, sides)
  PROVE  Spares(p \o q, puts, drops, sides)
  <1>1. PICK C : Closed(C, puts, drops, sides) /\ p \in Seq(C)
    BY DEF Spares
  <1>2. PICK D : Closed(D, puts, drops, sides) /\ q \in Seq(D)
    BY DEF Spares
  <1>3. Closed(C \cup D, puts, drops, sides)
    BY <1>1, <1>2, ClosedUnion
  <1>4. p \in Seq(C \cup D) /\ q \in Seq(C \cup D)
    BY <1>1, <1>2, SeqMonotonic
  <1>5. p \o q \in Seq(C \cup D)
    BY <1>4, ConcatProperties
  <1> QED BY <1>3, <1>5 DEF Spares

\* One command, with its handler and what it may go on with.
LEMMA SparesOne ==
  ASSUME NEW c, NEW puts, NEW drops, NEW sides, Fits(c, puts, drops),
         Spares(c.handler, puts, drops, sides),
         c.how = "branch" => Spares(c.yes, puts, drops, sides) /\ Spares(c.no, puts, drops, sides),
         c.how = "parallel" => \A n \in Nodes : c.yes[n] \in sides
  PROVE  Spares(<<c>>, puts, drops, sides)
  <1>1. PICK H : Closed(H, puts, drops, sides) /\ c.handler \in Seq(H)
    BY DEF Spares
  <1>2. PICK Y : Closed(Y, puts, drops, sides) /\ (c.how = "branch" => c.yes \in Seq(Y))
    <2>1. CASE c.how = "branch"
      BY <2>1 DEF Spares
    <2>2. CASE c.how # "branch"
      BY <2>2, <1>1
    <2> QED BY <2>1, <2>2
  <1>3. PICK N : Closed(N, puts, drops, sides) /\ (c.how = "branch" => c.no \in Seq(N))
    <2>1. CASE c.how = "branch"
      BY <2>1 DEF Spares
    <2>2. CASE c.how # "branch"
      BY <2>2, <1>1
    <2> QED BY <2>1, <2>2
  <1> DEFINE B == H \cup (Y \cup N)
             C == B \cup {c}
  <1>4. Closed(B, puts, drops, sides)
    BY <1>1, <1>2, <1>3, ClosedUnion
  <1>5. /\ c.handler \in Seq(C)
        /\ c.how = "branch" => c.yes \in Seq(C) /\ c.no \in Seq(C)
    BY <1>1, <1>2, <1>3, SeqMonotonic
  <1>6. \A p : p \in Seq(B) => p \in Seq(C)
    BY SeqMonotonic
  <1> HIDE DEF B
  <1>7. Closed(C, puts, drops, sides)
    BY <1>4, <1>5, <1>6 DEF Closed
  <1>8. <<c>> \in Seq(C)
    OBVIOUS
  <1> QED BY <1>7, <1>8 DEF Spares

\* A program whose failures are ignored.
LEMMA SparesQuiet ==
  ASSUME NEW p, NEW puts, NEW drops, NEW sides, Spares(p, puts, drops, sides)
  PROVE  Spares(Quiet(p), puts, drops, sides)
  <1>1. PICK C : Closed(C, puts, drops, sides) /\ p \in Seq(C)
    BY DEF Spares
  <1> DEFINE quiet(c) == [c EXCEPT !.quiet = TRUE]
             D == C \cup {quiet(c) : c \in C}
  <1>2. \A q : q \in Seq(C) => q \in Seq(D)
    BY SeqMonotonic
  <1>3. \A c \in C : /\ DOMAIN quiet(c) = Fields
                     /\ quiet(c).how = c.how /\ quiet(c).puts = c.puts /\ quiet(c).drops = c.drops
                     /\ quiet(c).as = c.as /\ quiet(c).handler = c.handler
                     /\ quiet(c).yes = c.yes /\ quiet(c).no = c.no
    BY <1>1 DEF Closed, Fits, Fields
  <1>4. Closed(D, puts, drops, sides)
    <2> SUFFICES ASSUME NEW d \in D
                 PROVE  /\ Fits(d, puts, drops)
                        /\ d.handler \in Seq(D)
                        /\ d.how = "branch" => d.yes \in Seq(D) /\ d.no \in Seq(D)
                        /\ d.how = "parallel" => \A n \in Nodes : d.yes[n] \in sides
      BY DEF Closed
    <2>1. CASE d \in C
      BY <2>1, <1>1, <1>2 DEF Closed
    <2>2. CASE d \in {quiet(c) : c \in C}
      <3>1. PICK c \in C : d = quiet(c)
        BY <2>2
      <3> QED BY <3>1, <1>1, <1>2, <1>3 DEF Closed, Fits
    <2> QED BY <2>1, <2>2
  <1>5. Quiet(p) \in Seq(D)
    BY <1>1 DEF Quiet
  <1> QED BY <1>4, <1>5 DEF Spares

\* A program with a handler.
LEMMA SparesTry ==
  ASSUME NEW p, NEW h, NEW puts, NEW drops, NEW sides, Spares(p, puts, drops, sides), Spares(h, puts, drops, sides)
  PROVE  Spares(Try(p, h), puts, drops, sides)
  <1>1. PICK C : Closed(C, puts, drops, sides) /\ p \in Seq(C)
    BY DEF Spares
  <1>2. PICK H : Closed(H, puts, drops, sides) /\ h \in Seq(H)
    BY DEF Spares
  <1> DEFINE B == C \cup H
             handled(c) == [c EXCEPT !.handler = @ \o h]
             D == B \cup {handled(c) : c \in C}
  <1>3. Closed(B, puts, drops, sides)
    BY <1>1, <1>2, ClosedUnion
  <1>4. \A q : q \in Seq(C) \/ q \in Seq(H) \/ q \in Seq(B) => q \in Seq(D)
    BY SeqMonotonic
  <1>5. \A c \in C : /\ DOMAIN handled(c) = Fields
                     /\ handled(c).how = c.how /\ handled(c).puts = c.puts /\ handled(c).drops = c.drops
                     /\ handled(c).as = c.as /\ handled(c).handler = c.handler \o h
                     /\ handled(c).yes = c.yes /\ handled(c).no = c.no
    BY <1>1 DEF Closed, Fits, Fields
  <1>6. \A c \in C : c.handler \o h \in Seq(D)
    <2> TAKE c \in C
    <2>1. c.handler \in Seq(D) /\ h \in Seq(D)
      BY <1>1, <1>2, <1>4 DEF Closed
    <2> QED BY <2>1, ConcatProperties
  <1>7. Closed(D, puts, drops, sides)
    <2> SUFFICES ASSUME NEW d \in D
                 PROVE  /\ Fits(d, puts, drops)
                        /\ d.handler \in Seq(D)
                        /\ d.how = "branch" => d.yes \in Seq(D) /\ d.no \in Seq(D)
                        /\ d.how = "parallel" => \A n \in Nodes : d.yes[n] \in sides
      BY DEF Closed
    <2>1. CASE d \in B
      BY <2>1, <1>3, <1>4 DEF Closed
    <2>2. CASE d \in {handled(c) : c \in C}
      <3>1. PICK c \in C : d = handled(c)
        BY <2>2
      <3> QED BY <3>1, <1>1, <1>4, <1>5, <1>6 DEF Closed, Fits
    <2> QED BY <2>1, <2>2
  <1>8. Try(p, h) \in Seq(D)
    BY <1>1 DEF Try
  <1> QED BY <1>7, <1>8 DEF Spares

\* Every set of numbers has a least one, which stands in for induction.
LEMMA LeastNat ==
  ASSUME NEW S, S \subseteq Nat, S # {}
  PROVE  \E n \in S : \A m \in S : n <= m
  <1>1. PICK n \in S : \A m \in S : ~(<<m, n>> \in OpToRel(<, Nat))
    BY NatLessThanWellFounded, WFMin
  <1>2. \A m \in S : ~(m < n)
    BY <1>1 DEF OpToRel
  <1> QED BY <1>2

\* What FlattenSeq builds from the first sequences of ss, for each number of them up to last.
Flattens(f, ss, last) ==
  f = [i \in 1..last |-> IF i = 1 THEN ss[i] ELSE f[i - 1] \o ss[i]]

\* There is such a function, for every sequence of sequences.
LEMMA FlattensExists ==
  ASSUME NEW ss, NEW last \in Nat
  PROVE  \E f : Flattens(f, ss, last)
  <1> DEFINE Bad == {n \in Nat : ~\E f : Flattens(f, ss, n)}
  <1> SUFFICES ASSUME Bad # {} PROVE FALSE
    OBVIOUS
  <1>1. PICK n \in Bad : \A m \in Bad : n <= m
    <2> HIDE DEF Bad
    <2> QED BY LeastNat, Bad \subseteq Nat DEF Bad
  <1>2. CASE n = 0
    <2>1. Flattens([i \in 1..0 |-> <<>>], ss, 0)
      BY DEF Flattens
    <2> QED BY <1>1, <1>2, <2>1
  <1>3. CASE n # 0
    <2>1. n - 1 \in Nat /\ n \in Nat /\ ~(n <= n - 1)
      BY <1>1, <1>3
    <2>2. PICK g : Flattens(g, ss, n - 1)
      BY <1>1, <2>1
    <2> DEFINE f == [k \in 1..n |-> IF k = n THEN IF n = 1 THEN ss[n] ELSE g[n - 1] \o ss[n] ELSE g[k]]
    <2>3. \A k \in 1..(n - 1) : f[k] = g[k] /\ k # n
      BY <2>1
    <2>4. \A k \in 1..n : f[k] = IF k = 1 THEN ss[k] ELSE f[k - 1] \o ss[k]
      <3> TAKE k \in 1..n
      <3>1. CASE k = n
        <4>1. f[n] = IF n = 1 THEN ss[n] ELSE g[n - 1] \o ss[n]
          BY <2>1, <1>3
        <4>2. n # 1 => f[n - 1] = g[n - 1]
          BY <2>1, <2>3
        <4> HIDE DEF f
        <4> QED BY <3>1, <4>1, <4>2
      <3>2. CASE k # n
        <4>1. k \in 1..(n - 1) /\ (k # 1 => k - 1 \in 1..(n - 1))
          BY <3>2, <2>1
        <4>2. g[k] = IF k = 1 THEN ss[k] ELSE g[k - 1] \o ss[k]
          <5> HIDE DEF f
          <5> QED BY <2>2, <4>1 DEF Flattens
        <4> HIDE DEF f
        <4> QED BY <4>1, <4>2, <2>3
      <3> QED BY <3>1, <3>2
    <2>5. Flattens(f, ss, n)
      <3>1. f = [k \in 1..n |-> f[k]]
        OBVIOUS
      <3> HIDE DEF f
      <3> QED BY <2>4, <3>1 DEF Flattens
    <2> QED BY <1>1, <2>5
  <1> QED BY <1>2, <1>3

\* FlattenSeq is the last value of one.
LEMMA FlattenSeqIs ==
  ASSUME NEW ss, NEW last \in Nat, last # 0, Len(ss) = last
  PROVE  \E f : /\ FlattenSeq(ss) = f[last]
                /\ \A i \in 1..last : f[i] = IF i = 1 THEN ss[i] ELSE f[i - 1] \o ss[i]
  <1> DEFINE F == CHOOSE f : Flattens(f, ss, last)
  <1>1. Flattens(F, ss, last)
    BY FlattensExists
  <1>2. FlattenSeq(ss) = F[last]
    BY DEF FlattenSeq, Flattens
  <1>3. \A i \in 1..last : F[i] = IF i = 1 THEN ss[i] ELSE F[i - 1] \o ss[i]
    <2> HIDE DEF F
    <2> QED BY <1>1 DEF Flattens
  <1> QED BY <1>2, <1>3

\* The programs of a loop, one after the other.
LEMMA SparesFlatten ==
  ASSUME NEW ss, NEW last \in Nat, ss = [i \in 1..last |-> ss[i]], NEW puts, NEW drops, NEW sides,
         \A i \in 1..last : Spares(ss[i], puts, drops, sides)
  PROVE  Spares(FlattenSeq(ss), puts, drops, sides)
  <1>0. Len(ss) = last
    OBVIOUS
  <1>1. CASE last = 0
    <2>1. FlattenSeq(ss) = <<>>
      BY <1>0, <1>1 DEF FlattenSeq
    <2> QED BY <2>1, SparesEmpty
  <1>2. CASE last # 0
    <2>1. PICK f : /\ FlattenSeq(ss) = f[last]
                   /\ \A i \in 1..last : f[i] = IF i = 1 THEN ss[i] ELSE f[i - 1] \o ss[i]
      BY <1>0, <1>2, FlattenSeqIs
    <2> DEFINE Bad == {i \in 1..last : ~Spares(f[i], puts, drops, sides)}
    <2>2. SUFFICES ASSUME Bad # {} PROVE FALSE
      BY <2>1, <1>2
    <2>3. PICK i \in Bad : \A m \in Bad : i <= m
      <3> HIDE DEF Bad
      <3> QED BY <2>2, LeastNat, Bad \subseteq Nat DEF Bad
    <2>4. CASE i = 1
      BY <2>1, <2>3, <2>4
    <2>5. CASE i # 1
      <3>1. i \in 1..last /\ i - 1 \in 1..last /\ ~(i <= i - 1)
        BY <2>3, <2>5
      <3>2. Spares(f[i - 1], puts, drops, sides)
        BY <2>3, <3>1
      <3>3. f[i] = f[i - 1] \o ss[i]
        BY <2>1, <2>5, <3>1
      <3>4. Spares(f[i], puts, drops, sides)
        BY <3>1, <3>2, <3>3, SparesConcat
      <3> QED BY <2>3, <3>4
    <2> QED BY <2>4, <2>5
  <1> QED BY <1>1, <1>2

\* More may be spared, and more programs be greenlets.
LEMMA SparesMore ==
  ASSUME NEW p, NEW puts, NEW drops, NEW sides, NEW less, NEW fewer, NEW more, Spares(p, puts, drops, sides),
         less \subseteq puts, fewer \subseteq drops, sides \subseteq more
  PROVE  Spares(p, less, fewer, more)
  BY DEF Spares, Closed, Fits

-----------------------------------------------------------------------------
(* Mute and still programs                                                 *)

\* What the lemmas above say of mute programs.
LEMMA MuteEmpty == Mute(<<>>)
  BY SparesEmpty DEF Mute

LEMMA MuteConcat ==
  ASSUME NEW p, NEW q, Mute(p), Mute(q)
  PROVE  Mute(p \o q)
  BY SparesConcat DEF Mute

LEMMA MuteTry ==
  ASSUME NEW p, NEW h, Mute(p), Mute(h)
  PROVE  Mute(Try(p, h))
  BY SparesTry DEF Mute

LEMMA MuteBranch ==
  ASSUME NEW S, NEW marks, NEW yes, NEW no, Mute(yes), Mute(no)
  PROVE  Mute(Branch(S, marks, yes, no))
  BY SparesOne, SparesEmpty DEF Mute, Branch, Command, Fits, Fields, Copies, Reads

LEMMA MuteReboot ==
  ASSUME NEW S
  PROVE  Mute(Reboot(S))
  BY SparesOne, SparesEmpty DEF Mute, Reboot, Command, Fits, Fields, Evidence

\* A still program is mute.
LEMMA MuteStill ==
  ASSUME NEW p, Still(p)
  PROVE  Mute(p)
  <1>1. Evidence \subseteq Unput /\ Traces \subseteq Undropped
    BY DEF Unput, Undropped
  <1> QED BY <1>1, SparesMore DEF Still, Mute

\* What they say of still programs.
LEMMA StillEmpty == Still(<<>>)
  BY SparesEmpty DEF Still

LEMMA StillConcat ==
  ASSUME NEW p, NEW q, Still(p), Still(q)
  PROVE  Still(p \o q)
  BY SparesConcat DEF Still

LEMMA StillQuiet ==
  ASSUME NEW p, Still(p)
  PROVE  Still(Quiet(p))
  BY SparesQuiet DEF Still

LEMMA StillTry ==
  ASSUME NEW p, NEW h, Still(p), Still(h)
  PROVE  Still(Try(p, h))
  BY SparesTry DEF Still

LEMMA StillBranch ==
  ASSUME NEW S, NEW marks, NEW yes, NEW no, Still(yes), Still(no)
  PROVE  Still(Branch(S, marks, yes, no))
  BY SparesOne, SparesEmpty DEF Still, Branch, Command, Fits, Fields, Copies, Reads

\* What is done on nodes, and what is only looked at.
LEMMA StillRun ==
  ASSUME NEW S, NEW puts, NEW drops, \A e \in Unput : e \notin puts, \A e \in Undropped : e \notin drops
  PROVE  Still(All(S, puts, drops)) /\ Still(Each(S, puts, drops)) /\ Still(Local(puts, drops))
  BY SparesOne, SparesEmpty DEF Still, All, Each, Local, Command, Fits, Fields

LEMMA StillLook ==
  ASSUME NEW S, NEW marks
  PROVE  /\ Still(Pull(S, marks)) /\ Still(Refuse(S, marks)) /\ Still(Require(S, marks))
         /\ Still(Flag(S, marks)) /\ Still(Await(S, marks)) /\ Still(WaitFor(S, marks))
         /\ Still(Search(S, marks, "none")) /\ Still(Search(S, marks, "fail"))
         /\ Still(Raise) /\ Still(SetStatus("dead")) /\ Still(SetStatus("fail"))
  BY SparesOne, SparesEmpty
     DEF Still, Pull, Refuse, Require, Flag, Search, Await, WaitFor, Raise, SetStatus, Command,
         Fits, Fields, Copies, Reads

\* Loops over nodes are finite.
LEMMA NodesCount ==
  ASSUME NEW S \in SUBSET Nodes
  PROVE  Cardinality(S) \in Nat
  BY NodesAssumption, FS_Subset, FS_CardinalityType

\* A loop over nodes.
LEMMA StillForEach ==
  ASSUME NEW S \in SUBSET Nodes, NEW ss, ss = [i \in 1..Cardinality(S) |-> ss[i]],
         \A i \in 1..Cardinality(S) : Still(ss[i])
  PROVE  Still(FlattenSeq(ss))
  BY NodesCount, SparesFlatten DEF Still

-----------------------------------------------------------------------------
(* Programs with greenlets                                                 *)

\* A program that starts no greenlets.
LEMMA NestsPlain ==
  ASSUME NEW p, NEW P, NEW Q, NEW puts, NEW drops, Spares(p, puts, drops, {})
  PROVE  Nests(p, P, Q, puts, drops)
  <1>1. Closed({}, P, Q, {})
    BY DEF Closed
  <1>2. Spares(p, puts, drops, Seq({}))
    BY SparesMore
  <1> QED BY <1>1, <1>2 DEF Nests

\* Less may be asked for, of the greenlets too.
LEMMA NestsMore ==
  ASSUME NEW p, NEW P, NEW Q, NEW puts, NEW drops, Nests(p, P, Q, puts, drops),
         NEW less, NEW fewer, less \subseteq puts, fewer \subseteq drops,
         NEW L, NEW F, L \subseteq P, F \subseteq Q
  PROVE  Nests(p, L, F, less, fewer)
  <1>1. PICK D : Closed(D, P, Q, {}) /\ Spares(p, puts, drops, Seq(D))
    BY DEF Nests
  <1>2. Closed(D, L, F, {})
    BY <1>1 DEF Closed, Fits
  <1>3. Spares(p, less, fewer, Seq(D))
    BY <1>1, SparesMore
  <1> QED BY <1>2, <1>3 DEF Nests

\* Two programs' greenlets are of one set.
LEMMA NestsBoth ==
  ASSUME NEW p, NEW q, NEW P, NEW Q, NEW puts, NEW drops, Nests(p, P, Q, puts, drops), Nests(q, P, Q, puts, drops)
  PROVE  \E D : Closed(D, P, Q, {}) /\ Spares(p, puts, drops, Seq(D)) /\ Spares(q, puts, drops, Seq(D))
  <1>1. PICK D : Closed(D, P, Q, {}) /\ Spares(p, puts, drops, Seq(D))
    BY DEF Nests
  <1>2. PICK E : Closed(E, P, Q, {}) /\ Spares(q, puts, drops, Seq(E))
    BY DEF Nests
  <1>3. Closed(D \cup E, P, Q, {})
    BY <1>1, <1>2, ClosedUnion
  <1>4. Seq(D) \subseteq Seq(D \cup E) /\ Seq(E) \subseteq Seq(D \cup E)
    BY SeqMonotonic
  <1>5. Spares(p, puts, drops, Seq(D \cup E)) /\ Spares(q, puts, drops, Seq(D \cup E))
    BY <1>1, <1>2, <1>4, SparesMore
  <1> QED BY <1>3, <1>5

LEMMA NestsConcat ==
  ASSUME NEW p, NEW q, NEW P, NEW Q, NEW puts, NEW drops, Nests(p, P, Q, puts, drops), Nests(q, P, Q, puts, drops)
  PROVE  Nests(p \o q, P, Q, puts, drops)
  BY NestsBoth, SparesConcat DEF Nests

LEMMA NestsTry ==
  ASSUME NEW p, NEW q, NEW P, NEW Q, NEW puts, NEW drops, Nests(p, P, Q, puts, drops), Nests(q, P, Q, puts, drops)
  PROVE  Nests(Try(p, q), P, Q, puts, drops)
  BY NestsBoth, SparesTry DEF Nests

\* with parallel().
LEMMA NestsParallel ==
  ASSUME NEW programs, NEW P, NEW Q, NEW puts, NEW drops, \A n \in Nodes : Spares(programs[n], P, Q, {})
  PROVE  Nests(Parallel(programs), P, Q, puts, drops)
  <1> DEFINE C(n) == CHOOSE C : Closed(C, P, Q, {}) /\ programs[n] \in Seq(C)
             D == UNION {C(n) : n \in Nodes}
  <1>1. \A n \in Nodes : Closed(C(n), P, Q, {}) /\ programs[n] \in Seq(C(n))
    BY DEF Spares
  <1> HIDE DEF C
  <1>2. \A n \in Nodes : \A p \in Seq(C(n)) : p \in Seq(D)
    <2> TAKE n \in Nodes
    <2>1. C(n) \subseteq D
      OBVIOUS
    <2> QED BY <2>1, SeqMonotonic
  <1>3. Closed(D, P, Q, {})
    BY <1>1, <1>2 DEF Closed
  <1>4. \A n \in Nodes : programs[n] \in Seq(D)
    BY <1>1, <1>2
  <1>5. Spares(Parallel(programs), puts, drops, Seq(D))
    BY <1>4, SparesOne, SparesEmpty DEF Parallel, Command, Fits, Fields
  <1> QED BY <1>3, <1>5 DEF Nests

\* A mute program is tame, a tame one gentle, as is to do nothing.
LEMMA TameMute ==
  ASSUME NEW p, Mute(p)
  PROVE  Tame(p)
  BY SparesMore, NestsPlain DEF Mute, Tame, Gentle

LEMMA GentleTame ==
  ASSUME NEW p, NEW marks \in SUBSET Traces, Tame(p)
  PROVE  Gentle(p, marks)
  BY NestsMore DEF Tame, Gentle

LEMMA GentleEmpty ==
  ASSUME NEW marks
  PROVE  Gentle(<<>>, marks)
  BY SparesEmpty, NestsPlain DEF Gentle

LEMMA TameConcat ==
  ASSUME NEW p, NEW q, Tame(p), Tame(q)
  PROVE  Tame(p \o q)
  BY NestsConcat DEF Tame, Gentle

LEMMA TameParallel ==
  ASSUME NEW programs, \A n \in Nodes : Mute(programs[n])
  PROVE  Tame(Parallel(programs))
  BY NestsParallel DEF Tame, Gentle, Mute

\* A still program is serene, a calm one gentle.
LEMMA SereneStill ==
  ASSUME NEW p, Still(p)
  PROVE  Serene(p)
  <1>1. {"rebooting"} \subseteq Unput /\ Traces \cup {"running_new"} \subseteq Undropped /\ {} \subseteq {}
    BY DEF Unput, Undropped
  <1> QED BY <1>1, SparesMore, NestsPlain DEF Still, Serene, Calm

LEMMA GentleCalm ==
  ASSUME NEW p, NEW marks, Calm(p, marks)
  PROVE  Gentle(p, marks)
  <1>1. Evidence \subseteq Unput /\ Traces \subseteq Undropped
    BY DEF Unput, Undropped
  <1>2. {} \subseteq {"rebooting"} /\ marks \subseteq marks \cup {"running_new"}
    OBVIOUS
  <1> QED BY <1>1, <1>2, NestsMore DEF Calm, Gentle

LEMMA CalmSerene ==
  ASSUME NEW p, NEW marks \in SUBSET Traces, Serene(p)
  PROVE  Calm(p, marks)
  <1>1. marks \cup {"running_new"} \subseteq Traces \cup {"running_new"}
    OBVIOUS
  <1> QED BY <1>1, NestsMore DEF Calm, Serene

LEMMA SereneConcat ==
  ASSUME NEW p, NEW q, Serene(p), Serene(q)
  PROVE  Serene(p \o q)
  BY NestsConcat DEF Serene, Calm

LEMMA SereneTry ==
  ASSUME NEW p, NEW h, Serene(p), Serene(h)
  PROVE  Serene(Try(p, h))
  BY NestsTry DEF Serene, Calm

\* A command may put evidence on nodes.
LEMMA SereneRun ==
  ASSUME NEW S, NEW puts, NEW drops, "rebooting" \notin puts, \A e \in Undropped : e \notin drops
  PROVE  Serene(All(S, puts, drops)) /\ Serene(Each(S, puts, drops))
  <1>1. /\ Spares(All(S, puts, drops), {"rebooting"}, Undropped, {})
        /\ Spares(Each(S, puts, drops), {"rebooting"}, Undropped, {})
    BY SparesOne, SparesEmpty DEF All, Each, Command, Fits, Fields
  <1>2. Undropped = Traces \cup {"running_new"}
    BY DEF Undropped
  <1> QED BY <1>1, <1>2, NestsPlain DEF Serene, Calm

LEMMA SereneParallel ==
  ASSUME NEW programs, \A n \in Nodes : Still(programs[n])
  PROVE  Serene(Parallel(programs))
  BY NestsParallel DEF Serene, Calm, Still

-----------------------------------------------------------------------------
(* The programs of the tasks                                               *)

\* What a job says of its nodes is about its nodes.
LEMMA JobNodes ==
  ASSUME NEW J \in Jobs
  PROVE  /\ J.virtual \in SUBSET Nodes /\ J.clients \in SUBSET Nodes /\ Hosts(J) \in SUBSET Nodes
         /\ Nodes \in SUBSET Nodes
  BY JobsAssumption DEF Hosts

\* The tasks that frame every job.
LEMMA FramingTasks ==
  ASSUME NEW J \in Jobs
  PROVE  /\ Still(check_packages(J)) /\ Still(save_config(J)) /\ Still(check_lock(J)) /\ Still(add_remotes(J))
         /\ Still(connect(J)) /\ Still(push_inventory(J)) /\ Still(serialize_remote_roles(J))
         /\ Still(check_conflict(J)) /\ Still(check_ceph_data(J)) /\ Still(vm_setup(J))
         /\ Still(lock_machines_enter(J)) /\ Still(lock_machines_exit(J))
         /\ Still(base_enter(J)) /\ Still(base_exit(J)) /\ Still(archive_enter(J)) /\ Still(archive_upload_exit(J))
         /\ Still(coredump_enter(J)) /\ Still(sudo_enter(J)) /\ Still(sudo_exit(J))
         /\ Still(timer_exit(J)) /\ Still(clock_enter(J)) /\ Still(clock_exit(J)) /\ Still(clock_check_enter(J))
         /\ Still(pcp_setup(J)) /\ Still(pcp_end(J))
         /\ Still(console_log_enter(J)) /\ Still(console_log_exit(J))
  <1> USE StillEmpty, StillConcat, StillRun, StillLook DEF Unput, Undropped, Evidence, Traces, When
  <1>1. Still(check_packages(J)) /\ Still(save_config(J)) /\ Still(check_lock(J)) /\ Still(add_remotes(J))
    BY DEF check_packages, save_config, check_lock, add_remotes
  <1>2. Still(connect(J)) /\ Still(push_inventory(J)) /\ Still(serialize_remote_roles(J))
        /\ Still(check_conflict(J)) /\ Still(check_ceph_data(J))
    BY StillQuiet DEF connect, push_inventory, serialize_remote_roles, check_conflict, check_ceph_data
  <1>3. Still(vm_setup(J))
    <2> DEFINE Prepare(n) == Branch({n}, {"ceph-qa-ready"}, <<>>, Quiet(Each({n}, {"ceph-qa-ready"}, {})))
    <2>1. \A n : Still(Prepare(n))
      BY StillBranch, StillQuiet
    <2> HIDE DEF Prepare
    <2>2. Still(ForEach(J.virtual, Prepare))
      BY <2>1, JobNodes, StillForEach DEF ForEach
    <2> QED BY <2>2 DEF vm_setup, Prepare
  <1>4. Still(lock_machines_enter(J)) /\ Still(lock_machines_exit(J)) /\ Still(base_enter(J)) /\ Still(base_exit(J))
    BY DEF lock_machines_enter, lock_machines_exit, base_enter, base_exit
  <1>5. Still(archive_enter(J)) /\ Still(archive_upload_exit(J)) /\ Still(coredump_enter(J))
    BY DEF archive_enter, archive_upload_exit, coredump_enter
  <1>6. Still(sudo_enter(J)) /\ Still(sudo_exit(J)) /\ Still(timer_exit(J))
        /\ Still(clock_enter(J)) /\ Still(clock_exit(J)) /\ Still(clock_check_enter(J))
    BY DEF sudo_enter, sudo_exit, timer_exit, clock_enter, clock_exit, clock_check_enter
  <1>7. Still(pcp_setup(J)) /\ Still(pcp_end(J))
    BY StillQuiet DEF pcp_setup, pcp_end
  <1>8. Still(console_log_enter(J)) /\ Still(console_log_exit(J))
    BY DEF console_log_enter, console_log_exit
  <1> QED BY <1>1, <1>2, <1>3, <1>4, <1>5, <1>6, <1>7, <1>8

\* What entering and exiting a task may drop of the traces.
Lenient(t, entering) ==
  CASE t = "selinux" /\ entering -> {"denial"}
    [] t = "coredump" /\ ~entering -> {"core_pattern", "coredump_dir"}
    [] OTHER -> {}

\* The tasks that drop what they have put, or found.
LEMMA LenientTasks ==
  ASSUME NEW J \in Jobs
  PROVE  /\ Calm(selinux_setup(J), Traces \ {"denial"})
         /\ Calm(coredump_exit(J), Traces \ {"core_pattern", "coredump_dir"})
  <1> DEFINE Good(p, without) == Spares(p, {"rebooting"}, Undropped \ without, {})
             Harmless(drops, without) == \A e \in Undropped \ without : e \notin drops
  <1>1. \A without :
          /\ \A p, q : Good(p, without) /\ Good(q, without) => Good(p \o q, without)
          /\ \A p : Good(p, without) => Good(Quiet(p), without)
          /\ \A S, marks, p, q : Good(p, without) /\ Good(q, without) => Good(Branch(S, marks, p, q), without)
          /\ Good(<<>>, without)
          /\ \A S, puts, drops : "rebooting" \notin puts /\ Harmless(drops, without) => /\ Good(All(S, puts, drops), without)
                                                            /\ Good(Each(S, puts, drops), without)
                                                            /\ Good(Local(puts, drops), without)
          /\ \A S, marks : Good(Flag(S, marks), without)
    <2> TAKE without
    <2>1. Good(<<>>, without)
      BY SparesEmpty
    <2>2. /\ \A p, q : Good(p, without) /\ Good(q, without) => Good(p \o q, without)
          /\ \A p : Good(p, without) => Good(Quiet(p), without)
      BY SparesConcat, SparesQuiet
    <2>3. \A S, marks, p, q : Good(p, without) /\ Good(q, without) => Good(Branch(S, marks, p, q), without)
      BY <2>1, SparesOne DEF Branch, Command, Fits, Fields, Copies, Reads
    <2>4. \A S, puts, drops : "rebooting" \notin puts /\ Harmless(drops, without) => /\ Good(All(S, puts, drops), without)
                                                          /\ Good(Each(S, puts, drops), without)
                                                          /\ Good(Local(puts, drops), without)
      BY <2>1, SparesOne DEF All, Each, Local, Command, Fits, Fields
    <2>5. \A S, marks : Good(Flag(S, marks), without)
      BY <2>1, SparesOne DEF Flag, Command, Fits, Fields, Copies, Reads
    <2> HIDE DEF Good, Harmless
    <2> QED BY <2>1, <2>2, <2>3, <2>4, <2>5
  <1>2. Good(selinux_setup(J), {"denial"})
    <2> DEFINE without == {"denial"}
               Mode(n) == Branch({n}, {"enforcing"}, Each({n}, {"old_enforcing"}, {}), Each({n}, {}, {"old_enforcing"}))
               ss == [i \in 1..Cardinality(selinux_hosts(J)) |-> Mode(SetToSeq(selinux_hosts(J))[i])]
               p1 == Each(selinux_hosts(J), {}, {})
               p2 == Local({"old_modes"}, {})
               p6 == FlattenSeq(ss)
               p3 == Each(selinux_hosts(J), {}, {"denial"})
               p4 == Local({"old_denials"}, {})
               p5 == Each(selinux_hosts(J), {}, {"enforcing"})
    <2>1. /\ Harmless({}, without) /\ Harmless({"denial"}, without) /\ Harmless({"enforcing"}, without)
          /\ Harmless({"old_enforcing"}, without)
      BY DEF Unput, Undropped, Traces, Evidence
    <2>2. selinux_setup(J) = p1 \o (p6 \o p2) \o Quiet(p3) \o p4 \o p5
      BY DEF selinux_setup, get_modes, ForEach
    <2>5. Cardinality(selinux_hosts(J)) \in Nat
      BY NodesCount DEF selinux_hosts
    <2> HIDE DEF Harmless, without
    <2>6. \A n : Good(Mode(n), without)
      <3> HIDE DEF Good
      <3>1. \A n : Good(Each({n}, {"old_enforcing"}, {}), without) /\ Good(Each({n}, {}, {"old_enforcing"}), without)
        BY <1>1, <2>1
      <3> QED BY <1>1, <3>1
    <2> HIDE DEF Mode
    <2>7. Good(p6, without)
      BY <2>5, <2>6, SparesFlatten
    <2> HIDE DEF Good, ss, p6
    <2>3. Good(p1, without) /\ Good(p2, without) /\ Good(p3, without) /\ Good(p4, without) /\ Good(p5, without)
      BY <1>1, <2>1
    <2> HIDE DEF p1, p2, p3, p4, p5
    <2>4. Good(p1 \o (p6 \o p2) \o Quiet(p3) \o p4 \o p5, without)
      BY <1>1, <2>3, <2>7
    <2> QED BY <2>2, <2>4 DEF without
  <1>3. Good(coredump_exit(J), {"core_pattern", "coredump_dir"})
    <2> DEFINE without == {"core_pattern", "coredump_dir"}
               Tidy(n) == Branch({n}, {"sysusers_core"}, <<>>,
                                 Branch({n}, {"core"}, <<>>, All({n}, {}, {"coredump_dir"})))
               ss == [i \in 1..Cardinality(Hosts(J)) |-> Tidy(SetToSeq(Hosts(J))[i])]
    <2>1. /\ Harmless({"core_pattern"}, without) /\ Harmless({"coredump_dir"}, without)
          /\ Harmless({"sysusers_core"}, without)
      BY DEF Undropped, Traces, Evidence
    <2>2. Cardinality(Hosts(J)) \in Nat
      BY JobNodes, NodesCount
    <2> HIDE DEF without, Harmless
    <2>3. \A n : Good(Tidy(n), without)
      <3> HIDE DEF Good
      <3>1. \A n : Good(All({n}, {}, {"coredump_dir"}), without) /\ Good(<<>>, without)
        BY <1>1, <2>1
      <3>2. \A n : Good(Branch({n}, {"core"}, <<>>, All({n}, {}, {"coredump_dir"})), without)
        BY <1>1, <3>1
      <3> QED BY <1>1, <3>1, <3>2
    <2> HIDE DEF Tidy
    <2>4. Good(FlattenSeq(ss), without)
      BY <2>2, <2>3, SparesFlatten
    <2> DEFINE p1 == All(Hosts(J), {}, {"core_pattern"})
               p0 == All(Hosts(J), {}, {"sysusers_core"})
               p2 == FlattenSeq(ss)
               p3 == Flag(Hosts(J), {"coredump_dir"})
    <2>5. coredump_exit(J) = p1 \o Quiet(p0) \o p2 \o p3
      BY DEF coredump_exit, ForEach, Tidy, IfCores
    <2> HIDE DEF Good, ss
    <2>6. Good(p1, without) /\ Good(p0, without) /\ Good(p2, without) /\ Good(p3, without)
      BY <1>1, <2>1, <2>4
    <2> HIDE DEF p0, p1, p2, p3
    <2>7. Good(p1 \o Quiet(p0) \o p2 \o p3, without)
      BY <1>1, <2>6
    <2> QED BY <2>5, <2>7 DEF without
  <1>4. /\ Undropped \ {"denial"} = (Traces \ {"denial"}) \cup {"running_new"}
        /\ Undropped \ {"core_pattern", "coredump_dir"}
             = (Traces \ {"core_pattern", "coredump_dir"}) \cup {"running_new"}
    BY DEF Undropped
  <1> QED BY <1>2, <1>3, <1>4, NestsPlain DEF Calm

\* Tasks that put logs and audit records on the nodes.
LEMMA LoggingTasks ==
  ASSUME NEW J \in Jobs
  PROVE  Serene(syslog_enter(J)) /\ Serene(syslog_exit(J)) /\ Serene(selinux_teardown(J))
  <1> USE StillEmpty, StillLook, SereneStill, SereneConcat, SereneRun DEF Unput, Undropped, Evidence, Traces, When
  <1>1. Serene(syslog_close(J))
    BY DEF syslog_close, syslog_restore
  <1>2. Serene(syslog_enter(J))
    BY <1>1, SereneTry DEF syslog_enter
  <1>3. Serene(syslog_exit(J))
    BY <1>1 DEF syslog_exit
  <1>4. Serene(restore_modes(J))
    <2> DEFINE h == selinux_hosts(J)
               Restore(n) == Branch({n}, {"old_enforcing"}, Each({n}, {"enforcing"}, {}), <<>>)
               ss == [i \in 1..Cardinality(h) |-> Restore(SetToSeq(h)[i])]
    <2>1. \A n : Still(Restore(n))
      BY StillRun, StillBranch
    <2>2. Still(FlattenSeq(ss))
      <3>1. h \in SUBSET Nodes
        BY DEF selinux_hosts
      <3> HIDE DEF Restore, h
      <3>2. \A i \in 1..Cardinality(h) : Still(ss[i])
        BY <2>1
      <3> QED BY <3>1, <3>2, StillForEach
    <2>3. restore_modes(J) = Require({Here}, {"old_modes"}) \o FlattenSeq(ss)
      BY DEF restore_modes, ForEach
    <2> HIDE DEF ss
    <2> QED BY <2>2, <2>3
  <1>5. Serene(selinux_teardown(J))
    BY <1>4 DEF selinux_teardown, get_new_denials
  <1> QED BY <1>2, <1>3, <1>5

\* internal/redhat.py and git_ignore_ssl.py.
LEMMA RedHatTasks ==
  ASSUME NEW J \in Jobs
  PROVE  /\ Serene(setup_stage_cdn_enter(J)) /\ Serene(setup_stage_cdn_exit(J))
         /\ Still(git_ignore_ssl_enter(J)) /\ Still(setup_container_registry_enter(J))
         /\ Still(setup_additional_repo_enter(J)) /\ Still(setup_base_repo_enter(J))
         /\ \A told : Still(setup_base_repo_exit(J, told))
  <1> USE StillEmpty, StillConcat, StillRun, StillLook, StillQuiet DEF Unput, Undropped, Evidence, Traces, When
  <1>1. \A n : Still(_unsubscribe_stage_cdn(n)) /\ Still(_subscribe_stage_cdn(n))
    BY DEF _unsubscribe_stage_cdn, _subscribe_stage_cdn
  <1>2. Serene(setup_stage_cdn_enter(J)) /\ Serene(setup_stage_cdn_exit(J))
    BY <1>1, SereneParallel, SereneStill, SereneConcat DEF setup_stage_cdn_enter, setup_stage_cdn_exit
  <1>3. Still(git_ignore_ssl_enter(J)) /\ Still(setup_container_registry_enter(J))
        /\ Still(setup_additional_repo_enter(J))
    BY DEF git_ignore_ssl_enter, setup_container_registry_enter, setup_additional_repo_enter
  <1>4. Still(_setup_latest_repo(J))
    <2> DEFINE OnRpm(n) ==
                 Quiet(Each({n}, {}, {"rh_repo", "rh_add_repo"})) \o Each({n}, {}, {})
                 \o When("skip-subscription-manager" \notin J.has, Quiet(Each({n}, {}, {"ceph_repos"})))
                 \o When("base-repo-url" \in J.has, Local({}, {}) \o Each({n}, {"rh_repo"}, {}))
                 \o When("installer-repo-url" \in J.has, Local({}, {}) \o Each({n}, {"rh_repo"}, {}))
               OnDeb(n) == When("deb-repo-url" \in J.has, Each({n}, {"deb_repo"}, {}))
               OnNode(n) == IF n \in Rpm(J) THEN OnRpm(n) ELSE OnDeb(n)
    <2>1. \A n : Still(OnRpm(n)) /\ Still(OnDeb(n))
      OBVIOUS
    <2> HIDE DEF OnRpm, OnDeb
    <2>2. \A n : Still(OnNode(n))
      BY <2>1
    <2> HIDE DEF OnNode
    <2>3. Still(ForEach(Nodes, OnNode))
      BY <2>2, JobNodes, StillForEach DEF ForEach
    <2> QED BY <2>3 DEF _setup_latest_repo, OnRpm, OnDeb, OnNode
  <1>5. Still(setup_base_repo_enter(J)) /\ \A told : Still(setup_base_repo_exit(J, told))
    BY <1>4 DEF setup_base_repo_enter, setup_base_repo_exit
  <1> QED BY <1>2, <1>3, <1>5

-----------------------------------------------------------------------------
(* install                                                                 *)

\* A query goes on with one of two programs.
LEMMA SearchStill ==
  ASSUME NEW J, NEW n, NEW fixed \in Builds, NEW programs, \A b \in Builds : Still(programs[b])
  PROVE  Still(_search(J, n, fixed, programs))
  <1> USE StillEmpty, StillConcat, StillRun, StillLook DEF Unput, Undropped, Evidence, Traces, When
  <1>1. Still(_tag_to_sha1(J, n)) /\ Still(assert_result(J))
    BY DEF _tag_to_sha1, assert_result, _get_response
  <1>2. Still(Newest(programs)) /\ Still(programs[fixed])
    BY StillBranch DEF Newest, Builds
  <1> QED BY <1>1, <1>2 DEF _search

\* Asking which version is to be installed.
LEMMA VersionStill ==
  ASSUME NEW n, NEW programs, \A b \in Builds : Still(programs[b])
  PROVE  Still(get_package_version(n, programs))
  BY StillConcat, StillLook, StillBranch DEF get_package_version, Builds

\* Adding and removing repositories.
LEMMA RepoStill ==
  ASSUME NEW J, NEW n, NEW b \in Builds
  PROVE  /\ Still(install_repo(J, n, b)) /\ Still(remove_repo(J, n)) /\ Still(Put(n, b))
         /\ \A e \in Undropped : e \notin Marks(Installed) /\ e \notin Marks(Repo)
  <1>1. /\ \A e \in Undropped : e \notin Marks(Installed) /\ e \notin Marks(Repo)
        /\ \A e \in Unput : e # Installed[b] /\ e # Repo[b] /\ e # "ceph"
    BY DEF Unput, Undropped, Evidence, Traces, Marks, Installed, Repo, Builds
  <1>2. Still(install_repo(J, n, b)) /\ Still(remove_repo(J, n))
    BY <1>1, StillRun DEF install_repo, remove_repo
  <1>3. Still(Put(n, b))
    BY <1>1, StillRun DEF Put
  <1> QED BY <1>1, <1>2, <1>3

\* install/deb.py.
LEMMA DebStill ==
  ASSUME NEW J, NEW n, NEW b \in Builds
  PROVE  /\ Still(deb_update_package_list_and_install(J, n, b)) /\ Still(deb_upgrade_packages(J, n, b))
         /\ Still(deb_remove(J, n)) /\ Still(deb_remove_sources_list(J, n))
  <1> USE StillEmpty, StillConcat, StillRun, StillLook, StillQuiet, RepoStill DEF When
  <1>1. \A p : Still(p) => Still(_retry_if_eagain_in_output(n, p))
    BY DEF _retry_if_eagain_in_output
  <1>2. Still(StillThere(J, n, b)) /\ Still(_get_local_dir(J, n))
    BY DEF StillThere, _get_local_dir, Unput, Undropped, Evidence, Traces
  <1>3. Still(Each({n}, {"apt_key"}, {})) /\ Still(Each({n}, {"extra"}, {})) /\ Still(Quiet(Each({n}, {}, {})))
    BY DEF Unput, Undropped, Evidence, Traces
  <1>4. Still(deb_update_package_list_and_install(J, n, b))
    BY <1>1, <1>2, <1>3 DEF deb_update_package_list_and_install
  <1>5. Still(deb_upgrade_packages(J, n, b))
    BY <1>1, <1>2, <1>3 DEF deb_upgrade_packages
  <1>6. Still(deb_remove(J, n))
    <2>1. \A e \in Undropped : e \notin {"ceph", "extra"} \cup Marks(Installed)
      BY DEF Unput, Undropped, Evidence, Traces
    <2> QED BY <2>1 DEF deb_remove
  <1>7. Still(deb_remove_sources_list(J, n))
    BY <1>3 DEF deb_remove_sources_list
  <1> QED BY <1>4, <1>5, <1>6, <1>7

\* install/rpm.py.
LEMMA RpmStill ==
  ASSUME NEW J, NEW n, NEW b \in Builds
  PROVE  /\ Still(rpm_update_package_list_and_install(J, n, b)) /\ Still(rpm_upgrade_packages(J, n, b))
         /\ Still(rpm_remove(J, n)) /\ Still(rpm_remove_sources_list(J, n))
  <1> USE StillEmpty, StillConcat, StillRun, StillLook, StillQuiet, RepoStill DEF When
  <1>1. Still(AddRepos(J, n))
    <2>1. Still(Each({n}, {"custom_repo"}, {})) /\ Still(Each({n}, {}, Marks(Repo)))
      BY DEF Unput, Undropped, Evidence, Traces
    <2> QED BY <2>1 DEF AddRepos
  <1>2. Still(_yum_fix_repo_priority(n)) /\ Still(_yum_set_check_obsoletes(n)) /\ Still(_yum_unset_check_obsoletes(n))
        /\ Still(_get_local_dir(J, n))
    BY DEF _yum_fix_repo_priority, _yum_set_check_obsoletes, _yum_unset_check_obsoletes, _get_local_dir, Unput, Undropped, Evidence, Traces
  <1>3. Still(_downgrade_packages(J, n, b))
    <2>1. \A i \in Builds : Still(IF i > b THEN Put(n, b) ELSE Raise)
      OBVIOUS
    <2> QED BY <2>1, VersionStill DEF _downgrade_packages
  <1>4. Still(YumInstall(n, b))
    <2>1. Still(Put(n, 2)) /\ Still(Each({n}, {}, {}))
      BY DEF Builds
    <2> QED BY <2>1, StillBranch DEF YumInstall
  <1>5. \A p : Still(p) => Still(_retry_if_failures_are_recoverable(n, p))
    BY DEF _retry_if_failures_are_recoverable
  <1>6. Still(Each({n}, {"copr"}, {})) /\ Still(Each({n}, {}, {})) /\ Still(Each({n}, {}, {"copr"}))
        /\ Still(Each({n}, {}, {"custom_repo"}))
    BY DEF Unput, Undropped, Evidence, Traces
  <1>7. Still(rpm_update_package_list_and_install(J, n, b))
    BY <1>1, <1>2, <1>3, <1>4, <1>5, <1>6 DEF rpm_update_package_list_and_install
  <1>8. Still(rpm_upgrade_packages(J, n, b))
    BY <1>2, <1>4, <1>6 DEF rpm_upgrade_packages
  <1>9. Still(rpm_remove(J, n))
    <2>1. \A e \in Undropped : e \notin {"ceph", "extra"} \cup Marks(Installed)
      BY DEF Unput, Undropped, Evidence, Traces
    <2> QED BY <2>1, <1>6 DEF rpm_remove
  <1>10. Still(rpm_remove_sources_list(J, n))
    BY <1>2, <1>6 DEF rpm_remove_sources_list
  <1> QED BY <1>7, <1>8, <1>9, <1>10

\* install, its upgrade, redhat's install, and what undoes them.
LEMMA InstallTasks ==
  ASSUME NEW J \in Jobs
  PROVE  Serene(install_task_enter(J)) /\ Serene(install_task_exit(J)) /\ Serene(upgrade_common(J))
  <1> USE StillEmpty, StillConcat, StillLook DEF When
  <1>1. \A n : Still(Install(J, n))
    <2> TAKE n
    <2>1. \A b \in Builds : Still(IF IsRpm(J, n) THEN rpm_update_package_list_and_install(J, n, b)
                                 ELSE deb_update_package_list_and_install(J, n, b))
      BY RpmStill, DebStill
    <2>2. 1 \in Builds
      BY DEF Builds
    <2> QED BY <2>1, <2>2, SearchStill DEF Install
  <1>2. \A n : \A fixed \in Builds : Still(verify_package_version(J, n, fixed))
    <2> TAKE n
    <2> TAKE fixed \in Builds
    <2>1. \A b \in Builds : Still(get_package_version(n, [i \in Builds |-> When(i # b, Raise)]))
      BY VersionStill
    <2> QED BY <2>1, SearchStill DEF verify_package_version
  <1>3. Serene(install_packages(J))
    <2> DEFINE Verify(n) == verify_package_version(J, n, 1)
    <2>1. \A n : Still(Verify(n))
      BY <1>2 DEF Builds
    <2> HIDE DEF Verify
    <2>2. Still(ForEach(Nodes, Verify))
      BY <2>1, JobNodes, StillForEach DEF ForEach
    <2>3. Serene(Parallel([n \in Nodes |-> Install(J, n)]) \o ForEach(Nodes, Verify))
      BY <2>2, <1>1, SereneParallel, SereneConcat, SereneStill
    <2> QED BY <2>3 DEF install_packages, Verify
  <1>4. Serene(install_exit(J))
    BY RpmStill, DebStill, SereneParallel, SereneConcat DEF install_exit, remove_packages, remove_sources, Builds
  <1>5. \A n : Still(RhInstall(n)) /\ Still(install_pkgs(J, n)) /\ Still(install_deb_pkgs(J, n)) /\ Still(uninstall_pkgs(J, n))
    <2> TAKE n
    <2>1. Still(get_package_version(n, [i \in Builds |-> When(i # 1, Raise)]))
      BY VersionStill
    <2>2. Still(RhInstall(n))
      <3>1. 1 \in Builds
        BY DEF Builds
      <3>2. Still(Put(n, 1))
        BY <3>1, RepoStill
      <3> QED BY <2>1, <3>2 DEF RhInstall
    <2>3. \A e \in Undropped : e \notin {"ceph"} \cup Marks(Installed) /\ e \notin {"ceph_data"}
      BY RepoStill DEF Unput, Undropped, Evidence, Traces, Builds
    <2> QED BY <2>2, <2>3, StillRun, StillQuiet DEF install_pkgs, install_deb_pkgs, uninstall_pkgs
  <1>6. Serene(redhat_install_enter(J)) /\ Serene(redhat_install_exit(J))
    BY <1>5, SereneParallel, SereneConcat, SereneStill, StillRun DEF redhat_install_enter, redhat_install_exit
  <1>7. Still(ship_utilities_enter(J)) /\ Still(ship_utilities_exit(J))
    BY StillRun, StillBranch DEF ship_utilities_enter, ship_utilities_exit, _ship_utilities, _remove_utilities, Unput, Undropped, Evidence, Traces
  <1>8. Serene(install_task_enter(J)) /\ Serene(install_task_exit(J))
    BY <1>3, <1>4, <1>6, <1>7, SereneStill, SereneConcat, SereneTry DEF install_task_enter, install_task_exit, TryFinally
  <1>9. Serene(upgrade_common(J))
    <2> DEFINE From(n, i) ==
                 _search(J, n, 2, [b \in Builds |->
                   IF i > b THEN Raise
                   ELSE IF IsRpm(J, n) THEN rpm_upgrade_packages(J, n, b) ELSE deb_upgrade_packages(J, n, b)])
               Upgrade(n) == get_package_version(n, [i \in Builds |-> From(n, i)]) \o verify_package_version(J, n, 2)
    <2>1. \A n : \A i \in Builds : Still(From(n, i))
      <3> TAKE n
      <3> TAKE i \in Builds
      <3>1. \A b \in Builds : Still(IF i > b THEN Raise
                                   ELSE IF IsRpm(J, n) THEN rpm_upgrade_packages(J, n, b)
                                   ELSE deb_upgrade_packages(J, n, b))
        BY RpmStill, DebStill
      <3> DEFINE programs == [b \in Builds |->
                   IF i > b THEN Raise
                   ELSE IF IsRpm(J, n) THEN rpm_upgrade_packages(J, n, b) ELSE deb_upgrade_packages(J, n, b)]
      <3>2. \A b \in Builds : Still(programs[b])
        BY <3>1
      <3>3. From(n, i) = _search(J, n, 2, programs)
        OBVIOUS
      <3>4. 2 \in Builds
        BY DEF Builds
      <3> HIDE DEF programs, From
      <3> QED BY <3>2, <3>3, <3>4, SearchStill
    <2> HIDE DEF From
    <2>2. \A n : Still(Upgrade(n))
      BY <2>1, <1>2, VersionStill DEF Builds
    <2> HIDE DEF Upgrade
    <2>3. Still(ForEach(Nodes, Upgrade))
      BY <2>2, JobNodes, StillForEach DEF ForEach
    <2> QED BY <2>3, SereneStill DEF upgrade_common, From, Upgrade
  <1> QED BY <1>8, <1>9

-----------------------------------------------------------------------------
(* kernel                                                                  *)

\* Finding and fetching a kernel.
LEMMA GettingStill ==
  ASSUME NEW J, NEW n, NEW kind \in VersionKinds
  PROVE  /\ Still(get_latest_image_version_rpm(J, n)) /\ Still(get_latest_image_version_deb(J, n))
         /\ Still(install_firmware(J, n, kind)) /\ Still(download_kernel(J, n, kind)) /\ Still(get_image_version(n))
         /\ Still(maybe_generate_initrd_rpm(n)) /\ Still(assert_result(J))
  <1> USE StillEmpty, StillConcat, StillRun, StillLook DEF Unput, Undropped, Evidence, Traces, When
  <1>1. Still(get_latest_image_version_rpm(J, n)) /\ Still(get_latest_image_version_deb(J, n))
        /\ Still(get_image_version(n)) /\ Still(maybe_generate_initrd_rpm(n))
    BY DEF get_latest_image_version_rpm, get_latest_image_version_deb, get_image_version, maybe_generate_initrd_rpm
  <1>2. Still(install_firmware(J, n, kind))
    BY DEF install_firmware
  <1>3. Still(assert_result(J))
    BY DEF assert_result, _get_response
  <1>4. Still(download_kernel(J, n, kind))
    BY <1>3 DEF download_kernel, VersionKinds
  <1> QED BY <1>1, <1>2, <1>3, <1>4

\* One command whose failures are ignored.
LEMMA QuietOne ==
  ASSUME NEW c
  PROVE  Quiet(<<c>>) = <<[c EXCEPT !.quiet = TRUE]>>
  <1> DEFINE q(x) == [x EXCEPT !.quiet = TRUE]
  <1>1. Quiet(<<c>>) = [i \in DOMAIN <<c>> |-> q(<<c>>[i])]
    BY DEF Quiet
  <1> HIDE DEF q
  <1>2. [i \in DOMAIN <<c>> |-> q(<<c>>[i])] = <<q(c)>>
    OBVIOUS
  <1> QED BY <1>1, <1>2 DEF q

\* Making a kernel the default of the boot loader.
LEMMA BootStill ==
  ASSUME NEW J, NEW n
  PROVE  Still(update_grub_rpm(J, n)) /\ Still(update_grub_deb(J, n))
  <1> USE StillEmpty, StillConcat, StillRun, StillLook, StillQuiet DEF Unput, Undropped, Evidence, Traces, When, Entry
  <1>1. Still(_kernel_ensure_grub_default_saved(n)) /\ Still(_kernel_set_default_bls(J, n))
        /\ Still(_kernel_sync_uefi_grubcfg(J, n)) /\ Still(generate_legacy_grub_entry(n))
    BY DEF _kernel_ensure_grub_default_saved, _kernel_set_default_bls, _kernel_sync_uefi_grubcfg,
           generate_legacy_grub_entry
  <1>2. Still(grub2_kernel_select_generic(J, n))
    BY <1>1 DEF grub2_kernel_select_generic
  <1>3. Still(update_grub_rpm(J, n)) /\ Still(update_grub_deb(J, n))
    BY <1>1, <1>2, StillBranch DEF update_grub_rpm, update_grub_deb
  <1> QED BY <1>3

\* Programs are sequences, and the order in which they are put together does not matter.
IsProgram(p) == \E C : p \in Seq(C)

LEMMA Associative ==
  ASSUME NEW p, NEW q, NEW r, IsProgram(p), IsProgram(q), IsProgram(r)
  PROVE  p \o (q \o r) = (p \o q) \o r
  <1>1. PICK C, D, E : p \in Seq(C) /\ q \in Seq(D) /\ r \in Seq(E)
    BY DEF IsProgram
  <1> DEFINE A == C \cup D \cup E
  <1>2. p \in Seq(A) /\ q \in Seq(A) /\ r \in Seq(A)
    BY <1>1, SeqMonotonic
  <1> HIDE DEF A
  <1> QED BY <1>2, ConcatAssociative

LEMMA ConcatProgram ==
  ASSUME NEW p, NEW q, IsProgram(p), IsProgram(q)
  PROVE  IsProgram(p \o q)
  <1>1. PICK C, D : p \in Seq(C) /\ q \in Seq(D)
    BY DEF IsProgram
  <1>2. p \in Seq(C \cup D) /\ q \in Seq(C \cup D)
    BY <1>1, SeqMonotonic
  <1> QED BY <1>2, ConcatProperties DEF IsProgram

LEMMA EmptyProgram ==
  ASSUME NEW p, IsProgram(p)
  PROVE  p \o <<>> = p /\ <<>> \o p = p
  BY ConcatEmptySeq DEF IsProgram

LEMMA OneProgram ==
  ASSUME NEW c
  PROVE  IsProgram(<<c>>)
  <1>1. <<c>> \in Seq({c})
    OBVIOUS
  <1> QED BY <1>1 DEF IsProgram

LEMMA StillProgram ==
  ASSUME NEW p, Still(p)
  PROVE  IsProgram(p)
  BY DEF Still, Spares, IsProgram

\* Handlers are given to each command.
LEMMA TryConcat ==
  ASSUME NEW p, NEW q, NEW h, IsProgram(p), IsProgram(q)
  PROVE  Try(p \o q, h) = Try(p, h) \o Try(q, h)
  <1> DEFINE handled(c) == [c EXCEPT !.handler = @ \o h]
  <1>1. PICK C, D : p \in Seq(C) /\ q \in Seq(D)
    BY DEF IsProgram
  <1> DEFINE A == C \cup D
             B == {handled(c) : c \in A}
  <1>2. p \in Seq(A) /\ q \in Seq(A)
    BY <1>1, SeqMonotonic
  <1>3. ASSUME NEW s \in Seq(A)
        PROVE  /\ Try(s, h) \in Seq(B) /\ Len(Try(s, h)) = Len(s)
               /\ \A i \in 1..Len(s) : Try(s, h)[i] = handled(s[i])
    <2>1. Try(s, h) = [i \in 1..Len(s) |-> handled(s[i])]
      BY <1>3 DEF Try
    <2>2. \A i \in 1..Len(s) : handled(s[i]) \in B
      <3>1. \A x \in A : handled(x) \in B
        OBVIOUS
      <3>2. \A i \in 1..Len(s) : s[i] \in A
        BY <1>3
      <3> HIDE DEF handled, A, B
      <3> QED BY <3>1, <3>2
    <2> HIDE DEF handled, B
    <2> QED BY <2>1, <2>2
  <1> HIDE DEF handled, A, B
  <1>4. /\ p \o q \in Seq(A) /\ Len(p \o q) = Len(p) + Len(q)
        /\ \A i \in 1..(Len(p) + Len(q)) : (p \o q)[i] = IF i <= Len(p) THEN p[i] ELSE q[i - Len(p)]
    BY <1>2
  <1>5. PICK t, u, v : t = Try(p \o q, h) /\ u = Try(p, h) /\ v = Try(q, h)
    OBVIOUS
  <1>6. /\ t \in Seq(B) /\ u \in Seq(B) /\ v \in Seq(B)
        /\ Len(t) = Len(p) + Len(q) /\ Len(u) = Len(p) /\ Len(v) = Len(q)
    BY <1>2, <1>3, <1>4, <1>5
  <1>7. \A i \in 1..Len(t) : t[i] = IF i <= Len(u) THEN u[i] ELSE v[i - Len(u)]
    <2> TAKE i \in 1..Len(t)
    <2>1. t[i] = handled((p \o q)[i])
      BY <1>3, <1>4, <1>5, <1>6
    <2>2. CASE i <= Len(p)
      <3>1. i \in 1..Len(p)
        BY <1>2, <1>6, <2>2
      <3>2. u[i] = handled(p[i]) /\ (p \o q)[i] = p[i]
        BY <1>2, <1>3, <1>4, <1>5, <1>6, <2>2, <3>1
      <3> QED BY <1>6, <2>1, <2>2, <3>2
    <2>3. CASE ~(i <= Len(p))
      <3>1. i - Len(p) \in 1..Len(q)
        BY <1>2, <1>6, <2>3
      <3>2. v[i - Len(p)] = handled(q[i - Len(p)]) /\ (p \o q)[i] = q[i - Len(p)]
        BY <1>2, <1>3, <1>4, <1>5, <1>6, <2>3, <3>1
      <3> QED BY <1>6, <2>1, <2>3, <3>2
    <2> QED BY <2>2, <2>3
  <1>8. t = u \o v
    <2>1. u \o v \in Seq(B) /\ Len(u \o v) = Len(t)
      BY <1>6
    <2>2. \A i \in 1..Len(t) : (u \o v)[i] = t[i]
      BY <1>6, <1>7
    <2> QED BY <1>6, <2>1, <2>2, SeqEqual
  <1> QED BY <1>5, <1>8

\* A command that is a record without a handler.
Plain(c) == c = [f \in Fields |-> c[f]] /\ c.handler = <<>>

\* A command that has no handler is left as it is by a block that has none.
LEMMA TryNothing ==
  ASSUME NEW c, Plain(c)
  PROVE  Try(<<c>>, <<>>) = <<c>>
  <1>1. <<>> \o <<>> = <<>>
    OBVIOUS
  <1>2. "handler" \in Fields
    BY DEF Fields
  <1> DEFINE d == [c EXCEPT !.handler = @ \o <<>>]
  <1>3. d = [f \in Fields |-> d[f]] /\ \A f \in Fields : d[f] = c[f]
    BY <1>1, <1>2 DEF Plain
  <1>4. d = c
    <2> HIDE DEF d
    <2> QED BY <1>3 DEF Plain
  <1>5. Try(<<c>>, <<>>) = <<d>>
    BY DEF Try
  <1> HIDE DEF d
  <1> QED BY <1>4, <1>5

LEMMA CommandPlain ==
  ASSUME NEW how, NEW S, NEW puts, NEW drops
  PROVE  Plain(Command(how, S, puts, drops)) /\ Plain([Command(how, S, puts, drops) EXCEPT !.quiet = TRUE])
  <1> DEFINE c == Command(how, S, puts, drops)
  <1>1. c = [f \in Fields |-> c[f]] /\ c.handler = <<>>
    BY DEF Command, Fields
  <1> HIDE DEF c
  <1> DEFINE d == [c EXCEPT !.quiet = TRUE]
  <1>2. d = [f \in Fields |-> d[f]] /\ d.handler = c.handler
    BY <1>1 DEF Fields
  <1>3. Plain(c)
    BY <1>1 DEF Plain
  <1>4. Plain(d)
    <2> HIDE DEF d
    <2> QED BY <1>1, <1>2 DEF Plain
  <1> QED BY <1>3, <1>4 DEF c

-----------------------------------------------------------------------------
(* The programs of kernel: a guard, a reboot, a wait                       *)

\* What waits for the reboot of n: kernel until the new kernel runs, the other until n is up.
Gate(n, k) == IF k THEN Await({n}, {"running_new"}) ELSE Quiet(Await({n}, {})) \o Each({n}, {}, {})

\* What tells that n need not be rebooted.
Mark(k) == IF k THEN "running_new" ELSE "zstream"

\* A program that starts n's reboot waits for it then, and before it starts the
\* reboot it looks if n runs, or has, the kernel already.
Waiting(p, n, k) == \E w : Still(w) /\ p = Gate(n, k) \o w
Reboots(p, n, k) == \E q, w : Still(q) /\ Waiting(w, n, k) /\ p = q \o (Reboot({n}) \o w)
Guards(p, n, k) ==
  \E q, yes, no, w : /\ Still(q) /\ Still(yes) /\ Still(w)
                     /\ Reboots(no, n, k) /\ Reboots(Try(no, <<>>), n, k)
                     /\ p = q \o (Branch({n}, {Mark(k)}, yes, no) \o w)

\* A program that raises, whatever it does before.
Fails(p) == \E q, w : Still(q) /\ Still(w) /\ p = q \o (Raise \o w)

\* More may be done before and after.
LEMMA GateStill ==
  ASSUME NEW n, NEW k
  PROVE  Still(Gate(n, k))
  BY StillLook, StillQuiet, StillRun, StillConcat DEF Gate

LEMMA WaitingIs ==
  ASSUME NEW p, NEW n, NEW k, Waiting(p, n, k)
  PROVE  Still(p)
  BY GateStill, StillConcat DEF Waiting

LEMMA WaitingMore ==
  ASSUME NEW p, NEW n, NEW k, Waiting(p, n, k), NEW w, Still(w)
  PROVE  Waiting(p \o w, n, k)
  <1>1. PICK v : Still(v) /\ p = Gate(n, k) \o v
    BY DEF Waiting
  <1>2. p \o w = Gate(n, k) \o (v \o w)
    BY <1>1, GateStill, StillProgram, Associative
  <1> QED BY <1>1, <1>2, StillConcat DEF Waiting

LEMMA RebootProgram ==
  ASSUME NEW n
  PROVE  /\ IsProgram(Reboot({n}))
         /\ Try(Reboot({n}), <<>>) = Reboot({n})
  <1> DEFINE c == Command("reboot", {n}, {"rebooting"}, {})
  <1>1. Plain(c)
    BY CommandPlain
  <1> HIDE DEF c
  <1>2. Try(<<c>>, <<>>) = <<c>> /\ IsProgram(<<c>>)
    BY <1>1, TryNothing, OneProgram
  <1>3. Reboot({n}) = <<c>>
    BY DEF Reboot, c
  <1> QED BY <1>2, <1>3

LEMMA RebootsIs ==
  ASSUME NEW p, NEW n, NEW k, Reboots(p, n, k)
  PROVE  Mute(p)
  BY WaitingIs, MuteStill, MuteReboot, MuteConcat DEF Reboots

LEMMA RebootsMore ==
  ASSUME NEW p, NEW n, NEW k, Reboots(p, n, k), NEW a, Still(a), NEW w, Still(w)
  PROVE  Reboots(a \o p, n, k) /\ Reboots(p \o w, n, k)
  <1>1. PICK q, v : Still(q) /\ Waiting(v, n, k) /\ p = q \o (Reboot({n}) \o v)
    BY DEF Reboots
  <1>2. /\ IsProgram(q)
        /\ IsProgram(v)
        /\ IsProgram(Reboot({n}))
        /\ IsProgram(a)
        /\ IsProgram(w)
        /\ IsProgram(Reboot({n}) \o v)
    BY <1>1, WaitingIs, StillProgram, RebootProgram, ConcatProgram
  <1> DEFINE b == Reboot({n}) \o v
  <1>3. a \o p = (a \o q) \o b
    <2> HIDE DEF b
    <2>1. a \o p = a \o (q \o b)
      BY <1>1 DEF b
    <2>2. IsProgram(a) /\ IsProgram(q) /\ IsProgram(b)
      BY <1>2 DEF b
    <2>3. (a \o q) \o b = a \o (q \o b)
      BY <2>2, Associative
    <2> QED BY <2>1, <2>3
  <1>4. p \o w = q \o (Reboot({n}) \o (v \o w))
    <2>1. b \o w = Reboot({n}) \o (v \o w)
      BY <1>2, Associative
    <2> HIDE DEF b
    <2>2. p \o w = (q \o b) \o w
      BY <1>1 DEF b
    <2>3. IsProgram(b) /\ IsProgram(q) /\ IsProgram(w)
      BY <1>2 DEF b
    <2>4. (q \o b) \o w = q \o (b \o w)
      BY <2>3, Associative
    <2> QED BY <2>1, <2>2, <2>4
  <1>5. Still(a \o q) /\ Waiting(v \o w, n, k)
    BY <1>1, StillConcat, WaitingMore
  <1> QED BY <1>1, <1>3, <1>4, <1>5 DEF Reboots

LEMMA FailsMore ==
  ASSUME NEW p, Fails(p), NEW a, Still(a), NEW w, Still(w)
  PROVE  Fails(a \o p) /\ Fails(p \o w) /\ Still(p)
  <1>1. PICK q, v : Still(q) /\ Still(v) /\ p = q \o (Raise \o v)
    BY DEF Fails
  <1>2. Still(Raise \o v) /\ Still(a \o q) /\ Still(v \o w) /\ Still(Raise)
    BY <1>1, StillConcat, StillLook
  <1>5. Still(p)
    BY <1>1, <1>2, StillConcat
  <1> DEFINE b == Raise \o v
  <1>6. IsProgram(a) /\ IsProgram(q) /\ IsProgram(b) /\ IsProgram(v) /\ IsProgram(w) /\ IsProgram(Raise)
    BY <1>1, <1>2, StillProgram
  <1>4. p \o w = q \o (Raise \o (v \o w))
    <2>1. b \o w = Raise \o (v \o w)
      BY <1>6, Associative
    <2>2. (q \o b) \o w = q \o (b \o w)
      <3> HIDE DEF b
      <3> QED BY <1>6, Associative
    <2> QED BY <1>1, <2>1, <2>2
  <1>3. a \o p = (a \o q) \o (Raise \o v)
    <2>1. (a \o q) \o b = a \o (q \o b)
      <3> HIDE DEF b
      <3> QED BY <1>6, Associative
    <2> QED BY <1>1, <2>1
  <1> QED BY <1>1, <1>2, <1>3, <1>4, <1>5 DEF Fails

LEMMA GuardProgram ==
  ASSUME NEW n, NEW k, NEW yes, NEW no
  PROVE  IsProgram(Branch({n}, {Mark(k)}, yes, no))
  BY OneProgram DEF Branch

LEMMA GuardsIs ==
  ASSUME NEW p, NEW n, NEW k, Guards(p, n, k)
  PROVE  Mute(p)
  <1>1. PICK q, yes, no, w : /\ Still(q) /\ Still(yes) /\ Still(w) /\ Reboots(no, n, k)
                             /\ p = q \o (Branch({n}, {Mark(k)}, yes, no) \o w)
    BY DEF Guards
  <1>2. Mute(Branch({n}, {Mark(k)}, yes, no))
    BY <1>1, RebootsIs, MuteStill, MuteBranch
  <1> QED BY <1>1, <1>2, MuteStill, MuteConcat

LEMMA GuardsMore ==
  ASSUME NEW p, NEW n, NEW k, Guards(p, n, k), NEW a, Still(a), NEW v, Still(v)
  PROVE  Guards(a \o p, n, k) /\ Guards(p \o v, n, k)
  <1>1. PICK q, yes, no, w : /\ Still(q) /\ Still(yes) /\ Still(w)
                             /\ Reboots(no, n, k) /\ Reboots(Try(no, <<>>), n, k)
                             /\ p = q \o (Branch({n}, {Mark(k)}, yes, no) \o w)
    BY DEF Guards
  <1> DEFINE b == Branch({n}, {Mark(k)}, yes, no)
  <1>2. IsProgram(b)
    BY GuardProgram
  <1> HIDE DEF b
  <1>3. IsProgram(b \o w)
    BY <1>1, <1>2, StillProgram, ConcatProgram
  <1> DEFINE c == b \o w
  <1>7. p = q \o c /\ IsProgram(a) /\ IsProgram(q)
    BY <1>1, StillProgram DEF b
  <1>4. a \o p = (a \o q) \o (b \o w)
    <2>1. IsProgram(c)
      BY <1>3
    <2> HIDE DEF c
    <2>2. (a \o q) \o c = a \o (q \o c)
      BY <1>7, <2>1, Associative
    <2> QED BY <1>7, <2>2 DEF c
  <1>5. p \o v = q \o (b \o (w \o v))
    <2>1. p \o v = q \o ((b \o w) \o v)
      <3>1. IsProgram(c) /\ IsProgram(v)
        BY <1>3, StillProgram
      <3> HIDE DEF c
      <3>2. q \o (c \o v) = (q \o c) \o v
        BY <1>7, <3>1, Associative
      <3> QED BY <1>7, <3>2 DEF c
    <2>2. (b \o w) \o v = b \o (w \o v)
      BY <1>1, <1>2, StillProgram, Associative
    <2> QED BY <2>1, <2>2
  <1>6. Still(a \o q) /\ Still(w \o v)
    BY <1>1, StillConcat
  <1> QED BY <1>1, <1>4, <1>5, <1>6 DEF Guards, b

\* To reboot and wait.
LEMMA RebootsOne ==
  ASSUME NEW n, NEW k
  PROVE  /\ Reboots(Reboot({n}) \o Gate(n, k), n, k)
         /\ Try(Gate(n, k), <<>>) = Gate(n, k)
  <1>1. Waiting(Gate(n, k), n, k)
    <2>1. Gate(n, k) \o <<>> = Gate(n, k)
      BY GateStill, StillProgram, EmptyProgram
    <2> QED BY <2>1, StillEmpty DEF Waiting
  <1>2. <<>> \o (Reboot({n}) \o Gate(n, k)) = Reboot({n}) \o Gate(n, k)
    <2>1. IsProgram(Reboot({n}) \o Gate(n, k))
      BY RebootProgram, GateStill, StillProgram, ConcatProgram
    <2> QED BY <2>1, EmptyProgram
  <1>3. Try(Gate(n, k), <<>>) = Gate(n, k)
    <2> DEFINE a == Await({n}, {"running_new"})
               b == Quiet(Await({n}, {}))
               c == Each({n}, {}, {})
    <2>1. Try(a, <<>>) = a /\ Try(b, <<>>) = b /\ Try(c, <<>>) = c
      <3> DEFINE x == Command("await", {n}, {"running_new"}, {})
                 y == Command("await", {n}, {}, {})
                 z == [y EXCEPT !.quiet = TRUE]
                 u == Command("each", {n}, {}, {})
      <3>1. a = <<x>> /\ c = <<u>>
        BY DEF Await, Each
      <3>3. b = <<z>>
        <4>1. Await({n}, {}) = <<y>>
          BY DEF Await
        <4> HIDE DEF y
        <4> QED BY <4>1, QuietOne
      <3>2. Plain(x) /\ Plain(z) /\ Plain(u)
        BY CommandPlain
      <3> HIDE DEF a, b, c, x, y, z, u
      <3> QED BY <3>1, <3>2, <3>3, TryNothing
    <2>2. Still(b) /\ Still(c)
      BY StillLook, StillQuiet, StillRun
    <2> HIDE DEF a, b, c
    <2>3. Try(b \o c, <<>>) = b \o c
      BY <2>1, <2>2, StillProgram, TryConcat
    <2> QED BY <2>1, <2>3 DEF Gate, a, b, c
  <1> QED BY <1>1, <1>2, <1>3, StillEmpty DEF Reboots

\* ... after something else, also in a branch.
LEMMA RebootsTry ==
  ASSUME NEW n, NEW k, NEW q, Still(q)
  PROVE  LET p == q \o (Reboot({n}) \o Gate(n, k))
         IN  Reboots(p, n, k) /\ Reboots(Try(p, <<>>), n, k)
  <1> DEFINE r == Reboot({n}) \o Gate(n, k)
  <1>1. /\ IsProgram(Reboot({n}))
        /\ IsProgram(Gate(n, k))
        /\ IsProgram(q)
        /\ IsProgram(r)
    BY RebootProgram, GateStill, StillProgram, ConcatProgram
  <1>2. Try(r, <<>>) = r
    <2>1. IsProgram(Reboot({n})) /\ IsProgram(Gate(n, k))
      BY <1>1
    <2>2. \A a, b : IsProgram(a) /\ IsProgram(b) => Try(a \o b, <<>>) = Try(a, <<>>) \o Try(b, <<>>)
      BY TryConcat
    <2>3. Try(Reboot({n}) \o Gate(n, k), <<>>) = Try(Reboot({n}), <<>>) \o Try(Gate(n, k), <<>>)
      BY <2>1, <2>2, Zenon
    <2> QED BY <2>3, RebootProgram, RebootsOne
  <1>3. Try(q \o r, <<>>) = Try(q, <<>>) \o r
    <2> HIDE DEF r
    <2> QED BY <1>1, <1>2, TryConcat
  <1>4. Still(Try(q, <<>>))
    BY StillTry, StillEmpty
  <1>5. Reboots(r, n, k)
    BY RebootsOne
  <1> HIDE DEF r
  <1>6. Reboots(q \o r, n, k) /\ Reboots(Try(q, <<>>) \o r, n, k)
    BY <1>4, <1>5, RebootsMore
  <1> QED BY <1>3, <1>6 DEF r

LEMMA GuardsOne ==
  ASSUME NEW n, NEW k, NEW q, Still(q), NEW yes, Still(yes)
  PROVE  Guards(Branch({n}, {Mark(k)}, yes, q \o (Reboot({n}) \o Gate(n, k))), n, k)
  <1> DEFINE no == q \o (Reboot({n}) \o Gate(n, k))
             b == Branch({n}, {Mark(k)}, yes, no)
  <1>1. Reboots(no, n, k) /\ Reboots(Try(no, <<>>), n, k)
    BY RebootsTry
  <1> HIDE DEF no
  <1>2. IsProgram(b)
    BY GuardProgram
  <1>3. b = <<>> \o (b \o <<>>)
    <2> HIDE DEF b
    <2> QED BY <1>2, EmptyProgram
  <1> QED BY <1>1, <1>3, StillEmpty DEF Guards, no

\* What installs a kernel ends in a reboot.
LEMMA InstallReboots ==
  ASSUME NEW J \in Jobs, NEW n \in Nodes, NEW kind \in VersionKinds
  PROVE  \E c : Still(c) /\ install_and_reboot(J, n, kind) = c \o Reboot({n})
  <1> USE StillEmpty, StillConcat, StillRun, StillLook DEF Unput, Undropped, Evidence, Traces, When
  <1>1. J.os[n] \in {"rhel", "centos", "suse", "ubuntu"}
    BY JobsAssumption
  <1>2. \E c : Still(c) /\ install_kernel(J, n, kind) = c \o Reboot({n})
    BY <1>1, GettingStill, BootStill DEF install_kernel
  <1>3. \E c : Still(c) /\ install_and_reboot(J, n, kind) = c \o Reboot({n})
    <2>1. CASE kind = "distro"
      BY <1>2, <2>1 DEF install_and_reboot
    <2>2. CASE kind # "distro" /\ J.os[n] # "ubuntu"
      <3>1. PICK c : Still(c) /\ install_kernel(J, n, kind) = c \o Reboot({n})
        BY <1>2
      <3> DEFINE a == Each({n}, {"kernel_installed"}, {})
      <3>2. Still(a) /\ Still(a \o c)
        BY <3>1
      <3>3. install_and_reboot(J, n, kind) = a \o install_kernel(J, n, kind)
        BY <2>2 DEF install_and_reboot
      <3>4. IsProgram(a) /\ IsProgram(c) /\ IsProgram(Reboot({n}))
        BY <3>1, <3>2, StillProgram, RebootProgram
      <3> HIDE DEF a
      <3>5. (a \o c) \o Reboot({n}) = a \o (c \o Reboot({n}))
        BY <3>4, Associative
      <3> QED BY <3>1, <3>2, <3>3, <3>5
    <2>3. CASE kind # "distro" /\ J.os[n] = "ubuntu"
      <3> DEFINE c == Each({n}, {"kernel_installed"}, {}) \o get_image_version(n) \o Each({n}, {}, {})
                        \o All({n}, IF n \in J.no_entry THEN {} ELSE {"default_new", "efi_synced"}, {"kernel_file"})
      <3>1. Still(c)
        BY GettingStill
      <3>2. install_and_reboot(J, n, kind) = c \o Reboot({n})
        BY <2>3 DEF install_and_reboot
      <3> QED BY <3>1, <3>2
    <2> QED BY <2>1, <2>2, <2>3
  <1> QED BY <1>3

\* ... that is waited for.
LEMMA InstallProgram ==
  ASSUME NEW J \in Jobs, NEW n \in Nodes, NEW kind \in VersionKinds
  PROVE  \E q : Still(q) /\ install_latest(J, n, kind) = q \o (Reboot({n}) \o Gate(n, TRUE))
  <1>4. PICK c : Still(c) /\ install_and_reboot(J, n, kind) = c \o Reboot({n})
    BY InstallReboots
  <1> DEFINE a == install_firmware(J, n, kind)
             b == download_kernel(J, n, kind)
  <1>5. Still(a) /\ Still(b)
    BY GettingStill
  <1>6. install_latest(J, n, kind) = ((a \o b) \o (c \o Reboot({n}))) \o Gate(n, TRUE)
    BY <1>4 DEF install_latest, wait_for_reboot, Gate
  <1> DEFINE r == Reboot({n})
             g == Gate(n, TRUE)
  <1>7. Still(c) /\ IsProgram(r) /\ IsProgram(g) /\ Still((a \o b) \o c)
    BY <1>4, <1>5, RebootProgram, GateStill, StillProgram, StillConcat
  <1> DEFINE d == a \o b
  <1>8. IsProgram(d) /\ IsProgram(c) /\ IsProgram(d \o c)
    BY <1>4, <1>5, StillConcat, StillProgram
  <1> HIDE DEF r, g, d
  <1>9. d \o (c \o r) = (d \o c) \o r
    BY <1>7, <1>8, Associative
  <1>10. (d \o c) \o (r \o g) = ((d \o c) \o r) \o g
    BY <1>7, <1>8, Associative
  <1> QED BY <1>6, <1>7, <1>9, <1>10 DEF r, g, d

\* What the greenlet of a role does: it looks if the node runs the kernel, or it raises.
LEMMA RoleProgram ==
  ASSUME NEW J \in Jobs, NEW n \in Nodes, NEW kind \in VersionKinds
  PROVE  Guards(process_role(J, n, kind), n, TRUE) \/ Fails(process_role(J, n, kind))
  <1> USE StillEmpty, StillConcat, StillRun, StillLook, StillQuiet DEF Unput, Undropped, Evidence, Traces, When
  <1> DEFINE kdb == enable_disable_kdb(J, n)
             last == install_latest(J, n, kind)
             b == Branch({n}, {"running_new"}, <<>>, last)
  <1>0. Still(kdb) /\ J.os[n] \in {"rhel", "centos", "suse", "ubuntu"}
    BY JobsAssumption DEF enable_disable_kdb
  <1>1. PICK q : Still(q) /\ last = q \o (Reboot({n}) \o Gate(n, TRUE))
    BY InstallProgram
  <1> HIDE DEF last
  <1>2. Guards(b, n, TRUE)
    BY <1>1, GuardsOne DEF Mark
  <1>3. CASE kind = "distro"
    <2> DEFINE a == Each({n}, {}, {})
                    \o (IF J.os[n] = "ubuntu" THEN get_latest_image_version_deb(J, n)
                        ELSE Each({n}, {"kernel_installed", "zstream"}, {}) \o get_latest_image_version_rpm(J, n))
    <2>1. Still(a)
      BY GettingStill
    <2>2. process_role(J, n, kind) = (a \o b) \o kdb
      BY <1>3 DEF process_role, need_to_install_distro, last
    <2> HIDE DEF a, b, kdb
    <2>3. Guards((a \o b) \o kdb, n, TRUE)
      BY <1>0, <1>2, <2>1, GuardsMore
    <2> QED BY <2>2, <2>3
  <1>4. CASE kind = "path"
    <2> DEFINE a == When("no_sha1" \in J.has, Raise)
               c == Each({n}, {}, {})
    <2>1. Still(a) /\ Still(c)
      OBVIOUS
    <2>2. process_role(J, n, kind) = (a \o (c \o b)) \o kdb
      BY <1>4 DEF process_role, need_to_install, last
    <2> HIDE DEF a, b, c, kdb
    <2>3. Guards(c \o b, n, TRUE)
      BY <1>2, <2>1, GuardsMore
    <2>4. Guards(a \o (c \o b), n, TRUE)
      BY <2>1, <2>3, GuardsMore
    <2>5. Guards((a \o (c \o b)) \o kdb, n, TRUE)
      BY <1>0, <2>4, GuardsMore
    <2> QED BY <2>2, <2>5
  <1>5. CASE kind \in {"koji", "koji_task"} /\ J.os[n] = "ubuntu"
    <2> DEFINE a == SetStatus("dead")
    <2>1. Still(a) /\ Still(Raise)
      OBVIOUS
    <2>2. process_role(J, n, kind) = (a \o Raise) \o kdb
      BY <1>5 DEF process_role
    <2> HIDE DEF a, kdb
    <2>3. IsProgram(a) /\ IsProgram(Raise) /\ IsProgram(kdb)
      BY <1>0, <2>1, StillProgram
    <2>4. (a \o Raise) \o kdb = a \o (Raise \o kdb)
      BY <2>3, Associative
    <2> QED BY <1>0, <2>1, <2>2, <2>4 DEF Fails
  <1>6. CASE kind \in {"koji", "koji_task"} /\ J.os[n] # "ubuntu"
    <2> DEFINE a == install_package(n, "koji")
                    \o (IF kind = "koji" THEN get_koji_build_info(n) ELSE get_koji_task_rpm_info(J, n))
               c == Each({n}, {}, {})
    <2>1. Still(a) /\ Still(c)
      BY StillTry DEF install_package, get_koji_build_info, get_koji_task_rpm_info, _run_python_command
    <2>2. process_role(J, n, kind) = (a \o (c \o b)) \o kdb
      BY <1>6 DEF process_role, need_to_install, last
    <2> HIDE DEF a, b, c, kdb
    <2>3. Guards(c \o b, n, TRUE)
      BY <1>2, <2>1, GuardsMore
    <2>4. Guards(a \o (c \o b), n, TRUE)
      BY <2>1, <2>3, GuardsMore
    <2>5. Guards((a \o (c \o b)) \o kdb, n, TRUE)
      BY <1>0, <2>4, GuardsMore
    <2> QED BY <2>2, <2>5
  <1>7. CASE kind = "sha1"
    <2> DEFINE a == assert_result(J)
               c == Each({n}, {}, {})
               e == Reboot({n}) \o Gate(n, TRUE)
               d == Branch({n}, {"running_new"}, <<>>, (a \o q) \o e)
    <2>1. Still(a) /\ Still(c) /\ Still(a \o q)
      BY <1>1, GettingStill
    <2>2. a \o last = (a \o q) \o e
      <3>1. IsProgram(a) /\ IsProgram(q) /\ IsProgram(e)
        BY <1>1, <2>1, StillProgram, RebootProgram, GateStill, ConcatProgram
      <3>2. last = q \o e
        BY <1>1
      <3> HIDE DEF a, e
      <3>3. (a \o q) \o e = a \o (q \o e)
        BY <3>1, Associative
      <3> QED BY <3>2, <3>3
    <2>3. Guards(d, n, TRUE)
      BY <2>1, GuardsOne DEF Mark
    <2>4. process_role(J, n, kind) = (a \o (c \o d)) \o kdb
      BY <1>7, <2>2 DEF process_role, need_to_install, last
    <2> HIDE DEF a, c, d, kdb
    <2>5. Guards(c \o d, n, TRUE)
      BY <2>1, <2>3, GuardsMore
    <2>6. Guards(a \o (c \o d), n, TRUE)
      BY <2>1, <2>5, GuardsMore
    <2>7. Guards((a \o (c \o d)) \o kdb, n, TRUE)
      BY <1>0, <2>6, GuardsMore
    <2> QED BY <2>4, <2>7
  <1> QED BY <1>3, <1>4, <1>5, <1>6, <1>7 DEF VersionKinds

\* ... and of install_latest_rh_kernel's.
LEMMA RhKernelProgram ==
  ASSUME NEW J, NEW n
  PROVE  Guards(update_rh_kernel(J, n), n, FALSE) \/ Still(update_rh_kernel(J, n))
  <1> DEFINE a == Each({n}, {}, {})
             c == Each({n}, {"zstream"}, {"default_new"})
             r == Reboot({n})
             w == Quiet(Await({n}, {}))
             no == ((c \o r) \o w) \o a
             b == Branch({n}, {"zstream"}, a, no)
  <1>1. CASE J.os[n] = "ubuntu"
    BY <1>1, StillEmpty, StillConcat, StillRun DEF update_rh_kernel, Unput, Undropped, Evidence, Traces, When
  <1>2. CASE J.os[n] # "ubuntu"
    <2>1. update_rh_kernel(J, n) = a \o b
      BY <1>2 DEF update_rh_kernel, When
    <2>2. Still(a) /\ Still(c) /\ Still(w) /\ IsProgram(r) /\ Gate(n, FALSE) = w \o a
      BY RebootProgram, StillRun, StillLook, StillQuiet DEF Gate, Unput, Undropped, Evidence, Traces
    <2>3. IsProgram(a) /\ IsProgram(c) /\ IsProgram(w) /\ IsProgram(r \o w)
      BY <2>2, StillProgram, ConcatProgram
    <2>4. no = c \o (r \o Gate(n, FALSE))
      <3> HIDE DEF a, c, r, w
      <3>1. (c \o r) \o w = c \o (r \o w)
        BY <2>2, <2>3, Associative
      <3>2. (c \o (r \o w)) \o a = c \o ((r \o w) \o a)
        BY <2>3, Associative
      <3>3. (r \o w) \o a = r \o (w \o a)
        BY <2>2, <2>3, Associative
      <3> QED BY <2>2, <3>1, <3>2, <3>3
    <2>5. Guards(b, n, FALSE)
      <3>1. Guards(Branch({n}, {"zstream"}, a, c \o (Reboot({n}) \o Gate(n, FALSE))), n, FALSE)
        BY <2>2, GuardsOne DEF Mark
      <3> QED BY <2>4, <3>1
    <2> HIDE DEF a, b
    <2> QED BY <2>1, <2>2, <2>5, GuardsMore
  <1> QED BY <1>1, <1>2

\* The nodes the task kernel is to deal with.
Needs(J, n) == n \notin J.container /\ normalize_and_apply_overrides(J)[n] # {}

\* What the greenlet of n starts with: a guard, or no reboot.
Begins(J, p, n, k) == Guards(p, n, k) \/ Fails(p) \/ (Still(p) /\ ~(k /\ Needs(J, n)))

\* The programs of the two tasks, and what is left of them.
Forms(J, p, k) ==
  \/ p = <<>> \/ p = Raise
  \/ \E programs : /\ p = Parallel(programs) \/ p = Raise \o Parallel(programs)
                   /\ \A n \in Nodes : Begins(J, programs[n], n, k)

LEMMA BeginsIs ==
  ASSUME NEW J, NEW p, NEW n, NEW k, Begins(J, p, n, k)
  PROVE  Mute(p)
  BY GuardsIs, FailsMore, StillEmpty, MuteStill DEF Begins

LEMMA FormsTame ==
  ASSUME NEW J, NEW p, NEW k, Forms(J, p, k)
  PROVE  Tame(p)
  <1>1. Mute(<<>>) /\ Mute(Raise)
    BY StillEmpty, StillLook, MuteStill
  <1>2. \A programs : (\A n \in Nodes : Begins(J, programs[n], n, k)) => Tame(Parallel(programs))
    BY BeginsIs, TameParallel
  <1> QED BY <1>1, <1>2, TameMute, TameConcat DEF Forms

\* kernel, and install_latest_rh_kernel.
LEMMA KernelForms ==
  ASSUME NEW J \in Jobs
  PROVE  /\ Forms(J, kernel_enter(J), TRUE) /\ kernel_enter(J) # <<>>
         /\ Forms(J, install_latest_rh_kernel(J), FALSE)
  <1> DEFINE config == normalize_and_apply_overrides(J)
             roles == [n \in Nodes |-> IF n \in J.container \/ config[n] = {} THEN <<>>
                                       ELSE process_role(J, n, CHOOSE kind \in config[n] : TRUE)]
             hosts == [n \in Nodes |-> update_rh_kernel(J, n)]
  <1>1. \A n \in Nodes : config[n] \in SUBSET VersionKinds
    BY JobsAssumption DEF normalize_and_apply_overrides, normalize_config, VersionKinds
  <1>2. \A n \in Nodes : Begins(J, roles[n], n, TRUE)
    <2> TAKE n \in Nodes
    <2>1. CASE n \in J.container \/ config[n] = {}
      <3>1. roles[n] = <<>> /\ ~Needs(J, n)
        BY <2>1 DEF Needs
      <3> QED BY <3>1, StillEmpty DEF Begins
    <2>2. CASE ~(n \in J.container \/ config[n] = {})
      <3> DEFINE kind == CHOOSE kind \in config[n] : TRUE
      <3>1. roles[n] = process_role(J, n, kind)
        BY <2>2
      <3>2. kind \in VersionKinds
        BY <1>1, <2>2
      <3> HIDE DEF kind, roles
      <3> QED BY <3>1, <3>2, RoleProgram DEF Begins
    <2> QED BY <2>1, <2>2
  <1>3. kernel_enter(J) = validate_config(J) \o Parallel(roles)
    BY DEF kernel_enter
  <1>4. \A n \in Nodes : Begins(J, hosts[n], n, FALSE)
    BY RhKernelProgram DEF Begins
  <1>5. install_latest_rh_kernel(J) = When("skip" \notin J.has, Parallel(hosts))
    BY DEF install_latest_rh_kernel
  <1> HIDE DEF config, roles, hosts
  <1>6. validate_config(J) = Raise \/ validate_config(J) = <<>>
    BY DEF validate_config, When
  <1>7. <<>> \o Parallel(roles) = Parallel(roles)
    BY OneProgram, EmptyProgram DEF Parallel
  <1>8. Forms(J, kernel_enter(J), TRUE)
    BY <1>2, <1>3, <1>6, <1>7 DEF Forms
  <1>9. Forms(J, install_latest_rh_kernel(J), FALSE)
    BY <1>4, <1>5 DEF Forms, When
  <1>10. kernel_enter(J) # <<>>
    BY <1>3, <1>6, <1>7 DEF Parallel, Raise
  <1> QED BY <1>8, <1>9, <1>10

LEMMA KernelTasks ==
  ASSUME NEW J \in Jobs
  PROVE  Tame(kernel_enter(J)) /\ Tame(install_latest_rh_kernel(J))
  BY KernelForms, FormsTame

-----------------------------------------------------------------------------
(* ansible, ceph_ansible, cephmetrics                                      *)

\* ansible, ansible.cephlab and cephmetrics.
LEMMA AnsibleTasks ==
  ASSUME NEW J \in Jobs
  PROVE  /\ Still(ansible_enter(J)) /\ Still(cephlab_enter(J))
         /\ Still(ansible_teardown(J, TRUE)) /\ Still(ansible_teardown(J, FALSE))
         /\ Still(cephmetrics_enter(J))
  <1> USE StillEmpty, StillConcat, StillRun, StillLook, StillQuiet DEF Unput, Undropped, Evidence, Traces, When
  <1>1. Still(_handle_failure(J, TRUE)) /\ Still(_handle_failure(J, FALSE))
    BY DEF _handle_failure
  <1>2. Still(execute_playbook(J, TRUE)) /\ Still(execute_playbook(J, FALSE))
    BY <1>1, StillTry DEF execute_playbook
  <1>3. Still(find_repo(J)) /\ Still(get_playbook(J)) /\ Still(generate_inventory(J)) /\ Still(generate_playbook(J))
        /\ Still(ansible_setup(J))
    BY DEF find_repo, get_playbook, generate_inventory, generate_playbook, ansible_setup
  <1>4. Still(ansible_enter(J)) /\ Still(cephlab_enter(J))
    BY <1>2, <1>3 DEF ansible_enter, cephlab_enter
  <1>5. Still(ansible_teardown(J, TRUE)) /\ Still(ansible_teardown(J, FALSE))
    BY <1>2 DEF ansible_teardown, ansible_cleanup
  <1>6. Still(cephmetrics_enter(J))
    BY <1>2, <1>3 DEF cephmetrics_enter, cephmetrics_generate_inventory, run_tests
  <1> QED BY <1>4, <1>5, <1>6

\* ceph_ansible.
LEMMA CephAnsibleTask ==
  ASSUME NEW J \in Jobs
  PROVE  Still(ceph_ansible_enter(J)) /\ \A s : Still(ceph_ansible_teardown(J, s))
  <1> USE StillEmpty, StillConcat, StillRun, StillLook, StillQuiet DEF Unput, Undropped, Evidence, Traces, When
  <1>1. Still(ceph_ansible_setup(J)) /\ Still(_copy_and_print_config(J)) /\ Still(_create_rbd_pool(J))
        /\ Still(wait_for_ceph_health(J)) /\ Still(fix_keyring_permission(J))
    BY DEF ceph_ansible_setup, generate_hosts_file, get_host_vars, _copy_and_print_config, _create_rbd_pool,
           wait_for_ceph_health, fix_keyring_permission
  <1>2. Still(run_rh_playbook(J)) /\ Still(run_playbook(J))
    BY <1>1 DEF run_rh_playbook, run_playbook
  <1>3. Still(ceph_ansible_enter(J))
    BY <1>1, <1>2 DEF ceph_ansible_enter
  <1>4. \A s : Still(ceph_ansible_teardown(J, s))
    BY DEF ceph_ansible_teardown, collect_logs
  <1> QED BY <1>3, <1>4

-----------------------------------------------------------------------------
(* The tasks a job may name                                                *)

\* exec, pexec, background_exec, mpi, lockfile and buildpackages.
LEMMA CommandTasks ==
  ASSUME NEW J \in Jobs
  PROVE  /\ Still(exec(J)) /\ Serene(pexec(J)) /\ Still(background_exec_enter(J)) /\ Still(background_exec_exit(J))
         /\ Still(mpi(J)) /\ Still(lockfile(J)) /\ Still(buildpackages(J))
  <1> USE StillEmpty, StillConcat, StillRun, StillLook, StillQuiet DEF Unput, Undropped, Evidence, Traces, When
  <1>1. Still(exec(J)) /\ Still(background_exec_enter(J)) /\ Still(background_exec_exit(J)) /\ Still(mpi(J))
    BY DEF exec, background_exec_enter, background_exec_exit, mpi, _check_mpi_version
  <1>2. \A n : Still(_exec_host(n))
    BY DEF _exec_host, _do_barrier
  <1>3. Serene(pexec(J))
    BY <1>2, SereneParallel, SereneStill, SereneConcat DEF pexec, _init_barrier
  <1>4. Still(lockfile(J))
    BY StillTry DEF lockfile, lock_one, TryFinally
  <1>5. Still(buildpackages(J))
    BY DEF buildpackages, lookup_configs
  <1> QED BY <1>1, <1>3, <1>4, <1>5

\* localdir, nfs, knfsd and iscsi.
LEMMA FileSystemTasks ==
  ASSUME NEW J \in Jobs
  PROVE  /\ Still(localdir_enter(J)) /\ Still(localdir_exit(J)) /\ Still(nfs_enter(J)) /\ Still(nfs_exit(J))
         /\ Still(knfsd_enter(J)) /\ Still(knfsd_exit(J))
         /\ Still(start_iscsi_initiators_enter(J)) /\ Still(start_iscsi_initiators_exit(J))
  <1> USE StillEmpty, StillConcat, StillRun, StillLook DEF Unput, Undropped, Evidence, Traces
  <1>1. Still(localdir_enter(J)) /\ Still(localdir_exit(J))
    BY DEF localdir_enter, localdir_exit
  <1>2. Still(nfs_enter(J))
    <2> DEFINE Mount(n) == Each({n}, {"mnt"}, {}) \o Each({n}, {"mounted"}, {})
    <2>1. \A n : Still(Mount(n))
      OBVIOUS
    <2> HIDE DEF Mount
    <2>2. Still(Client(J, Mount))
      BY <2>1, JobNodes, StillForEach DEF Client, ForEach
    <2> QED BY <2>2 DEF nfs_enter, Mount
  <1>3. Still(nfs_exit(J))
    <2> DEFINE Unmount(n) == TryFinally(Each({n}, {}, {}), Each({n}, {}, {"mounted"}) \o Each({n}, {}, {"mnt"}))
    <2>1. \A n : Still(Unmount(n))
      BY StillTry DEF TryFinally
    <2> HIDE DEF Unmount
    <2>2. Still(Client(J, Unmount))
      BY <2>1, JobNodes, StillForEach DEF Client, ForEach
    <2> QED BY <2>2 DEF nfs_exit, Unmount
  <1>4. Still(knfsd_enter(J))
    <2> DEFINE Export(n) == Each({n}, {}, {}) \o get_nfsd_args(n, {"nfsd"}, {}) \o Each({n}, {"exported"}, {})
    <2>1. \A n : Still(Export(n))
      BY DEF get_nfsd_args
    <2> HIDE DEF Export
    <2>2. Still(Client(J, Export))
      BY <2>1, JobNodes, StillForEach DEF Client, ForEach
    <2> QED BY <2>2 DEF knfsd_enter, Export
  <1>5. Still(knfsd_exit(J))
    <2> DEFINE Stop(n) == get_nfsd_args(n, {}, {"nfsd", "exported"}) \o Each({n}, {}, {})
    <2>1. \A n : Still(Stop(n))
      BY DEF get_nfsd_args
    <2> HIDE DEF Stop
    <2>2. Still(Client(J, Stop))
      BY <2>1, JobNodes, StillForEach DEF Client, ForEach
    <2> QED BY <2>2 DEF knfsd_exit, Stop
  <1>6. Still(start_iscsi_initiators_enter(J))
    <2> DEFINE Login(n) == Each({n}, {"discovered"}, {}) \o Each({n}, {"iscsi_session"}, {}) \o general_io_test(n)
    <2>1. \A n : Still(Login(n))
      BY DEF general_io_test, file_io_test
    <2> HIDE DEF Login
    <2>2. Still(Client(J, Login))
      BY <2>1, JobNodes, StillForEach DEF Client, ForEach
    <2>3. Still(Try(generic_mkfs(J) \o generic_mount_enter(J), Each(J.clients, {}, {"iscsi_session"})))
      BY <1>2, StillTry DEF generic_mkfs, generic_mount_enter
    <2> QED BY <2>2, <2>3 DEF start_iscsi_initiators_enter, Login
  <1>7. Still(start_iscsi_initiators_exit(J))
    <2> DEFINE Unmount(n) == Each({n}, {}, {"mounted"}) \o Each({n}, {}, {"mnt"})
    <2>1. \A n : Still(Unmount(n))
      OBVIOUS
    <2> HIDE DEF Unmount
    <2>2. Still(Client(J, Unmount))
      BY <2>1, JobNodes, StillForEach DEF Client, ForEach
    <2>3. Still(generic_mount_exit(J))
      BY <2>2 DEF generic_mount_exit, Unmount
    <2> QED BY <2>3, StillTry DEF start_iscsi_initiators_exit, TryFinally
  <1> QED BY <1>1, <1>2, <1>3, <1>4, <1>5, <1>6, <1>7

\* ssh_keys and hadoop.
LEMMA KeyAndHadoopTasks ==
  ASSUME NEW J \in Jobs
  PROVE  /\ Still(ssh_keys_enter(J)) /\ Still(ssh_keys_exit(J)) /\ Still(hadoop_enter(J)) /\ Still(hadoop_exit(J))
  <1> USE StillEmpty, StillConcat, StillRun, StillTry DEF Unput, Undropped, Evidence, Traces, TryFinally, When
  <1>1. Still(tweak_ssh_config_enter(J)) /\ Still(tweak_ssh_config_exit(J))
    BY DEF tweak_ssh_config_enter, tweak_ssh_config_exit
  <1>2. Still(push_keys_to_host(J))
    <2> DEFINE Push(n) == Each({n}, {"id_rsa"}, {}) \o Each({n}, {"auth_backup"}, {}) \o Each({n}, {"auth_keys"}, {})
    <2>1. \A n : Still(Push(n))
      OBVIOUS
    <2> HIDE DEF Push
    <2>2. Still(ForEach(Nodes, Push))
      BY <2>1, JobNodes, StillForEach DEF ForEach
    <2> QED BY <2>2 DEF push_keys_to_host, Push
  <1>3. Still(cleanup_added_key(J))
    <2> DEFINE Restore(n) == Each({n}, {}, {"id_rsa"}) \o Each({n}, {}, {"auth_backup", "auth_keys"})
    <2>1. \A n : Still(Restore(n))
      OBVIOUS
    <2> HIDE DEF Restore
    <2>2. Still(ForEach(Nodes, Restore))
      BY <2>1, JobNodes, StillForEach DEF ForEach
    <2> QED BY <2>2 DEF cleanup_added_key, Restore
  <1>4. Still(ssh_keys_enter(J)) /\ Still(ssh_keys_exit(J))
    BY <1>1, <1>2, <1>3 DEF ssh_keys_enter, ssh_keys_exit
  <1>5. Still(install_hadoop_enter(J)) /\ Still(install_hadoop_exit(J))
    BY DEF install_hadoop_enter, install_hadoop_exit, hadoop_configure
  <1>6. Still(start_hadoop_enter(J)) /\ Still(start_hadoop_exit(J))
    BY DEF start_hadoop_enter, start_hadoop_exit
  <1>7. Still(hadoop_enter(J)) /\ Still(hadoop_exit(J))
    BY <1>5, <1>6 DEF hadoop_enter, hadoop_exit
  <1> QED BY <1>4, <1>7

\* What starts reboots, and may find that a machine does not run a kernel any more.
KernelTask(t) == t \in {"kernel", "kernel.install_latest_rh_kernel"}

\* Entering a task leaves the traces alone; but for those two no reboot is started.
LEMMA EnterCalm ==
  ASSUME NEW J \in Jobs, NEW t, ~KernelTask(t)
  PROVE  Calm(Enter(J, t), Traces \ Lenient(t, TRUE))
  <1>1. CASE t = "selinux"
    BY <1>1, LenientTasks DEF Enter, Lenient
  <1>2. CASE t # "selinux"
    <2>1. Serene(Enter(J, t))
      BY <1>2, StillEmpty, StillLook, SereneStill, FramingTasks, LoggingTasks, RedHatTasks, InstallTasks,
         AnsibleTasks, CephAnsibleTask, CommandTasks, FileSystemTasks, KeyAndHadoopTasks
         DEF Enter, KernelTask
    <2> QED BY <2>1, CalmSerene
  <1> QED BY <1>1, <1>2

\* Every task but the exit of `archive`.
LEMMA EnterGentle ==
  ASSUME NEW J \in Jobs, NEW t
  PROVE  Gentle(Enter(J, t), Traces \ Lenient(t, TRUE))
  <1>1. CASE ~KernelTask(t)
    BY <1>1, EnterCalm, GentleCalm
  <1>2. CASE KernelTask(t)
    <2>1. Tame(Enter(J, t))
      BY <1>2, StillLook, MuteStill, TameMute, KernelTasks DEF Enter, KernelTask
    <2> QED BY <2>1, GentleTame
  <1> QED BY <1>1, <1>2

\* ... and of every task but `archive`, the exit.
LEMMA ExitGentle ==
  ASSUME NEW J \in Jobs, NEW t, NEW s, NEW told, t # "archive"
  PROVE  Gentle(Exit(J, t, s, told), Traces \ Lenient(t, FALSE))
  <1>1. CASE t = "coredump"
    BY <1>1, LenientTasks, GentleCalm DEF Exit, Lenient
  <1>2. CASE t # "coredump"
    <2>1. Serene(Exit(J, t, s, told))
      BY <1>2, StillEmpty, SereneStill, FramingTasks, LoggingTasks, RedHatTasks, InstallTasks, AnsibleTasks,
         CephAnsibleTask, CommandTasks, FileSystemTasks, KeyAndHadoopTasks
         DEF Exit
    <2> QED BY <2>1, CalmSerene, GentleCalm
  <1> QED BY <1>1, <1>2

-----------------------------------------------------------------------------
(* The exit of `archive`                                                   *)

\* A loop over the nodes leaves none out.
LEMMA AllNodes ==
  /\ SetToSeq(Nodes) \in [1..Cardinality(Nodes) -> Nodes]
  /\ \A n \in Nodes : \E i \in 1..Cardinality(Nodes) : SetToSeq(Nodes)[i] = n
  <1> DEFINE c == Cardinality(Nodes)
             f == SetToSeq(Nodes)
  <1>1. c \in Nat /\ ExistsBijection(1..c, Nodes)
    BY NodesAssumption, FS_CardinalityType
  <1>2. \E g \in [1..c -> Nodes] : IsInjective(g)
    BY <1>1 DEF ExistsBijection, Bijection, Injection
  <1>3. f \in [1..c -> Nodes] /\ IsInjective(f)
    BY <1>2 DEF SetToSeq
  <1>4. f \in Injection(1..c, Nodes)
    BY <1>3 DEF Injection
  <1>5. Cardinality(1..c) = c
    BY <1>1, FS_Interval
  <1>6. f \in Surjection(1..c, Nodes)
    <2> HIDE DEF f, c
    <2>1. IsFiniteSet(Nodes) /\ Cardinality(1..c) = Cardinality(Nodes)
      BY <1>5, NodesAssumption DEF c
    <2> QED BY <2>1, <1>4, FS_Injection
  <1> QED BY <1>3, <1>6 DEF Surjection

\* Concatenation leaves nothing out.
LEMMA ConcatHas ==
  ASSUME NEW C, NEW s \in Seq(C), NEW t \in Seq(C)
  PROVE  /\ s \o t \in Seq(C)
         /\ \A m \in DOMAIN s : m \in DOMAIN (s \o t) /\ (s \o t)[m] = s[m]
         /\ \A k \in DOMAIN t : Len(s) + k \in DOMAIN (s \o t) /\ (s \o t)[Len(s) + k] = t[k]
  OBVIOUS

\* FlattenSeq leaves nothing out.
LEMMA FlattenHas ==
  ASSUME NEW C, NEW ss \in Seq(Seq(C))
  PROVE  /\ FlattenSeq(ss) \in Seq(C)
         /\ \A i \in 1..Len(ss) : \A k \in DOMAIN ss[i] :
              \E m \in DOMAIN FlattenSeq(ss) : FlattenSeq(ss)[m] = ss[i][k]
  <1> DEFINE last == Len(ss)
  <1>0. last \in Nat /\ \A i \in 1..last : ss[i] \in Seq(C)
    OBVIOUS
  <1> SUFFICES /\ FlattenSeq(ss) \in Seq(C)
               /\ \A i \in 1..last : \A k \in DOMAIN ss[i] :
                    \E m \in DOMAIN FlattenSeq(ss) : FlattenSeq(ss)[m] = ss[i][k]
    OBVIOUS
  <1>1. CASE last = 0
    <2>1. FlattenSeq(ss) = <<>>
      BY <1>1 DEF FlattenSeq
    <2>2. 1..last = {}
      BY <1>1
    <2> QED BY <2>1, <2>2
  <1>2. CASE last # 0
    <2>1. PICK f : /\ FlattenSeq(ss) = f[last]
                   /\ \A i \in 1..last : f[i] = IF i = 1 THEN ss[i] ELSE f[i - 1] \o ss[i]
      BY <1>0, <1>2, FlattenSeqIs
    <2> HIDE DEF last
    <2> DEFINE Good(i) == /\ f[i] \in Seq(C)
                          /\ \A j \in 1..i : \A k \in DOMAIN ss[j] : \E m \in DOMAIN f[i] : f[i][m] = ss[j][k]
               Bad == {i \in 1..last : ~Good(i)}
    <2> SUFFICES Good(last)
      BY <2>1
    <2>2. SUFFICES ASSUME Bad # {} PROVE FALSE
      <3>1. last \in 1..last
        BY <1>0, <1>2
      <3> HIDE DEF Good
      <3> QED BY <3>1
    <2>3. PICK i \in Bad : \A m \in Bad : i <= m
      <3> HIDE DEF Bad
      <3> QED BY <2>2, LeastNat, Bad \subseteq Nat DEF Bad
    <2>4. CASE i = 1
      <3>1. f[1] = ss[1] /\ 1 \in 1..last
        BY <1>0, <2>1, <2>3, <2>4
      <3>2. \A j \in 1..1 : j = 1
        OBVIOUS
      <3>3. Good(1)
        BY <1>0, <3>1, <3>2
      <3> QED BY <2>3, <2>4, <3>3
    <2>5. CASE i # 1
      <3>1. i \in 1..last /\ i - 1 \in 1..last /\ ~(i <= i - 1)
        BY <1>0, <2>3, <2>5
      <3>2. Good(i - 1)
        <4> HIDE DEF Good
        <4> QED BY <2>3, <3>1
      <3>3. f[i] = f[i - 1] \o ss[i] /\ ss[i] \in Seq(C) /\ f[i - 1] \in Seq(C)
        BY <1>0, <2>1, <2>5, <3>1, <3>2
      <3>4. /\ f[i] \in Seq(C)
            /\ \A m \in DOMAIN f[i - 1] : m \in DOMAIN f[i] /\ f[i][m] = f[i - 1][m]
            /\ \A k \in DOMAIN ss[i] : Len(f[i - 1]) + k \in DOMAIN f[i] /\ f[i][Len(f[i - 1]) + k] = ss[i][k]
        <4> DEFINE u == f[i - 1]
                   v == ss[i]
        <4>1. f[i] = u \o v /\ u \in Seq(C) /\ v \in Seq(C)
          BY <3>3
        <4> HIDE DEF u, v
        <4>2. /\ u \o v \in Seq(C)
              /\ \A m \in DOMAIN u : m \in DOMAIN (u \o v) /\ (u \o v)[m] = u[m]
              /\ \A k \in DOMAIN v : Len(u) + k \in DOMAIN (u \o v) /\ (u \o v)[Len(u) + k] = v[k]
          BY <4>1, ConcatHas
        <4> QED BY <4>1, <4>2 DEF u, v
      <3>5. \A j \in 1..i : j = i \/ j \in 1..(i - 1)
        BY <3>1
      <3>6. \A j \in 1..(i - 1) : \A k \in DOMAIN ss[j] : \E m \in DOMAIN f[i] : f[i][m] = ss[j][k]
        <4> TAKE j \in 1..(i - 1)
        <4> TAKE k \in DOMAIN ss[j]
        <4>1. PICK m \in DOMAIN f[i - 1] : f[i - 1][m] = ss[j][k]
          BY <3>2
        <4> QED BY <4>1, <3>4
      <3>7. Good(i)
        BY <3>4, <3>5, <3>6
      <3> QED BY <2>3, <3>7
    <2> QED BY <2>4, <2>5
  <1> QED BY <1>1, <1>2

\* What fetches node n's evidence.
Fetch(n) == Pull({n}, Evidence)[1]

\* Command c is one of the program p.
Has(p, c) == \E i \in DOMAIN p : p[i] = c

\* Transferring the archives leaves the nodes' evidence alone.
LEMMA TransferredMute ==
  ASSUME NEW J, NEW s
  PROVE  Mute(Transferred(J, s))
  <1> USE StillEmpty, StillConcat, StillRun, StillLook DEF When
  <1> DEFINE Transfer(n) ==
               When("bad_min_size" \in J.has, Raise) \o Pull({n}, Evidence) \o fetch_binaries_for_coredumps(n)
  <1>1. \A n : Still(Transfer(n))
    BY StillBranch DEF fetch_binaries_for_coredumps, IfCores, Unput, Evidence
  <1> HIDE DEF Transfer
  <1>2. Still(ForEach(Nodes, Transfer))
    BY <1>1, StillForEach, Nodes \in SUBSET Nodes DEF ForEach
  <1>3. Still(Transferred(J, s))
    BY <1>2 DEF Transferred, Transfer
  <1> QED BY <1>3, MuteStill

\* It fetches the evidence of each node, if it is wanted.
LEMMA TransferredHas ==
  ASSUME NEW J, NEW s, "archive" \in J.has, ~("archive-on-error" \in J.has /\ s = "pass"), NEW n \in Nodes
  PROVE  \E m \in DOMAIN Transferred(J, s) : Transferred(J, s)[m] = Fetch(n)
  <1> DEFINE Transfer(x) ==
               When("bad_min_size" \in J.has, Raise) \o Pull({x}, Evidence) \o fetch_binaries_for_coredumps(x)
             c == Cardinality(Nodes)
             ss == [i \in 1..c |-> Transfer(SetToSeq(Nodes)[i])]
             C == UNION {{ss[i][k] : k \in DOMAIN ss[i]} : i \in 1..c}
  <1>1. Transferred(J, s) = FlattenSeq(ss)
    BY DEF Transferred, When, ForEach
  <1>2. c \in Nat
    BY NodesCount
  <1>3. \A x : /\ Transfer(x) \in Seq({Transfer(x)[k] : k \in DOMAIN Transfer(x)})
               /\ \E k \in DOMAIN Transfer(x) : Transfer(x)[k] = Fetch(x)
    <2> TAKE x
    <2> DEFINE a == When("bad_min_size" \in J.has, Raise)
               b == fetch_binaries_for_coredumps(x)
    <2>1. PICK r : a = <<>> \/ a = <<r>>
      BY DEF When, Raise
    <2>2. PICK t : b = <<t>>
      BY DEF fetch_binaries_for_coredumps, IfCores, Branch
    <2>3. Pull({x}, Evidence) = <<Fetch(x)>>
      BY DEF Pull, Fetch
    <2> DEFINE T == {r, Fetch(x), t}
               q == a \o <<Fetch(x)>>
    <2>4. Transfer(x) = q \o <<t>>
      BY <2>2, <2>3
    <2> HIDE DEF a
    <2>5. a \in Seq(T) /\ <<Fetch(x)>> \in Seq(T) /\ <<t>> \in Seq(T)
      <3>1. r \in T /\ Fetch(x) \in T /\ t \in T
        OBVIOUS
      <3> HIDE DEF T
      <3>2. <<>> \in Seq(T) /\ <<r>> \in Seq(T) /\ <<Fetch(x)>> \in Seq(T) /\ <<t>> \in Seq(T)
        BY <3>1
      <3> QED BY <2>1, <3>2
    <2> HIDE DEF T, Transfer
    <2>6. q \in Seq(T) /\ Len(q) = Len(a) + 1 /\ q[Len(q)] = Fetch(x)
      BY <2>5, ConcatProperties
    <2> HIDE DEF q
    <2>7. q \o <<t>> \in Seq(T) /\ Len(q) \in DOMAIN (q \o <<t>>) /\ (q \o <<t>>)[Len(q)] = Fetch(x)
      <3>1. Len(q) \in DOMAIN q
        BY <2>5, <2>6
      <3> DEFINE u == <<t>>
      <3>2. u \in Seq(T)
        BY <2>5
      <3> HIDE DEF u
      <3>3. q \o u \in Seq(T) /\ Len(q) \in DOMAIN (q \o u) /\ (q \o u)[Len(q)] = q[Len(q)]
        BY <2>6, <3>1, <3>2, ConcatHas
      <3> QED BY <2>6, <3>3 DEF u
    <2> DEFINE w == q \o <<t>>
    <2>8. w \in Seq(T) /\ Len(q) \in DOMAIN w /\ w[Len(q)] = Fetch(x) /\ Transfer(x) = w
      BY <2>4, <2>7
    <2> HIDE DEF w
    <2>9. w \in Seq({w[k] : k \in DOMAIN w})
      BY <2>8
    <2> QED BY <2>8, <2>9
  <1> HIDE DEF Transfer
  <1>4. \A i \in 1..c : ss[i] \in Seq(C)
    <2> TAKE i \in 1..c
    <2>1. ss[i] \in Seq({ss[i][k] : k \in DOMAIN ss[i]})
      BY <1>3
    <2>2. {ss[i][k] : k \in DOMAIN ss[i]} \subseteq C
      OBVIOUS
    <2> HIDE DEF ss, C
    <2> QED BY <2>1, <2>2, SeqMonotonic
  <1>5. PICK i \in 1..c : SetToSeq(Nodes)[i] = n
    BY AllNodes
  <1>6. PICK k \in DOMAIN ss[i] : ss[i][k] = Fetch(n)
    BY <1>3, <1>5
  <1>7. ss \in Seq(Seq(C)) /\ Len(ss) = c
    <2> HIDE DEF C
    <2> QED BY <1>2, <1>4
  <1> HIDE DEF ss, C, c
  <1>8. \E m \in DOMAIN FlattenSeq(ss) : FlattenSeq(ss)[m] = ss[i][k]
    BY <1>7, FlattenHas
  <1> QED BY <1>1, <1>6, <1>8

-----------------------------------------------------------------------------
(* The order of the tasks                                                  *)

InitialNames ==
  {"check_packages", "buildpackages_prep", "lock_machines", "save_config", "check_lock", "add_remotes", "console_log",
   "connect", "push_inventory", "serialize_remote_roles", "check_conflict", "check_ceph_data", "vm_setup", "kernel",
   "base", "archive_upload", "archive", "coredump", "sudo", "syslog", "timer", "pcp", "selinux", "setup_stage_cdn",
   "ansible.cephlab", "clock.check", "clock", "git_ignore_ssl", "setup_cdn_repo", "setup_base_repo",
   "setup_additional_repo", "setup_container_registry", "install", "kernel.install_latest_rh_kernel"}

\* The tasks that put evidence in the archive, and that find what has gone wrong.
Finders == {"coredump", "syslog", "selinux"}
Framing == {"archive"} \cup Finders

\* None of them is in s; all of the latter are, after `archive`.
Apart(s) == \A i \in 1..Len(s) : s[i] \notin Framing

Framed(s) ==
  /\ \A t \in Finders : \E i \in 1..Len(s) : s[i] = t
  /\ \A i, j \in 1..Len(s) : s[i] = "archive" /\ s[j] \in Finders => i < j

\* What one sequence frames is framed with others around it.
LEMMA FramedConcat ==
  ASSUME NEW T, NEW s \in Seq(T), NEW t \in Seq(T)
  PROVE  /\ Apart(s) /\ Apart(t) => Apart(s \o t)
         /\ Apart(s) /\ Framed(t) => Framed(s \o t)
         /\ Framed(s) /\ Apart(t) => Framed(s \o t)
  <1> DEFINE r == s \o t
  <1>1. /\ r \in Seq(T) /\ Len(r) = Len(s) + Len(t)
        /\ \A i \in 1..(Len(s) + Len(t)) : r[i] = IF i <= Len(s) THEN s[i] ELSE t[i - Len(s)]
    BY ConcatProperties
  <1>2. Len(s) \in Nat /\ Len(t) \in Nat
    OBVIOUS
  <1> HIDE DEF r
  <1>3. /\ \A i \in 1..Len(s) : i \in 1..Len(r) /\ r[i] = s[i]
        /\ \A i \in 1..Len(t) : Len(s) + i \in 1..Len(r) /\ r[Len(s) + i] = t[i]
        /\ \A i \in 1..Len(r) : \/ i \in 1..Len(s) /\ r[i] = s[i]
                                \/ i - Len(s) \in 1..Len(t) /\ r[i] = t[i - Len(s)]
    <2>1. \A i \in 1..Len(s) : i \in 1..Len(r) /\ r[i] = s[i]
      BY <1>1, <1>2
    <2>2. ASSUME NEW i \in 1..Len(t) PROVE Len(s) + i \in 1..Len(r) /\ r[Len(s) + i] = t[i]
      <3>1. Len(s) + i \in 1..(Len(s) + Len(t)) /\ ~(Len(s) + i <= Len(s)) /\ Len(s) + i - Len(s) = i
        BY <1>2
      <3> QED BY <3>1, <1>1
    <2>3. ASSUME NEW i \in 1..Len(r)
          PROVE  \/ i \in 1..Len(s) /\ r[i] = s[i]
                 \/ i - Len(s) \in 1..Len(t) /\ r[i] = t[i - Len(s)]
      BY <1>1, <1>2
    <2> QED BY <2>1, <2>2, <2>3
  <1>4. ASSUME Apart(s), Apart(t) PROVE Apart(r)
    BY <1>3, <1>4 DEF Apart
  <1>5. ASSUME Apart(s), Framed(t) PROVE Framed(r)
    <2>1. \A x \in Finders : \E i \in 1..Len(r) : r[i] = x
      <3> TAKE x \in Finders
      <3>1. PICK i \in 1..Len(t) : t[i] = x
        BY <1>5 DEF Framed
      <3> QED BY <3>1, <1>3
    <2>2. ASSUME NEW i \in 1..Len(r), NEW j \in 1..Len(r), r[i] = "archive", r[j] \in Finders PROVE i < j
      <3>1. i - Len(s) \in 1..Len(t) /\ t[i - Len(s)] = "archive"
        BY <1>3, <1>5, <2>2 DEF Apart, Framing
      <3>2. j - Len(s) \in 1..Len(t) /\ t[j - Len(s)] \in Finders
        BY <1>3, <1>5, <2>2 DEF Apart, Framing
      <3>3. i - Len(s) < j - Len(s)
        BY <3>1, <3>2, <1>5 DEF Framed
      <3> QED BY <3>3, <1>1, <1>2
    <2> QED BY <2>1, <2>2 DEF Framed
  <1>6. ASSUME Framed(s), Apart(t) PROVE Framed(r)
    <2>1. \A x \in Finders : \E i \in 1..Len(r) : r[i] = x
      <3> TAKE x \in Finders
      <3>1. PICK i \in 1..Len(s) : s[i] = x
        BY <1>6 DEF Framed
      <3> QED BY <3>1, <1>3
    <2>2. ASSUME NEW i \in 1..Len(r), NEW j \in 1..Len(r), r[i] = "archive", r[j] \in Finders PROVE i < j
      <3>1. i \in 1..Len(s) /\ s[i] = "archive"
        BY <1>3, <1>6, <2>2 DEF Apart, Framing
      <3>2. j \in 1..Len(s) /\ s[j] \in Finders
        BY <1>3, <1>6, <2>2 DEF Apart, Framing
      <3> QED BY <3>1, <3>2, <1>6 DEF Framed
    <2> QED BY <2>1, <2>2 DEF Framed
  <1> QED BY <1>4, <1>5, <1>6 DEF r

\* The tasks that come first are framed, the last of them is another one, and none is buildpackages.
LEMMA InitialTasks ==
  ASSUME NEW J \in Jobs
  PROVE  /\ get_initial_tasks(J) \in Seq(InitialNames)
         /\ Len(get_initial_tasks(J)) # 0
         /\ Framed(get_initial_tasks(J))
         /\ \A i \in 1..Len(get_initial_tasks(J)) :
              get_initial_tasks(J)[i] \in Framing => i < Len(get_initial_tasks(J))
  <1> DEFINE rh == "redhat" \in J.has
             T  == InitialNames
             p1 == When(~rh /\ {"repos", "no_verify_ceph_hash"} \cap J.has = {}, <<"check_packages", "buildpackages_prep">>)
             p2 == When("lock" \in J.has, <<"lock_machines">>)
             p3 == <<"save_config", "check_lock", "add_remotes", "console_log", "connect", "push_inventory",
                     "serialize_remote_roles", "check_conflict">>
             p4 == When("use_existing_cluster" \notin J.has, <<"check_ceph_data", "vm_setup">>)
             p5 == When(~rh /\ "kernel" \in J.has, <<"kernel">>)
             p6 == <<"base", "archive_upload", "archive", "coredump", "sudo", "syslog", "timer", "pcp", "selinux">>
             p7 == When(rh, <<"setup_stage_cdn">>)
             p8 == When("ceph_cm_ansible" \in J.has, <<"ansible.cephlab">>)
             p9 == <<IF "clock.check" \in J.has THEN "clock.check" ELSE "clock">>
             p10 == When(rh, <<"git_ignore_ssl", "setup_cdn_repo", "setup_base_repo", "setup_additional_repo",
                               "setup_container_registry", "install">>)
             p11 == When(rh /\ "install_latest_rh_kernel" \in J.has, <<"kernel.install_latest_rh_kernel">>)
             before == (((p1 \o p2) \o p3) \o p4) \o p5
             until  == ((before \o p6) \o p7) \o p8
             Other(s) == s \in Seq(T) /\ Apart(s)
             Early(s) == /\ s \in Seq(T) /\ Len(s) # 0 /\ Framed(s)
                         /\ \A i \in 1..Len(s) : s[i] \in Framing => i < Len(s)
  <1>1. get_initial_tasks(J) = ((until \o p9) \o p10) \o p11
    BY DEF get_initial_tasks
  <1>2. \A S, p : S \subseteq T /\ S \cap Framing = {} /\ p \in Seq(S) => Other(p)
    <2> SUFFICES ASSUME NEW S, NEW p, S \subseteq T, S \cap Framing = {}, p \in Seq(S)
                 PROVE  Other(p)
      OBVIOUS
    <2>1. p \in Seq(T)
      BY SeqMonotonic
    <2>2. \A i \in 1..Len(p) : p[i] \in S
      OBVIOUS
    <2> QED BY <2>1, <2>2 DEF Apart
  <1>3. /\ Other(p1) /\ Other(p2) /\ Other(p3) /\ Other(p4) /\ Other(p5)
        /\ Other(p7) /\ Other(p8) /\ Other(p9) /\ Other(p10) /\ Other(p11)
    <2> DEFINE S == T \ Framing
    <2>1. S \subseteq T /\ S \cap Framing = {}
      OBVIOUS
    <2>2. /\ {"check_packages", "buildpackages_prep", "lock_machines"} \subseteq S
          /\ {"save_config", "check_lock", "add_remotes", "console_log", "connect", "push_inventory",
              "serialize_remote_roles", "check_conflict"} \subseteq S
          /\ {"check_ceph_data", "vm_setup", "kernel", "setup_stage_cdn", "ansible.cephlab"} \subseteq S
          /\ {"clock.check", "clock"} \subseteq S
          /\ {"git_ignore_ssl", "setup_cdn_repo", "setup_base_repo", "setup_additional_repo",
              "setup_container_registry", "install"} \subseteq S
          /\ {"kernel.install_latest_rh_kernel"} \subseteq S
      BY DEF InitialNames, Framing, Finders
    <2> HIDE DEF S, T, Other
    <2>3. p1 \in Seq(S) /\ p2 \in Seq(S)
      BY <2>2 DEF When
    <2>4. p3 \in Seq(S)
      BY <2>2
    <2>5. p4 \in Seq(S) /\ p5 \in Seq(S) /\ p7 \in Seq(S) /\ p8 \in Seq(S)
      BY <2>2 DEF When
    <2>6. p9 \in Seq(S)
      <3>1. (IF "clock.check" \in J.has THEN "clock.check" ELSE "clock") \in S
        BY <2>2
      <3> QED BY <3>1
    <2>7. p10 \in Seq(S)
      BY <2>2 DEF When
    <2>8. p11 \in Seq(S)
      BY <2>2 DEF When
    <2> HIDE DEF p1, p2, p3, p4, p5, p7, p8, p9, p10, p11
    <2> QED BY <1>2, <2>1, <2>3, <2>4, <2>5, <2>6, <2>7, <2>8
  <1>4. p6 \in Seq(T) /\ Framed(p6)
    <2>1. p6 \in Seq(T)
      <3>1. {"base", "archive_upload", "archive", "coredump", "sudo", "syslog", "timer", "pcp", "selinux"} \subseteq T
        BY DEF InitialNames
      <3> HIDE DEF T
      <3> QED BY <3>1
    <2>2. /\ Len(p6) = 9 /\ p6[1] = "base" /\ p6[2] = "archive_upload" /\ p6[3] = "archive" /\ p6[4] = "coredump"
          /\ p6[5] = "sudo" /\ p6[6] = "syslog" /\ p6[7] = "timer" /\ p6[8] = "pcp" /\ p6[9] = "selinux"
      OBVIOUS
    <2> HIDE DEF p6
    <2>3. \A i \in 1..Len(p6) : i = 1 \/ i = 2 \/ i = 3 \/ i = 4 \/ i = 5 \/ i = 6 \/ i = 7 \/ i = 8 \/ i = 9
      BY <2>2
    <2>4. \A i \in 1..Len(p6) : p6[i] = "archive" => i = 3
      BY <2>2, <2>3
    <2>5. \A i \in 1..Len(p6) : p6[i] \in Finders => i = 4 \/ i = 6 \/ i = 9
      BY <2>2, <2>3 DEF Finders
    <2>6. \A t \in Finders : \E i \in 1..Len(p6) : p6[i] = t
      BY <2>2 DEF Finders
    <2> QED BY <2>1, <2>4, <2>5, <2>6 DEF Framed
  <1>5. Len(p9) = 1
    OBVIOUS
  <1> HIDE DEF p1, p2, p3, p4, p5, p6, p7, p8, p9, p10, p11, T
  <1>6. \A s, t : Other(s) /\ Other(t) => Other(s \o t)
    BY FramedConcat, ConcatProperties
  <1>7. Other(before)
    <2> HIDE DEF Other
    <2> QED BY <1>3, <1>6
  <1> HIDE DEF before
  <1>8. /\ \A s, t : Other(s) /\ t \in Seq(T) /\ Framed(t) => s \o t \in Seq(T) /\ Framed(s \o t)
        /\ \A s, t : s \in Seq(T) /\ Framed(s) /\ Other(t) => s \o t \in Seq(T) /\ Framed(s \o t)
    BY FramedConcat, ConcatProperties
  <1>9. until \in Seq(T) /\ Framed(until)
    <2>1. before \o p6 \in Seq(T) /\ Framed(before \o p6)
      BY <1>4, <1>7, <1>8
    <2>2. (before \o p6) \o p7 \in Seq(T) /\ Framed((before \o p6) \o p7)
      BY <2>1, <1>3, <1>8
    <2> QED BY <2>2, <1>3, <1>8
  <1> HIDE DEF until
  <1>10. Early(until \o p9)
    <2>1. until \o p9 \in Seq(T) /\ Framed(until \o p9)
      BY <1>3, <1>8, <1>9
    <2>2. /\ Len(until \o p9) = Len(until) + 1
          /\ (until \o p9)[Len(until) + 1] = p9[1]
      <3>1. p9 \in Seq(T) /\ Len(p9) = 1 /\ Len(until) \in Nat
        BY <1>3, <1>5, <1>9
      <3>2. /\ Len(until \o p9) = Len(until) + Len(p9)
            /\ \A i \in 1..(Len(until) + Len(p9)) :
                 (until \o p9)[i] = IF i <= Len(until) THEN until[i] ELSE p9[i - Len(until)]
        BY <3>1, <1>9, ConcatProperties
      <3>3. Len(until) + 1 \in 1..(Len(until) + 1) /\ ~(Len(until) + 1 <= Len(until))
            /\ Len(until) + 1 - Len(until) = 1
        BY <3>1
      <3> QED BY <3>1, <3>2, <3>3
    <2>3. p9[1] \notin Framing
      BY <1>3, <1>5 DEF Apart
    <2>4. Len(until) \in Nat
      BY <1>9
    <2> QED BY <2>1, <2>2, <2>3, <2>4
  <1>11. \A s, t : Early(s) /\ Other(t) => Early(s \o t)
    <2> SUFFICES ASSUME NEW s, NEW t, Early(s), Other(t)
                 PROVE  Early(s \o t)
      OBVIOUS
    <2>1. /\ s \o t \in Seq(T) /\ Len(s \o t) = Len(s) + Len(t)
          /\ \A i \in 1..(Len(s) + Len(t)) : (s \o t)[i] = IF i <= Len(s) THEN s[i] ELSE t[i - Len(s)]
      BY ConcatProperties
    <2>2. Len(s) \in Nat /\ Len(t) \in Nat /\ Framed(s \o t)
      BY <1>8
    <2>3. ASSUME NEW i \in 1..(Len(s) + Len(t)), (s \o t)[i] \in Framing
          PROVE  i < Len(s) + Len(t)
      <3>1. i <= Len(s)
        BY <2>1, <2>2, <2>3 DEF Apart
      <3> QED BY <3>1, <2>1, <2>2, <2>3
    <2> QED BY <2>1, <2>2, <2>3
  <1> HIDE DEF Early, Other
  <1>12. Early(get_initial_tasks(J))
    BY <1>1, <1>3, <1>10, <1>11
  <1> QED BY <1>12 DEF Early, T

\* The last place of a name in a sequence, or 0.
LEMMA LastPlace ==
  ASSUME NEW s, Len(s) \in Nat, NEW x
  PROVE  LET i == SelectLastInSeq(s, LAMBDA t : t = x)
         IN  i = 0 \/ (i \in 1..Len(s) /\ s[i] = x)
  <1> DEFINE I == {i \in 1..Len(s) : s[i] = x}
             i == SelectLastInSeq(s, LAMBDA t : t = x)
  <1>1. i = IF I # {} THEN Max(I) ELSE 0
    BY DEF SelectLastInSeq
  <1>2. CASE I # {}
    <2> DEFINE D == {Len(s) - j : j \in I}
    <2>1. D \subseteq Nat /\ D # {}
      BY <1>2
    <2>2. PICK d \in D : \A e \in D : d <= e
      <3> HIDE DEF D
      <3> QED BY <2>1, LeastNat
    <2>3. PICK j \in I : d = Len(s) - j
      BY <2>2
    <2>4. \A k \in I : j >= k
      <3> TAKE k \in I
      <3>1. Len(s) - k \in D
        OBVIOUS
      <3>2. Len(s) - j <= Len(s) - k
        BY <2>2, <2>3, <3>1
      <3>3. j \in Int /\ k \in Int
        BY <2>3
      <3> HIDE DEF I, D
      <3> QED BY <3>2, <3>3
    <2>5. Max(I) \in I
      <3> HIDE DEF I
      <3> QED BY <2>4 DEF Max
    <2> QED BY <1>1, <1>2, <2>5
  <1>3. CASE I = {}
    BY <1>1, <1>3
  <1> QED BY <1>2, <1>3

\* What RemoveAt and InsertAt return.
LEMMA RemoveProperties ==
  ASSUME NEW T, NEW s \in Seq(T), NEW i \in 1..Len(s)
  PROVE  /\ RemoveAt(s, i) \in Seq(T)
         /\ Len(RemoveAt(s, i)) = Len(s) - 1
         /\ \A j \in 1..(Len(s) - 1) : RemoveAt(s, i)[j] = IF j < i THEN s[j] ELSE s[j + 1]
  <1> DEFINE a == SubSeq(s, 1, i - 1)
             b == SubSeq(s, i + 1, Len(s))
  <1>1. /\ a \in Seq(T) /\ Len(a) = i - 1 /\ \A j \in 1..(i - 1) : a[j] = s[j]
    OBVIOUS
  <1>2. /\ b \in Seq(T) /\ Len(b) = Len(s) - i /\ \A j \in 1..(Len(s) - i) : b[j] = s[j + i]
    OBVIOUS
  <1>3. RemoveAt(s, i) = a \o b
    BY DEF RemoveAt
  <1> HIDE DEF a, b
  <1>0. Len(s) \in Nat /\ i \in Nat
    OBVIOUS
  <1>4. a \o b \in Seq(T) /\ Len(a \o b) = Len(s) - 1
    <2>1. a \o b \in Seq(T) /\ Len(a \o b) = Len(a) + Len(b)
      BY <1>1, <1>2, ConcatProperties
    <2> QED BY <2>1, <1>0, <1>1, <1>2
  <1>5. \A j \in 1..(Len(s) - 1) : (a \o b)[j] = IF j < i THEN s[j] ELSE s[j + 1]
    <2> TAKE j \in 1..(Len(s) - 1)
    <2>1. (a \o b)[j] = IF j <= Len(a) THEN a[j] ELSE b[j - Len(a)]
      <3>1. j \in 1..(Len(a) + Len(b))
        BY <1>0, <1>1, <1>2
      <3> QED BY <3>1, <1>1, <1>2, ConcatProperties
    <2>2. CASE j < i
      BY <2>1, <2>2, <1>0, <1>1
    <2>3. CASE ~(j < i)
      <3>1. ~(j <= Len(a)) /\ j - Len(a) = j - i + 1 /\ j - i + 1 \in 1..(Len(s) - i)
        BY <2>3, <1>0, <1>1
      <3>2. b[j - i + 1] = s[j - i + 1 + i] /\ j - i + 1 + i = j + 1
        BY <1>0, <1>2, <3>1
      <3> QED BY <2>1, <2>3, <3>1, <3>2
    <2> QED BY <2>2, <2>3
  <1> QED BY <1>3, <1>4, <1>5

LEMMA InsertProperties ==
  ASSUME NEW T, NEW s \in Seq(T), NEW i \in 1..(Len(s) + 1), NEW e \in T
  PROVE  /\ InsertAt(s, i, e) \in Seq(T)
         /\ Len(InsertAt(s, i, e)) = Len(s) + 1
         /\ \A j \in 1..(Len(s) + 1) :
              InsertAt(s, i, e)[j] = IF j < i THEN s[j] ELSE IF j = i THEN e ELSE s[j - 1]
  <1> DEFINE a == SubSeq(s, 1, i - 1)
             b == SubSeq(s, i, Len(s))
             c == a \o <<e>>
  <1>1. /\ a \in Seq(T) /\ Len(a) = i - 1 /\ \A j \in 1..(i - 1) : a[j] = s[j]
    OBVIOUS
  <1>2. /\ b \in Seq(T) /\ Len(b) = Len(s) - i + 1 /\ \A j \in 1..(Len(s) - i + 1) : b[j] = s[j + i - 1]
    OBVIOUS
  <1>3. InsertAt(s, i, e) = c \o b
    BY DEF InsertAt
  <1> HIDE DEF a, b
  <1>4. c \in Seq(T) /\ Len(c) = i /\ \A j \in 1..i : c[j] = IF j < i THEN s[j] ELSE e
    BY <1>1
  <1> HIDE DEF c
  <1>0. Len(s) \in Nat /\ i \in Nat
    OBVIOUS
  <1>5. c \o b \in Seq(T) /\ Len(c \o b) = Len(s) + 1
    <2>1. c \o b \in Seq(T) /\ Len(c \o b) = Len(c) + Len(b)
      BY <1>4, <1>2, ConcatProperties
    <2> QED BY <2>1, <1>0, <1>4, <1>2
  <1>6. \A j \in 1..(Len(s) + 1) : (c \o b)[j] = IF j < i THEN s[j] ELSE IF j = i THEN e ELSE s[j - 1]
    <2> TAKE j \in 1..(Len(s) + 1)
    <2>1. (c \o b)[j] = IF j <= Len(c) THEN c[j] ELSE b[j - Len(c)]
      <3>1. j \in 1..(Len(c) + Len(b))
        BY <1>0, <1>2, <1>4
      <3> QED BY <3>1, <1>2, <1>4, ConcatProperties
    <2>2. CASE j <= i
      BY <2>1, <2>2, <1>0, <1>4
    <2>3. CASE ~(j <= i)
      <3>1. ~(j <= Len(c)) /\ j - Len(c) = j - i /\ j - i \in 1..(Len(s) - i + 1)
        BY <2>3, <1>0, <1>4
      <3>2. b[j - i] = s[j - i + i - 1] /\ j - i + i - 1 = j - 1
        BY <1>0, <1>2, <3>1
      <3> QED BY <2>1, <2>3, <3>1, <3>2
    <2> QED BY <2>2, <2>3
  <1> QED BY <1>3, <1>5, <1>6

\* None of them is a task of the configuration, also when buildpackages was moved.
LEMMA TasksFramed ==
  ASSUME NEW J \in Jobs
  PROVE  /\ Len(Tasks(J)) \in Nat /\ Len(Tasks(J)) # 0
         /\ Framed(Tasks(J))
         /\ \A i \in 1..Len(Tasks(J)) : Tasks(J)[i] \in Framing => i <= Len(get_initial_tasks(J))
  <1> DEFINE T    == InitialNames \cup (STRING \cup {"buildpackages"})
             init == get_initial_tasks(J)
             L    == Len(init)
             ts   == init \o J.tasks
             Place(name) == SelectLastInSeq(ts, LAMBDA t : t = name)
             prep   == Place("buildpackages_prep")
             index  == Place("buildpackages")
             others == RemoveAt(ts, index)
  <1>1. /\ init \in Seq(T) /\ L \in Nat /\ Framed(init)
        /\ \A i \in 1..L : init[i] # "buildpackages" /\ (init[i] \in Framing => i < L)
    <2>1. init \in Seq(InitialNames) /\ Framed(init) /\ \A i \in 1..L : init[i] \in Framing => i < L
      BY InitialTasks
    <2>2. init \in Seq(T)
      BY <2>1, SeqMonotonic
    <2>3. "buildpackages" \notin InitialNames
      BY DEF InitialNames
    <2> HIDE DEF init, T
    <2>4. L \in Nat /\ \A i \in 1..L : init[i] \in InitialNames
      BY <2>1
    <2> QED BY <2>1, <2>2, <2>3, <2>4
  <1>2. J.tasks \in Seq(STRING \ {"archive", "coredump", "syslog", "selinux"})
    BY JobsAssumption
  <1>3. J.tasks \in Seq(T) /\ Apart(J.tasks)
    <2>1. J.tasks \in Seq(T)
      BY <1>2, SeqMonotonic
    <2> HIDE DEF T
    <2>2. \A i \in 1..Len(J.tasks) : J.tasks[i] \in STRING \ {"archive", "coredump", "syslog", "selinux"}
      BY <1>2
    <2> QED BY <2>1, <2>2 DEF Apart, Framing, Finders
  <1>4. Tasks(J) = IF prep = 0 \/ index = 0 THEN ts
                   ELSE IF Place("install") = 0 THEN others
                   ELSE IF index > prep + 1 THEN InsertAt(others, prep + 1, "buildpackages")
                   ELSE ts
    BY DEF Tasks, buildpackages_prep
  <1>5. /\ ts \in Seq(T) /\ Len(ts) = L + Len(J.tasks)
        /\ \A i \in 1..Len(ts) : ts[i] = IF i <= L THEN init[i] ELSE J.tasks[i - L]
    <2> HIDE DEF init, T
    <2>1. Len(ts) = L + Len(J.tasks)
      BY <1>1, <1>3, ConcatProperties
    <2> QED BY <2>1, <1>1, <1>3, ConcatProperties
  <1>6. Len(J.tasks) \in Nat /\ Len(ts) \in Nat /\ L >= 1
    <2>1. L >= 1
      BY <1>1, InitialTasks
    <2> QED BY <2>1, <1>3, <1>5
  <1>7. /\ index = 0 \/ (index \in 1..Len(ts) /\ ts[index] = "buildpackages")
        /\ prep = 0 \/ prep \in 1..Len(ts)
    <2>1. index = 0 \/ (index \in 1..Len(ts) /\ ts[index] = "buildpackages")
      BY <1>6, LastPlace
    <2>2. prep = 0 \/ (prep \in 1..Len(ts) /\ ts[prep] = "buildpackages_prep")
      BY <1>6, LastPlace
    <2> HIDE DEF prep, index
    <2> QED BY <2>1, <2>2
  <1>8. Framed(ts)
    <2> HIDE DEF init, T
    <2> QED BY <1>1, <1>3, FramedConcat
  <1> HIDE DEF Place, T, init, L, ts, prep, index, others
  <1>9. \A i \in 1..Len(ts) : ts[i] \in Framing => i < L
    <2> TAKE i \in 1..Len(ts)
    <2>1. CASE i <= L
      BY <2>1, <1>1, <1>5
    <2>2. CASE ~(i <= L)
      <3>1. i - L \in 1..Len(J.tasks)
        BY <2>2, <1>1, <1>5, <1>6
      <3> QED BY <3>1, <2>2, <1>3, <1>5 DEF Apart
    <2> QED BY <2>1, <2>2
  <1>10. CASE Tasks(J) = ts
    BY <1>1, <1>5, <1>6, <1>8, <1>9, <1>10 DEF L, init
  <1>11. CASE index # 0
    <2>1. index \in 1..Len(ts) /\ index > L
      BY <1>11, <1>1, <1>5, <1>7
    <2>2. /\ others \in Seq(T) /\ Len(others) = Len(ts) - 1
          /\ \A j \in 1..(Len(ts) - 1) : others[j] = IF j < index THEN ts[j] ELSE ts[j + 1]
      BY <2>1, <1>5, RemoveProperties DEF others
    <2>3. /\ \A i \in 1..Len(others) : others[i] \in Framing => i < L /\ i \in 1..Len(ts) /\ ts[i] = others[i]
          /\ \A i \in 1..Len(ts) : ts[i] \in Framing => i \in 1..Len(others) /\ ts[i] = others[i]
      <3>1. ASSUME NEW i \in 1..Len(others), others[i] \in Framing
            PROVE  i < L /\ i \in 1..Len(ts) /\ ts[i] = others[i]
        <4>1. CASE i < index
          BY <4>1, <2>1, <2>2, <3>1, <1>6, <1>9
        <4>2. CASE ~(i < index)
          <5>1. others[i] = ts[i + 1] /\ i + 1 \in 1..Len(ts) /\ ~(i + 1 < L)
            BY <4>2, <2>1, <2>2, <1>1, <1>6
          <5> QED BY <5>1, <3>1, <1>9
        <4> QED BY <4>1, <4>2
      <3>2. ASSUME NEW i \in 1..Len(ts), ts[i] \in Framing
            PROVE  i \in 1..Len(others) /\ ts[i] = others[i]
        <4>1. i < L /\ i < index /\ i \in 1..(Len(ts) - 1)
          BY <3>2, <2>1, <1>1, <1>6, <1>9
        <4> QED BY <4>1, <2>2
      <3> QED BY <3>1, <3>2
    <2>4. Framed(others)
      BY <2>3, <1>8 DEF Framed, Framing
    <2>5. CASE Tasks(J) = others
      BY <2>1, <2>2, <2>3, <2>4, <2>5, <1>1, <1>6 DEF L, init
    <2>6. CASE Tasks(J) = InsertAt(others, prep + 1, "buildpackages") /\ prep # 0 /\ index > prep + 1
      <3> DEFINE Shifted(i) == IF i < prep + 1 THEN i ELSE i + 1
      <3>1. prep + 1 \in 1..(Len(others) + 1) /\ "buildpackages" \in T
        <4>1. prep + 1 \in 1..(Len(others) + 1)
          <5>1. prep \in 1..Len(ts)
            BY <2>6, <1>7
          <5> QED BY <5>1, <2>1, <2>2, <2>6, <1>6
        <4>2. "buildpackages" \in T
          BY DEF T
        <4> QED BY <4>1, <4>2
      <3>2. /\ Len(Tasks(J)) = Len(others) + 1
            /\ \A j \in 1..(Len(others) + 1) :
                 Tasks(J)[j] = IF j < prep + 1 THEN others[j]
                               ELSE IF j = prep + 1 THEN "buildpackages" ELSE others[j - 1]
        BY <3>1, <2>2, <2>6, InsertProperties
      <3>3. Len(others) \in Nat /\ prep \in Nat
        BY <2>2, <1>7
      <3>4. \A i \in 1..Len(others) : Shifted(i) \in 1..Len(Tasks(J)) /\ Tasks(J)[Shifted(i)] = others[i]
        <4> TAKE i \in 1..Len(others)
        <4>1. CASE i < prep + 1
          BY <4>1, <3>2, <3>3
        <4>2. CASE ~(i < prep + 1)
          <5>1. /\ i + 1 \in 1..(Len(others) + 1) /\ ~(i + 1 < prep + 1) /\ i + 1 # prep + 1
                /\ i + 1 - 1 = i
            BY <4>2, <3>3
          <5> QED BY <5>1, <4>2, <3>2
        <4> QED BY <4>1, <4>2
      <3>5. \A j \in 1..Len(Tasks(J)) : Tasks(J)[j] \in Framing =>
              \E i \in 1..Len(others) : j = Shifted(i) /\ others[i] = Tasks(J)[j]
        <4> SUFFICES ASSUME NEW j \in 1..Len(Tasks(J)), Tasks(J)[j] \in Framing
                     PROVE  \E i \in 1..Len(others) : j = Shifted(i) /\ others[i] = Tasks(J)[j]
          OBVIOUS
        <4>1. CASE j < prep + 1
          <5>1. j \in 1..Len(others)
            BY <4>1, <3>1, <3>2, <3>3
          <5> QED BY <5>1, <4>1, <3>2
        <4>2. CASE j = prep + 1
          <5>1. "buildpackages" \notin Framing
            BY DEF Framing, Finders
          <5> QED BY <5>1, <4>2, <3>2
        <4>3. CASE j > prep + 1
          <5>1. /\ j - 1 \in 1..Len(others) /\ ~(j < prep + 1) /\ j # prep + 1
                /\ ~(j - 1 < prep + 1) /\ j - 1 + 1 = j
            BY <4>3, <3>2, <3>3
          <5>2. Tasks(J)[j] = others[j - 1] /\ Shifted(j - 1) = j
            BY <5>1, <3>2
          <5> HIDE DEF Shifted
          <5> QED BY <5>1, <5>2
        <4> QED BY <4>1, <4>2, <4>3, <3>2, <3>3
      <3>6. \A i, j \in 1..Len(others) : i < j => Shifted(i) < Shifted(j)
        BY <3>3
      <3>7. \A i \in 1..Len(others) : i < L => Shifted(i) <= L
        BY <3>3, <1>1
      <3> HIDE DEF Shifted
      <3>8. Framed(Tasks(J))
        <4>1. \A t \in Finders : \E i \in 1..Len(Tasks(J)) : Tasks(J)[i] = t
          <5> TAKE t \in Finders
          <5>1. PICK i \in 1..Len(others) : others[i] = t
            BY <2>4 DEF Framed
          <5> QED BY <5>1, <3>4
        <4>2. ASSUME NEW i \in 1..Len(Tasks(J)), NEW j \in 1..Len(Tasks(J)),
                     Tasks(J)[i] = "archive", Tasks(J)[j] \in Finders
              PROVE  i < j
          <5>1. PICK k \in 1..Len(others) : i = Shifted(k) /\ others[k] = "archive"
            BY <4>2, <3>5 DEF Framing
          <5>2. PICK m \in 1..Len(others) : j = Shifted(m) /\ others[m] \in Finders
            BY <4>2, <3>5 DEF Framing
          <5>3. k < m
            BY <5>1, <5>2, <2>4 DEF Framed
          <5> QED BY <5>1, <5>2, <5>3, <3>6
        <4> QED BY <4>1, <4>2 DEF Framed
      <3>9. \A j \in 1..Len(Tasks(J)) : Tasks(J)[j] \in Framing => j <= L
        <4> SUFFICES ASSUME NEW j \in 1..Len(Tasks(J)), Tasks(J)[j] \in Framing
                     PROVE  j <= L
          OBVIOUS
        <4>1. PICK i \in 1..Len(others) : j = Shifted(i) /\ others[i] = Tasks(J)[j]
          BY <3>5
        <4> QED BY <4>1, <2>3, <3>7
      <3> QED BY <3>2, <3>3, <3>8, <3>9 DEF L, init
    <2> QED BY <2>5, <2>6, <1>4, <1>10
  <1> QED BY <1>4, <1>10, <1>11

-----------------------------------------------------------------------------
(* Carrying out programs that spare the evidence                           *)

\* What is spared is spared when the first command is done, or has raised.
LEMMA RestSpares ==
  ASSUME NEW p, NEW puts, NEW drops, NEW sides, Spares(p, puts, drops, sides), p # <<>>, NEW f
  PROVE  /\ Fits(p[1], puts, drops)
         /\ Spares(Tail(p), puts, drops, sides)
         /\ Spares(Unwound(p), puts, drops, sides)
         /\ Spares(Rest(p, f), puts, drops, sides)
         /\ p[1].how = "parallel" => \A n \in Nodes : p[1].yes[n] \in sides
  <1>1. PICK C : Closed(C, puts, drops, sides) /\ p \in Seq(C)
    BY DEF Spares
  <1>2. p[1] \in C /\ Tail(p) \in Seq(C)
    BY <1>1
  <1> DEFINE c == p[1]
  <1>3. /\ Fits(c, puts, drops) /\ c.handler \in Seq(C)
        /\ c.how = "branch" => c.yes \in Seq(C) /\ c.no \in Seq(C)
        /\ c.how = "parallel" => \A n \in Nodes : c.yes[n] \in sides
    BY <1>1, <1>2 DEF Closed
  <1>4. Spares(Tail(p), puts, drops, sides) /\ Spares(c.handler, puts, drops, sides)
    BY <1>1, <1>2, <1>3 DEF Spares
  <1>5. Spares(Rest(p, f), puts, drops, sides)
    <2>1. CASE c.how = "branch"
      <3> DEFINE taken == IF \A n \in c.on : c.puts \subseteq f[n] THEN c.yes ELSE c.no
      <3>1. Spares(taken, puts, drops, sides)
        <4>1. Spares(c.yes, puts, drops, sides) /\ Spares(c.no, puts, drops, sides)
          BY <2>1, <1>1, <1>3 DEF Spares
        <4> QED BY <4>1
      <3>2. Rest(p, f) = Try(taken, c.handler) \o Tail(p)
        BY <2>1 DEF Rest
      <3> HIDE DEF taken
      <3> QED BY <3>1, <3>2, <1>4, SparesTry, SparesConcat
    <2>2. CASE c.how # "branch"
      BY <2>2, <1>4 DEF Rest
    <2> QED BY <2>1, <2>2
  <1> QED BY <1>3, <1>4, <1>5 DEF Unwound

\* So a mute program stays mute.
LEMMA MuteRest ==
  ASSUME NEW p, Mute(p), p # <<>>, NEW f
  PROVE  /\ Fits(p[1], Evidence, Traces)
         /\ Mute(Tail(p)) /\ Mute(Unwound(p)) /\ Mute(Rest(p, f))
         /\ p[1].how = "parallel" => Nodes = {}
  <1>1. p[1].how = "parallel" => \A n \in Nodes : p[1].yes[n] \in {}
    <2> DEFINE sides == {}
    <2>1. Spares(p, Evidence, Traces, sides)
      BY DEF Mute
    <2> HIDE DEF sides
    <2>2. p[1].how = "parallel" => \A n \in Nodes : p[1].yes[n] \in sides
      BY <2>1, RestSpares
    <2> QED BY <2>2 DEF sides
  <1>2. /\ Fits(p[1], Evidence, Traces)
        /\ Mute(Tail(p)) /\ Mute(Unwound(p)) /\ Mute(Rest(p, f))
    BY RestSpares DEF Mute
  <1> QED BY <1>1, <1>2

\* A gentle one stays gentle, and its greenlets are mute.
LEMMA GentleRest ==
  ASSUME NEW p, NEW marks, Gentle(p, marks), p # <<>>, NEW f
  PROVE  /\ Fits(p[1], {}, marks)
         /\ Gentle(Tail(p), marks) /\ Gentle(Unwound(p), marks) /\ Gentle(Rest(p, f), marks)
         /\ p[1].how = "parallel" => \A n \in Nodes : Mute(p[1].yes[n])
  <1>1. PICK D : Closed(D, Evidence, Traces, {}) /\ Spares(p, {}, marks, Seq(D))
    BY DEF Gentle, Nests
  <1>2. /\ Fits(p[1], {}, marks)
        /\ Spares(Tail(p), {}, marks, Seq(D)) /\ Spares(Unwound(p), {}, marks, Seq(D))
        /\ Spares(Rest(p, f), {}, marks, Seq(D))
        /\ p[1].how = "parallel" => \A n \in Nodes : p[1].yes[n] \in Seq(D)
    BY <1>1, RestSpares
  <1> QED BY <1>1, <1>2 DEF Gentle, Nests, Mute, Spares

\* A greenlet whose next command is done, having failed on some nodes or on none.
LEMMA OutcomeForm ==
  ASSUME NEW g, NEW o \in Outcomes(g)
  PROVE  LET c == g.program[1]
             Raised(bad) == Raises(c, on, bad) \/ (TimesOut(c) /\ ~c.quiet)
         IN  /\ c.how # "parallel"
             /\ \E bad : /\ o.done \in cluster_run(c, bad)
                         /\ o.g.program = IF Raised(bad) THEN Unwound(g.program) ELSE Rest(g.program, on)
                         /\ IF Raised(bad) THEN o.g.raised # "none" ELSE o.g.raised = g.raised
                         /\ o.status = CASE c.how = "status" -> c.as
                                         [] c.how = "flag" /\ (\E n \in c.on \ bad : on[n] \cap c.puts # {}) -> "fail"
                                         [] Found(c, on, bad) /\ c.as # "none" -> c.as
                                         [] OTHER -> status
                         /\ o.missed = Missed(c, on, bad)
             /\ o.on = Changed(c, on, o.done)
  <1> DEFINE c == g.program[1]
             Raised(bad) == Raises(c, on, bad) \/ (TimesOut(c) /\ ~c.quiet)
             Status(bad) == CASE c.how = "status" -> c.as
                              [] c.how = "flag" /\ (\E n \in c.on \ bad : on[n] \cap c.puts # {}) -> "fail"
                              [] Found(c, on, bad) /\ c.as # "none" -> c.as
                              [] OTHER -> status
             Why(f) == IF f.lost \subseteq lost \/ c.how \in {"await", "search"} THEN "error" ELSE "lost"
             Outcome(f, done) ==
               [g |-> [program |-> IF Raised(f.bad) THEN Unwound(g.program) ELSE Rest(g.program, on),
                       raised  |-> IF ~Raised(f.bad) THEN g.raised ELSE Why(f)],
                on   |-> Changed(c, on, done),
                done |-> done,
                status |-> Status(f.bad),
                lost   |-> f.lost,
                missed |-> Missed(c, on, f.bad),
                faults |-> faults + f.cost]
  <1>1. c.how # "parallel"
    BY DEF Outcomes
  <1>2. PICK f, done : done \in cluster_run(c, f.bad) /\ o = Outcome(f, done)
    <2>1. o \in UNION {{Outcome(f, done) : done \in cluster_run(c, f.bad)} :
                       f \in {f \in Failures(c) : Waited(c) \/ TimesOut(c) \/ f.bad # {}}}
      BY <1>1 DEF Outcomes
    <2> HIDE DEF Outcome, c
    <2> QED BY <2>1
  <1>3. /\ o.g.program = IF Raised(f.bad) THEN Unwound(g.program) ELSE Rest(g.program, on)
        /\ o.g.raised = IF ~Raised(f.bad) THEN g.raised ELSE Why(f)
        /\ o.on = Changed(c, on, done) /\ o.done = done /\ o.status = Status(f.bad)
        /\ o.missed = Missed(c, on, f.bad)
    <2> HIDE DEF c, Raised, Status, Why
    <2> QED BY <1>2
  <1>4. PICK bad : bad = f.bad
    OBVIOUS
  <1>5. IF Raised(bad) THEN o.g.raised # "none" ELSE o.g.raised = g.raised
    <2> HIDE DEF Raised
    <2> QED BY <1>3, <1>4
  <1>6. /\ o.done \in cluster_run(c, bad) /\ o.on = Changed(c, on, o.done) /\ o.status = Status(bad)
        /\ o.missed = Missed(c, on, bad)
    <2> HIDE DEF c, Status
    <2> QED BY <1>2, <1>3, <1>4
  <1>7. o.g.program = IF Raised(bad) THEN Unwound(g.program) ELSE Rest(g.program, on)
    <2> HIDE DEF c, Raised
    <2> QED BY <1>3, <1>4
  <1> HIDE DEF Outcome
  <1> QED BY <1>1, <1>5, <1>6, <1>7

\* It goes on, or has raised, and never makes the job pass.
LEMMA OutcomeIs ==
  ASSUME NEW g, NEW o \in Outcomes(g), g.program[1].as # "pass"
  PROVE  LET c == g.program[1]
         IN  /\ \/ /\ o.g.program = Rest(g.program, on) /\ o.g.raised = g.raised
                   /\ c.how \in {"all", "pull"} /\ ~c.quiet => c.on \subseteq o.done
                \/ o.g.program = Unwound(g.program) /\ o.g.raised # "none"
             /\ c.how # "parallel"
             /\ c.how \in Reads => o.done = {}
             /\ o.done \subseteq c.on
             /\ o.on = Changed(c, on, o.done)
             /\ o.status = status \/ o.status # "pass"
  <1> DEFINE c == g.program[1]
             Raised(bad) == Raises(c, on, bad) \/ (TimesOut(c) /\ ~c.quiet)
  <1>1. c.how # "parallel" /\ o.on = Changed(c, on, o.done)
    BY OutcomeForm
  <1>2. PICK bad : /\ o.done \in cluster_run(c, bad)
                   /\ o.g.program = IF Raised(bad) THEN Unwound(g.program) ELSE Rest(g.program, on)
                   /\ IF Raised(bad) THEN o.g.raised # "none" ELSE o.g.raised = g.raised
                   /\ o.status = CASE c.how = "status" -> c.as
                                   [] c.how = "flag" /\ (\E n \in c.on \ bad : on[n] \cap c.puts # {}) -> "fail"
                                   [] Found(c, on, bad) /\ c.as # "none" -> c.as
                                   [] OTHER -> status
    BY OutcomeForm
  <1>3. ~Raised(bad) /\ c.how \in {"all", "pull"} /\ ~c.quiet => c.on \subseteq o.done
    <2> SUFFICES ASSUME ~Raised(bad), c.how \in {"all", "pull"}, ~c.quiet
                 PROVE  c.on \subseteq o.done
      OBVIOUS
    <2>1. bad = {}
      BY DEF Raises
    <2>2. o.done \in {d \in SUBSET c.on : c.on \ bad \subseteq d}
      BY <1>2, <2>1 DEF cluster_run, Reads
    <2> QED BY <2>1, <2>2
  <1>4. (c.how \in Reads => o.done = {}) /\ o.done \subseteq c.on
    BY <1>2 DEF cluster_run
  <1>5. o.status = status \/ o.status # "pass"
    BY <1>2
  <1>6. \/ /\ o.g.program = Rest(g.program, on) /\ o.g.raised = g.raised
           /\ c.how \in {"all", "pull"} /\ ~c.quiet => c.on \subseteq o.done
        \/ o.g.program = Unwound(g.program) /\ o.g.raised # "none"
    <2> HIDE DEF c, Raised
    <2> QED BY <1>2, <1>3
  <1> HIDE DEF c, Raised
  <1> QED BY <1>1, <1>4, <1>5, <1>6 DEF c

\* What it does to the nodes, and to the archive.
LEMMA EffectsSpare ==
  ASSUME NEW g, NEW o \in Outcomes(g), NEW puts, NEW drops, Fits(g.program[1], puts, drops), Effects(g.program[1], o)
  PROVE  /\ \A n \in Nodes : /\ (on[n] \ on'[n]) \cap drops = {}
                             /\ kept[n] \subseteq kept'[n]
                             /\ puts = Evidence => on'[n] \cap Evidence \subseteq on[n]
         /\ DOMAIN on' = Machines
         /\ status' = "pass" => status = "pass"
  <1> DEFINE c == g.program[1]
  <1>1. /\ o.on = Changed(c, on, o.done) /\ (c.how \in Reads => o.done = {})
        /\ o.status = status \/ o.status # "pass"
    BY OutcomeIs DEF Fits
  <1>2. /\ \A e \in drops : e \notin c.drops
        /\ c.how \notin Copies => \A m \in puts : m \notin c.puts
    BY DEF Fits
  <1>3. /\ on' = [n \in Machines |-> IF n \in o.done /\ c.how # "pull" THEN (on[n] \ c.drops) \cup c.puts ELSE on[n]]
        /\ status' = o.status
        /\ kept' = [n \in Nodes |-> IF c.how = "pull" /\ n \in o.done THEN kept[n] \cup (on[n] \cap c.puts)
                                    ELSE kept[n]]
    BY <1>1 DEF Effects, Changed
  <1> HIDE DEF c
  <1>4. ASSUME NEW n \in Nodes
        PROVE  /\ (on[n] \ on'[n]) \cap drops = {}
               /\ kept[n] \subseteq kept'[n]
               /\ puts = Evidence => on'[n] \cap Evidence \subseteq on[n]
    <2>1. n \in Machines
      BY DEF Machines
    <2>2. on'[n] = IF n \in o.done /\ c.how # "pull" THEN (on[n] \ c.drops) \cup c.puts ELSE on[n]
      BY <1>3, <2>1
    <2>3. n \in o.done /\ c.how # "pull" => c.how \notin Copies
      BY <1>1 DEF Copies
    <2>4. kept[n] \subseteq kept'[n]
      BY <1>3
    <2> QED BY <2>2, <2>3, <2>4, <1>2
  <1> QED BY <1>1, <1>3, <1>4

\* A command of a mute program leaves all traces, and the evidence as it is.
LEMMA MuteSpares ==
  ASSUME NEW g, NEW o \in Outcomes(g), Fits(g.program[1], Evidence, Traces), Effects(g.program[1], o)
  PROVE  /\ \A n \in Nodes : /\ (on[n] \ on'[n]) \cap Traces = {}
                             /\ (on[n] \ on'[n]) \cap Evidence = {}
                             /\ kept[n] \subseteq kept'[n]
                             /\ on'[n] \cap Evidence \subseteq on[n]
         /\ DOMAIN on' = Machines
         /\ status' = "pass" => status = "pass"
  <1>1. /\ \A n \in Nodes : /\ (on[n] \ on'[n]) \cap Traces = {}
                            /\ kept[n] \subseteq kept'[n]
                            /\ on'[n] \cap Evidence \subseteq on[n]
        /\ DOMAIN on' = Machines
        /\ status' = "pass" => status = "pass"
    BY EffectsSpare
  <1>2. Evidence \subseteq Traces
    BY DEF Traces
  <1> QED BY <1>1, <1>2

-----------------------------------------------------------------------------
(* The invariant                                                           *)

\* archive's exit: p is still to be done before the evidence is removed.
\* It fetches what is not in the archive yet, where it is wanted.
Archiving(p) ==
  /\ main.program = p \o ArchiveRemoved
  /\ Mute(p)
  /\ at \in 1..Len(Tasks(job)) /\ Tasks(job)[at] = "archive"
  /\ \/ "archive" \notin job.has
     \/ p = <<>> /\ "archive-on-error" \in job.has /\ status = "pass" /\ strays = {}
     \/ \A n \in Nodes : on[n] \cap Evidence \subseteq kept[n] \/ Has(p, Fetch(n))

Shaped ==
  /\ job \in Jobs /\ DOMAIN on = Machines /\ DOMAIN side = Nodes
  /\ phase # "over" => at \in 1..Len(Tasks(job))

\* Greenlets neither drop nor put evidence.
GreenletsMute ==
  /\ \A n \in Nodes : Mute(side[n].program)
  /\ \A program \in strays : program # <<>> /\ Mute(program)

\* Greenlets that are waited for run only while the task waits.
Joins ==
  /\ joining => main.program # <<>> /\ main.program[1].how = "parallel"
  /\ ~joining => \A n \in Nodes : Over(side[n])

\* Once an exit has raised, or a greenlet was left, the job does not pass.
Told ==
  /\ phase = "unwind" => status # "pass"
  /\ strays # {} /\ status = "pass" => main.raised # "none"

\* What the task that is entered or exited does not drop, but for archive's exit.
Spared == Traces \ Lenient(Tasks(job)[at], phase = "enter")

IInv ==
  /\ Shaped /\ GreenletsMute /\ Joins /\ Told
  /\ Gentle(main.program, Spared) \/ \E p : Archiving(p)

LEMMA SparedHas == Evidence \subseteq Spared /\ Spared \in SUBSET Traces
  BY DEF Spared, Lenient, Traces, Evidence

\* EvidenceKept, of one step.
Keeps ==
  \A n \in Nodes :
    \/ (on[n] \ on'[n]) \cap Evidence \subseteq kept[n]
    \/ "archive" \notin job.has
    \/ "archive-on-error" \in job.has /\ status = "pass"

\* Steps that leave the task alone, and put no evidence, leave archive's exit as it is.
LEMMA ArchivingStays ==
  ASSUME NEW p, Archiving(p), UNCHANGED <<job, at, main>>,
         \A n \in Nodes : on'[n] \cap Evidence \subseteq on[n] /\ kept[n] \subseteq kept'[n],
         p = <<>> /\ status = "pass" /\ strays = {} => status' = "pass" /\ strays' = {}
  PROVE  Archiving(p)'
  <1>1. (main.program = p \o ArchiveRemoved)' /\ Mute(p)' /\ (at \in 1..Len(Tasks(job)) /\ Tasks(job)[at] = "archive")'
    BY DEF Archiving
  <1>2. \A n \in Nodes : \/ on[n] \cap Evidence \subseteq kept[n] => on'[n] \cap Evidence \subseteq kept'[n]
    OBVIOUS
  <1>3. (\/ "archive" \notin job.has
         \/ p = <<>> /\ "archive-on-error" \in job.has /\ status = "pass" /\ strays = {}
         \/ \A n \in Nodes : on[n] \cap Evidence \subseteq kept[n] \/ Has(p, Fetch(n)))'
    BY <1>2 DEF Archiving
  <1> QED BY <1>1, <1>3 DEF Archiving

\* ArchiveRemoved is one command, whose handler is empty.
LEMMA RemovedIs ==
  LET c == ArchiveRemoved[1]
  IN  /\ ArchiveRemoved = <<c>> /\ c.how = "all" /\ c.as = "none" /\ c.handler = <<>>
      /\ \A f : Rest(ArchiveRemoved, f) = <<>> /\ Unwound(ArchiveRemoved) = <<>>
  BY DEF ArchiveRemoved, All, Command, Rest, Unwound

\* What comes next, while something is to be done before.
LEMMA BeforeRemoved ==
  ASSUME NEW p, Mute(p), p # <<>>, NEW f
  PROVE  LET q == p \o ArchiveRemoved
         IN  /\ q # <<>> /\ q[1] = p[1] /\ Tail(q) = Tail(p) \o ArchiveRemoved
             /\ Unwound(q) = Unwound(p) /\ Rest(q, f) = Rest(p, f) \o ArchiveRemoved
  <1> DEFINE r == ArchiveRemoved
             c == p[1]
             q == p \o r
             way == IF \A n \in c.on : c.puts \subseteq f[n] THEN c.yes ELSE c.no
             taken == Try(way, c.handler)
  <1>1. PICK C : Closed(C, Evidence, Traces, {}) /\ p \in Seq(C)
    BY DEF Mute, Spares
  <1>2. \A E : p \in Seq(C \cup E \cup {r[1]}) /\ r \in Seq(C \cup E \cup {r[1]})
    <2> TAKE E
    <2> DEFINE D == C \cup E \cup {r[1]}
    <2>1. p \in Seq(D)
      BY <1>1, SeqMonotonic
    <2>2. r = <<r[1]>> /\ r[1] \in D
      BY RemovedIs
    <2> HIDE DEF r, D
    <2>3. <<r[1]>> \in Seq(D)
      BY <2>2
    <2> QED BY <2>1, <2>2, <2>3 DEF D
  <1>3. q # <<>> /\ q[1] = p[1] /\ Tail(q) = Tail(p) \o r
    <2> DEFINE D == C \cup {} \cup {r[1]}
    <2>1. p \in Seq(D) /\ r \in Seq(D)
      BY <1>2
    <2> HIDE DEF r, D
    <2> QED BY <2>1
  <1>4. Rest(q, f) = Rest(p, f) \o r
    <2>1. CASE c.how = "branch"
      <3>1. Rest(q, f) = taken \o (Tail(p) \o r) /\ Rest(p, f) = taken \o Tail(p)
        BY <2>1, <1>3 DEF Rest
      <3>2. Mute(taken)
        <4>1. c \in C
          BY <1>1
        <4>2. c.yes \in Seq(C) /\ c.no \in Seq(C) /\ c.handler \in Seq(C)
          BY <1>1, <2>1, <4>1 DEF Closed
        <4>3. Mute(way) /\ Mute(c.handler)
          BY <1>1, <4>2 DEF Mute, Spares
        <4> HIDE DEF way
        <4> QED BY <4>3, MuteTry
      <3>3. PICK E : taken \in Seq(E)
        BY <3>2 DEF Mute, Spares
      <3> DEFINE D == C \cup E \cup {r[1]}
      <3>4. p \in Seq(D) /\ r \in Seq(D) /\ taken \in Seq(D)
        BY <1>2, <3>3, SeqMonotonic
      <3> HIDE DEF r, D, taken
      <3>5. Tail(p) \in Seq(D)
        BY <3>4
      <3>6. (taken \o Tail(p)) \o r = taken \o (Tail(p) \o r)
        BY <3>4, <3>5, ConcatAssociative
      <3> QED BY <3>1, <3>6
    <2>2. CASE c.how # "branch"
      BY <2>2, <1>3 DEF Rest
    <2> QED BY <2>1, <2>2
  <1> QED BY <1>3, <1>4 DEF Unwound

-----------------------------------------------------------------------------
(* Entering and exiting                                                    *)

\* p is what the exit of `archive` does before it removes the evidence.
Fetches(J, s, told, p) ==
  /\ Exit(J, "archive", s, told) = p \o ArchiveRemoved
  /\ Mute(p)
  /\ \/ "archive" \notin J.has
     \/ p = <<>> /\ "archive-on-error" \in J.has /\ s = "pass"
     \/ \A n \in Nodes : Has(p, Fetch(n))

\* What is wanted is fetched.
LEMMA ArchiveExit ==
  ASSUME NEW J, NEW s, NEW told, told => s # "pass"
  PROVE  \E p : Fetches(J, s, told, p)
  <1> DEFINE a == When(told, SetStatus("fail"))
             b == Transferred(J, s)
  <1>1. Exit(J, "archive", s, told) = (a \o b) \o ArchiveRemoved
    BY DEF Exit, archive_exit
  <1>2. Mute(a) /\ Mute(b)
    <2>1. Mute(a)
      BY StillEmpty, StillLook, MuteStill DEF When
    <2> QED BY <2>1, TransferredMute
  <1>3. Mute(a \o b)
    <2> HIDE DEF a, b
    <2> QED BY <1>2, MuteConcat
  <1>4. CASE "archive" \in J.has /\ "archive-on-error" \in J.has /\ s = "pass"
    <2>1. a = <<>> /\ b = <<>>
      BY <1>4 DEF When, Transferred
    <2>2. a \o b = <<>>
      BY <2>1
    <2> HIDE DEF a, b
    <2> QED BY <1>1, <1>3, <1>4, <2>2 DEF Fetches
  <1>5. CASE "archive" \in J.has /\ ~("archive-on-error" \in J.has /\ s = "pass")
    <2> HIDE DEF a
    <2>1. PICK A : a \in Seq(A)
      BY <1>2 DEF Mute, Spares
    <2>2. PICK B : b \in Seq(B)
      BY <1>2 DEF Mute, Spares
    <2>3. a \in Seq(A \cup B) /\ b \in Seq(A \cup B)
      BY <2>1, <2>2, SeqMonotonic
    <2>4. \A n \in Nodes : Has(a \o b, Fetch(n))
      <3> TAKE n \in Nodes
      <3>1. PICK m \in DOMAIN b : b[m] = Fetch(n)
        BY <1>5, TransferredHas
      <3> HIDE DEF b
      <3>2. Len(a) + m \in DOMAIN (a \o b) /\ (a \o b)[Len(a) + m] = b[m]
        BY <2>3, <3>1, ConcatHas
      <3> QED BY <3>1, <3>2 DEF Has
    <2> HIDE DEF b
    <2> QED BY <1>1, <1>3, <2>4 DEF Fetches
  <1>6. CASE "archive" \notin J.has
    BY <1>1, <1>3, <1>6 DEF Fetches
  <1> QED BY <1>4, <1>5, <1>6

\* Going on to the exit of the task at place i.
LEMMA ExitsKeep ==
  ASSUME job \in Jobs, NEW i \in 0..Len(Tasks(job)), NEW s, NEW told,
         Exits(i, s, told), status' = s, UNCHANGED job,
         told => s # "pass", s = "pass" => strays = {}
  PROVE  /\ Gentle(main.program, Spared)' \/ \E p : Archiving(p)'
         /\ strays' \subseteq strays
         /\ Told'
         /\ phase' # "over" => at' \in 1..Len(Tasks(job))'
  <1>1. CASE i = 0
    <2>1. phase' = "over" /\ main'.program = <<>> /\ strays' = {}
      BY <1>1 DEF Exits, Idle, Greenlet
    <2>2. Gentle(main'.program, Spared')
      BY <2>1, GentleEmpty DEF Spared
    <2> QED BY <2>1, <2>2 DEF Told
  <1>2. CASE i # 0
    <2> DEFINE t == Tasks(job)[i]
    <2>0. /\ main' = Greenlet(Exit(job, t, s, told)) /\ at' = i /\ strays' = strays
          /\ phase' = IF told THEN "unwind" ELSE "exit"
      BY <1>2 DEF Exits
    <2>1. main'.program = Exit(job, t, s, told)
      BY <2>0 DEF Greenlet
    <2>2. i \in 1..Len(Tasks(job))
      BY <1>2, TasksFramed
    <2>3. Told'
      BY <2>0 DEF Told
    <2>4. CASE t # "archive"
      <3>1. Gentle(main'.program, Traces \ Lenient(t, FALSE))
        BY <2>1, <2>4, ExitGentle
      <3>2. Spared' = Traces \ Lenient(t, FALSE)
        BY <2>0 DEF Spared
      <3> QED BY <2>0, <2>2, <2>3, <3>1, <3>2
    <2>5. CASE t = "archive"
      <3>1. PICK p : Fetches(job, s, told, p)
        BY ArchiveExit
      <3>3. main'.program = p \o ArchiveRemoved
        BY <2>1, <2>5, <3>1 DEF Fetches
      <3>4. p = <<>> /\ "archive-on-error" \in job.has /\ s = "pass" => strays' = {} /\ status' = "pass"
        BY <2>0
      <3>5. Archiving(p)'
        BY <3>1, <3>3, <3>4, <2>0, <2>2, <2>5 DEF Archiving, Fetches
      <3> QED BY <2>0, <2>2, <2>3, <3>5
    <2> QED BY <2>4, <2>5
  <1> QED BY <1>1, <1>2

-----------------------------------------------------------------------------
(* The steps                                                               *)

\* When nothing is left to do before, the removal is next.
LEMMA OnlyRemoved == <<>> \o ArchiveRemoved = ArchiveRemoved
  <1>1. ArchiveRemoved \in Seq({ArchiveRemoved[1]})
    <2> DEFINE c == ArchiveRemoved[1]
    <2>1. ArchiveRemoved = <<c>>
      BY RemovedIs
    <2> HIDE DEF c
    <2>2. <<c>> \in Seq({c})
      OBVIOUS
    <2> QED BY <2>1, <2>2 DEF c
  <1> QED BY <1>1, ConcatEmptySeq

\* Steps of others do not disturb what the task still has to do.
LEMMA MainStays ==
  ASSUME IInv, UNCHANGED <<job, at, phase, main>>,
         \A n \in Nodes : on'[n] \cap Evidence \subseteq on[n] /\ kept[n] \subseteq kept'[n],
         ~joining /\ strays = {} /\ status = "pass" => status' = "pass" /\ strays' = {}
  PROVE  Gentle(main.program, Spared)' \/ \E p : Archiving(p)'
  <1>1. CASE Gentle(main.program, Spared)
    <2>1. Gentle(main'.program, Spared')
      BY <1>1 DEF Spared
    <2> QED BY <2>1
  <1>2. ASSUME NEW p, Archiving(p)
        PROVE  Archiving(p)'
    <2>1. p = <<>> => ~joining
      <3> SUFFICES ASSUME p = <<>> PROVE ~joining
        OBVIOUS
      <3>1. main.program = ArchiveRemoved
        BY <1>2, OnlyRemoved DEF Archiving
      <3> QED BY <3>1, RemovedIs DEF IInv, Joins
    <2> QED BY <1>2, <2>1, ArchivingStays
  <1> QED BY <1>1, <1>2 DEF IInv

\* Fetching a node's evidence, if it does not fail, puts all of it in the archive.
LEMMA FetchesNode ==
  ASSUME NEW n \in Nodes, NEW o, Effects(Fetch(n), o), {n} \subseteq o.done,
         on'[n] \cap Evidence \subseteq on[n]
  PROVE  on'[n] \cap Evidence \subseteq kept'[n]
  <1>1. Fetch(n).how = "pull" /\ Fetch(n).puts = Evidence
    BY DEF Fetch, Pull, Command
  <1>2. kept'[n] = kept[n] \cup (on[n] \cap Evidence)
    BY <1>1 DEF Effects
  <1> QED BY <1>2

\* Fetching raises when it fails.
LEMMA FetchIs ==
  ASSUME NEW n
  PROVE  Fetch(n).how = "pull" /\ ~Fetch(n).quiet /\ Fetch(n).on = {n}
  BY DEF Fetch, Pull, Command

\* A later command is still to be done when the first one is done.
LEMMA RestHas ==
  ASSUME NEW p, NEW puts, NEW drops, NEW sides, Spares(p, puts, drops, sides), p # <<>>, NEW f, NEW x, p[1] # x, Has(p, x)
  PROVE  Has(Tail(p), x) /\ Has(Rest(p, f), x)
  <1>0. PICK i \in DOMAIN p : p[i] = x
    BY DEF Has
  <1> DEFINE c == p[1]
             taken == Try(IF \A n \in c.on : c.puts \subseteq f[n] THEN c.yes ELSE c.no, c.handler)
             t == Tail(p)
  <1>1. PICK C : Closed(C, puts, drops, sides) /\ p \in Seq(C)
    BY DEF Spares
  <1>2. i - 1 \in DOMAIN t /\ t[i - 1] = x /\ t \in Seq(C)
    BY <1>0, <1>1
  <1>3. CASE c.how = "branch"
    <2>1. Rest(p, f) = taken \o t
      BY <1>3 DEF Rest
    <2>2. Spares(taken, puts, drops, sides)
      <3>1. c \in C
        BY <1>1
      <3>2. c.yes \in Seq(C) /\ c.no \in Seq(C) /\ c.handler \in Seq(C)
        BY <1>1, <1>3, <3>1 DEF Closed
      <3> DEFINE way == IF \A n \in c.on : c.puts \subseteq f[n] THEN c.yes ELSE c.no
      <3>3. Spares(way, puts, drops, sides) /\ Spares(c.handler, puts, drops, sides)
        BY <1>1, <3>2 DEF Spares
      <3> HIDE DEF way
      <3>4. Spares(Try(way, c.handler), puts, drops, sides)
        BY <3>3, SparesTry
      <3> QED BY <3>4 DEF way
    <2> HIDE DEF taken, t
    <2>3. PICK E : taken \in Seq(E)
      BY <2>2 DEF Spares
    <2>4. taken \in Seq(E \cup C) /\ t \in Seq(E \cup C)
      BY <1>2, <2>3, SeqMonotonic
    <2>5. Len(taken) + (i - 1) \in DOMAIN (taken \o t) /\ (taken \o t)[Len(taken) + (i - 1)] = t[i - 1]
      <3> DEFINE k == i - 1
      <3>1. k \in DOMAIN t
        BY <1>2
      <3> HIDE DEF k
      <3>2. Len(taken) + k \in DOMAIN (taken \o t) /\ (taken \o t)[Len(taken) + k] = t[k]
        BY <2>4, <3>1, ConcatHas
      <3> QED BY <3>2 DEF k
    <2> QED BY <1>2, <2>1, <2>5 DEF t, Has
  <1>4. CASE c.how # "branch"
    <2>1. Rest(p, f) = t
      BY <1>4 DEF Rest
    <2> HIDE DEF t
    <2> QED BY <1>2, <2>1 DEF t, Has
  <1> QED BY <1>3, <1>4

\* A command of the task itself.
LEMMA CommandKeeps ==
  ASSUME IInv, command
  PROVE  IInv' /\ Keeps
  <1> USE DEF command
  <1>1. PICK o \in Outcomes(main) : main' = o.g /\ Effects(main.program[1], o)
    OBVIOUS
  <1> DEFINE c == main.program[1]
  <1>0. main.program # <<>>
    BY DEF Over
  <1>2. CASE Gentle(main.program, Spared)
    <2>1. /\ Fits(c, {}, Spared)
          /\ Gentle(Rest(main.program, on), Spared) /\ Gentle(Unwound(main.program), Spared)
      BY <1>0, <1>2, GentleRest
    <2>2. Gentle(main'.program, Spared')
      <3>1. Spared' = Spared
        BY DEF Spared
      <3>2. c.as # "pass"
        BY <2>1 DEF Fits
      <3> HIDE DEF c
      <3>3. main'.program = Rest(main.program, on) \/ main'.program = Unwound(main.program)
        BY <1>1, <3>2, OutcomeIs DEF c
      <3> QED BY <2>1, <3>1, <3>3
    <2>3. /\ \A n \in Nodes : (on[n] \ on'[n]) \cap Evidence = {}
          /\ DOMAIN on' = Machines
          /\ status' = "pass" => status = "pass"
      <3>1. \A n \in Nodes : (on[n] \ on'[n]) \cap Spared = {}
        BY <1>1, <2>1, EffectsSpare
      <3>2. DOMAIN on' = Machines /\ (status' = "pass" => status = "pass")
        BY <1>1, <2>1, EffectsSpare
      <3> QED BY <3>1, <3>2, SparedHas
    <2>4. c.how # "parallel" /\ (main'.raised = main.raised \/ main'.raised # "none")
      BY <1>1, <2>1, OutcomeIs DEF Fits
    <2> HIDE DEF c
    <2>5. IInv'
      BY <2>2, <2>3, <2>4 DEF IInv, Shaped, GreenletsMute, Joins, Told, c
    <2> QED BY <2>3, <2>5 DEF Keeps
  <1>3. ASSUME NEW p, Archiving(p)
        PROVE  IInv' /\ Keeps
    <2>1. CASE p = <<>>
      <3>1. main.program = ArchiveRemoved
        BY <1>3, <2>1, OnlyRemoved DEF Archiving
      <3>2. /\ main'.program = <<>> /\ (main'.raised = main.raised \/ main'.raised # "none")
            /\ o.on = Changed(c, on, o.done) /\ (o.status = status \/ o.status # "pass")
            /\ c.how # "parallel"
        BY <1>1, <3>1, RemovedIs, OutcomeIs
      <3>3. Gentle(main'.program, Spared')
        BY <3>2, GentleEmpty DEF Spared
      <3>4. DOMAIN on' = Machines /\ status' = o.status
        BY <1>1, <3>2 DEF Effects, Changed
      <3> HIDE DEF c
      <3>5. IInv'
        BY <3>2, <3>3, <3>4 DEF IInv, Shaped, GreenletsMute, Joins, Told, c
      <3>6. Keeps
        <4>1. \A x : ~Has(<<>>, x)
          BY DEF Has
        <4> QED BY <1>3, <2>1, <4>1 DEF Archiving, Keeps
      <3> QED BY <3>5, <3>6
    <2>2. CASE p # <<>>
      <3>1. /\ main.program = p \o ArchiveRemoved /\ Mute(p)
        BY <1>3 DEF Archiving
      <3>2. /\ c = p[1] /\ Unwound(main.program) = Unwound(p)
            /\ Rest(main.program, on) = Rest(p, on) \o ArchiveRemoved
        BY <2>2, <3>1, BeforeRemoved
      <3>3. Fits(c, Evidence, Traces) /\ Mute(Rest(p, on)) /\ Mute(Unwound(p))
        BY <2>2, <3>1, <3>2, MuteRest
      <3>4. /\ \A n \in Nodes : /\ (on[n] \ on'[n]) \cap Evidence = {} /\ kept[n] \subseteq kept'[n]
                                /\ on'[n] \cap Evidence \subseteq on[n]
            /\ DOMAIN on' = Machines
            /\ status' = "pass" => status = "pass"
        BY <1>1, <3>3, MuteSpares
      <3>5. /\ \/ /\ o.g.program = Rest(main.program, on) /\ o.g.raised = main.raised
                  /\ c.how \in {"all", "pull"} /\ ~c.quiet => c.on \subseteq o.done
               \/ o.g.program = Unwound(main.program) /\ o.g.raised # "none"
            /\ c.how # "parallel"
        BY <1>1, <3>3, OutcomeIs DEF Fits
      <3>6. Gentle(main'.program, Spared') \/ \E q : Archiving(q)'
        <4>1. CASE o.g.program = Unwound(main.program)
          <5>1. Tame(main'.program)
            BY <1>1, <3>2, <3>3, <4>1, TameMute
          <5>2. Spared' \in SUBSET Traces
            BY DEF Spared
          <5> QED BY <5>1, <5>2, GentleTame
        <4>2. CASE o.g.program = Rest(main.program, on) /\ (c.how \in {"all", "pull"} /\ ~c.quiet => c.on \subseteq o.done)
          <5>0. PICK q : q = Rest(p, on)
            OBVIOUS
          <5>1. main'.program = q \o ArchiveRemoved
            BY <1>1, <3>2, <4>2, <5>0
          <5>2. ASSUME NEW n \in Nodes, on[n] \cap Evidence \subseteq kept[n] \/ Has(p, Fetch(n))
                PROVE  on'[n] \cap Evidence \subseteq kept'[n] \/ Has(q, Fetch(n))
            <6>1. CASE on[n] \cap Evidence \subseteq kept[n]
              BY <6>1, <3>4
            <6>2. CASE c = Fetch(n)
              BY <1>1, <3>2, <3>4, <4>2, <6>2, FetchIs, FetchesNode
            <6>3. ASSUME Has(p, Fetch(n)), c # Fetch(n)
                  PROVE  Has(q, Fetch(n))
              <7>1. p[1] # Fetch(n)
                BY <3>2, <6>3
              <7> QED BY <2>2, <3>1, <5>0, <6>3, <7>1, RestHas DEF Mute
            <6> QED BY <5>2, <6>1, <6>2, <6>3
          <5> HIDE DEF c
          <5>3. Mute(q)
            BY <3>3, <5>0
          <5>4. (\/ "archive" \notin job.has
                 \/ q = <<>> /\ "archive-on-error" \in job.has /\ status = "pass" /\ strays = {}
                 \/ \A n \in Nodes : on[n] \cap Evidence \subseteq kept[n] \/ Has(q, Fetch(n)))'
            BY <1>3, <2>2, <5>2 DEF Archiving
          <5>5. Archiving(q)'
            BY <1>3, <5>1, <5>3, <5>4 DEF Archiving
          <5> QED BY <5>5
        <4> QED BY <3>5, <4>1, <4>2
      <3> HIDE DEF c
      <3>7. IInv'
        BY <1>1, <3>4, <3>5, <3>6 DEF IInv, Shaped, GreenletsMute, Joins, Told, c
      <3> QED BY <3>4, <3>7 DEF Keeps
    <2> QED BY <2>1, <2>2
  <1> QED BY <1>2, <1>3 DEF IInv

\* At the start, and in each step.
LEMMA InitInvariant == Init => IInv
  <1> SUFFICES ASSUME Init PROVE IInv
    OBVIOUS
  <1> USE DEF Init
  <1>1. Shaped
    <2>1. at \in 1..Len(Tasks(job))
      BY TasksFramed
    <2> QED BY <2>1 DEF Shaped
  <1>2. Gentle(main.program, Spared)
    <2>1. main.program = Enter(job, Tasks(job)[1])
      BY DEF Greenlet
    <2> QED BY <2>1, EnterGentle DEF Spared
  <1>3. \A n \in Nodes : side[n].program = <<>>
    BY DEF Idle, Greenlet
  <1>4. GreenletsMute /\ Joins
    BY <1>3, MuteEmpty DEF GreenletsMute, Joins, Over
  <1>5. Told
    BY DEF Told
  <1> QED BY <1>1, <1>2, <1>4, <1>5 DEF IInv

\* While the task waits for greenlets, its next command has started them.
LEMMA ParallelHead ==
  ASSUME IInv, main.program # <<>>, main.program[1].how = "parallel"
  PROVE  /\ \A n \in Nodes : Mute(main.program[1].yes[n])
         /\ Gentle(Unwound(main.program), Spared)
         /\ \/ Gentle(Tail(main.program), Spared)
            \/ \E p : /\ Archiving(p) /\ p # <<>> /\ Mute(Tail(p))
                      /\ Tail(main.program) = Tail(p) \o ArchiveRemoved
                      /\ \A n : Has(p, Fetch(n)) => Has(Tail(p), Fetch(n))
  <1>1. CASE Gentle(main.program, Spared)
    BY <1>1, GentleRest
  <1>2. ASSUME NEW p, Archiving(p)
        PROVE  /\ \A n \in Nodes : Mute(main.program[1].yes[n])
               /\ Gentle(Unwound(main.program), Spared)
               /\ p # <<>> /\ Mute(Tail(p))
               /\ Tail(main.program) = Tail(p) \o ArchiveRemoved
               /\ \A n : Has(p, Fetch(n)) => Has(Tail(p), Fetch(n))
    <2>0. main.program = p \o ArchiveRemoved /\ Mute(p)
      BY <1>2 DEF Archiving
    <2>1. p # <<>>
      <3> SUFFICES ASSUME p = <<>> PROVE FALSE
        OBVIOUS
      <3>1. main.program = ArchiveRemoved
        BY <2>0, OnlyRemoved
      <3> QED BY <3>1, RemovedIs
    <2>2. /\ main.program[1] = p[1] /\ Tail(main.program) = Tail(p) \o ArchiveRemoved
          /\ Unwound(main.program) = Unwound(p)
      BY <2>0, <2>1, BeforeRemoved
    <2>3. Nodes = {} /\ Mute(Tail(p)) /\ Mute(Unwound(p))
      BY <2>0, <2>1, <2>2, MuteRest
    <2>4. \A n : Has(p, Fetch(n)) => Has(Tail(p), Fetch(n))
      <3> SUFFICES ASSUME NEW n, Has(p, Fetch(n)) PROVE Has(Tail(p), Fetch(n))
        OBVIOUS
      <3>1. p[1] # Fetch(n)
        BY <2>2, FetchIs
      <3> QED BY <2>0, <2>1, <3>1, RestHas DEF Mute
    <2>5. Gentle(Unwound(main.program), Spared)
      BY <2>2, <2>3, SparedHas, TameMute, GentleTame
    <2> QED BY <2>1, <2>2, <2>3, <2>4, <2>5
  <1> QED BY <1>1, <1>2 DEF IInv

\* Starting the greenlets of a block,
LEMMA SpawnKeeps ==
  ASSUME IInv, spawn
  PROVE  IInv' /\ Keeps
  <1> USE DEF spawn
  <1>1. main.program # <<>> /\ \A n \in Nodes : Mute(main.program[1].yes[n])
    BY ParallelHead DEF Over
  <1>2. /\ \A n \in Nodes : side'[n].program = main.program[1].yes[n]
        /\ DOMAIN side' = Nodes
    BY DEF Greenlet
  <1>3. (Gentle(main.program, Spared) \/ \E p : Archiving(p))'
    BY MainStays
  <1> QED BY <1>1, <1>2, <1>3 DEF IInv, Shaped, GreenletsMute, Joins, Told, Keeps

\* a command of one of them,
LEMMA SideKeeps ==
  ASSUME IInv, NEW n \in Nodes, side_command(n)
  PROVE  IInv' /\ Keeps
  <1> USE DEF side_command
  <1>1. PICK o \in Outcomes(side[n]) :
          side' = [side EXCEPT ![n] = o.g] /\ Effects(side[n].program[1], o)
    OBVIOUS
  <1>2. joining /\ side[n].program # <<>> /\ Mute(side[n].program)
    BY DEF IInv, Joins, Over, GreenletsMute
  <1>3. /\ Fits(side[n].program[1], Evidence, Traces)
        /\ Mute(Rest(side[n].program, on)) /\ Mute(Unwound(side[n].program))
    BY <1>2, MuteRest
  <1>4. Mute(o.g.program)
    BY <1>3, OutcomeIs DEF Fits
  <1>5. /\ \A m \in Nodes : /\ (on[m] \ on'[m]) \cap Evidence = {} /\ kept[m] \subseteq kept'[m]
                            /\ on'[m] \cap Evidence \subseteq on[m]
        /\ DOMAIN on' = Machines
        /\ status' = "pass" => status = "pass"
    BY <1>1, <1>3, MuteSpares
  <1>6. \A m \in Nodes : side'[m] = IF m = n THEN o.g ELSE side[m]
    BY <1>1 DEF IInv, Shaped
  <1>7. (Gentle(main.program, Spared) \/ \E p : Archiving(p))'
    BY <1>2, <1>5, MainStays
  <1>8. DOMAIN side' = Nodes
    BY <1>1 DEF IInv, Shaped
  <1>9. GreenletsMute'
    BY <1>4, <1>6 DEF IInv, GreenletsMute
  <1> QED BY <1>2, <1>5, <1>7, <1>8, <1>9 DEF IInv, Shaped, Joins, Told, Keeps

\* the end of the block,
LEMMA JoinKeeps ==
  ASSUME IInv, join
  PROVE  IInv' /\ Keeps
  <1> USE DEF join
  <1>1. main.program # <<>> /\ main.program[1].how = "parallel"
    BY DEF IInv, Joins
  <1>2. main'.program = Tail(main.program) /\ main'.raised = main.raised
    <2>1. main' = [main EXCEPT !.program = Tail(@)]
      OBVIOUS
    <2> QED BY <2>1
  <1>3. (Gentle(main.program, Spared) \/ \E p : Archiving(p))'
    <2>1. CASE Gentle(Tail(main.program), Spared)
      BY <1>2, <2>1 DEF Spared
    <2>2. ASSUME NEW p, Archiving(p), p # <<>>, Mute(Tail(p)),
                 Tail(main.program) = Tail(p) \o ArchiveRemoved,
                 \A n : Has(p, Fetch(n)) => Has(Tail(p), Fetch(n))
          PROVE  Archiving(Tail(p))'
      BY <1>2, <2>2 DEF Archiving
    <2> QED BY <1>1, <2>1, <2>2, ParallelHead
  <1> QED BY <1>2, <1>3 DEF IInv, Shaped, GreenletsMute, Joins, Told, Keeps

\* or leaving it because one has raised.
LEMMA JoinRaisesKeeps ==
  ASSUME IInv, NEW n \in Nodes, join_raises(n)
  PROVE  IInv' /\ Keeps
  <1> USE DEF join_raises
  <1>1. Gentle(Unwound(main.program), Spared)
    BY ParallelHead DEF IInv, Joins
  <1>2. main'.program = Unwound(main.program) /\ main'.raised # "none"
    OBVIOUS
  <1>3. Gentle(main'.program, Spared')
    BY <1>1, <1>2 DEF Spared
  <1>4. /\ \A m \in Nodes : side'[m] = Idle
        /\ DOMAIN side' = Nodes /\ Idle.program = <<>>
    BY DEF Idle, Greenlet
  <1>5. \A program \in strays' : program # <<>> /\ Mute(program)
    BY DEF IInv, GreenletsMute, Over
  <1>6. GreenletsMute' /\ Joins'
    BY <1>4, <1>5, MuteEmpty DEF GreenletsMute, Joins, Over
  <1> QED BY <1>2, <1>3, <1>4, <1>6 DEF IInv, Shaped, Told, Keeps

\* A greenlet whose block was left.
LEMMA StrayKeeps ==
  ASSUME IInv, stray_command
  PROVE  IInv' /\ Keeps
  <1>0. PICK program \in strays : \E o \in Outcomes(Greenlet(program)) :
          /\ Effects(program[1], o)
          /\ strays' = (strays \ {program}) \cup ({o.g.program} \ {<<>>})
    BY DEF stray_command
  <1>1. PICK o \in Outcomes(Greenlet(program)) :
          /\ Effects(program[1], o)
          /\ strays' = (strays \ {program}) \cup ({o.g.program} \ {<<>>})
    BY <1>0
  <1>2. UNCHANGED <<job, at, phase, main, joining, side, trouble>>
    BY DEF stray_command
  <1> DEFINE g == Greenlet(program)
  <1>3. g.program = program
    BY DEF Greenlet
  <1>4. Mute(program) /\ program # <<>>
    BY DEF IInv, GreenletsMute
  <1> HIDE DEF g
  <1>5. Fits(program[1], Evidence, Traces) /\ Mute(Rest(program, on)) /\ Mute(Unwound(program))
    BY <1>4, MuteRest
  <1>6. Mute(o.g.program)
    BY <1>1, <1>3, <1>5, OutcomeIs DEF Fits, g
  <1>7. /\ \A m \in Nodes : /\ (on[m] \ on'[m]) \cap Evidence = {} /\ kept[m] \subseteq kept'[m]
                            /\ on'[m] \cap Evidence \subseteq on[m]
        /\ DOMAIN on' = Machines
        /\ status' = "pass" => status = "pass"
    BY <1>1, <1>3, <1>5, MuteSpares DEF g
  <1>8. (Gentle(main.program, Spared) \/ \E p : Archiving(p))'
    BY <1>2, <1>7, MainStays
  <1>9. GreenletsMute'
    BY <1>1, <1>2, <1>6 DEF IInv, GreenletsMute
  <1>10. strays # {}
    OBVIOUS
  <1> QED BY <1>2, <1>7, <1>8, <1>9, <1>10 DEF IInv, Shaped, Joins, Told, Keeps

\* Passing on to the next task, or back to the one before.
LEMMA TurnKeeps ==
  ASSUME IInv, UNCHANGED <<job, joining, side, on, kept>>, Over(main), strays' \subseteq strays,
         Gentle(main.program, Spared)' \/ \E p : Archiving(p)', Told', phase' # "over" => at' \in 1..Len(Tasks(job))'
  PROVE  IInv' /\ Keeps
  <1>1. ~joining
    BY DEF IInv, Joins, Over
  <1> QED BY <1>1 DEF IInv, Shaped, GreenletsMute, Joins, Keeps

\* run_tasks: on to the next task, or to the exits;
LEMMA EnteredKeeps ==
  ASSUME IInv, entered
  PROVE  IInv' /\ Keeps
  <1> USE DEF entered
  <1>0. job \in Jobs /\ at \in 1..Len(Tasks(job)) /\ Len(Tasks(job)) \in Nat
    BY TasksFramed DEF IInv, Shaped
  <1>1. status = "pass" => strays = {}
    BY DEF IInv, Told
  <1>2. CASE at < Len(Tasks(job))
    <2>1. main'.program = Enter(job, Tasks(job)[at + 1]) /\ at' = at + 1 /\ UNCHANGED <<phase, strays>>
      BY <1>2 DEF Greenlet
    <2>2. Gentle(main'.program, Spared')
      BY <1>0, <2>1, EnterGentle DEF IInv, Spared
    <2>3. Told' /\ at' \in 1..Len(Tasks(job))
      BY <1>0, <1>1, <1>2, <2>1 DEF IInv, Told
    <2> QED BY <2>1, <2>2, <2>3, TurnKeeps
  <1>3. CASE ~(at < Len(Tasks(job)))
    <2>1. Exits(at, status, FALSE)
      BY <1>3
    <2>2. at \in 0..Len(Tasks(job))
      BY <1>0
    <2>3. /\ Gentle(main.program, Spared)' \/ \E p : Archiving(p)'
          /\ strays' \subseteq strays /\ Told' /\ (phase' # "over" => at' \in 1..Len(Tasks(job))')
      BY <1>0, <1>1, <2>1, <2>2, ExitsKeep
    <2> QED BY <2>3, TurnKeeps
  <1> QED BY <1>2, <1>3

\* to the exits because a task has raised;
LEMMA EnterRaisedKeeps ==
  ASSUME IInv, enter_raised
  PROVE  IInv' /\ Keeps
  <1> USE DEF enter_raised
  <1> DEFINE s == IF main.raised = "lost" \/ status = "dead" THEN "dead" ELSE "fail"
             i == IF Tasks(job)[at] \in Classes THEN at ELSE at - 1
  <1>0. job \in Jobs /\ i \in 0..Len(Tasks(job))
    <2>1. job \in Jobs /\ at \in 1..Len(Tasks(job)) /\ Len(Tasks(job)) \in Nat
      BY TasksFramed DEF IInv, Shaped
    <2> QED BY <2>1
  <1>1. s # "pass" /\ status' = s /\ Exits(i, s, FALSE)
    OBVIOUS
  <1> HIDE DEF s, i
  <1>2. /\ Gentle(main.program, Spared)' \/ \E p : Archiving(p)'
        /\ strays' \subseteq strays /\ Told' /\ (phase' # "over" => at' \in 1..Len(Tasks(job))')
    BY <1>0, <1>1, ExitsKeep
  <1> QED BY <1>2, TurnKeeps

\* from one exit to the next.
LEMMA ExitedKeeps ==
  ASSUME IInv, exited
  PROVE  IInv' /\ Keeps
  <1> USE DEF exited
  <1> DEFINE s == CASE main.raised = "none" -> status
                    [] main.raised = "lost" -> "dead"
                    [] OTHER -> "fail"
             told == phase = "unwind" \/ main.raised # "none"
             i == at - 1
  <1>0. job \in Jobs /\ i \in 0..Len(Tasks(job))
    <2>1. job \in Jobs /\ at \in 1..Len(Tasks(job)) /\ Len(Tasks(job)) \in Nat
      BY TasksFramed DEF IInv, Shaped
    <2> QED BY <2>1
  <1>1. status' = s /\ Exits(i, s, told)
    OBVIOUS
  <1>2. s = "pass" => main.raised = "none" /\ status = "pass"
    OBVIOUS
  <1>3. (told => s # "pass") /\ (s = "pass" => strays = {})
    BY <1>2 DEF IInv, Told
  <1> HIDE DEF s, i, told
  <1>4. /\ Gentle(main.program, Spared)' \/ \E p : Archiving(p)'
        /\ strays' \subseteq strays /\ Told' /\ (phase' # "over" => at' \in 1..Len(Tasks(job))')
    BY <1>0, <1>1, <1>3, ExitsKeep
  <1> QED BY <1>4, TurnKeeps

-----------------------------------------------------------------------------
(* The nodes                                                               *)

\* What happens by itself on the nodes: no evidence is lost, and none appears while archive's exit is on.
LEMMA NodesKeep ==
  ASSUME IInv, UNCHANGED <<job, at, phase, main, joining, side, strays, kept, status>>, DOMAIN on' = Machines,
         \A n \in Nodes : (on[n] \ on'[n]) \cap Evidence = {},
         at <= Len(get_initial_tasks(job)) => \A n \in Nodes : on'[n] \cap Evidence \subseteq on[n]
  PROVE  IInv' /\ Keeps
  <1>1. CASE Gentle(main.program, Spared)
    <2>1. Gentle(main'.program, Spared')
      BY <1>1 DEF Spared
    <2> QED BY <2>1 DEF IInv, Shaped, GreenletsMute, Joins, Told, Keeps
  <1>2. CASE \E p : Archiving(p)
    <2>1. at <= Len(get_initial_tasks(job))
      BY <1>2, TasksFramed DEF Archiving, Framing, IInv, Shaped
    <2>2. (Gentle(main.program, Spared) \/ \E p : Archiving(p))'
      BY <2>1, MainStays
    <2> QED BY <2>2 DEF IInv, Shaped, GreenletsMute, Joins, Told, Keeps
  <1> QED BY <1>1, <1>2 DEF IInv

\* A node reboots; a build becomes ready; something goes wrong while the job's own tasks run.
LEMMA RebootKeeps ==
  ASSUME IInv, NEW n \in Nodes, reboots(n)
  PROVE  IInv' /\ Keeps
  <1> USE DEF reboots
  <1> DEFINE more == (IF "sysctl_line" \in on[n] THEN {"core_pattern"} ELSE {})
                     \cup (IF n \in selinux_hosts(job) THEN {"enforcing"} \cap job.marks[n] ELSE {})
                     \cup (IF BootsNew(job, n, on[n]) THEN {"running_new"} ELSE {})
  <1>1. n \in Machines /\ DOMAIN on = Machines
    BY DEF Machines, IInv, Shaped
  <1>2. on' = [on EXCEPT ![n] = (on[n] \ Volatile) \cup more]
    OBVIOUS
  <1>3. /\ \A e \in Evidence : e \notin more
        /\ Volatile \cap Evidence = {}
    BY DEF Evidence, Volatile
  <1> HIDE DEF more
  <1>4. \A m \in Nodes : (on[m] \ on'[m]) \cap Evidence = {} /\ on'[m] \cap Evidence \subseteq on[m]
    <2> TAKE m \in Nodes
    <2>1. on'[m] = IF m = n THEN (on[n] \ Volatile) \cup more ELSE on[m]
      BY <1>1, <1>2 DEF Machines
    <2> QED BY <2>1, <1>3
  <1>5. DOMAIN on' = Machines
    BY <1>1, <1>2
  <1> QED BY <1>4, <1>5, NodesKeep

LEMMA BuildKeeps ==
  ASSUME IInv, new_build
  PROVE  IInv' /\ Keeps
  <1> USE DEF new_build
  <1>1. DOMAIN on = Machines
    BY DEF IInv, Shaped
  <1>2. \A m \in Nodes : on'[m] = on[m]
    <2> TAKE m \in Nodes
    <2>1. m # Here /\ m \in Machines
      BY NodesAssumption DEF Machines
    <2> QED BY <1>1, <2>1
  <1>3. DOMAIN on' = Machines
    BY <1>1
  <1> QED BY <1>2, <1>3, NodesKeep

LEMMA WrongKeeps ==
  ASSUME IInv, NEW n \in Nodes, goes_wrong(n)
  PROVE  IInv' /\ Keeps
  <1> USE DEF goes_wrong
  <1>1. n \in Machines /\ DOMAIN on = Machines
    BY DEF Machines, IInv, Shaped
  <1>2. PICK what : on' = [on EXCEPT ![n] = IF what \in {"core", "sysusers_core"} /\ "core_pattern" \notin @ THEN @
                                            ELSE @ \cup {what}]
    OBVIOUS
  <1>3. \A m \in Nodes : on[m] \subseteq on'[m]
    BY <1>1, <1>2 DEF Machines
  <1>4. DOMAIN on' = Machines
    BY <1>1, <1>2
  <1>5. ~(at <= Len(get_initial_tasks(job)))
    <2>1. at \in Int /\ Len(get_initial_tasks(job)) \in Int
      <3>1. Len(get_initial_tasks(job)) \in Int
        BY InitialTasks, LenProperties DEF IInv, Shaped
      <3> QED BY <3>1 DEF IInv, Shaped
    <2> QED BY <2>1 DEF Own
  <1> QED BY <1>3, <1>4, <1>5, NodesKeep

\* Every step keeps the invariant, and the evidence.
LEMMA NextKeeps ==
  ASSUME IInv, [Next]_vars
  PROVE  IInv' /\ Keeps
  <1>1. CASE command
    BY <1>1, CommandKeeps
  <1>2. CASE spawn
    BY <1>2, SpawnKeeps
  <1>3. CASE join
    BY <1>3, JoinKeeps
  <1>4. CASE entered
    BY <1>4, EnteredKeeps
  <1>5. CASE enter_raised
    BY <1>5, EnterRaisedKeeps
  <1>6. CASE exited
    BY <1>6, ExitedKeeps
  <1>7. CASE \E n \in Nodes : side_command(n) \/ join_raises(n) \/ reboots(n) \/ goes_wrong(n)
    BY <1>7, SideKeeps, JoinRaisesKeeps, RebootKeeps, WrongKeeps
  <1>8. CASE stray_command
    BY <1>8, StrayKeeps
  <1>9. CASE new_build
    BY <1>9, BuildKeeps
  <1>10. CASE over \/ UNCHANGED vars
    <2>1. UNCHANGED vars
      BY <1>10 DEF over
    <2>2. DOMAIN on' = Machines
      BY <2>1 DEF IInv, Shaped, vars
    <2> QED BY <2>1, <2>2, NodesKeep DEF vars
  <1> QED BY <1>1, <1>2, <1>3, <1>4, <1>5, <1>6, <1>7, <1>8, <1>9, <1>10 DEF Next

(* internal/__init__.py, archive: for all jobs, nodes and faults, what     *)
(* tells why a job failed is removed from a node only when it is in the    *)
(* archive, or is not wanted.                                              *)
THEOREM EvidenceKeptHolds == Spec => EvidenceKept
  <1>1. IInv /\ [Next]_vars => IInv'
    BY NextKeeps
  <1>2. IInv /\ [Next]_vars => [Keeps]_vars
    BY NextKeeps
  <1>3. [Keeps]_vars
        => [\A n \in Nodes :
              \/ (on[n] \ on'[n]) \cap Evidence \subseteq kept[n]
              \/ "archive" \notin job.has
              \/ "archive-on-error" \in job.has /\ status = "pass"]_vars
    BY DEF Keeps
  <1> QED BY <1>1, <1>2, <1>3, InitInvariant, PTL DEF Spec, EvidenceKept

-----------------------------------------------------------------------------
(* Looking for what has gone wrong                                         *)

Troubles == {"core", "denial", "kernel_bug"}

\* The task that finds it, the marks it leaves, and the command that looks at them.
Finder(k) == CASE k = "core" -> "coredump" [] k = "denial" -> "selinux" [] k = "kernel_bug" -> "syslog"
Signs(k) == IF k = "core" THEN {"core", "coredump_dir"} ELSE {k}
Look(k) ==
  CASE k = "core" -> Flag(Hosts(job), {"coredump_dir"})[1]
    [] k = "denial" -> Search(selinux_hosts(job), {"denial"}, "none")[1]
    [] k = "kernel_bug" -> Search(Hosts(job), {"kernel_bug"}, "fail")[1]

LEMMA LookIs ==
  ASSUME NEW k \in Troubles
  PROVE  /\ Look(k).on = (IF k = "denial" THEN selinux_hosts(job) ELSE Hosts(job))
         /\ Look(k).on \subseteq Nodes
         /\ Look(k).puts \subseteq Signs(k) /\ Look(k).puts # {}
         /\ IF k = "core" THEN Look(k).how = "flag" /\ ~Look(k).quiet
            ELSE Look(k).how = "search" /\ Look(k).puts = {k}
         /\ Look(k).as # "pass"
         /\ Look(k).handler = <<>>
         /\ Finder(k) \in Finders /\ Signs(k) \subseteq Traces
  BY DEF Look, Troubles, Flag, Search, Command, Hosts, selinux_hosts, Signs, Finder, Finders, Traces, Evidence

\* Who looks where something has gone wrong raises, or makes the job fail, or misses it.
LEMMA LookShows ==
  ASSUME NEW g, NEW o \in Outcomes(g), NEW k \in Troubles, g.program[1] = Look(k),
         NEW n \in Look(k).on, Signs(k) \subseteq on[n]
  PROVE  o.g.raised # "none" \/ o.status # "pass" \/ k \in o.missed
  <1> DEFINE c == g.program[1]
             Raised(bad) == Raises(c, on, bad) \/ (TimesOut(c) /\ ~c.quiet)
  <1>1. PICK bad : /\ o.done \in cluster_run(c, bad)
                   /\ o.g.program = IF Raised(bad) THEN Unwound(g.program) ELSE Rest(g.program, on)
                   /\ IF Raised(bad) THEN o.g.raised # "none" ELSE o.g.raised = g.raised
                   /\ o.status = CASE c.how = "status" -> c.as
                                   [] c.how = "flag" /\ (\E m \in c.on \ bad : on[m] \cap c.puts # {}) -> "fail"
                                   [] Found(c, on, bad) /\ c.as # "none" -> c.as
                                   [] OTHER -> status
                   /\ o.missed = Missed(c, on, bad)
    BY OutcomeForm
  <1>2. /\ n \in c.on /\ on[n] \cap c.puts # {} /\ c.as # "pass"
        /\ IF k = "core" THEN c.how = "flag" /\ ~c.quiet ELSE c.how = "search" /\ c.puts = {k}
    BY LookIs
  <1> HIDE DEF c
  <1>3. CASE k = "core"
    <2>1. bad # {} => Raised(bad)
      BY <1>2, <1>3 DEF Raises
    <2>2. bad = {} => o.status = "fail"
      <3>1. ~Found(c, on, bad)
        BY <1>2, <1>3 DEF Found
      <3> HIDE DEF Raised
      <3> QED BY <1>1, <1>2, <1>3, <3>1
    <2> HIDE DEF Raised
    <2> QED BY <1>1, <2>1, <2>2
  <1>4. CASE k # "core" /\ n \in bad
    BY <1>1, <1>2, <1>4 DEF Missed
  <1>5. CASE k # "core" /\ n \notin bad
    <2>1. Found(c, on, bad)
      BY <1>2, <1>5 DEF Found
    <2>2. c.as = "none" => Raised(bad)
      BY <2>1 DEF Raises
    <2>3. c.as # "none" => o.status = c.as
      <3> HIDE DEF Raised
      <3> QED BY <1>1, <1>2, <1>5, <2>1
    <2> HIDE DEF Raised
    <2> QED BY <1>1, <1>2, <2>2, <2>3
  <1> QED BY <1>3, <1>4, <1>5

\* A command that is in one of two programs is in the whole.
LEMMA HasConcat ==
  ASSUME NEW C, NEW p \in Seq(C), NEW q \in Seq(C), NEW x, Has(p, x) \/ Has(q, x)
  PROVE  p \o q \in Seq(C) /\ Has(p \o q, x)
  <1>1. p \o q \in Seq(C)
    BY ConcatHas
  <1>2. CASE Has(p, x)
    <2>1. PICK i \in DOMAIN p : p[i] = x
      BY <1>2 DEF Has
    <2>2. i \in DOMAIN (p \o q) /\ (p \o q)[i] = x
      BY <2>1, ConcatHas
    <2> QED BY <1>1, <2>2 DEF Has
  <1>3. CASE Has(q, x)
    <2>1. PICK i \in DOMAIN q : q[i] = x
      BY <1>3 DEF Has
    <2>2. Len(p) + i \in DOMAIN (p \o q) /\ (p \o q)[Len(p) + i] = x
      BY <2>1, ConcatHas
    <2> QED BY <1>1, <2>2 DEF Has
  <1> QED BY <1>2, <1>3

\* Programs are sequences of commands.
LEMMA HasOne ==
  ASSUME NEW c
  PROVE  Has(<<c>>, c) /\ \A C : c \in C => <<c>> \in Seq(C)
  <1>1. 1 \in DOMAIN <<c>> /\ <<c>>[1] = c
    OBVIOUS
  <1>2. \A C : c \in C => <<c>> \in Seq(C)
    OBVIOUS
  <1> QED BY <1>1, <1>2 DEF Has

\* A command after which a directory with a core on node n is still there: only
\* where there is none coredump removes it.
Tidies(c, n) ==
  /\ c.handler = <<>>
  /\ c.how # "branch" => n \notin c.on \/ c.how \in Reads \/ "coredump_dir" \notin c.drops
  /\ c.how = "branch" =>
       /\ c.yes = <<>>
       /\ \E m \in c.on :
            /\ c.on = {m}
            /\ \/ c.puts = {"core"} /\ c.no = All({m}, {}, {"coredump_dir"})
               \/ c.puts = {"sysusers_core"}
                  /\ c.no = Branch({m}, {"core"}, <<>>, All({m}, {}, {"coredump_dir"}))

Careful(p, n) == \A i \in DOMAIN p : Tidies(p[i], n)

\* coredump's exit looks, and is careful until then.
LEMMA CoredumpExit ==
  ASSUME job \in Jobs
  PROVE  /\ Has(coredump_exit(job), Look("core"))
         /\ \A n : Careful(coredump_exit(job), n)
  <1> DEFINE H == Hosts(job)
             last == Cardinality(H)
             Tidy(m) == IfCores(m, <<>>, All({m}, {}, {"coredump_dir"}))
             ss == [i \in 1..last |-> Tidy(SetToSeq(H)[i])]
             first == All(H, {}, {"core_pattern"})
             b == Command("all", H, {}, {"sysusers_core"})
             second == [b EXCEPT !.quiet = TRUE]
             loop == FlattenSeq(ss)
             M == {SetToSeq(H)[i] : i \in 1..last}
             T == {first[1], second, Look("core")} \cup {Tidy(m)[1] : m \in M}
  <1>1. coredump_exit(job) = ((first \o <<second>>) \o loop) \o <<Look("core")>>
    <2>1. Flag(H, {"coredump_dir"}) = <<Look("core")>>
      BY DEF Flag, Look
    <2>2. Quiet(All(H, {}, {"sysusers_core"})) = <<second>>
      <3>1. All(H, {}, {"sysusers_core"}) = <<b>>
        BY DEF All
      <3> HIDE DEF b
      <3> QED BY <3>1, QuietOne
    <2> QED BY <2>1, <2>2 DEF coredump_exit, ForEach
  <1>2. last \in Nat
    BY JobNodes, NodesCount
  <1>3. first \in Seq(T) /\ <<second>> \in Seq(T) /\ <<Look("core")>> \in Seq(T)
    <2>1. first = <<first[1]>>
      BY DEF All
    <2>2. first[1] \in T /\ second \in T /\ Look("core") \in T
      OBVIOUS
    <2> HIDE DEF T, first, second
    <2> QED BY <2>1, <2>2, HasOne
  <1>4. \A i \in 1..last : ss[i] \in Seq(T)
    <2> TAKE i \in 1..last
    <2> DEFINE m == SetToSeq(H)[i]
    <2>1. ss[i] = <<Tidy(m)[1]>>
      BY DEF IfCores, Branch
    <2>2. Tidy(m)[1] \in T
      OBVIOUS
    <2> HIDE DEF T, ss, Tidy, m
    <2> QED BY <2>1, <2>2, HasOne
  <1>5. loop \in Seq(T)
    <2>1. ss \in Seq(Seq(T))
      <3> HIDE DEF T, last
      <3> QED BY <1>2, <1>4
    <2> HIDE DEF T, ss
    <2> QED BY <2>1, FlattenHas
  <1>6. ASSUME NEW c \in T, NEW n
        PROVE  Tidies(c, n)
    <2>1. CASE c = first[1]
      BY <2>1 DEF Tidies, All, Command
    <2>2. CASE c = Look("core")
      BY <2>2 DEF Tidies, Look, Flag, Command, Reads
    <2>4. CASE c = second
      <3>1. second.handler = <<>> /\ second.how = "all" /\ second.drops = {"sysusers_core"}
        BY DEF Command
      <3> HIDE DEF second
      <3> QED BY <2>4, <3>1 DEF Tidies
    <2>3. CASE \E m \in M : c = Tidy(m)[1]
      <3>1. PICK m : c = Tidy(m)[1]
        BY <2>3
      <3> DEFINE no == Branch({m}, {"core"}, <<>>, All({m}, {}, {"coredump_dir"}))
      <3>2. c = [Command("branch", {m}, {"sysusers_core"}, {}) EXCEPT !.yes = <<>>, !.no = no]
        BY <3>1 DEF IfCores, Branch
      <3>3. c.handler = <<>> /\ c.how = "branch" /\ c.on = {m} /\ c.puts = {"sysusers_core"} /\ c.yes = <<>> /\ c.no = no
        <4> HIDE DEF no
        <4> QED BY <3>2 DEF Command
      <3> QED BY <3>3 DEF Tidies
    <2> QED BY <2>1, <2>2, <2>3, <2>4
  <1> HIDE DEF T, loop, first, second
  <1>7. (first \o <<second>>) \o loop \in Seq(T)
    BY <1>3, <1>5, ConcatHas
  <1>8. coredump_exit(job) \in Seq(T) /\ Has(coredump_exit(job), Look("core"))
    <2>1. Has(<<Look("core")>>, Look("core"))
      BY HasOne
    <2> DEFINE p == (first \o <<second>>) \o loop
               q == <<Look("core")>>
    <2> HIDE DEF p, q
    <2>2. p \o q \in Seq(T) /\ Has(p \o q, Look("core"))
      BY <1>3, <1>7, <2>1, HasConcat DEF p, q
    <2> QED BY <1>1, <2>2 DEF p, q
  <1>9. \A i \in DOMAIN coredump_exit(job) : coredump_exit(job)[i] \in T
    BY <1>8
  <1> QED BY <1>6, <1>8, <1>9 DEF Careful

\* So do the exits of the others: selinux's at the end, syslog's after it has restored the configuration.
LEMMA FinderExit ==
  ASSUME job \in Jobs, NEW k \in Troubles, k = "kernel_bug" => "archive" \in job.has /\ Hosts(job) # {},
         NEW s, NEW told
  PROVE  Has(Exit(job, Finder(k), s, told), Look(k))
  <1>1. CASE k = "core"
    BY <1>1, CoredumpExit DEF Exit, Finder
  <1>2. CASE k = "denial"
    <2> DEFINE h == selinux_hosts(job)
               last == Cardinality(h)
               Restore(n) == Branch({n}, {"old_enforcing"}, Each({n}, {"enforcing"}, {}), <<>>)
               ss == [i \in 1..last |-> Restore(SetToSeq(h)[i])]
               a == Require({Here}, {"old_modes"})
               b == FlattenSeq(ss)
               x == Each(h, {"audit_dir", "audit"}, {})
               c == When("archive" \in job.has, x)
               d == Require({Here}, {"old_denials"})
               e == <<Look(k)>>
               T == {a[1], x[1], d[1], Look(k)} \cup {Restore(SetToSeq(h)[i])[1] : i \in 1..last}
    <2>1. Exit(job, Finder(k), s, told) = ((a \o b) \o c) \o (d \o e)
      <3>1. Search(h, {"denial"}, "none") = e
        BY <1>2 DEF Search, Look
      <3>2. Exit(job, Finder(k), s, told) = selinux_teardown(job)
        BY <1>2 DEF Exit, Finder
      <3> QED BY <3>1, <3>2 DEF selinux_teardown, restore_modes, get_new_denials, ForEach
    <2>2. a \in Seq(T) /\ c \in Seq(T) /\ d \in Seq(T) /\ e \in Seq(T)
      <3>1. a = <<a[1]>> /\ d = <<d[1]>> /\ x = <<x[1]>>
        BY DEF Require, Each
      <3>2. c = <<>> \/ c = x
        BY DEF When
      <3>3. a[1] \in T /\ d[1] \in T /\ x[1] \in T /\ Look(k) \in T
        OBVIOUS
      <3> HIDE DEF a, c, d, x, T
      <3>4. a \in Seq(T) /\ d \in Seq(T) /\ x \in Seq(T) /\ e \in Seq(T)
        BY <3>1, <3>3, HasOne
      <3>5. <<>> \in Seq(T)
        OBVIOUS
      <3> QED BY <3>2, <3>4, <3>5
    <2>5. b \in Seq(T)
      <3>1. last \in Nat
        BY NodesCount DEF selinux_hosts
      <3>2. \A i \in 1..last : ss[i] \in Seq(T)
        <4> TAKE i \in 1..last
        <4> DEFINE n == SetToSeq(h)[i]
        <4>1. ss[i] = <<Restore(n)[1]>>
          BY DEF Branch
        <4>2. Restore(n)[1] \in T
          OBVIOUS
        <4> HIDE DEF T, ss, Restore, n
        <4> QED BY <4>1, <4>2, HasOne
      <3>3. ss \in Seq(Seq(T))
        <4> HIDE DEF T, last
        <4> QED BY <3>1, <3>2
      <3> HIDE DEF T, ss
      <3> QED BY <3>3, FlattenHas
    <2>3. Has(e, Look(k))
      BY HasOne
    <2> HIDE DEF a, b, c, d, e, T
    <2>4. (a \o b) \o c \in Seq(T)
      BY <2>2, <2>5, ConcatHas
    <2>6. d \o e \in Seq(T) /\ Has(d \o e, Look(k))
      BY <2>2, <2>3, HasConcat
    <2> QED BY <2>1, <2>4, <2>6, HasConcat
  <1>3. CASE k = "kernel_bug"
    <2> DEFINE h == Hosts(job)
               a == All(h, {}, {"syslog_conf"})
               b == <<Look(k)>>
               c == All(h, {"log"}, {})
               d == All(h, {}, {})
               T == {a[1], c[1], d[1], Look(k)}
    <2>1. Exit(job, Finder(k), s, told) = ((a \o b) \o c) \o d
      <3>1. Search(h, {"kernel_bug"}, "fail") = b
        BY <1>3 DEF Search, Look
      <3>2. Exit(job, Finder(k), s, told) = syslog_close(job)
        BY <1>3 DEF Exit, Finder, syslog_exit, When
      <3> QED BY <3>1, <3>2 DEF syslog_close, syslog_restore
    <2>2. a \in Seq(T) /\ b \in Seq(T) /\ c \in Seq(T) /\ d \in Seq(T)
      BY DEF All
    <2>3. Has(b, Look(k))
      BY HasOne
    <2> HIDE DEF a, b, c, d, T
    <2>4. a \o b \in Seq(T) /\ Has(a \o b, Look(k))
      BY <2>2, <2>3, HasConcat
    <2>5. (a \o b) \o c \in Seq(T) /\ Has((a \o b) \o c, Look(k))
      BY <2>2, <2>4, HasConcat
    <2> QED BY <2>1, <2>2, <2>5, HasConcat
  <1> QED BY <1>1, <1>2, <1>3 DEF Troubles

\* What is careful stays so when its first command is done: a branch removes the
\* directory of another node only.
LEMMA RestCareful ==
  ASSUME NEW p, NEW puts, NEW drops, NEW sides, Spares(p, puts, drops, sides), p # <<>>,
         NEW f, NEW n, "core" \in f[n], Careful(p, n)
  PROVE  Tidies(p[1], n) /\ Careful(Tail(p), n) /\ Careful(Rest(p, f), n)
  <1> DEFINE c == p[1]
             t == Tail(p)
  <1>1. PICK C : p \in Seq(C)
    BY DEF Spares
  <1>2. /\ 1 \in DOMAIN p
        /\ t \in Seq(C) /\ \A i \in DOMAIN t : i + 1 \in DOMAIN p /\ t[i] = p[i + 1]
    BY <1>1
  <1>3. Tidies(c, n) /\ Careful(t, n)
    <2> HIDE DEF t
    <2> QED BY <1>2 DEF Careful
  <1>4. CASE c.how # "branch"
    BY <1>3, <1>4 DEF Rest
  <1>5. CASE c.how = "branch"
    <2>1. PICK m : /\ c.handler = <<>> /\ c.yes = <<>> /\ c.on = {m}
                   /\ \/ c.puts = {"core"} /\ c.no = All({m}, {}, {"coredump_dir"})
                      \/ c.puts = {"sysusers_core"}
                         /\ c.no = Branch({m}, {"core"}, <<>>, All({m}, {}, {"coredump_dir"}))
      BY <1>3, <1>5 DEF Tidies
    <2> DEFINE taken == Try(IF \A x \in c.on : c.puts \subseteq f[x] THEN c.yes ELSE c.no, c.handler)
    <2>2. Rest(p, f) = taken \o t
      BY <1>5 DEF Rest
    <2>3. CASE c.puts \subseteq f[m]
      <3>1. taken = Try(<<>>, <<>>)
        BY <2>1, <2>3
      <3>2. Try(<<>>, <<>>) = <<>>
        BY DEF Try
      <3> HIDE DEF taken, t
      <3>3. Rest(p, f) = t
        BY <1>2, <2>2, <3>1, <3>2, ConcatEmptySeq
      <3> QED BY <1>3, <3>3 DEF t
    <2>4. ASSUME NEW b, NEW d, d = [b EXCEPT !.handler = @ \o <<>>], c.no = <<b>>, ~(c.puts \subseteq f[m]), Tidies(d, n)
          PROVE  Careful(t, n) /\ Careful(Rest(p, f), n)
      <3>1. taken = Try(<<b>>, <<>>)
        BY <2>1, <2>4
      <3>2. taken = <<d>>
        <4>1. Try(<<b>>, <<>>) = <<d>>
          BY <2>4 DEF Try
        <4> HIDE DEF taken
        <4> QED BY <3>1, <4>1
      <3>4. Tidies(d, n)
        BY <2>4
      <3> HIDE DEF taken, t
      <3>5. \A i \in DOMAIN (<<d>> \o t) :
               \/ i = 1 /\ (<<d>> \o t)[i] = d
               \/ i - 1 \in DOMAIN t /\ (<<d>> \o t)[i] = t[i - 1]
        <4> DEFINE D == C \cup {d}
                   q == <<d>>
        <4>1. t \in Seq(D) /\ q \in Seq(D) /\ Len(q) = 1 /\ q[1] = d
          BY <1>2, SeqMonotonic
        <4> HIDE DEF D, q
        <4>2. /\ Len(q \o t) = Len(q) + Len(t) /\ q \o t \in Seq(D)
              /\ \A i \in 1..(Len(q) + Len(t)) : (q \o t)[i] = IF i <= Len(q) THEN q[i] ELSE t[i - Len(q)]
          BY <4>1, ConcatProperties
        <4>3. ASSUME NEW i \in DOMAIN (q \o t)
              PROVE  \/ i = 1 /\ (q \o t)[i] = d
                     \/ i - 1 \in DOMAIN t /\ (q \o t)[i] = t[i - 1]
          <5>0. Len(t) \in Nat /\ DOMAIN t = 1..Len(t) /\ i \in 1..(1 + Len(t))
            BY <4>1, <4>2
          <5>1. (q \o t)[i] = IF i <= 1 THEN q[i] ELSE t[i - 1]
            BY <4>1, <4>2, <5>0
          <5>2. i = 1 \/ (~(i <= 1) /\ i - 1 \in 1..Len(t))
            BY <5>0
          <5>3. CASE i = 1
            BY <4>1, <5>1, <5>3
          <5>4. CASE ~(i <= 1) /\ i - 1 \in 1..Len(t)
            BY <5>0, <5>1, <5>4
          <5> QED BY <5>2, <5>3, <5>4
        <4> QED BY <4>3 DEF q
      <3>6. Careful(<<d>> \o t, n)
        BY <1>3, <3>4, <3>5 DEF Careful
      <3> QED BY <1>3, <2>2, <3>2, <3>6
    <2>5. CASE ~(c.puts \subseteq f[m]) /\ c.puts = {"core"} /\ c.no = All({m}, {}, {"coredump_dir"})
      <3> DEFINE b == Command("all", {m}, {}, {"coredump_dir"})
                 d == [b EXCEPT !.handler = @ \o <<>>]
      <3>1. c.no = <<b>> /\ m # n
        BY <2>5 DEF All
      <3>2. d.handler = <<>> /\ d.how = "all" /\ d.on = {m}
        BY DEF Command
      <3> HIDE DEF b
      <3>3. d.handler = <<>> /\ d.how = "all" /\ d.on = {m} /\ d = [b EXCEPT !.handler = @ \o <<>>]
        BY <3>2
      <3> HIDE DEF d, t
      <3>4. Tidies(d, n)
        BY <3>1, <3>3 DEF Tidies
      <3>5. \E x, y : y = [x EXCEPT !.handler = @ \o <<>>] /\ c.no = <<x>> /\ Tidies(y, n)
        BY <3>1, <3>3, <3>4
      <3> HIDE DEF c
      <3>6. Careful(Rest(p, f), n)
        BY <2>4, <2>5, <3>5
      <3> QED BY <1>3, <3>6 DEF c, t
    <2>6. CASE /\ ~(c.puts \subseteq f[m])
               /\ c.no = Branch({m}, {"core"}, <<>>, All({m}, {}, {"coredump_dir"}))
      <3> DEFINE a == All({m}, {}, {"coredump_dir"})
                 b == [Command("branch", {m}, {"core"}, {}) EXCEPT !.yes = <<>>, !.no = a]
                 d == [b EXCEPT !.handler = @ \o <<>>]
      <3>1. c.no = <<b>>
        BY <2>6 DEF Branch
      <3> HIDE DEF a
      <3>2. /\ d.handler = <<>> /\ d.how = "branch" /\ d.on = {m} /\ d.puts = {"core"}
            /\ d.yes = <<>> /\ d.no = a
        BY DEF Command
      <3> HIDE DEF b
      <3>3. /\ d.handler = <<>> /\ d.how = "branch" /\ d.on = {m} /\ d.puts = {"core"}
            /\ d.yes = <<>> /\ d.no = a /\ d = [b EXCEPT !.handler = @ \o <<>>]
        BY <3>2
      <3> HIDE DEF d, t
      <3>4. Tidies(d, n)
        BY <3>3 DEF Tidies, a
      <3>5. \E x, y : y = [x EXCEPT !.handler = @ \o <<>>] /\ c.no = <<x>> /\ Tidies(y, n)
        BY <3>1, <3>3, <3>4
      <3> HIDE DEF c
      <3>6. Careful(Rest(p, f), n)
        BY <2>4, <2>6, <3>5
      <3> QED BY <1>3, <3>6 DEF c, t
    <2> HIDE DEF taken
    <2> QED BY <2>1, <2>3, <2>5, <2>6
  <1> QED BY <1>3, <1>4, <1>5

-----------------------------------------------------------------------------
(* The invariant of what has gone wrong                                    *)

\* The tasks of that name have been entered, and their exits are still to come.
Beyond(t) == \A i \in 1..Len(Tasks(job)) : Tasks(job)[i] = t => i < at

CoreMarks == {"coredump_dir", "core_pattern", "sysctl_line"}
CoreSet == \A n \in Hosts(job) : CoreMarks \subseteq on[n]

\* From coredump's entering to its exit, a core goes where coredump looks.
Dumps ==
  /\ phase # "over" /\ Beyond("coredump") => CoreSet
  /\ phase = "enter" /\ Tasks(job)[at] = "coredump" /\ main.raised = "none" =>
       CoreSet \/ main.program = coredump_enter(job)

\* What has gone wrong shows on a node, and is still to be looked for there:
\* by a task that is not exited yet, or in what its exit has to do.
Watches(k, n) ==
  \/ Beyond(Finder(k))
  \/ /\ phase # "enter" /\ Tasks(job)[at] = Finder(k)
     /\ Has(main.program, Look(k))
     /\ k = "core" => Careful(main.program, n)

Watched(k) ==
  /\ phase # "over"
  /\ \E n \in Look(k).on : Signs(k) \subseteq on[n] /\ Watches(k, n)

\* As long as nobody has told of it, or was kept from reading of it.
Seen ==
  /\ trouble \subseteq Troubles \cup {"sysusers_core"}
  /\ status = "pass" /\ main.raised = "none" =>
       \A k \in trouble \cap Troubles :
         (k = "kernel_bug" /\ "archive" \notin job.has) \/ k \in missed \/ Watched(k)

Ends == phase = "over" => Over(main) /\ main.raised = "none"

Shows == Dumps /\ Seen /\ Ends

\* The tasks that find something have places, after archive's.
LEMMA FinderPlaces ==
  ASSUME job \in Jobs, NEW t \in Finders
  PROVE  /\ \E i \in 1..Len(Tasks(job)) : Tasks(job)[i] = t
         /\ \A i \in 1..Len(Tasks(job)) : Tasks(job)[i] = "archive" => ~Beyond(t) \/ at # i
         /\ t # "archive"
  <1>1. Framed(Tasks(job)) /\ Len(Tasks(job)) \in Nat
    BY TasksFramed
  <1>2. PICK j \in 1..Len(Tasks(job)) : Tasks(job)[j] = t
    BY <1>1 DEF Framed
  <1>3. ASSUME NEW i \in 1..Len(Tasks(job)), Tasks(job)[i] = "archive", Beyond(t), at = i
        PROVE  FALSE
    <2>1. i < j
      BY <1>1, <1>2, <1>3 DEF Framed
    <2>2. j < i
      BY <1>2, <1>3 DEF Beyond
    <2> QED BY <1>1, <2>1, <2>2
  <1> QED BY <1>2, <1>3 DEF Finders

\* A task whose places are all passed is not the one at hand.
LEMMA BeyondIs ==
  ASSUME IInv, phase # "over", NEW t, Beyond(t)
  PROVE  Tasks(job)[at] # t
  BY TasksFramed DEF IInv, Shaped, Beyond

\* While something is watched, archive's exit is not on, and the task at hand
\* spares the signs.
LEMMA WatchedSpared ==
  ASSUME IInv, NEW k \in Troubles, phase # "over", NEW n, Watches(k, n)
  PROVE  /\ Gentle(main.program, Spared)
         /\ Beyond(Finder(k)) => Signs(k) \subseteq Spared
         /\ Signs(k) \ {"coredump_dir"} \subseteq Spared
  <1>1. job \in Jobs /\ at \in 1..Len(Tasks(job)) /\ Finder(k) \in Finders
    BY LookIs DEF IInv, Shaped
  <1>2. Gentle(main.program, Spared)
    <2> SUFFICES ASSUME NEW p, Archiving(p) PROVE FALSE
      BY DEF IInv
    <2>1. Tasks(job)[at] = "archive"
      BY DEF Archiving
    <2> QED BY <1>1, <2>1, FinderPlaces DEF Watches
  <1>3. Signs(k) \subseteq Traces
    BY LookIs
  <1>4. Beyond(Finder(k)) => Signs(k) \subseteq Spared
    <2> SUFFICES ASSUME Beyond(Finder(k)) PROVE Signs(k) \subseteq Spared
      OBVIOUS
    <2>1. Tasks(job)[at] # Finder(k)
      BY BeyondIs
    <2> QED BY <1>3, <2>1 DEF Spared, Lenient, Finder, Signs, Troubles
  <1>5. Signs(k) \ {"coredump_dir"} \subseteq Spared
    <2>1. CASE Beyond(Finder(k))
      BY <1>4, <2>1
    <2>2. CASE phase # "enter" /\ Tasks(job)[at] = Finder(k)
      BY <1>3, <2>2 DEF Spared, Lenient, Finder, Signs, Troubles
    <2> QED BY <2>1, <2>2 DEF Watches
  <1> QED BY <1>2, <1>4, <1>5

\* Nor are the places for cores removed before coredump's exit.
LEMMA CoreSpared ==
  ASSUME IInv, phase # "over", Beyond("coredump") \/ (phase = "enter" /\ Tasks(job)[at] = "coredump")
  PROVE  Gentle(main.program, Spared) /\ CoreMarks \subseteq Spared
  <1>1. job \in Jobs /\ at \in 1..Len(Tasks(job)) /\ "coredump" \in Finders
    BY DEF IInv, Shaped, Finders
  <1>2. Gentle(main.program, Spared)
    <2> SUFFICES ASSUME NEW p, Archiving(p) PROVE FALSE
      BY DEF IInv
    <2>1. Tasks(job)[at] = "archive"
      BY DEF Archiving
    <2> QED BY <1>1, <2>1, FinderPlaces
  <1>3. Tasks(job)[at] = "coredump" => phase = "enter"
    BY BeyondIs
  <1> QED BY <1>2, <1>3 DEF Spared, Lenient, CoreMarks, Traces

\* Steps of others leave the signs on the nodes. A reboot sets core_pattern again.
LEMMA OthersShow ==
  ASSUME IInv, Shows, UNCHANGED <<job, at, phase, main, trouble>>, status' = "pass" => status = "pass",
         missed \subseteq missed',
         \A n \in Nodes : /\ (on[n] \ on'[n]) \cap Traces \subseteq {"core_pattern"}
                          /\ "sysctl_line" \in on[n] /\ "core_pattern" \in on[n] => "core_pattern" \in on'[n]
  PROVE  Shows'
  <1>1. CoreSet => CoreSet'
    <2> SUFFICES ASSUME CoreSet, NEW n \in Hosts(job) PROVE CoreMarks \subseteq on'[n]
      BY DEF CoreSet
    <2>1. n \in Nodes /\ CoreMarks \subseteq on[n] /\ CoreMarks \subseteq Traces
      BY DEF CoreSet, Hosts, CoreMarks, Traces
    <2> QED BY <2>1 DEF CoreMarks
  <1>2. \A t : Beyond(t)' <=> Beyond(t)
    BY DEF Beyond
  <1>3. Dumps'
    BY <1>1, <1>2 DEF Shows, Dumps
  <1>4. ASSUME NEW k \in Troubles, Watched(k)
        PROVE  Watched(k)'
    <2>1. PICK n \in Look(k).on : Signs(k) \subseteq on[n] /\ Watches(k, n)
      BY <1>4 DEF Watched
    <2>2. Look(k)' = Look(k)
      BY DEF Look
    <2>3. n \in Nodes /\ Signs(k) \subseteq Traces /\ "core_pattern" \notin Signs(k)
      BY LookIs DEF Signs, Troubles
    <2>4. Signs(k) \subseteq on'[n]
      BY <2>1, <2>3
    <2>5. Watches(k, n)'
      BY <1>2, <2>1, <2>2 DEF Watches
    <2> QED BY <1>4, <2>2, <2>4, <2>5 DEF Watched
  <1>5. Seen'
    BY <1>4 DEF Shows, Seen
  <1>6. Ends'
    BY DEF Shows, Ends, Over
  <1> QED BY <1>3, <1>5, <1>6 DEF Shows

-----------------------------------------------------------------------------
(* The steps, and what has gone wrong                                      *)

\* No command of the task makes the job pass.
LEMMA NoPass ==
  ASSUME IInv, main.program # <<>>
  PROVE  main.program[1].as # "pass"
  <1>1. CASE Gentle(main.program, Spared)
    BY <1>1, GentleRest DEF Fits
  <1>2. ASSUME NEW p, Archiving(p)
        PROVE  main.program[1].as # "pass"
    <2>1. main.program = p \o ArchiveRemoved /\ Mute(p)
      BY <1>2 DEF Archiving
    <2>2. CASE p = <<>>
      BY <2>1, <2>2, OnlyRemoved, RemovedIs
    <2>3. CASE p # <<>>
      BY <2>1, <2>3, BeforeRemoved, MuteRest DEF Fits
    <2> QED BY <2>2, <2>3
  <1> QED BY <1>1, <1>2 DEF IInv

\* A command that tidies leaves the directory with a core.
LEMMA TidiesSpares ==
  ASSUME NEW g, NEW o \in Outcomes(g), g.program[1].as # "pass", Effects(g.program[1], o),
         NEW n \in Nodes, Tidies(g.program[1], n), "coredump_dir" \in on[n]
  PROVE  "coredump_dir" \in on'[n]
  <1> DEFINE c == g.program[1]
  <1>1. o.on = Changed(c, on, o.done) /\ (c.how \in Reads => o.done = {}) /\ o.done \subseteq c.on
    BY OutcomeIs
  <1>2. on' = o.on /\ n \in Machines
    BY DEF Effects, Machines
  <1>3. c.how = "branch" => c.how \in Reads
    BY DEF Reads
  <1> HIDE DEF c
  <1>4. on'[n] = IF n \in o.done /\ c.how # "pull" THEN (on[n] \ c.drops) \cup c.puts ELSE on[n]
    BY <1>1, <1>2 DEF Changed
  <1>5. n \notin o.done \/ "coredump_dir" \notin c.drops
    BY <1>1, <1>3 DEF Tidies, c
  <1> QED BY <1>4, <1>5

\* A command of the task: it spares the signs, or looks at them.
LEMMA CommandWatches ==
  ASSUME IInv, command, NEW k \in Troubles, Watched(k), status' = "pass", main'.raised = "none"
  PROVE  Watched(k)' \/ k \in missed'
  <1> USE DEF command
  <1>1. PICK o \in Outcomes(main) : main' = o.g /\ Effects(main.program[1], o)
    OBVIOUS
  <1> DEFINE c == main.program[1]
  <1>2. PICK n \in Look(k).on : Signs(k) \subseteq on[n] /\ Watches(k, n)
    BY DEF Watched
  <1>3. main.program # <<>> /\ phase # "over" /\ n \in Nodes
    BY LookIs DEF Over, Watched
  <1>4. /\ Gentle(main.program, Spared)
        /\ Beyond(Finder(k)) => Signs(k) \subseteq Spared
        /\ Signs(k) \ {"coredump_dir"} \subseteq Spared
    BY <1>2, <1>3, WatchedSpared
  <1>5. PICK D : Spares(main.program, {}, Spared, Seq(D))
    BY <1>4 DEF Gentle, Nests
  <1>6. c.as # "pass" /\ Fits(c, {}, Spared)
    BY <1>3, <1>4, GentleRest DEF Fits
  <1>7. main'.program = Rest(main.program, on)
    <2> HIDE DEF c
    <2>1. o.g.program = Rest(main.program, on) \/ o.g.raised # "none"
      BY <1>6, OutcomeIs DEF c
    <2> QED BY <1>1, <2>1
  <1>8. (on[n] \ on'[n]) \cap Spared = {}
    BY <1>1, <1>3, <1>6, EffectsSpare
  <1>9. UNCHANGED <<job, at, phase>> /\ Look(k)' = Look(k) /\ (Beyond(Finder(k))' <=> Beyond(Finder(k)))
    BY DEF Look, Beyond
  <1>10. CASE Beyond(Finder(k))
    BY <1>2, <1>3, <1>4, <1>8, <1>9, <1>10 DEF Watched, Watches
  <1>11. CASE ~Beyond(Finder(k))
    <2>1. /\ phase # "enter" /\ Tasks(job)[at] = Finder(k)
          /\ Has(main.program, Look(k))
          /\ k = "core" => Careful(main.program, n)
      BY <1>2, <1>11 DEF Watches
    <2>2. c # Look(k) \/ k \in missed'
      <3> SUFFICES ASSUME c = Look(k) PROVE k \in missed'
        OBVIOUS
      <3>1. o.g.raised # "none" \/ o.status # "pass" \/ k \in o.missed
        BY <1>2, LookShows
      <3>2. status' = o.status /\ o.missed \subseteq missed'
        BY <1>1 DEF Effects
      <3> QED BY <1>1, <3>1, <3>2
    <2>3. Has(main'.program, Look(k)) \/ k \in missed'
      BY <1>3, <1>5, <1>7, <2>1, <2>2, RestHas
    <2>4. k = "core" => Careful(main'.program, n) /\ "coredump_dir" \in on'[n]
      <3> SUFFICES ASSUME k = "core" PROVE Careful(main'.program, n) /\ "coredump_dir" \in on'[n]
        OBVIOUS
      <3>1. "core" \in on[n] /\ "coredump_dir" \in on[n]
        BY <1>2 DEF Signs
      <3>2. Tidies(c, n) /\ Careful(Rest(main.program, on), n)
        BY <1>3, <1>5, <2>1, <3>1, RestCareful
      <3>3. "coredump_dir" \in on'[n]
        BY <1>1, <1>3, <1>6, <3>1, <3>2, TidiesSpares
      <3> QED BY <1>7, <3>2, <3>3
    <2>5. Signs(k) \subseteq on'[n]
      <3>1. "coredump_dir" \in Signs(k) => k = "core"
        BY DEF Signs, Troubles
      <3> QED BY <1>2, <1>4, <1>8, <2>4, <3>1
    <2>6. Watches(k, n)' \/ k \in missed'
      BY <1>9, <2>1, <2>3, <2>4 DEF Watches
    <2> QED BY <1>3, <1>9, <2>5, <2>6 DEF Watched
  <1> QED BY <1>10, <1>11

\* coredump's entering sets what a core needs, on all hosts, or raises.
LEMMA CoredumpEnter ==
  ASSUME DOMAIN on = Machines, UNCHANGED job, NEW o \in Outcomes(main), main.program = coredump_enter(job),
         Effects(main.program[1], o), o.g.raised = "none"
  PROVE  CoreSet'
  <1> DEFINE c == main.program[1]
  <1>1. c.how = "all" /\ ~c.quiet /\ c.on = Hosts(job) /\ c.puts = CoreMarks /\ c.as = "none"
    BY DEF coredump_enter, All, Command, CoreMarks
  <1>2. c.on \subseteq o.done /\ o.on = Changed(c, on, o.done)
    BY <1>1, OutcomeIs
  <1>3. on' = o.on
    BY DEF Effects
  <1> HIDE DEF c
  <1>4. ASSUME NEW n \in Hosts(job)
        PROVE  CoreMarks \subseteq on'[n]
    <2>1. n \in Machines
      BY DEF Hosts, Machines
    <2> QED BY <1>1, <1>2, <1>3, <2>1 DEF Changed
  <1> QED BY <1>4 DEF CoreSet

LEMMA CommandShows ==
  ASSUME IInv, Shows, command
  PROVE  Shows'
  <1> USE DEF command
  <1>1. PICK o \in Outcomes(main) : main' = o.g /\ Effects(main.program[1], o)
    OBVIOUS
  <1> DEFINE c == main.program[1]
  <1>2. main.program # <<>> /\ phase # "over" /\ c.as # "pass"
    BY NoPass DEF Shows, Ends, Over
  <1>3. /\ status' = "pass" => status = "pass"
        /\ main'.raised = "none" => main.raised = "none"
    <2>1. status' = o.status
      BY <1>1 DEF Effects
    <2> HIDE DEF c
    <2>2. /\ o.g.raised = main.raised \/ o.g.raised # "none"
          /\ o.status = status \/ o.status # "pass"
      BY <1>2, OutcomeIs DEF c
    <2> QED BY <1>1, <2>1, <2>2
  <1>4. Seen'
    <2>1. missed \subseteq missed'
      BY <1>1 DEF Effects
    <2> QED BY <1>3, <2>1, CommandWatches DEF Shows, Seen
  <1>5. \A t : Beyond(t)' <=> Beyond(t)
    BY DEF Beyond
  <1>6. ASSUME CoreSet, Beyond("coredump") \/ (phase = "enter" /\ Tasks(job)[at] = "coredump")
        PROVE  CoreSet'
    <2>1. Gentle(main.program, Spared) /\ CoreMarks \subseteq Spared
      BY <1>2, <1>6, CoreSpared
    <2>2. Fits(c, {}, Spared)
      BY <1>2, <2>1, GentleRest
    <2>3. \A n \in Nodes : (on[n] \ on'[n]) \cap Spared = {}
      BY <1>1, <2>2, EffectsSpare
    <2>4. ASSUME NEW n \in Hosts(job)
          PROVE  CoreMarks \subseteq on'[n]
      <3>1. n \in Nodes /\ CoreMarks \subseteq on[n]
        BY <1>6 DEF Hosts, CoreSet
      <3> QED BY <2>1, <2>3, <3>1
    <2> QED BY <2>4 DEF CoreSet
  <1>7. Dumps'
    <2>1. phase' # "over" /\ Beyond("coredump")' => CoreSet'
      BY <1>2, <1>5, <1>6 DEF Shows, Dumps
    <2>2. ASSUME phase' = "enter", Tasks(job)'[at'] = "coredump", main'.raised = "none"
          PROVE  CoreSet'
      <3>1. CASE CoreSet
        BY <1>6, <2>2, <3>1
      <3>2. CASE ~CoreSet
        <4>1. main.program = coredump_enter(job)
          BY <1>3, <2>2, <3>2 DEF Shows, Dumps
        <4>2. DOMAIN on = Machines
          BY DEF IInv, Shaped
        <4> QED BY <1>1, <2>2, <4>1, <4>2, CoredumpEnter
      <3> QED BY <3>1, <3>2
    <2> QED BY <2>1, <2>2 DEF Dumps
  <1>8. Ends'
    BY <1>2 DEF Ends
  <1> QED BY <1>4, <1>7, <1>8 DEF Shows

\* Steps that do not touch the nodes,
LEMMA SpawnShows ==
  ASSUME IInv, Shows, spawn
  PROVE  Shows'
  BY OthersShow DEF spawn

\* the steps of greenlets,
LEMMA SideShows ==
  ASSUME IInv, Shows, NEW n \in Nodes, side_command(n)
  PROVE  Shows'
  <1> USE DEF side_command
  <1>1. PICK o \in Outcomes(side[n]) : Effects(side[n].program[1], o)
    OBVIOUS
  <1>2. side[n].program # <<>> /\ Mute(side[n].program)
    BY DEF IInv, Over, GreenletsMute
  <1>3. Fits(side[n].program[1], Evidence, Traces)
    BY <1>2, MuteRest
  <1>4. (\A m \in Nodes : (on[m] \ on'[m]) \cap Traces = {}) /\ (status' = "pass" => status = "pass")
    BY <1>1, <1>3, MuteSpares
  <1>6. missed \subseteq missed'
    BY <1>1 DEF Effects
  <1>5. "core_pattern" \in Traces
    BY DEF Traces
  <1> QED BY <1>4, <1>5, <1>6, OthersShow

LEMMA StrayShows ==
  ASSUME IInv, Shows, stray_command
  PROVE  Shows'
  <1> USE DEF stray_command
  <1>1. PICK program \in strays : \E o \in Outcomes(Greenlet(program)) : Effects(program[1], o)
    OBVIOUS
  <1> DEFINE g == Greenlet(program)
  <1>2. PICK o \in Outcomes(g) : Effects(program[1], o)
    BY <1>1
  <1>3. g.program = program
    BY DEF Greenlet
  <1>4. Fits(program[1], Evidence, Traces)
    BY MuteRest DEF IInv, GreenletsMute
  <1> HIDE DEF g
  <1>5. (\A m \in Nodes : (on[m] \ on'[m]) \cap Traces = {}) /\ (status' = "pass" => status = "pass")
    BY <1>2, <1>3, <1>4, MuteSpares
  <1>7. missed \subseteq missed'
    BY <1>2 DEF Effects
  <1>6. "core_pattern" \in Traces
    BY DEF Traces
  <1> QED BY <1>5, <1>6, <1>7, OthersShow

\* the end of a block: the program is not about to look,
LEMMA JoinShows ==
  ASSUME IInv, Shows, join
  PROVE  Shows'
  <1> USE DEF join
  <1>1. main.program # <<>> /\ main.program[1].how = "parallel"
    BY DEF IInv, Joins
  <1>2. main'.program = Tail(main.program) /\ main'.raised = main.raised
    <2>1. main' = [main EXCEPT !.program = Tail(@)]
      OBVIOUS
    <2> QED BY <2>1
  <1>3. \A t : Beyond(t)' <=> Beyond(t)
    BY DEF Beyond
  <1>4. CoreSet' <=> CoreSet
    BY DEF CoreSet
  <1>5. Dumps'
    <2>1. main.program # coredump_enter(job)
      BY <1>1 DEF coredump_enter, All, Command
    <2> QED BY <1>2, <1>3, <1>4, <2>1 DEF Shows, Dumps
  <1>6. ASSUME NEW k \in Troubles, Watched(k)
        PROVE  Watched(k)'
    <2>1. PICK n \in Look(k).on : Signs(k) \subseteq on[n] /\ Watches(k, n)
      BY <1>6 DEF Watched
    <2>2. PICK D : Spares(main.program, {}, Spared, Seq(D))
      BY <1>6, <2>1, WatchedSpared DEF Watched, Gentle, Nests
    <2>3. main.program[1] # Look(k)
      BY <1>1, LookIs
    <2>4. Has(main.program, Look(k)) => Has(main'.program, Look(k))
      BY <1>1, <1>2, <2>2, <2>3, RestHas
    <2>5. k = "core" /\ Careful(main.program, n) => Careful(main'.program, n)
      <3>1. k = "core" => "core" \in on[n]
        BY <2>1 DEF Signs
      <3> QED BY <1>1, <1>2, <2>2, <3>1, RestCareful
    <2>6. Look(k)' = Look(k)
      BY DEF Look
    <2>7. Watches(k, n)'
      BY <1>3, <2>1, <2>4, <2>5, <2>6 DEF Watches
    <2> QED BY <1>6, <2>1, <2>6, <2>7 DEF Watched
  <1>7. Seen'
    BY <1>2, <1>6 DEF Shows, Seen
  <1>8. Ends'
    BY <1>1 DEF Shows, Ends, Over
  <1> QED BY <1>5, <1>7, <1>8 DEF Shows

\* or leaving it, with an exception.
LEMMA JoinRaisesShows ==
  ASSUME IInv, Shows, NEW n \in Nodes, join_raises(n)
  PROVE  Shows'
  <1> USE DEF join_raises
  <1>1. main'.raised # "none"
    OBVIOUS
  <1>2. phase # "over"
    BY DEF IInv, Joins, Shows, Ends, Over
  <1>3. (Beyond("coredump")' <=> Beyond("coredump")) /\ (CoreSet' <=> CoreSet)
    BY DEF Beyond, CoreSet
  <1> QED BY <1>1, <1>2, <1>3 DEF Shows, Dumps, Seen, Ends

\* A task whose places are passed is, one place before, passed or at hand.
LEMMA BeyondBefore ==
  ASSUME job \in Jobs, at \in 1..Len(Tasks(job)), NEW t, NEW i \in {at - 1, at}
  PROVE  /\ (\A j \in 1..Len(Tasks(job)) : Tasks(job)[j] = t => j < i) => Beyond(t)
         /\ Beyond(t) => \A j \in 1..Len(Tasks(job)) : Tasks(job)[j] = t => j < i \/ j = i
  BY TasksFramed DEF Beyond

\* On to the next task, or to the exits: coredump has set what a core needs.
LEMMA EnteredShows ==
  ASSUME IInv, Shows, entered
  PROVE  Shows'
  <1> USE DEF entered
  <1>0. job \in Jobs /\ at \in 1..Len(Tasks(job)) /\ Len(Tasks(job)) \in Nat
    BY TasksFramed DEF IInv, Shaped
  <1>1. main.program # coredump_enter(job)
    BY DEF Over, coredump_enter, All
  <1>2. /\ Tasks(job)[at] = "coredump" => CoreSet
        /\ CoreSet' <=> CoreSet
    BY <1>1 DEF Shows, Dumps, CoreSet
  <1>3. \A k : Look(k)' = Look(k)
    BY DEF Look
  <1>4. CASE at < Len(Tasks(job))
    <2>1. /\ at' = at + 1 /\ phase' = phase
          /\ main'.program = Enter(job, Tasks(job)[at + 1]) /\ main'.raised = "none"
      BY <1>4 DEF Greenlet
    <2>2. \A t : Beyond(t) => Beyond(t)'
      BY <1>0, <2>1 DEF Beyond
    <2>3. Beyond("coredump")' => CoreSet
      <3>1. CASE Tasks(job)[at] = "coredump"
        BY <1>2, <3>1
      <3>2. CASE Tasks(job)[at] # "coredump"
        <4>1. Beyond("coredump")' => Beyond("coredump")
          BY <1>0, <2>1, <3>2 DEF Beyond
        <4> QED BY <4>1 DEF Shows, Dumps
      <3> QED BY <3>1, <3>2
    <2>4. Tasks(job)[at + 1] = "coredump" => main'.program = coredump_enter(job)
      BY <2>1 DEF Enter
    <2>5. Dumps'
      BY <1>2, <2>1, <2>3, <2>4 DEF Dumps
    <2>6. ASSUME NEW k \in Troubles, Watched(k)
          PROVE  Watched(k)'
      <3>1. PICK n \in Look(k).on : Signs(k) \subseteq on[n] /\ Watches(k, n)
        BY <2>6 DEF Watched
      <3>2. Watches(k, n)'
        BY <2>2, <3>1 DEF Watches
      <3> QED BY <1>3, <2>1, <3>1, <3>2 DEF Watched
    <2>7. Seen' /\ Ends'
      BY <2>1, <2>6 DEF Shows, Seen, Ends
    <2> QED BY <2>5, <2>7 DEF Shows
  <1>5. CASE ~(at < Len(Tasks(job)))
    <2>1. at' = at /\ phase' = "exit"
      <3>1. Exits(at, status, FALSE)
        BY <1>5
      <3>2. at # 0
        BY <1>0
      <3> QED BY <3>1, <3>2 DEF Exits
    <2>2. \A t : Beyond(t)' <=> Beyond(t)
      BY <2>1 DEF Beyond
    <2>3. Dumps'
      BY <1>2, <2>1, <2>2 DEF Shows, Dumps
    <2>4. ASSUME NEW k \in Troubles, Watched(k)
          PROVE  Watched(k)'
      <3>1. PICK n \in Look(k).on : Signs(k) \subseteq on[n] /\ Watches(k, n)
        BY <2>4 DEF Watched
      <3>2. Watches(k, n)'
        BY <2>2, <3>1 DEF Watches
      <3> QED BY <1>3, <2>1, <3>1, <3>2 DEF Watched
    <2>5. Seen' /\ Ends'
      BY <2>1, <2>4 DEF Shows, Seen, Ends
    <2> QED BY <2>3, <2>5 DEF Shows
  <1> QED BY <1>4, <1>5

\* To the exits because a task has raised: the job does not pass.
LEMMA EnterRaisedShows ==
  ASSUME IInv, Shows, enter_raised
  PROVE  Shows'
  <1> USE DEF enter_raised
  <1>0. job \in Jobs /\ at \in 1..Len(Tasks(job))
    BY DEF IInv, Shaped
  <1> DEFINE i == IF Tasks(job)[at] \in Classes THEN at ELSE at - 1
             s == IF main.raised = "lost" \/ status = "dead" THEN "dead" ELSE "fail"
  <1>1. s # "pass" /\ status' = s /\ Exits(i, s, FALSE) /\ i \in {at - 1, at}
    OBVIOUS
  <1> HIDE DEF i, s
  <1>2. at' = i /\ phase' # "enter"
    BY <1>1 DEF Exits
  <1>3. Beyond("coredump")' => Beyond("coredump")
    BY <1>0, <1>1, <1>2, BeyondBefore DEF Beyond
  <1>4. CoreSet' <=> CoreSet
    BY DEF CoreSet
  <1>5. Dumps' /\ Seen'
    BY <1>1, <1>2, <1>3, <1>4 DEF Shows, Dumps, Seen
  <1>6. Ends'
    BY <1>1 DEF Exits, Ends, Idle, Greenlet, Over
  <1> QED BY <1>5, <1>6 DEF Shows

\* From one exit to the next: what was passed is still to be exited, or is now.
LEMMA ExitedShows ==
  ASSUME IInv, Shows, exited
  PROVE  Shows'
  <1> USE DEF exited
  <1>0. job \in Jobs /\ at \in 1..Len(Tasks(job)) /\ Len(Tasks(job)) \in Nat
    BY TasksFramed DEF IInv, Shaped
  <1> DEFINE s == CASE main.raised = "none" -> status
                    [] main.raised = "lost" -> "dead"
                    [] OTHER -> "fail"
             told == phase = "unwind" \/ main.raised # "none"
             i == at - 1
  <1>1. status' = s /\ Exits(i, s, told) /\ (s = "pass" => main.raised = "none" /\ status = "pass")
    OBVIOUS
  <1> HIDE DEF s, told
  <1>2. at' = i /\ phase' # "enter"
    BY <1>1 DEF Exits
  <1>3. Beyond("coredump")' => Beyond("coredump")
    BY <1>0, <1>2, BeyondBefore DEF Beyond
  <1>4. CoreSet' <=> CoreSet
    BY DEF CoreSet
  <1>5. Dumps'
    BY <1>2, <1>3, <1>4 DEF Shows, Dumps
  <1>6. Ends'
    BY <1>1 DEF Exits, Ends, Idle, Greenlet, Over
  <1>7. ASSUME NEW k \in Troubles, k = "kernel_bug" => "archive" \in job.has, Watched(k)
        PROVE  Watched(k)'
    <2>1. PICK n \in Look(k).on : Signs(k) \subseteq on[n] /\ Watches(k, n)
      BY <1>7 DEF Watched
    <2>2. Look(k)' = Look(k) /\ Finder(k) \in Finders
      BY LookIs DEF Look
    <2>3. Beyond(Finder(k))
      BY <2>1 DEF Watches, Over, Has
    <2>4. i # 0
      BY <1>0, <2>2, <2>3, FinderPlaces DEF Beyond
    <2>5. main'.program = Exit(job, Tasks(job)[i], s, told) /\ phase' # "over"
      BY <1>1, <2>4 DEF Exits, Greenlet
    <2>6. Watches(k, n)'
      <3>1. CASE Tasks(job)[i] = Finder(k)
        <4>1. k = "kernel_bug" => Hosts(job) # {}
          BY <2>1, LookIs
        <4>2. Has(main'.program, Look(k))
          BY <1>0, <1>7, <2>5, <3>1, <4>1, FinderExit
        <4>3. k = "core" => Careful(main'.program, n)
          BY <1>0, <2>5, <3>1, CoredumpExit DEF Finder, Exit
        <4> QED BY <1>2, <2>2, <3>1, <4>2, <4>3 DEF Watches
      <3>2. CASE Tasks(job)[i] # Finder(k)
        <4>1. \A j \in 1..Len(Tasks(job)) : Tasks(job)[j] = Finder(k) => j < i
          BY <1>0, <2>3, <3>2, BeyondBefore
        <4>2. Beyond(Finder(k))'
          BY <1>2, <4>1 DEF Beyond
        <4> QED BY <4>2 DEF Watches
      <3> QED BY <3>1, <3>2
    <2> QED BY <2>1, <2>2, <2>5, <2>6 DEF Watched
  <1>8. Seen'
    BY <1>1, <1>7 DEF Shows, Seen
  <1> QED BY <1>5, <1>6, <1>8 DEF Shows

\* A reboot, which reads sysctl.conf again, and a new build.
LEMMA RebootShows ==
  ASSUME IInv, Shows, NEW n \in Nodes, reboots(n)
  PROVE  Shows'
  <1> USE DEF reboots
  <1> DEFINE more == (IF "sysctl_line" \in on[n] THEN {"core_pattern"} ELSE {})
                     \cup (IF n \in selinux_hosts(job) THEN {"enforcing"} \cap job.marks[n] ELSE {})
                     \cup (IF BootsNew(job, n, on[n]) THEN {"running_new"} ELSE {})
  <1>1. n \in Machines /\ DOMAIN on = Machines
    BY DEF Machines, IInv, Shaped
  <1>2. on' = [on EXCEPT ![n] = (on[n] \ Volatile) \cup more]
    OBVIOUS
  <1>3. "sysctl_line" \in on[n] => "core_pattern" \in more
    OBVIOUS
  <1>4. Volatile \cap Traces \subseteq {"core_pattern"}
    BY DEF Volatile, Traces, Evidence
  <1> HIDE DEF more
  <1>5. ASSUME NEW m \in Nodes
        PROVE  /\ (on[m] \ on'[m]) \cap Traces \subseteq {"core_pattern"}
               /\ "sysctl_line" \in on[m] /\ "core_pattern" \in on[m] => "core_pattern" \in on'[m]
    <2>1. on'[m] = IF m = n THEN (on[n] \ Volatile) \cup more ELSE on[m]
      BY <1>1, <1>2 DEF Machines
    <2> QED BY <2>1, <1>3, <1>4
  <1> QED BY <1>5, OthersShow

LEMMA BuildShows ==
  ASSUME IInv, Shows, new_build
  PROVE  Shows'
  <1> USE DEF new_build
  <1>1. \A m \in Nodes : on'[m] = on[m]
    <2> TAKE m \in Nodes
    <2>1. m # Here /\ m \in Machines /\ DOMAIN on = Machines
      BY NodesAssumption DEF Machines, IInv, Shaped
    <2> QED BY <2>1
  <1> QED BY <1>1, OthersShow

\* Something goes wrong while the job's own tasks run: those that find it have been entered.
LEMMA WrongShows ==
  ASSUME IInv, Shows, NEW n \in Nodes, goes_wrong(n)
  PROVE  Shows'
  <1> USE DEF goes_wrong
  <1>0. job \in Jobs /\ at \in 1..Len(Tasks(job)) /\ phase # "over" /\ DOMAIN on = Machines
    BY DEF IInv, Shaped
  <1>1. PICK k \in job.trouble :
          /\ n \in IF k = "denial" THEN selinux_hosts(job) ELSE Hosts(job)
          /\ trouble' = {k}
          /\ on' = [on EXCEPT ![n] = IF k \in {"core", "sysusers_core"} /\ "core_pattern" \notin @ THEN @
                                      ELSE @ \cup {k}]
    OBVIOUS
  <1>2. k \in Troubles \cup {"sysusers_core"} /\ (k \in Troubles => n \in Look(k).on)
    <2>1. k \in Troubles \cup {"sysusers_core"}
      BY <1>0, JobsAssumption DEF Troubles
    <2> QED BY <1>1, <2>1, LookIs
  <1>3. \A t \in Finders : Beyond(t)
    <2>1. at \in Int /\ Len(get_initial_tasks(job)) \in Int
      BY <1>0, InitialTasks, LenProperties
    <2>2. \A i \in 1..Len(Tasks(job)) : Tasks(job)[i] \in Framing => i < at
      BY <1>0, <2>1, TasksFramed DEF Own
    <2> QED BY <2>2 DEF Beyond, Framing
  <1>4. CoreSet
    BY <1>0, <1>3 DEF Shows, Dumps, Finders
  <1>5. \A m \in Nodes : on[m] \subseteq on'[m]
    BY <1>0, <1>1 DEF Machines
  <1>6. Signs(k) \subseteq on'[n]
    <2>1. on'[n] = IF k \in {"core", "sysusers_core"} /\ "core_pattern" \notin on[n] THEN on[n] ELSE on[n] \cup {k}
      BY <1>0, <1>1 DEF Machines
    <2>2. k \in {"core", "sysusers_core"} => {"coredump_dir", "core_pattern"} \subseteq on[n]
      BY <1>1, <1>4 DEF CoreSet, CoreMarks
    <2> QED BY <2>1, <2>2 DEF Signs
  <1>7. \A t : Beyond(t)' <=> Beyond(t)
    BY DEF Beyond
  <1>8. Look(k)' = Look(k)
    BY DEF Look
  <1>9. k \in Troubles => Watched(k)'
    BY <1>0, <1>2, <1>3, <1>6, <1>7, <1>8, LookIs DEF Watched, Watches
  <1>10. CoreSet'
    BY <1>4, <1>5 DEF CoreSet, Hosts
  <1> QED BY <1>0, <1>1, <1>2, <1>9, <1>10 DEF Shows, Dumps, Seen, Ends

\* At the start, and in each step.
LEMMA InitShows == Init => Shows
  <1> SUFFICES ASSUME Init PROVE Shows
    OBVIOUS
  <1> USE DEF Init
  <1>1. Tasks(job)[1] = "coredump" => main.program = coredump_enter(job)
    BY DEF Greenlet, Enter
  <1>2. ~Beyond("coredump")
    <2> SUFFICES ASSUME Beyond("coredump") PROVE FALSE
      OBVIOUS
    <2>1. PICK i \in 1..Len(Tasks(job)) : Tasks(job)[i] = "coredump"
      BY FinderPlaces DEF Finders
    <2> QED BY <2>1, TasksFramed DEF Beyond
  <1> QED BY <1>1, <1>2 DEF Shows, Dumps, Seen, Ends

LEMMA NextShows ==
  ASSUME IInv, Shows, [Next]_vars
  PROVE  Shows'
  <1>1. CASE command
    BY <1>1, CommandShows
  <1>2. CASE spawn
    BY <1>2, SpawnShows
  <1>3. CASE join
    BY <1>3, JoinShows
  <1>4. CASE entered
    BY <1>4, EnteredShows
  <1>5. CASE enter_raised
    BY <1>5, EnterRaisedShows
  <1>6. CASE exited
    BY <1>6, ExitedShows
  <1>7. CASE \E n \in Nodes : side_command(n) \/ join_raises(n) \/ reboots(n) \/ goes_wrong(n)
    BY <1>7, SideShows, JoinRaisesShows, RebootShows, WrongShows
  <1>8. CASE stray_command
    BY <1>8, StrayShows
  <1>9. CASE new_build
    BY <1>9, BuildShows
  <1>10. CASE over \/ UNCHANGED vars
    BY <1>10, OthersShow DEF over, vars
  <1> QED BY <1>1, <1>2, <1>3, <1>4, <1>5, <1>6, <1>7, <1>8, <1>9, <1>10 DEF Next

\* At the end nothing is left to be looked for.
LEMMA OverShows == Shows => TroubleShows
  <1> SUFFICES ASSUME Shows, phase = "over", status = "pass"
               PROVE  trouble \subseteq {"sysusers_core"} \cup missed
                                     \cup IF "archive" \in job.has THEN {} ELSE {"kernel_bug"}
    BY DEF TroubleShows
  <1>1. /\ \A k \in trouble \cap Troubles : (k = "kernel_bug" /\ "archive" \notin job.has) \/ k \in missed
        /\ trouble \subseteq Troubles \cup {"sysusers_core"}
    BY DEF Shows, Seen, Ends, Watched
  <1> QED BY <1>1

(* coredump, selinux, syslog: for all jobs, nodes and faults, a job during *)
(* whose own tasks a process dumped core, SELinux denied something or the  *)
(* kernel had a bug does not pass; but for the kernel's bug in a job that  *)
(* has no archive, and for what is in a log that could not be read.        *)
THEOREM TroubleShowsHolds == Spec => []TroubleShows
  <1>1. IInv /\ Shows /\ [Next]_vars => IInv' /\ Shows'
    BY NextKeeps, NextShows
  <1>2. Spec => [](IInv /\ Shows)
    BY <1>1, InitInvariant, InitShows, PTL DEF Spec
  <1> QED BY <1>2, OverShows, PTL
-----------------------------------------------------------------------------
(* A command of a greenlet that boots a kernel                             *)

\* A still program stays still.
LEMMA StillRest ==
  ASSUME NEW p, Still(p), p # <<>>, NEW f
  PROVE  /\ Fits(p[1], Unput, Undropped)
         /\ Still(Tail(p)) /\ Still(Unwound(p)) /\ Still(Rest(p, f))
  BY RestSpares DEF Still

\* While something still is to be done before, the rest waits.
LEMMA BeforeOther ==
  ASSUME NEW p, Still(p), p # <<>>, NEW r, IsProgram(r), NEW f
  PROVE  LET q == p \o r
         IN  /\ q # <<>> /\ q[1] = p[1]
             /\ Unwound(q) = Unwound(p) /\ Rest(q, f) = Rest(p, f) \o r
  <1> DEFINE c == p[1]
             q == p \o r
             way == IF \A n \in c.on : c.puts \subseteq f[n] THEN c.yes ELSE c.no
             taken == Try(way, c.handler)
  <1>1. PICK C : Closed(C, Unput, Undropped, {}) /\ p \in Seq(C)
    BY DEF Still, Spares
  <1>2. PICK E : r \in Seq(E)
    BY DEF IsProgram
  <1>3. q # <<>> /\ q[1] = p[1] /\ Tail(q) = Tail(p) \o r
    <2> DEFINE D == C \cup E
    <2>1. p \in Seq(D) /\ r \in Seq(D)
      BY <1>1, <1>2, SeqMonotonic
    <2> HIDE DEF D
    <2> QED BY <2>1
  <1>4. Rest(q, f) = Rest(p, f) \o r
    <2>1. CASE c.how = "branch"
      <3>1. Rest(q, f) = taken \o (Tail(p) \o r) /\ Rest(p, f) = taken \o Tail(p)
        BY <2>1, <1>3 DEF Rest
      <3>2. Still(taken)
        <4>1. c \in C
          BY <1>1
        <4>2. c.yes \in Seq(C) /\ c.no \in Seq(C) /\ c.handler \in Seq(C)
          BY <1>1, <2>1, <4>1 DEF Closed
        <4>3. Still(way) /\ Still(c.handler)
          BY <1>1, <4>2 DEF Still, Spares
        <4> HIDE DEF way
        <4> QED BY <4>3, StillTry
      <3> HIDE DEF taken
      <3>3. IsProgram(taken) /\ IsProgram(Tail(p))
        BY <3>2, StillRest, StillProgram
      <3>4. taken \o (Tail(p) \o r) = (taken \o Tail(p)) \o r
        BY <3>3, Associative
      <3> QED BY <3>1, <3>4
    <2>2. CASE c.how # "branch"
      BY <2>2, <1>3 DEF Rest
    <2> QED BY <2>1, <2>2
  <1> QED BY <1>3, <1>4 DEF Unwound

\* A program that starts with the one command c.
LEMMA FirstOne ==
  ASSUME NEW c, NEW r, IsProgram(r)
  PROVE  /\ <<c>> \o r # <<>> /\ (<<c>> \o r)[1] = c /\ Tail(<<c>> \o r) = r
         /\ Unwound(<<c>> \o r) = c.handler
  <1>1. PICK E : r \in Seq(E)
    BY DEF IsProgram
  <1> DEFINE D == E \cup {c}
  <1>2. <<c>> \in Seq(D) /\ r \in Seq(D)
    BY <1>1, SeqMonotonic
  <1> HIDE DEF D
  <1>3. <<c>> \o r # <<>> /\ (<<c>> \o r)[1] = c /\ Tail(<<c>> \o r) = r
    BY <1>2
  <1> QED BY <1>3 DEF Unwound

\* What a greenlet goes on with, and why it may go on.
LEMMA OutcomeWhy ==
  ASSUME NEW g, NEW o \in Outcomes(g)
  PROVE  LET c == g.program[1]
         IN  \E bad : /\ IF Raises(c, on, bad) \/ (TimesOut(c) /\ ~c.quiet)
                         THEN o.g.program = Unwound(g.program) /\ o.g.raised # "none"
                         ELSE o.g.program = Rest(g.program, on) /\ o.g.raised = g.raised
                      /\ Waited(c) \/ TimesOut(c) \/ bad # {}
                      /\ c.how = "await" => bad \subseteq c.on /\ bad \subseteq lost \cup o.lost
                      /\ c.how # "wait" => c.on \cap lost \subseteq bad
  <1> DEFINE c == g.program[1]
             Raised(bad) == Raises(c, on, bad) \/ (TimesOut(c) /\ ~c.quiet)
             Status(bad) == CASE c.how = "status" -> c.as
                              [] c.how = "flag" /\ (\E n \in c.on \ bad : on[n] \cap c.puts # {}) -> "fail"
                              [] Found(c, on, bad) /\ c.as # "none" -> c.as
                              [] OTHER -> status
             Why(f) == IF f.lost \subseteq lost \/ c.how \in {"await", "search"} THEN "error" ELSE "lost"
             Outcome(f, done) ==
               [g |-> [program |-> IF Raised(f.bad) THEN Unwound(g.program) ELSE Rest(g.program, on),
                       raised  |-> IF ~Raised(f.bad) THEN g.raised ELSE Why(f)],
                on   |-> Changed(c, on, done),
                done |-> done,
                status |-> Status(f.bad),
                lost   |-> f.lost,
                missed |-> Missed(c, on, f.bad),
                faults |-> faults + f.cost]
  <1>1. PICK f, done : /\ f \in Failures(c) /\ o = Outcome(f, done)
                       /\ Waited(c) \/ TimesOut(c) \/ f.bad # {}
    <2>1. o \in UNION {{Outcome(f, done) : done \in cluster_run(c, f.bad)} :
                       f \in {f \in Failures(c) : Waited(c) \/ TimesOut(c) \/ f.bad # {}}}
      BY DEF Outcomes
    <2> HIDE DEF Outcome, c
    <2> QED BY <2>1
  <1>2. /\ o.g.program = IF Raised(f.bad) THEN Unwound(g.program) ELSE Rest(g.program, on)
        /\ o.g.raised = IF ~Raised(f.bad) THEN g.raised ELSE Why(f)
        /\ o.lost = f.lost
    <2> HIDE DEF c, Raised, Status, Why
    <2> QED BY <1>1
  <1>3. /\ c.how = "await" => f.bad \subseteq f.lost /\ f.bad \subseteq c.on
        /\ c.how # "wait" => c.on \cap lost \subseteq f.bad
    <2> HIDE DEF c, Outcome
    <2>1. c.how = "await" => ~Fallible(c)
      BY DEF Fallible
    <2> QED BY <1>1, <2>1 DEF Failures
  <1>4. PICK bad : bad = f.bad
    OBVIOUS
  <1>5. IF Raised(bad) THEN o.g.program = Unwound(g.program) /\ o.g.raised # "none"
                       ELSE o.g.program = Rest(g.program, on) /\ o.g.raised = g.raised
    <2> HIDE DEF c, Raised
    <2>1. Why(f) # "none"
      OBVIOUS
    <2> HIDE DEF Why
    <2> QED BY <1>2, <1>4, <2>1
  <1>6. Waited(c) \/ TimesOut(c) \/ bad # {}
    BY <1>1, <1>4
  <1>7. c.how = "await" => bad \subseteq c.on /\ bad \subseteq lost \cup o.lost
    BY <1>2, <1>3, <1>4
  <1> HIDE DEF Outcome
  <1> QED BY <1>3, <1>4, <1>5, <1>6, <1>7
\* What a command does to the marks it neither puts nor drops.
LEMMA EffectsCalm ==
  ASSUME NEW g, NEW o \in Outcomes(g), NEW puts, NEW drops, Fits(g.program[1], puts, drops), Effects(g.program[1], o)
  PROVE  /\ \A n \in Nodes : on'[n] \cap puts \subseteq on[n] /\ on[n] \cap drops \subseteq on'[n]
         /\ lost \subseteq lost'
  <1> DEFINE c == g.program[1]
  <1>1. o.on = Changed(c, on, o.done) /\ (c.how \in Reads => o.done = {})
    BY OutcomeIs DEF Fits
  <1>2. /\ \A e \in drops : e \notin c.drops
        /\ c.how \notin Copies => \A m \in puts : m \notin c.puts
    BY DEF Fits
  <1>3. /\ on' = [n \in Machines |-> IF n \in o.done /\ c.how # "pull" THEN (on[n] \ c.drops) \cup c.puts ELSE on[n]]
        /\ lost \subseteq lost'
    BY <1>1 DEF Effects, Changed
  <1> HIDE DEF c
  <1>4. ASSUME NEW n \in Nodes
        PROVE  on'[n] \cap puts \subseteq on[n] /\ on[n] \cap drops \subseteq on'[n]
    <2>1. n \in Machines
      BY DEF Machines
    <2>2. on'[n] = IF n \in o.done /\ c.how # "pull" THEN (on[n] \ c.drops) \cup c.puts ELSE on[n]
      BY <1>3, <2>1
    <2>3. n \in o.done /\ c.how # "pull" => c.how \notin Copies
      BY <1>1 DEF Copies
    <2> QED BY <2>2, <2>3, <1>2
  <1> QED BY <1>3, <1>4

\* A step that starts no reboot on the nodes of S, and after which each node
\* still runs what it has run.
Steady(S) ==
  /\ \A n \in S : "rebooting" \in on'[n] => "rebooting" \in on[n]
  /\ \A n \in Nodes : "running_new" \in on[n] => "running_new" \in on'[n]
  /\ lost \subseteq lost'

LEMMA SteadyStill ==
  ASSUME NEW g, NEW o \in Outcomes(g), Fits(g.program[1], {"rebooting"}, {"running_new"}), Effects(g.program[1], o)
  PROVE  Steady(Nodes)
  BY EffectsCalm DEF Steady

LEMMA FitsStill ==
  ASSUME NEW c, Fits(c, Unput, Undropped)
  PROVE  Fits(c, {"rebooting"}, {"running_new"})
  BY DEF Fits, Unput, Undropped

\* The command that starts n's reboot.
LEMMA SteadyReboot ==
  ASSUME NEW n \in Nodes, NEW g, NEW o \in Outcomes(g), g.program[1] = Reboot({n})[1], Effects(g.program[1], o)
  PROVE  Steady(Nodes \ {n})
  <1> DEFINE c == g.program[1]
  <1>1. c = Command("reboot", {n}, {"rebooting"}, {})
    BY DEF Reboot
  <1>2. c.how = "reboot" /\ c.on = {n} /\ c.puts = {"rebooting"} /\ c.drops = {} /\ c.as = "none"
    <2> HIDE DEF c
    <2> QED BY <1>1 DEF Command
  <1>3. o.done \subseteq {n} /\ o.on = Changed(c, on, o.done)
    BY <1>2, OutcomeIs
  <1>4. /\ on' = [m \in Machines |-> IF m \in o.done THEN on[m] \cup {"rebooting"} ELSE on[m]]
        /\ lost \subseteq lost'
    <2>1. on' = [m \in Machines |-> IF m \in o.done /\ c.how # "pull" THEN (on[m] \ c.drops) \cup c.puts ELSE on[m]]
          /\ lost \subseteq lost'
      BY <1>3 DEF Effects, Changed
    <2> HIDE DEF c
    <2> QED BY <1>2, <2>1
  <1>5. Nodes \subseteq Machines
    BY DEF Machines
  <1> QED BY <1>3, <1>4, <1>5 DEF Steady

-----------------------------------------------------------------------------
(* What such a greenlet goes on with                                       *)

\* Of a program that is done before another one.
LEMMA RestOf ==
  ASSUME NEW q, NEW r, Still(q), IsProgram(r), NEW f
  PROVE  /\ q = <<>> => q \o r = r
         /\ q # <<>> => /\ q \o r # <<>> /\ Fits((q \o r)[1], Unput, Undropped)
                       /\ Still(Unwound(q \o r)) /\ Still(Rest(q, f)) /\ Rest(q \o r, f) = Rest(q, f) \o r
  <1>1. CASE q = <<>>
    BY <1>1, EmptyProgram
  <1>2. CASE q # <<>>
    BY <1>2, BeforeOther, StillRest
  <1> QED BY <1>1, <1>2

LEMMA RebootsHead ==
  ASSUME NEW p, NEW n, NEW k, Reboots(p, n, k), NEW f
  PROVE  /\ p # <<>> /\ Still(Unwound(p)) /\ p[1].as # "pass"
         /\ \/ Reboots(Rest(p, f), n, k) /\ Fits(p[1], Unput, Undropped)
            \/ Waiting(Rest(p, f), n, k) /\ p[1] = Reboot({n})[1]
  <1>1. PICK q, w : Still(q) /\ Waiting(w, n, k) /\ p = q \o (Reboot({n}) \o w)
    BY DEF Reboots
  <1> DEFINE r == Reboot({n}) \o w
             c == Command("reboot", {n}, {"rebooting"}, {})
  <1>2. IsProgram(w) /\ IsProgram(r)
    BY <1>1, WaitingIs, StillProgram, RebootProgram, ConcatProgram
  <1>3. Reboot({n}) = <<c>>
    BY DEF Reboot
  <1>4. c.how = "reboot" /\ c.as = "none" /\ c.handler = <<>> /\ Reboot({n})[1] = c
    BY <1>3 DEF Command
  <1>5. r # <<>> /\ r[1] = c /\ Tail(r) = w /\ Unwound(r) = c.handler
    <2> HIDE DEF c
    <2> QED BY <1>2, <1>3, FirstOne
  <1>6. CASE q = <<>> /\ p = r
    <2>1. Rest(r, f) = w
      <3> HIDE DEF c, r
      <3> QED BY <1>4, <1>5 DEF Rest
    <2> HIDE DEF c, r
    <2> QED BY <1>1, <1>4, <1>5, <1>6, <2>1, StillEmpty
  <1>7. CASE /\ q # <<>> /\ p # <<>> /\ Fits(p[1], Unput, Undropped)
             /\ Still(Unwound(p)) /\ Still(Rest(q, f)) /\ Rest(p, f) = Rest(q, f) \o r
    <2>1. Reboots(Rest(p, f), n, k)
      BY <1>1, <1>7 DEF Reboots
    <2> HIDE DEF r, c
    <2> QED BY <1>7, <2>1 DEF Fits
  <1>8. p = q \o r
    BY <1>1
  <1> HIDE DEF r, c
  <1>9. \/ q = <<>> /\ p = r
        \/ /\ q # <<>> /\ p # <<>> /\ Fits(p[1], Unput, Undropped)
           /\ Still(Unwound(p)) /\ Still(Rest(q, f)) /\ Rest(p, f) = Rest(q, f) \o r
    <2>1. Still(q) /\ IsProgram(r)
      BY <1>1, <1>2
    <2> QED BY <2>1, <1>8, RestOf
  <1> QED BY <1>6, <1>7, <1>9

LEMMA GuardsHead ==
  ASSUME NEW p, NEW n, NEW k, Guards(p, n, k), NEW f
  PROVE  /\ p # <<>> /\ Still(Unwound(p)) /\ Fits(p[1], Unput, Undropped)
         /\ \/ Guards(Rest(p, f), n, k)
            \/ Still(Rest(p, f)) /\ Mark(k) \in f[n]
            \/ Reboots(Rest(p, f), n, k) /\ Mark(k) \notin f[n]
  <1>1. PICK q, yes, no, w : /\ Still(q) /\ Still(yes) /\ Still(w)
                             /\ Reboots(no, n, k) /\ Reboots(Try(no, <<>>), n, k)
                             /\ p = q \o (Branch({n}, {Mark(k)}, yes, no) \o w)
    BY DEF Guards
  <1> DEFINE c == [Command("branch", {n}, {Mark(k)}, {}) EXCEPT !.yes = yes, !.no = no]
             b == Branch({n}, {Mark(k)}, yes, no)
             r == b \o w
  <1>2. IsProgram(w) /\ IsProgram(b) /\ IsProgram(r)
    BY <1>1, StillProgram, GuardProgram, ConcatProgram
  <1>3. b = <<c>>
    BY DEF Branch
  <1>4. /\ DOMAIN c = Fields /\ c.how = "branch" /\ c.on = {n} /\ c.puts = {Mark(k)} /\ c.drops = {}
        /\ c.as = "none" /\ c.handler = <<>> /\ c.yes = yes /\ c.no = no
    BY DEF Command, Fields
  <1>5. r # <<>> /\ r[1] = c /\ Tail(r) = w /\ Unwound(r) = c.handler
    <2> HIDE DEF c, b
    <2> QED BY <1>2, <1>3, FirstOne
  <1>6. CASE q = <<>> /\ p = r
    <2> HIDE DEF c, r, b
    <2>1. Rest(r, f) = Try(IF Mark(k) \in f[n] THEN yes ELSE no, <<>>) \o w
      BY <1>4, <1>5 DEF Rest
    <2>2. Mark(k) \in f[n] => Still(Rest(r, f))
      BY <1>1, <2>1, StillTry, StillEmpty, StillConcat
    <2>3. Mark(k) \notin f[n] => Reboots(Rest(r, f), n, k)
      BY <1>1, <2>1, RebootsMore, StillEmpty
    <2>4. Fits(c, Unput, Undropped)
      BY <1>4 DEF Fits, Copies, Reads
    <2> QED BY <1>4, <1>5, <1>6, <2>2, <2>3, <2>4, StillEmpty
  <1>7. CASE /\ q # <<>> /\ p # <<>> /\ Fits(p[1], Unput, Undropped)
             /\ Still(Unwound(p)) /\ Still(Rest(q, f)) /\ Rest(p, f) = Rest(q, f) \o r
    <2>1. Guards(Rest(p, f), n, k)
      BY <1>1, <1>7 DEF Guards
    <2> HIDE DEF r, c, b
    <2> QED BY <1>7, <2>1
  <1>8. p = q \o r
    BY <1>1
  <1> HIDE DEF r, c, b
  <1>9. \/ q = <<>> /\ p = r
        \/ /\ q # <<>> /\ p # <<>> /\ Fits(p[1], Unput, Undropped)
           /\ Still(Unwound(p)) /\ Still(Rest(q, f)) /\ Rest(p, f) = Rest(q, f) \o r
    <2>1. Still(q) /\ IsProgram(r)
      BY <1>1, <1>2
    <2> QED BY <2>1, <1>8, RestOf
  <1> QED BY <1>6, <1>7, <1>9

LEMMA FailsHead ==
  ASSUME NEW p, Fails(p), NEW f
  PROVE  /\ p # <<>>
         /\ Fails(Rest(p, f)) \/ (p[1].how = "raise" /\ ~p[1].quiet)
  <1>1. PICK q, w : Still(q) /\ Still(w) /\ p = q \o (Raise \o w)
    BY DEF Fails
  <1> DEFINE c == Command("raise", {}, {}, {})
             r == Raise \o w
  <1>2. Raise = <<c>>
    BY DEF Raise
  <1>3. c.how = "raise" /\ ~c.quiet
    BY DEF Command
  <1>4. IsProgram(w) /\ IsProgram(r)
    BY <1>1, StillLook, StillProgram, ConcatProgram
  <1>5. r # <<>> /\ r[1] = c
    <2> HIDE DEF c
    <2> QED BY <1>2, <1>4, FirstOne
  <1>6. CASE q = <<>> /\ p = r
    BY <1>3, <1>5, <1>6
  <1>7. CASE q # <<>> /\ p # <<>> /\ Still(Rest(q, f)) /\ Rest(p, f) = Rest(q, f) \o r
    BY <1>1, <1>7 DEF Fails
  <1>8. p = q \o r
    BY <1>1
  <1> HIDE DEF r, c
  <1>9. \/ q = <<>> /\ p = r
        \/ /\ q # <<>> /\ p # <<>> /\ Fits(p[1], Unput, Undropped)
           /\ Still(Unwound(p)) /\ Still(Rest(q, f)) /\ Rest(p, f) = Rest(q, f) \o r
    <2>1. Still(q) /\ IsProgram(r)
      BY <1>1, <1>4
    <2> QED BY <2>1, <1>8, RestOf
  <1> QED BY <1>6, <1>7, <1>9

\* A program that first does something on n, whatever it is.
Tries(p, n) == \E w : Still(w) /\ p = Each({n}, {}, {}) \o w

LEMMA WaitingHead ==
  ASSUME NEW p, NEW n, NEW k, Waiting(p, n, k), NEW f
  PROVE  /\ p # <<>> /\ p[1].how = "await" /\ p[1].on = {n}
         /\ k => p[1].puts = {"running_new"} /\ ~p[1].quiet /\ Still(Rest(p, f))
         /\ ~k => p[1].puts = {} /\ Tries(Rest(p, f), n)
  <1>1. PICK w : Still(w) /\ p = Gate(n, k) \o w
    BY DEF Waiting
  <1>2. CASE k
    <2> DEFINE c == Command("await", {n}, {"running_new"}, {})
    <2>1. c.how = "await" /\ c.on = {n} /\ c.puts = {"running_new"} /\ ~c.quiet
      BY DEF Command
    <2>2. p = <<c>> \o w
      BY <1>1, <1>2 DEF Gate, Await
    <2> HIDE DEF c
    <2>3. p # <<>> /\ p[1] = c /\ Tail(p) = w
      BY <1>1, <2>2, StillProgram, FirstOne
    <2>4. Rest(p, f) = w
      BY <2>1, <2>3 DEF Rest
    <2> QED BY <1>1, <1>2, <2>1, <2>3, <2>4
  <1>3. CASE ~k
    <2> DEFINE d == Command("await", {n}, {}, {})
               c == [d EXCEPT !.quiet = TRUE]
               e == Each({n}, {}, {})
    <2>1. c.how = "await" /\ c.on = {n} /\ c.puts = {}
      BY DEF Command
    <2>2. Quiet(Await({n}, {})) = <<c>>
      <3>1. Await({n}, {}) = <<d>>
        BY DEF Await
      <3> HIDE DEF d
      <3> QED BY <3>1, QuietOne
    <2>3. p = (<<c>> \o e) \o w
      BY <1>1, <1>3, <2>2 DEF Gate
    <2>4. IsProgram(<<c>>) /\ IsProgram(e) /\ IsProgram(w) /\ IsProgram(e \o w)
      BY <1>1, OneProgram, StillProgram, ConcatProgram DEF Each
    <2> HIDE DEF c, e
    <2>5. <<c>> \o (e \o w) = (<<c>> \o e) \o w
      BY <2>4, Associative
    <2>6. p # <<>> /\ p[1] = c /\ Tail(p) = e \o w
      BY <2>3, <2>4, <2>5, FirstOne
    <2>7. Rest(p, f) = e \o w
      BY <2>1, <2>6 DEF Rest
    <2> QED BY <1>1, <1>3, <2>1, <2>6, <2>7 DEF e, Tries
  <1> QED BY <1>2, <1>3
\* What the greenlet of n may still have to do, on whose node no kernel is booted
\* any more if it is one of B.
Course(p, n, k, B) ==
  Still(p) \/ ((k \/ n \notin B) /\ Guards(p, n, k)) \/ (n \notin B /\ Reboots(p, n, k))

\* Its steps start no reboot on another node, nor on one of B.
LEMMA CourseStep ==
  ASSUME NEW n \in Nodes, NEW k, NEW B, NEW g, Course(g.program, n, k, B), g.program # <<>>,
         NEW o \in Outcomes(g), Effects(g.program[1], o), n \in B => "running_new" \in on[n]
  PROVE  /\ Course(o.g.program, n, k, B)
         /\ Steady(Nodes \ {n}) /\ (n \in B => Steady(Nodes))
  <1> DEFINE p == g.program
  <1>0. Steady(Nodes) => Steady(Nodes \ {n})
    BY DEF Steady
  <1>1. p[1].as # "pass" => o.g.program = Rest(p, on) \/ o.g.program = Unwound(p)
    BY OutcomeIs
  <1>2. CASE Still(p)
    <2>1. Fits(p[1], Unput, Undropped) /\ Still(Unwound(p)) /\ Still(Rest(p, on))
      BY <1>2, StillRest
    <2>2. Steady(Nodes)
      BY <2>1, FitsStill, SteadyStill
    <2>3. Still(o.g.program)
      BY <1>1, <2>1 DEF Fits
    <2> HIDE DEF p
    <2> QED BY <1>0, <2>2, <2>3 DEF Course
  <1>3. CASE (k \/ n \notin B) /\ Guards(p, n, k)
    <2>1. /\ Still(Unwound(p)) /\ Fits(p[1], Unput, Undropped)
          /\ \/ Guards(Rest(p, on), n, k)
             \/ Still(Rest(p, on)) /\ Mark(k) \in on[n]
             \/ Reboots(Rest(p, on), n, k) /\ Mark(k) \notin on[n]
      BY <1>3, GuardsHead
    <2>2. Steady(Nodes)
      BY <2>1, FitsStill, SteadyStill
    <2>3. Course(o.g.program, n, k, B)
      <3>1. n \in B => Mark(k) \in on[n]
        BY <1>3 DEF Mark
      <3> HIDE DEF p
      <3> QED BY <1>1, <1>3, <2>1, <3>1 DEF Fits, Course
    <2> QED BY <1>0, <2>2, <2>3
  <1>4. CASE n \notin B /\ Reboots(p, n, k)
    <2>1. /\ Still(Unwound(p)) /\ p[1].as # "pass"
          /\ \/ Reboots(Rest(p, on), n, k) /\ Fits(p[1], Unput, Undropped)
             \/ Waiting(Rest(p, on), n, k) /\ p[1] = Reboot({n})[1]
      BY <1>4, RebootsHead
    <2>2. Course(o.g.program, n, k, B)
      <3> HIDE DEF p
      <3> QED BY <1>1, <1>4, <2>1, WaitingIs DEF Course
    <2>3. Steady(Nodes \ {n})
      <3>1. CASE Fits(p[1], Unput, Undropped)
        BY <1>0, <3>1, FitsStill, SteadyStill
      <3>2. CASE p[1] = Reboot({n})[1]
        BY <3>2, SteadyReboot
      <3> QED BY <2>1, <3>1, <3>2
    <2> QED BY <1>4, <2>2, <2>3
  <1> HIDE DEF p
  <1> QED BY <1>2, <1>3, <1>4 DEF Course, p

\* Where greenlet g of node n is, whose marks are f[n]: it has raised; or n is up,
\* and g is done with the reboot or before it; or g still reboots n, or waits for
\* it; or it has not waited as it cannot connect, and raises for that.
Site(g, n, k, J, f, gone) ==
  \/ g.raised # "none"
  \/ /\ "rebooting" \notin f[n]
     /\ \/ Still(g.program) /\ (k /\ Needs(J, n) => "running_new" \in f[n])
        \/ Fails(g.program) \/ Guards(g.program, n, k)
  \/ Reboots(g.program, n, k) \/ Waiting(g.program, n, k)
  \/ ~k /\ n \in gone /\ Tries(g.program, n)

LEMMA SiteOther ==
  ASSUME NEW S \in SUBSET Nodes, NEW n \in S, NEW g, NEW k, NEW J, Site(g, n, k, J, on, lost), Steady(S)
  PROVE  Site(g, n, k, J, on', lost')
  BY DEF Site, Steady

LEMMA SiteStep ==
  ASSUME NEW n \in Nodes, NEW k, NEW J, NEW g, Site(g, n, k, J, on, lost), g.program # <<>>,
         NEW o \in Outcomes(g), Effects(g.program[1], o)
  PROVE  Site(o.g, n, k, J, on', lost')
  <1> DEFINE p == g.program
             c == p[1]
  <1>1. SUFFICES ASSUME o.g.raised = "none" PROVE Site(o.g, n, k, J, on', lost')
    BY DEF Site
  <1>2. PICK bad : /\ IF Raises(c, on, bad) \/ (TimesOut(c) /\ ~c.quiet)
                      THEN o.g.program = Unwound(p) /\ o.g.raised # "none"
                      ELSE o.g.program = Rest(p, on) /\ o.g.raised = g.raised
                   /\ Waited(c) \/ TimesOut(c) \/ bad # {}
                   /\ c.how = "await" => bad \subseteq c.on /\ bad \subseteq lost \cup o.lost
                   /\ c.how # "wait" => c.on \cap lost \subseteq bad
    BY OutcomeWhy
  <1>3. /\ o.g.program = Rest(p, on) /\ g.raised = "none"
        /\ ~Raises(c, on, bad) /\ ~(TimesOut(c) /\ ~c.quiet)
    BY <1>1, <1>2
  <1>4. ~c.quiet => bad = {} /\ Waited(c) /\ c.how # "raise"
    BY <1>2, <1>3 DEF Raises, Refused
  <1>5. n \in Machines /\ (n \in Rebooting <=> "rebooting" \in on[n])
    BY DEF Machines, Rebooting
  <1>6. Fits(c, Unput, Undropped) => Steady(Nodes)
    BY FitsStill, SteadyStill
  <1>7. CASE "rebooting" \notin on[n] /\ Still(p) /\ (k /\ Needs(J, n) => "running_new" \in on[n])
    <2>1. Still(Rest(p, on)) /\ Steady(Nodes)
      BY <1>6, <1>7, StillRest
    <2> HIDE DEF p
    <2> QED BY <1>3, <1>7, <2>1 DEF Site, Steady
  <1>8. CASE "rebooting" \notin on[n] /\ Fails(p)
    <2>1. Fails(Rest(p, on)) /\ Still(p)
      BY <1>4, <1>8, FailsHead, FailsMore, StillEmpty
    <2>2. Steady(Nodes)
      BY <1>6, <2>1, StillRest
    <2> HIDE DEF p
    <2> QED BY <1>3, <1>8, <2>1, <2>2 DEF Site, Steady
  <1>9. CASE "rebooting" \notin on[n] /\ Guards(p, n, k)
    <2>1. /\ Fits(c, Unput, Undropped)
          /\ \/ Guards(Rest(p, on), n, k)
             \/ Still(Rest(p, on)) /\ (k => "running_new" \in on[n])
             \/ Reboots(Rest(p, on), n, k)
      BY <1>9, GuardsHead DEF Mark
    <2>2. Steady(Nodes)
      BY <1>6, <2>1
    <2> HIDE DEF p, c
    <2> QED BY <1>3, <1>9, <2>1, <2>2 DEF Site, Steady
  <1>10. CASE Reboots(p, n, k)
    <2>1. Reboots(Rest(p, on), n, k) \/ Waiting(Rest(p, on), n, k)
      BY <1>10, RebootsHead
    <2> HIDE DEF p, c
    <2> QED BY <1>3, <2>1 DEF Site
  <1>11. CASE Waiting(p, n, k)
    <2>1. /\ c.how = "await" /\ c.on = {n}
          /\ k => c.puts = {"running_new"} /\ ~c.quiet /\ Still(Rest(p, on))
          /\ ~k => c.puts = {} /\ Tries(Rest(p, on), n)
      BY <1>11, WaitingHead
    <2>2. Steady(Nodes)
      BY <1>6, <1>11, WaitingIs, StillRest
    <2> HIDE DEF p, c
    <2>3. CASE k
      <3>1. Waited(c) /\ c.puts = {"running_new"} /\ Still(Rest(p, on))
        BY <1>4, <2>1, <2>3
      <3>2. "running_new" \in on[n] /\ "rebooting" \notin on[n]
        BY <1>5, <2>1, <3>1 DEF Waited, Granted
      <3> QED BY <1>3, <2>2, <3>1, <3>2 DEF Site, Steady
    <2>4. CASE ~k
      <3>1. Tries(Rest(p, on), n)
        BY <2>1, <2>4
      <3>2. Still(Rest(p, on))
        BY <3>1, StillRun, StillConcat DEF Tries, Unput, Undropped
      <3>3. CASE "rebooting" \notin on[n]
        BY <1>3, <2>2, <2>4, <3>2, <3>3 DEF Site, Steady
      <3>4. CASE "rebooting" \in on[n]
        <4>1. ~Waited(c) /\ ~TimesOut(c)
          BY <1>5, <2>1, <3>4 DEF Waited, TimesOut
        <4>2. bad # {} /\ bad \subseteq c.on /\ bad \subseteq lost \cup o.lost
          BY <1>2, <2>1, <4>1
        <4>3. n \in lost'
          BY <2>1, <4>2 DEF Effects
        <4> QED BY <1>3, <2>4, <3>1, <4>3 DEF Site
      <3> QED BY <3>3, <3>4
    <2> QED BY <2>3, <2>4
  <1>12. CASE ~k /\ n \in lost /\ Tries(p, n)
    <2>1. PICK w : Still(w) /\ p = Each({n}, {}, {}) \o w
      BY <1>12 DEF Tries
    <2> DEFINE d == Command("each", {n}, {}, {})
    <2>2. d.how = "each" /\ d.on = {n} /\ ~d.quiet /\ Each({n}, {}, {}) = <<d>>
      BY DEF Command, Each
    <2>3. c = d
      <3> HIDE DEF d
      <3> QED BY <2>1, <2>2, StillProgram, FirstOne
    <2> HIDE DEF d, c
    <2> QED BY <1>2, <1>4, <1>12, <2>2, <2>3
  <1> HIDE DEF c
  <1> QED BY <1>3, <1>7, <1>8, <1>9, <1>10, <1>11, <1>12 DEF Site
-----------------------------------------------------------------------------
(* KernelWanted: the invariant                                             *)

Ours == Tasks(job)[at] = "kernel"

\* The nodes that run the kernel that was asked for, and are to run it.
Booted == {n \in Nodes : Needs(job, n) /\ KernelDone}

\* What is left of the task: of most tasks' programs, one that starts no reboot
\* and has greenlets that are still.
MainFits ==
  IF KernelTask(Tasks(job)[at]) THEN Forms(job, main.program, Ours)
  ELSE Calm(main.program, {}) /\ \A n \in Nodes : Still(side[n].program)

SidesFit ==
  /\ \A n \in Nodes : Course(side[n].program, n, Ours, Booted)
  /\ \A program \in strays : \E n \in Nodes : Course(program, n, Ours, Booted)

BootedRun == \A n \in Booted : "running_new" \in on[n] /\ "rebooting" \notin on[n]

\* As long as the task has not raised, all nodes are up when it does not wait for
\* greenlets, and when `kernel` is done they run the kernel.
Settled ==
  main.raised = "none" =>
    /\ strays = {}
    /\ joining => \A n \in Nodes : Site(side[n], n, Ours, job, on, lost)
    /\ ~joining => \A n \in Nodes : "rebooting" \notin on[n]
    /\ Ours /\ main.program = <<>> => \A n \in Nodes : Needs(job, n) => "running_new" \in on[n]

KInv == phase = "enter" => MainFits /\ SidesFit /\ BootedRun /\ Settled

LEMMA BootedStays ==
  ASSUME UNCHANGED <<job, at, phase>>
  PROVE  Ours' = Ours /\ Booted' = Booted
  BY DEF Ours, Booted, KernelDone

\* What a program that starts no reboots goes on with.
LEMMA CalmRest ==
  ASSUME NEW p, Calm(p, {}), p # <<>>, NEW f
  PROVE  /\ Fits(p[1], {"rebooting"}, {"running_new"})
         /\ Calm(Tail(p), {}) /\ Calm(Unwound(p), {}) /\ Calm(Rest(p, f), {})
         /\ p[1].how = "parallel" => \A n \in Nodes : Still(p[1].yes[n])
  <1>1. PICK D : Closed(D, Unput, Undropped, {}) /\ Spares(p, {"rebooting"}, {"running_new"}, Seq(D))
    BY DEF Calm, Nests
  <1>2. /\ Fits(p[1], {"rebooting"}, {"running_new"})
        /\ Spares(Tail(p), {"rebooting"}, {"running_new"}, Seq(D))
        /\ Spares(Unwound(p), {"rebooting"}, {"running_new"}, Seq(D))
        /\ Spares(Rest(p, f), {"rebooting"}, {"running_new"}, Seq(D))
        /\ p[1].how = "parallel" => \A n \in Nodes : p[1].yes[n] \in Seq(D)
    BY <1>1, RestSpares
  <1>3. p[1].how = "parallel" => \A n \in Nodes : Still(p[1].yes[n])
    BY <1>1, <1>2 DEF Still, Spares
  <1>4. {} \cup {"running_new"} = {"running_new"}
    OBVIOUS
  <1> QED BY <1>1, <1>2, <1>3, <1>4 DEF Calm, Nests

LEMMA CalmLess ==
  ASSUME NEW p, NEW marks, Calm(p, marks)
  PROVE  Calm(p, {})
  <1>1. {} \cup {"running_new"} \subseteq marks \cup {"running_new"}
    OBVIOUS
  <1> QED BY <1>1, NestsMore DEF Calm

LEMMA CalmEmpty == Calm(<<>>, {})
  BY SparesEmpty, NestsPlain DEF Calm

\* What the programs of the two tasks start with.
LEMMA FormsHead ==
  ASSUME NEW J, NEW p, NEW k, Forms(J, p, k), p # <<>>
  PROVE  /\ Unwound(p) = <<>>
         /\ \/ p[1] = Raise[1]
            \/ /\ p[1].how = "parallel" /\ Tail(p) = <<>>
               /\ \A n \in Nodes : Begins(J, p[1].yes[n], n, k)
  <1> DEFINE c == Command("raise", {}, {}, {})
  <1>1. Raise = <<c>> /\ c.handler = <<>> /\ Raise[1] = c
    BY DEF Raise, Command
  <1>2. CASE p = Raise
    <2> HIDE DEF c
    <2> QED BY <1>1, <1>2 DEF Unwound
  <1>3. ASSUME NEW programs, \A n \in Nodes : Begins(J, programs[n], n, k),
               p = Parallel(programs) \/ p = Raise \o Parallel(programs)
        PROVE  /\ Unwound(p) = <<>>
               /\ \/ p[1] = Raise[1]
                  \/ /\ p[1].how = "parallel" /\ Tail(p) = <<>>
                     /\ \A n \in Nodes : Begins(J, p[1].yes[n], n, k)
    <2> DEFINE d == [Command("parallel", Nodes, {}, {}) EXCEPT !.yes = programs]
    <2>1. Parallel(programs) = <<d>> /\ d.how = "parallel" /\ d.yes = programs /\ d.handler = <<>>
      BY DEF Parallel, Command
    <2> HIDE DEF d, c
    <2>2. CASE p = Parallel(programs)
      <3>1. p[1] = d /\ Tail(p) = <<>>
        BY <2>1, <2>2
      <3> QED BY <1>3, <2>1, <3>1 DEF Unwound
    <2>3. CASE p = Raise \o Parallel(programs)
      <3>1. p[1] = c /\ Unwound(p) = c.handler
        BY <1>1, <2>1, <2>3, OneProgram, FirstOne
      <3> QED BY <1>1, <3>1
    <2> QED BY <1>3, <2>2, <2>3
  <1> HIDE DEF c
  <1> QED BY <1>2, <1>3 DEF Forms

-----------------------------------------------------------------------------
(* Each action preserves it                                                *)

\* A command of the task's own greenlet.
LEMMA CommandSettles ==
  ASSUME IInv, KInv, command
  PROVE  KInv'
  <1>1. PICK o \in Outcomes(main) : main' = o.g /\ Effects(main.program[1], o)
    BY DEF command
  <1>2. main.program # <<>> /\ UNCHANGED <<job, at, phase, joining, side, strays>>
    BY DEF command, Over
  <1>3. SUFFICES ASSUME phase = "enter" PROVE (MainFits /\ SidesFit /\ BootedRun /\ Settled)'
    BY <1>2 DEF KInv
  <1>4. main.program[1].how # "parallel" /\ ~joining
    BY <1>1, OutcomeForm DEF IInv, Joins
  <1>5. Ours' = Ours /\ Booted' = Booted
    BY <1>2, BootedStays
  <1>6. SidesFit'
    BY <1>2, <1>3, <1>5 DEF KInv, SidesFit
  <1>7. Steady(Nodes) => BootedRun'
    BY <1>3, <1>5 DEF KInv, BootedRun, Steady, Booted
  <1>8. CASE KernelTask(Tasks(job)[at])
    <2>1. Forms(job, main.program, Ours)
      BY <1>3, <1>8 DEF KInv, MainFits
    <2>2. main.program[1] = Raise[1] /\ Unwound(main.program) = <<>>
      BY <1>2, <1>4, <2>1, FormsHead
    <2>3. /\ Raise[1].how = "raise" /\ ~Raise[1].quiet /\ Fits(Raise[1], Unput, Undropped)
      BY DEF Raise, Command, Fits, Fields
    <2>4. main'.program = <<>> /\ main'.raised # "none"
      <3>1. \A bad : Raises(main.program[1], on, bad)
        BY <2>2, <2>3 DEF Raises, Refused
      <3> QED BY <1>1, <2>2, <3>1, OutcomeWhy
    <2>5. Steady(Nodes)
      BY <1>1, <2>2, <2>3, FitsStill, SteadyStill
    <2>6. MainFits'
      BY <1>2, <1>8, <2>4 DEF MainFits, Forms
    <2> QED BY <1>6, <1>7, <2>4, <2>5, <2>6 DEF Settled
  <1>9. CASE ~KernelTask(Tasks(job)[at])
    <2>1. Calm(main.program, {}) /\ \A n \in Nodes : Still(side[n].program)
      BY <1>3, <1>9 DEF KInv, MainFits
    <2>2. /\ Fits(main.program[1], {"rebooting"}, {"running_new"})
          /\ Calm(Unwound(main.program), {}) /\ Calm(Rest(main.program, on), {})
      BY <1>2, <2>1, CalmRest
    <2>3. Steady(Nodes)
      BY <1>1, <2>2, SteadyStill
    <2>4. /\ main'.program = Rest(main.program, on) \/ main'.program = Unwound(main.program)
          /\ main'.raised = "none" => main.raised = "none"
      BY <1>1, <2>2, OutcomeIs DEF Fits
    <2>5. MainFits'
      BY <1>2, <1>9, <2>1, <2>2, <2>4 DEF MainFits
    <2>6. ~Ours
      BY <1>9 DEF Ours, KernelTask
    <2>7. Settled'
      BY <1>2, <1>3, <1>4, <1>5, <2>3, <2>4, <2>6 DEF KInv, Settled, Steady
    <2> QED BY <1>6, <1>7, <2>3, <2>5, <2>7
  <1> QED BY <1>8, <1>9

\* Starting the greenlets.
LEMMA SpawnSettles ==
  ASSUME IInv, KInv, spawn
  PROVE  KInv'
  <1>1. /\ main.program # <<>> /\ main.program[1].how = "parallel" /\ ~joining /\ joining'
        /\ side' = [n \in Nodes |-> Greenlet(main.program[1].yes[n])]
        /\ UNCHANGED <<job, at, phase, main, strays, on, lost>>
    BY DEF spawn, Over
  <1>2. \A n \in Nodes : side'[n].program = main.program[1].yes[n]
    BY <1>1 DEF Greenlet
  <1>3. SUFFICES ASSUME phase = "enter" PROVE (MainFits /\ SidesFit /\ BootedRun /\ Settled)'
    BY <1>1 DEF KInv
  <1>4. Ours' = Ours /\ Booted' = Booted
    BY <1>1, BootedStays
  <1>5. BootedRun'
    BY <1>1, <1>3, <1>4 DEF KInv, BootedRun
  <1>6. /\ \A program \in strays : \E n \in Nodes : Course(program, n, Ours, Booted)
        /\ main.raised = "none" => strays = {} /\ \A n \in Nodes : "rebooting" \notin on[n]
    BY <1>1, <1>3 DEF KInv, SidesFit, Settled
  <1>7. CASE KernelTask(Tasks(job)[at])
    <2>1. Forms(job, main.program, Ours)
      BY <1>3, <1>7 DEF KInv, MainFits
    <2>2. Raise[1].how = "raise"
      BY DEF Raise, Command
    <2>3. \A n \in Nodes : Begins(job, side'[n].program, n, Ours)
      BY <1>1, <1>2, <2>1, <2>2, FormsHead
    <2>4. \A n \in Nodes : Course(side'[n].program, n, Ours, Booted)
      <3>1. Ours \/ Booted = {}
        BY <1>3, <1>7 DEF IInv, Shaped, KernelTask, Ours, Booted, KernelDone
      <3> QED BY <2>3, <3>1, FailsMore, StillEmpty DEF Begins, Course
    <2>5. \A n \in Nodes : "rebooting" \notin on[n] => Site(side'[n], n, Ours, job, on, lost)
      BY <2>3 DEF Begins, Site
    <2>6. MainFits'
      BY <1>1, <1>4, <1>7, <2>1 DEF MainFits
    <2>7. SidesFit'
      BY <1>1, <1>4, <1>6, <2>4 DEF SidesFit
    <2>8. Settled'
      BY <1>1, <1>4, <1>6, <2>5 DEF Settled
    <2> QED BY <1>5, <2>6, <2>7, <2>8
  <1>8. CASE ~KernelTask(Tasks(job)[at])
    <2>1. Calm(main.program, {})
      BY <1>3, <1>8 DEF KInv, MainFits
    <2>2. \A n \in Nodes : Still(side'[n].program)
      BY <1>1, <1>2, <2>1, CalmRest
    <2>3. ~Ours
      BY <1>8 DEF Ours, KernelTask
    <2>4. \A n \in Nodes : "rebooting" \notin on[n] => Site(side'[n], n, Ours, job, on, lost)
      BY <2>2, <2>3 DEF Site
    <2>5. MainFits'
      BY <1>1, <1>8, <2>1, <2>2 DEF MainFits
    <2>6. SidesFit'
      BY <1>1, <1>4, <1>6, <2>2 DEF SidesFit, Course
    <2>7. Settled'
      BY <1>1, <1>4, <1>6, <2>4 DEF Settled
    <2> QED BY <1>5, <2>5, <2>6, <2>7
  <1> QED BY <1>7, <1>8

\* A command of one of them.
LEMMA SideSettles ==
  ASSUME IInv, KInv, NEW n \in Nodes, side_command(n)
  PROVE  KInv'
  <1>1. PICK o \in Outcomes(side[n]) :
          side' = [side EXCEPT ![n] = o.g] /\ Effects(side[n].program[1], o)
    BY DEF side_command
  <1>2. /\ UNCHANGED <<job, at, phase, main, joining, strays>>
        /\ side[n].program # <<>> /\ joining /\ main.program # <<>>
    BY DEF side_command, Over, IInv, Joins
  <1>3. SUFFICES ASSUME phase = "enter" PROVE (MainFits /\ SidesFit /\ BootedRun /\ Settled)'
    BY <1>2 DEF KInv
  <1>4. Ours' = Ours /\ Booted' = Booted
    BY <1>2, BootedStays
  <1>5. \A m \in Nodes : side'[m] = IF m = n THEN o.g ELSE side[m]
    BY <1>1 DEF IInv, Shaped
  <1>6. Course(side[n].program, n, Ours, Booted) /\ (n \in Booted => "running_new" \in on[n])
    BY <1>3 DEF KInv, SidesFit, BootedRun
  <1>7. /\ Course(o.g.program, n, Ours, Booted)
        /\ Steady(Nodes \ {n}) /\ (n \in Booted => Steady(Nodes))
    BY <1>1, <1>2, <1>6, CourseStep
  <1>8. SidesFit'
    BY <1>2, <1>3, <1>4, <1>5, <1>7 DEF KInv, SidesFit
  <1>9. BootedRun'
    <2>1. Booted \subseteq Nodes
      BY DEF Booted
    <2> QED BY <1>3, <1>4, <1>7, <2>1 DEF KInv, BootedRun, Steady
  <1>10. Settled'
    <2>1. SUFFICES ASSUME main.raised = "none"
                   PROVE  strays' = {} /\ \A m \in Nodes : Site(side'[m], m, Ours, job, on', lost')
      BY <1>2, <1>4 DEF Settled
    <2>2. strays = {} /\ \A m \in Nodes : Site(side[m], m, Ours, job, on, lost)
      BY <1>2, <1>3, <2>1 DEF KInv, Settled
    <2>3. Site(o.g, n, Ours, job, on', lost')
      BY <1>1, <1>2, <2>2, SiteStep
    <2>4. \A m \in Nodes \ {n} : Site(side[m], m, Ours, job, on', lost')
      BY <1>7, <2>2, SiteOther
    <2> QED BY <1>2, <1>5, <2>2, <2>3, <2>4
  <1>11. MainFits'
    <2>1. CASE KernelTask(Tasks(job)[at])
      BY <1>2, <1>3, <1>4, <2>1 DEF KInv, MainFits
    <2>2. CASE ~KernelTask(Tasks(job)[at])
      <3>1. Calm(main.program, {}) /\ \A m \in Nodes : Still(side[m].program)
        BY <1>3, <2>2 DEF KInv, MainFits
      <3>2. /\ Fits(side[n].program[1], Unput, Undropped)
            /\ Still(Unwound(side[n].program)) /\ Still(Rest(side[n].program, on))
        BY <1>2, <3>1, StillRest
      <3>3. Still(o.g.program)
        BY <1>1, <3>2, OutcomeIs DEF Fits
      <3> QED BY <1>2, <1>5, <2>2, <3>1, <3>3 DEF MainFits
    <2> QED BY <2>1, <2>2
  <1> QED BY <1>8, <1>9, <1>10, <1>11

\* A greenlet that is done has its node up, and running the kernel.
LEMMA SiteDone ==
  ASSUME NEW n \in Nodes, NEW k, NEW J, NEW g, NEW gone, Site(g, n, k, J, on, gone),
         g.program = <<>>, g.raised = "none"
  PROVE  "rebooting" \notin on[n] /\ (k /\ Needs(J, n) => "running_new" \in on[n])
  <1>1. ~Fails(<<>>) /\ ~Guards(<<>>, n, k) /\ ~Reboots(<<>>, n, k) /\ ~Waiting(<<>>, n, k)
    BY FailsHead, GuardsHead, RebootsHead, WaitingHead
  <1>2. ~Tries(<<>>, n)
    <2> SUFFICES ASSUME NEW w, Still(w), <<>> = Each({n}, {}, {}) \o w PROVE FALSE
      BY DEF Tries
    <2> DEFINE c == Command("each", {n}, {}, {})
    <2>1. Each({n}, {}, {}) = <<c>>
      BY DEF Each
    <2> HIDE DEF c
    <2>2. <<c>> \o w # <<>>
      BY StillProgram, FirstOne
    <2>3. <<>> = <<c>> \o w
      BY <2>1
    <2> QED BY <2>2, <2>3
  <1> QED BY <1>1, <1>2 DEF Site

\* The end of the block.
LEMMA JoinSettles ==
  ASSUME IInv, KInv, join
  PROVE  KInv'
  <1>1. /\ joining /\ ~joining' /\ \A n \in Nodes : side[n].program = <<>> /\ side[n].raised = "none"
        /\ UNCHANGED <<job, at, phase, side, strays, on, lost>>
    BY DEF join, Over
  <1>2. main'.program = Tail(main.program) /\ main'.raised = main.raised
    <2>1. main' = [main EXCEPT !.program = Tail(@)]
      BY DEF join
    <2> QED BY <2>1
  <1>3. main.program # <<>> /\ main.program[1].how = "parallel"
    BY <1>1 DEF IInv, Joins
  <1>4. SUFFICES ASSUME phase = "enter" PROVE (MainFits /\ SidesFit /\ BootedRun /\ Settled)'
    BY <1>1 DEF KInv
  <1>5. Ours' = Ours /\ Booted' = Booted
    BY <1>1, BootedStays
  <1>6. SidesFit' /\ BootedRun'
    BY <1>1, <1>4, <1>5 DEF KInv, SidesFit, BootedRun
  <1>7. Settled'
    <2>1. SUFFICES ASSUME main.raised = "none"
                   PROVE  strays = {} /\ \A n \in Nodes : /\ "rebooting" \notin on[n]
                                                          /\ Ours /\ Needs(job, n) => "running_new" \in on[n]
      BY <1>1, <1>2, <1>5 DEF Settled
    <2>2. strays = {} /\ \A n \in Nodes : Site(side[n], n, Ours, job, on, lost)
      BY <1>1, <1>4, <2>1 DEF KInv, Settled
    <2> QED BY <1>1, <2>2, SiteDone
  <1>8. MainFits'
    <2>1. CASE KernelTask(Tasks(job)[at])
      <3>1. Forms(job, main.program, Ours)
        BY <1>4, <2>1 DEF KInv, MainFits
      <3>2. Raise[1].how = "raise"
        BY DEF Raise, Command
      <3>3. main'.program = <<>>
        BY <1>2, <1>3, <3>1, <3>2, FormsHead
      <3> QED BY <1>1, <2>1, <3>3 DEF MainFits, Forms
    <2>2. CASE ~KernelTask(Tasks(job)[at])
      <3>1. Calm(main.program, {}) /\ \A n \in Nodes : Still(side[n].program)
        BY <1>4, <2>2 DEF KInv, MainFits
      <3>2. Calm(main'.program, {})
        BY <1>2, <1>3, <3>1, CalmRest
      <3> QED BY <1>1, <2>2, <3>1, <3>2 DEF MainFits
    <2> QED BY <2>1, <2>2
  <1> QED BY <1>6, <1>7, <1>8

\* Leaving it because one has raised.
LEMMA JoinRaisesSettles ==
  ASSUME IInv, KInv, NEW n \in Nodes, join_raises(n)
  PROVE  KInv'
  <1>1. /\ joining /\ side[n].raised # "none"
        /\ main' = [program |-> Unwound(main.program), raised |-> side[n].raised]
        /\ side' = [m \in Nodes |-> Idle]
        /\ strays' = strays \cup {side[m].program : m \in {m \in Nodes : ~Over(side[m])}}
        /\ UNCHANGED <<job, at, phase, on>>
    BY DEF join_raises
  <1>2. main.program # <<>> /\ main.program[1].how = "parallel"
    BY <1>1 DEF IInv, Joins
  <1>3. SUFFICES ASSUME phase = "enter" PROVE (MainFits /\ SidesFit /\ BootedRun /\ Settled)'
    BY <1>1 DEF KInv
  <1>4. Ours' = Ours /\ Booted' = Booted
    BY <1>1, BootedStays
  <1>5. main'.program = Unwound(main.program) /\ main'.raised # "none"
    BY <1>1
  <1>6. \A m \in Nodes : side'[m].program = <<>>
    BY <1>1 DEF Idle, Greenlet
  <1>7. BootedRun' /\ Settled'
    BY <1>1, <1>3, <1>4, <1>5 DEF KInv, BootedRun, Settled
  <1>8. SidesFit'
    <2>1. \A program \in strays' : \E m \in Nodes : Course(program, m, Ours, Booted)
      BY <1>1, <1>3 DEF KInv, SidesFit
    <2>2. \A m \in Nodes : Course(side'[m].program, m, Ours, Booted)
      BY <1>6, StillEmpty DEF Course
    <2> QED BY <1>4, <2>1, <2>2 DEF SidesFit
  <1>9. MainFits'
    <2>1. CASE KernelTask(Tasks(job)[at])
      <3>1. Forms(job, main.program, Ours)
        BY <1>3, <2>1 DEF KInv, MainFits
      <3>2. main'.program = <<>>
        BY <1>2, <1>5, <3>1, FormsHead
      <3> QED BY <1>1, <2>1, <3>2 DEF MainFits, Forms
    <2>2. CASE ~KernelTask(Tasks(job)[at])
      <3>1. Calm(main.program, {})
        BY <1>3, <2>2 DEF KInv, MainFits
      <3>2. Calm(main'.program, {})
        BY <1>2, <1>5, <3>1, CalmRest
      <3> QED BY <1>1, <1>6, <2>2, <3>2, StillEmpty DEF MainFits
    <2> QED BY <2>1, <2>2
  <1> QED BY <1>7, <1>8, <1>9

\* A greenlet whose block was left: it reboots no node that runs the kernel.
LEMMA StraySettles ==
  ASSUME IInv, KInv, stray_command
  PROVE  KInv'
  <1>1. PICK program \in strays : \E o \in Outcomes(Greenlet(program)) :
          /\ Effects(program[1], o)
          /\ strays' = (strays \ {program}) \cup ({o.g.program} \ {<<>>})
    BY DEF stray_command
  <1> DEFINE g == Greenlet(program)
  <1>2. g.program = program
    BY DEF Greenlet
  <1> HIDE DEF g
  <1>3. PICK o \in Outcomes(g) : /\ Effects(program[1], o)
                                 /\ strays' = (strays \ {program}) \cup ({o.g.program} \ {<<>>})
    BY <1>1 DEF g
  <1>4. UNCHANGED <<job, at, phase, main, joining, side>>
    BY DEF stray_command
  <1>5. SUFFICES ASSUME phase = "enter" PROVE (MainFits /\ SidesFit /\ BootedRun /\ Settled)'
    BY <1>4 DEF KInv
  <1>6. Ours' = Ours /\ Booted' = Booted
    BY <1>4, BootedStays
  <1>7. PICK n \in Nodes : Course(program, n, Ours, Booted)
    BY <1>5 DEF KInv, SidesFit
  <1>8. program # <<>> /\ (n \in Booted => "running_new" \in on[n])
    BY <1>5 DEF IInv, GreenletsMute, KInv, BootedRun
  <1>9. /\ Course(o.g.program, n, Ours, Booted)
        /\ Steady(Nodes \ {n}) /\ (n \in Booted => Steady(Nodes))
    BY <1>2, <1>3, <1>7, <1>8, CourseStep
  <1>10. SidesFit'
    <2>1. \A p \in strays' : p \in strays \/ p = o.g.program
      BY <1>3
    <2> QED BY <1>4, <1>5, <1>6, <1>9, <2>1 DEF KInv, SidesFit
  <1>11. BootedRun'
    <2>1. Booted \subseteq Nodes
      BY DEF Booted
    <2> QED BY <1>5, <1>6, <1>9, <2>1 DEF KInv, BootedRun, Steady
  <1>12. main'.raised # "none"
    BY <1>1, <1>4, <1>5 DEF KInv, Settled
  <1>13. MainFits'
    BY <1>4, <1>5, <1>6 DEF KInv, MainFits
  <1> QED BY <1>10, <1>11, <1>12, <1>13 DEF Settled

\* On to the next task: after `kernel`, with all its nodes booted.
LEMMA EnteredSettles ==
  ASSUME IInv, KInv, entered
  PROVE  KInv'
  <1>1. /\ phase = "enter" /\ main.program = <<>> /\ main.raised = "none"
        /\ UNCHANGED <<job, joining, side, on, lost>>
    BY DEF entered, Over
  <1>2. ~joining /\ \A n \in Nodes : side[n].program = <<>>
    BY <1>1 DEF IInv, Joins, Over
  <1>3. job \in Jobs /\ at \in 1..Len(Tasks(job)) /\ Len(Tasks(job)) \in Nat
    BY TasksFramed, <1>1 DEF IInv, Shaped
  <1>4. SUFFICES ASSUME phase' = "enter" PROVE (MainFits /\ SidesFit /\ BootedRun /\ Settled)'
    BY DEF KInv
  <1>5. /\ at' = at + 1 /\ strays' = strays
        /\ main' = Greenlet(Enter(job, Tasks(job)[at + 1]))
    BY <1>4 DEF entered, Exits
  <1>6. /\ strays = {} /\ \A n \in Nodes : "rebooting" \notin on[n]
        /\ Ours => \A n \in Nodes : Needs(job, n) => "running_new" \in on[n]
    BY <1>1, <1>2 DEF KInv, Settled
  <1> DEFINE t == Tasks(job)[at + 1]
  <1>7. main'.program = Enter(job, t) /\ (Ours' <=> t = "kernel")
    BY <1>1, <1>5 DEF Greenlet, Ours
  <1>8. Tasks(job)'[at'] = t
    BY <1>1, <1>5
  <1> HIDE DEF t
  <1>9. SidesFit'
    BY <1>1, <1>2, <1>5, <1>6, StillEmpty DEF SidesFit, Course
  <1>10. BootedRun'
    <2>1. ASSUME NEW n \in Booted' PROVE "running_new" \in on[n]
      <3>1. PICK i \in 1..at : /\ n \in Nodes /\ Needs(job, n) /\ Tasks(job)[i] = "kernel"
                               /\ \A j \in (i + 1)..(at + 1) : Tasks(job)[j] # "kernel.install_latest_rh_kernel"
        BY <1>1, <1>3, <1>5, <2>1 DEF Booted, KernelDone
      <3>2. CASE i = at
        BY <1>6, <3>1, <3>2 DEF Ours
      <3>3. CASE i # at
        <4>1. n \in Booted
          BY <1>1, <1>3, <3>1, <3>3 DEF Booted, KernelDone
        <4> QED BY <1>1, <4>1 DEF KInv, BootedRun
      <3> QED BY <3>2, <3>3
    <2> QED BY <1>1, <1>6, <2>1 DEF BootedRun, Booted
  <1>11. Settled'
    <2>1. Ours' => main'.program # <<>>
      BY <1>3, <1>7, KernelForms DEF Enter
    <2> QED BY <1>1, <1>2, <1>5, <1>6, <2>1 DEF Settled
  <1>12. MainFits'
    <2>1. CASE t = "kernel"
      <3>1. Forms(job, kernel_enter(job), TRUE) /\ main'.program = kernel_enter(job)
        BY <1>3, <1>7, <2>1, KernelForms DEF Enter
      <3> QED BY <1>1, <1>7, <1>8, <2>1, <3>1 DEF MainFits, KernelTask
    <2>2. CASE t = "kernel.install_latest_rh_kernel"
      <3>1. Forms(job, Raise, FALSE) /\ Forms(job, install_latest_rh_kernel(job), FALSE)
        BY <1>3, KernelForms DEF Forms
      <3>2. Forms(job, main'.program, FALSE) /\ Ours' = FALSE
        BY <1>7, <2>2, <3>1 DEF Enter
      <3> QED BY <1>1, <1>8, <2>2, <3>2 DEF MainFits, KernelTask
    <2>3. CASE ~KernelTask(t)
      <3>1. Calm(main'.program, {})
        BY <1>3, <1>7, <2>3, EnterCalm, CalmLess
      <3> QED BY <1>1, <1>2, <1>8, <2>3, <3>1, StillEmpty DEF MainFits
    <2> QED BY <2>1, <2>2, <2>3 DEF KernelTask
  <1> QED BY <1>9, <1>10, <1>11, <1>12

\* A node is up again: none that a kernel was booted on before.
LEMMA RebootSettles ==
  ASSUME IInv, KInv, NEW n \in Nodes, reboots(n)
  PROVE  KInv'
  <1> DEFINE more == (IF "sysctl_line" \in on[n] THEN {"core_pattern"} ELSE {})
                     \cup (IF n \in selinux_hosts(job) THEN {"enforcing"} \cap job.marks[n] ELSE {})
                     \cup (IF BootsNew(job, n, on[n]) THEN {"running_new"} ELSE {})
  <1>1. /\ on' = [on EXCEPT ![n] = (on[n] \ Volatile) \cup more]
        /\ UNCHANGED <<job, at, phase, main, joining, side, strays, lost>>
        /\ "rebooting" \in on[n]
    BY DEF reboots, Rebooting
  <1>2. \A m \in Nodes \ {n} : on'[m] = on[m]
    BY <1>1
  <1>3. SUFFICES ASSUME phase = "enter" PROVE (MainFits /\ SidesFit /\ BootedRun /\ Settled)'
    BY <1>1 DEF KInv
  <1>4. Ours' = Ours /\ Booted' = Booted /\ Booted \subseteq Nodes
    BY <1>1, BootedStays DEF Booted
  <1>5. MainFits' /\ SidesFit'
    BY <1>1, <1>3, <1>4 DEF KInv, MainFits, SidesFit
  <1>6. n \notin Booted
    BY <1>1, <1>3 DEF KInv, BootedRun
  <1>7. BootedRun'
    BY <1>2, <1>3, <1>4, <1>6 DEF KInv, BootedRun
  <1>8. Settled'
    <2>1. SUFFICES ASSUME main.raised = "none"
                   PROVE  /\ strays = {} /\ joining
                          /\ \A m \in Nodes : Site(side[m], m, Ours, job, on', lost)
                          /\ ~(Ours /\ main.program = <<>>)
      BY <1>1, <1>4 DEF Settled
    <2>2. /\ strays = {} /\ joining
          /\ \A m \in Nodes : Site(side[m], m, Ours, job, on, lost)
      BY <1>1, <1>3, <2>1 DEF KInv, Settled
    <2>3. main.program # <<>>
      BY <2>2 DEF IInv, Joins
    <2>4. \A m \in Nodes : Site(side[m], m, Ours, job, on', lost)
      BY <1>1, <1>2, <2>2 DEF Site
    <2> QED BY <2>2, <2>3, <2>4
  <1> QED BY <1>5, <1>7, <1>8

\* What leaves the nodes' kernels alone.
LEMMA SteadySettles ==
  ASSUME IInv, KInv, UNCHANGED <<job, at, phase, main, joining, side, strays>>, Steady(Nodes)
  PROVE  KInv'
  <1>1. SUFFICES ASSUME phase = "enter" PROVE (MainFits /\ SidesFit /\ BootedRun /\ Settled)'
    BY DEF KInv
  <1>2. Ours' = Ours /\ Booted' = Booted /\ Booted \subseteq Nodes
    BY BootedStays DEF Booted
  <1>3. MainFits' /\ SidesFit'
    BY <1>1, <1>2 DEF KInv, MainFits, SidesFit
  <1>4. BootedRun'
    BY <1>1, <1>2 DEF KInv, BootedRun, Steady
  <1>5. Settled'
    <2>1. \A n \in Nodes : Site(side[n], n, Ours, job, on, lost) => Site(side[n], n, Ours, job, on', lost')
      BY SiteOther
    <2> QED BY <1>1, <1>2, <2>1 DEF KInv, Settled, Steady
  <1> QED BY <1>3, <1>4, <1>5

\* A build becomes ready; something goes wrong on a node.
LEMMA BuildSettles ==
  ASSUME IInv, KInv, new_build
  PROVE  KInv'
  <1>1. /\ DOMAIN on = Machines /\ on' = [on EXCEPT ![Here] = @ \cup {Ready[2]}]
        /\ UNCHANGED <<job, at, phase, main, joining, side, strays, lost>>
    BY DEF IInv, Shaped, new_build
  <1>2. \A m \in Nodes : on'[m] = on[m]
    BY <1>1, NodesAssumption DEF Machines
  <1> QED BY <1>1, <1>2, SteadySettles DEF Steady

LEMMA WrongSettles ==
  ASSUME IInv, KInv, NEW n \in Nodes, goes_wrong(n)
  PROVE  KInv'
  <1>1. DOMAIN on = Machines /\ n \in Machines /\ job.trouble \subseteq {"core", "sysusers_core", "denial", "kernel_bug"}
    BY JobsAssumption DEF IInv, Shaped, Machines
  <1>2. PICK what \in job.trouble :
          on' = [on EXCEPT ![n] = IF what \in {"core", "sysusers_core"} /\ "core_pattern" \notin @ THEN @
                                ELSE @ \cup {what}]
    BY DEF goes_wrong
  <1>3. UNCHANGED <<job, at, phase, main, joining, side, strays, lost>>
    BY DEF goes_wrong
  <1>4. \A m \in Nodes : on[m] \subseteq on'[m] /\ ("rebooting" \in on'[m] => "rebooting" \in on[m])
    BY <1>1, <1>2 DEF Machines
  <1> QED BY <1>3, <1>4, SteadySettles DEF Steady

LEMMA InitSettles == Init => KInv
  <1> SUFFICES ASSUME Init PROVE MainFits /\ SidesFit /\ BootedRun /\ Settled
    BY DEF KInv
  <1> DEFINE t == Tasks(job)[1]
  <1>1. /\ job \in Jobs /\ at = 1 /\ ~joining /\ strays = {}
        /\ main.program = Enter(job, t)
        /\ \A n \in Nodes : side[n].program = <<>>
    BY DEF Init, Greenlet, Idle
  <1>2. \A n \in Nodes : "rebooting" \notin on[n]
    BY JobsAssumption DEF Init, Machines
  <1>3. Booted = {}
    BY <1>1 DEF Booted, KernelDone
  <1>4. SidesFit /\ BootedRun
    BY <1>1, <1>3, StillEmpty DEF SidesFit, BootedRun, Course
  <1>5. Ours <=> t = "kernel"
    BY <1>1 DEF Ours
  <1>6. Tasks(job)[at] = t
    BY <1>1
  <1> HIDE DEF t
  <1>7. Settled
    <2>1. Ours => main.program # <<>>
      BY <1>1, <1>5, KernelForms DEF Enter
    <2> QED BY <1>1, <1>2, <2>1 DEF Settled
  <1>8. MainFits
    <2>1. CASE t = "kernel"
      <3>1. Forms(job, kernel_enter(job), TRUE) /\ main.program = kernel_enter(job)
        BY <1>1, <2>1, KernelForms DEF Enter
      <3> QED BY <1>5, <1>6, <2>1, <3>1 DEF MainFits, KernelTask
    <2>2. CASE t = "kernel.install_latest_rh_kernel"
      <3>1. Forms(job, Raise, FALSE) /\ Forms(job, install_latest_rh_kernel(job), FALSE)
        BY <1>1, KernelForms DEF Forms
      <3>2. Forms(job, main.program, FALSE) /\ Ours = FALSE
        BY <1>1, <1>5, <2>2, <3>1 DEF Enter
      <3> QED BY <1>6, <2>2, <3>2 DEF MainFits, KernelTask
    <2>3. CASE ~KernelTask(t)
      <3>1. Calm(main.program, {})
        BY <1>1, <2>3, EnterCalm, CalmLess
      <3> QED BY <1>1, <1>6, <2>3, <3>1, StillEmpty DEF MainFits
    <2> QED BY <2>1, <2>2, <2>3 DEF KernelTask
  <1> QED BY <1>4, <1>7, <1>8

LEMMA NextSettles ==
  ASSUME IInv, KInv, [Next]_vars
  PROVE  KInv'
  <1>1. CASE command
    BY <1>1, CommandSettles
  <1>2. CASE spawn
    BY <1>2, SpawnSettles
  <1>3. CASE join
    BY <1>3, JoinSettles
  <1>4. CASE entered
    BY <1>4, EnteredSettles
  <1>5. CASE enter_raised \/ exited
    <2>1. phase' # "enter"
      BY <1>5 DEF enter_raised, exited, Exits
    <2> QED BY <2>1 DEF KInv
  <1>6. CASE \E n \in Nodes : side_command(n) \/ join_raises(n) \/ reboots(n) \/ goes_wrong(n)
    BY <1>6, SideSettles, JoinRaisesSettles, RebootSettles, WrongSettles
  <1>7. CASE stray_command
    BY <1>7, StraySettles
  <1>8. CASE new_build
    BY <1>8, BuildSettles
  <1>9. CASE over \/ UNCHANGED vars
    <2>1. UNCHANGED vars
      BY <1>9 DEF over
    <2> QED BY <2>1, SteadySettles DEF vars, Steady
  <1> QED BY <1>1, <1>2, <1>3, <1>4, <1>5, <1>6, <1>7, <1>8, <1>9 DEF Next

LEMMA BootedWanted == KInv => KernelWanted
  <1> SUFFICES ASSUME KInv, KernelDone, NEW n \in Nodes \ job.container,
                      normalize_and_apply_overrides(job)[n] # {}
               PROVE  "running_new" \in on[n] /\ n \notin Rebooting
    BY DEF KernelWanted
  <1>1. n \in Booted /\ phase = "enter"
    BY DEF Booted, Needs, KernelDone
  <1> QED BY <1>1 DEF KInv, BootedRun, Rebooting

(* kernel.py, wait_for_reboot: for all jobs, nodes and faults, when the    *)
(* task kernel is done, and as long as tasks are entered after it that do  *)
(* not ask for the distribution's newest kernel, each host runs the kernel *)
(* its roles ask for and none is about to reboot.                          *)
THEOREM KernelWantedHolds == Spec => []KernelWanted
  <1>1. IInv /\ KInv /\ [Next]_vars => IInv' /\ KInv'
    BY NextKeeps, NextSettles
  <1>2. Spec => [](IInv /\ KInv)
    BY <1>1, InitInvariant, InitSettles, PTL DEF Spec
  <1> QED BY <1>2, BootedWanted, PTL
=============================================================================
