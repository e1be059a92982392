------------------------------ MODULE Commands ------------------------------
(***************************************************************************)
(* What a task does, as the commands it runs on the nodes of the job, one  *)
(* after the other: orchestra/cluster.py, orchestra/run.py.                *)
(*                                                                         *)
(* A node is a set of marks: the files, packages, settings that are on it. *)
(* So is the machine the job runs on, Here.  A command puts and drops      *)
(* marks.  It fails on some nodes, or on none; what a failed command has   *)
(* done is unknown.                                                        *)
(***************************************************************************)
EXTENDS Sequences, SequencesExt, FiniteSets

CONSTANTS Nodes, Here

ASSUME NodesAssumption == IsFiniteSet(Nodes) /\ Here \notin Nodes

Machines == Nodes \cup {Here}

\* How a command is run:
\*   all       cluster.run(wait=False) and run.wait: on all nodes at once
\*   each      cluster.run, or a loop: a node after the other
\*   pull      a loop that copies the marks `puts` of each node to the archive
\*   refuse    raises if a node has one of the marks `puts`
\*   require   raises if a node lacks one of the marks `puts`
\*   flag      sets the status 'fail' if a node has one of the marks `puts`
\*   search    looks for the marks `puts` in logs, and takes one it cannot read for
\*             empty: if there are any, sets the status to `as`, or raises if that is "none"
\*   status    sets the status to `as`
\*   raise     raises
\*   reboot    starts a reboot that nobody waits for
\*   await     waits, for a time, until each node has the marks `puts`
\*   wait      waits for them, however long it takes
\*   branch    goes on with `yes` if the nodes have the marks `puts`, or with `no`
\*   parallel  runs yes[n] for each node n, in `with parallel()`
Command(how, on, puts, drops) ==
  [how |-> how, on |-> on, puts |-> puts, drops |-> drops, as |-> "none",
   quiet |-> FALSE, handler |-> <<>>, yes |-> <<>>, no |-> <<>>]

\* Programs: sequences of commands, made of programs of one command.
All(on, puts, drops)  == <<Command("all", on, puts, drops)>>
Each(on, puts, drops) == <<Command("each", on, puts, drops)>>
Pull(on, marks)       == <<Command("pull", on, marks, {})>>
Local(puts, drops)    == <<Command("all", {Here}, puts, drops)>>
Refuse(on, marks)     == <<Command("refuse", on, marks, {})>>
Require(on, marks)    == <<Command("require", on, marks, {})>>
Flag(on, marks)       == <<Command("flag", on, marks, {})>>
Search(on, marks, s)  == <<[Command("search", on, marks, {}) EXCEPT !.as = s, !.quiet = TRUE]>>
SetStatus(s)          == <<[Command("status", {}, {}, {}) EXCEPT !.as = s]>>
Raise                 == <<Command("raise", {}, {}, {})>>
Reboot(on)            == <<Command("reboot", on, {"rebooting"}, {})>>
Await(on, marks)      == <<Command("await", on, marks, {})>>
WaitFor(on, marks)    == <<Command("wait", on, marks, {})>>
Branch(on, marks, yes, no) ==
  <<[Command("branch", on, marks, {}) EXCEPT !.yes = yes, !.no = no]>>
Parallel(programs)    == <<[Command("parallel", Nodes, {}, {}) EXCEPT !.yes = programs]>>

When(condition, program) == IF condition THEN program ELSE <<>>

\* Failures are ignored: check_status=False, or an except clause that logs.
Quiet(program) == [i \in DOMAIN program |-> [program[i] EXCEPT !.quiet = TRUE]]

\* If the program raises, the handler is run and the exception goes on.
Try(program, handler) ==
  [i \in DOMAIN program |-> [program[i] EXCEPT !.handler = @ \o handler]]

TryFinally(program, handler) == Try(program, handler) \o handler

\* A loop over the nodes of S, in some order.
ForEach(S, Program(_)) == FlattenSeq([i \in 1..Cardinality(S) |-> Program(SetToSeq(S)[i])])

-----------------------------------------------------------------------------
(* Carrying out                                                            *)

Reads == {"refuse", "require", "flag", "search", "branch", "await", "wait"}

\* The nodes command c may have changed if it failed on those of `bad`:
\* all the others, and any of the bad; one after the other, those before a bad one.
cluster_run(c, bad) ==
  IF c.how \in Reads \cup {"status", "raise", "parallel"} THEN {{}}
  ELSE IF c.how = "each" /\ ~c.quiet /\ bad # {} THEN SUBSET c.on
  ELSE {done \in SUBSET c.on : c.on \ bad \subseteq done}

\* A test that the nodes' marks do not pass.
Refused(c, on) ==
  \/ c.how = "refuse" /\ \E n \in c.on : on[n] \cap c.puts # {}
  \/ c.how = "require" /\ \E n \in c.on : ~(c.puts \subseteq on[n])
  \/ c.how = "raise"

\* What a search sees on the nodes it can read, and what it misses on the bad.
Found(c, on, bad) == c.how = "search" /\ \E n \in c.on \ bad : on[n] \cap c.puts # {}
Missed(c, on, bad) == IF c.how = "search" THEN UNION {on[n] \cap c.puts : n \in bad} ELSE {}

\* run.wait and RemoteProcess._raise_for_status: whether c raises.
Raises(c, on, bad) ==
  \/ ~c.quiet /\ (bad # {} \/ Refused(c, on))
  \/ Found(c, on, bad) /\ c.as = "none"

\* The nodes' marks when c is done.
Changed(c, on, done) ==
  [n \in Machines |-> IF n \in done /\ c.how # "pull" THEN (on[n] \ c.drops) \cup c.puts ELSE on[n]]

\* The program that is left of one whose first command is done.
Rest(program, on) ==
  LET c == program[1]
  IN  CASE c.how = "branch" ->
             Try(IF \A n \in c.on : c.puts \subseteq on[n] THEN c.yes ELSE c.no, c.handler)
               \o Tail(program)
        [] OTHER -> Tail(program)

\* ... and when it has raised.
Unwound(program) == program[1].handler
=============================================================================
