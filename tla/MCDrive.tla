------------------------------ MODULE MCDrive ------------------------------
(***************************************************************************)
(* Three jobs of a drawn source, or of a list that names one problem       *)
(* twice.                                                                  *)
(***************************************************************************)
EXTENDS DriveInput

Graph(nodes, edges) == [nodes |-> nodes, edges |-> edges, h |-> <<0>>, j |-> <<1, 2>>,
                       spin |-> <<>>, sets |-> TRUE]

\* One graph listed in three ways, its subgraph, its double edge, a dangling edge, and bad values.
MCSpecs ==
  LET g == Graph(<<1, 2, 5>>, <<<<1, 5>>, <<2, 1>>>>) IN
  {g, Graph(<<5, 1, 2>>, <<<<1, 2>>, <<5, 1>>>>), Graph(<<1, 2, 5>>, <<<<1, 2>>>>),
   Graph(<<1, 2, 5>>, <<<<1, 2>>, <<2, 1>>>>), Graph(<<1, 2>>, <<<<1, 3>>>>), Graph(<<>>, <<>>)}
  \union {[g EXCEPT !.spin = DEFAULT_SPIN_SET], [g EXCEPT !.h = <<>>],
          [g EXCEPT !.j = <<>>], [g EXCEPT !.j = <<2, 1>>], [g EXCEPT !.sets = FALSE, !.spin = DEFAULT_SPIN_SET],
          [g EXCEPT !.spin = <<1>>]}

Entry(nonce, explicit) ==
  [blank |-> FALSE, json |-> TRUE, nonce |-> nonce, explicit |-> explicit]

MCLines == {Entry(n, e) : n \in {"none", "a", "b", "bad"}, e \in BOOLEAN}
  \union {[Entry("none", TRUE) EXCEPT !.blank = TRUE], [Entry("a", FALSE) EXCEPT !.json = FALSE]}

MCLists == UNION {[1 .. n -> MCLines] : n \in 0 .. 3}

Run == [source |-> "random", chain |-> NoSpec, file |-> NoSpec,
        preset |-> Graph(<<1>>, <<>>), hash |-> <<>>, seed |-> 1, count |-> 3, size |-> 1,
        list |-> <<Entry("a", FALSE), Entry("a", FALSE), Entry("none", TRUE)>>]

MCRuns == {Run, [Run EXCEPT !.source = "list", !.file = Run.preset]}

MCLabels == {[j \in Jobs |-> build_jobs(run).jobs[j].id] : run \in MCRuns}

MCWorkloads ==
  {<<"plain", "plain", "winner">>, <<"bad", "lease", "plain">>,
   <<"winner", "foreign", "bad">>, <<"foreign", "foreign", "foreign">>}
=============================================================================
