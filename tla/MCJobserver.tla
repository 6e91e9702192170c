---------------------------- MODULE MCJobserver -----------------------------
(***************************************************************************)
(* Instances of Jobserver for TLC.                                         *)
(***************************************************************************)
EXTENDS Jobserver, TLC

CONSTANTS t1, t2, t3, t4, p1, p2, p3, p4

\* cargo nextest: a process per test.
OnePerTest == (t1 :> p1) @@ (t2 :> p2) @@ (t3 :> p3) @@ (t4 :> p4)

\* Two threads of one process, and another process.
Threads == (t1 :> p1) @@ (t2 :> p1) @@ (t3 :> p2)

\* Tests of three sizes: of five tokens, one can be left with three of its four
\* and another with two of its three.
Mixed == (t1 :> 2) @@ (t2 :> 4) @@ (t3 :> 3)

\* Two small tests, whose tokens two larger ones can share.
Pairs == (t1 :> 2) @@ (t2 :> 2) @@ (t3 :> 3) @@ (t4 :> 3)
=============================================================================
