---------------------------- MODULE MCGameStream ----------------------------
(***************************************************************************)
(* GameStream for TLC.                                                     *)
(***************************************************************************)
EXTENDS GameStream

Luck(lossy, refuses, acts) == [lossy |-> lossy, refuses |-> refuses, acts |-> acts]

\* The more may be refused, and the more the people at the host may do, the more
\* executions there are: nothing, everything, and everything but what a property
\* excludes.
EveryLuck ==
  {Luck(lossy, refuses, acts) :
     lossy \in BOOLEAN,
     refuses \in {{}, Requests, Requests \ {"pair"}, Requests \ {"launch"},
                  Requests \ {"status", "unpair"}},
     acts \in {{}, {"quit", "launch"}, {"unpair", "quit", "launch"}}}

Calm    == {Luck(FALSE, {}, {})}
Refusal == {Luck(FALSE, {"pair"}, {})}
=============================================================================
