----------------------------- MODULE MCSynchMatrix --------------------------
EXTENDS SynchMatrix, TLC

CONSTANTS p1, p2, p3, p4, a, b, c, d, mass, stiff

\* Three processes meet in a, p1 and p2 share b as well, p2 and p3 share c, and p4 is
\* at the end of a row.
Hold == p1 :> {a, b} @@ p2 :> {a, b, c} @@ p3 :> {a, c, d} @@ p4 :> {d}
Adjacent == p1 :> <<p3, p2>> @@ p2 :> <<p1, p3>> @@ p3 :> <<p4, p2, p1>> @@ p4 :> <<p3>>

Sq(S) == S \X S

\* Some processes lack an entry that their neighbours have, p3 the one of d and the
\* one of c, so that it sends p4 a buffer without entries.
Patterns ==
  mass :> (p1 :> {<<a, a>>, <<b, b>>} @@ p2 :> {<<a, a>>, <<b, b>>, <<c, c>>}
           @@ p3 :> {<<a, a>>} @@ p4 :> {<<d, d>>})
  @@ stiff :> (p1 :> Sq({a, b}) @@ p2 :> Sq({a, b, c}) \ {<<a, b>>}
               @@ p3 :> Sq({a, d}) \cup {<<a, c>>, <<c, c>>} @@ p4 :> {<<d, d>>})
Matrices == <<stiff, mass>>
=============================================================================
