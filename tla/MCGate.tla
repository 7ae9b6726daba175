------------------------------- MODULE MCGate -------------------------------
EXTENDS Gate, TLC

CONSTANTS p1, p2, p3, p4, a, b, c, d, velo, pres

Op(o, g) == [op |-> o, gate |-> g]

\* Three processes meet in a, two of them in b, and p4 is at the end of a row; the
\* second gate leaves p1 without neighbours.
Hold == (velo :> (p1 :> {a, b} @@ p2 :> {a, b} @@ p3 :> {a, c} @@ p4 :> {c}))
     @@ (pres :> (p1 :> {a} @@ p2 :> {b} @@ p3 :> {b, c} @@ p4 :> {c}))
Adjacent == (velo :> (p1 :> <<p2, p3>> @@ p2 :> <<p3, p1>> @@ p3 :> <<p1, p4, p2>> @@ p4 :> <<p3>>))
         @@ (pres :> (p1 :> <<>> @@ p2 :> <<p3>> @@ p3 :> <<p2, p4>> @@ p4 :> <<p3>>))
Operations == <<Op("sync_0", velo), Op("sync_1", pres), Op("sync_0", pres), Op("sync_1", velo),
                Op("dot", velo), Op("sync_0", velo)>>
=============================================================================
