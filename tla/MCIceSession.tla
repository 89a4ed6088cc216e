---------------------------- MODULE MCIceSession ----------------------------
(***************************************************************************)
(* Small instances of IceSession.  Hosts h (IPv4) and g (IPv6), a          *)
(* server-reflexive and a relay candidate; the peer signals a, b and d and *)
(* may also be seen from c.  a and b are of one foundation.                *)
(***************************************************************************)
EXTENDS IceSession

CONSTANTS h, g, sx, rl, a, b, c, d

MCLocals == {h, g, sx, rl}
MCEndpoints == {a, b, c, d}

Rank(x) == CASE x = h -> 0 [] x = sx -> 1 [] x = rl -> 2 [] x = g -> 3
             [] x = a -> 0 [] x = b -> 1 [] x = c -> 3 [] x = d -> 2

MCFamily == [x \in Locals \cup Endpoints |->
                IF x \in {g, d} THEN "IPv6" ELSE "IPv4"]
MCPairable == {p \in Locals \X Endpoints : MCFamily[p[1]] = MCFamily[p[2]]}
MCOrder == [p \in Locals \X Endpoints |-> 4 * Rank(p[1]) + Rank(p[2])]
MCLocalOrder == [l \in Locals |-> Rank(l)]
MCFoundation == [p \in Locals \X Endpoints |->
                    <<p[1], IF p[2] = b THEN a ELSE p[2]>>]
NoPrediction == [e \in Endpoints |-> {}]
PredictC == [e \in Endpoints |-> IF e = a THEN {c} ELSE {}]
=============================================================================
