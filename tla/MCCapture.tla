----------------------------- MODULE MCCapture -----------------------------
(***************************************************************************)
(* An instance of Capture: one address, two agents, an hour of two ticks.  *)
(***************************************************************************)
EXTENDS Capture, TLC

CONSTANTS p, a, b, e1, e2

MCNormal == (e1 :> e1) @@ (e2 :> e1)
MCStatic == (p :> None)

Plain(header, endpoint, status, keys) ==
    [pinned |-> None, peer |-> p, header |-> header, endpoint |-> endpoint,
     status |-> status, keys |-> keys]

MCRequest == {Plain(None, e1, 200, {"k"}),
              Plain(b, e2, 404, {"l"}),
              [Plain(None, e2, 200, {"l"}) EXCEPT !.pinned = [agent |-> b, subject |-> "s"]]}
=============================================================================
