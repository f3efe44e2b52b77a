----------------------------- MODULE MCSettings -----------------------------
(***************************************************************************)
(* Instances of Settings for TLC: the scan interval and one other setting. *)
(***************************************************************************)
EXTENDS Settings, TLC

CONSTANTS h1, h2

\* The environment's interval is 1; other is set to 7.
MCEnv == ("interval" :> 1) @@ ("other" :> 7)
MCValid == {1, 2, 7, 8}

\* Bodies: a new interval; the other setting, the interval left blank; values
\* one of which is out of bounds.
MCRequests ==
    {"interval" :> 2,
     ("interval" :> Blank) @@ ("other" :> 8),
     ("interval" :> 1) @@ ("other" :> 9)}

MCPlain == {"interval" :> 2, "other" :> 8}
=============================================================================
