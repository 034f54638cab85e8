-------------------------- MODULE MCRuntimeAssets --------------------------
(* The geodata sections that Starts of the instance carry. *)
EXTENDS RuntimeAssets

RaAsks(shape, core, valid, assets) == [shape |-> shape, core |-> core, valid |-> valid, assets |-> assets]

MCRaRequests ==
    {RaAsks("absent", "none", TRUE, <<>>),
     RaAsks("malformed", "none", TRUE, <<>>),
     RaAsks("object", "invalid", FALSE, <<>>),
     RaAsks("object", "none", TRUE, <<"geoip", "extra", "extra">>)}
    \cup {RaAsks("object", d, TRUE, <<>>) : d \in RaDigests}
=============================================================================
