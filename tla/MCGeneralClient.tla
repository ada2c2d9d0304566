--------------------------- MODULE MCGeneralClient ---------------------------
(* Every process sends its own number, so a message tells who sent it. *)
EXTENDS RendezvousRefinement, KernelInvariant

MCPayload == [p \in Proc |-> {p} \cap Data]
=============================================================================
