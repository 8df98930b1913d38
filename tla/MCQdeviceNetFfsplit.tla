-------------------------- MODULE MCQdeviceNetFfsplit --------------------------
(***************************************************************************)
(* One device with a server that sends any message at any time.  What the  *)
(* buffered messages say does not influence the device, so the view keeps  *)
(* only their number.                                                      *)
(***************************************************************************)
EXTENDS QdeviceNetFfsplit

BuffersInUse ==
    [n \in Nodes |-> <<[dev[n] EXCEPT !.out = <<>>], Len(dev[n].out)>>]
=============================================================================
