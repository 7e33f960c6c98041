------------------------------- MODULE MCLaunch -------------------------------
(* An instance of Launch for TLC. *)
EXTENDS Launch

Address(text, bar) == [text |-> text, bar |-> bar, blank |-> FALSE]

(* The zero value, windows below, at and above the protocol, an invalid one. *)
MCWindows == {[Min |-> w[1], Max |-> w[2]] :
                w \in {<<0, 0>>, <<1, 1>>, <<1, 2>>, <<2, 3>>, <<0, 2>>, <<3, 1>>}}

(* A socket directory may have the separator in its name. *)
MCSockets == {Address("sock", FALSE), Address("sock", TRUE)}

Raw(fields, protocol, network) ==
    [fields |-> fields, weave |-> TRUE, version |-> 1, protocol |-> protocol,
     network |-> network, addr |-> Address("sock", FALSE)]

MCForeignLines ==
    {Raw(4, 1, "unix"), Raw(5, 0, "unix"), Raw(5, 2, "winpipe"), Raw(5, 1, "tcp")}

=============================================================================
