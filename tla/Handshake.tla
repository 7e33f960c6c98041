------------------------------ MODULE Handshake ------------------------------
(***************************************************************************)
(* The vocabulary of the handshake between core and a module (package      *)
(* handshake): the protocol window core advertises in the environment, the *)
(* one line the module answers with on its standard output, and how both   *)
(* are read back.                                                          *)
(*                                                                         *)
(* A number that was read from text is an integer, and text that is not a  *)
(* numeral is -1: what matters is whether strconv.ParseUint accepts it.    *)
(*                                                                         *)
(* An address is its text and two facts about it that the line does not    *)
(* survive: it contains the separator "|", it ends in blanks.              *)
(***************************************************************************)
EXTENDS Integers

CONSTANTS
    MaxUint32,   \* the largest uint32
    Texts        \* the non-empty texts of addresses

ASSUME MaxUint32Assumption == MaxUint32 \in Nat /\ MaxUint32 >= 1
ASSUME TextsAssumption == "" \notin Texts

LineVersion == 1

ExitProtocolUnsupported == 78

NetworkUnix == "unix"
NetworkPipe == "npipe"
LegacyNetworkPipe == "winpipe"

Networks == {NetworkUnix, NetworkPipe}

Addresses == [text : Texts \cup {""}, bar : BOOLEAN, blank : BOOLEAN]

Lines == [Protocol : 0..MaxUint32, Network : Networks, Addr : Addresses]

(* What TrimSpace and Split leave of a line of text: how many fields, and  *)
(* the first five.  No field contains the separator or ends the line in    *)
(* blanks.                                                                 *)
RawLines ==
    [fields : Nat, weave : BOOLEAN, version : Int, protocol : Int,
     network : STRING,
     addr : [text : Texts \cup {""}, bar : {FALSE}, blank : {FALSE}]]

(* Line.Format, as the reader's TrimSpace and Split will see it: an        *)
(* address with a separator becomes two fields, and its end blanks vanish. *)
Format(line) ==
    [fields   |-> IF line.Addr.bar THEN 6 ELSE 5,
     weave    |-> TRUE,
     version  |-> LineVersion,
     protocol |-> line.Protocol,
     network  |-> line.Network,
     addr     |-> [line.Addr EXCEPT !.bar = FALSE, !.blank = FALSE]]

ParsesUint32(n) == n \in 0..MaxUint32

(* Parse returns no error. *)
Accepted(raw) ==
    /\ raw.fields = 5 /\ raw.weave
    /\ raw.version = LineVersion
    /\ ParsesUint32(raw.protocol) /\ raw.protocol # 0
    /\ raw.network \in Networks \cup {LegacyNetworkPipe}
    /\ raw.addr.text # ""

(* The Line that Parse returns for an accepted text. *)
Parse(raw) ==
    [Protocol |-> raw.protocol,
     Network  |-> IF raw.network = LegacyNetworkPipe THEN NetworkPipe ELSE raw.network,
     Addr     |-> raw.addr]

-----------------------------------------------------------------------------
(* The window.                                                             *)

(* ParseWindow returns no error for the texts of these two integers. *)
WindowAccepted(min, max) ==
    /\ ParsesUint32(min) /\ ParsesUint32(max)
    /\ min # 0
    /\ min <= max

ParseWindow(min, max) == [Min |-> min, Max |-> max]

Contains(window, p) == window.Min <= p /\ p <= window.Max

=============================================================================
