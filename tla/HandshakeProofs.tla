--------------------------- MODULE HandshakeProofs ---------------------------
(***************************************************************************)
(* What the handshake vocabulary guarantees for every line, address and    *)
(* window, and for any width of the protocol number.                       *)
(***************************************************************************)
EXTENDS Handshake, TLAPS

(* A line that Parse accepts yields a proper Line: a protocol other than   *)
(* 0, one of the two networks of package ipc (the legacy name of the pipe  *)
(* is gone), an address that is not empty.                                 *)
THEOREM ParseSound ==
  ASSUME NEW raw \in RawLines, Accepted(raw)
  PROVE  /\ Parse(raw) \in Lines
         /\ Parse(raw).Protocol # 0
         /\ Parse(raw).Addr.text # ""
<1>1. Parse(raw).Network \in Networks
  BY DEF Accepted, Parse, Networks, LegacyNetworkPipe, NetworkPipe, NetworkUnix
<1>2. raw.addr \in Addresses
  <2>1. raw.addr \in [text : Texts \cup {""}, bar : {FALSE}, blank : {FALSE}]
    BY DEF RawLines
  <2>2. /\ raw.addr = [text |-> raw.addr.text, bar |-> raw.addr.bar,
                        blank |-> raw.addr.blank]
        /\ raw.addr.text \in Texts \cup {""}
        /\ raw.addr.bar \in BOOLEAN /\ raw.addr.blank \in BOOLEAN
    BY <2>1
  <2>3. QED
    BY <2>2 DEF Addresses
<1>3. Parse(raw) \in Lines
  BY <1>1, <1>2 DEF Accepted, ParsesUint32, Parse, Lines
<1>4. QED
  BY <1>1, <1>3 DEF Accepted, Parse

(* Parse, Format, Parse is Parse: the rendered form of an accepted line is *)
(* accepted and reads back as the same Line.                               *)
THEOREM RoundTrip ==
  ASSUME NEW raw \in RawLines, Accepted(raw)
  PROVE  /\ Accepted(Format(Parse(raw)))
         /\ Parse(Format(Parse(raw))) = Parse(raw)
<1> DEFINE line == Parse(raw)
<1>1. /\ line.Protocol = raw.protocol
      /\ line.Addr = raw.addr
      /\ line.Network \in Networks
  <2>1. line \in Lines
    BY ParseSound
  <2>2. line.Network \in Networks
    BY <2>1 DEF Lines
  <2>3. QED
    BY <2>2 DEF Parse
<1>2. /\ raw.addr \in [text : Texts \cup {""}, bar : {FALSE}, blank : {FALSE}]
      /\ [raw.addr EXCEPT !.bar = FALSE, !.blank = FALSE] = raw.addr
  BY DEF RawLines
<1>3. /\ Format(line).fields = 5 /\ Format(line).weave
      /\ Format(line).version = LineVersion
      /\ Format(line).protocol = raw.protocol
      /\ Format(line).network = line.Network
      /\ Format(line).addr = raw.addr
  BY <1>1, <1>2 DEF Format
<1>4. Accepted(Format(line))
  BY <1>1, <1>3 DEF Accepted
<1>5. line.Network # LegacyNetworkPipe
  BY <1>1 DEF Networks, NetworkPipe, NetworkUnix, LegacyNetworkPipe
<1>6. Parse(Format(line)) = line
  BY <1>1, <1>3, <1>5 DEF Parse
<1>7. QED
  BY <1>4, <1>6

(* Which lines the other side accepts: those with a protocol, an address   *)
(* and no separator in it.  Such a line is read as it was written unless   *)
(* its address ends in blanks, which are lost without an error.            *)
THEOREM ReadsBack ==
  ASSUME NEW line \in Lines
  PROVE  /\ Accepted(Format(line)) <=>
               line.Protocol # 0 /\ line.Addr.text # "" /\ ~line.Addr.bar
         /\ Accepted(Format(line)) =>
               /\ Parse(Format(line)).Protocol = line.Protocol
               /\ Parse(Format(line)).Network = line.Network
               /\ Parse(Format(line)) = line <=> ~line.Addr.blank
<1>1. /\ line = [Protocol |-> line.Protocol, Network |-> line.Network, Addr |-> line.Addr]
      /\ line.Protocol \in 0..MaxUint32
      /\ line.Network \in Networks
      /\ line.Addr \in Addresses
  BY DEF Lines
<1>2. /\ line.Addr = [text |-> line.Addr.text, bar |-> line.Addr.bar, blank |-> line.Addr.blank]
      /\ line.Addr.bar \in BOOLEAN /\ line.Addr.blank \in BOOLEAN
  BY <1>1 DEF Addresses
<1> DEFINE raw == Format(line)
<1>3. /\ raw.fields = IF line.Addr.bar THEN 6 ELSE 5
      /\ raw.weave /\ raw.version = LineVersion
      /\ raw.protocol = line.Protocol /\ raw.network = line.Network
      /\ raw.addr = [text |-> line.Addr.text, bar |-> FALSE, blank |-> FALSE]
  BY <1>2 DEF Format
<1>4. line.Network # LegacyNetworkPipe
  BY <1>1 DEF Networks, NetworkUnix, NetworkPipe, LegacyNetworkPipe
<1> HIDE DEF raw
<1>5. Accepted(raw) <=> line.Protocol # 0 /\ line.Addr.text # "" /\ ~line.Addr.bar
  <2>1. raw.addr.text = line.Addr.text
    BY <1>3
  <2>2. raw.fields = 5 <=> ~line.Addr.bar
    BY <1>3
  <2>3. /\ raw.weave /\ raw.version = LineVersion /\ raw.protocol = line.Protocol
        /\ raw.protocol \in 0..MaxUint32
        /\ raw.network \in Networks \cup {LegacyNetworkPipe}
    BY <1>1, <1>3
  <2> QED
    BY <2>1, <2>2, <2>3, Zenon DEF Accepted, ParsesUint32
<1>6. Parse(raw) = [Protocol |-> line.Protocol, Network |-> line.Network, Addr |-> raw.addr]
  BY <1>3, <1>4 DEF Parse
<1>7. ASSUME Accepted(raw) PROVE Parse(raw) = line <=> ~line.Addr.blank
  <2>1. ~line.Addr.bar
    BY <1>5, <1>7
  <2>2. CASE line.Addr.blank
    <3>1. raw.addr.blank = FALSE
      BY <1>3
    <3>2. Parse(raw).Addr.blank = FALSE
      BY <1>6, <3>1
    <3> QED
      BY <2>2, <3>2
  <2>3. CASE ~line.Addr.blank
    <3>1. raw.addr = line.Addr
      BY <1>2, <1>3, <2>1, <2>3
    <3> QED
      BY <1>1, <1>6, <2>3, <3>1
  <2> QED
    BY <1>2, <2>2, <2>3
<1>8. Parse(raw).Protocol = line.Protocol /\ Parse(raw).Network = line.Network
  BY <1>6
<1> QED
  BY <1>5, <1>7, <1>8, Zenon DEF raw

(* A window that ParseWindow accepts is not empty and excludes protocol 0, *)
(* so Contains never admits the protocol that Parse refuses.               *)
THEOREM WindowSound ==
  ASSUME NEW min \in Int, NEW max \in Int, WindowAccepted(min, max)
  PROVE  LET w == ParseWindow(min, max)
         IN  /\ Contains(w, w.Min) /\ Contains(w, w.Max)
             /\ \A p \in Int : Contains(w, p) => p \in 1..MaxUint32
BY MaxUint32Assumption DEF WindowAccepted, ParsesUint32, ParseWindow, Contains

=============================================================================
