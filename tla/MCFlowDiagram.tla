--------------------------- MODULE MCFlowDiagram ---------------------------
(* FlowDiagram on small instances: an Ethernet capture, where an ICMP error *)
(* quotes what it is about, and a merge with a Linux cooked one, whose      *)
(* frames have one MAC each and no name for both, so that a MAC is in      *)
(* fields of either.  A vendor's name stands for one of the two MACs.       *)
(***************************************************************************)
EXTENDS FlowDiagram, TLC

CONSTANTS wire, merged, vendor, mac1, mac2, ip1, ip2, ip3, nobody, nofield

TableKind == vendor :> "name" @@ mac1 :> "mac" @@ mac2 :> "mac"
            @@ ip1 :> "v4" @@ ip2 :> "v4" @@ ip3 :> "v4"

TableFields == {"eth.src", "eth.dst", "eth.addr", "ip.src", "ip.dst", "ip.addr", "sll.src.eth"}

TableBoth  == "eth.src" :> "eth.addr" @@ "eth.dst" :> "eth.addr"
             @@ "ip.src" :> "ip.addr" @@ "ip.dst" :> "ip.addr" @@ "sll.src.eth" :> "sll.addr.eth"
             @@ "eth.addr" :> nofield @@ "ip.addr" :> nofield
TableOther == "eth.src" :> "eth.dst" @@ "eth.dst" :> "eth.src"
             @@ "ip.src" :> "ip.dst" @@ "ip.dst" :> "ip.src" @@ "sll.src.eth" :> "sll.dst.eth"
             @@ "eth.addr" :> nofield @@ "ip.addr" :> nofield
TableGuess == "mac" :> "eth.addr" @@ "v4" :> "ip.addr"

Field(n, v) == [name |-> n, value |-> v, shows |-> IF v = mac1 /\ n # "sll.src.eth" THEN {vendor} ELSE {}]

Ether(s, d) == <<Field("eth.src", s), Field("eth.dst", d)>>
Ip(s, d)    == <<Field("ip.src", s), Field("ip.dst", d)>>
Addr(f)     == IF TableBoth[f] \in TableFields THEN {f, TableBoth[f]} ELSE {f}

\* A filter finds a field by either of its spellings.
Frame(s, d, fs, quoted) ==
  LET above == \E i \in DOMAIN fs : TableKind[fs[i].value] = "v4" IN
  [src |-> s, dst |-> d, fields |-> fs, net |-> above, carries |-> quoted,
   has |-> UNION {{<<n, fs[i].value>> : n \in Addr(fs[i].name)} : i \in DOMAIN fs}
             \cup {<<"ip.addr", a>> : a \in quoted}]

Cooked(v) == <<Field("sll.src.eth", v)>>

TableFrames ==
  wire :> <<Frame(ip1, ip3, Ether(mac1, mac2) \o Ip(ip1, ip3), {}),
            Frame(ip2, ip1, Ether(mac2, mac1) \o Ip(ip2, ip1), {ip3})>>
  @@ merged :> <<Frame(mac2, nobody, Cooked(mac2), {}),
                 Frame(mac2, vendor, Ether(mac2, mac1), {}),
                 Frame(ip1, ip1, Cooked(mac2) \o Ip(ip1, ip1), {})>>

TableLinked == {{}, {Term({"eth.addr"}, mac1, TRUE)}}

\* TLC works out a definition of its own once, and what a constant stands for every time.
MCKind   == TableKind
MCFields == TableFields
MCBoth   == TableBoth
MCOther  == TableOther
MCGuess  == TableGuess
MCFrames == TableFrames
MCLinked == TableLinked
=============================================================================
