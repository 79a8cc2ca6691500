--------------------------- MODULE EthernetHeader ---------------------------
(***************************************************************************)
(* What Header<Ethernet> promises (src/ethernet.rs): an Ethernet header is *)
(* three fields that are set and swapped independently of each other, and  *)
(* of the bytes behind it.                                                 *)
(***************************************************************************)
CONSTANTS MacAddresses, EtherTypes

VARIABLES
  header,      \* [dst, src, ethertype] at the beginning of a packet
  template,    \* the same of a header on the heap
  payload      \* the rest of the packet

abstract == <<header, template, payload>>

Init == template \in [dst : MacAddresses, src : MacAddresses, ethertype : EtherTypes]

SetDst  == \E a \in MacAddresses \union {template.dst} :
             header' = [header EXCEPT !.dst = a]
SetSrc  == \E a \in MacAddresses \union {template.src} :
             header' = [header EXCEPT !.src = a]
SetType == \E t \in EtherTypes \union {template.ethertype} :
             header' = [header EXCEPT !.ethertype = t]
Swap    == header' = [header EXCEPT !.dst = header.src, !.src = header.dst]
Copy    == header' = template

Next ==
  /\ SetDst \/ SetSrc \/ SetType \/ Swap \/ Copy
  /\ UNCHANGED <<template, payload>>

Spec == Init /\ [][Next]_abstract

=============================================================================
