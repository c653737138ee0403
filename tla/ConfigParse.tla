----------------------------- MODULE ConfigParse -----------------------------
(***************************************************************************)
(* usb_parse_config_blob_into_device of drivers/usb/uhci/enumerate.c: two  *)
(* walks over the bytes of a configuration blob.  The first chooses an     *)
(* interface, the second the endpoint to poll.                             *)
(***************************************************************************)
EXTENDS Integers, Sequences, SequencesExt

INTERFACE == 4    \* USB_DESC_TYPE_INTERFACE
ENDPOINT == 5     \* USB_DESC_TYPE_ENDPOINT
HeaderSize == 9   \* sizeof(usb_configuration_descriptor_t)

None == [found |-> FALSE]

\* The byte at an offset from a place in the blob.
Byte(buf, off, i) == buf[off + i + 1]
Type(buf, off) == Byte(buf, off, 1)

\* The places both walks stop at: a descriptor of no length, or one that is
\* longer than what is left, ends the walk.
Walk(buf) ==
    LET from[off \in 0 .. Len(buf)] ==
          IF off + 2 > Len(buf) THEN << >>
          ELSE IF Byte(buf, off, 0) = 0 \/ off + Byte(buf, off, 0) > Len(buf) THEN << >>
          ELSE <<off>> \o from[off + Byte(buf, off, 0)]
    IN from[0]

IsKeyboard(buf, off) ==
    Byte(buf, off, 5) = 3 /\ Byte(buf, off, 6) = 1 /\ Byte(buf, off, 7) = 1

\* Mutant of SameInterface: the alternate settings of an interface are one.
SameNumber(buf, a, b) == Byte(buf, a, 2) = Byte(buf, b, 2)

SameInterface(buf, a, b) ==
    Byte(buf, a, 2) = Byte(buf, b, 2) /\ Byte(buf, a, 3) = Byte(buf, b, 3)

\* The endpoint is an interrupt endpoint, and the device sends.
InterruptIn(buf, off) == Byte(buf, off, 3) % 4 = 3 /\ Byte(buf, off, 2) >= 128

\* Pass 1: the last boot keyboard, or else the first interface.
choose_interface(buf) ==
    LET interfaces == SelectSeq(Walk(buf), LAMBDA off : Type(buf, off) = INTERFACE)
        keyboards == SelectSeq(interfaces, LAMBDA off : IsKeyboard(buf, off))
    IN IF keyboards # << >> THEN Last(keyboards)
       ELSE IF interfaces # << >> THEN Head(interfaces) ELSE -1

\* in_target_if_block at the k-th place of the walk: the last interface up to it
\* is the one that was chosen.
in_target_if_block(buf, places, chosen, k) ==
    LET interfaces == {j \in 1 .. k : Type(buf, places[j]) = INTERFACE}
    IN interfaces # {} /\ SameInterface(buf, places[Max(interfaces)], chosen)

\* Pass 2: the first endpoint of that interface that can be polled.
find_endpoint(buf, chosen) ==
    LET places == Walk(buf)
        endpoints == {k \in DOMAIN places : /\ Type(buf, places[k]) = ENDPOINT
                                            /\ InterruptIn(buf, places[k])
                                            /\ in_target_if_block(buf, places, chosen, k)}
    IN IF endpoints = {} THEN -1 ELSE places[Min(endpoints)]

\* What the function leaves in the device, or None when it returns 0.
usb_parse_config_blob_into_device(buf) ==
    LET chosen == choose_interface(buf)
        endpoint == find_endpoint(buf, chosen)
    IN IF Len(buf) < HeaderSize \/ chosen < 0 THEN None
       ELSE IF endpoint < 0 THEN None
       ELSE [found |-> TRUE, keyboard |-> IsKeyboard(buf, chosen),
             endpoint |-> Byte(buf, endpoint, 2), interval |-> Byte(buf, endpoint, 6)]

(***************************************************************************)
(* What the parse is for, said of a configuration as a list of interfaces, *)
(* each with its number, its setting and its endpoints; and the bytes such *)
(* a configuration is sent as (external).                                  *)
(***************************************************************************)
EndpointBytes(e) == <<7, ENDPOINT, e.address, e.attributes, 8, 0, e.interval>>
InterfaceBytes(i) ==
    <<9, INTERFACE, i.number, i.setting, Len(i.endpoints), 3, 1, i.protocol, 0>>
    \o FlattenSeq([k \in DOMAIN i.endpoints |-> EndpointBytes(i.endpoints[k])])
Bytes(config) ==
    <<9, 2, 0, 0, Len(config), 1, 0, 160, 50>>
    \o FlattenSeq([k \in DOMAIN config |-> InterfaceBytes(config[k])])

Polls(e) == e.attributes = 3 /\ e.address >= 128

\* A boot keyboard is preferred, the last if there are several; of the interface
\* that is chosen, the first endpoint that can be polled is taken.
Meant(config) ==
    LET keyboards == {k \in DOMAIN config : config[k].protocol = 1}
        chosen == IF keyboards = {} THEN 1
                  ELSE CHOOSE k \in keyboards : \A j \in keyboards : j <= k
        polled == {k \in DOMAIN config[chosen].endpoints : Polls(config[chosen].endpoints[k])}
        first == config[chosen].endpoints[CHOOSE k \in polled : \A j \in polled : k <= j]
    IN IF config = << >> THEN None
       ELSE IF polled = {} THEN None
       ELSE [found |-> TRUE, keyboard |-> keyboards # {}, endpoint |-> first.address,
             interval |-> first.interval]
=============================================================================
