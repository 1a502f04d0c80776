------------------------------ MODULE MCZ85C30 ------------------------------
(* Small instances of the serial controller: a device and all the accesses *)
(* on channel A, and a channel B that raises transmit interrupts.          *)
EXTENDS Z85C30

ByChannel(a, b) == [c \in Channel |-> IF c = "A" THEN a ELSE b]

Wr1All == [extIe |-> TRUE, txIe |-> TRUE, rxMode |-> "all"]
Wr5On == [txEnable |-> TRUE, ctl |-> "on", sendBreak |-> "off"]
FromBrg == [txClock |-> "brg", rxClock |-> "brg"]

MCSetUp ==
    ByChannel({[wr1 |-> Wr1All, wr3 |-> [rxEnable |-> TRUE, auto |-> TRUE], wr5 |-> Wr5On,
                wr11 |-> FromBrg, wr14 |-> [brg |-> TRUE, loopback |-> FALSE], wr15 |-> {"dcd"}]},
              {[wr1 |-> [extIe |-> FALSE, txIe |-> TRUE, rxMode |-> "off"],
                wr3 |-> [rxEnable |-> FALSE, auto |-> FALSE], wr5 |-> Wr5On,
                wr11 |-> [txClock |-> "rtxc", rxClock |-> "rtxc"],
                wr14 |-> [brg |-> FALSE, loopback |-> FALSE], wr15 |-> {}]})

MCWr0 == ByChannel(Wr0Value, {})
MCWr1 == ByChannel({[extIe |-> TRUE, txIe |-> FALSE, rxMode |-> "first"]}, {})
MCWr3 == ByChannel({[rxEnable |-> TRUE, auto |-> FALSE]}, {})
MCWr5 == ByChannel({Wr5On}, {})
MCWr9 ==
    {[mie |-> TRUE, softIntack |-> TRUE, reset |-> "none"],
     [mie |-> TRUE, softIntack |-> FALSE, reset |-> "A"],
     [mie |-> FALSE, softIntack |-> FALSE, reset |-> "hardware"]}
MCWr11 == ByChannel({FromBrg}, {})
MCWr14 == ByChannel({[brg |-> b, loopback |-> ~b] : b \in BOOLEAN}, {})
MCWr15 == ByChannel({{"dcd", "zc"}}, {})
MCMessage ==
    ByChannel({[type |-> "DATA"], [type |-> "STATUS", dcd |-> TRUE, cts |-> TRUE],
               [type |-> "STATUS", dcd |-> FALSE, cts |-> FALSE], [type |-> "BREAK", on |-> TRUE],
               [type |-> "BREAK", on |-> FALSE]}, {})
=============================================================================
