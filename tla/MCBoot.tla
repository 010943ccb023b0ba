------------------------------- MODULE MCBoot -------------------------------
(* All the gates, two full buses, and memory maps with too few, with enough *)
(* and with scattered pages.                                                *)
EXTENDS Boot

Region(b, l, u) == [base |-> b, length |-> l, usable |-> u]

MCMaps ==
    {<<Region(2, 2, TRUE)>>,
     <<Region(0, 2, FALSE), Region(2, 4, TRUE)>>,
     <<Region(0, 2, TRUE), Region(4, 2, TRUE), Region(6, 2, FALSE), Region(8, 4, TRUE)>>}

MCResponses == SUBSET Requests
MCAttached == {{}, {<<0, 0>>}, {<<0, 1>>, <<0, 31>>, <<1, 0>>, <<1, 16>>}}

\* In the upper half, as the linker script puts the kernel.
Kernel == 31..63
MCIsr == [v \in 0..33 |->
             Kernel \union {17} \union {4 + b : b \in {c \in Low(6) : (v \div 2 ^ c) % 2 = 1}}]
MCTss == Kernel \union {18, 5}

\* Ids of a device, of none, and the address of a device.
MCJunk == {{}, Low(32), FormConfigAddress(TRUE, {}, {0}, {}, {})}
=============================================================================
