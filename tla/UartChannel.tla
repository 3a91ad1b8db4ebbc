---------------------------- MODULE UartChannel ----------------------------
(***************************************************************************)
(* What one VirtRTLab UART promises the two programs it connects: the AUT  *)
(* (the application under test, which writes /dev/ttyVIRTLABx) and the     *)
(* simulator (which reads /dev/virtrtlab-wireN).  The AUT -> simulator     *)
(* direction is a lossy FIFO channel: bytes may be lost, at any moment and *)
(* for any of the reasons the fault engine, the bus and the two open/close *)
(* life cycles have, but a byte is never invented, never duplicated and    *)
(* never overtaken.                                                        *)
(*                                                                         *)
(* Bytes are identified by the order in which the driver accepted them:    *)
(* byte n is the n-th one that write() copied into tx_fifo.                *)
(***************************************************************************)
EXTENDS Naturals, Sequences

VARIABLES
    sent,     \* number of bytes write() has accepted so far
    transit,  \* the accepted bytes neither lost nor read yet
    recv      \* the bytes read(wire_fd) has returned, in order

channelVars == <<sent, transit, recv>>

ChannelInit ==
    /\ sent = 0
    /\ transit = {}
    /\ recv = <<>>

\* One or more bytes are accepted from the AUT.
Send ==
    /\ sent' \in Nat
    /\ sent' > sent
    /\ transit' = transit \cup ((sent + 1)..sent')
    /\ UNCHANGED recv

\* Some bytes in transit are lost.
Lose ==
    /\ transit' \subseteq transit
    /\ UNCHANGED <<sent, recv>>

\* One read() returns bytes that are in transit; read after read, the
\* simulator sees the bytes in the order in which they were accepted.
Receive ==
    /\ Len(recv') > Len(recv)
    /\ recv' \in Seq(Nat)
    /\ \A i \in 1..Len(recv) : recv'[i] = recv[i]
    /\ \A i \in (Len(recv) + 1)..Len(recv') :
          /\ recv'[i] \in transit
          /\ \A j \in 1..(i - 1) : recv'[j] < recv'[i]
    /\ transit' = transit \ {recv'[i] : i \in (Len(recv) + 1)..Len(recv')}
    /\ UNCHANGED sent

ChannelNext == Send \/ Lose \/ Receive

ChannelSpec == ChannelInit /\ [][ChannelNext]_channelVars

=============================================================================
