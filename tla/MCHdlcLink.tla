------------------------------ MODULE MCHdlcLink ------------------------------
(***************************************************************************)
(* Small instance of HdlcLink for TLC.                                     *)
(***************************************************************************)
EXTENDS HdlcLink

Station(role, len, upper, lower) ==
    [sender |-> role, addr_len |-> len, logical_device |-> upper, phy_address |-> lower,
     client_addr |-> 16]

\* Each addressing scheme and both directions.
MCStations == { Station(CLIENT, 4, 256 + 2, 17), Station(CLIENT, 1, 63, 0),
                Station(SERVER, 2, 1, 100) }

\* An empty field, and one that holds what begins and ends a frame.
MCPayloads == { << >>, << 126, 160, 3 >> }

\* The four options in another order and with the widths that the code reads; a field
\* without the last one; one with a value of zero.
MCOptionLists ==
    { << >>,
      << Option(5, 2, 1024), Option(6, 2, 512), Option(8, 4, 1), Option(7, 1, 3) >>,
      << Option(5, 1, 128), Option(6, 1, 128), Option(7, 1, 1) >>,
      << Option(5, 1, 0) >> }

\* A frame with any bytes between its length and its check sequence.
Frame(bytes) ==
    LET body == << FLAG, FORMAT, Len(bytes) + 4 >> \o bytes
    IN  body \o CheckSequence(Tail(body)) \o << FLAG >>

\* A server address of three bytes, as destination and as source; a control field of no
\* type; a wrong header check sequence; a DISC, which is accepted.
MCOthers ==
    { Frame(<< 2, 4, 35, 67, 147 >>), Frame(<< 67, 2, 4, 35, 115 >>), Frame(<< 67, 35, 25 >>),
      Frame(<< 67, 35, 52, 0, 0, 7 >>), Frame(<< 67, 35, 83 >>) }
=============================================================================
