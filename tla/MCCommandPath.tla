--------------------------- MODULE MCCommandPath ---------------------------
EXTENDS CommandPath

\* Every one-byte command; both arguments at their ends and with bytes that differ.
MCSent ==
  [action : {"STOP_FIND", "FIND_ME", "INVENTORY"}, qty : {0}, tag_id : {0}]
    \cup [action : {"UPDATE_QTY"}, qty : {0, 258, 65535}, tag_id : {0}]
    \cup [action : {"BIND_TAG"}, qty : {0}, tag_id : {1, 256}]

\* The CCCD write, the empty frame, arguments cut short, an unknown command.
MCNoise == {<<1, 0>>, <<>>, <<16>>, <<32, 7>>, <<3>>, <<0, 0, 0>>}

MCBursts == {<<1>>, <<16, 0>>, <<16, 0, 5>>}

=============================================================================
