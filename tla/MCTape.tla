---- MODULE MCTape ----
\* Four tapes; one is cut off, one has a rate of 0 for its second block.
EXTENDS TapeDeck
Chunk(type, aux, len) == [type |-> type, aux |-> aux, len |-> len]
MCTapeFiles ==
    {<<Chunk("FUJI", 0, 0), Chunk("data", 3, 3), Chunk("baud", 800, 0), Chunk("data", 9, 3), Chunk("fsk", 1, 5)>>,
     <<Chunk("FUJI", 0, 0), Chunk("data", 3, 0), Chunk("????", 3, 0), Chunk("fsk", 9, 2), Chunk("data", 9, 2)>>,
     <<Chunk("FUJI", 0, 0), Chunk("data", 3, 2), Chunk("short", 0, 0)>>,
     <<Chunk("FUJI", 0, 0), Chunk("data", 3, 2), Chunk("baud", 0, 0), Chunk("data", 9, 1), Chunk("baud", 800, 0), Chunk("data", 3, 1)>>}
====
