------------------------------ MODULE MCDevices ------------------------------
\* The devices of the server.  An ATR drive with single, enhanced and double density
\* and two sectors that tell them apart; a 1050 with two tracks of two or three
\* sectors, on one disk two sectors of the same number, a bad one and a track of
\* the other density; the tape deck with four tapes; the printer with two lines
\* and a child that answers; images of all sizes and their files.  One of the five
\* runs, the others stand still.
EXTENDS DiskDrive, AtpDrive, MCTape, Printer, ImageFiles

VARIABLE part

Block(trk, spt, sides, seclen) == [tracks |-> trk, spt |-> spt, sides |-> sides, seclen |-> seclen]

MCProbes  == {1, 721}
MCBlocks  == {Block(40, 18, 2, 256), Block(0, 18, 1, 128), Block(255, 18, 15, 128)}
MCPresets == {"90k", "130k"}

MCLayout == [FM |-> <<0, 2>>, MFM |-> <<0, 3, 1>>]
MCDisks ==
    {InitBlank("FM"),
     [t \in 0 .. 1 |-> IF t = 0
         THEN [density |-> "FM", sectors |->
                 <<Sector(1, 1, 0, TRUE), Sector(2, 2, 1, FALSE), Sector(1, 4, 1, TRUE)>>]
         ELSE [density |-> "MFM", sectors |-> <<Sector(3, 0, 1, TRUE)>>]]}

MCPrintLines == {<<"a", "eol">>, <<"a", "b", "c">>}
MCCounts ==
    (0 .. 6) \cup {719, 720, 721, 1040, 1439, 1440, 2880, 5760, 8190, 32767, 32768, 65535, 65536}

MCSays == {<<>>, <<"x", "y", "z", NL, "w">>}

devicevars == <<part, diskvars, atpvars, tapevars, printvars, geometry>>

DevicesInit ==
    /\ part \in {"disk", "atp", "tape", "printer", "files"}
    /\ DiskInit /\ AtpInit /\ TapeInit /\ PrinterInit /\ FilesInit
    /\ part # "disk" => image.cfg.format = "90k" /\ ~virtual /\ opts = [hs |-> FALSE, xf551 |-> FALSE, strict |-> FALSE]
    /\ part # "atp" => tracks = InitBlank("FM")
    /\ part # "tape" => kernel
    /\ part # "printer" => dest = "file" /\ conv = "raw"

DevicesNext ==
    /\ UNCHANGED part
    /\ \/ part = "disk" /\ DiskNext /\ UNCHANGED <<atpvars, tapevars, printvars, geometry>>
       \/ part = "atp" /\ AtpNext /\ UNCHANGED <<diskvars, tapevars, printvars, geometry>>
       \/ part = "tape" /\ TapeNext /\ UNCHANGED <<diskvars, atpvars, printvars, geometry>>
       \/ part = "printer" /\ PrinterNext /\ UNCHANGED <<diskvars, atpvars, tapevars, geometry>>
       \/ part = "files" /\ FilesNext /\ UNCHANGED <<diskvars, atpvars, tapevars, printvars>>

\* The fairness of the tape deck and of the printer, when they run.
DevicesSpec ==
    /\ DevicesInit /\ [][DevicesNext]_devicevars
    /\ WF_devicevars(part = "tape" /\ GapEnds /\ UNCHANGED <<part, diskvars, atpvars, printvars, geometry>>)
    /\ WF_devicevars(part = "tape" /\ Playing /\ UNCHANGED <<part, diskvars, atpvars, printvars, geometry>>)
    /\ WF_devicevars(part = "printer" /\ Server /\ UNCHANGED <<part, diskvars, atpvars, tapevars, geometry>>)
    /\ WF_devicevars(part = "printer" /\ Child /\ UNCHANGED <<part, diskvars, atpvars, tapevars, geometry>>)
=============================================================================
