-------------------------------- MODULE MCData --------------------------------
\* Instances for TLC of the parts that need no devices: a command frame, the copy
\* program, the file system and the directories of virtual drives, compressed
\* images, the serving loop, the loading of the driver, each of the two rings.  One
\* of them runs, the others stand still.
EXTENDS MCFrameQuality, Xfer, Dos2x, VirtualDrive, DcmCodec, SioService, DriverSetup, Rings

VARIABLE part

MCSectors == [f \in {"90k", "130k", "180k", "360k", "other"} |-> IF f \in {"90k", "180k"} THEN 2 ELSE IF f = "other" THEN 1 ELSE 3]

\* The disks of every DOS, and those between which the number of tables, the width
\* of the links or the place of the last sector changes.
MCGeometries ==
    LET G(n, len, format) == [numsec |-> n, seclen |-> len, format |-> format]
    IN  {G(720, 128, "dos2"), G(1040, 128, "dos2"), G(720, 256, "dos2"),
         G(720, 128, "mydos"), G(943, 128, "mydos"), G(944, 128, "mydos"),
         G(1968, 128, "mydos"), G(1023, 256, "mydos"), G(1440, 256, "mydos")}

\* The first entry is a file or a directory, one of the last sector is free or a
\* file, or one before it is a file that the host does not have; two names of the
\* host that differ in case only are one for the Atari.
MCListings ==
    LET L(st, name, h) == [st |-> st, name |-> name, host |-> h]
        Free == L("free", NoName, NoName)
        Shown(f, p, g) == [e \in Slots |-> IF e = 0 THEN f ELSE IF e = 6 THEN p ELSE IF e = 7 THEN g ELSE Free]
    IN  {Shown(L("closed", "A", Lower("A")), Free, L("closed", "B", Upper("B"))),
         Shown(L("closed", "A", Lower("A")), L("closed", "B", NoName), Free),
         Shown(L("dir", "A", Upper("A")), Free, Free)}

MCParams ==
    LET One == [port : Ports, named : BOOLEAN] \cup {[port |-> "none", named |-> FALSE]}
    IN  {<<a, b, c>> : a, b, c \in One}
MCFates ==
    {{}, {"alloc"}, {"disable"}, {"set_serial"}, {"ioremap"}, {"scratch"}, {"misc"},
     {"reenable"}, {"scratch", "reenable"}}

MCImageSectors == [n \in ImageSizes |-> IF n = Full THEN 3 ELSE 4]

\* Six cells, in which a command frame just fits.
MCBlocks == {<<255, 255, 1>>, <<1, 1, 1, 1>>}
MCFrames == {<<1, 0, 0, 0, 1>>}

framevars == vars
datavars == <<part, framevars, xfervars, dosvars, virtualvars, disk, servicevars, setupvars, ringvars>>

NoPorts == [d \in 1 .. 3 |-> [port |-> "none", named |-> FALSE]]

DataInit ==
    /\ part \in {"frame", "xfer", "dos", "virtual", "images", "service", "setup", "rx", "tx"}
    /\ Init /\ (part = "frame" \/ started)
    /\ IF part = "xfer" THEN XferInit
       ELSE /\ step = "done" /\ opt = [mode |-> "read"] /\ drive = 0 /\ probes = 0
            /\ img = Disk("90k", Zero) /\ sec = 0 /\ tries = 0 /\ faults = 0
            /\ bad = DOMAIN img.data /\ misled = TRUE
    /\ IF part = "dos" THEN DosInit
       ELSE /\ geo = [numsec |-> 720, seclen |-> 128, format |-> "dos2"] /\ vtoc = {} /\ vtoc2 = {}
            /\ low = 0 /\ high = 0 /\ links = <<>> /\ dir = <<>> /\ result = TRUE
    /\ VirtualInit /\ (part # "virtual" => entry[0].st = "dir")
    /\ CodecInit /\ (part = "images" \/ disk.size = Full)
    /\ IF part = "service" THEN ServiceInit
       ELSE /\ fHandlers = [d \in Devices |-> "none"] /\ frame = NoFrame /\ keys = FALSE
            /\ signals = {} /\ blocked = {} /\ resize = FALSE /\ where = "wait" /\ fLastResult = 0
    /\ IF part = "setup" THEN SetupInit
       ELSE /\ params = NoPorts /\ kernel = NoDevices({})
            /\ loading = 1 /\ phase = "init" /\ files = {}
    /\ RingsInit

DataNext ==
    /\ UNCHANGED part
    /\ \/ part = "frame" /\ Next
          /\ UNCHANGED <<xfervars, dosvars, virtualvars, disk, servicevars, setupvars, ringvars>>
       \/ part = "xfer" /\ XferNext
          /\ UNCHANGED <<framevars, dosvars, virtualvars, disk, servicevars, setupvars, ringvars>>
       \/ part = "dos" /\ DosNext
          /\ UNCHANGED <<framevars, xfervars, virtualvars, disk, servicevars, setupvars, ringvars>>
       \/ part = "virtual" /\ VirtualNext
          /\ UNCHANGED <<framevars, xfervars, dosvars, disk, servicevars, setupvars, ringvars>>
       \/ part = "images" /\ AddSector
          /\ UNCHANGED <<framevars, xfervars, dosvars, virtualvars, servicevars, setupvars, ringvars>>
       \/ part = "service" /\ ServiceNext
          /\ UNCHANGED <<framevars, xfervars, dosvars, virtualvars, disk, setupvars, ringvars>>
       \/ part = "setup" /\ SetupNext
          /\ UNCHANGED <<framevars, xfervars, dosvars, virtualvars, disk, servicevars, ringvars>>
       \/ /\ \/ part = "rx" /\ (Interrupt \/ Receiver \/ Reset) /\ UNCHANGED tx_buf
             \/ part = "tx" /\ (Interrupt \/ Sender \/ Reset) /\ UNCHANGED rx_buf
          /\ UNCHANGED <<framevars, xfervars, dosvars, virtualvars, disk, servicevars, setupvars>>

\* The fairness of the serving loop, when it runs.
Others == UNCHANGED <<part, framevars, xfervars, dosvars, virtualvars, disk, setupvars, ringvars>>
DataSpec ==
    /\ DataInit /\ [][DataNext]_datavars
    /\ WF_datavars(part = "service" /\ Loop /\ Others)
    /\ WF_datavars(part = "service" /\ Alarm /\ Others)

=============================================================================
