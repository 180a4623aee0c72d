---------------------------- MODULE RemoteControl ----------------------------
(***************************************************************************)
(* The remote control device, $61 (tools/RemoteControlHandler.cpp): the    *)
(* commands, each with what it makes of the device manager.  c holds the   *)
(* arguments as the command's parser leaves them; NoDrive is a character   *)
(* that is no drive.  fate is what becomes of the access to a directory,   *)
(* a file or the driver.                                                   *)
(***************************************************************************)
EXTENDS DeviceManager, Sequences

Printer == -1
Usage(s) == Done(s, FALSE)
Valid(d) == d \in Drives

\* "lo" and "cr": what is in the drive goes without a question.
Lo(s, c) == IF Valid(c.d) THEN LoadDiskImage(s, c.d, c.file, TRUE) ELSE Usage(s)
Cr(s, c) == IF Valid(c.d) /\ c.size # "bad" THEN CreateAtrMemoryImage(s, c.d, TRUE) ELSE Usage(s)

\* A number of sectors passes "force" where CreateVirtualDrive has the format.
Lv(s, c, fate) ==
    IF Valid(c.d) /\ c.size # "bad"
    THEN CreateVirtualDrive(s, c.d, c.dir, c.size = "preset", fate = "written") ELSE Usage(s)

Rd(s, c, fate) ==
    IF c.drives = {NoDrive} THEN Usage(s)
    ELSE ReloadDrive(s, c.drives, IF fate = "written" THEN Drives ELSE {})

Un(s, c) == IF c.drives = {NoDrive} THEN Usage(s) ELSE Done(UnloadDiskImage(s, c.drives).mgr, TRUE)

Wr(s, c, fate) ==
    IF ~Valid(c.d) THEN Usage(s)
    ELSE IF c.file = NoName THEN WriteBackImage(s, c.d, fate)
    ELSE WriteDiskImage(s, c.d, c.file, fate)

\* "wc" and "xc" report success, whatever came of it.
Wc(s, fate) == Done(WriteBackImagesIfChanged(s, [d \in Drives |-> fate]).mgr, TRUE)
Xc(s, c) == IF Valid(c.d) /\ Valid(c.e) THEN Done(ExchangeDrives(s, c.d, c.e).mgr, TRUE) ELSE Usage(s)

\* The working directory is of no account here; a failure is not reported.
Cd(s) == Done(s, TRUE)
Ls(s) == Done(s, TRUE)
St(s) == Done(s, TRUE)

Wp(s, c) == IF Valid(c.d) /\ DriveInUse(s, c.d) THEN SetWriteProtectImage(s, {c.d}, c.on) ELSE Usage(s)

Ad(s, c) ==
    IF c.drives = {NoDrive} THEN Usage(s)
    ELSE IF c.drives = {Printer}
         THEN IF PrinterInstalled(s) THEN ActivatePrinter(s, c.on) ELSE Usage(s)
    ELSE IF \A d \in c.drives : c.drives = Drives \/ DriveInUse(s, d)
         THEN SetDeviceActive(s, c.drives, c.on) ELSE Usage(s)

Sp(s, c, fate) == SetHighSpeedMode(s, c.on, fate = "written")
Xf(s, c) == EnableXF551Mode(s, c.on)

Pr(s, c, fate) ==
    CASE c.on = "0" -> RemovePrinterHandler(s)
      [] c.on = "1" -> InstallPrinterHandler(s, c.eol, fate = "written")
      [] c.on = "f" -> FlushPrinterData(s)
      [] OTHER -> Usage(s)

\* The server waits for the command; how it ended is in the result only.
Sh(s, fate) == Done(s, fate # "failed")

\* One command.
ProcessCommand(s, c, fate) ==
    CASE c.op = "lo" -> Lo(s, c)
      [] c.op = "lv" -> Lv(s, c, fate)
      [] c.op = "rd" -> Rd(s, c, fate)
      [] c.op = "cr" -> Cr(s, c)
      [] c.op = "un" -> Un(s, c)
      [] c.op = "wr" -> Wr(s, c, fate)
      [] c.op = "wc" -> Wc(s, fate)
      [] c.op = "xc" -> Xc(s, c)
      [] c.op = "cd" -> Cd(s)
      [] c.op = "ls" -> Ls(s)
      [] c.op = "st" -> St(s)
      [] c.op = "wp" -> Wp(s, c)
      [] c.op = "ad" -> Ad(s, c)
      [] c.op = "sp" -> Sp(s, c, fate)
      [] c.op = "xf" -> Xf(s, c)
      [] c.op = "pr" -> Pr(s, c, fate)
      [] c.op = "sh" -> Sh(s, fate)
      [] c.op \in {"pl", "?"} -> Done(s, TRUE)
      [] OTHER -> Usage(s)

\* The commands of a frame, up to the first that fails.
ProcessMultipleCommands(s, cmds, fate) ==
    LET after[n \in 0 .. Len(cmds)] ==
            IF n = 0 THEN Done(s, TRUE)
            ELSE IF after[n - 1].ok THEN ProcessCommand(after[n - 1].mgr, cmds[n], fate)
            ELSE after[n - 1]
    IN  after[Len(cmds)]

\* The frames of the device.  The status of an execute command stays "error"
\* until its COMPLETE is out: the ACK or the data may fail before anything is
\* done.  replied tells which call of the wrapper fails.
Execute(s, cmds, fate, replied) ==
    IF replied \in {"ack fails", "data fails"}
    THEN [mgr |-> s, status |-> "error"]
    ELSE LET r == ProcessMultipleCommands(s, cmds, fate)
         IN  [mgr |-> r.mgr, status |-> IF r.ok /\ replied = "all" THEN "ok" ELSE "error"]

\* The status and the length of the result, a sector of the result if there is
\* one, the time; anything else is refused.
GetStatus        == "data"
ReadResult(some) == IF some THEN "data" ELSE "nak"
GetTime          == "data"
Refuse           == "nak"
=============================================================================
