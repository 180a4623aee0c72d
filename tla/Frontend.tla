------------------------------ MODULE Frontend ------------------------------
(***************************************************************************)
(* The three callers of the device manager in atariserver: the keys of the *)
(* user interface (tools/CursesFrontend.cpp, dispatched in atariserver.cpp)*)
(* the remote control commands of the Atari (RemoteControlHandler.cpp) and *)
(* its disk commands, here only what they do to an image.                  *)
(*                                                                         *)
(* There is one thread.  But wherever the user interface waits for a key,  *)
(* it serves the Atari (GetCh calls DoServing), so that every question put *)
(* to the user is a point where commands of the Atari come in between.     *)
(***************************************************************************)
EXTENDS RemoteControl

CONSTANTS
    RemoteCommands,     \* sequences of commands a remote frame holds
    MaxEvents           \* bound on what happens in a run

ASSUME FrontendAssumption == \A cmds \in RemoteCommands : Len(cmds) \in Nat

VARIABLES ui, did, remote, events
\* ui is the question the user interface waits on: what it asks and for which
\* drives.  did names the call that made the last step.  remote is the status
\* of the remote control device.

frontvars == <<mgr, ui, did, remote, events>>

Ready      == [ask |-> "key"]
Ask(q, D)  == [ask |-> q, drives |-> D]
AllOrOne   == {{d} : d \in Drives} \cup {Drives}
\* What becomes of the calls' access to files, directories and the driver.
AllFates   == [Drives -> Outcomes]

Event(name) == events < MaxEvents /\ events' = events + 1 /\ did' = name
Call(name, r) == Event(name) /\ mgr' = r.mgr
Stay        == UNCHANGED <<mgr, remote>>
-----------------------------------------------------------------------------
(* Remote control.                                                         *)

RemoteFrame ==
    /\ UNCHANGED ui
    /\ \E cmds \in RemoteCommands, fate \in Outcomes,
          replied \in {"ack fails", "data fails", "complete fails", "all"} :
         LET r == Execute(mgr, cmds, fate, replied)
         IN  Call("remote", r) /\ remote' = r.status

\* What is asked without an effect on the server.
RemoteAsks ==
    \E answer \in {GetStatus, GetTime, Refuse} \cup {ReadResult(some) : some \in BOOLEAN} :
        Call(answer, Done(mgr, TRUE)) /\ UNCHANGED <<ui, remote>>
-----------------------------------------------------------------------------
(* The Atari's disk commands: a sector is written or the disk formatted.   *)

AtariWrites ==
    \E d \in Drives, c \in Contents :
        /\ DriveInUse(mgr, d) /\ mgr.slot[d].active /\ ~mgr.slot[d].wp
        /\ Call("atari", Done([mgr EXCEPT !.slot[d].content = c, !.slot[d].changed = TRUE], TRUE))
        /\ UNCHANGED <<ui, remote>>
-----------------------------------------------------------------------------
(* The keys.  A key that needs no further answer than the drive is one     *)
(* step: the drive number is checked and used without waiting in between.  *)

Key(name, r) == ui = Ready /\ Call(name, r) /\ UNCHANGED <<ui, remote>>
AnyInUse(D)  == D = Drives \/ \E d \in D : DriveInUse(mgr, d)

ProcessWriteProtectDrive ==
    \E D \in AllOrOne, on \in BOOLEAN : AnyInUse(D) /\ Key("protect", SetWriteProtectImage(mgr, D, on))
ProcessActivateDrive ==
    \E D \in AllOrOne, on \in BOOLEAN : AnyInUse(D) /\ Key("activate", SetDeviceActive(mgr, D, on))
ProcessReloadDrive ==
    \E D \in AllOrOne, filled \in SUBSET Drives : AnyInUse(D) /\ Key("reload", ReloadDrive(mgr, D, filled))
ProcessSetHighSpeed ==
    \E on, ioctls \in BOOLEAN : Key("speed", SetHighSpeedMode(mgr, on, ioctls))
ProcessSetHighSpeedParameters ==
    \E n \in Divisors, ioctls \in BOOLEAN : Key("speed", SetHighSpeedParameters(mgr, n, ioctls))
ProcessSetXF551Mode ==
    \E on \in BOOLEAN : Key("xf551", EnableXF551Mode(mgr, on))
ProcessSetSioTiming ==
    \E ioctls \in BOOLEAN : Key("speed", SetSioTiming(mgr, ioctls))
ProcessActivatePrinter ==
    \E on \in BOOLEAN : PrinterInstalled(mgr) /\ Key("activate", ActivatePrinter(mgr, on))
ProcessUninstallPrinterHandler == PrinterInstalled(mgr) /\ Key("printer", RemovePrinterHandler(mgr))
ProcessFlushPrinterData == Key("printer", FlushPrinterData(mgr))
ProcessWriteAll ==
    \E outcome \in AllFates : Key("write", WriteBackImagesIfChanged(mgr, outcome))

\* A key that goes on to ask: the answer comes in a later step.
Question(cond, q, D) == ui = Ready /\ cond /\ Event("key") /\ ui' = Ask(q, D) /\ Stay
Answer(q, name, r) ==
    /\ ui.ask = q /\ ui' = Ready /\ UNCHANGED remote /\ Call(name, r)
Abort == ui # Ready /\ ui.ask # "quit" /\ ui' = Ready /\ Event("abort") /\ UNCHANGED remote
         /\ mgr' = [mgr EXCEPT !.held = NoDrive]

\* Load and create take a drive that is empty, or neither virtual nor changed.
Unloadable(d) == ~DriveInUse(mgr, d) \/ ~(DriveIsVirtualImage(mgr, d) \/ DriveIsChanged(mgr, {d}))

ProcessLoadDrive   == \E d \in Drives : Question(Unloadable(d), "load", {d})
ProcessCreateDrive == \E d \in Drives : Question(Unloadable(d), "create", {d})
ProcessWriteDrive  == \E d \in Drives : Question(DriveInUse(mgr, d), "write", {d})
ProcessExchangeDrives == \E d \in Drives : Question(TRUE, "exchange", {d})

LoadFile ==
    \E d \in Drives, f \in Files \cup Programs :
        ui = Ask("load", {d}) /\ Answer("load", "load", LoadDiskImage(mgr, d, f, TRUE))
\* The custom sizes pass their "force" where the format goes.
LoadVirtual ==
    \E d \in Drives, dir \in Dirs, preset, filled \in BOOLEAN :
        ui = Ask("load", {d}) /\ Answer("load", "load", CreateVirtualDrive(mgr, d, dir, preset, filled))
CreateSized ==
    \E d \in Drives : ui = Ask("create", {d}) /\ Answer("create", "create", CreateAtrMemoryImage(mgr, d, TRUE))
WriteFile ==
    \E d \in Drives, f \in Files, outcome \in Outcomes :
        ui = Ask("write", {d}) /\ Answer("write", "write", WriteDiskImage(mgr, d, f, outcome))
ExchangeWith ==
    \E d, e \in Drives : ui = Ask("exchange", {d}) /\ e # d /\ Answer("exchange", "exchange", ExchangeDrives(mgr, d, e))

\* The end of line is chosen by a key, then the file is asked for.
EOLOfKey == [r |-> "raw", l |-> "lf", c |-> "lf", b |-> "crlf"]

ProcessInstallPrinterHandler ==
    \E k \in DOMAIN EOLOfKey :
        /\ ui = Ready /\ ~PrinterInstalled(mgr)
        /\ Event("key") /\ ui' = [ask |-> "printer", key |-> k] /\ Stay
InstallPrinter ==
    /\ ui.ask = "printer"
    /\ \E opened \in BOOLEAN :
         Answer("printer", "install", InstallPrinterHandler(mgr, EOLOfKey[ui.key], opened))

\* Unload and quit ask only if something is changed when the key is pressed.
ProcessUnloadDrive ==
    \E D \in AllOrOne :
        \/ AnyInUse(D) /\ ~DriveIsChanged(mgr, D) /\ Key("unload", UnloadDiskImage(mgr, D))
        \/ Question(DriveIsChanged(mgr, D), "really unload", D)
ReallyUnload ==
    \E D \in AllOrOne :
        ui = Ask("really unload", D) /\ Answer("really unload", "confirmed", UnloadDiskImage(mgr, D))

ProcessQuit ==
    \/ Question(DriveIsChanged(mgr, Drives), "really quit", Drives)
    \/ /\ ui = Ready /\ ~DriveIsChanged(mgr, Drives)
       /\ ui' = Ask("quit", Drives) /\ Event("quit") /\ Stay
ReallyQuit ==
    ui.ask = "really quit" /\ ui' = Ask("quit", Drives) /\ Event("confirmed") /\ Stay

\* Formatting keeps a reference to the image while it asks for the format.
\* On a write protected image no sector is written, and yet it has changed.
ProcessFormatDrive ==
    \E d \in Drives :
        /\ ui = Ready /\ DriveInUse(mgr, d) /\ ~mgr.slot[d].virtual /\ mgr.slot[d].kind = "atr"
        /\ Event("key") /\ ui' = Ask("format", {d})
        /\ mgr' = [mgr EXCEPT !.held = d] /\ UNCHANGED remote
FormatAs ==
    LET d == mgr.held
    IN  Answer("format", "format",
          Done(IF d = NoDrive THEN mgr
               ELSE [mgr EXCEPT !.held = NoDrive, !.slot[d].changed = TRUE,
                                !.slot[d].content = IF mgr.slot[d].wp THEN @ ELSE "blank"], TRUE))
-----------------------------------------------------------------------------
\* The command line may have loaded an image into some of the drives.
FrontInit ==
  \E g \in AtrFiles, D \in SUBSET Drives :
    /\ \A p \in Programs : g # AtrOf(p)
    /\ mgr = [slot |-> [d \in Drives |-> IF d \notin D THEN Empty
                                      ELSE [Image("atr", g, "a", FALSE) EXCEPT !.opt.hs = TRUE]],
              file |-> [f \in Files |-> IF \E p \in Programs : f = AtrOf(p) THEN Missing ELSE "a"],
              opt  |-> [hs |-> TRUE, divisor |-> CHOOSE n \in Divisors : TRUE, xf551 |-> FALSE, strict |-> FALSE],
              printer |-> NoPrinter, held |-> NoDrive, ioctlFailed |-> FALSE, lost |-> FALSE]
    /\ ui = Ready /\ did = "start" /\ remote = "ok" /\ events = 0

FrontKeys ==
    \/ ProcessWriteProtectDrive \/ ProcessActivateDrive \/ ProcessReloadDrive \/ ProcessSetHighSpeed
    \/ ProcessSetHighSpeedParameters \/ ProcessSetXF551Mode \/ ProcessWriteAll \/ ProcessLoadDrive
    \/ ProcessCreateDrive \/ ProcessWriteDrive \/ ProcessExchangeDrives \/ ProcessUnloadDrive
    \/ ProcessQuit \/ ProcessFormatDrive \/ ProcessSetSioTiming \/ ProcessActivatePrinter
    \/ ProcessUninstallPrinterHandler \/ ProcessFlushPrinterData \/ ProcessInstallPrinterHandler
FrontAnswers ==
    \/ LoadFile \/ LoadVirtual \/ CreateSized \/ WriteFile \/ ExchangeWith \/ ReallyUnload \/ ReallyQuit
    \/ InstallPrinter \/ FormatAs \/ Abort
FrontNext == ui.ask # "quit" /\ (FrontKeys \/ FrontAnswers \/ RemoteFrame \/ RemoteAsks \/ AtariWrites)
FrontSpec == FrontInit /\ [][FrontNext]_frontvars
-----------------------------------------------------------------------------
(* Every drive works with the options the user sees, unless an ioctl of    *)
(* the driver failed half-way: they reach handlers that exist when they    *)
(* are set, and handlers made later by any of four methods.                *)
OptionsAgree ==
    \A d \in Drives : mgr.slot[d].kind = "atr" /\ ~mgr.ioctlFailed => mgr.slot[d].opt = mgr.opt

(* What counts as unchanged is what was loaded or last saved: a write that *)
(* failed, a format or a conversion never makes changes look saved.        *)
CleanIsSaved ==
    \A d \in Drives :
        LET h == mgr.slot[d] IN DriveInUse(mgr, d) /\ ~h.virtual /\ ~h.changed => h.content = h.saved

\* Changes that are in no slot any more, and in no file.
Discards ==
    \E d \in Drives :
        LET h == mgr.slot[d]
        IN  /\ Unsaved(h)
            /\ \A e \in Drives : mgr'.slot[e] = Empty \/ mgr'.slot[e].content # h.content
            /\ \A f \in Files : mgr'.file[f] # h.content

(* Only an order to do so makes changes disappear: reloading (all) drives, *)
(* exchanging, saving, converting to ATP and every option keep them, if a  *)
(* file that was closed is there.                                          *)
OthersKeepChanges ==
    [][did' \in {"reload", "exchange", "write", "protect", "activate", "speed", "xf551", "key", "abort", "unload"}
        => ~Discards \/ mgr'.lost]_frontvars

(* README:367: a drive with changes must be unloaded before another image  *)
(* can be loaded into it.  The code looks when the drive number is typed   *)
(* and loads when the file name is: the Atari may have written meanwhile.  *)
LoadSparesChanges == [][did' = "load" => ~Discards]_frontvars

(* tools/CursesFrontend.cpp:1425, "'r'=raw, 'l'=LF, 'c'=CR, 'b'=CR+LF": the  *)
(* printer converts the end of line as the key says that the user chose.     *)
PrinterAsChosen ==
    [][did' = "install" /\ PrinterInstalled(mgr') /\ ~PrinterInstalled(mgr)
        => mgr'.printer.conv = [r |-> "raw", l |-> "lf", c |-> "cr", b |-> "crlf"][ui.key]]_frontvars
=============================================================================
