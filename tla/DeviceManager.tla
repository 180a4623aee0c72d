--------------------------- MODULE DeviceManager ---------------------------
(***************************************************************************)
(* The drives, their images and the files behind them, as the device       *)
(* manager of atariserver keeps them (tools/DeviceManager.cpp).            *)
(*                                                                         *)
(* Its methods are called from three sides: by the keys of the user        *)
(* interface, by the remote control commands of the Atari, and, through    *)
(* the handlers, by the disk commands of the Atari.  So each method is an  *)
(* operator from a state of the manager, and what the file system and the  *)
(* driver make of the call, to the new state and the result the method     *)
(* returns.  Frontend has the callers.                                     *)
(***************************************************************************)
EXTENDS Integers, FiniteSets

CONSTANTS
    Drives,      \* the drive numbers, 1 .. n
    AtrFiles,    \* file names of a type AtrMemoryImage knows
    AtpFiles,    \* file names of type ATP
    Programs,    \* existing files of no known type
    Dirs,        \* directories a virtual drive can show
    AtrOf(_),    \* the name of the image made of a program
    Divisors     \* pokey divisors the user tries

ASSUME ManagerAssumption ==
    /\ Drives \subseteq Nat \ {0} /\ \E n \in Drives : Drives = 1 .. n
    /\ Programs \cap (AtrFiles \cup AtpFiles) = {}

Files    == AtrFiles \cup AtpFiles
Contents == {"blank", "a", "b"}        \* what tells two images apart
Missing  == "missing"
Damaged  == "damaged"
NoName   == "no name"
NoDrive  == 0
Empty    == [kind |-> "none"]          \* a slot without a handler
NotSet   == [hs |-> FALSE, divisor |-> CHOOSE n \in Divisors : TRUE, xf551 |-> FALSE, strict |-> FALSE]

VARIABLE mgr
\* slot[d] is the handler of drive d with its image, file[f] what is on the
\* host's disk, opt what new handlers are given.  held is the drive whose
\* image the user interface keeps a reference to.  ioctlFailed tells whether
\* an ioctl of the driver has failed, lost whether a file was not closed well.

Image(kind, name, content, virtual) ==
    [kind |-> kind, name |-> name, content |-> content, virtual |-> virtual,
     saved |-> content,                \* content at the last load, save or creation
     changed |-> FALSE, wp |-> FALSE, active |-> TRUE, opt |-> NotSet]

DriveInUse(s, d) == s.slot[d] # Empty
Done(s, ok)      == [mgr |-> s, ok |-> ok]

\* Another handler in slot d; a reference to the old image stays behind.
Register(s, d, h) == [s EXCEPT !.slot[d] = h, !.held = IF @ = d THEN NoDrive ELSE @]

\* An ATP handler keeps options of its own.
WithOptions(s, h) == IF h.kind = "atr" THEN [h EXCEPT !.opt = s.opt] ELSE h

Unsaved(h) == h # Empty /\ ~h.virtual /\ h.changed
DriveIsChanged(s, D) == \E d \in D : Unsaved(s.slot[d])
DriveIsVirtualImage(s, d) == DriveInUse(s, d) /\ s.slot[d].virtual
-----------------------------------------------------------------------------
(* Loading, creating and unloading.                                        *)

UnloadDiskImage(s, D) ==
    Done([s EXCEPT !.slot = [d \in Drives |-> IF d \in D THEN Empty ELSE @[d]],
                   !.held = IF @ \in D THEN NoDrive ELSE @], TRUE)

\* A file of unknown type is put on a fresh disk, unchanged, under a name
\* with ".atr" behind that need not exist.
ImageOf(s, f) ==
    IF f \in Programs THEN Image("atr", AtrOf(f), "a", FALSE)
    ELSE IF s.file[f] \notin Contents THEN Empty
    ELSE Image(IF f \in AtpFiles THEN "atp" ELSE "atr", f, s.file[f], FALSE)

\* The new image is read before the old one goes.
LoadDiskImage(s, d, f, forceUnload) ==
    LET new == ImageOf(s, f)
    IN  IF (DriveInUse(s, d) /\ ~forceUnload) \/ new = Empty
        THEN Done(s, FALSE)
        ELSE Done(Register(s, d, WithOptions(s, new)), TRUE)

CreateAtrMemoryImage_NoOptions(s, d, forceUnload) ==
    IF DriveInUse(s, d) /\ ~forceUnload
    THEN Done(s, FALSE)
    ELSE Done(Register(s, d, Image("atr", NoName, "blank", FALSE)), TRUE)

CreateAtrMemoryImage(s, d, forceUnload) ==
    IF DriveInUse(s, d) /\ ~forceUnload
    THEN Done(s, FALSE)
    ELSE Done(Register(s, d, WithOptions(s, Image("atr", NoName, "blank", FALSE))), TRUE)

\* The empty image is in the slot before the directory is put on it.
CreateVirtualDrive(s, d, dir, forceUnload, filled) ==
    LET made == CreateAtrMemoryImage(s, d, forceUnload)
    IN  IF ~made.ok THEN made
        ELSE IF ~filled THEN Done(UnloadDiskImage(made.mgr, {d}).mgr, FALSE)
        ELSE Done([made.mgr EXCEPT !.slot[d].virtual = TRUE, !.slot[d].name = dir,
                                   !.slot[d].content = "a"], TRUE)

\* A drive with changes is left alone.  The others are unloaded first, and
\* an image from a file keeps activity and write protection if it returns.
Reloads_EvenChanged(h) == h # Empty /\ h.name # NoName
Reloads(h) == h # Empty /\ (h.virtual \/ (h.name # NoName /\ ~h.changed))

ReloadDrive(s, D, filled) ==
    LET again == {d \in D : Reloads(s.slot[d])}
        gone  == UnloadDiskImage(s, again).mgr
        one   == [d \in again |->
                     LET h == s.slot[d]
                     IN  IF h.virtual THEN CreateVirtualDrive(gone, d, h.name, FALSE, d \in filled)
                         ELSE LoadDiskImage(gone, d, h.name, FALSE)]
        kept(d) == LET h == one[d].mgr.slot[d]
                   IN  IF one[d].ok /\ ~h.virtual
                       THEN [h EXCEPT !.active = s.slot[d].active, !.wp = s.slot[d].wp] ELSE h
    IN  \* each virtual drive overwrites the result of the drives before it
        Done([gone EXCEPT !.slot = [d \in Drives |-> IF d \in again THEN kept(d) ELSE @[d]]],
             \A d \in again : one[d].ok \/ \E e \in again : e > d /\ s.slot[e].virtual /\ one[e].ok)
-----------------------------------------------------------------------------
(* Saving.  A write works, fails, or only seems to work: the writers close  *)
(* the file without looking at the result.                                  *)

Outcomes == {"written", "failed", "lost"}

\* WriteImageToFile.  After a failure the file is removed; an ATP file stays
\* as far as it was written.
Save_Optimistic(s, d, f, outcome) ==
    [s EXCEPT !.file[f] = CASE outcome = "written" -> s.slot[d].content
                            [] outcome = "lost"    -> Damaged
                            [] OTHER -> IF f \in AtpFiles THEN Damaged ELSE Missing,
              !.slot[d].changed = FALSE,
              !.slot[d].saved   = IF outcome = "failed" THEN @ ELSE s.slot[d].content,
              !.lost            = @ \/ outcome = "lost"]

Save(s, d, f, outcome) ==
    [s EXCEPT !.file[f] = CASE outcome = "written" -> s.slot[d].content
                            [] outcome = "lost"    -> Damaged
                            [] OTHER -> IF f \in AtpFiles THEN Damaged ELSE Missing,
              !.slot[d].changed = @ /\ outcome = "failed",
              !.slot[d].saved   = IF outcome = "failed" THEN @ ELSE s.slot[d].content,
              !.lost            = @ \/ outcome = "lost"]

CanWriteBack(s, d) == DriveInUse(s, d) /\ ~s.slot[d].virtual /\ s.slot[d].name # NoName

WriteBackImage(s, d, outcome) ==
    IF ~CanWriteBack(s, d) THEN Done(s, FALSE)
    ELSE Done(Save(s, d, s.slot[d].name, outcome), outcome # "failed")

\* All changed drives, in order; outcome[d] is what becomes of drive d.
WriteBackImagesIfChanged(s, outcome) ==
    LET write == [t \in Drives \cup {0} |-> {d \in Drives : d <= t /\ CanWriteBack(s, d) /\ s.slot[d].changed}]
        upto[t \in Drives \cup {0}] ==
            IF t = 0 THEN s
            ELSE IF t \in write[t] THEN Save(upto[t - 1], t, s.slot[t].name, outcome[t])
            ELSE upto[t - 1]
        last == CHOOSE t \in Drives : \A d \in Drives : d <= t
    IN  Done(upto[last], \A d \in write[last] : outcome[d] # "failed")

\* An ATR image written under an ATP name is converted, and the drive loads
\* the new file; an ATP image cannot be converted back.
WriteDiskImage(s, d, f, outcome) ==
    LET h == s.slot[d]
        t == Save(s, d, f, outcome)
        named == IF h.virtual THEN t ELSE [t EXCEPT !.slot[d].name = f]
    IN  IF h = Empty \/ (h.kind = "atp" /\ f \notin AtpFiles) THEN Done(s, FALSE)
        ELSE IF outcome = "failed" THEN Done(t, FALSE)
        ELSE IF f \in AtpFiles /\ h.kind # "atp"
        THEN LoadDiskImage(UnloadDiskImage(t, {d}).mgr, d, f, FALSE)
        ELSE Done(named, TRUE)
-----------------------------------------------------------------------------
(* The rest.                                                               *)

Change(s, D, field, on) ==
    [s EXCEPT !.slot = [d \in Drives |-> IF d \in D /\ DriveInUse(s, d) THEN [@[d] EXCEPT ![field] = on] ELSE @[d]]]

\* For one drive it must be in use, for all of them any may be empty.
SetDeviceActive(s, D, on) ==
    Done(Change(s, D, "active", on), Cardinality(D) > 1 \/ \E d \in D : DriveInUse(s, d))
SetWriteProtectImage(s, D, on) ==
    Done(Change(s, D, "wp", on), Cardinality(D) > 1 \/ \E d \in D : DriveInUse(s, d))

ExchangeDrives(s, d, e) ==
    IF d = e \/ {d, e} \ Drives # {} THEN Done(s, FALSE)
    ELSE Done([s EXCEPT !.slot[d] = s.slot[e], !.slot[e] = s.slot[d],
                        !.held = IF @ = d THEN e ELSE IF @ = e THEN d ELSE @], TRUE)

\* The printer: its device has a slot of its own.
NoPrinter == [conv |-> "none", active |-> FALSE]
PrinterInstalled(s) == s.printer # NoPrinter

InstallPrinterHandler(s, conv, opened) ==
    IF PrinterInstalled(s) \/ ~opened THEN Done(s, FALSE)
    ELSE Done([s EXCEPT !.printer = [conv |-> conv, active |-> TRUE]], TRUE)
RemovePrinterHandler(s) ==
    IF PrinterInstalled(s) THEN Done([s EXCEPT !.printer = NoPrinter], TRUE) ELSE Done(s, FALSE)
ActivatePrinter(s, on) == Done([s EXCEPT !.printer.active = on], TRUE)
\* (what is flushed is the subject of Printer)
FlushPrinterData(s) == Done(s, PrinterInstalled(s))

\* The timing is the driver's alone.
SetSioTiming(s, ioctls) == Done(s, ioctls)

\* The options go to every handler there is.
Distribute(s, opt) ==
    [s EXCEPT !.opt  = opt,
              !.slot = [d \in Drives |-> IF @[d].kind = "atr" THEN [@[d] EXCEPT !.opt = opt] ELSE @[d]]]

\* If the driver does not take the rate, the mode stays as it was; the
\* divisor has changed already, but only for the handlers to come.
SetHighSpeedMode(s, on, ioctls) ==
    IF ioctls THEN Done(Distribute(s, [s.opt EXCEPT !.hs = on]), TRUE)
    ELSE Done([s EXCEPT !.ioctlFailed = TRUE], FALSE)
SetHighSpeedParameters(s, divisor, ioctls) ==
    SetHighSpeedMode([s EXCEPT !.opt.divisor = divisor], s.opt.hs, ioctls)
EnableXF551Mode(s, on)            == Done(Distribute(s, [s.opt EXCEPT !.xf551 = on]), TRUE)
EnableStrictFormatChecking(s, on) == Done(Distribute(s, [s.opt EXCEPT !.strict = on]), TRUE)
=============================================================================
