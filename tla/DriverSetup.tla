----------------------------- MODULE DriverSetup -----------------------------
(***************************************************************************)
(* Loading and unloading the driver, opening and closing its devices       *)
(* (driver/atarisio.c).  For each device of the module's parameters the    *)
(* serial driver is made to let go of its port, the registers are claimed  *)
(* and tried and the device is registered; any of it may fail, and what    *)
(* was done must then be undone in the reverse order, or the machine has   *)
(* lost a serial port until it is booted again.  Devices can be opened as  *)
(* soon as they are registered, while others are still set up.             *)
(***************************************************************************)
EXTENDS Integers, Sequences

CONSTANTS
    Ports,          \* serial ports of the machine
    Params,         \* what the module may be loaded with: per device its port, if
                    \* any, and whether it is named or only its address is
    Fates           \* the sets of steps that fail on the way of a device

\* There are as many devices, ATARISIO_MAXDEV, however many are used.
ASSUME SetupAssumption ==
    /\ "none" \notin Ports
    /\ \A p \in Params : p \in Seq([port : Ports \cup {"none"}, named : BOOLEAN])
    /\ \A p, q \in Params : Len(p) = Len(q)

VARIABLES
    params,         \* port, io, mmio, irq
    kernel,         \* what the functions below work on, see NoDevices
    loading,        \* the device that is set up; 0 when the module is not there
    phase,          \* "init", "loaded" or "gone"
    files           \* devices that a process has open

setupvars == <<params, kernel, loading, phase, files>>

DeviceIds == DOMAIN params

\* Who has the registers of a port, if it is no device.
Nobody       == 0
SerialDriver == -1

\* The serial driver's idea of the type of a port, who has its registers, and
\* atarisio_devices; stuck are the ports that could not be opened again, free those
\* the user took from the serial driver before (with setserial).
NoDevices(free) ==
    [type |-> [p \in Ports |-> IF p \in free THEN "unknown" ELSE "16550"],
     owner |-> [p \in Ports |-> IF p \in free THEN Nobody ELSE SerialDriver], free |-> free,
     dev |-> [d \in DeviceIds |-> "none"], need |-> {}, registered |-> {}, stuck |-> {}]

Result(k, ok) == [k |-> k, ok |-> ok]
ThePort(d) == params[d].port

-----------------------------------------------------------------------------
AllocAtarisioDev(k, d, fail) ==
    IF "alloc" \in fail \/ k.dev[d] # "none" THEN Result(k, FALSE)
    ELSE Result([k EXCEPT !.dev[d] = "allocated"], TRUE)

FreeAtarisioDev(k, d) ==
    [k EXCEPT !.dev[d] = "none", !.need = @ \ {d}]

\* check_open_serial_port: no such port, one in use, or no operations.
CheckOpenSerialPort(step, fail) == step \notin fail

\* The type "unknown" makes the serial driver release the registers.
DisableSerialPort(k, d, fail) ==
    LET p == ThePort(d) IN
    IF ~CheckOpenSerialPort("disable", fail) \/ k.type[p] # "16550" \/ "set_serial" \in fail THEN Result(k, FALSE)
    ELSE Result([k EXCEPT !.type[p] = "unknown", !.owner[p] = Nobody, !.need = @ \cup {d}], TRUE)

\* Which the type that was read makes it claim again; it refuses if they are taken.
ReenableSerialPort(k, d, fail) ==
    LET p == ThePort(d) IN
    IF d \notin k.need THEN k
    ELSE IF ~CheckOpenSerialPort("reenable", fail) THEN [k EXCEPT !.stuck = @ \cup {p}]
    ELSE IF k.owner[p] # Nobody THEN k
    ELSE [k EXCEPT !.type[p] = "16550", !.owner[p] = SerialDriver]

RequestResources(k, d, fail) ==
    LET p == ThePort(d) IN
    IF k.owner[p] # Nobody \/ "ioremap" \in fail THEN Result(k, FALSE)
    ELSE Result([k EXCEPT !.owner[p] = d], TRUE)

ReleaseResources(k, d) == [k EXCEPT !.owner[ThePort(d)] = Nobody]

\* The scratch register tells whether there is a 16550.
CheckRegisterAtarisio(k, d, fail) ==
    LET r == RequestResources(k, d, fail) IN
    IF ~r.ok THEN Result(k, FALSE)
    ELSE IF fail \cap {"scratch", "misc"} # {} THEN Result(ReleaseResources(r.k, d), FALSE)
    ELSE Result([r.k EXCEPT !.registered = @ \cup {d}], TRUE)

\* One turn of the loop over the parameters.  Without a port the address is used
\* as it is given.
SetUp(k, d, fail) ==
    LET named    == params[d].named
        disabled == IF named THEN DisableSerialPort(k, d, fail) ELSE Result(k, TRUE)
        checked  == CheckRegisterAtarisio(disabled.k, d, fail)
    IN  IF ~disabled.ok THEN FreeAtarisioDev(disabled.k, d)
        ELSE IF checked.ok THEN checked.k
        ELSE FreeAtarisioDev(ReenableSerialPort(checked.k, d, fail), d)

CleanupOne_PortFirst(k, d, fail) ==
    IF k.dev[d] = "none" THEN k
    ELSE LET back == ReenableSerialPort([k EXCEPT !.registered = @ \ {d}], d, fail)
         IN  FreeAtarisioDev(ReleaseResources(back, d), d)

CleanupOne(k, d, fail) ==
    IF k.dev[d] = "none" THEN k
    ELSE LET gone == ReleaseResources([k EXCEPT !.registered = @ \ {d}], d)
         IN  FreeAtarisioDev(ReenableSerialPort(gone, d, fail), d)

AtarisioCleanupModule(k, fail) ==
    LET upto[d \in 0 .. Len(params)] == IF d = 0 THEN k ELSE CleanupOne(upto[d - 1], d, fail)
    IN  upto[Len(params)]

-----------------------------------------------------------------------------
\* A device for which there is no memory ends all; the others are left out.
AtarisioInitModule ==
    /\ phase = "init" /\ UNCHANGED <<params, files>>
    /\ IF loading \in DeviceIds /\ ThePort(loading) = "none"
       THEN loading' = loading + 1 /\ UNCHANGED <<kernel, phase>>
       ELSE IF loading \in DeviceIds
       THEN \E fail \in Fates :
              LET a == AllocAtarisioDev(kernel, loading, fail) IN
              IF ~a.ok
              THEN phase' = "gone" /\ kernel' = AtarisioCleanupModule(kernel, fail) /\ loading' = 0
              ELSE phase' = phase /\ kernel' = SetUp(a.k, loading, fail) /\ loading' = loading + 1
       ELSE /\ phase' = (IF kernel.registered = {} THEN "gone" ELSE "loaded")
            /\ loading' = 0 /\ UNCHANGED kernel

\* An open file keeps the module.
AtarisioExitModule ==
    /\ phase = "loaded" /\ files = {}
    /\ \E fail \in Fates : kernel' = AtarisioCleanupModule(kernel, fail)
    /\ phase' = "gone" /\ UNCHANGED <<params, loading, files>>

\* The device is set to its defaults before the interrupt is requested.
AtarisioOpen(d) ==
    /\ d \in kernel.registered /\ kernel.dev[d] = "allocated"
    /\ \E irq \in BOOLEAN :
          IF irq THEN kernel' = [kernel EXCEPT !.dev[d] = "busy"] /\ files' = files \cup {d}
          ELSE UNCHANGED <<kernel, files>>
    /\ UNCHANGED <<params, loading, phase>>

AtarisioRelease(d) ==
    /\ d \in files /\ files' = files \ {d}
    /\ kernel' = (IF kernel.dev[d] = "busy" THEN [kernel EXCEPT !.dev[d] = "allocated"] ELSE kernel)
    /\ UNCHANGED <<params, loading, phase>>

\* Another module, or the same again.
Insmod ==
    /\ phase = "gone" /\ kernel.stuck = {} /\ files = {}
    /\ params' \in Params /\ phase' = "init" /\ loading' = 1
    /\ UNCHANGED <<kernel, files>>

SetupInit ==
    /\ params \in Params /\ kernel \in {NoDevices(free) : free \in SUBSET Ports}
    /\ loading = 1 /\ phase = "init" /\ files = {}

SetupNext ==
    \/ AtarisioInitModule \/ AtarisioExitModule \/ Insmod
    \/ \E d \in DeviceIds : AtarisioOpen(d) \/ AtarisioRelease(d)

SetupSpec == SetupInit /\ [][SetupNext]_setupvars

-----------------------------------------------------------------------------
\* The machine gets its serial ports back: when the module is not there, whichever
\* step of loading or unloading it failed, no device is registered, no registers
\* are claimed in its name and the serial driver has every port again it had, but
\* for those that could not be opened to give them back.  Before that two devices
\* never drive one port, whatever the parameters were.
PortsReturned ==
    /\ phase = "gone" =>
        /\ kernel.registered = {} /\ kernel.need = {}
        /\ \A p \in Ports : IF p \in kernel.stuck \cup kernel.free THEN kernel.owner[p] = Nobody
                            ELSE kernel.type[p] = "16550" /\ kernel.owner[p] = SerialDriver
    /\ \A d \in kernel.registered :
        kernel.owner[ThePort(d)] = d /\ kernel.type[ThePort(d)] = "unknown"
=============================================================================
