---------------------------- MODULE SioPeripheral ----------------------------
(***************************************************************************)
(* A disk drive and the line to it, as the 1050-2-PC master of the driver  *)
(* takes them for granted.  Nothing of this is code of the repository.     *)
(*                                                                         *)
(* The drive listens while COMMAND is asserted, whatever it was doing; it  *)
(* answers a frame that it heard whole and alone, at the rates the frame's *)
(* high speed bits call for.  At most MaxFaults transmissions, either way, *)
(* are damaged, lost or late.  A command frame or a data block of the      *)
(* master is one element of the transmit ring; of a data block to the      *)
(* master, the bytes are one element of the receive ring and the checksum  *)
(* another.                                                                *)
(***************************************************************************)
EXTENDS Integers, Sequences, FiniteSets

CONSTANT MaxFaults       \* bound: transmissions damaged, lost or late

VARIABLES
    command,             \* the COMMAND line is asserted
    baud,                \* serial_config.baudrate: "std" or "hs"
    tx, rx,              \* tx_buf and rx_buf, between tail and head
    dev,                 \* the drive
    faults,              \* history: faults so far
    done, answer         \* history: of the transaction under way

Modes    == {"normal", "ultra", "turbo", "warp", "xf551"}  \* ATARISIO_EXTSIO_SPEED_
Commands == {"sector", "format", "other"}  \* 0x50/52/57; 0x21/22; any other
Transfer == {"send", "recv"}               \* ATARISIO_EXTSIO_DIR_, with data
Requests == [mode : Modes, cmd : Commands, dir : SUBSET Transfer]

CharKinds == {"ack", "nak", "complete", "error", "data", "sum", "noise"}
Char(k, n) == [kind |-> k, id |-> n]
Noise == Char("noise", 0)

DevStates == {"idle", "listen", "ack", "nak", "data", "accept", "refuse",
              "work", "bytes", "sum"}

\* The rates at which the drive hears the frame, acknowledges it and goes on.
FrameRate(r) == IF r.mode = "ultra" THEN "hs" ELSE "std"
AckRate(r)   == IF r.mode \in {"ultra", "turbo"} THEN "hs" ELSE "std"
ReplyRate(r) ==
    IF \/ r.mode \in {"ultra", "turbo"}
       \/ r.mode = "warp" /\ r.cmd = "sector"
       \/ r.mode = "xf551" /\ r.cmd # "format"
    THEN "hs" ELSE "std"

NoRequest == [mode |-> "normal", cmd |-> "other", dir |-> {}]
Idle == [state |-> "idle", heard |-> "nothing", req |-> NoRequest, id |-> 0]
Listening(h) == [state |-> "listen", heard |-> h, req |-> NoRequest, id |-> 0]

DevInit ==
    /\ command = FALSE /\ baud = "std" /\ tx = <<>> /\ rx = <<>>
    /\ dev = Idle
    /\ faults = 0 /\ done = 0 /\ answer = "none"

\* The leading edge, seen by the drive.
Listen == IF command THEN dev ELSE Listening("nothing")

Fault == faults < MaxFaults /\ faults' = faults + 1
Sound == UNCHANGED faults

\* The UART sends what the ring holds: the drive hears it as part of a
\* command frame, as a data block, or not at all.
Transmit ==
    /\ tx # <<>>
    /\ tx' = Tail(tx)
    /\ LET t == Head(tx) IN
       \E sound \in BOOLEAN :
         /\ IF sound THEN Sound ELSE Fault
         /\ dev' = IF command
                   THEN IF /\ sound /\ t.kind = "frame" /\ baud = FrameRate(t.req)
                           /\ dev.heard = "nothing"
                        THEN [dev EXCEPT !.heard = "frame", !.req = t.req, !.id = t.id]
                        ELSE Listening("noise")
                   ELSE IF dev.state = "data"
                   THEN [dev EXCEPT !.state =
                          IF sound /\ t.kind = "block" /\ baud = ReplyRate(dev.req)
                          THEN "accept" ELSE "refuse"]
                   ELSE dev
    /\ UNCHANGED <<command, baud, rx, done, answer>>

\* The trailing edge: the drive takes the frame up, refuses it, or did not
\* understand it and says nothing.
HearFrame ==
    /\ ~command
    /\ dev.state = "listen"
    /\ IF dev.heard = "frame"
       THEN \E to \in {"ack", "nak"} :
              dev' = [dev EXCEPT !.state = to, !.heard = "nothing"]
       ELSE dev' = Idle
    /\ UNCHANGED <<command, baud, tx, rx, faults, done, answer>>

\* A character on its way to the master's receive ring.
Emit(k, rate) ==
    \/ /\ rx' = Append(rx, IF baud = rate THEN Char(k, dev.id) ELSE Noise)
       /\ Sound
    \/ rx' = rx /\ Fault
    \/ rx' = Append(rx, Noise) /\ Fault

Answer(from, k, rate, to) ==
    /\ dev.state = from
    /\ Emit(k, rate)
    /\ dev' = IF to = "idle" THEN Idle ELSE [dev EXCEPT !.state = to]
    /\ UNCHANGED <<command, baud, tx>>

Acknowledge ==
    /\ \/ Answer("ack", "ack", AckRate(dev.req),
                 IF "send" \in dev.req.dir THEN "data" ELSE "work")
       \/ Answer("nak", "nak", AckRate(dev.req), "idle")
       \/ Answer("accept", "ack", ReplyRate(dev.req), "work")
       \/ Answer("refuse", "nak", ReplyRate(dev.req), "idle")
       \/ Answer("bytes", "data", ReplyRate(dev.req), "sum")
       \/ Answer("sum", "sum", ReplyRate(dev.req), "idle")
    /\ UNCHANGED <<done, answer>>

\* The drive performs the command, with or without success, and says so;
\* current is the number of the transaction under way.
Perform(current) ==
    /\ \E k \in {"complete", "error"} :
         /\ Answer("work", k, ReplyRate(dev.req),
                   IF "recv" \in dev.req.dir THEN "bytes" ELSE "idle")
         /\ IF dev.id = current
            THEN answer' = k /\ done' = IF k = "complete" THEN done + 1 ELSE done
            ELSE UNCHANGED <<done, answer>>
=============================================================================
