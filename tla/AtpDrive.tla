------------------------------- MODULE AtpDrive -------------------------------
(***************************************************************************)
(* The drive that imitates a 1050 down to the rotation of the disk:        *)
(* AtpSIOHandler with AtpImage, AtpTrack, AtpSector and Atari1050Model.    *)
(*                                                                         *)
(* A sector is where it is on its track, and which of two sectors of the   *)
(* same number is read depends on the moment: that is how protected disks  *)
(* work, and what this handler is for.  Time is kept modulo one rotation.  *)
(***************************************************************************)
EXTENDS Integers, FiniteSets, SequencesExt

CONSTANTS
    Rotation, SpinUp, MotorOff, SeekForward, SeekBackward, Settling, SectorTime, Retry,
    Layout,        \* for each density the positions of the sectors 1, 2, ... when formatted
    TrackSkew,     \* by how much formatting shifts each further track
    AtpTracks,     \* number of tracks of a formatted disk
    AtpDisks,      \* disks that are loaded
    Watched,       \* the sectors that are written
    AtpValues      \* contents of a sector; 0 is blank

Densities == DOMAIN Layout

\* The positions of a track grow: a file is refused otherwise.
AtpSectors == [id : Nat, pos : 0 .. Rotation - 1, data : AtpValues \cup {0}, ok : BOOLEAN]
Growing(secs) == \A i, j \in DOMAIN secs : i < j => secs[i].pos < secs[j].pos
AtpTrack == [density : Densities, sectors : Seq(AtpSectors)]

ASSUME AtpAssumption ==
    /\ Rotation \in Nat \ {0} /\ AtpTracks \in Nat \ {0}
    /\ {SpinUp, MotorOff, SeekForward, SeekBackward, Settling, SectorTime, Retry, TrackSkew} \subseteq Nat
    /\ \A d \in Densities :
        /\ Layout[d] \in Seq(0 .. Rotation - 1) /\ Layout[d] # <<>>
        /\ \A i, j \in DOMAIN Layout[d] : i # j => Layout[d][i] # Layout[d][j]
    /\ \A disk \in AtpDisks :
        /\ 0 \in DOMAIN disk /\ DOMAIN disk \subseteq Nat
        /\ disk \in [DOMAIN disk -> AtpTrack]
        /\ \A t \in DOMAIN disk : Growing(disk[t].sectors)

VARIABLES
    tracks,        \* fTracks: the density and the sectors, in the order of the list
    sealed,        \* write protection
    density, head, \* fCurrentDensity, fCurrentTrack
    angle, idle,   \* the time modulo Rotation, and since fLastDiskAccessTimestamp
    known          \* what the Atari may expect to read from each sector in either density

atpvars == <<tracks, sealed, density, head, angle, idle, known>>

Spt(d)    == Len(Layout[d])
Numbers   == 1 .. AtpTracks * CHOOSE n \in {Spt(d) : d \in Densities} : \A d \in Densities : n >= Spt(d)

Sector(id, pos, data, ok) == [id |-> id, pos |-> pos, data |-> data, ok |-> ok]

\* AtpTrack::AddSector: behind the sectors at or before its position
AddSector(secs, s) ==
    LET after == {i \in DOMAIN secs : secs[i].pos > s.pos}
    IN  InsertAt(secs, IF after = {} THEN Len(secs) + 1 ELSE Min(after), s)

GetSector_FromIndex(secs, id, now) ==
    LET hits == {i \in DOMAIN secs : secs[i].id = id}
    IN  IF hits = {} THEN 0 ELSE Min(hits)

\* AtpTrack::GetSector: from the first sector not yet passed, once around; 0 if
\* there is none of that number
GetSector(secs, id, now) ==
    LET ahead == {i \in DOMAIN secs : secs[i].pos >= now}
        from  == IF ahead = {} THEN 1 ELSE Min(ahead)
        hits  == {i \in DOMAIN secs : secs[i].id = id}
    IN  IF hits = {} THEN 0
        ELSE CHOOSE i \in hits : \A j \in hits : (i - from) % Len(secs) <= (j - from) % Len(secs)

\* One sector after the other is added to an empty track.
Added(secs) ==
    LET upto[n \in 0 .. Len(secs)] == IF n = 0 THEN <<>> ELSE AddSector(upto[n - 1], secs[n])
    IN  upto[Len(secs)]

\* InitBlankSD, InitBlankED with Atari1050Model::CalculatePositionOf..Sector
BlankTrack(d, t) ==
    Added([id \in 1 .. Spt(d) |-> Sector(id, (t * TrackSkew + Layout[d][id]) % Rotation, 0, TRUE)])

InitBlank(d) == [t \in 0 .. AtpTracks - 1 |-> [density |-> d, sectors |-> BlankTrack(d, t)]]

\* AtpImage::WriteImageToFile and ReadImageFromFile: the sectors of a track in one
\* chunk, their positions in another; a file whose positions do not grow is refused
TrackChunk(t)  == [density |-> t.density, sectors |-> [i \in DOMAIN t.sectors |-> [t.sectors[i] EXCEPT !.pos = 0]]]
TimingChunk(t) == [i \in DOMAIN t.sectors |-> t.sectors[i].pos]

TimingOK(timing, secs) ==
    /\ Len(timing) = Len(secs)
    /\ \A i \in DOMAIN timing : timing[i] < Rotation /\ (i > 1 => timing[i - 1] < timing[i])

FromChunks(chunk, timing) ==
    LET secs == Added(chunk.sectors)
    IN  IF ~TimingOK(timing, secs) THEN [density |-> "refused", sectors |-> <<>>]
        ELSE [density |-> chunk.density, sectors |-> [i \in DOMAIN secs |-> [secs[i] EXCEPT !.pos = timing[i]]]]
-----------------------------------------------------------------------------
TrackOf(n) == (n - 1) \div Spt(density)
IdOf(n)    == ((n - 1) % Spt(density)) + 1
ValidNumber(n) == n \in 1 .. AtpTracks * Spt(density)

SpinUpMotor == IF idle < MotorOff THEN 0 ELSE SpinUp

SeekToTrack(t) ==
    CASE t = head -> 0
      [] t > head -> (t - head + 1) * SeekForward + Settling
      [] t < head -> (head - t) * SeekBackward + Settling

\* WaitUntil the mechanics are done; an answer that fails leaves the time of the
\* last access alone.
Spend(delay, answered) ==
    /\ angle' = (angle + delay) % Rotation
    /\ idle' = IF answered THEN 0 ELSE IF idle + delay > MotorOff THEN MotorOff ELSE idle + delay

\* The sector found for number n, and the delay until it has been read
Found(n) ==
    LET t   == TrackOf(n)
        d   == SpinUpMotor + SeekToTrack(t)
        now == (angle + d) % Rotation
        i   == IF t \in DOMAIN tracks /\ tracks[t].density = density
               THEN GetSector(tracks[t].sectors, IdOf(n), now) ELSE 0
        ok  == i # 0 /\ tracks[t].sectors[i].ok
    IN  [index |-> i, ok |-> ok,
         delay |-> d + (IF i = 0 THEN 0
                        ELSE ((tracks[t].sectors[i].pos + Rotation - now) % Rotation) + SectorTime)
                     + IF ok THEN 0 ELSE Retry]

AtpRead(n) ==
    /\ ValidNumber(n)
    /\ LET f == Found(n) IN \E answered \in BOOLEAN : Spend(f.delay, answered)
    /\ head' = TrackOf(n)
    /\ UNCHANGED <<tracks, sealed, density, known>>

Copies(n) == IF TrackOf(n) \in DOMAIN tracks
             THEN {i \in DOMAIN tracks[TrackOf(n)].sectors : tracks[TrackOf(n)].sectors[i].id = IdOf(n)} ELSE {}

AtpWrite_FirstCopy(n, v, verify) ==
    /\ ValidNumber(n)
    /\ ~sealed /\ Copies(n) # {}
    /\ tracks' = [tracks EXCEPT ![TrackOf(n)].sectors[Min(Copies(n))].data = v]
    /\ known' = [known EXCEPT ![density][n] = {v}]
    /\ Spend(0, TRUE) /\ head' = TrackOf(n)
    /\ UNCHANGED <<sealed, density>>

\* The data frame has been received.  A sector with a bad status takes the data
\* and the answer is ERROR all the same.
AtpWrite(n, v, verify) ==
    /\ ValidNumber(n)
    /\ head' = TrackOf(n)
    /\ \E answered \in BOOLEAN :
         IF sealed
         THEN Spend(SpinUpMotor + SeekToTrack(TrackOf(n)), answered) /\ UNCHANGED <<tracks, known>>
         ELSE LET f == Found(n)
              IN  /\ Spend(f.delay + (IF f.ok /\ verify THEN Rotation ELSE 0), answered)
                  /\ tracks' = IF f.index = 0 THEN tracks
                               ELSE [tracks EXCEPT ![TrackOf(n)].sectors[f.index].data = v]
                  /\ known' = IF f.index = 0 THEN known
                              ELSE IF f.ok /\ answered /\ Cardinality(Copies(n)) = 1
                              THEN [known EXCEPT ![density][n] = {v}]
                              ELSE [known EXCEPT ![density][n] = @ \cup {v}]
    /\ UNCHANGED <<sealed, density>>

\* The density is taken over before the protection is looked at.
FormatAs(d) ==
    /\ density' = d /\ head' = 0
    /\ \E answered \in BOOLEAN :
         /\ Spend(SpinUpMotor + SeekToTrack(0), answered)
         /\ IF sealed THEN UNCHANGED <<tracks, known>>
            ELSE /\ tracks' = InitBlank(d)
                 /\ known' = [e \in Densities |-> [n \in Watched |->
                                 IF e # d THEN {} ELSE IF answered THEN {0} ELSE known[d][n] \cup {0}]]
    /\ UNCHANGED sealed

\* Status, unknown commands and bad sector numbers change nothing; between the
\* commands the disk turns, and the user may protect it.
Turn ==
    /\ angle' = (angle + 1) % Rotation
    /\ idle' = IF idle < MotorOff THEN idle + 1 ELSE idle
    /\ UNCHANGED <<tracks, sealed, density, head, known>>

Seal ==
    /\ sealed' = ~sealed
    /\ UNCHANGED <<tracks, density, head, angle, idle, known>>

Readable(disk, d, n) ==
    LET t == (n - 1) \div Spt(d)
    IN  IF t \notin DOMAIN disk \/ disk[t].density # d THEN {}
        ELSE {s.data : s \in {x \in Range(disk[t].sectors) : x.id = ((n - 1) % Spt(d)) + 1 /\ x.ok}}

AtpInit ==
    /\ tracks \in AtpDisks
    /\ density = tracks[0].density
    /\ sealed = FALSE /\ head = 0 /\ angle = 0 /\ idle = MotorOff
    /\ known = [d \in Densities |-> [n \in Watched |-> Readable(tracks, d, n)]]

AtpNext ==
    \/ \E n \in Numbers : AtpRead(n)
    \/ \E n \in Watched, v \in AtpValues, verify \in BOOLEAN : AtpWrite(n, v, verify)
    \/ \E d \in Densities : FormatAs(d)
    \/ Turn \/ Seal

AtpSpec == AtpInit /\ [][AtpNext]_atpvars
-----------------------------------------------------------------------------
(* Properties.                                                             *)

\* Of several sectors of one number the head reads the one it meets first.
AtpNearest ==
    \A t \in DOMAIN tracks, d \in Densities : \A id \in 1 .. Spt(d), now \in 0 .. Rotation - 1 :
        LET secs == tracks[t].sectors
            i    == GetSector(secs, id, now)
        IN  \A j \in DOMAIN secs : secs[j].id = id =>
                /\ i # 0
                /\ (secs[i].pos - now) % Rotation <= (secs[j].pos - now) % Rotation

\* A sector read without an error holds what was last written to it, or formatted,
\* as far as the answers told the Atari.
AtpKnown ==
    \A n \in Watched : ValidNumber(n) /\ TrackOf(n) \in DOMAIN tracks /\ tracks[TrackOf(n)].density = density =>
        \A i \in Copies(n) : tracks[TrackOf(n)].sectors[i].ok =>
            tracks[TrackOf(n)].sectors[i].data \in known[density][n]

\* Saved and loaded again, every track is what it was, sector by sector at its
\* position, although the file keeps sectors and positions apart.
AtpRoundTrip ==
    \A t \in DOMAIN tracks : FromChunks(TrackChunk(tracks[t]), TimingChunk(tracks[t])) = tracks[t]

\* The disk and its file have what the Atari was told.
AtpPromised == AtpKnown /\ AtpRoundTrip
=============================================================================
