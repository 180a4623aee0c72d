---------------------------- MODULE Data_proofs ----------------------------
(***************************************************************************)
(* Proofs about what the host could lose: the files of a virtual drive,    *)
(* the disks atarixfer copies, the serial ports the driver takes, the      *)
(* files put on an image and the images kept in compressed files.          *)
(***************************************************************************)
EXTENDS VirtualDrive, Xfer, DriverSetup, Dos2x, DcmCodec, Induction, FiniteSetTheorems, TLAPS

-----------------------------------------------------------------------------
(***************************************************************************)
(* Directories of virtual drives: for any names, entries and number of     *)
(* writes the files of the host are safe, and have what the Atari finds.   *)
(***************************************************************************)

-----------------------------------------------------------------------------
(* Names of the host.                                                      *)

LEMMA UpperIsHost ==
    ASSUME NEW n \in Names
    PROVE  Upper(n) \in HostNames
  BY DEF HostNames

LEMMA InIsNoName ==
    ASSUME NEW g \in HostNames
    PROVE  In(g) \in Paths /\ \A h \in HostNames : In(g) # h
  <1>1. In(g)[3] = "file"
    BY DEF In
  <1>2. \A n \in Names : Upper(n)[3] = "." /\ Lower(n)[3] = "."
    BY DEF Upper, Lower
  <1>3. \A h \in HostNames : h[3] = "."
    BY <1>2 DEF HostNames
  <1> QED
    BY <1>1, <1>3 DEF Paths

LEMMA HostIsPath ==
    ASSUME NEW h \in HostNames
    PROVE  h \in Paths
  BY DEF Paths
-----------------------------------------------------------------------------
(* What the server does when it takes notice of a write.                   *)

\* The names beside an entry, that are the only ones to change.
Named ==
    /\ atariName \in [Slots -> Names \cup {NoName}]
    /\ origName \in [Slots -> HostNames \cup {NoName}]
    /\ subdir \in [Slots -> HostNames \cup {NoName}]
    /\ \A e \in Slots : atariName[e] \in Names \ Unnamed => origName[e] \in HostNames
    /\ alive \in BOOLEAN /\ (alive \/ Unnamed # {})

Hosts == [Paths -> Nat \cup {Nothing, Directory, Partial}]

LEMMA GetKeeps ==
    ASSUME NEW e \in Slots, NEW n \in Names, Named, GetOrigName(e, n)
    PROVE  /\ atariName' \in [Slots -> Names \cup {NoName}]
           /\ origName' \in [Slots -> HostNames \cup {NoName}]
           /\ \A d \in Slots : atariName'[d] \in Names \ Unnamed => origName'[d] \in HostNames
           /\ alive' \in BOOLEAN /\ (alive' \/ Unnamed # {})
           /\ alive' => origName'[e] \in HostNames
  <1>1. Upper(n) \in HostNames /\ NoName \notin HostNames
    BY UpperIsHost, ListingsAssumption
  <1>2. /\ atariName' = [atariName EXCEPT ![e] = n]
        /\ origName' = [origName EXCEPT ![e] = IF atariName[e] = n THEN origName[e] ELSE Upper(n)]
        /\ alive' = (origName'[e] # NoName)
    BY DEF GetOrigName
  <1>3. atariName' \in [Slots -> Names \cup {NoName}] /\ origName' \in [Slots -> HostNames \cup {NoName}]
    BY <1>1, <1>2 DEF Named
  <1>4. origName'[e] \in HostNames \/ n \in Unnamed
    BY <1>1, <1>2 DEF Named
  <1>5. \A d \in Slots : atariName'[d] \in Names \ Unnamed => origName'[d] \in HostNames
    BY <1>2, <1>4 DEF Named
  <1>6. alive' => origName'[e] \in HostNames
    BY <1>2, <1>3
  <1>7. alive' \in BOOLEAN
    BY <1>2
  <1>8. alive' \/ Unnamed # {}
    BY <1>1, <1>2, <1>4
  <1> QED
    BY <1>3, <1>5, <1>6, <1>7, <1>8

\* A file is closed.
LEMMA CloseKeeps ==
    ASSUME NEW e \in Slots, NEW new, new.name \in Names, new.data \in Nat,
           Named, host \in Hosts, IndicateCloseFile(e, new)
    PROVE  /\ Named' /\ host' \in Hosts
           /\ \A h \in HostNames : /\ host[h] # Nothing => host'[h] # Nothing
                                   /\ host[h] = Directory => host'[h] = Directory
                                   /\ host'[h] # host[h] => /\ alive' /\ h = origName'[e]
                                                            /\ host'[h] \in {Partial, new.data}
  <1>1. GetOrigName(e, new.name)
    BY DEF IndicateCloseFile
  <1>2. alive' => origName'[e] \in HostNames
    BY <1>1, GetKeeps
  <1>3. Named'
    <2>1. subdir' = [subdir EXCEPT ![e] = IF atariName[e] = new.name THEN subdir[e] ELSE NoName]
      BY DEF IndicateCloseFile
    <2>2. subdir' \in [Slots -> HostNames \cup {NoName}]
      BY <2>1 DEF Named
    <2> QED
      BY <1>1, <2>2, GetKeeps DEF Named
  <1>4. CASE alive'
    <2>1. PICK x \in WriteAtariFileToDisk(origName'[e], new.data) : host' = [host EXCEPT ![origName'[e]] = x]
      BY <1>4 DEF IndicateCloseFile
    <2>2. x = host[origName'[e]] \/ (host[origName'[e]] # Directory /\ x \in {Partial, new.data})
      BY <2>1 DEF WriteAtariFileToDisk
    <2>3. origName'[e] \in Paths /\ \A h \in HostNames : h \in Paths
      BY <1>2, <1>4, HostIsPath
    <2>4. host' \in Hosts
      BY <2>1, <2>2, <2>3 DEF Hosts
    <2>5. new.data # Nothing /\ Partial # Nothing
      BY DEF Nothing, Partial
    <2> QED
      BY <1>3, <1>4, <2>1, <2>2, <2>3, <2>4, <2>5 DEF Hosts
  <1>5. CASE ~alive'
    BY <1>3, <1>5 DEF IndicateCloseFile
  <1> QED
    BY <1>4, <1>5

\* A directory is made.
LEMMA CreateKeeps ==
    ASSUME NEW e \in Slots, NEW new, new.name \in Names,
           Named, host \in Hosts, IndicateCreateDirectory(e, new)
    PROVE  /\ Named' /\ host' \in Hosts
           /\ \A h \in HostNames : /\ host[h] \in {host'[h], Nothing}
                                   /\ host[h] # Nothing => host'[h] # Nothing
  <1>1. GetOrigName(e, new.name)
    BY DEF IndicateCreateDirectory
  <1>2. alive' => origName'[e] \in HostNames
    BY <1>1, GetKeeps
  <1>3. \/ /\ subdir' = [subdir EXCEPT ![e] = IF atariName[e] = new.name THEN subdir[e] ELSE NoName]
           /\ host' = host
        \/ /\ alive' /\ subdir' = [subdir EXCEPT ![e] = origName'[e]]
           /\ host[origName'[e]] \in {Nothing, Directory}
           /\ host' = [host EXCEPT ![origName'[e]] = Directory]
    BY DEF IndicateCreateDirectory
  <1>4. Named'
    <2>1. subdir' \in [Slots -> HostNames \cup {NoName}]
      BY <1>2, <1>3 DEF Named
    <2> QED
      BY <1>1, <2>1, GetKeeps DEF Named
  <1>5. (alive' => origName'[e] \in Paths) /\ \A h \in HostNames : h \in Paths
    BY <1>2, HostIsPath
  <1>6. host' \in Hosts
    BY <1>3, <1>5 DEF Hosts
  <1>7. Directory # Nothing
    BY DEF Nothing, Directory
  <1> QED
    BY <1>3, <1>4, <1>5, <1>6, <1>7 DEF Hosts

LEMMA DeleteKeeps ==
    ASSUME NEW e \in Slots, Named, IndicateDeleteEntry(e)
    PROVE  Named' /\ host' = host
  BY ListingsAssumption DEF Named, IndicateDeleteEntry
-----------------------------------------------------------------------------
(* A write of an entry, as the server takes it.                            *)

Entries == [st : {"free", "deleted", "open", "closed", "dir"}, name : Names \cup {NoName},
            data : Nat, was : Names \cup {NoName}]

\* A file of the host changes only when the entry that has it is being closed.
Safe(e) ==
    \A h \in HostNames :
        /\ host[h] # Nothing => host'[h] # Nothing
        /\ host[h] = Directory => host'[h] = Directory
        /\ host[h] \notin {host'[h], Nothing} =>
              /\ entry[e].st = "open" /\ entry'[e].st = "closed" /\ origName'[e] = h
              /\ host'[h] = entry[e].data \/ (host'[h] = Partial /\ entry'[e].was = NoName)

\* The entry is new, but for the name under which the host has got it.
LEMMA WriteKeeps ==
    ASSUME VirtualTypeOK, NEW e \in Slots, NEW new \in Entries, NEW w \in Names \cup {NoName},
           IndicateSectorWrite(e, new), entry' = [entry EXCEPT ![e] = [new EXCEPT !.was = w]],
           new.st \in {"open", "closed", "dir"} => new.name \in Names,
           entry[e].st = "open" /\ new.st = "closed" =>
              /\ new.data = entry[e].data
              /\ Observed(e) /\ host'[origName'[e]] = Partial => w = NoName,
           UNCHANGED inside, writes' \in Nat
    PROVE  VirtualTypeOK' /\ Safe(e)
  <1>1. /\ Named /\ host \in Hosts /\ entry \in [Slots -> Entries] /\ inside' = inside
        /\ \A d \in Slots : entry[d].st \in {"open", "closed", "dir"} => entry[d].name \in Names
    BY DEF VirtualTypeOK, Named, Hosts, Entries
  <1> DEFINE put == [new EXCEPT !.was = w]
  <1>2. /\ put \in Entries /\ put.st = new.st /\ put.name = new.name /\ put.data = new.data /\ put.was = w
        /\ entry' = [entry EXCEPT ![e] = put]
    BY DEF Entries
  <1> HIDE DEF put
  <1>3. entry' \in [Slots -> Entries] /\ entry'[e] = put
    BY <1>1, <1>2
  <1>4. \A d \in Slots : entry'[d].st \in {"open", "closed", "dir"} => entry'[d].name \in Names
    BY <1>1, <1>2
  <1>5. ASSUME Named', host' \in Hosts
        PROVE  VirtualTypeOK'
    BY <1>1, <1>3, <1>4, <1>5 DEF VirtualTypeOK, Named, Hosts, Entries
  <1>6. new.data \in Nat
    BY DEF Entries
  <1>7. CASE Ignored
    <2>1. Named' /\ host' = host
      BY <1>1, <1>7 DEF Ignored, Named
    <2> QED
      BY <1>1, <1>5, <2>1 DEF Safe
  <1>8. CASE IndicateDeleteEntry(e)
    BY <1>1, <1>5, <1>8, DeleteKeeps DEF Safe
  <1>9. CASE Observed(e) /\ entry[e].st = "open" /\ new.st = "closed" /\ IndicateCloseFile(e, new)
    <2>1. /\ Named' /\ host' \in Hosts
          /\ \A h \in HostNames : /\ host[h] # Nothing => host'[h] # Nothing
                                  /\ host[h] = Directory => host'[h] = Directory
                                  /\ host'[h] # host[h] => /\ alive' /\ h = origName'[e]
                                                           /\ host'[h] \in {Partial, new.data}
      BY <1>1, <1>6, <1>9, CloseKeeps
    <2> QED
      BY <1>2, <1>3, <1>5, <1>9, <2>1 DEF Safe
  <1>10. CASE new.st = "dir" /\ IndicateCreateDirectory(e, new)
    <2>1. /\ Named' /\ host' \in Hosts
          /\ \A h \in HostNames : host[h] \in {host'[h], Nothing} /\ (host[h] # Nothing => host'[h] # Nothing)
      BY <1>1, <1>10, CreateKeeps
    <2>2. Directory # Nothing
      BY DEF Directory, Nothing
    <2> QED
      BY <1>5, <2>1, <2>2 DEF Safe
  <1> QED
    BY <1>7, <1>8, <1>9, <1>10 DEF IndicateSectorWrite

LEMMA EntryKeeps ==
    ASSUME VirtualTypeOK, NEW e \in Slots, NEW new \in Entries, WriteEntry(e, new),
           new.st \in {"open", "closed", "dir"} => new.name \in Names, new.st # "closed" \/ entry[e].st # "open",
           UNCHANGED inside, writes' \in Nat
    PROVE  VirtualTypeOK' /\ Safe(e)
  <1>1. new = [new EXCEPT !.was = new.was] /\ new.was \in Names \cup {NoName}
    BY DEF Entries
  <1>2. PICK w \in Names \cup {NoName} : new = [new EXCEPT !.was = w]
    BY <1>1
  <1>3. IndicateSectorWrite(e, new) /\ entry' = [entry EXCEPT ![e] = [new EXCEPT !.was = w]]
    BY <1>2 DEF WriteEntry
  <1> QED
    BY <1>3, WriteKeeps

LEMMA ForHostKeeps ==
    ASSUME VirtualTypeOK, NEW e \in Slots, NEW new \in Entries, WriteForHost(e, new),
           new.name \in Names, entry[e].st = "open" => new.data = entry[e].data,
           UNCHANGED inside, writes' \in Nat
    PROVE  VirtualTypeOK' /\ Safe(e)
  <1>1. PICK w \in Names \cup {NoName} : w = IF Arrived(e, new) THEN new.name ELSE NoName
    OBVIOUS
  <1>2. IndicateSectorWrite(e, new) /\ entry' = [entry EXCEPT ![e] = [new EXCEPT !.was = w]]
    BY <1>1 DEF WriteForHost
  <1>3. ASSUME new.st = "closed", Observed(e), host'[origName'[e]] = Partial
        PROVE  w = NoName
    <2>1. new.data # Partial
      BY DEF Partial, Entries
    <2>2. ~Arrived(e, new)
      BY <1>3, <2>1 DEF Arrived
    <2> QED
      BY <1>1, <2>2
  <1> QED
    BY <1>2, <1>3, WriteKeeps

LEMMA InsideKeeps ==
    ASSUME VirtualTypeOK, NEW e \in Slots, WriteInside(e)
    PROVE  VirtualTypeOK' /\ \A h \in HostNames : host'[h] = host[h]
  <1>1. /\ \E st \in {"closed", "lost"} : inside' = [inside EXCEPT ![e] = [st |-> st, data |-> writes + 1]]
        /\ writes' = writes + 1 /\ UNCHANGED <<entry, atariName, origName, subdir, alive>>
        /\ \/ host' = host
           \/ /\ subdir[e] # NoName
              /\ \E x \in WriteAtariFileToDisk(In(subdir[e]), writes + 1) : host' = [host EXCEPT ![In(subdir[e])] = x]
    BY DEF WriteInside
  <1>2. /\ host' \in [Paths -> Nat \cup {Nothing, Directory, Partial}]
        /\ \A h \in HostNames : host'[h] = host[h]
    <2>1. CASE host' = host
      BY <2>1 DEF VirtualTypeOK
    <2>2. CASE host' # host
      <3>1. subdir[e] \in HostNames
        BY <1>1, <2>2 DEF VirtualTypeOK
      <3>2. In(subdir[e]) \in Paths /\ \A h \in HostNames : In(subdir[e]) # h
        BY <3>1, InIsNoName
      <3>3. PICK x \in WriteAtariFileToDisk(In(subdir[e]), writes + 1) : host' = [host EXCEPT ![In(subdir[e])] = x]
        BY <1>1, <2>2
      <3>4. x \in Nat \cup {Nothing, Directory, Partial}
        BY <3>2, <3>3 DEF WriteAtariFileToDisk, VirtualTypeOK
      <3> QED
        BY <3>2, <3>3, <3>4, HostIsPath DEF VirtualTypeOK
    <2> QED
      BY <2>1, <2>2
  <1>3. writes' \in Nat /\ inside' \in [Slots -> [st : {"none", "closed", "lost"}, data : Nat]]
    BY <1>1 DEF VirtualTypeOK
  <1> QED
    BY <1>1, <1>2, <1>3 DEF VirtualTypeOK

\* What the Atari's DOS does keeps the types, and touches a file of the host only
\* by closing an entry.
LEMMA VirtualStep ==
    ASSUME VirtualTypeOK, VirtualNext
    PROVE  VirtualTypeOK' /\ \E e \in Slots : Safe(e)
  <1>1. /\ entry \in [Slots -> Entries] /\ writes \in Nat
        /\ \A d \in Slots : entry[d].st \in {"open", "closed", "dir"} => entry[d].name \in Names
    BY DEF VirtualTypeOK, Entries
  <1>2. ASSUME NEW e \in Slots, NEW n \in Names, OpenFile(e, n)
        PROVE  VirtualTypeOK' /\ Safe(e)
    <2> DEFINE new == [st |-> "open", name |-> n, data |-> writes + 1, was |-> entry[e].was]
    <2>1. new \in Entries /\ writes' \in Nat /\ UNCHANGED inside /\ WriteEntry(e, new)
      BY <1>1, <1>2 DEF OpenFile, Entries
    <2> QED
      BY <2>1, EntryKeeps
  <1>3. ASSUME NEW e \in Slots, NEW n \in Names, MakeDirectory(e, n)
        PROVE  VirtualTypeOK' /\ Safe(e)
    <2> DEFINE new == [st |-> "dir", name |-> n, data |-> 0, was |-> NoName]
    <2>1. new \in Entries /\ writes' \in Nat /\ UNCHANGED inside /\ WriteForHost(e, new) /\ entry[e].st # "open"
      BY <1>1, <1>3 DEF MakeDirectory, Entries, Live
    <2> QED
      BY <2>1, ForHostKeeps
  <1>4. ASSUME NEW e \in Slots, NEW n \in Names, Rename(e, n)
        PROVE  VirtualTypeOK' /\ Safe(e)
    <2> DEFINE new == [entry[e] EXCEPT !.name = n, !.was = NoName]
    <2>1. new \in Entries /\ new.name = n /\ new.st = entry[e].st /\ new.st # "open"
      BY <1>1, <1>4 DEF Rename, Entries
    <2>2. writes' \in Nat /\ UNCHANGED inside /\ WriteEntry(e, new)
      BY <1>1, <1>4 DEF Rename
    <2> HIDE DEF new
    <2> QED
      BY <1>4, <2>1, <2>2, EntryKeeps DEF Rename
  <1>5. ASSUME NEW e \in Slots, CloseFile(e)
        PROVE  VirtualTypeOK' /\ Safe(e)
    <2> DEFINE new == [entry[e] EXCEPT !.st = "closed"]
    <2>1. new \in Entries /\ new.name = entry[e].name /\ new.data = entry[e].data /\ new.st = "closed"
      BY <1>1 DEF Entries
    <2>2. entry[e].st = "open" /\ writes' \in Nat /\ UNCHANGED inside /\ WriteForHost(e, new)
      BY <1>1, <1>5 DEF CloseFile
    <2> HIDE DEF new
    <2> QED
      BY <1>1, <2>1, <2>2, ForHostKeeps
  <1>6. ASSUME NEW e \in Slots, NEW st \in {"deleted", "free"}, Delete(e, st)
        PROVE  VirtualTypeOK' /\ Safe(e)
    <2> DEFINE new == [st |-> st, name |-> IF st = "free" THEN NoName ELSE entry[e].name,
                       data |-> 0, was |-> NoName]
    <2>1. new \in Entries /\ writes' \in Nat /\ UNCHANGED inside /\ WriteEntry(e, new)
      BY <1>1, <1>6 DEF Delete, Entries
    <2> QED
      BY <2>1, EntryKeeps
  <1>7. ASSUME NEW e \in Slots, WriteInside(e)
        PROVE  VirtualTypeOK' /\ Safe(e)
    BY <1>7, InsideKeeps DEF Safe
  <1> QED
    BY <1>2, <1>3, <1>4, <1>5, <1>6, <1>7 DEF VirtualNext

LEMMA VirtualStutter ==
    ASSUME VirtualTypeOK, UNCHANGED virtualvars
    PROVE  VirtualTypeOK'
  BY DEF VirtualTypeOK, virtualvars

LEMMA InitVirtualType == VirtualInit => VirtualTypeOK
  <1> SUFFICES ASSUME VirtualInit PROVE VirtualTypeOK
    OBVIOUS
  <1>1. PICK l \in Listings :
        /\ entry = [e \in Slots |-> [st |-> l[e].st, name |-> l[e].name, data |-> 0,
                                  was |-> IF l[e].host = NoName THEN NoName ELSE l[e].name]]
        /\ inside = [e \in Slots |-> [st |-> "none", data |-> 0]]
        /\ atariName = [e \in Slots |-> l[e].name]
        /\ origName = [e \in Slots |-> l[e].host]
        /\ subdir = [e \in Slots |-> IF l[e].st = "dir" THEN l[e].host ELSE NoName]
        /\ host = [h \in Paths |->
                     IF \E e \in Slots : l[e].host = h
                     THEN LET e == CHOOSE e \in Slots : l[e].host = h
                          IN  IF l[e].st = "dir" THEN Directory ELSE 0
                     ELSE Nothing]
        /\ writes = 0 /\ alive = TRUE
    BY DEF VirtualInit
  <1>2. \A e \in Slots : /\ l[e].st \in {"free", "closed", "dir"} /\ l[e].name \in Names \cup {NoName}
                         /\ l[e].host \in HostNames \cup {NoName}
                         /\ l[e].st # "free" => l[e].name \in Names
    BY ListingsAssumption
  <1>3. host \in [Paths -> Nat \cup {Nothing, Directory, Partial}]
    BY <1>1
  <1>4. \A e \in Slots : /\ entry[e].st \in {"open", "closed", "dir"} => entry[e].name \in Names
                         /\ atariName[e] \in Names \ Unnamed => origName[e] \in HostNames
    BY <1>1, <1>2 DEF Unnamed
  <1>5. entry \in [Slots -> Entries]
    <2>1. \A e \in Slots : [st |-> l[e].st, name |-> l[e].name, data |-> 0,
                            was |-> IF l[e].host = NoName THEN NoName ELSE l[e].name] \in Entries
      BY <1>2 DEF Entries
    <2> QED
      BY <1>1, <2>1
  <1>6. /\ inside \in [Slots -> [st : {"none", "closed", "lost"}, data : Nat]]
        /\ writes \in Nat /\ alive \in BOOLEAN /\ (alive \/ Unnamed # {})
    BY <1>1
  <1>7. /\ atariName \in [Slots -> Names \cup {NoName}]
        /\ origName \in [Slots -> HostNames \cup {NoName}]
        /\ subdir \in [Slots -> HostNames \cup {NoName}]
    BY <1>1, <1>2
  <1> QED
    BY <1>3, <1>4, <1>5, <1>6, <1>7 DEF VirtualTypeOK, Entries
-----------------------------------------------------------------------------
(* The theorems.                                                           *)

\* The server's names and the host keep their types; in particular, a name of the
\* Atari that the server remembers has a name of the host beside it, unless it is one
\* that was shown without, and the server ends only where there is such a one.
THEOREM VirtualTypeCorrect == VirtualSpec => []VirtualTypeOK
  <1>1. VirtualTypeOK /\ [VirtualNext]_virtualvars => VirtualTypeOK'
    BY VirtualStep, VirtualStutter
  <1> QED
    BY InitVirtualType, <1>1, PTL DEF VirtualSpec

\* For any directory and any sequence of writes of the Atari, whatever fails on the
\* way, a file of the host changes only when the entry that has it is closed, to what
\* the entry has or to a part of it, never vanishes and never replaces a directory.
THEOREM HostIsKept == VirtualSpec => HostKept
  <1>1. VirtualTypeOK /\ [VirtualNext]_virtualvars =>
          [\A h \in HostNames :
              /\ host[h] # Nothing => host'[h] # Nothing
              /\ host[h] = Directory => host'[h] = Directory
              /\ host[h] \notin {host'[h], Nothing} =>
                    \E e \in Slots : /\ entry[e].st = "open" /\ entry'[e].st = "closed" /\ origName'[e] = h
                                     /\ \/ host'[h] = entry[e].data
                                        \/ host'[h] = Partial /\ entry'[e].was = NoName]_virtualvars
    BY VirtualStep DEF Safe
  <1> QED
    BY <1>1, VirtualTypeCorrect, PTL DEF VirtualSpec, HostKept

-----------------------------------------------------------------------------
(* What the host has of the entries.                                       *)

\* The file of the host behind an entry of name m, of which the server remembers
\* the name an and with it the file on.
HostFor(an, on, m) == IF an = m THEN on ELSE Upper(m)

HostOf(e) == HostFor(atariName[e], origName[e], entry[e].name)

\* Of two names remembered, each has a file of its own, and none is one that
\* another name would be given.
Own(an, on) ==
    \A e \in Slots : an[e] \in Names =>
        /\ \A d \in Slots : an[d] \in Names \ {an[e]} /\ on[d] # NoName => on[e] # on[d]
        /\ \A n \in Names : on[e] = Upper(n) => an[e] = n

OwnEntries == \A e, d \in Slots : e # d /\ Live(e) /\ Live(d) => entry[e].name # entry[d].name

\* A directory with a file is never deleted.
FullStays == \A e \in Slots : inside[e].st # "none" => entry[e].st = "dir"

Settled(e) == Observed(e) /\ entry[e].name \in Names /\ entry[e].was = entry[e].name

\* Another directory wrote to h, too.
Shared(e, h) == \E d \in Slots \ {e} : inside[d].st # "none" /\ subdir[d] = h

There(e) ==
    Settled(e) =>
        /\ entry[e].st \in {"closed", "dir"} => HostOf(e) \in HostNames
        /\ entry[e].st = "closed" => host[HostOf(e)] = entry[e].data
        /\ entry[e].st = "dir" => host[HostOf(e)] = Directory /\ subdir[e] = HostOf(e)
        /\ inside[e].st = "closed" => Shared(e, HostOf(e)) \/ host[In(HostOf(e))] = inside[e].data

MirrorInv == OwnEntries /\ Own(atariName, origName) /\ FullStays /\ \A e \in Slots : There(e)

LEMMA UpperApart ==
    ASSUME NEW m \in Names, NEW n \in Names, Upper(m) = Upper(n)
    PROVE  m = n
  BY DEF Upper

LEMMA InApart ==
    ASSUME NEW g \in HostNames, NEW h \in HostNames, In(g) = In(h)
    PROVE  g = h
  <1>1. \A x \in HostNames : x = <<x[1], x[2], ".">>
    BY DEF HostNames, Upper, Lower
  <1>2. g[1] = h[1] /\ g[2] = h[2]
    BY DEF In
  <1> QED
    BY <1>1, <1>2

LEMMA FilesApart ==
    ASSUME NEW an, NEW on, Own(an, on), NEW e \in Slots, NEW d \in Slots,
           NEW m \in Names, NEW n \in Names, m # n, HostFor(an[d], on[d], n) # NoName
    PROVE  HostFor(an[e], on[e], m) # HostFor(an[d], on[d], n)
  <1>1. CASE an[e] = m /\ an[d] = n
    BY <1>1 DEF Own, HostFor
  <1>2. CASE an[e] = m /\ an[d] # n
    BY <1>2 DEF Own, HostFor
  <1>3. CASE an[e] # m /\ an[d] = n
    BY <1>3 DEF Own, HostFor
  <1>4. CASE an[e] # m /\ an[d] # n
    BY <1>4, UpperApart DEF HostFor
  <1> QED
    BY <1>1, <1>2, <1>3, <1>4
-----------------------------------------------------------------------------
(* What a write to one entry leaves of the others.                         *)

Beside(e) ==
    \A d \in Slots \ {e} : /\ entry'[d] = entry[d] /\ atariName'[d] = atariName[d]
                           /\ origName'[d] = origName[d] /\ subdir'[d] = subdir[d]

\* Of the host only the file behind the entry changes.
OnlyItsFile(e) ==
    \A h \in HostNames : /\ host'[In(h)] = host[In(h)]
                         /\ host'[h] = host[h] \/ (Live(e)' /\ h = HostOf(e)')

Effect(e) ==
    /\ inside' = inside /\ Beside(e) /\ OnlyItsFile(e)
    /\ Own(atariName', origName') /\ OwnEntries'
    /\ inside[e].st # "none" => subdir'[e] = subdir[e]

LEMMA OthersStayThere ==
    ASSUME VirtualTypeOK, VirtualTypeOK', MirrorInv, NEW e \in Slots, Effect(e), NEW d \in Slots \ {e}
    PROVE  There(d)'
  <1> SUFFICES ASSUME Settled(d)', entry[d].st \in {"closed", "dir"}
               PROVE  There(d)'
    <2>1. entry'[d] = entry[d] /\ inside' = inside
      BY DEF Effect, Beside
    <2>2. entry[d].st \notin {"closed", "dir"} => inside[d].st # "closed"
      BY DEF MirrorInv, FullStays
    <2> QED
      BY <2>1, <2>2 DEF There
  <1>1. /\ entry'[d] = entry[d] /\ atariName'[d] = atariName[d] /\ origName'[d] = origName[d]
        /\ subdir'[d] = subdir[d] /\ inside' = inside
    BY DEF Effect, Beside
  <1>2. Settled(d) /\ Live(d)' /\ There(d)
    BY <1>1 DEF Settled, Live, MirrorInv
  <1>3. HostOf(d)' = HostOf(d) /\ HostOf(d) \in HostNames
    BY <1>1, <1>2 DEF HostOf, There
  <1>4. host'[HostOf(d)] = host[HostOf(d)] /\ host'[In(HostOf(d))] = host[In(HostOf(d))]
    <2>1. CASE Live(e)'
      <3>1. entry'[e].name \in Names /\ entry'[d].name \in Names /\ entry'[e].name # entry'[d].name
        BY <1>2, <2>1 DEF Effect, OwnEntries, VirtualTypeOK, Live
      <3>2. HostFor(atariName'[d], origName'[d], entry'[d].name) # NoName
        BY <1>3, ListingsAssumption DEF HostOf
      <3>3. HostFor(atariName'[e], origName'[e], entry'[e].name) # HostFor(atariName'[d], origName'[d], entry'[d].name)
        BY <3>1, <3>2, FilesApart DEF Effect
      <3>4. HostOf(e)' # HostOf(d)
        BY <1>3, <3>3 DEF HostOf
      <3> QED
        BY <1>3, <3>4 DEF Effect, OnlyItsFile
    <2>2. CASE ~ Live(e)'
      BY <1>3, <2>2 DEF Effect, OnlyItsFile
    <2> QED
      BY <2>1, <2>2
  <1>5. Shared(d, HostOf(d)) => Shared(d, HostOf(d))'
    <2> SUFFICES ASSUME NEW c \in Slots \ {d}, inside[c].st # "none", subdir[c] = HostOf(d)
                 PROVE  subdir'[c] = HostOf(d)
      BY <1>1, <1>3 DEF Shared
    <2> QED
      BY DEF Effect, Beside
  <1> QED
    BY <1>1, <1>2, <1>3, <1>4, <1>5 DEF There
-----------------------------------------------------------------------------
(* What the server does when it takes notice.                              *)

LEMMA NamesOwn ==
    ASSUME VirtualTypeOK, Own(atariName, origName), NEW e \in Slots, NEW n \in Names, GetOrigName(e, n), alive'
    PROVE  /\ Own(atariName', origName')
           /\ atariName'[e] = n /\ origName'[e] \in HostNames
           /\ \A d \in Slots \ {e} : atariName'[d] = atariName[d] /\ origName'[d] = origName[d]
  <1>1. /\ atariName \in [Slots -> Names \cup {NoName}] /\ origName \in [Slots -> HostNames \cup {NoName}]
    BY DEF VirtualTypeOK
  <1>2. /\ atariName' = [atariName EXCEPT ![e] = n]
        /\ origName' = [origName EXCEPT ![e] = IF atariName[e] = n THEN origName[e] ELSE Upper(n)]
        /\ origName'[e] # NoName
    BY DEF GetOrigName
  <1>3. /\ atariName'[e] = n /\ origName'[e] = IF atariName[e] = n THEN origName[e] ELSE Upper(n)
        /\ \A d \in Slots \ {e} : atariName'[d] = atariName[d] /\ origName'[d] = origName[d]
    BY <1>1, <1>2
  <1>4. origName'[e] \in HostNames
    BY <1>1, <1>2, <1>3, UpperIsHost
  <1>5. \A m \in Names : Upper(n) = Upper(m) => n = m
    BY UpperApart
  <1>6. \A m \in Names : origName'[e] = Upper(m) => n = m
    BY <1>3, <1>5 DEF Own
  <1>7. ASSUME NEW d \in Slots \ {e}, atariName[d] \in Names \ {n}
        PROVE  origName'[e] # origName[d]
    BY <1>2, <1>3, <1>7 DEF Own
  <1> QED
    BY <1>3, <1>4, <1>6, <1>7 DEF Own

\* A file is closed: the file behind the entry may change.
LEMMA CloseMirrors ==
    ASSUME VirtualTypeOK, MirrorInv, alive', NEW e \in Slots, NEW new, new.name \in Names, new.st = "closed",
           IndicateCloseFile(e, new), entry'[e].name = new.name, entry'[e].st = new.st,
           \A d \in Slots \ {e} : entry'[d] = entry[d]
    PROVE  /\ Beside(e) /\ OnlyItsFile(e) /\ Own(atariName', origName')
           /\ HostOf(e)' = origName'[e] /\ HostOf(e)' \in HostNames
  <1>1. /\ GetOrigName(e, new.name)
        /\ subdir' = [subdir EXCEPT ![e] = IF atariName[e] = new.name THEN subdir[e] ELSE NoName]
        /\ \E x : host' = [host EXCEPT ![origName'[e]] = x]
    BY DEF IndicateCloseFile
  <1>2. /\ Own(atariName', origName') /\ atariName'[e] = new.name /\ origName'[e] \in HostNames
        /\ \A d \in Slots \ {e} : atariName'[d] = atariName[d] /\ origName'[d] = origName[d]
    BY <1>1, NamesOwn DEF MirrorInv
  <1>3. Beside(e)
    BY <1>1, <1>2 DEF Beside, VirtualTypeOK
  <1>4. HostOf(e)' = origName'[e] /\ Live(e)'
    BY <1>2 DEF HostOf, HostFor, Live
  <1>5. \A h \in HostNames : h \in Paths /\ In(h) \in Paths /\ In(h) # origName'[e]
    BY <1>2, HostIsPath, InIsNoName
  <1>6. OnlyItsFile(e)
    BY <1>1, <1>4, <1>5 DEF OnlyItsFile, VirtualTypeOK
  <1> QED
    BY <1>2, <1>3, <1>4, <1>6

\* A directory is made: it is followed, unless there is a file or mkdir fails.
LEMMA CreateMirrors ==
    ASSUME VirtualTypeOK, MirrorInv, alive', NEW e \in Slots, NEW new, new.name \in Names, new.st = "dir",
           IndicateCreateDirectory(e, new), entry'[e].name = new.name, entry'[e].st = new.st,
           \A d \in Slots \ {e} : entry'[d] = entry[d]
    PROVE  /\ Beside(e) /\ OnlyItsFile(e) /\ Own(atariName', origName')
           /\ HostOf(e)' = origName'[e] /\ HostOf(e)' \in HostNames
           /\ host'[HostOf(e)'] = Directory => subdir'[e] = HostOf(e)'
  <1>1. /\ GetOrigName(e, new.name)
        /\ \/ /\ host[origName'[e]] # Directory /\ host' = host
              /\ subdir' = [subdir EXCEPT ![e] = IF atariName[e] = new.name THEN subdir[e] ELSE NoName]
           \/ /\ subdir' = [subdir EXCEPT ![e] = origName'[e]]
              /\ host' = [host EXCEPT ![origName'[e]] = Directory]
    BY DEF IndicateCreateDirectory
  <1>2. /\ Own(atariName', origName') /\ atariName'[e] = new.name /\ origName'[e] \in HostNames
        /\ \A d \in Slots \ {e} : atariName'[d] = atariName[d] /\ origName'[d] = origName[d]
    BY <1>1, NamesOwn DEF MirrorInv
  <1>3. Beside(e)
    BY <1>1, <1>2 DEF Beside, VirtualTypeOK
  <1>4. HostOf(e)' = origName'[e] /\ Live(e)'
    BY <1>2 DEF HostOf, HostFor, Live
  <1>5. \A h \in HostNames : h \in Paths /\ In(h) \in Paths /\ In(h) # origName'[e]
    BY <1>2, HostIsPath, InIsNoName
  <1>6. OnlyItsFile(e)
    BY <1>1, <1>4, <1>5 DEF OnlyItsFile, VirtualTypeOK
  <1>7. host'[origName'[e]] = Directory => subdir'[e] = origName'[e]
    BY <1>1 DEF VirtualTypeOK
  <1> QED
    BY <1>2, <1>3, <1>4, <1>6, <1>7

\* Nothing of it changes the host.
LEMMA QuietMirrors ==
    ASSUME VirtualTypeOK, MirrorInv, NEW e \in Slots, \A d \in Slots \ {e} : entry'[d] = entry[d],
           Ignored \/ IndicateDeleteEntry(e)
    PROVE  Beside(e) /\ OnlyItsFile(e) /\ Own(atariName', origName')
  <1>1. CASE Ignored
    BY <1>1 DEF Ignored, Beside, OnlyItsFile, MirrorInv
  <1>2. CASE IndicateDeleteEntry(e)
    <2>1. /\ atariName' = [atariName EXCEPT ![e] = NoName] /\ origName' = [origName EXCEPT ![e] = NoName]
          /\ subdir' = [subdir EXCEPT ![e] = NoName] /\ host' = host
      BY <1>2 DEF IndicateDeleteEntry
    <2>2. Beside(e) /\ OnlyItsFile(e) /\ atariName'[e] = NoName
      BY <2>1 DEF Beside, OnlyItsFile, VirtualTypeOK
    <2>3. Own(atariName', origName')
      BY <2>2, ListingsAssumption DEF Own, Beside, MirrorInv
    <2> QED
      BY <2>2, <2>3
  <1> QED
    BY <1>1, <1>2
-----------------------------------------------------------------------------
(* What the Atari's DOS does.                                              *)

LEMMA EffectKeeps ==
    ASSUME VirtualTypeOK, VirtualTypeOK', MirrorInv, NEW e \in Slots, Effect(e), There(e)',
           inside[e].st # "none" => entry'[e].st = "dir"
    PROVE  MirrorInv'
  <1>1. \A d \in Slots \ {e} : There(d)'
    BY OthersStayThere
  <1>2. FullStays'
    BY DEF FullStays, MirrorInv, Effect, Beside
  <1>3. \A d \in Slots : There(d)'
    BY <1>1
  <1> QED
    BY <1>2, <1>3 DEF MirrorInv, Effect

LEMMA NamesStayApart ==
    ASSUME VirtualTypeOK, MirrorInv, NEW e \in Slots, \A d \in Slots \ {e} : entry'[d] = entry[d],
           Live(e)' => Fresh(entry'[e].name) \/ (Live(e) /\ entry[e].name = entry'[e].name)
    PROVE  OwnEntries'
  <1>1. \A d \in Slots \ {e} : Live(d)' => Live(d)
    BY DEF Live
  <1>2. ASSUME NEW d \in Slots \ {e}, Live(e)', Live(d)
        PROVE  entry[d].name # entry'[e].name
    BY <1>2 DEF Fresh, MirrorInv, OwnEntries
  <1> QED
    BY <1>1, <1>2 DEF OwnEntries, MirrorInv

\* What the host has got is where it is looked for.
LEMMA HostPut ==
    ASSUME VirtualTypeOK, NEW e \in Slots, NEW new \in Entries, WriteForHost(e, new)
    PROVE  /\ IndicateSectorWrite(e, new)
           /\ entry'[e].st = new.st /\ entry'[e].name = new.name /\ entry'[e].data = new.data
           /\ \A d \in Slots \ {e} : entry'[d] = entry[d]
           /\ Observed(e) /\ entry'[e].was = new.name /\ new.name \in Names =>
                  host'[origName'[e]] = (IF new.st = "dir" THEN Directory ELSE new.data)
  <1> DEFINE w == IF Arrived(e, new) THEN new.name ELSE NoName
  <1>1. IndicateSectorWrite(e, new) /\ entry' = [entry EXCEPT ![e] = [new EXCEPT !.was = w]]
    BY DEF WriteForHost
  <1>2. entry'[e] = [new EXCEPT !.was = w] /\ \A d \in Slots \ {e} : entry'[d] = entry[d]
    BY <1>1 DEF VirtualTypeOK
  <1>3. /\ entry'[e].st = new.st /\ entry'[e].name = new.name /\ entry'[e].data = new.data
        /\ entry'[e].was = w
    BY <1>2 DEF Entries
  <1> QED
    BY <1>1, <1>2, <1>3, ListingsAssumption DEF Arrived

LEMMA OpenMirrors ==
    ASSUME VirtualTypeOK, VirtualTypeOK', MirrorInv, NEW e \in Slots, NEW n \in Names, OpenFile(e, n)
    PROVE  MirrorInv'
  <1>1. PICK new : new = [st |-> "open", name |-> n, data |-> writes + 1, was |-> entry[e].was]
    OBVIOUS
  <1>2. /\ entry' = [entry EXCEPT ![e] = new] /\ inside' = inside /\ IndicateSectorWrite(e, new)
        /\ entry[e].st \notin {"open", "dir"}
        /\ Fresh(n) \/ (Live(e) /\ entry[e].name = n)
    BY <1>1 DEF OpenFile, WriteEntry, Live
  <1>3. /\ new.st = "open" /\ new.name = n /\ entry'[e] = new
        /\ \A d \in Slots \ {e} : entry'[d] = entry[d]
    BY <1>1, <1>2 DEF VirtualTypeOK
  <1>4. Ignored
    BY <1>2, <1>3 DEF IndicateSectorWrite
  <1>5. inside[e].st = "none"
    BY <1>2 DEF MirrorInv, FullStays
  <1>6. Effect(e)
    BY <1>2, <1>3, <1>4, <1>5, QuietMirrors, NamesStayApart DEF Effect
  <1>7. There(e)'
    BY <1>2, <1>3, <1>5 DEF There
  <1> QED
    BY <1>5, <1>6, <1>7, EffectKeeps

LEMMA CloseFileMirrors ==
    ASSUME VirtualTypeOK, VirtualTypeOK', MirrorInv, alive', NEW e \in Slots, CloseFile(e)
    PROVE  MirrorInv'
  <1>1. PICK new : new = [entry[e] EXCEPT !.st = "closed"]
    OBVIOUS
  <1>2. entry[e].st = "open" /\ inside' = inside /\ WriteForHost(e, new)
    BY <1>1 DEF CloseFile
  <1>3. /\ new \in Entries /\ new.st = "closed" /\ new.name = entry[e].name /\ new.name \in Names
        /\ new.data = entry[e].data
    <2>1. entry[e] \in Entries
      BY DEF VirtualTypeOK, Entries
    <2>2. entry[e] = [st |-> "open", name |-> entry[e].name, data |-> entry[e].data, was |-> entry[e].was]
      BY <1>2, <2>1 DEF Entries
    <2>3. new = [st |-> "closed", name |-> entry[e].name, data |-> entry[e].data, was |-> entry[e].was]
      BY <1>1, <2>2
    <2>4. entry[e].name \in Names
      BY <1>2 DEF VirtualTypeOK
    <2> QED
      BY <2>1, <2>3, <2>4 DEF Entries
  <1>4. /\ IndicateSectorWrite(e, new)
        /\ entry'[e].st = "closed" /\ entry'[e].name = new.name /\ entry'[e].data = new.data
        /\ \A d \in Slots \ {e} : entry'[d] = entry[d]
        /\ Observed(e) /\ entry'[e].was = new.name => host'[origName'[e]] = new.data
    BY <1>2, <1>3, HostPut
  <1>5. OwnEntries'
    BY <1>2, <1>3, <1>4, NamesStayApart DEF Live
  <1>6. inside[e].st = "none"
    BY <1>2 DEF MirrorInv, FullStays
  <1>7. CASE ~ Observed(e)
    <2>1. Ignored
      BY <1>4, <1>7 DEF IndicateSectorWrite
    <2>2. Effect(e)
      BY <1>2, <1>4, <1>5, <1>6, <2>1, QuietMirrors DEF Effect
    <2>3. There(e)'
      BY <1>7 DEF There, Settled
    <2> QED
      BY <1>6, <2>2, <2>3, EffectKeeps
  <1>8. CASE Observed(e)
    <2>1. IndicateCloseFile(e, new)
      BY <1>2, <1>3, <1>4, <1>8 DEF IndicateSectorWrite
    <2>2. /\ Beside(e) /\ OnlyItsFile(e) /\ Own(atariName', origName')
          /\ HostOf(e)' = origName'[e] /\ HostOf(e)' \in HostNames
      BY <1>3, <1>4, <2>1, CloseMirrors
    <2>3. Effect(e)
      BY <1>2, <1>5, <1>6, <2>2 DEF Effect
    <2>4. There(e)'
      BY <1>2, <1>4, <1>6, <2>2 DEF There, Settled
    <2> QED
      BY <1>6, <2>3, <2>4, EffectKeeps
  <1> QED
    BY <1>7, <1>8

LEMMA DeleteMirrors ==
    ASSUME VirtualTypeOK, VirtualTypeOK', MirrorInv, NEW e \in Slots, NEW st \in {"deleted", "free"}, Delete(e, st)
    PROVE  MirrorInv'
  <1>1. PICK new : new = [st |-> st, name |-> IF st = "free" THEN NoName ELSE entry[e].name,
                          data |-> 0, was |-> NoName]
    OBVIOUS
  <1>2. /\ entry' = [entry EXCEPT ![e] = new] /\ inside' = inside /\ IndicateSectorWrite(e, new)
        /\ inside[e].st = "none"
    BY <1>1 DEF Delete, WriteEntry
  <1>3. new.st \in {"deleted", "free"} /\ entry'[e] = new /\ \A d \in Slots \ {e} : entry'[d] = entry[d]
    BY <1>1, <1>2 DEF VirtualTypeOK
  <1>4. Ignored \/ IndicateDeleteEntry(e)
    BY <1>2, <1>3 DEF IndicateSectorWrite
  <1>5. ~Live(e)'
    BY <1>3 DEF Live
  <1>6. Effect(e)
    BY <1>2, <1>3, <1>4, <1>5, QuietMirrors, NamesStayApart DEF Effect
  <1>7. There(e)'
    BY <1>2, <1>3 DEF There
  <1> QED
    BY <1>2, <1>6, <1>7, EffectKeeps

LEMMA MakeDirectoryMirrors ==
    ASSUME VirtualTypeOK, VirtualTypeOK', MirrorInv, alive', NEW e \in Slots, NEW n \in Names, MakeDirectory(e, n)
    PROVE  MirrorInv'
  <1>1. PICK new : new = [st |-> "dir", name |-> n, data |-> 0, was |-> NoName]
    OBVIOUS
  <1>2. /\ inside' = inside /\ WriteForHost(e, new)
        /\ entry[e].st \in {"free", "deleted"} /\ Fresh(n)
    BY <1>1 DEF MakeDirectory, Live, VirtualTypeOK
  <1>3. new \in Entries /\ new.st = "dir" /\ new.name = n
    BY <1>1 DEF Entries
  <1>4. /\ IndicateSectorWrite(e, new)
        /\ entry'[e].st = "dir" /\ entry'[e].name = n
        /\ \A d \in Slots \ {e} : entry'[d] = entry[d]
        /\ Observed(e) /\ entry'[e].was = n => host'[origName'[e]] = Directory
    BY <1>2, <1>3, HostPut
  <1>5. OwnEntries'
    BY <1>2, <1>4, NamesStayApart
  <1>6. inside[e].st = "none"
    BY <1>2 DEF MirrorInv, FullStays
  <1>7. CASE ~ Observed(e)
    <2>1. Ignored
      BY <1>4, <1>7 DEF IndicateSectorWrite
    <2>2. Effect(e)
      BY <1>2, <1>4, <1>5, <1>6, <2>1, QuietMirrors DEF Effect
    <2>3. There(e)'
      BY <1>7 DEF There, Settled
    <2> QED
      BY <1>6, <2>2, <2>3, EffectKeeps
  <1>8. CASE Observed(e)
    <2>1. IndicateCreateDirectory(e, new)
      BY <1>2, <1>3, <1>4, <1>8 DEF IndicateSectorWrite
    <2>2. /\ Beside(e) /\ OnlyItsFile(e) /\ Own(atariName', origName')
          /\ HostOf(e)' = origName'[e] /\ HostOf(e)' \in HostNames
          /\ host'[HostOf(e)'] = Directory => subdir'[e] = HostOf(e)'
      BY <1>3, <1>4, <2>1, CreateMirrors
    <2>3. Effect(e)
      BY <1>2, <1>5, <1>6, <2>2 DEF Effect
    <2>4. There(e)'
      BY <1>2, <1>4, <1>6, <2>2 DEF There, Settled
    <2> QED
      BY <1>6, <2>3, <2>4, EffectKeeps
  <1> QED
    BY <1>7, <1>8

LEMMA RenameMirrors ==
    ASSUME VirtualTypeOK, VirtualTypeOK', MirrorInv, NEW e \in Slots, NEW n \in Names, Rename(e, n)
    PROVE  MirrorInv'
  <1>1. PICK new : new = [entry[e] EXCEPT !.name = n, !.was = NoName]
    OBVIOUS
  <1>2. /\ entry' = [entry EXCEPT ![e] = new] /\ inside' = inside /\ IndicateSectorWrite(e, new) /\ Fresh(n)
    BY <1>1 DEF Rename, WriteEntry
  <1>3. /\ new.st = entry[e].st /\ new.name = n /\ new.was = NoName /\ entry'[e] = new
        /\ \A d \in Slots \ {e} : entry'[d] = entry[d]
    BY <1>1, <1>2 DEF VirtualTypeOK
  <1>4. Ignored
    BY <1>2, <1>3 DEF IndicateSectorWrite
  <1>5. Effect(e)
    BY <1>2, <1>3, <1>4, QuietMirrors, NamesStayApart DEF Effect, Ignored
  <1>6. There(e)'
    BY <1>3, ListingsAssumption DEF There, Settled
  <1>7. inside[e].st # "none" => entry'[e].st = "dir"
    BY <1>3 DEF MirrorInv, FullStays
  <1> QED
    BY <1>5, <1>6, <1>7, EffectKeeps

LEMMA InsideMirrors ==
    ASSUME VirtualTypeOK, MirrorInv, NEW e \in Slots, WriteInside(e)
    PROVE  MirrorInv'
  <1>1. PICK w : w = writes + 1
    OBVIOUS
  <1>2. PICK x, st :
          /\ inside' = [inside EXCEPT ![e] = [st |-> st, data |-> w]] /\ st \in {"closed", "lost"}
          /\ entry[e].st = "dir" /\ UNCHANGED <<entry, atariName, origName, subdir>>
          /\ host' = IF subdir[e] = NoName THEN host ELSE [host EXCEPT ![In(subdir[e])] = x]
          /\ subdir[e] # NoName /\ host'[In(subdir[e])] # w => st = "lost"
    BY <1>1 DEF WriteInside
  <1>3. /\ inside'[e].st = st /\ inside'[e].data = w
        /\ \A d \in Slots \ {e} : inside'[d] = inside[d]
    BY <1>2 DEF VirtualTypeOK
  <1>4. /\ \A h \in HostNames : host'[h] = host[h]
        /\ \A h \in HostNames : subdir[e] # h => host'[In(h)] = host[In(h)]
    <2>1. \A h \in HostNames : h # NoName /\ h \in Paths /\ In(h) \in Paths
      BY ListingsAssumption, HostIsPath, InIsNoName
    <2>2. CASE subdir[e] = NoName
      BY <1>2, <2>1, <2>2
    <2>3. CASE subdir[e] # NoName
      <3>1. subdir[e] \in HostNames
        BY <2>3 DEF VirtualTypeOK
      <3>2. \A h \in HostNames : In(subdir[e]) # h /\ (In(h) = In(subdir[e]) <=> h = subdir[e])
        BY <3>1, InApart, InIsNoName
      <3>3. DOMAIN host = Paths
        BY DEF VirtualTypeOK
      <3> QED
        BY <1>2, <2>1, <2>3, <3>1, <3>2, <3>3
    <2> QED
      BY <2>2, <2>3
  <1>5. OwnEntries' /\ Own(atariName', origName') /\ FullStays'
    BY <1>2, <1>3 DEF MirrorInv, OwnEntries, Live, FullStays
  <1>6. \A d \in Slots : HostOf(d)' = HostOf(d) /\ Settled(d)' = Settled(d) /\ There(d)
    BY <1>2 DEF HostOf, Settled, MirrorInv
  <1>7. \A d \in Slots : \A h : Shared(d, h) => Shared(d, h)'
    BY <1>2, <1>3 DEF Shared
  <1>8. ASSUME NEW d \in Slots, Settled(d)
        PROVE  There(d)'
    <2>1. CASE entry[d].st \notin {"closed", "dir"}
      BY <1>2, <1>5, <2>1 DEF There, FullStays
    <2>2. CASE entry[d].st \in {"closed", "dir"}
      <3>1. PICK h : h = HostOf(d)
        OBVIOUS
      <3>2. h \in HostNames /\ h # NoName
        BY <1>6, <1>8, <2>2, <3>1, ListingsAssumption DEF There
      <3>3. /\ HostOf(d)' = h /\ host'[h] = host[h] /\ entry' = entry /\ subdir' = subdir
            /\ subdir[e] # h => host'[In(h)] = host[In(h)]
        BY <1>2, <1>4, <1>6, <3>1, <3>2
      <3>4. /\ entry[d].st = "closed" => host[h] = entry[d].data
            /\ entry[d].st = "dir" => host[h] = Directory /\ subdir[d] = h
            /\ inside[d].st = "closed" => Shared(d, h) \/ host[In(h)] = inside[d].data
        BY <1>6, <1>8, <3>1 DEF There
      <3>5. ASSUME inside'[d].st = "closed"
            PROVE  Shared(d, h)' \/ host'[In(h)] = inside'[d].data
        <4>1. CASE d = e
          BY <1>2, <1>3, <3>2, <3>4, <3>5, <4>1
        <4>2. CASE d # e /\ subdir[e] = h
          BY <1>2, <1>3, <4>2 DEF Shared
        <4>3. CASE d # e /\ subdir[e] # h
          BY <1>3, <1>7, <3>3, <3>4, <3>5, <4>3
        <4> QED
          BY <4>1, <4>2, <4>3
      <3> QED
        BY <3>2, <3>3, <3>4, <3>5 DEF There
    <2> QED
      BY <2>1, <2>2
  <1>9. \A d \in Slots : There(d)'
    BY <1>6, <1>8 DEF There
  <1> QED
    BY <1>5, <1>9 DEF MirrorInv

\* While the server runs.
RunInv == alive => MirrorInv

LEMMA MirrorStep ==
    ASSUME VirtualTypeOK, VirtualTypeOK', RunInv, [VirtualNext]_virtualvars
    PROVE  RunInv'
  <1>1. CASE UNCHANGED virtualvars
    BY <1>1 DEF virtualvars, RunInv, MirrorInv, OwnEntries, Live, FullStays, There, Settled, Shared, HostOf
  <1>2. CASE VirtualNext
    BY <1>2, OpenMirrors, MakeDirectoryMirrors, RenameMirrors, CloseFileMirrors, InsideMirrors,
       DeleteMirrors DEF VirtualNext, RunInv
  <1> QED
    BY <1>1, <1>2

LEMMA InitMirror == OwnNames /\ VirtualInit => MirrorInv
  <1> SUFFICES ASSUME OwnNames, VirtualInit PROVE MirrorInv
    OBVIOUS
  <1>1. PICK l \in Listings :
        /\ entry = [e \in Slots |-> [st |-> l[e].st, name |-> l[e].name, data |-> 0,
                                  was |-> IF l[e].host = NoName THEN NoName ELSE l[e].name]]
        /\ inside = [e \in Slots |-> [st |-> "none", data |-> 0]]
        /\ atariName = [e \in Slots |-> l[e].name]
        /\ origName = [e \in Slots |-> l[e].host]
        /\ subdir = [e \in Slots |-> IF l[e].st = "dir" THEN l[e].host ELSE NoName]
        /\ host = [h \in Paths |->
                     IF \E e \in Slots : l[e].host = h
                     THEN LET e == CHOOSE e \in Slots : l[e].host = h
                          IN  IF l[e].st = "dir" THEN Directory ELSE 0
                     ELSE Nothing]
    BY DEF VirtualInit
  <1>2. \A e \in Slots : /\ entry[e].st = l[e].st /\ entry[e].name = l[e].name /\ entry[e].data = 0
                         /\ inside[e].st = "none" /\ atariName[e] = l[e].name /\ origName[e] = l[e].host
                         /\ subdir[e] = IF l[e].st = "dir" THEN l[e].host ELSE NoName
    BY <1>1
  <1>3. \A e \in Slots : /\ l[e].st \in {"free", "closed", "dir"}
                         /\ l[e].st # "free" => l[e].name \in Names
                         /\ l[e].host \in HostNames \cup {NoName} /\ NoName \notin Names \cup HostNames
                         /\ l[e].st = "dir" => l[e].host \in HostNames
    BY ListingsAssumption
  <1>4. OwnEntries /\ FullStays
    BY <1>2, <1>3 DEF OwnEntries, OwnNames, Live, FullStays
  <1>5. Own(atariName, origName)
    BY <1>2, <1>3 DEF Own, OwnNames
  <1>6. ASSUME NEW e \in Slots, l[e].host # NoName
        PROVE  HostOf(e) = l[e].host /\ host[l[e].host] = IF l[e].st = "dir" THEN Directory ELSE 0
    <2>1. HostOf(e) = l[e].host
      BY <1>2 DEF HostOf, HostFor
    <2>2. l[e].host \in Paths
      BY <1>3, <1>6, HostIsPath
    <2>3. host[l[e].host] = LET d == CHOOSE d \in Slots : l[d].host = l[e].host
                            IN  IF l[d].st = "dir" THEN Directory ELSE 0
      BY <1>1, <2>2
    <2>4. \A d \in Slots : l[d].host = l[e].host => d = e
      BY <1>3, <1>6 DEF OwnNames
    <2> QED
      BY <2>1, <2>3, <2>4
  <1>7. ASSUME NEW e \in Slots, Settled(e)
        PROVE  l[e].host # NoName
    BY <1>1, <1>3, <1>7 DEF Settled
  <1>8. \A e \in Slots : There(e)
    BY <1>2, <1>3, <1>6, <1>7 DEF There
  <1> QED
    BY <1>4, <1>5, <1>8 DEF MirrorInv

\* What the Atari wrote on a virtual drive, and the server took to the host without
\* failing, is there under the name the entry has there: whatever is written, renamed,
\* deleted and made afterwards and whatever of it fails, for any names and entries, as
\* long as the host has no file that is shown under a name it would be given itself if
\* it were another (OwnNames; without it a new file may replace one shown beside it).
THEOREM HostMirrors == OwnNames /\ VirtualSpec => []Mirrored
  <1>1. VirtualTypeOK /\ RunInv /\ [VirtualNext]_virtualvars /\ VirtualTypeOK' => RunInv'
    BY MirrorStep
  <1>2. RunInv => Mirrored
    <2> SUFFICES ASSUME MirrorInv, NEW e \in Slots, Settled(e)
                 PROVE  LET h == HostOf(e) IN
                          /\ entry[e].st = "closed" => host[h] = entry[e].data
                          /\ entry[e].st = "dir" => host[h] = Directory
                          /\ entry[e].st = "dir" /\ inside[e].st = "closed" /\ (\A d \in Slots \ {e} : subdir[d] # h) =>
                                host[In(h)] = inside[e].data
      BY DEF Mirrored, Backed, HostOf, HostFor, Settled, RunInv
    <2>1. There(e)
      BY DEF MirrorInv
    <2> QED
      BY <2>1 DEF There, Shared
  <1>3. OwnNames /\ VirtualInit => RunInv
    BY InitMirror DEF RunInv
  <1> QED
    BY VirtualTypeCorrect, <1>1, <1>2, <1>3, PTL DEF VirtualSpec

-----------------------------------------------------------------------------
(***************************************************************************)
(* The copy program: whatever commands fail, and however often, what       *)
(* atarixfer calls a success is a true copy but for the sectors whose      *)
(* errors it printed.                                                      *)
(***************************************************************************)

-----------------------------------------------------------------------------
(* The inductive invariant.                                                *)

Densities  == {"90k", "130k", "180k", "360k"}
ReadSteps  == {"density", "status", "probe721", "read"}
WriteSteps == {"check", "percom", "percom_put", "format", "write"}

DiskOK(d) ==
    /\ d = [fmt |-> d.fmt, data |-> d.data]
    /\ d.fmt \in Formats /\ d.data \in [1 .. Sectors[d.fmt] -> Contents]

\* The copy starts with the first sector.
XferTypeOK ==
    /\ opt \in [mode : {"read", "write"}, force : {"none"} \cup Densities, goon : BOOLEAN,
                usd : BOOLEAN, xf : BOOLEAN, retries : Nat]
    /\ step \in {"speed", "done", "failed"} \cup (IF opt.mode = "read" THEN ReadSteps ELSE WriteSteps)
    /\ drive = [disk |-> drive.disk, conf |-> drive.conf, percom |-> drive.percom, kind |-> drive.kind]
    /\ DiskOK(drive.disk) /\ drive.conf \in Formats \cup {"odd"}
    /\ DiskOK(img)
    /\ sec \in Nat \ {0}
    /\ step \notin {"read", "write", "done", "failed"} => sec = 1

\* What has been read is what is on the disk.
ReadInv ==
    opt.mode = "read" /\ step \in {"read", "done"} =>
        /\ \A s \in 1 .. Sectors[img.fmt] :
             s < sec /\ s \notin bad => s \in DOMAIN drive.disk.data /\ drive.disk.data[s] = img.data[s]
        /\ step = "done" => sec > Sectors[img.fmt]

\* The image has the format of the disk, or one of the two that sector 721 tells apart.
FormatInv ==
    opt.mode = "read" /\ opt.force = "none" /\ ~misled =>
       /\ step \in {"read", "done"} => img.fmt = drive.disk.fmt
       /\ step = "probe721" => \/ img.fmt = "90k" /\ drive.disk.fmt \in {"90k", "130k"}
                              \/ {img.fmt, drive.disk.fmt} \subseteq {"180k", "360k"}

\* A drive that is told to format will do so with as many sectors as are copied:
\* it has taken the configuration, or has none to take, or is asked for the least,
\* unless it kept a user defined format.
ConfigInv ==
    opt.mode = "write" =>
       /\ step \in {"percom", "percom_put", "format"} => DiskFormat # "other"
       /\ step = "percom_put" => drive.percom
       /\ step = "format" => DiskFormat \in {"90k", "130k"} \/ (drive.percom /\ drive.conf = DiskFormat)

OnDisk(s) == IF s \in DOMAIN drive.disk.data THEN drive.disk.data[s] = img.data[s]
              ELSE drive.disk.fmt = "other" /\ img.data[s] = Zero

\* What is not written yet is zero; a sector whose answer was lost may be
\* written when it is tried again.
WriteInv ==
    opt.mode = "write" /\ step \in {"write", "done"} =>
        /\ drive.disk.fmt # "other" => Total <= Sectors[drive.disk.fmt]
        /\ \A s \in 1 .. Total :
             /\ s < sec /\ s \notin bad => OnDisk(s)
             /\ s = sec /\ s \in DOMAIN drive.disk.data => drive.disk.data[s] \in {Zero, img.data[s]}
             /\ s > sec /\ s \in DOMAIN drive.disk.data => drive.disk.data[s] = Zero
        /\ step = "done" => sec > Total

XferInv == XferTypeOK /\ ReadInv /\ FormatInv /\ ConfigInv /\ WriteInv

LEMMA NewDisk ==
    ASSUME NEW f \in Formats, NEW c \in Contents
    PROVE  /\ DiskOK(Disk(f, c)) /\ Disk(f, c).fmt = f
           /\ \A s \in 1 .. Sectors[f] : Disk(f, c).data[s] = c
  BY DEF DiskOK, Disk

LEMMA FormatsKnown ==
    /\ Formats = Densities \cup {"other"} /\ Zero \in Contents
    /\ \A f \in Formats : Sectors[f] \in Nat \ {0}
    /\ Sectors["90k"] < Sectors["130k"] /\ Sectors["180k"] < Sectors["130k"]
    /\ Sectors["130k"] <= Sectors["360k"]
  BY XferAssumption DEF Densities, Formats

LEMMA XferInvInit == XferInit => XferInv
  <1> SUFFICES ASSUME XferInit PROVE XferInv
    OBVIOUS
  <1>1. /\ opt \in [mode : {"read", "write"}, force : {"none"} \cup Densities, goon : BOOLEAN,
                    usd : BOOLEAN, xf : BOOLEAN, retries : Nat]
        /\ step = "speed" /\ sec = 1
    BY XferAssumption DEF XferInit, ProgramInit, Densities
  <1>2. PICK f \in Formats, g \in Formats \cup {"odd"}, p \in BOOLEAN, k \in {"plain", "ultra", "xf551"},
             c \in Contents \ {Zero} :
          drive = [disk |-> Disk(f, c), conf |-> g, percom |-> p, kind |-> k]
    BY DEF XferInit, WorldInit
  <1>3. /\ drive = [disk |-> drive.disk, conf |-> drive.conf, percom |-> drive.percom, kind |-> drive.kind]
        /\ drive.disk = Disk(f, c) /\ drive.conf \in Formats \cup {"odd"}
    BY <1>2
  <1>4. DiskOK(drive.disk)
    BY <1>3, NewDisk, FormatsKnown
  <1>5. DiskOK(img)
    <2>1. PICK h \in Formats, i \in 1 .. LastProbed, b \in Contents :
            img = [Disk(h, Zero) EXCEPT !.data[IF i \in 1 .. Sectors[h] THEN i ELSE 1] = b]
      BY Zenon DEF XferInit, WorldInit
    <2>2. DiskOK(Disk(h, Zero)) /\ Disk(h, Zero).fmt = h
      BY NewDisk, FormatsKnown
    <2> QED
      BY <2>1, <2>2 DEF DiskOK
  <1> QED
    BY <1>1, <1>3, <1>4, <1>5 DEF XferInv, XferTypeOK, ReadInv, FormatInv, ConfigInv, WriteInv

-----------------------------------------------------------------------------
(* The steps before the copy.                                              *)

\* A command that may fail ends in one of the two ways.
LEMMA Asked ==
    ASSUME NEW can, NEW ok, NEW fail, Ask(can, ok, fail)
    PROVE  (can /\ ok) \/ fail
  BY DEF Ask

LEMMA SpeedStep ==
    ASSUME XferInv, Check \/ DetectHighspeedMode
    PROVE  XferInv'
  <1> USE DEF XferInv, XferTypeOK, ReadInv, FormatInv, ConfigInv, WriteInv, DiskFormat, Total, Goto
  <1>1. CASE Check
    <2>1. UNCHANGED <<step, drive, img, sec, tries, bad, misled>>
      BY <1>1 DEF Check
    <2>2. opt' = opt \/ \E x \in BOOLEAN : opt' = [opt EXCEPT !.xf = x]
      BY <1>1 DEF Check, Ask
    <2> QED
      BY <1>1, <2>1, <2>2 DEF Check
  <1>2. CASE DetectHighspeedMode
    BY <1>2 DEF DetectHighspeedMode, ReadSteps, WriteSteps
  <1> QED
    BY <1>1, <1>2

\* A format that is taken, of the drive's word or the user's.
LEMMA DensityTaken ==
    ASSUME XferInv, NEW f \in Formats \cup {"odd"}, Density(f)
    PROVE  /\ step' \in {"probe721", "read", "failed"}
           /\ img' = img \/ \E g \in Formats : img' = Disk(g, Zero)
           /\ step' # "failed" => f \in Formats /\ img' = Disk(f, Zero) /\ img'.fmt = f
           /\ step' = "probe721" <=> Doubtful(f)
  BY NewDisk, FormatsKnown DEF Density, Goto, Doubtful, Disk

\* The word of the drive: it misleads, or the image has the disk's format, or may have.
LEMMA WordTaken ==
    ASSUME XferInv, NEW f \in Formats \cup {"odd"}, Word(f), drive'.disk = drive.disk, ~misled'
    PROVE  /\ step' = "read" => img'.fmt = drive.disk.fmt
           /\ step' = "probe721" => \/ img'.fmt = "90k" /\ drive.disk.fmt \in {"90k", "130k"}
                                   \/ {img'.fmt, drive.disk.fmt} \subseteq {"180k", "360k"}
  <1>1. /\ Density(f)
        /\ f = drive.disk.fmt \/ (Doubtful(f) /\ {f, drive.disk.fmt} \in {{"90k", "130k"}, {"180k", "360k"}})
    BY DEF Word
  <1>2. /\ step' # "failed" => img'.fmt = f
        /\ step' = "probe721" <=> Doubtful(f)
    BY <1>1, DensityTaken
  <1>3. Doubtful(f) => f \in {"90k", "180k", "360k"}
    BY DEF Doubtful
  <1>4. f = drive.disk.fmt \/ {f, drive.disk.fmt} = {"90k", "130k"} \/ {f, drive.disk.fmt} = {"180k", "360k"}
    BY <1>1
  <1>5. CASE f = drive.disk.fmt
    BY <1>2, <1>3, <1>5
  <1>6. CASE f # drive.disk.fmt
    <2>1. Doubtful(f)
      BY <1>1, <1>6
    <2>2. CASE {f, drive.disk.fmt} = {"90k", "130k"}
      <3>1. f \in {"90k", "130k"} /\ drive.disk.fmt \in {"90k", "130k"}
        BY <2>2
      <3> QED
        BY <1>2, <1>3, <2>1, <3>1
    <2>3. CASE {f, drive.disk.fmt} = {"180k", "360k"}
      <3>1. f \in {"180k", "360k"} /\ drive.disk.fmt \in {"180k", "360k"}
        BY <2>3
      <3> QED
        BY <1>2, <2>1, <3>1
    <2> QED
      BY <1>4, <1>6, <2>2, <2>3
  <1> QED
    BY <1>5, <1>6

\* Sector 721 tells the larger format from the smaller, unless its answer is lost.
LEMMA ProbeTells ==
    ASSUME XferInv, Probe721
    PROVE  /\ \E f \in Formats : img' = Disk(f, Zero)
           /\ FormatInv'
  <1> USE DEF XferInv
  <1>1. /\ step = "probe721" /\ step' = "read" /\ UNCHANGED <<opt, drive>>
        /\ drive.disk.fmt \in Formats /\ DOMAIN drive.disk.data = 1 .. Sectors[drive.disk.fmt]
    BY DEF Probe721, Goto, XferTypeOK, DiskOK
  <1>2. /\ LastProbed \in Nat /\ LastProbed > 1
        /\ Sectors["90k"] < LastProbed /\ Sectors["180k"] < LastProbed /\ LastProbed <= Sectors["360k"]
    BY FormatsKnown DEF LastProbed, Densities
  <1>3. \/ /\ ReadSector(LastProbed, Length(img.fmt)) /\ UNCHANGED misled
           /\ img' = Disk(IF img.fmt = "90k" THEN "130k" ELSE "360k", Zero)
        \/ /\ misled' = (misled \/ ReadSector(LastProbed, Length(img.fmt)))
           /\ img' = Disk(IF img.fmt = "90k" THEN "90k" ELSE "180k", Zero)
    BY DEF Probe721, Ask
  <1>4. /\ \E f \in Formats : img' = Disk(f, Zero)
        /\ img'.fmt \in Formats
    BY <1>3, NewDisk, FormatsKnown DEF Densities
  <1>5. ASSUME opt.mode = "read", opt.force = "none", ~misled'
        PROVE  img'.fmt = drive.disk.fmt
    <2>1. ~misled
      BY <1>3, <1>5
    <2>2. \/ img.fmt = "90k" /\ drive.disk.fmt \in {"90k", "130k"}
          \/ {img.fmt, drive.disk.fmt} \subseteq {"180k", "360k"}
      BY <1>1, <1>5, <2>1 DEF FormatInv
    <2>3. ReadSector(LastProbed, Length(img.fmt)) <=> drive.disk.fmt \in {"130k", "360k"}
      <3>1. LastProbed \in DOMAIN drive.disk.data <=> drive.disk.fmt \in {"130k", "360k"}
        BY <1>1, <1>2, <2>2, FormatsKnown DEF LastProbed, Densities
      <3>2. SectorLen(drive.disk.fmt, LastProbed) = Length(img.fmt)
        BY <1>2, <2>2 DEF SectorLen, Length
      <3> QED
        BY <3>1, <3>2 DEF ReadSector
    <2>4. img'.fmt = IF img.fmt = "90k" THEN IF drive.disk.fmt \in {"130k", "360k"} THEN "130k" ELSE "90k"
                     ELSE IF drive.disk.fmt \in {"130k", "360k"} THEN "360k" ELSE "180k"
      <3>1. \A f \in Formats : Disk(f, Zero).fmt = f
        BY NewDisk, FormatsKnown
      <3>2. {"90k", "130k", "180k", "360k"} \subseteq Formats
        BY FormatsKnown DEF Densities
      <3>3. ~ReadSector(LastProbed, Length(img.fmt)) \/ img' = Disk(IF img.fmt = "90k" THEN "130k" ELSE "360k", Zero)
        BY <1>3, <1>5
      <3>4. ReadSector(LastProbed, Length(img.fmt)) \/ img' = Disk(IF img.fmt = "90k" THEN "90k" ELSE "180k", Zero)
        BY <1>3
      <3>5. CASE drive.disk.fmt \in {"130k", "360k"}
        BY <2>3, <3>1, <3>2, <3>3, <3>5
      <3>6. CASE drive.disk.fmt \notin {"130k", "360k"}
        BY <2>3, <3>1, <3>2, <3>4, <3>6
      <3> QED
        BY <3>5, <3>6
    <2> QED
      BY <2>2, <2>4
  <1> QED
    BY <1>1, <1>4, <1>5 DEF FormatInv

LEMMA DensityStep ==
    ASSUME XferInv, GetDensity \/ AskStatus \/ Probe721
    PROVE  XferInv'
  <1> USE DEF XferInv, Goto
  <1>1. /\ opt.mode = "read" /\ UNCHANGED <<opt, sec, bad>> /\ sec = 1
        /\ step \in {"density", "status", "probe721"}
    BY DEF GetDensity, AskStatus, Probe721, XferTypeOK, ReadSteps, WriteSteps
  <1>2. /\ drive'.disk = drive.disk /\ drive'.conf \in Formats \cup {"odd"}
        /\ drive' = [disk |-> drive'.disk, conf |-> drive'.conf, percom |-> drive'.percom, kind |-> drive'.kind]
    <2>1. drive' \in {drive, [drive EXCEPT !.conf = drive.disk.fmt]}
      BY DEF GetDensity, AskStatus, Probe721
    <2> QED
      BY <2>1 DEF XferTypeOK, DiskOK
  <1>3. /\ step' \in {"probe721", "read", "status", "failed"}
        /\ img' = img \/ \E f \in Formats : img' = Disk(f, Zero)
        /\ FormatInv'
    <2>1. CASE GetDensity
      <3>1. CASE opt.force # "none"
        <4>1. Density(opt.force) /\ opt.force \in Formats
          BY <2>1, <3>1, FormatsKnown DEF GetDensity, XferTypeOK
        <4> QED
          BY <1>1, <3>1, <4>1, DensityTaken DEF FormatInv
      <3>2. CASE opt.force = "none"
        <4>1. Word(drive'.conf) \/ (step' = "status" /\ UNCHANGED img)
          BY <2>1, <3>2 DEF GetDensity, Ask
        <4>2. CASE Word(drive'.conf)
          <5>1. Density(drive'.conf)
            BY <4>2 DEF Word
          <5>2. /\ step' \in {"probe721", "read", "failed"}
                /\ img' = img \/ \E f \in Formats : img' = Disk(f, Zero)
            BY <1>2, <5>1, DensityTaken
          <5>3. ~misled' => /\ step' = "read" => img'.fmt = drive.disk.fmt
                            /\ step' = "probe721" => \/ img'.fmt = "90k" /\ drive.disk.fmt \in {"90k", "130k"}
                                                    \/ {img'.fmt, drive.disk.fmt} \subseteq {"180k", "360k"}
            BY <1>2, <4>2, WordTaken
          <5> QED
            BY <1>2, <5>2, <5>3 DEF FormatInv
        <4>3. CASE step' = "status" /\ UNCHANGED img
          BY <4>3 DEF FormatInv
        <4> QED
          BY <4>1, <4>2, <4>3
      <3> QED
        BY <3>1, <3>2
    <2>2. CASE AskStatus
      <3>1. PICK f \in Formats : Word(f) \/ (step' = "failed" /\ UNCHANGED img)
        <4>1. \A f \in Formats : StatusFormat(f) \in Formats
          BY FormatsKnown DEF StatusFormat, Densities
        <4>2. /\ {StatusFormat(f) : f \in {drive.disk.fmt, drive.conf} \ {"odd"}} \subseteq Formats
              /\ "90k" \in Formats
          BY <4>1, FormatsKnown DEF XferTypeOK, DiskOK, Densities
        <4> QED
          BY <2>2, <4>2 DEF AskStatus, Ask
      <3>2. CASE Word(f)
        <4>1. Density(f)
          BY <3>2 DEF Word
        <4>2. /\ step' \in {"probe721", "read", "failed"}
              /\ img' = img \/ \E g \in Formats : img' = Disk(g, Zero)
          BY <4>1, DensityTaken
        <4>3. ~misled' => /\ step' = "read" => img'.fmt = drive.disk.fmt
                          /\ step' = "probe721" => \/ img'.fmt = "90k" /\ drive.disk.fmt \in {"90k", "130k"}
                                                  \/ {img'.fmt, drive.disk.fmt} \subseteq {"180k", "360k"}
          BY <1>2, <3>2, WordTaken
        <4> QED
          BY <1>2, <4>2, <4>3 DEF FormatInv
      <3>3. CASE step' = "failed" /\ UNCHANGED img
        BY <3>3 DEF FormatInv
      <3> QED
        BY <3>1, <3>2, <3>3
    <2>3. CASE Probe721
      <3>1. step' = "read"
        BY <2>3 DEF Probe721
      <3> QED
        BY <2>3, <3>1, ProbeTells
    <2> QED
      BY <2>1, <2>2, <2>3
  <1>4. DiskOK(img')
    BY <1>3, NewDisk, FormatsKnown DEF XferTypeOK
  <1>5. XferTypeOK'
    BY <1>1, <1>2, <1>3, <1>4 DEF XferTypeOK, DiskOK, ReadSteps
  <1>6. ReadInv'
    BY <1>1, <1>3, <1>4, FormatsKnown DEF ReadInv, DiskOK
  <1> QED
    BY <1>1, <1>3, <1>5, <1>6 DEF ConfigInv, WriteInv

LEMMA ConfigStep ==
    ASSUME XferInv, CheckForced \/ Configure \/ PutConfiguration
    PROVE  XferInv'
  <1> USE DEF XferInv, XferTypeOK, ReadInv, FormatInv, ConfigInv, WriteInv, DiskFormat, Total, Goto
  <1>1. /\ opt.mode = "write" /\ UNCHANGED <<opt, img, sec, bad>>
        /\ step' \in {"failed", "percom", "percom_put", "format"}
    BY DEF CheckForced, Configure, PutConfiguration, Ask, ReadSteps, WriteSteps
  <1>2. CASE CheckForced
    BY <1>1, <1>2, FormatsKnown DEF CheckForced, WriteSteps, Densities
  <1>3. CASE Configure
    BY <1>1, <1>3 DEF Configure, Ask, PercomGet, WriteSteps
  <1>4. CASE PutConfiguration
    <2>1. step = "percom_put" /\ DiskFormat \in Densities
      <3>1. img.fmt \in Formats /\ DiskFormat # "other" /\ step = "percom_put"
        BY <1>1, <1>4 DEF PutConfiguration, DiskOK
      <3> QED
        BY <3>1, FormatsKnown DEF Densities
    <2>2. drive' = drive \/ drive' = [drive EXCEPT !.conf = DiskFormat]
      BY <1>4 DEF PutConfiguration, Ask
    <2>3. XferTypeOK'
      <3>1. /\ drive'.disk = drive.disk /\ drive'.conf \in Formats \cup {"odd"}
            /\ drive' = [disk |-> drive'.disk, conf |-> drive'.conf, percom |-> drive'.percom, kind |-> drive'.kind]
        BY <2>1, <2>2, FormatsKnown
      <3>2. DiskOK(drive'.disk) /\ DiskOK(img')
        BY <1>1, <3>1
      <3>3. step' \in {"speed", "done", "failed"} \cup WriteSteps /\ opt'.mode = "write"
        BY <1>1 DEF WriteSteps
      <3>4. XferTypeOK
        OBVIOUS
      <3> HIDE DEF ReadInv, FormatInv, ConfigInv, WriteInv, XferInv
      <3> QED
        BY <1>1, <2>1, <3>1, <3>2, <3>3, <3>4 DEF DiskOK
    <2>4. ConfigInv'
      <3>1. \/ step' \in {"format", "failed"} /\ DiskFormat = "90k"
            \/ step' = "format" /\ drive.percom /\ drive' = [drive EXCEPT !.conf = DiskFormat]
            \/ step' = "failed"
        BY <1>4 DEF PutConfiguration, Ask, PercomPut
      <3> QED
        BY <1>1, <2>1, <3>1, FormatsKnown DEF Densities
    <2> QED
      BY <1>1, <2>3, <2>4
  <1> QED
    BY <1>2, <1>3, <1>4

\* A disk that has just been formatted has the sectors, and they are zeros.
LEMMA FormatStep ==
    ASSUME XferInv, Format
    PROVE  XferInv'
  <1> USE DEF XferInv, Goto
  <1>1. /\ opt.mode = "write" /\ UNCHANGED <<opt, img, sec, bad>> /\ sec = 1
        /\ step = "format" /\ step' \in {"write", "failed"}
    BY DEF Format, Ask, XferTypeOK, ReadSteps
  <1>2. /\ DiskFormat \in Densities /\ NewFormat \in Formats \cup {"odd"}
        /\ DiskFormat \in {"90k", "130k"} \/ (drive.percom /\ drive.conf = DiskFormat)
    <2>1. DiskFormat \in Formats /\ DiskFormat # "other" /\ drive.conf \in Formats \cup {"odd"}
      <3>1. img.fmt \in Formats /\ opt.force \in {"none"} \cup Densities
        BY DEF XferTypeOK, DiskOK
      <3>2. DiskFormat \in Formats
        BY <3>1, FormatsKnown DEF DiskFormat
      <3> QED
        BY <1>1, <3>2 DEF XferTypeOK, ConfigInv
    <2>2. NewFormat \in Formats \cup {"odd"}
      BY <2>1, FormatsKnown DEF NewFormat, Densities
    <2> QED
      BY <1>1, <2>1, <2>2, FormatsKnown DEF ConfigInv
  <1>3. /\ DiskFormat' = DiskFormat /\ Total' = Total /\ Total <= Sectors[DiskFormat] /\ Total \in Nat
    <2>1. img.fmt \in Formats /\ DiskFormat \in Formats
      BY <1>2, FormatsKnown DEF XferTypeOK, DiskOK
    <2> QED
      BY <1>1, <2>1, FormatsKnown DEF DiskFormat, Total
  <1> DEFINE new == Disk(NewFormat, Zero)
  <1>4. ASSUME NewFormat # "odd"
        PROVE  /\ NewFormat \in Formats /\ DiskOK(new) /\ new.fmt = NewFormat
               /\ \A s \in 1 .. Sectors[NewFormat] : new.data[s] = Zero
    BY <1>2, <1>4, NewDisk, FormatsKnown
  <1>5. \/ drive' = drive /\ (step' = "failed" \/ NewFormat = "odd")
        \/ NewFormat # "odd" /\ drive' = [drive EXCEPT !.disk = new, !.conf = NewFormat]
    BY DEF Format, Ask, Formatted
  <1> HIDE DEF new
  <1>6. drive' = [drive EXCEPT !.disk = new, !.conf = NewFormat] =>
          /\ drive'.disk = new /\ drive'.conf = NewFormat
          /\ drive' = [disk |-> drive'.disk, conf |-> drive'.conf, percom |-> drive'.percom, kind |-> drive'.kind]
    BY DEF XferTypeOK
  <1>7. XferTypeOK'
    <2>1. /\ DiskOK(drive'.disk) /\ drive'.conf \in Formats \cup {"odd"}
          /\ drive' = [disk |-> drive'.disk, conf |-> drive'.conf, percom |-> drive'.percom, kind |-> drive'.kind]
      <3>1. CASE drive' = drive
        BY <3>1 DEF XferTypeOK
      <3>2. CASE NewFormat # "odd" /\ drive' = [drive EXCEPT !.disk = new, !.conf = NewFormat]
        BY <1>4, <1>6, <3>2
      <3> QED
        BY <1>5, <3>1, <3>2
    <2> QED
      BY <1>1, <2>1 DEF XferTypeOK, DiskOK, WriteSteps
  <1>8. ASSUME step' = "write"
        PROVE  /\ NewFormat # "odd" /\ drive'.disk = new
               /\ NewFormat = "other" \/ Sectors[DiskFormat] <= Sectors[NewFormat]
    <2>1. DiskFormat = "130k" \/ ~drive.percom \/ FormatDisk(Length(DiskFormat))
      BY <1>8 DEF Format, Ask
    <2>2. CASE DiskFormat = "130k"
      <3>1. NewFormat = "130k"
        BY <2>2 DEF NewFormat
      <3> QED
        BY <1>5, <1>6, <1>8, <2>2, <3>1, FormatsKnown DEF Densities
    <2>3. CASE DiskFormat # "130k" /\ ~drive.percom
      <3>1. NewFormat = "90k" /\ DiskFormat = "90k"
        BY <1>2, <2>3 DEF NewFormat
      <3> QED
        BY <1>5, <1>6, <1>8, <3>1, FormatsKnown DEF Densities
    <2>4. CASE DiskFormat # "130k" /\ drive.percom
      <3>1. NewFormat = drive.conf /\ drive.conf # "odd" /\ Length(drive.conf) = Length(DiskFormat)
        BY <2>1, <2>4 DEF NewFormat, FormatDisk
      <3>2. drive.conf = DiskFormat \/ (DiskFormat = "90k" /\ drive.conf \in {"90k", "130k", "other"})
        <4>1. CASE drive.conf # DiskFormat
          <5>1. DiskFormat = "90k"
            BY <1>2, <2>4, <4>1
          <5>2. Length(drive.conf) = 128 /\ drive.conf \in Formats
            BY <1>2, <3>1, <5>1 DEF Length
          <5> QED
            BY <5>1, <5>2, FormatsKnown DEF Length, Densities
        <4> QED
          BY <4>1
      <3>3. drive'.disk = new
        BY <1>5, <1>6, <1>8, <3>1
      <3> QED
        BY <1>2, <3>1, <3>2, <3>3, FormatsKnown DEF Densities
    <2> QED
      BY <2>2, <2>3, <2>4
  <1>9. WriteInv'
    <2> SUFFICES ASSUME step' = "write"
                 PROVE  /\ drive'.disk.fmt # "other" => Total <= Sectors[drive'.disk.fmt]
                        /\ \A s \in 1 .. Total : s \in DOMAIN drive'.disk.data => drive'.disk.data[s] = Zero
      BY <1>1, <1>3 DEF WriteInv
    <2>1. Sectors[NewFormat] \in Nat /\ Sectors[DiskFormat] \in Nat
      BY <1>2, <1>4, <1>8, FormatsKnown
    <2>2. DOMAIN new.data = 1 .. Sectors[NewFormat]
      BY <1>4, <1>8 DEF DiskOK
    <2> QED
      BY <1>3, <1>4, <1>8, <2>1, <2>2
  <1> QED
    BY <1>1, <1>7, <1>9 DEF ReadInv, FormatInv, ConfigInv

-----------------------------------------------------------------------------
(* The copy.                                                               *)

LEMMA ReadStep ==
    ASSUME XferInv, ReadImage
    PROVE  XferInv'
  <1> USE DEF XferInv, Goto, NextSector, Again
  <1>1. /\ step = "read" /\ opt.mode = "read" /\ UNCHANGED <<opt, drive, misled>>
        /\ step' \in {"read", "done", "failed"}
        /\ img.fmt \in Formats /\ img.data \in [1 .. Sectors[img.fmt] -> Contents]
        /\ img = [fmt |-> img.fmt, data |-> img.data] /\ Sectors[img.fmt] \in Nat
    BY FormatsKnown DEF ReadImage, ReadFailed, Ask, XferTypeOK, DiskOK, WriteSteps
  <1>0. img'.fmt = img.fmt => FormatInv'
    BY <1>1 DEF FormatInv
  <1>2. CASE sec \notin DOMAIN img.data
    <2>1. step' = "done" /\ UNCHANGED <<sec, img, bad>>
      BY <1>2 DEF ReadImage
    <2>2. sec > Sectors[img.fmt]
      BY <1>1, <1>2 DEF XferTypeOK
    <2> QED
      BY <1>0, <1>1, <2>1, <2>2 DEF XferTypeOK, ReadInv, ConfigInv, WriteInv
  <1>3. CASE sec \in DOMAIN img.data
    <2>1. sec \in 1 .. Sectors[img.fmt]
      BY <1>1, <1>3
    <2>2. \/ /\ sec \in DOMAIN drive.disk.data
             /\ sec' = sec + 1 /\ img' = [img EXCEPT !.data[sec] = drive.disk.data[sec]]
             /\ UNCHANGED <<bad, step>>
          \/ UNCHANGED <<sec, img, bad, step>>
          \/ step' = "failed" /\ UNCHANGED <<sec, img, bad>>
          \/ /\ sec' = sec + 1 /\ bad' = bad \cup {sec} /\ UNCHANGED step
             /\ \E c \in Contents : img' = [img EXCEPT !.data[sec] = c]
      BY <1>3 DEF ReadImage, Ask, ReadSector, ReadFailed
    <2>3. CASE UNCHANGED <<sec, img, bad, step>>
      BY <1>0, <1>1, <2>3 DEF XferTypeOK, ReadInv, ConfigInv, WriteInv
    <2>4. CASE step' = "failed" /\ UNCHANGED <<sec, img, bad>>
      BY <1>0, <1>1, <2>4 DEF XferTypeOK, ReadInv, ConfigInv, WriteInv
    <2>5. CASE /\ sec \in DOMAIN drive.disk.data
               /\ sec' = sec + 1 /\ img' = [img EXCEPT !.data[sec] = drive.disk.data[sec]]
               /\ UNCHANGED <<bad, step>>
      <3>1. drive.disk.data[sec] \in Contents
        BY <2>5 DEF XferTypeOK, DiskOK
      <3>2. /\ img'.fmt = img.fmt /\ img'.data = [img.data EXCEPT ![sec] = drive.disk.data[sec]]
            /\ img' = [fmt |-> img'.fmt, data |-> img'.data]
        BY <1>1, <2>5
      <3>3. XferTypeOK'
        <4>1. DiskOK(img')
          BY <1>1, <3>1, <3>2 DEF DiskOK
        <4> QED
          BY <1>1, <2>5, <4>1 DEF XferTypeOK, ReadSteps
      <3>4. ReadInv'
        BY <1>1, <2>1, <2>5, <3>2 DEF ReadInv, XferTypeOK
      <3> QED
        BY <1>0, <1>1, <3>2, <3>3, <3>4 DEF ConfigInv, WriteInv
    <2>6. CASE /\ sec' = sec + 1 /\ bad' = bad \cup {sec} /\ UNCHANGED step
               /\ \E c \in Contents : img' = [img EXCEPT !.data[sec] = c]
      <3>1. PICK c \in Contents : img' = [img EXCEPT !.data[sec] = c]
        BY <2>6
      <3>2. /\ img'.fmt = img.fmt /\ img'.data = [img.data EXCEPT ![sec] = c]
            /\ img' = [fmt |-> img'.fmt, data |-> img'.data]
        BY <1>1, <3>1
      <3>3. XferTypeOK'
        <4>1. DiskOK(img')
          BY <1>1, <3>1, <3>2 DEF DiskOK
        <4> QED
          BY <1>1, <2>6, <4>1 DEF XferTypeOK, ReadSteps
      <3>4. ReadInv'
        <4>1. sec' = sec + 1 /\ bad' = bad \cup {sec} /\ step' = step
          BY <2>6
        <4> QED
          BY <1>1, <2>1, <3>2, <4>1 DEF ReadInv, XferTypeOK
      <3> QED
        BY <1>0, <1>1, <3>2, <3>3, <3>4 DEF ConfigInv, WriteInv
    <2> QED
      BY <2>2, <2>3, <2>4, <2>5, <2>6
  <1> QED
    BY <1>2, <1>3

LEMMA WriteStep ==
    ASSUME XferInv, WriteImage
    PROVE  XferInv'
  <1> USE DEF XferInv, Goto, NextSector, Again
  <1> DEFINE written == [drive EXCEPT !.disk.data[sec] = img.data[sec]]
  <1>1. /\ step = "write" /\ opt.mode = "write" /\ UNCHANGED <<opt, img>>
        /\ DiskFormat' = DiskFormat /\ Total' = Total /\ sec \in Nat \ {0}
    BY DEF WriteImage, XferTypeOK, ReadSteps, WriteFailed, Ask, DiskFormat, Total
  <1>2. Total \in Nat /\ Total <= Sectors[img.fmt] /\ DOMAIN img.data = 1 .. Sectors[img.fmt]
    <2>1. img.fmt \in Formats /\ DiskFormat \in Formats /\ DOMAIN img.data = 1 .. Sectors[img.fmt]
      BY FormatsKnown DEF XferTypeOK, DiskOK, DiskFormat, Densities
    <2> QED
      BY <2>1, FormatsKnown DEF Total
  <1>3. /\ Sectors[drive.disk.fmt] \in Nat /\ DOMAIN drive.disk.data = 1 .. Sectors[drive.disk.fmt]
        /\ drive.disk.fmt # "other" => Total <= Sectors[drive.disk.fmt]
        /\ \A s \in 1 .. Total :
             /\ s < sec /\ s \notin bad => OnDisk(s)
             /\ s = sec /\ s \in DOMAIN drive.disk.data => drive.disk.data[s] \in {Zero, img.data[s]}
             /\ s > sec /\ s \in DOMAIN drive.disk.data => drive.disk.data[s] = Zero
    <2>1. drive.disk.fmt \in Formats /\ DOMAIN drive.disk.data = 1 .. Sectors[drive.disk.fmt]
      BY DEF XferTypeOK, DiskOK
    <2>2. Sectors[drive.disk.fmt] \in Nat
      BY <2>1, FormatsKnown
    <2> QED
      BY <1>1, <2>1, <2>2 DEF WriteInv
  <1>4. \/ step' = "done" /\ sec > Total /\ UNCHANGED <<sec, bad, drive>>
        \/ /\ sec <= Total /\ sec' = sec + 1 /\ UNCHANGED <<step, bad, drive>> /\ img.data[sec] = Zero
        \/ /\ sec <= Total /\ sec \in DOMAIN drive.disk.data
           /\ sec' = sec + 1 /\ UNCHANGED <<step, bad>> /\ drive' = written
        \/ /\ sec <= Total
           /\ drive' = drive \/ (drive' = written /\ sec \in DOMAIN drive.disk.data)
           /\ \/ UNCHANGED <<sec, bad, step>>
              \/ step' = "failed" /\ UNCHANGED <<sec, bad>>
              \/ sec' = sec + 1 /\ bad' = bad \cup {sec} /\ UNCHANGED step
    BY <1>1, <1>2 DEF WriteImage, Ask, WriteFailed, WriteSector, ReadSector
  <1>5. ASSUME sec <= Total, sec \in DOMAIN drive.disk.data
        PROVE  /\ written.disk.fmt = drive.disk.fmt
               /\ DiskOK(written.disk) /\ written.conf = drive.conf
               /\ written = [disk |-> written.disk, conf |-> written.conf,
                             percom |-> written.percom, kind |-> written.kind]
               /\ DOMAIN written.disk.data = DOMAIN drive.disk.data
               /\ \A s \in DOMAIN drive.disk.data :
                    written.disk.data[s] = IF s = sec THEN img.data[s] ELSE drive.disk.data[s]
    <2>1. img.data[sec] \in Contents
      <3>1. img.fmt \in Formats
        BY DEF XferTypeOK, DiskOK
      <3>2. sec \in DOMAIN img.data
        BY <1>1, <1>2, <1>5, <3>1, FormatsKnown
      <3> QED
        BY <3>2 DEF XferTypeOK, DiskOK
    <2>2. /\ drive = [disk |-> drive.disk, conf |-> drive.conf, percom |-> drive.percom, kind |-> drive.kind]
          /\ drive.disk = [fmt |-> drive.disk.fmt, data |-> drive.disk.data]
          /\ drive.disk.data \in [1 .. Sectors[drive.disk.fmt] -> Contents]
          /\ drive.disk.fmt \in Formats
      BY DEF XferTypeOK, DiskOK
    <2>3. /\ written.disk = [drive.disk EXCEPT !.data[sec] = img.data[sec]]
          /\ written = [disk |-> written.disk, conf |-> drive.conf, percom |-> drive.percom, kind |-> drive.kind]
      BY <2>2
    <2> HIDE DEF written
    <2>4. /\ written.disk.fmt = drive.disk.fmt
          /\ written.disk.data = [drive.disk.data EXCEPT ![sec] = img.data[sec]]
          /\ written.disk = [fmt |-> written.disk.fmt, data |-> written.disk.data]
      BY <2>2, <2>3
    <2> QED
      BY <1>3, <1>5, <2>1, <2>2, <2>3, <2>4 DEF DiskOK
  <1> HIDE DEF written
  <1>6. XferTypeOK'
    <2>1. /\ drive' = [disk |-> drive'.disk, conf |-> drive'.conf, percom |-> drive'.percom, kind |-> drive'.kind]
          /\ DiskOK(drive'.disk) /\ drive'.conf \in Formats \cup {"odd"}
      <3>1. drive' = drive \/ (drive' = written /\ sec <= Total /\ sec \in DOMAIN drive.disk.data)
        BY <1>4
      <3>2. CASE drive' = drive
        BY <3>2 DEF XferTypeOK
      <3>3. CASE drive' = written /\ sec <= Total /\ sec \in DOMAIN drive.disk.data
        BY <1>5, <3>3 DEF XferTypeOK
      <3> QED
        BY <3>1, <3>2, <3>3
    <2>2. sec' \in Nat \ {0} /\ step' \in {"write", "done", "failed"}
      BY <1>1, <1>4
    <2> QED
      BY <1>1, <2>1, <2>2 DEF XferTypeOK, WriteSteps
  <1>7. WriteInv'
    <2>1. ASSUME NEW s \in 1 .. Total
          PROVE  /\ s < sec' /\ s \notin bad' => OnDisk(s)'
                 /\ s = sec' /\ s \in DOMAIN drive'.disk.data => drive'.disk.data[s] \in {Zero, img.data[s]}
                 /\ s > sec' /\ s \in DOMAIN drive'.disk.data => drive'.disk.data[s] = Zero
      <3>1. CASE drive' = drive /\ UNCHANGED <<sec, bad>>
        BY <1>1, <1>3, <2>1, <3>1 DEF OnDisk
      <3>2. CASE drive' = drive /\ sec <= Total /\ sec' = sec + 1 /\ (bad' = bad \cup {sec} \/ (img.data[sec] = Zero /\ bad' = bad))
        <4>1. s \notin bad' => s \notin bad /\ (s # sec \/ img.data[sec] = Zero)
          BY <3>2
        <4>2. CASE s < sec
          BY <1>1, <1>3, <2>1, <3>2, <4>1, <4>2 DEF OnDisk
        <4>3. CASE s = sec
          <5>1. s \notin DOMAIN drive.disk.data => drive.disk.fmt = "other"
            BY <1>1, <1>2, <1>3, <2>1
          <5> QED
            BY <1>1, <1>3, <2>1, <3>2, <4>1, <4>3, <5>1 DEF OnDisk
        <4>4. CASE s > sec
          BY <1>1, <1>3, <2>1, <3>2, <4>4
        <4> QED
          BY <1>1, <4>2, <4>3, <4>4
      <3>3. CASE /\ drive' = written /\ sec <= Total /\ sec \in DOMAIN drive.disk.data
                 /\ (sec' = sec /\ bad' = bad) \/ (sec' = sec + 1 /\ (bad' = bad \/ bad' = bad \cup {sec}))
        <4>1. /\ drive'.disk.fmt = drive.disk.fmt /\ DOMAIN drive'.disk.data = DOMAIN drive.disk.data
              /\ s \in DOMAIN drive.disk.data =>
                   drive'.disk.data[s] = IF s = sec THEN img.data[s] ELSE drive.disk.data[s]
          BY <1>5, <3>3
        <4>2. s \notin bad' => s \notin bad
          BY <3>3
        <4>3. CASE s = sec
          BY <1>1, <3>3, <4>1, <4>3 DEF OnDisk
        <4>4. CASE s < sec
          BY <1>1, <1>3, <2>1, <3>3, <4>1, <4>2, <4>4 DEF OnDisk
        <4>5. CASE s > sec
          BY <1>1, <1>3, <2>1, <3>3, <4>1, <4>5
        <4> QED
          BY <1>1, <4>3, <4>4, <4>5
      <3> QED
        BY <1>4, <3>1, <3>2, <3>3
    <2>2. drive'.disk.fmt = drive.disk.fmt
      BY <1>4, <1>5
    <2>3. step' = "done" => sec' > Total
      BY <1>1, <1>4
    <2> QED
      BY <1>1, <1>3, <2>1, <2>2, <2>3 DEF WriteInv
  <1>8. ReadInv' /\ FormatInv' /\ ConfigInv'
    <2>1. opt'.mode = "write" /\ step' \in {"write", "done", "failed"}
      BY <1>1, <1>4
    <2> QED
      BY <2>1 DEF ReadInv, FormatInv, ConfigInv
  <1> QED
    BY <1>6, <1>7, <1>8

-----------------------------------------------------------------------------
(* What the user may rely on.                                              *)

LEMMA XferInvStep ==
    ASSUME XferInv, [XferNext]_xfervars
    PROVE  XferInv'
  <1>1. CASE XferNext
    BY <1>1, SpeedStep, DensityStep, ConfigStep, FormatStep, ReadStep, WriteStep DEF XferNext
  <1>2. CASE UNCHANGED xfervars
    BY <1>2 DEF xfervars, XferInv, XferTypeOK, ReadInv, FormatInv, ConfigInv, WriteInv, OnDisk, DiskFormat, Total
  <1> QED
    BY <1>1, <1>2

\* When atarixfer ends with success, the disk and the image hold the same in
\* every sector it did not print an error for: for any number of sectors and
\* contents, any number of failed commands and of retries, whatever the drive
\* can do, and though sectors of zeros are not written; an image that was read
\* has the format of its disk, unless the drive named a wrong one or did not
\* answer when asked for sector 721
\* (tools/atarixfer.cpp: read_image, write_image, SIOWrapper::FormatDisk).
THEOREM CopiesAreTrue == XferSpec => []CopyIsTrue
  <1>1. XferInv => CopyIsTrue
    <2> SUFFICES ASSUME XferInv, step = "done"
                 PROVE  CopyIsTrue
      BY DEF CopyIsTrue
    <2>1. CASE opt.mode = "read"
      <3>1. Sectors[img.fmt] \in Nat /\ sec \in Nat
        BY FormatsKnown DEF XferInv, XferTypeOK, DiskOK
      <3> QED
        BY <2>1, <3>1 DEF XferInv, ReadInv, FormatInv, CopyIsTrue
    <2>2. CASE opt.mode = "write"
      <3>1. /\ Sectors[drive.disk.fmt] \in Nat /\ sec \in Nat
            /\ DOMAIN drive.disk.data = 1 .. Sectors[drive.disk.fmt]
        BY FormatsKnown DEF XferInv, XferTypeOK, DiskOK
      <3>2. Total \in Nat
        <4>1. img.fmt \in Formats /\ DiskFormat \in Formats
          BY FormatsKnown DEF XferInv, XferTypeOK, DiskOK, DiskFormat, Densities
        <4> QED
          BY <4>1, FormatsKnown DEF Total
      <3> QED
        BY <2>2, <3>1, <3>2 DEF XferInv, WriteInv, OnDisk, CopyIsTrue
    <2> QED
      BY <2>1, <2>2 DEF XferInv, XferTypeOK
  <1> QED
    BY <1>1, XferInvInit, XferInvStep, PTL DEF XferSpec

-----------------------------------------------------------------------------
(***************************************************************************)
(* Loading and unloading the driver: for any ports, parameters and steps   *)
(* that fail, every port the driver took from the serial driver goes back. *)
(***************************************************************************)

-----------------------------------------------------------------------------
(* The state of the kernel between two devices.                            *)

KernelFields == {"type", "owner", "free", "dev", "need", "registered", "stuck"}
KernelShape(k) ==
    /\ k = [x \in KernelFields |-> k[x]]
    /\ k.type = [p \in Ports |-> k.type[p]] /\ k.owner = [p \in Ports |-> k.owner[p]]
    /\ k.dev = [d \in DeviceIds |-> k.dev[d]]

\* The serial driver drives a port or has lost it, or the one device does that
\* will give it back if it was taken from the serial driver.
Lost(k, p) == p \in k.free \cup k.stuck
PortOK(k, p) ==
    \/ k.owner[p] = SerialDriver /\ k.type[p] = "16550" /\ ~Lost(k, p)
    \/ k.owner[p] = Nobody /\ k.type[p] = "unknown" /\ Lost(k, p)
    \/ /\ k.owner[p] \in k.registered /\ ThePort(k.owner[p]) = p /\ k.type[p] = "unknown"
       /\ k.owner[p] \in k.need <=> ~Lost(k, p)

DevOK(k, d) ==
    /\ k.dev[d] # "none" <=> d \in k.registered
    /\ d \in k.need => d \in k.registered
    /\ d \in k.registered => ThePort(d) \in Ports /\ k.owner[ThePort(d)] = d

KernelOK(k) ==
    /\ KernelShape(k) /\ k.registered \subseteq DeviceIds /\ k.need \subseteq DeviceIds
    /\ \A p \in Ports : PortOK(k, p)
    /\ \A d \in DeviceIds : DevOK(k, d)

LEMMA DeviceIsNoOther ==
    ASSUME params \in Params
    PROVE  /\ DeviceIds = 1 .. Len(params) /\ Len(params) \in Nat
           /\ \A d \in DeviceIds : d # Nobody /\ d # SerialDriver
           /\ \A d \in DeviceIds : ThePort(d) # "none" => ThePort(d) \in Ports
           /\ Nobody # SerialDriver
  <1> DEFINE One == [port : Ports \cup {"none"}, named : BOOLEAN]
  <1>1. /\ params \in Seq(One)
        /\ "none" \notin Ports
    BY SetupAssumption
  <1>2. DeviceIds = 1 .. Len(params) /\ Len(params) \in Nat
    BY <1>1 DEF DeviceIds
  <1>3. \A d \in DeviceIds : params[d] \in One
    <2> HIDE DEF One
    <2> QED
      BY <1>1, <1>2
  <1>4. \A d \in DeviceIds : params[d].port \in Ports \cup {"none"}
    BY <1>3
  <1>5. \A d \in DeviceIds : d # Nobody /\ d # SerialDriver
    BY <1>2 DEF Nobody, SerialDriver
  <1> QED
    BY <1>2, <1>4, <1>5 DEF Nobody, SerialDriver, ThePort

-----------------------------------------------------------------------------
(* The parts of setting a device up.                                       *)

\* What a device may change: its own fields and its port.
Differ(k, t, d, dev, type, owner, need, registered, stuck) ==
    /\ KernelShape(t) /\ t.free = k.free
    /\ \A p \in Ports : t.type[p] = IF p = ThePort(d) THEN type ELSE k.type[p]
    /\ \A p \in Ports : t.owner[p] = IF p = ThePort(d) THEN owner ELSE k.owner[p]
    /\ \A e \in DeviceIds : t.dev[e] = IF e = d THEN dev ELSE k.dev[e]
    /\ t.need = need /\ t.registered = registered /\ t.stuck = stuck

\* Of one change after the other the second remains.
LEMMA DifferAgain ==
    ASSUME NEW k, NEW s, NEW t, NEW d \in DeviceIds, ThePort(d) \in Ports,
           NEW dev, NEW type, NEW owner, NEW need, NEW registered, NEW stuck,
           Differ(k, s, d, dev, type, owner, need, registered, stuck),
           NEW dev2, NEW type2, NEW owner2, NEW need2, NEW registered2, NEW stuck2,
           Differ(s, t, d, dev2, type2, owner2, need2, registered2, stuck2)
    PROVE  Differ(k, t, d, dev2, type2, owner2, need2, registered2, stuck2)
  BY DEF Differ

LEMMA AllocIs ==
    ASSUME NEW k, KernelShape(k), NEW d \in DeviceIds
    PROVE  LET p == ThePort(d)
           IN  Differ(k, [k EXCEPT !.dev[d] = "allocated"], d, "allocated", k.type[p], k.owner[p],
                      k.need, k.registered, k.stuck)
  BY DEF Differ, KernelShape, KernelFields

LEMMA FreeIs ==
    ASSUME NEW k, KernelShape(k), NEW d \in DeviceIds
    PROVE  LET p == ThePort(d)
           IN  Differ(k, FreeAtarisioDev(k, d), d, "none", k.type[p], k.owner[p],
                      k.need \ {d}, k.registered, k.stuck)
  BY DEF Differ, KernelShape, KernelFields, FreeAtarisioDev

LEMMA RequestIs ==
    ASSUME NEW k, KernelShape(k), NEW d \in DeviceIds, ThePort(d) \in Ports, NEW fail
    PROVE  LET p == ThePort(d)
               r == RequestResources(k, d, fail)
           IN  \/ ~r.ok
               \/ /\ r.ok /\ k.owner[p] = Nobody
                  /\ Differ(k, r.k, d, k.dev[d], k.type[p], d, k.need, k.registered, k.stuck)
  BY DEF Differ, KernelShape, KernelFields, RequestResources, Result

LEMMA ReleaseIs ==
    ASSUME NEW k, KernelShape(k), NEW d \in DeviceIds, ThePort(d) \in Ports
    PROVE  LET p == ThePort(d)
           IN  Differ(k, ReleaseResources(k, d), d, k.dev[d], k.type[p], Nobody,
                      k.need, k.registered, k.stuck)
  BY DEF Differ, KernelShape, KernelFields, ReleaseResources

\* A port that nobody has is given back, or cannot be opened any more.
LEMMA ReenableIs ==
    ASSUME NEW k, KernelShape(k), NEW d \in DeviceIds, ThePort(d) \in Ports, NEW fail,
           k.owner[ThePort(d)] = Nobody
    PROVE  LET p == ThePort(d)
               t == ReenableSerialPort(k, d, fail)
           IN  IF d \notin k.need THEN t = k
               ELSE \/ Differ(k, t, d, k.dev[d], k.type[p], Nobody, k.need, k.registered, k.stuck \cup {p})
                    \/ Differ(k, t, d, k.dev[d], "16550", SerialDriver, k.need, k.registered, k.stuck)
  BY DEF Differ, KernelShape, KernelFields, ReenableSerialPort

LEMMA ResultIs == \A k, ok : Result(k, ok).k = k /\ Result(k, ok).ok = ok
  BY DEF Result

\* A device is registered, or all is as before, but for a port without an owner.
Registers(k, d, r) ==
    LET type == k.type[ThePort(d)]
    IN  \/ ~r.ok /\ r.k = k
        \/ /\ ~r.ok /\ k.owner[ThePort(d)] = Nobody
           /\ Differ(k, r.k, d, k.dev[d], type, Nobody, k.need, k.registered, k.stuck)
        \/ /\ r.ok /\ k.owner[ThePort(d)] = Nobody
           /\ Differ(k, r.k, d, k.dev[d], type, d, k.need, k.registered \cup {d}, k.stuck)

LEMMA CheckRegisterIs ==
    ASSUME NEW k, KernelShape(k), NEW d \in DeviceIds, ThePort(d) \in Ports, NEW fail
    PROVE  Registers(k, d, CheckRegisterAtarisio(k, d, fail))
  <1> DEFINE p == ThePort(d)
             q == RequestResources(k, d, fail)
  <1>1. CASE ~q.ok
    <2>1. CheckRegisterAtarisio(k, d, fail) = Result(k, FALSE)
      BY <1>1 DEF CheckRegisterAtarisio
    <2> QED
      BY <2>1, ResultIs DEF Registers
  <1>2. CASE q.ok
    <2>1. k.owner[p] = Nobody /\ Differ(k, q.k, d, k.dev[d], k.type[p], d, k.need, k.registered, k.stuck)
      BY <1>2, RequestIs
    <2>2. CASE fail \cap {"scratch", "misc"} # {}
      <3>1. CheckRegisterAtarisio(k, d, fail) = Result(ReleaseResources(q.k, d), FALSE)
        BY <1>2, <2>2 DEF CheckRegisterAtarisio
      <3> HIDE DEF q
      <3>2. KernelShape(q.k) /\ q.k.need = k.need /\ q.k.registered = k.registered /\ q.k.stuck = k.stuck
            /\ q.k.dev[d] = k.dev[d] /\ q.k.type[p] = k.type[p]
        BY <2>1 DEF Differ
      <3>3. Differ(q.k, ReleaseResources(q.k, d), d, k.dev[d], k.type[p], Nobody, k.need, k.registered, k.stuck)
        BY <3>2, ReleaseIs
      <3>4. Differ(k, ReleaseResources(q.k, d), d, k.dev[d], k.type[p], Nobody, k.need, k.registered, k.stuck)
        BY <2>1, <3>3, DifferAgain
      <3> DEFINE u == ReleaseResources(q.k, d)
      <3>5. Result(u, FALSE).k = u /\ ~Result(u, FALSE).ok
        BY ResultIs
      <3> HIDE DEF u, p
      <3> QED
        BY <2>1, <3>1, <3>4, <3>5 DEF Registers, u, p
    <2>3. CASE ~(fail \cap {"scratch", "misc"} # {})
      <3> DEFINE u == [q.k EXCEPT !.registered = @ \cup {d}]
      <3>1. CheckRegisterAtarisio(k, d, fail) = Result(u, TRUE)
        BY <1>2, <2>3 DEF CheckRegisterAtarisio
      <3> HIDE DEF q
      <3>2. Differ(k, u, d, k.dev[d], k.type[p], d, k.need, k.registered \cup {d}, k.stuck)
        BY <2>1 DEF Differ, KernelShape, KernelFields
      <3>3. Result(u, TRUE).k = u /\ Result(u, TRUE).ok
        BY ResultIs
      <3> HIDE DEF u
      <3> QED
        BY <2>1, <3>1, <3>2, <3>3 DEF Registers
    <2> QED
      BY <2>2, <2>3
  <1> QED
    BY <1>1, <1>2

\* What becomes of a device: it is registered, with its port taken from the serial
\* driver or without an owner before; or it is not, and its port as before or,
\* if the serial driver could not be told, without an owner.
SetsUp(k, d, t) ==
    LET p == ThePort(d)
    IN  \/ Differ(k, t, d, "none", k.type[p], k.owner[p], k.need, k.registered, k.stuck)
        \/ /\ k.owner[p] = Nobody
           /\ Differ(k, t, d, "none", k.type[p], Nobody, k.need, k.registered, k.stuck)
        \/ /\ k.owner[p] = Nobody
           /\ Differ(k, t, d, "allocated", k.type[p], d, k.need, k.registered \cup {d}, k.stuck)
        \/ /\ k.type[p] = "16550"
           /\ \/ Differ(k, t, d, "none", "16550", SerialDriver, k.need, k.registered, k.stuck)
              \/ Differ(k, t, d, "none", "unknown", Nobody, k.need, k.registered, k.stuck \cup {p})
              \/ Differ(k, t, d, "allocated", "unknown", d, k.need \cup {d}, k.registered \cup {d}, k.stuck)

\* A device that could not be registered, and had taken nothing.
LEMMA UndoesUnnamed ==
    ASSUME NEW k, NEW a, NEW d \in DeviceIds, ThePort(d) \in Ports, d \notin k.need, NEW fail, NEW s,
           \/ Differ(k, s, d, "allocated", k.type[ThePort(d)], k.owner[ThePort(d)],
                     k.need, k.registered, k.stuck)
           \/ /\ k.owner[ThePort(d)] = Nobody
              /\ Differ(k, s, d, "allocated", k.type[ThePort(d)], Nobody, k.need, k.registered, k.stuck)
    PROVE  SetsUp(k, d, FreeAtarisioDev(ReenableSerialPort(s, d, fail), d))
  <1> DEFINE p == ThePort(d)
  <1>1. KernelShape(s) /\ s.need = k.need /\ s.registered = k.registered /\ s.stuck = k.stuck
        /\ s.type[p] = k.type[p]
    BY DEF Differ
  <1>2. ReenableSerialPort(s, d, fail) = s
    BY <1>1 DEF ReenableSerialPort
  <1>3. Differ(s, FreeAtarisioDev(s, d), d, "none", k.type[p], s.owner[p], k.need \ {d}, k.registered, k.stuck)
    BY <1>1, FreeIs
  <1>4. k.need \ {d} = k.need
    OBVIOUS
  <1>5. Differ(k, FreeAtarisioDev(s, d), d, "none", k.type[p], s.owner[p], k.need, k.registered, k.stuck)
    BY <1>3, <1>4, DifferAgain
  <1>6. s.owner[p] = k.owner[p] \/ (k.owner[p] = Nobody /\ s.owner[p] = Nobody)
    BY DEF Differ
  <1> HIDE DEF p
  <1> QED
    BY <1>2, <1>5, <1>6 DEF SetsUp, p

\* A device that could not be registered, and had taken its port from the serial driver.
LEMMA UndoesNamed ==
    ASSUME NEW k, NEW d \in DeviceIds, ThePort(d) \in Ports, d \notin k.need, NEW fail, NEW s,
           k.type[ThePort(d)] = "16550",
           Differ(k, s, d, "allocated", "unknown", Nobody, k.need \cup {d}, k.registered, k.stuck)
    PROVE  SetsUp(k, d, FreeAtarisioDev(ReenableSerialPort(s, d, fail), d))
  <1> DEFINE p == ThePort(d)
             u == ReenableSerialPort(s, d, fail)
  <1>1. /\ KernelShape(s) /\ s.need = k.need \cup {d} /\ s.registered = k.registered
        /\ s.stuck = k.stuck /\ s.type[p] = "unknown" /\ s.owner[p] = Nobody
        /\ s.dev[d] = "allocated"
    BY DEF Differ
  <1>2. \/ Differ(s, u, d, "allocated", "unknown", Nobody, k.need \cup {d}, k.registered, k.stuck \cup {p})
        \/ Differ(s, u, d, "allocated", "16550", SerialDriver, k.need \cup {d}, k.registered, k.stuck)
    BY <1>1, ReenableIs
  <1> HIDE DEF u
  <1>3. \/ Differ(k, u, d, "allocated", "unknown", Nobody, k.need \cup {d}, k.registered, k.stuck \cup {p})
        \/ Differ(k, u, d, "allocated", "16550", SerialDriver, k.need \cup {d}, k.registered, k.stuck)
    BY <1>2, DifferAgain
  <1>4. (k.need \cup {d}) \ {d} = k.need
    OBVIOUS
  <1>5. CASE Differ(k, u, d, "allocated", "unknown", Nobody, k.need \cup {d}, k.registered, k.stuck \cup {p})
    <2>1. /\ KernelShape(u) /\ u.need = k.need \cup {d} /\ u.registered = k.registered
          /\ u.stuck = k.stuck \cup {p} /\ u.type[p] = "unknown" /\ u.owner[p] = Nobody
      BY <1>5 DEF Differ
    <2>2. Differ(u, FreeAtarisioDev(u, d), d, "none", "unknown", Nobody, k.need, k.registered, k.stuck \cup {p})
      BY <2>1, <1>4, FreeIs
    <2>3. Differ(k, FreeAtarisioDev(u, d), d, "none", "unknown", Nobody, k.need, k.registered, k.stuck \cup {p})
      BY <1>5, <2>2, DifferAgain
    <2> QED
      BY <2>3 DEF SetsUp, u
  <1>6. CASE Differ(k, u, d, "allocated", "16550", SerialDriver, k.need \cup {d}, k.registered, k.stuck)
    <2>1. /\ KernelShape(u) /\ u.need = k.need \cup {d} /\ u.registered = k.registered
          /\ u.stuck = k.stuck /\ u.type[p] = "16550" /\ u.owner[p] = SerialDriver
      BY <1>6 DEF Differ
    <2>2. Differ(u, FreeAtarisioDev(u, d), d, "none", "16550", SerialDriver, k.need, k.registered, k.stuck)
      BY <2>1, <1>4, FreeIs
    <2>3. Differ(k, FreeAtarisioDev(u, d), d, "none", "16550", SerialDriver, k.need, k.registered, k.stuck)
      BY <1>6, <2>2, DifferAgain
    <2> QED
      BY <2>3 DEF SetsUp, u
  <1> QED
    BY <1>3, <1>5, <1>6

LEMMA SetUpIs ==
    ASSUME NEW k, KernelShape(k), NEW d \in DeviceIds, ThePort(d) \in Ports, d \notin k.need, NEW fail
    PROVE  SetsUp(k, d, SetUp([k EXCEPT !.dev[d] = "allocated"], d, fail))
  <1> DEFINE p == ThePort(d)
             a == [k EXCEPT !.dev[d] = "allocated"]
  <1>1. Differ(k, a, d, "allocated", k.type[p], k.owner[p], k.need, k.registered, k.stuck)
    BY AllocIs
  <1> HIDE DEF a
  <1>2. /\ KernelShape(a) /\ a.need = k.need /\ a.registered = k.registered /\ a.stuck = k.stuck
        /\ a.type[p] = k.type[p] /\ a.owner[p] = k.owner[p] /\ a.dev[d] = "allocated"
    BY <1>1 DEF Differ
  <1>3. CASE ~params[d].named
    <2> DEFINE checked == CheckRegisterAtarisio(a, d, fail)
    <2>1. SetUp(a, d, fail) = IF checked.ok THEN checked.k
                              ELSE FreeAtarisioDev(ReenableSerialPort(checked.k, d, fail), d)
      BY <1>3, ResultIs DEF SetUp
    <2>2. Registers(a, d, checked)
      BY <1>2, CheckRegisterIs
    <2> HIDE DEF checked
    <2>3. CASE checked.ok
      <3>1. /\ k.owner[p] = Nobody
            /\ Differ(a, checked.k, d, "allocated", k.type[p], d, k.need, k.registered \cup {d}, k.stuck)
        BY <1>2, <2>2, <2>3 DEF Registers
      <3>2. Differ(k, checked.k, d, "allocated", k.type[p], d, k.need, k.registered \cup {d}, k.stuck)
        BY <1>1, <3>1, DifferAgain
      <3> QED
        BY <2>1, <2>3, <3>1, <3>2 DEF SetsUp, a
    <2>4. CASE ~checked.ok /\ checked.k = a
      <3>1. SetsUp(k, d, FreeAtarisioDev(ReenableSerialPort(a, d, fail), d))
        BY <1>1, UndoesUnnamed
      <3> QED
        BY <2>1, <2>4, <3>1 DEF a
    <2>5. CASE ~checked.ok /\ checked.k # a
      <3>1. /\ k.owner[p] = Nobody
            /\ Differ(a, checked.k, d, "allocated", k.type[p], Nobody, k.need, k.registered, k.stuck)
        BY <1>2, <2>2, <2>5 DEF Registers
      <3>2. Differ(k, checked.k, d, "allocated", k.type[p], Nobody, k.need, k.registered, k.stuck)
        BY <1>1, <3>1, DifferAgain
      <3>3. SetsUp(k, d, FreeAtarisioDev(ReenableSerialPort(checked.k, d, fail), d))
        BY <3>1, <3>2, UndoesUnnamed
      <3> QED
        BY <2>1, <2>5, <3>3 DEF a
    <2> QED
      BY <2>3, <2>4, <2>5
  <1>4. CASE params[d].named
    <2> DEFINE disabled == DisableSerialPort(a, d, fail)
               checked == CheckRegisterAtarisio(disabled.k, d, fail)
    <2>1. SetUp(a, d, fail) = IF ~disabled.ok THEN FreeAtarisioDev(disabled.k, d)
                              ELSE IF checked.ok THEN checked.k
                              ELSE FreeAtarisioDev(ReenableSerialPort(checked.k, d, fail), d)
      BY <1>4 DEF SetUp
    <2> DEFINE s == [a EXCEPT !.type[p] = "unknown", !.owner[p] = Nobody, !.need = @ \cup {d}]
    <2>2. \/ disabled = Result(a, FALSE)
          \/ k.type[p] = "16550" /\ disabled = Result(s, TRUE)
      BY <1>2 DEF DisableSerialPort
    <2>3. Differ(k, s, d, "allocated", "unknown", Nobody, k.need \cup {d}, k.registered, k.stuck)
      BY <1>1 DEF Differ, KernelShape, KernelFields
    <2> HIDE DEF s, disabled
    <2>4. CASE disabled = Result(a, FALSE)
      <3>1. SetUp(a, d, fail) = FreeAtarisioDev(a, d)
        BY <2>1, <2>4, ResultIs
      <3>2. ReenableSerialPort(a, d, fail) = a
        BY <1>2 DEF ReenableSerialPort
      <3>3. SetsUp(k, d, FreeAtarisioDev(ReenableSerialPort(a, d, fail), d))
        BY <1>1, UndoesUnnamed
      <3> QED
        BY <3>1, <3>2, <3>3 DEF a
    <2>5. CASE k.type[p] = "16550" /\ disabled = Result(s, TRUE)
      <3>1. disabled.ok /\ disabled.k = s
        BY <2>5, ResultIs
      <3>2. SetUp(a, d, fail) = IF checked.ok THEN checked.k
                                ELSE FreeAtarisioDev(ReenableSerialPort(checked.k, d, fail), d)
        BY <2>1, <3>1
      <3>3. /\ KernelShape(s) /\ s.need = k.need \cup {d} /\ s.registered = k.registered
            /\ s.stuck = k.stuck /\ s.type[p] = "unknown" /\ s.owner[p] = Nobody /\ s.dev[d] = "allocated"
        BY <2>3 DEF Differ
      <3>4. Registers(s, d, checked)
        BY <3>1, <3>3, CheckRegisterIs
      <3> HIDE DEF checked
      <3>5. CASE checked.ok
        <4>1. Differ(s, checked.k, d, "allocated", "unknown", d, k.need \cup {d}, k.registered \cup {d}, k.stuck)
          BY <3>3, <3>4, <3>5 DEF Registers
        <4>2. Differ(k, checked.k, d, "allocated", "unknown", d, k.need \cup {d}, k.registered \cup {d}, k.stuck)
          BY <2>3, <4>1, DifferAgain
        <4> QED
          BY <2>5, <3>2, <3>5, <4>2 DEF SetsUp, a
      <3>6. CASE ~checked.ok
        <4>1. checked.k = s \/
              Differ(s, checked.k, d, "allocated", "unknown", Nobody, k.need \cup {d}, k.registered, k.stuck)
          BY <3>3, <3>4, <3>6 DEF Registers
        <4>2. Differ(k, checked.k, d, "allocated", "unknown", Nobody, k.need \cup {d}, k.registered, k.stuck)
          BY <2>3, <4>1, DifferAgain
        <4>3. SetsUp(k, d, FreeAtarisioDev(ReenableSerialPort(checked.k, d, fail), d))
          BY <2>5, <4>2, UndoesNamed
        <4> QED
          BY <3>2, <3>6, <4>3 DEF a
      <3> QED
        BY <3>5, <3>6
    <2> QED
      BY <2>2, <2>4, <2>5
  <1> QED
    BY <1>3, <1>4

-----------------------------------------------------------------------------
(* Every port has one driver or is lost, from device to device.            *)

\* Before a device is set up it has nothing.
LEMMA SetUpKeeps ==
    ASSUME params \in Params, NEW k, KernelOK(k), NEW d \in DeviceIds, ThePort(d) # "none",
           k.dev[d] = "none", NEW t, SetsUp(k, d, t)
    PROVE  KernelOK(t)
  <1> DEFINE p == ThePort(d)
  <1>1. /\ p \in Ports /\ KernelShape(k) /\ k.registered \subseteq DeviceIds /\ k.need \subseteq DeviceIds
        /\ \A q \in Ports : PortOK(k, q)
        /\ \A e \in DeviceIds : DevOK(k, e)
        /\ d \notin k.registered /\ d \notin k.need
    BY DeviceIsNoOther DEF KernelOK, DevOK
  <1>2. \A e \in k.registered : e \in DeviceIds /\ e # d /\ k.owner[ThePort(e)] = e /\ ThePort(e) \in Ports
    BY <1>1 DEF DevOK
  <1>3. /\ Nobody # SerialDriver /\ \A e \in DeviceIds : e # Nobody /\ e # SerialDriver
    BY DeviceIsNoOther
  <1>4. /\ k.owner[p] = Nobody => k.type[p] = "unknown" /\ Lost(k, p)
        /\ k.type[p] = "16550" => k.owner[p] = SerialDriver /\ ~Lost(k, p)
    BY <1>1, <1>3 DEF PortOK
  <1> HIDE DEF p
  \* Nobody else has the port.
  <1>5. k.owner[p] = Nobody \/ k.type[p] = "16550" => \A e \in k.registered : ThePort(e) # p
    BY <1>2, <1>3, <1>4
  <1>6. CASE Differ(k, t, d, "none", k.type[p], k.owner[p], k.need, k.registered, k.stuck)
    BY <1>1, <1>6 DEF Differ, KernelOK, PortOK, DevOK, Lost, p
  <1>7. CASE /\ k.owner[p] = Nobody
             /\ Differ(k, t, d, "none", k.type[p], Nobody, k.need, k.registered, k.stuck)
    BY <1>1, <1>7 DEF Differ, KernelOK, PortOK, DevOK, Lost, p
  <1>8. CASE /\ k.owner[p] = Nobody
             /\ Differ(k, t, d, "allocated", k.type[p], d, k.need, k.registered \cup {d}, k.stuck)
    <2>1. KernelShape(t) /\ t.registered \subseteq DeviceIds /\ t.need \subseteq DeviceIds
      BY <1>1, <1>8 DEF Differ
    <2>2. ASSUME NEW q \in Ports PROVE PortOK(t, q)
      <3>1. CASE q = p
        BY <1>1, <1>4, <1>8, <2>2, <3>1 DEF Differ, PortOK, Lost, p
      <3>2. CASE q # p
        BY <1>1, <1>2, <1>8, <2>2, <3>2 DEF Differ, PortOK, Lost, p
      <3> QED
        BY <3>1, <3>2
    <2>3. ASSUME NEW e \in DeviceIds PROVE DevOK(t, e)
      BY <1>1, <1>2, <1>5, <1>8 DEF Differ, DevOK, p
    <2> QED
      BY <2>1, <2>2, <2>3 DEF KernelOK
  <1>9. CASE k.type[p] = "16550" /\ Differ(k, t, d, "none", "16550", SerialDriver, k.need, k.registered, k.stuck)
    BY <1>1, <1>4, <1>9 DEF Differ, KernelOK, PortOK, DevOK, Lost, p
  <1>10. CASE /\ k.type[p] = "16550"
              /\ Differ(k, t, d, "none", "unknown", Nobody, k.need, k.registered, k.stuck \cup {p})
    <2>1. KernelShape(t) /\ t.registered \subseteq DeviceIds /\ t.need \subseteq DeviceIds
      BY <1>1, <1>10 DEF Differ
    <2>2. ASSUME NEW q \in Ports PROVE PortOK(t, q)
      <3>1. CASE q = p
        BY <1>1, <1>4, <1>10, <2>2, <3>1 DEF Differ, PortOK, Lost, p
      <3>2. CASE q # p
        BY <1>1, <1>2, <1>10, <2>2, <3>2 DEF Differ, PortOK, Lost, p
      <3> QED
        BY <3>1, <3>2
    <2>3. ASSUME NEW e \in DeviceIds PROVE DevOK(t, e)
      BY <1>1, <1>2, <1>5, <1>10 DEF Differ, DevOK, p
    <2> QED
      BY <2>1, <2>2, <2>3 DEF KernelOK
  <1>11. CASE /\ k.type[p] = "16550"
              /\ Differ(k, t, d, "allocated", "unknown", d, k.need \cup {d}, k.registered \cup {d}, k.stuck)
    <2>1. KernelShape(t) /\ t.registered \subseteq DeviceIds /\ t.need \subseteq DeviceIds
      BY <1>1, <1>11 DEF Differ
    <2>2. ASSUME NEW q \in Ports PROVE PortOK(t, q)
      <3>1. CASE q = p
        BY <1>1, <1>4, <1>11, <2>2, <3>1 DEF Differ, PortOK, Lost, p
      <3>2. CASE q # p
        BY <1>1, <1>2, <1>11, <2>2, <3>2 DEF Differ, PortOK, Lost, p
      <3> QED
        BY <3>1, <3>2
    <2>3. ASSUME NEW e \in DeviceIds PROVE DevOK(t, e)
      BY <1>1, <1>2, <1>5, <1>11 DEF Differ, DevOK, p
    <2> QED
      BY <2>1, <2>2, <2>3 DEF KernelOK
  <1> QED
    BY <1>6, <1>7, <1>8, <1>9, <1>10, <1>11 DEF SetsUp, p

\* One device is taken away.
TakenAway(k, t, d) ==
    KernelOK(t) /\ t.registered = k.registered \ {d}

LEMMA CleanupOneIs ==
    ASSUME params \in Params, NEW k, KernelOK(k), NEW d \in DeviceIds, NEW fail
    PROVE  TakenAway(k, CleanupOne(k, d, fail), d)
  <1> DEFINE p == ThePort(d)
             a == [k EXCEPT !.registered = @ \ {d}]
             gone == ReleaseResources(a, d)
             back == ReenableSerialPort(gone, d, fail)
             t == FreeAtarisioDev(back, d)
  <1>1. /\ KernelShape(k) /\ k.registered \subseteq DeviceIds /\ k.need \subseteq DeviceIds
        /\ \A q \in Ports : PortOK(k, q)
        /\ \A e \in DeviceIds : DevOK(k, e)
    BY DEF KernelOK
  <1>2. CASE k.dev[d] = "none"
    BY <1>1, <1>2 DEF CleanupOne, TakenAway, DevOK
  <1>3. CASE k.dev[d] # "none"
    <2>1. d \in k.registered /\ p \in Ports /\ k.owner[p] = d
      BY <1>1, <1>3 DEF DevOK
    <2>2. CleanupOne(k, d, fail) = t
      BY <1>3 DEF CleanupOne
    <2>3. Differ(k, a, d, k.dev[d], k.type[p], d, k.need, k.registered \ {d}, k.stuck)
      BY <1>1, <2>1 DEF Differ, KernelShape, KernelFields
    <2> HIDE DEF a
    <2>4. KernelShape(a) /\ a.need = k.need /\ a.registered = k.registered \ {d} /\ a.stuck = k.stuck
          /\ a.type[p] = k.type[p] /\ a.dev[d] = k.dev[d]
      BY <2>1, <2>3 DEF Differ
    <2>5. Differ(a, gone, d, k.dev[d], k.type[p], Nobody, k.need, k.registered \ {d}, k.stuck)
      BY <2>1, <2>4, ReleaseIs
    <2>6. Differ(k, gone, d, k.dev[d], k.type[p], Nobody, k.need, k.registered \ {d}, k.stuck)
      BY <2>1, <2>3, <2>5, DifferAgain
    <2> HIDE DEF gone
    <2>7. KernelShape(gone) /\ gone.need = k.need /\ gone.registered = k.registered \ {d}
          /\ gone.stuck = k.stuck /\ gone.type[p] = k.type[p] /\ gone.dev[d] = k.dev[d]
          /\ gone.owner[p] = Nobody
      BY <2>1, <2>6 DEF Differ
    <2>8. k.type[p] = "unknown" /\ (d \in k.need <=> ~Lost(k, p))
      BY <1>1, <2>1, DeviceIsNoOther DEF PortOK
    <2>9. \/ /\ d \notin k.need
             /\ Differ(k, back, d, k.dev[d], "unknown", Nobody, k.need, k.registered \ {d}, k.stuck)
          \/ /\ d \in k.need
             /\ Differ(k, back, d, k.dev[d], "unknown", Nobody, k.need, k.registered \ {d}, k.stuck \cup {p})
          \/ /\ d \in k.need
             /\ Differ(k, back, d, k.dev[d], "16550", SerialDriver, k.need, k.registered \ {d}, k.stuck)
      <3>1. CASE d \notin k.need
        <4>1. back = gone
          BY <2>1, <2>7, <3>1, ReenableIs
        <4> QED
          BY <2>6, <2>8, <3>1, <4>1
      <3>2. CASE d \in k.need
        <4>1. \/ Differ(gone, back, d, k.dev[d], "unknown", Nobody, k.need, k.registered \ {d}, k.stuck \cup {p})
              \/ Differ(gone, back, d, k.dev[d], "16550", SerialDriver, k.need, k.registered \ {d}, k.stuck)
          <5>1. gone.owner[ThePort(d)] = Nobody /\ ThePort(d) \in Ports /\ d \in gone.need
            BY <2>1, <2>7, <3>2
          <5>2. \/ Differ(gone, back, d, gone.dev[d], gone.type[p], Nobody, gone.need, gone.registered, gone.stuck \cup {p})
                \/ Differ(gone, back, d, gone.dev[d], "16550", SerialDriver, gone.need, gone.registered, gone.stuck)
            BY <2>7, <5>1, ReenableIs, Zenon
          <5> HIDE DEF back, p
          <5> QED
            BY <2>7, <2>8, <5>2
        <4> HIDE DEF back
        <4> QED
          BY <2>1, <2>6, <3>2, <4>1, DifferAgain
      <3> QED
        BY <3>1, <3>2
    <2> HIDE DEF back
    <2>10. Differ(back, t, d, "none", back.type[p], back.owner[p], back.need \ {d}, back.registered, back.stuck)
      BY <2>9, FreeIs DEF Differ
    <2>11. Differ(k, t, d, "none", back.type[p], back.owner[p], back.need \ {d}, back.registered, back.stuck)
      BY <2>1, <2>9, <2>10, DifferAgain
    <2>12. \/ /\ d \notin k.need
              /\ Differ(k, t, d, "none", "unknown", Nobody, k.need \ {d}, k.registered \ {d}, k.stuck)
           \/ /\ d \in k.need
              /\ Differ(k, t, d, "none", "unknown", Nobody, k.need \ {d}, k.registered \ {d}, k.stuck \cup {p})
           \/ /\ d \in k.need
              /\ Differ(k, t, d, "none", "16550", SerialDriver, k.need \ {d}, k.registered \ {d}, k.stuck)
      BY <2>1, <2>9, <2>11 DEF Differ
    <2> HIDE DEF t
    <2>13. KernelShape(t) /\ t.registered = k.registered \ {d} /\ t.registered \subseteq DeviceIds
           /\ t.need \subseteq DeviceIds
      BY <1>1, <2>12 DEF Differ
    <2>14. ASSUME NEW q \in Ports PROVE PortOK(t, q)
      <3>1. CASE q = p
        BY <1>1, <2>8, <2>12, <2>14, <3>1 DEF Differ, PortOK, Lost
      <3>2. CASE q # p
        <4>1. /\ t.owner[q] = k.owner[q] /\ t.type[q] = k.type[q] /\ (Lost(t, q) <=> Lost(k, q))
              /\ t.need = k.need \ {d} /\ t.registered = k.registered \ {d}
          BY <2>12, <3>2 DEF Differ, Lost
        <4>2. PortOK(k, q)
          BY <1>1
        <4> QED
          BY <3>2, <4>1, <4>2 DEF PortOK
      <3> QED
        BY <3>1, <3>2
    <2>15. ASSUME NEW e \in DeviceIds PROVE DevOK(t, e)
      <3>1. DevOK(k, e)
        BY <1>1
      <3>2. e # d => t.dev[e] = k.dev[e] /\ (e \in k.registered => ThePort(e) # p)
        BY <2>1, <2>12, <3>1 DEF Differ, DevOK
      <3>3. t.dev[d] = "none" /\ t.need = k.need \ {d} /\ t.registered = k.registered \ {d}
            /\ \A q \in Ports : q # p => t.owner[q] = k.owner[q]
        BY <2>12 DEF Differ
      <3> QED
        BY <3>1, <3>2, <3>3 DEF DevOK
    <2> QED
      BY <2>2, <2>13, <2>14, <2>15 DEF TakenAway, KernelOK
  <1> QED
    BY <1>2, <1>3

\* All devices are taken away, one after the other.
Removal(f, k, fail, m) ==
    /\ f = [d \in 0 .. m |-> f[d]] /\ f[0] = k
    /\ \A d \in 1 .. m : f[d] = CleanupOne(f[d - 1], d, fail)

LEMMA RemovalExists ==
    ASSUME NEW k, NEW fail, NEW n \in Nat
    PROVE  \E f : Removal(f, k, fail, n)
  <1> DEFINE S == {m \in Nat : \E f : Removal(f, k, fail, m)}
  <1>1. 0 \in S
    <2>1. Removal([d \in 0 .. 0 |-> k], k, fail, 0)
      BY DEF Removal
    <2> QED
      BY <2>1
  <1>2. ASSUME NEW m \in Nat, m \in S PROVE m + 1 \in S
    <2>1. PICK f : Removal(f, k, fail, m)
      BY <1>2
    <2> DEFINE v == CleanupOne(f[m], m + 1, fail)
               g == [d \in 0 .. m + 1 |-> IF d = m + 1 THEN v ELSE f[d]]
    <2> HIDE DEF v
    <2>2. g = [d \in 0 .. m + 1 |-> g[d]] /\ g[0] = k
      BY <2>1 DEF Removal
    <2>3. \A d \in 0 .. m : g[d] = f[d]
      OBVIOUS
    <2>4. g[m + 1] = v /\ (m + 1) - 1 = m /\ g[m] = f[m]
      OBVIOUS
    <2> HIDE DEF g
    <2>5. ASSUME NEW d \in 1 .. m + 1 PROVE g[d] = CleanupOne(g[d - 1], d, fail)
      <3>1. CASE d = m + 1
        BY <2>4, <3>1 DEF v
      <3>2. CASE d # m + 1
        <4>1. d \in 1 .. m /\ d \in 0 .. m /\ d - 1 \in 0 .. m
          BY <3>2
        <4>2. f[d] = CleanupOne(f[d - 1], d, fail)
          BY <2>1, <4>1 DEF Removal
        <4> QED
          BY <2>3, <4>1, <4>2
      <3> QED
        BY <3>1, <3>2
    <2>6. Removal(g, k, fail, m + 1)
      BY <2>2, <2>5 DEF Removal
    <2> QED
      BY <2>6
  <1> HIDE DEF S
  <1>3. n \in S
    BY <1>1, <1>2, SetInduction
  <1> QED
    BY <1>3 DEF S

LEMMA CleanupIs ==
    ASSUME params \in Params, NEW k, KernelOK(k), NEW fail
    PROVE  LET t == AtarisioCleanupModule(k, fail) IN KernelOK(t) /\ t.registered = {}
  <1> DEFINE n == Len(params)
             upto[d \in 0 .. n] == IF d = 0 THEN k ELSE CleanupOne(upto[d - 1], d, fail)
  <1>1. AtarisioCleanupModule(k, fail) = upto[n]
    BY DEF AtarisioCleanupModule
  <1>2. n \in Nat /\ DeviceIds = 1 .. n
    BY DeviceIsNoOther
  <1> HIDE DEF n
  <1>3. PICK f : Removal(f, k, fail, n)
    BY <1>2, RemovalExists
  <1>4. f = [d \in 0 .. n |-> IF d = 0 THEN k ELSE CleanupOne(f[d - 1], d, fail)]
    <2>1. \A d \in 0 .. n : f[d] = IF d = 0 THEN k ELSE CleanupOne(f[d - 1], d, fail)
      <3> SUFFICES ASSUME NEW d \in 0 .. n
                   PROVE  f[d] = IF d = 0 THEN k ELSE CleanupOne(f[d - 1], d, fail)
        OBVIOUS
      <3>1. d = 0 \/ d \in 1 .. n
        BY <1>2
      <3>2. 0 \notin 1 .. n
        BY <1>2
      <3> QED
        BY <1>3, <3>1, <3>2, Zenon DEF Removal
    <2> QED
      BY <1>3, <2>1 DEF Removal
  <1>5. upto = [d \in 0 .. n |-> IF d = 0 THEN k ELSE CleanupOne(upto[d - 1], d, fail)]
    BY <1>4, Zenon
  <1> HIDE DEF upto
  <1>6. upto[0] = k /\ \A d \in 1 .. n : upto[d] = CleanupOne(upto[d - 1], d, fail)
    <2> DEFINE Step(d) == IF d = 0 THEN k ELSE CleanupOne(upto[d - 1], d, fail)
    <2>1. upto = [d \in 0 .. n |-> Step(d)]
      BY <1>5
    <2> HIDE DEF Step
    <2>2. \A d \in 0 .. n : upto[d] = Step(d)
      BY <2>1
    <2>3. upto[0] = Step(0)
      BY <1>2, <2>2
    <2>4. ASSUME NEW d \in 1 .. n PROVE upto[d] = CleanupOne(upto[d - 1], d, fail)
      <3>1. upto[d] = Step(d) /\ d # 0
        BY <1>2, <2>2
      <3> QED
        BY <3>1 DEF Step
    <2> QED
      BY <2>3, <2>4 DEF Step
  <1> DEFINE Left(d, t) == KernelOK(t) /\ t.registered \cap (1 .. d) = {}
             U == {d \in Nat : d <= n => Left(d, upto[d])}
  <1>7. 0 \in U
    BY <1>6
  <1>8. ASSUME NEW d \in Nat, d \in U PROVE d + 1 \in U
    <2> SUFFICES ASSUME d + 1 <= n PROVE Left(d + 1, upto[d + 1])
      OBVIOUS
    <2>1. Left(d, upto[d])
      BY <1>2, <1>8
    <2>2. d + 1 \in 1 .. n /\ (d + 1) - 1 = d
      BY <1>2
    <2>3. upto[d + 1] = CleanupOne(upto[d], d + 1, fail)
      BY <1>6, <2>2
    <2>4. TakenAway(upto[d], upto[d + 1], d + 1)
      BY <1>2, <2>1, <2>2, <2>3, CleanupOneIs
    <2> QED
      BY <2>1, <2>4 DEF TakenAway
  <1> HIDE DEF U
  <1>9. n \in U
    BY <1>2, <1>7, <1>8, SetInduction
  <1>10. Left(n, upto[n])
    BY <1>2, <1>9 DEF U
  <1>11. upto[n].registered = {}
    BY <1>2, <1>10 DEF KernelOK
  <1> QED
    BY <1>1, <1>10, <1>11

-----------------------------------------------------------------------------
(* The module.                                                             *)

SetupInv ==
    /\ params \in Params /\ KernelOK(kernel)
    /\ phase = "gone" => kernel.registered = {}

LEMMA SetupInvInit == SetupInit => SetupInv
  <1> SUFFICES ASSUME SetupInit PROVE SetupInv
    OBVIOUS
  <1>1. PICK free \in SUBSET Ports : kernel = NoDevices(free)
    BY DEF SetupInit
  <1>2. KernelShape(kernel)
    BY <1>1 DEF NoDevices, KernelShape, KernelFields
  <1>3. kernel.registered = {} /\ kernel.need = {} /\ \A d \in DeviceIds : kernel.dev[d] = "none"
    BY <1>1 DEF NoDevices
  <1>4. \A p \in Ports : PortOK(kernel, p)
    BY <1>1 DEF NoDevices, PortOK, Lost
  <1> QED
    BY <1>2, <1>3, <1>4 DEF SetupInv, KernelOK, DevOK, SetupInit

LEMMA InitModuleStep ==
    ASSUME SetupInv, AtarisioInitModule PROVE SetupInv'
  <1>1. params \in Params /\ params' = params /\ KernelOK(kernel) /\ phase = "init"
    BY DEF SetupInv, AtarisioInitModule
  <1>2. CASE kernel' = kernel /\ (phase' = phase \/ phase' = (IF kernel.registered = {} THEN "gone" ELSE "loaded"))
    BY <1>1, <1>2 DEF SetupInv, KernelOK, KernelShape, PortOK, DevOK, Lost, ThePort, DeviceIds
  <1>3. CASE loading \in DeviceIds /\ ThePort(loading) # "none"
    <2>1. PICK fail \in Fates :
            LET a == AllocAtarisioDev(kernel, loading, fail) IN
              IF ~a.ok
              THEN phase' = "gone" /\ kernel' = AtarisioCleanupModule(kernel, fail) /\ loading' = 0
              ELSE phase' = phase /\ kernel' = SetUp(a.k, loading, fail) /\ loading' = loading + 1
      BY <1>1, <1>3 DEF AtarisioInitModule
    <2> DEFINE a == AllocAtarisioDev(kernel, loading, fail)
    <2>2. CASE ~a.ok
      <3>1. kernel' = AtarisioCleanupModule(kernel, fail)
        BY <2>1, <2>2
      <3>2. KernelOK(kernel') /\ kernel'.registered = {}
        BY <1>1, <3>1, CleanupIs
      <3> QED
        BY <1>1, <3>2 DEF SetupInv, KernelOK, KernelShape, PortOK, DevOK, Lost, ThePort, DeviceIds
    <2>3. CASE a.ok
      <3>1. kernel.dev[loading] = "none" /\ a.k = [kernel EXCEPT !.dev[loading] = "allocated"]
        BY <2>3 DEF AllocAtarisioDev, Result
      <3>2. phase' = phase /\ kernel' = SetUp(a.k, loading, fail)
        BY <2>1, <2>3
      <3>3. KernelShape(kernel) /\ loading \notin kernel.need /\ ThePort(loading) \in Ports
        BY <1>1, <1>3, <3>1, DeviceIsNoOther DEF KernelOK, DevOK
      <3>4. SetsUp(kernel, loading, kernel')
        BY <1>3, <3>1, <3>2, <3>3, SetUpIs
      <3>5. KernelOK(kernel')
        BY <1>1, <1>3, <3>1, <3>4, SetUpKeeps
      <3> QED
        BY <1>1, <3>2, <3>5 DEF SetupInv, KernelOK, KernelShape, PortOK, DevOK, Lost, ThePort, DeviceIds
    <2> QED
      BY <2>2, <2>3
  <1> QED
    BY <1>2, <1>3 DEF AtarisioInitModule

LEMMA FileStep ==
    ASSUME SetupInv, \E d \in DeviceIds : AtarisioOpen(d) \/ AtarisioRelease(d)
    PROVE  SetupInv'
  <1>1. PICK d \in DeviceIds : AtarisioOpen(d) \/ AtarisioRelease(d)
    OBVIOUS
  <1>2. params \in Params /\ params' = params /\ phase' = phase /\ KernelOK(kernel)
    BY <1>1 DEF SetupInv, AtarisioOpen, AtarisioRelease
  <1>3. \/ kernel' = kernel
        \/ \E v \in {"busy", "allocated"} : kernel' = [kernel EXCEPT !.dev[d] = v] /\ kernel.dev[d] # "none"
    BY <1>1 DEF AtarisioOpen, AtarisioRelease
  <1>4. KernelOK(kernel')
    <2>1. CASE kernel' = kernel
      BY <1>2, <2>1
    <2>2. CASE kernel' # kernel
      <3>1. PICK v \in {"busy", "allocated"} : kernel' = [kernel EXCEPT !.dev[d] = v] /\ kernel.dev[d] # "none"
        BY <1>3, <2>2
      <3> DEFINE k == kernel
                 t == [k EXCEPT !.dev[d] = v]
      <3>2. KernelShape(k)
        BY <1>2 DEF KernelOK
      <3> HIDE DEF k
      <3>3. /\ KernelShape(t) /\ t.free = k.free /\ t.type = k.type /\ t.owner = k.owner
            /\ t.need = k.need /\ t.registered = k.registered /\ t.stuck = k.stuck
            /\ \A e \in DeviceIds : t.dev[e] = IF e = d THEN v ELSE k.dev[e]
        BY <3>2 DEF KernelShape, KernelFields
      <3> HIDE DEF t
      <3>4. KernelOK(t)
        BY <1>2, <3>1, <3>3 DEF KernelOK, PortOK, DevOK, Lost, k
      <3> QED
        BY <3>1, <3>4 DEF t, k
    <2> QED
      BY <2>1, <2>2
  <1>5. kernel'.registered = kernel.registered
    BY <1>2, <1>3 DEF KernelOK, KernelShape, KernelFields
  <1> QED
    BY <1>2, <1>4, <1>5 DEF SetupInv, KernelOK, KernelShape, PortOK, DevOK, Lost, ThePort, DeviceIds

\* The parameters of another load are for as many devices.
LEMMA InsmodStep ==
    ASSUME SetupInv, Insmod PROVE SetupInv'
  <1>1. /\ params \in Params /\ params' \in Params /\ kernel' = kernel /\ phase' = "init"
        /\ KernelOK(kernel) /\ kernel.registered = {}
    BY DEF SetupInv, Insmod
  <1>2. Len(params') = Len(params)
    BY <1>1, SetupAssumption
  <1>3. DeviceIds = 1 .. Len(params) /\ DeviceIds' = 1 .. Len(params')
    <2> DEFINE One == [port : Ports \cup {"none"}, named : BOOLEAN]
    <2>1. params \in Seq(One) /\ params' \in Seq(One)
      BY <1>1, SetupAssumption
    <2> HIDE DEF One
    <2> QED
      BY <2>1 DEF DeviceIds
  <1>4. DeviceIds' = DeviceIds
    BY <1>2, <1>3
  <1>5. kernel.need = {}
    BY <1>1 DEF KernelOK, DevOK
  <1>6. KernelShape(kernel)'
    BY <1>1, <1>4 DEF KernelOK, KernelShape
  <1>7. \A p \in Ports : PortOK(kernel, p)'
    BY <1>1 DEF KernelOK, PortOK, Lost
  <1>8. \A d \in DeviceIds' : DevOK(kernel, d)'
    BY <1>1, <1>4, <1>5 DEF KernelOK, DevOK
  <1> QED
    BY <1>1, <1>5, <1>6, <1>7, <1>8 DEF SetupInv, KernelOK

LEMMA SetupStep == SetupInv /\ [SetupNext]_setupvars => SetupInv'
  <1> SUFFICES ASSUME SetupInv, [SetupNext]_setupvars PROVE SetupInv'
    OBVIOUS
  <1>1. CASE AtarisioInitModule
    BY <1>1, InitModuleStep
  <1>2. CASE AtarisioExitModule
    <2>1. PICK fail \in Fates : kernel' = AtarisioCleanupModule(kernel, fail)
      BY <1>2 DEF AtarisioExitModule
    <2>2. params \in Params /\ params' = params /\ KernelOK(kernel)
      BY <1>2 DEF SetupInv, AtarisioExitModule
    <2>3. KernelOK(kernel') /\ kernel'.registered = {}
      BY <2>1, <2>2, CleanupIs
    <2> QED
      BY <2>2, <2>3 DEF SetupInv, KernelOK, KernelShape, PortOK, DevOK, Lost, ThePort, DeviceIds
  <1>3. CASE Insmod
    BY <1>3, InsmodStep
  <1>4. CASE \E d \in DeviceIds : AtarisioOpen(d) \/ AtarisioRelease(d)
    BY <1>4, FileStep
  <1>5. CASE UNCHANGED setupvars
    BY <1>5 DEF setupvars, SetupInv, KernelOK, KernelShape, PortOK, DevOK, Lost, ThePort, DeviceIds
  <1> QED
    BY <1>1, <1>2, <1>3, <1>4, <1>5 DEF SetupNext

LEMMA SetupInvReturns == SetupInv => PortsReturned
  <1> SUFFICES ASSUME SetupInv PROVE PortsReturned
    OBVIOUS
  <1>1. ASSUME NEW d \in kernel.registered
        PROVE  kernel.owner[ThePort(d)] = d /\ kernel.type[ThePort(d)] = "unknown"
    <2>1. d \in DeviceIds /\ ThePort(d) \in Ports /\ kernel.owner[ThePort(d)] = d
      BY <1>1 DEF SetupInv, KernelOK, DevOK
    <2>2. PortOK(kernel, ThePort(d))
      BY <2>1 DEF SetupInv, KernelOK
    <2> QED
      BY <2>1, <2>2, DeviceIsNoOther DEF PortOK, SetupInv
  <1>2. ASSUME phase = "gone"
        PROVE  /\ kernel.registered = {} /\ kernel.need = {}
               /\ \A p \in Ports : IF p \in kernel.stuck \cup kernel.free THEN kernel.owner[p] = Nobody
                                   ELSE kernel.type[p] = "16550" /\ kernel.owner[p] = SerialDriver
    <2>1. kernel.registered = {}
      BY <1>2 DEF SetupInv
    <2>2. kernel.need = {}
      BY <2>1 DEF SetupInv, KernelOK, DevOK
    <2>3. \A p \in Ports : PortOK(kernel, p)
      BY DEF SetupInv, KernelOK
    <2> QED
      BY <2>1, <2>2, <2>3 DEF PortOK, Lost
  <1> QED
    BY <1>1, <1>2 DEF PortsReturned

(* The machine gets its serial ports back, and no port has two drivers,    *)
(* for any number of devices and ports, any parameters and any steps that  *)
(* fail while atarisio_init_module sets the devices up, while they are     *)
(* opened meanwhile, or while atarisio_cleanup_module undoes it.           *)
THEOREM PortsAreReturned == SetupSpec => []PortsReturned
  <1>1. SetupSpec => []SetupInv
    BY SetupInvInit, SetupStep, PTL DEF SetupSpec
  <1> QED
    BY <1>1, SetupInvReturns, PTL

-----------------------------------------------------------------------------
(***************************************************************************)
(* The file system on an image: for any image, any files and directories,  *)
(* up to a full disk.                                                      *)
(***************************************************************************)

-----------------------------------------------------------------------------
(* The free sectors in their order.                                        *)

\* q has the members of S from lo on and below hi, in their order.
Lists(q, S, lo, hi) ==
    /\ q \in Seq(Nat)
    /\ \A i \in DOMAIN q : q[i] \in S /\ lo <= q[i] /\ q[i] < hi
    /\ \A i, j \in DOMAIN q : i < j => q[i] < q[j]
    /\ \A s \in S : lo <= s /\ s < hi => \E i \in DOMAIN q : q[i] = s

LEMMA ListsConcat ==
    ASSUME NEW S, S \subseteq Nat, NEW a \in Nat, NEW b \in Nat, NEW c \in Nat, a <= b, b <= c,
           NEW q, NEW r, Lists(q, S, a, b), Lists(r, S, b, c)
    PROVE  Lists(q \o r, S, a, c)
  <1>1. q \in Seq(Nat) /\ r \in Seq(Nat)
    BY DEF Lists
  <1>2. PICK t : t = q \o r
    OBVIOUS
  <1>3. /\ t \in Seq(Nat) /\ Len(t) = Len(q) + Len(r)
        /\ \A i \in 1 .. Len(q) : t[i] = q[i]
        /\ \A i \in 1 .. Len(r) : t[Len(q) + i] = r[i]
        /\ \A i \in 1 .. Len(t) : i \in 1 .. Len(q) \/ (i - Len(q) \in 1 .. Len(r) /\ t[i] = r[i - Len(q)])
    BY <1>1, <1>2
  <1>4. DOMAIN t = 1 .. Len(t) /\ DOMAIN q = 1 .. Len(q) /\ DOMAIN r = 1 .. Len(r)
    BY <1>1, <1>3
  <1>5. \A i \in DOMAIN q : q[i] \in Nat /\ q[i] \in S /\ a <= q[i] /\ q[i] < b
    BY <1>1 DEF Lists
  <1>6. \A i \in DOMAIN r : r[i] \in Nat /\ r[i] \in S /\ b <= r[i] /\ r[i] < c
    BY <1>1 DEF Lists
  <1>7. \A i \in DOMAIN t : t[i] \in S /\ a <= t[i] /\ t[i] < c
    <2> TAKE i \in DOMAIN t
    <2>1. CASE i \in 1 .. Len(q)
      <3>1. t[i] = q[i] /\ q[i] \in Nat /\ q[i] \in S /\ a <= q[i] /\ q[i] < b
        BY <1>3, <1>4, <1>5, <2>1
      <3> QED
        BY <3>1
    <2>2. CASE i \notin 1 .. Len(q)
      <3>1. PICK k : k = i - Len(q)
        OBVIOUS
      <3>2. k \in DOMAIN r /\ t[i] = r[k]
        BY <1>3, <1>4, <2>2, <3>1
      <3>3. r[k] \in Nat /\ r[k] \in S /\ b <= r[k] /\ r[k] < c
        BY <1>6, <3>2
      <3> QED
        BY <3>2, <3>3
    <2> QED
      BY <2>1, <2>2
  <1>8. ASSUME NEW i \in DOMAIN t, NEW j \in DOMAIN t, i < j PROVE t[i] < t[j]
    <2>1. CASE j \in 1 .. Len(q)
      <3>1. i \in 1 .. Len(q)
        BY <1>4, <1>8, <2>1
      <3> QED
        BY <1>3, <1>4, <1>8, <2>1, <3>1 DEF Lists
    <2>2. CASE i \in 1 .. Len(q) /\ j \notin 1 .. Len(q)
      <3>1. j - Len(q) \in 1 .. Len(r) /\ t[j] = r[j - Len(q)] /\ t[i] = q[i]
        BY <1>3, <1>4, <1>8, <2>2
      <3>2. q[i] < b /\ b <= r[j - Len(q)] /\ q[i] \in Nat /\ r[j - Len(q)] \in Nat
        BY <1>4, <1>5, <1>6, <2>2, <3>1
      <3> QED
        BY <3>1, <3>2
    <2>3. CASE i \notin 1 .. Len(q)
      <3>1. PICK l : l = Len(q)
        OBVIOUS
      <3>2. l \in Nat /\ i \in Nat /\ j \in Nat /\ i \notin 1 .. l /\ 1 <= i
        BY <1>1, <1>3, <1>4, <1>8, <2>3, <3>1
      <3>3. j \notin 1 .. l /\ i - l < j - l
        BY <1>8, <3>2
      <3>4. /\ i - l \in 1 .. Len(r) /\ t[i] = r[i - l]
            /\ j - l \in 1 .. Len(r) /\ t[j] = r[j - l]
        BY <1>3, <1>4, <3>1, <3>2, <3>3
      <3> QED
        BY <1>4, <3>3, <3>4 DEF Lists
    <2> QED
      BY <2>1, <2>2, <2>3
  <1>9. ASSUME NEW s \in S, a <= s, s < c PROVE \E i \in DOMAIN t : t[i] = s
    <2>1. CASE s < b
      <3>1. PICK i \in DOMAIN q : q[i] = s
        BY <1>9, <2>1 DEF Lists
      <3> QED
        BY <1>1, <1>3, <1>4, <3>1
    <2>2. CASE b <= s
      <3>1. PICK i \in DOMAIN r : r[i] = s
        BY <1>9, <2>2 DEF Lists
      <3>2. Len(q) + i \in DOMAIN t
        BY <1>1, <1>3, <1>4, <3>1
      <3> QED
        BY <1>3, <1>4, <3>1, <3>2
    <2> QED
      BY <1>9, <2>1, <2>2
  <1> QED
    BY <1>2, <1>3, <1>7, <1>8, <1>9 DEF Lists

LEMMA ListsBit ==
    ASSUME NEW S, S \subseteq Nat, NEW s \in Nat
    PROVE  Lists(InBit(S, s), S, s, s + 1)
  <1>1. CASE s \in S
    <2>1. PICK q : q = <<s>>
      OBVIOUS
    <2>2. q \in Seq(Nat) /\ Len(q) = 1 /\ q[1] = s /\ DOMAIN q = {1}
      BY <2>1
    <2>3. \A t \in S : s <= t /\ t < s + 1 => t = s
      OBVIOUS
    <2>4. Lists(q, S, s, s + 1)
      BY <1>1, <2>2, <2>3 DEF Lists
    <2> QED
      BY <1>1, <2>1, <2>4 DEF InBit
  <1>2. CASE s \notin S
    <2>1. PICK q : q = <<>>
      OBVIOUS
    <2>2. q \in Seq(Nat) /\ DOMAIN q = {}
      BY <2>1
    <2>3. \A t \in S : ~(s <= t /\ t < s + 1)
      BY <1>2
    <2>4. Lists(q, S, s, s + 1)
      BY <2>2, <2>3 DEF Lists
    <2> QED
      BY <1>2, <2>1, <2>4 DEF InBit
  <1> QED
    BY <1>1, <1>2

\* Flattening puts the pieces together one after the other.
Flattened(f, seqs) ==
    /\ f[1] = seqs[1]
    /\ \A i \in 2 .. Len(seqs) : f[i] = f[i - 1] \o seqs[i]

LEMMA FlattenIs ==
    ASSUME NEW C, NEW seqs \in Seq(Seq(C)), Len(seqs) # 0
    PROVE  \E f : Flattened(f, seqs) /\ FlattenSeq(seqs) = f[Len(seqs)]
  <1> DEFINE N == Len(seqs)
             flatten[i \in 1 .. Len(seqs)] == IF i = 1 THEN seqs[i] ELSE flatten[i - 1] \o seqs[i]
  <1>1. FlattenSeq(seqs) = flatten[Len(seqs)]
    BY DEF FlattenSeq
  <1>2. N \in Nat \ {0} /\ \A i \in 1 .. N : seqs[i] \in Seq(C)
    OBVIOUS
  <1>3. PICK next : next = [i \in 1 .. N |-> [v \in Seq(C) |-> v \o seqs[i]]]
    OBVIOUS
  <1>4. \A i \in 1 .. N, v \in Seq(C) : next[i][v] \in Seq(C) /\ next[i][v] = v \o seqs[i]
    <2> HIDE DEF N
    <2> SUFFICES ASSUME NEW i \in 1 .. N, NEW v \in Seq(C)
                 PROVE  next[i][v] \in Seq(C) /\ next[i][v] = v \o seqs[i]
      OBVIOUS
    <2>1. seqs[i] \in Seq(C)
      BY <1>2
    <2>2. next[i][v] = v \o seqs[i]
      BY <1>3, Zenon
    <2>3. v \o seqs[i] \in Seq(C)
      BY <2>1
    <2> QED
      BY <2>2, <2>3
  <1>5. <<>> \in Seq(C)
    OBVIOUS
  <1>6. PICK g : Recurs(g, Seq(C), <<>>, N, next)
    <2> HIDE DEF N
    <2> QED
      BY <1>2, <1>4, <1>5, Recursion
  <1>7. \A i \in 0 .. N : g[i] \in Seq(C)
    BY <1>6 DEF Recurs
  <1>8. \A i \in 1 .. N : g[i] = g[i - 1] \o seqs[i]
    <2> TAKE i \in 1 .. N
    <2>1. i - 1 \in 0 .. N
      OBVIOUS
    <2>2. g[i - 1] \in Seq(C) /\ g[i] = next[i][g[i - 1]]
      BY <1>6, <1>7, <2>1 DEF Recurs
    <2> QED
      BY <1>4, <2>2
  <1>9. g[1] = seqs[1]
    <2>1. 1 \in 1 .. N /\ 1 - 1 = 0
      BY <1>2
    <2>2. g[0] = <<>>
      BY <1>6 DEF Recurs
    <2>3. seqs[1] \in Seq(C)
      BY <1>2, <2>1
    <2>4. <<>> \o seqs[1] = seqs[1]
      BY <2>3
    <2>5. g[1] = g[0] \o seqs[1]
      BY <1>8, <2>1
    <2> QED
      BY <2>2, <2>4, <2>5
  <1>10. \E f : f = [i \in 1 .. Len(seqs) |-> IF i = 1 THEN seqs[i] ELSE f[i - 1] \o seqs[i]]
    <2> DEFINE h == [i \in 1 .. N |-> g[i]]
    <2>1. \A i \in 1 .. N : g[i] = IF i = 1 THEN seqs[i] ELSE g[i - 1] \o seqs[i]
      BY <1>8, <1>9
    <2>2. \A i \in 1 .. N : h[i] = IF i = 1 THEN seqs[i] ELSE h[i - 1] \o seqs[i]
      <3> TAKE i \in 1 .. N
      <3>1. h[i] = g[i] /\ (i # 1 => i - 1 \in 1 .. N /\ h[i - 1] = g[i - 1])
        BY <1>2
      <3> HIDE DEF h
      <3> QED
        BY <2>1, <3>1
    <2>3. h = [i \in 1 .. N |-> h[i]]
      OBVIOUS
    <2> HIDE DEF h
    <2>4. h = [i \in 1 .. Len(seqs) |-> IF i = 1 THEN seqs[i] ELSE h[i - 1] \o seqs[i]]
      BY <2>2, <2>3
    <2> QED
      BY <2>4
  <1>11. flatten = [i \in 1 .. Len(seqs) |-> IF i = 1 THEN seqs[i] ELSE flatten[i - 1] \o seqs[i]]
    BY <1>10, Zenon
  <1> HIDE DEF flatten
  <1>12. \A i \in 1 .. N : flatten[i] = IF i = 1 THEN seqs[i] ELSE flatten[i - 1] \o seqs[i]
    BY <1>11
  <1>13. flatten[1] = seqs[1]
    <2>1. 1 \in 1 .. N
      BY <1>2
    <2> QED
      BY <1>12, <2>1
  <1>14. \A i \in 2 .. N : flatten[i] = flatten[i - 1] \o seqs[i]
    <2> TAKE i \in 2 .. N
    <2>1. i \in 1 .. N /\ i # 1
      BY <1>2
    <2> QED
      BY <1>12, <2>1
  <1>15. Flattened(flatten, seqs)
    BY <1>13, <1>14 DEF Flattened
  <1> QED
    BY <1>1, <1>15

LEMMA FlattenLists ==
    ASSUME NEW S, S \subseteq Nat, NEW n \in Nat, n # 0, NEW e \in [0 .. n -> Nat], NEW seqs,
           seqs = [i \in 1 .. n |-> seqs[i]],
           \A i \in 1 .. n : e[i - 1] <= e[i] /\ Lists(seqs[i], S, e[i - 1], e[i])
    PROVE  Lists(FlattenSeq(seqs), S, e[0], e[n])
  <1>1. seqs \in Seq(Seq(Nat)) /\ Len(seqs) = n
    <2>1. \A i \in 1 .. n : seqs[i] \in Seq(Nat)
      BY DEF Lists
    <2> QED
      BY <2>1
  <1>2. PICK f : Flattened(f, seqs) /\ FlattenSeq(seqs) = f[n]
    BY <1>1, FlattenIs
  <1> DEFINE T == {k \in Nat : k + 1 <= n => e[0] <= e[k + 1] /\ Lists(f[k + 1], S, e[0], e[k + 1])}
  <1>3. 0 \in T
    <2>1. 1 \in 1 .. n /\ 1 - 1 = 0 /\ 0 + 1 = 1
      OBVIOUS
    <2>2. f[1] = seqs[1]
      BY <1>2 DEF Flattened
    <2>3. e[0] <= e[1] /\ Lists(f[1], S, e[0], e[1])
      BY <2>1, <2>2
    <2> QED
      BY <2>1, <2>3
  <1>4. ASSUME NEW k \in Nat, k \in T PROVE k + 1 \in T
    <2> SUFFICES ASSUME (k + 1) + 1 <= n
                 PROVE  e[0] <= e[(k + 1) + 1] /\ Lists(f[(k + 1) + 1], S, e[0], e[(k + 1) + 1])
      OBVIOUS
    <2>1. PICK m : m = (k + 1) + 1
      OBVIOUS
    <2>2. m \in 2 .. n /\ m \in 1 .. n /\ m - 1 = k + 1 /\ k + 1 <= n /\ k + 1 \in 0 .. n /\ m \in 0 .. n /\ 0 \in 0 .. n
      BY <2>1
    <2>3. e[0] <= e[m - 1] /\ Lists(f[m - 1], S, e[0], e[m - 1])
      BY <1>4, <2>2
    <2>4. f[m] = f[m - 1] \o seqs[m]
      BY <1>1, <1>2, <2>2 DEF Flattened
    <2>5. e[0] \in Nat /\ e[m - 1] \in Nat /\ e[m] \in Nat
      BY <2>2
    <2>6. e[m - 1] <= e[m] /\ Lists(seqs[m], S, e[m - 1], e[m])
      BY <2>2
    <2>7. Lists(f[m - 1] \o seqs[m], S, e[0], e[m])
      BY <2>3, <2>5, <2>6, ListsConcat
    <2>8. e[0] <= e[m]
      BY <2>3, <2>5, <2>6
    <2> QED
      BY <2>1, <2>4, <2>7, <2>8
  <1> HIDE DEF T
  <1>5. n - 1 \in T
    BY <1>3, <1>4, SetInduction
  <1>6. n - 1 \in Nat /\ (n - 1) + 1 = n
    OBVIOUS
  <1> QED
    BY <1>2, <1>5, <1>6 DEF T

LEMMA ListsHalf ==
    ASSUME NEW S, S \subseteq Nat, NEW s \in Nat
    PROVE  Lists(InHalf(S, s), S, s, s + 4)
  <1>1. PICK t, u, v, w : t = s + 1 /\ u = s + 2 /\ v = s + 3 /\ w = s + 4
    OBVIOUS
  <1>2. /\ t \in Nat /\ u \in Nat /\ v \in Nat /\ w \in Nat /\ s <= t /\ s <= u /\ s <= v
        /\ t <= u /\ u <= v /\ v <= w /\ s + 1 = t /\ t + 1 = u /\ u + 1 = v /\ v + 1 = w
    BY <1>1
  <1>3. /\ Lists(InBit(S, s), S, s, t) /\ Lists(InBit(S, t), S, t, u)
        /\ Lists(InBit(S, u), S, u, v) /\ Lists(InBit(S, v), S, v, w)
    <2>1. \A x \in Nat : Lists(InBit(S, x), S, x, x + 1)
      BY ListsBit
    <2> QED
      BY <1>2, <2>1
  <1>4. Lists(InBit(S, s) \o InBit(S, t), S, s, u)
    BY <1>2, <1>3, ListsConcat
  <1>5. PICK p : p = InBit(S, s) \o InBit(S, t)
    OBVIOUS
  <1>6. Lists(p, S, s, u)
    BY <1>4, <1>5
  <1>7. Lists(p \o InBit(S, u), S, s, v)
    BY <1>2, <1>3, <1>6, ListsConcat
  <1>8. PICK q : q = p \o InBit(S, u)
    OBVIOUS
  <1>9. Lists(q, S, s, v)
    BY <1>7, <1>8
  <1>10. Lists(q \o InBit(S, v), S, s, w)
    BY <1>2, <1>3, <1>9, ListsConcat
  <1> QED
    BY <1>1, <1>5, <1>8, <1>10 DEF InHalf

LEMMA ListsByte ==
    ASSUME NEW S, S \subseteq Nat, NEW k \in Nat
    PROVE  Lists(InByte(S, k), S, 8 * k, 8 * k + 8)
  <1>1. PICK a, b, c : a = 8 * k /\ b = 8 * k + 4 /\ c = 8 * k + 8
    OBVIOUS
  <1>2. a \in Nat /\ b \in Nat /\ c \in Nat /\ a <= b /\ b <= c /\ b = a + 4 /\ c = b + 4
    BY <1>1
  <1>3. Lists(InHalf(S, a), S, a, b) /\ Lists(InHalf(S, b), S, b, c)
    BY <1>2, ListsHalf
  <1>4. Lists(InHalf(S, a) \o InHalf(S, b), S, a, c)
    BY <1>2, <1>3, ListsConcat
  <1> QED
    BY <1>1, <1>4 DEF InByte

\* The first sector of a table, as InTables counts them.
FirstOf(t) == 1024 * t

LEMMA ListsTable ==
    ASSUME NEW S, S \subseteq Nat, NEW t \in Nat
    PROVE  Lists(InTable(S, t), S, FirstOf(t), FirstOf(t + 1))
  <1> DEFINE e == [i \in 0 .. 128 |-> 1024 * t + 8 * i]
             q == [k \in 1 .. 128 |-> InByte(S, 128 * t + k - 1)]
  <1>1. e \in [0 .. 128 -> Nat] /\ q = [i \in 1 .. 128 |-> q[i]]
    OBVIOUS
  <1>2. \A i \in 1 .. 128 : e[i - 1] <= e[i] /\ Lists(q[i], S, e[i - 1], e[i])
    <2> TAKE i \in 1 .. 128
    <2>1. PICK k : k = 128 * t + i - 1
      OBVIOUS
    <2>2. k \in Nat /\ e[i - 1] = 8 * k /\ e[i] = 8 * k + 8
      BY <2>1
    <2>3. q[i] = InByte(S, k)
      BY <2>1
    <2>4. Lists(InByte(S, k), S, 8 * k, 8 * k + 8)
      <3> HIDE DEF e, q
      <3> QED
        BY <2>2, ListsByte, Zenon
    <2>5. e[i - 1] <= e[i]
      BY <2>2
    <2> HIDE DEF e, q
    <2> QED
      BY <2>2, <2>3, <2>4, <2>5
  <1>3. e[0] = FirstOf(t) /\ e[128] = FirstOf(t + 1)
    BY DEF FirstOf
  <1>4. InTable(S, t) = FlattenSeq(q)
    BY DEF InTable
  <1> HIDE DEF e, q
  <1>5. Lists(FlattenSeq(q), S, e[0], e[128])
    <2>1. 128 \in Nat /\ 128 # 0
      OBVIOUS
    <2> QED
      BY <1>1, <1>2, <2>1, FlattenLists, Zenon
  <1> QED
    BY <1>3, <1>4, <1>5

\* The end of the numbers the tables' bits stand for.
EndOfTables == FirstOf(1 + geo.numsec \div 1024)

LEMMA ListsTables ==
    ASSUME NEW S, S \subseteq Nat, geo.numsec \in Nat
    PROVE  Lists(InTables(S), S, 0, EndOfTables)
  <1>1. PICK n : n = 1 + geo.numsec \div 1024
    OBVIOUS
  <1>2. n \in Nat /\ n # 0
    BY <1>1
  <1> DEFINE e == [i \in 0 .. n |-> FirstOf(i)]
             q == [t \in 1 .. n |-> InTable(S, t - 1)]
  <1>3. e \in [0 .. n -> Nat] /\ q = [i \in 1 .. n |-> q[i]]
    BY <1>2 DEF FirstOf
  <1>4. \A i \in 1 .. n : e[i - 1] <= e[i] /\ Lists(q[i], S, e[i - 1], e[i])
    <2> TAKE i \in 1 .. n
    <2>1. PICK t : t = i - 1
      OBVIOUS
    <2>2. t \in Nat /\ i = t + 1 /\ e[i - 1] = FirstOf(t) /\ e[i] = FirstOf(t + 1)
      BY <1>2, <2>1
    <2>3. q[i] = InTable(S, t)
      BY <2>1
    <2>4. Lists(InTable(S, t), S, FirstOf(t), FirstOf(t + 1))
      BY <2>2, ListsTable
    <2>5. FirstOf(t) <= FirstOf(t + 1)
      BY <2>2 DEF FirstOf
    <2> HIDE DEF e, q
    <2> QED
      BY <2>2, <2>3, <2>4, <2>5
  <1>5. e[0] = 0 /\ e[n] = FirstOf(n)
    BY <1>2 DEF FirstOf
  <1>6. InTables(S) = FlattenSeq(q)
    BY <1>1 DEF InTables
  <1> HIDE DEF e, q
  <1>7. Lists(FlattenSeq(q), S, e[0], e[n])
    BY <1>2, <1>3, <1>4, FlattenLists
  <1> QED
    BY <1>1, <1>5, <1>6, <1>7 DEF EndOfTables

\* n different members of S.
Chosen(q, S, n) ==
    /\ q \in Seq(Nat) /\ Len(q) = n
    /\ \A i, j \in 1 .. n : q[i] = q[j] => i = j
    /\ \A i \in 1 .. n : q[i] \in S

LEMMA CountOf ==
    ASSUME NEW S, NEW n \in Nat, NEW q, Chosen(q, S, n), \A s \in S : \E i \in 1 .. n : q[i] = s
    PROVE  Cardinality(S) = n
  <1>1. q \in [1 .. n -> S]
    BY DEF Chosen
  <1>2. q \in Bijection(1 .. n, S)
    BY <1>1 DEF Bijection, Injection, Surjection, IsInjective, Chosen
  <1>3. ExistsBijection(1 .. n, S)
    BY <1>2 DEF ExistsBijection
  <1> QED
    BY <1>3, FS_CountingElements

LEMMA LowestIs ==
    ASSUME geo.numsec \in Nat, NEW S, S \subseteq 0 .. geo.numsec, NEW n \in Nat, n <= Cardinality(S)
    PROVE  Chosen(Lowest(S, n), S, n)
  <1>1. PICK q, m : q = InTables(S) /\ m = EndOfTables
    OBVIOUS
  <1>2. S \subseteq Nat
    OBVIOUS
  <1>3. Lists(q, S, 0, m)
    BY <1>1, <1>2, ListsTables
  <1>4. m \in Nat /\ geo.numsec < m
    BY <1>1 DEF FirstOf, EndOfTables
  <1>5. q \in Seq(Nat) /\ DOMAIN q = 1 .. Len(q) /\ Len(q) \in Nat
    BY <1>3 DEF Lists
  <1>6. \A i, j \in 1 .. Len(q) : q[i] = q[j] => i = j
    <2> TAKE i, j \in 1 .. Len(q)
    <2>1. i < j => q[i] < q[j]
      BY <1>3, <1>5 DEF Lists
    <2>2. j < i => q[j] < q[i]
      BY <1>3, <1>5 DEF Lists
    <2>3. q[i] \in Nat /\ q[j] \in Nat
      BY <1>5
    <2> QED
      BY <1>5, <2>1, <2>2, <2>3
  <1>7. \A i \in 1 .. Len(q) : q[i] \in S
    BY <1>3, <1>5 DEF Lists
  <1>8. \A s \in S : \E i \in 1 .. Len(q) : q[i] = s
    <2> TAKE s \in S
    <2>1. 0 <= s /\ s < m
      BY <1>4
    <2> QED
      BY <1>3, <1>5, <2>1 DEF Lists
  <1>9. Cardinality(S) = Len(q)
    <2>1. Chosen(q, S, Len(q))
      BY <1>5, <1>6, <1>7 DEF Chosen
    <2> QED
      BY <1>5, <1>8, <2>1, CountOf, Zenon
  <1>10. PICK r : r = SubSeq(q, 1, n)
    OBVIOUS
  <1>11. r \in Seq(Nat) /\ Len(r) = n /\ \A i \in 1 .. n : r[i] = q[i] /\ i \in 1 .. Len(q)
    BY <1>5, <1>9, <1>10
  <1>12. Chosen(r, S, n)
    BY <1>6, <1>7, <1>11 DEF Chosen
  <1> QED
    BY <1>1, <1>10, <1>12 DEF Lowest
-----------------------------------------------------------------------------
(* The image and its tables.                                               *)

ImageOK(g) ==
    /\ g.numsec \in Nat /\ 720 <= g.numsec /\ g.numsec <= 65535
    /\ g.seclen \in {128, 256} /\ g.format \in {"dos2", "mydos"}

LEMMA GeometryIsImage ==
    ASSUME geo \in Geometries
    PROVE  ImageOK(geo)
  BY DosAssumption DEF ImageOK

\* What follows from the size of an image.
Sizes(nv, last) ==
    /\ nv \in 1 .. 66 /\ last \in Nat /\ 719 <= last /\ last <= geo.numsec
    /\ ~Use16BitSectorLinks => last <= 1023
    /\ IsDos25EnhancedDensity => last = 1023 /\ nv = 1
    /\ ~IsDos25EnhancedDensity => 10 + (last \div 8) < nv * geo.seclen
    /\ geo.format = "dos2" /\ ~IsDos25EnhancedDensity => last = 719
    /\ geo.format = "dos2" => nv = 1 /\ ~Use16BitSectorLinks
    /\ geo.format = "mydos" => last = geo.numsec /\ last >= 720 /\ ~IsDos25EnhancedDensity

LEMMA SizesAre ==
    ASSUME ImageOK(geo)
    PROVE  Sizes(GetNumberOfVTOCs, LastSector)
  <1>1. PICK n, len, f : n = geo.numsec /\ len = geo.seclen /\ f = geo.format
    OBVIOUS
  <1>2. n \in Nat /\ 720 <= n /\ n <= 65535 /\ len \in {128, 256} /\ f \in {"dos2", "mydos"}
    BY <1>1 DEF ImageOK
  <1>3. PICK v, l, nv : v = NumVTOC(n, len) /\ l = LastSector /\ nv = GetNumberOfVTOCs
    OBVIOUS
  <1>4. /\ v \in 1 .. 66 /\ 10 + (n \div 8) < v * len
        /\ v = 1 /\ len = 128 => n < 1024
    <2>1. PICK m : m = 1 + ((n + 80) \div (len * 8))
      OBVIOUS
    <2>2. v = IF len = 128 /\ m > 1 /\ m % 2 = 1 THEN m + 1 ELSE m
      BY <1>3, <2>1 DEF NumVTOC
    <2>3. CASE len = 128
      <3>1. m = 1 + ((n + 80) \div 1024)
        BY <2>1, <2>3
      <3>2. m \in 1 .. 65 /\ n + 80 < 1024 * m
        BY <1>2, <3>1
      <3>3. v \in 1 .. 66 /\ m <= v /\ (v = 1 => m = 1)
        BY <2>2, <3>2
      <3>4. n + 80 < 1024 * v
        BY <1>2, <3>2, <3>3
      <3>5. 10 + (n \div 8) < v * 128
        BY <1>2, <3>3, <3>4
      <3> QED
        BY <1>2, <2>3, <3>2, <3>3, <3>4, <3>5
    <2>4. CASE len = 256
      <3>1. m = 1 + ((n + 80) \div 2048)
        BY <2>1, <2>4
      <3>2. m \in 1 .. 66 /\ n + 80 < 2048 * m
        BY <1>2, <3>1
      <3>3. v = m
        BY <2>2, <2>4
      <3>4. 10 + (n \div 8) < v * 256
        BY <1>2, <3>2, <3>3
      <3> QED
        BY <2>4, <3>2, <3>3, <3>4
    <2> QED
      BY <1>2, <2>3, <2>4
  <1>5. nv = IF f = "mydos" THEN v ELSE 1
    BY <1>1, <1>3 DEF GetNumberOfVTOCs
  <1>6. l = IF f = "mydos" THEN n ELSE IF n = 1040 /\ len = 128 THEN 1023 ELSE 719
    BY <1>1, <1>2, <1>3 DEF LastSector, IsDos25EnhancedDensity
  <1>7. IsDos25EnhancedDensity <=> f = "dos2" /\ n = 1040 /\ len = 128
    BY <1>1 DEF IsDos25EnhancedDensity
  <1>8. Use16BitSectorLinks <=> f = "mydos" /\ IF len = 128 THEN nv > 1 ELSE n >= 1024
    BY <1>1, <1>3 DEF Use16BitSectorLinks
  <1>9. CASE f = "mydos"
    <2>1. nv = v /\ l = n
      BY <1>5, <1>6, <1>9
    <2>2. ~Use16BitSectorLinks => l <= 1023
      BY <1>2, <1>4, <1>8, <1>9, <2>1
    <2>3. 10 + (l \div 8) < nv * len
      BY <1>4, <2>1
    <2> QED
      BY <1>1, <1>2, <1>3, <1>4, <1>7, <1>9, <2>1, <2>2, <2>3 DEF Sizes
  <1>10. CASE f = "dos2"
    <2>1. nv = 1 /\ l \in {719, 1023} /\ l <= n
      BY <1>2, <1>5, <1>6, <1>10
    <2>2. l = 1023 <=> IsDos25EnhancedDensity
      BY <1>6, <1>7, <1>10
    <2>3. l = 719 => 10 + (l \div 8) < nv * len
      BY <1>2, <2>1
    <2> QED
      BY <1>1, <1>2, <1>3, <1>8, <1>10, <2>1, <2>2, <2>3 DEF Sizes
  <1> QED
    BY <1>2, <1>9, <1>10

\* What is marked free is none of the system's.
LEMMA MarkedIs ==
    ASSUME ImageOK(geo)
    PROVE  /\ \A s \in MarkedFree : s \in Nat /\ 4 <= s /\ s <= LastSector /\ s \notin Reserved
           /\ \A s \in MarkedFree : IsDos25EnhancedDensity => s <= 1023
  <1>1. PICK nv, last : nv = GetNumberOfVTOCs /\ last = LastSector
    OBVIOUS
  <1>2. Sizes(nv, last)
    BY <1>1, SizesAre
  <1>3. nv \in 1 .. 66 /\ last \in Nat /\ 719 <= last
    BY <1>2 DEF Sizes
  <1>4. \A s \in MarkedFree :
           /\ s \in Nat /\ 4 <= s /\ s <= last
           /\ s <= 360 - nv \/ 369 <= s
           /\ geo.format = "dos2" => s # 720
    <2>1. CASE IsDos25EnhancedDensity
      <3>1. \A s \in MarkedFree : s \in 4 .. 360 - nv \/ s \in 369 .. 719 \/ s \in 721 .. last
        BY <1>1, <2>1 DEF MarkedFree, eVTOCSector, eDirSector
      <3>2. last = 1023
        BY <1>2, <2>1 DEF Sizes
      <3> QED
        BY <1>3, <3>1, <3>2
    <2>2. CASE ~IsDos25EnhancedDensity
      <3>1. \A s \in MarkedFree : s \in 4 .. 360 - nv \/ s \in 369 .. last
        BY <1>1, <2>2 DEF MarkedFree, eVTOCSector, eDirSector
      <3>2. geo.format = "dos2" => last = 719
        BY <1>2, <2>2 DEF Sizes
      <3> QED
        BY <1>3, <3>1, <3>2
    <2> QED
      BY <2>1, <2>2
  <1>5. \A s \in Reserved : s \in 0 .. 3 \/ s \in 360 - nv + 1 .. 368 \/ (geo.format = "dos2" /\ s = 720)
    BY <1>1 DEF Reserved, eVTOCSector, eDirSector
  <1>6. \A s \in MarkedFree : s \notin Reserved
    <2> TAKE s \in MarkedFree
    <2>1. /\ s \in Nat /\ 4 <= s /\ (s <= 360 - nv \/ 369 <= s)
          /\ geo.format = "dos2" => s # 720
      BY <1>4
    <2>2. s \notin 0 .. 3 /\ s \notin 360 - nv + 1 .. 368
      BY <1>3, <2>1
    <2> QED
      BY <1>5, <2>1, <2>2
  <1>7. IsDos25EnhancedDensity => last = 1023
    BY <1>2 DEF Sizes
  <1> QED
    BY <1>1, <1>4, <1>6, <1>7

\* The tables hold what is free and agree where they overlap, and the counters
\* count.
High(v2) == {s \in v2 : s >= 720}

TablesOK ==
    /\ vtoc \subseteq MarkedFree /\ vtoc2 \subseteq MarkedFree
    /\ IsDos25EnhancedDensity =>
         /\ \A s \in vtoc : s < 720 /\ (s >= 48 => s \in vtoc2)
         /\ \A s \in vtoc2 : s >= 48 /\ (s < 720 => s \in vtoc)
    /\ ~IsDos25EnhancedDensity => vtoc2 = {}
    /\ low = Cardinality(vtoc) /\ high = Cardinality(High(vtoc2))

LEMMA FreeSectorsAre ==
    ASSUME ImageOK(geo), TablesOK
    PROVE  /\ vtoc \cup High(vtoc2) \subseteq 0 .. geo.numsec
           /\ vtoc \cap High(vtoc2) = {}
           /\ IsFiniteSet(vtoc) /\ IsFiniteSet(High(vtoc2))
           /\ low \in Nat /\ high \in Nat
           /\ Cardinality(vtoc \cup High(vtoc2)) = low + high
  <1>1. PICK N : N = geo.numsec
    OBVIOUS
  <1>2. N \in Nat /\ LastSector \in Nat /\ LastSector <= N
    BY <1>1, SizesAre DEF ImageOK, Sizes
  <1>3. MarkedFree \subseteq 0 .. N
    <2>1. \A s \in MarkedFree : s \in Nat /\ s <= LastSector
      BY MarkedIs
    <2> QED
      BY <1>2, <2>1
  <1>4. vtoc \subseteq 0 .. N /\ High(vtoc2) \subseteq 0 .. N
    BY <1>3 DEF TablesOK, High
  <1>5. IsFiniteSet(0 .. N)
    BY <1>2, FS_Interval
  <1>6. IsFiniteSet(vtoc) /\ IsFiniteSet(High(vtoc2))
    BY <1>4, <1>5, FS_Subset
  <1>7. vtoc \cap High(vtoc2) = {}
    <2>1. CASE IsDos25EnhancedDensity
      <3>1. \A s \in vtoc : s \in Nat /\ s < 720
        BY <1>4, <2>1 DEF TablesOK
      <3> QED
        BY <3>1 DEF High
    <2>2. CASE ~IsDos25EnhancedDensity
      BY <2>2 DEF TablesOK, High
    <2> QED
      BY <2>1, <2>2
  <1>8. low \in Nat /\ high \in Nat
    BY <1>6, FS_CardinalityType DEF TablesOK
  <1>9. Cardinality(vtoc \cup High(vtoc2)) = low + high
    <2>1. Cardinality({}) = 0
      BY FS_EmptySet
    <2>2. Cardinality(vtoc \cup High(vtoc2)) = Cardinality(vtoc) + Cardinality(High(vtoc2)) - Cardinality(vtoc \cap High(vtoc2))
      BY <1>6, FS_Union
    <2>3. Cardinality(vtoc) = low /\ Cardinality(High(vtoc2)) = high
      BY DEF TablesOK
    <2> QED
      BY <1>7, <1>8, <2>1, <2>2, <2>3
  <1> QED
    BY <1>1, <1>4, <1>6, <1>7, <1>8, <1>9

\* Sectors are taken from the tables.
LEMMA ChosenSet ==
    ASSUME NEW q, NEW A, NEW n \in Nat, Chosen(q, A, n)
    PROVE  /\ ToSet(q) \subseteq A /\ IsFiniteSet(ToSet(q)) /\ Cardinality(ToSet(q)) = n
           /\ Chosen(q, ToSet(q), n)
  <1>1. ToSet(q) = {q[i] : i \in 1 .. n}
    BY DEF ToSet, Chosen
  <1>2. Chosen(q, ToSet(q), n)
    BY <1>1 DEF Chosen
  <1>3. \A s \in ToSet(q) : \E i \in 1 .. n : q[i] = s
    BY <1>1
  <1>4. Cardinality(ToSet(q)) = n
    BY <1>2, <1>3, CountOf
  <1>5. IsFiniteSet(ToSet(q))
    <2>1. q \in Surjection(1 .. n, ToSet(q))
      BY <1>2, <1>3 DEF Surjection, Chosen
    <2>2. IsFiniteSet(1 .. n)
      BY FS_Interval
    <2> QED
      BY <2>1, <2>2, FS_Surjection
  <1> QED
    BY <1>1, <1>2, <1>4, <1>5 DEF Chosen

LEMMA Removed ==
    ASSUME NEW A, IsFiniteSet(A), NEW B, B \subseteq A
    PROVE  IsFiniteSet(B) /\ Cardinality(A \ B) = Cardinality(A) - Cardinality(B)
  <1>1. A \cap B = B
    OBVIOUS
  <1>2. IsFiniteSet(B)
    BY FS_Subset, Zenon
  <1>3. Cardinality(A \ B) = Cardinality(A) - Cardinality(A \cap B)
    BY FS_Difference, Zenon
  <1> QED
    BY <1>1, <1>2, <1>3

LEMMA AllocKeeps ==
    ASSUME ImageOK(geo), TablesOK, UNCHANGED geo, NEW n \in Nat, NEW q,
           Chosen(q, vtoc \cup High(vtoc2), n), AllocSectors(q)
    PROVE  /\ TablesOK'
           /\ vtoc' = vtoc \ ToSet(q) /\ vtoc2' = vtoc2 \ ToSet(q)
  <1>1. PICK S : S = ToSet(q)
    OBVIOUS
  <1>2. /\ vtoc' = vtoc \ S /\ vtoc2' = vtoc2 \ S
        /\ low' = low - (Len(q) - Cardinality({s \in S : IsDos25EnhancedDensity /\ s >= 720}))
        /\ high' = high - Cardinality({s \in S : IsDos25EnhancedDensity /\ s >= 720})
    BY <1>1 DEF AllocSectors
  <1>3. /\ S \subseteq vtoc \cup High(vtoc2) /\ IsFiniteSet(S) /\ Cardinality(S) = n /\ Len(q) = n
    BY <1>1, ChosenSet DEF Chosen
  <1>4. PICK A, B : A = S \cap vtoc /\ B = S \cap High(vtoc2)
    OBVIOUS
  <1>5. /\ vtoc \cap High(vtoc2) = {} /\ IsFiniteSet(vtoc) /\ IsFiniteSet(High(vtoc2))
        /\ low \in Nat /\ high \in Nat
    BY FreeSectorsAre
  <1>6. {s \in S : IsDos25EnhancedDensity /\ s >= 720} = B
    <2>1. CASE IsDos25EnhancedDensity
      <3>1. \A s \in vtoc : ~(s >= 720)
        <4>1. \A s \in vtoc : s \in Nat /\ s < 720
          BY <2>1, MarkedIs DEF TablesOK
        <4> QED
          BY <4>1
      <3> QED
        BY <1>3, <1>4, <2>1, <3>1 DEF High
    <2>2. CASE ~IsDos25EnhancedDensity
      BY <1>4, <2>2 DEF TablesOK, High
    <2> QED
      BY <2>1, <2>2
  <1>7. A \cup B = S /\ A \cap B = {}
    BY <1>3, <1>4, <1>5
  <1>8. IsFiniteSet(A) /\ IsFiniteSet(B) /\ Cardinality(A) + Cardinality(B) = n
    <2>1. IsFiniteSet(A) /\ IsFiniteSet(B)
      BY <1>3, <1>4, FS_Intersection
    <2>2. Cardinality(A \cup B) = Cardinality(A) + Cardinality(B) - Cardinality(A \cap B)
      BY <2>1, FS_Union
    <2>3. Cardinality({}) = 0 /\ Cardinality(A) \in Nat /\ Cardinality(B) \in Nat
      BY <2>1, FS_EmptySet, FS_CardinalityType
    <2>4. Cardinality(A \cup B) = n /\ Cardinality(A \cap B) = 0
      BY <1>3, <1>7, <2>3
    <2>5. PICK a, b : a = Cardinality(A) /\ b = Cardinality(B)
      OBVIOUS
    <2>6. a \in Nat /\ b \in Nat /\ n = a + b - 0
      BY <2>2, <2>3, <2>4, <2>5
    <2>7. a + b = n
      BY <2>6
    <2> QED
      BY <2>1, <2>5, <2>7
  <1>9. Cardinality(A) \in Nat /\ Cardinality(B) \in Nat
    BY <1>8, FS_CardinalityType
  <1>10. low' = Cardinality(vtoc')
    <2>1. vtoc \ S = vtoc \ A /\ A \subseteq vtoc
      BY <1>4
    <2>2. Cardinality(vtoc \ A) = Cardinality(vtoc) - Cardinality(A)
      BY <1>5, <2>1, Removed
    <2>3. low = Cardinality(vtoc)
      BY DEF TablesOK
    <2>4. low' = low - (n - Cardinality(B))
      BY <1>2, <1>3, <1>6
    <2>5. Cardinality(vtoc') = Cardinality(vtoc \ A)
      BY <1>2, <2>1
    <2>6. PICK a, b, v, w : a = Cardinality(A) /\ b = Cardinality(B) /\ v = low /\ w = Cardinality(vtoc \ A)
      OBVIOUS
    <2>7. a \in Nat /\ b \in Nat /\ v \in Nat /\ a + b = n
      BY <1>5, <1>8, <1>9, <2>6
    <2>8. w = v - a /\ low' = v - (n - b)
      BY <2>2, <2>3, <2>4, <2>6
    <2>9. v - (n - b) = v - a
      BY <2>7
    <2>10. low' = w
      BY <2>8, <2>9
    <2> QED
      BY <2>5, <2>6, <2>10
  <1>11. high' = Cardinality(High(vtoc2)')
    <2>1. High(vtoc2)' = High(vtoc2) \ B /\ B \subseteq High(vtoc2)
      BY <1>2, <1>4 DEF High
    <2>2. Cardinality(High(vtoc2) \ B) = Cardinality(High(vtoc2)) - Cardinality(B)
      BY <1>5, <2>1, Removed
    <2>3. high = Cardinality(High(vtoc2))
      BY DEF TablesOK
    <2>4. high' = high - Cardinality(B)
      BY <1>2, <1>6
    <2>5. Cardinality(High(vtoc2)') = Cardinality(High(vtoc2) \ B)
      BY <2>1
    <2> QED
      BY <2>2, <2>3, <2>4, <2>5
  <1>12. MarkedFree' = MarkedFree /\ IsDos25EnhancedDensity' = IsDos25EnhancedDensity
    BY DEF MarkedFree, IsDos25EnhancedDensity, GetNumberOfVTOCs, LastSector
  <1>13. TablesOK'
    BY <1>2, <1>10, <1>11, <1>12 DEF TablesOK
  <1> QED
    BY <1>1, <1>2, <1>13

-----------------------------------------------------------------------------
(* An image that has just been formatted.                                  *)

LEMMA Interval ==
    ASSUME NEW a \in Nat, NEW b \in Nat, a <= b + 1
    PROVE  IsFiniteSet(a .. b) /\ Cardinality(a .. b) = b - a + 1
  <1>1. a \in Int /\ b \in Int
    OBVIOUS
  <1>2. IsFiniteSet(a .. b) /\ Cardinality(a .. b) = IF a > b THEN 0 ELSE b - a + 1
    BY <1>1, FS_Interval
  <1>3. PICK c : c = Cardinality(a .. b)
    OBVIOUS
  <1>4. c = IF a > b THEN 0 ELSE b - a + 1
    BY <1>2, <1>3
  <1>5. c = b - a + 1
    BY <1>4
  <1> QED
    BY <1>2, <1>3, <1>5

Spans(a, b, c, d) == (a .. b) \cup (c .. d)

LEMMA TwoIntervals ==
    ASSUME NEW a \in Nat, NEW b \in Nat, NEW c \in Nat, NEW d \in Nat,
           a <= b + 1, b < c, c <= d + 1
    PROVE  Cardinality(Spans(a, b, c, d)) = (b - a + 1) + (d - c + 1)
  <1>1. PICK S, T : S = a .. b /\ T = c .. d
    OBVIOUS
  <1>2. IsFiniteSet(S) /\ IsFiniteSet(T) /\ Cardinality(S) = b - a + 1 /\ Cardinality(T) = d - c + 1
    BY <1>1, Interval
  <1>3. S \cap T = {}
    BY <1>1
  <1>4. Cardinality(S \cup T) = Cardinality(S) + Cardinality(T) - Cardinality(S \cap T)
    BY <1>2, FS_Union
  <1>5. Cardinality(S \cap T) = 0
    BY <1>3, FS_EmptySet
  <1>6. PICK n : n = Cardinality(S \cup T)
    OBVIOUS
  <1>7. n = (b - a + 1) + (d - c + 1) - 0
    BY <1>2, <1>4, <1>5, <1>6
  <1>8. n = (b - a + 1) + (d - c + 1)
    BY <1>7
  <1> QED
    BY <1>1, <1>6, <1>8 DEF Spans

LEMMA FormattedIs ==
    ASSUME InitVTOC
    PROVE  ImageOK(geo) /\ TablesOK
  <1>1. ImageOK(geo)
    BY GeometryIsImage DEF InitVTOC
  <1>2. PICK nv, last : nv = GetNumberOfVTOCs /\ last = LastSector
    OBVIOUS
  <1>3. Sizes(nv, last)
    BY <1>1, <1>2, SizesAre
  <1>4. nv \in 1 .. 66 /\ last \in Nat /\ 719 <= last
    BY <1>3 DEF Sizes
  <1>5. CASE IsDos25EnhancedDensity
    <2>1. nv = 1 /\ last = 1023
      BY <1>3, <1>5 DEF Sizes
    <2>2. MarkedFree = (4 .. 359) \cup ((369 .. 719) \cup (721 .. 1023))
      BY <1>2, <1>5, <2>1 DEF MarkedFree, eVTOCSector, eDirSector
    <2>3. /\ vtoc = {s \in MarkedFree : s < 720} /\ vtoc2 = {s \in MarkedFree : s >= 48}
          /\ low = 707 /\ high = 303
      BY <1>5 DEF InitVTOC
    <2>4. vtoc = (4 .. 359) \cup (369 .. 719)
      BY <2>2, <2>3
    <2>5. High(vtoc2) = 721 .. 1023
      BY <2>2, <2>3 DEF High
    <2>6. Cardinality(vtoc) = 707
      <3>1. PICK a, b, c, d : a = 4 /\ b = 359 /\ c = 369 /\ d = 719
        OBVIOUS
      <3>2. a \in Nat /\ b \in Nat /\ c \in Nat /\ d \in Nat /\ a <= b + 1 /\ b < c /\ c <= d + 1
        BY <3>1
      <3>3. Cardinality(Spans(a, b, c, d)) = (b - a + 1) + (d - c + 1)
        BY ONLY <3>2, TwoIntervals
      <3>4. (b - a + 1) + (d - c + 1) = 707
        BY <3>1
      <3> QED
        BY <2>4, <3>1, <3>3, <3>4 DEF Spans
    <2>7. Cardinality(High(vtoc2)) = 303
      <3>1. PICK a, b : a = 721 /\ b = 1023
        OBVIOUS
      <3>2. a \in Nat /\ b \in Nat /\ a <= b + 1
        BY <3>1
      <3>3. Cardinality(a .. b) = b - a + 1
        BY ONLY <3>2, Interval
      <3>4. b - a + 1 = 303
        BY <3>1
      <3> QED
        BY <2>5, <3>1, <3>3, <3>4
    <2>8. /\ \A s \in vtoc : s < 720 /\ (s >= 48 => s \in vtoc2)
          /\ \A s \in vtoc2 : s >= 48 /\ (s < 720 => s \in vtoc)
          /\ vtoc \subseteq MarkedFree /\ vtoc2 \subseteq MarkedFree
      BY <2>3
    <2> QED
      BY <1>1, <1>5, <2>3, <2>6, <2>7, <2>8 DEF TablesOK
  <1>6. CASE ~IsDos25EnhancedDensity
    <2>1. /\ vtoc = MarkedFree /\ vtoc2 = {} /\ high = 0
          /\ low = IF geo.format = "mydos" THEN last - 11 - nv ELSE last - 12
      BY <1>2, <1>6 DEF InitVTOC
    <2>2. MarkedFree = (4 .. 360 - nv) \cup (369 .. last)
      BY <1>2, <1>6 DEF MarkedFree, eVTOCSector, eDirSector
    <2>3. Cardinality(MarkedFree) = last - 11 - nv
      <3>1. PICK a : a = 360 - nv
        OBVIOUS
      <3>2. a \in Nat /\ 4 <= a /\ a <= 359
        BY <1>4, <3>1
      <3>3. PICK b, c : b = 4 /\ c = 369
        OBVIOUS
      <3>4. b \in Nat /\ a \in Nat /\ c \in Nat /\ last \in Nat /\ b <= a + 1 /\ a < c /\ c <= last + 1
        BY <1>4, <3>2, <3>3
      <3>5. Cardinality(Spans(b, a, c, last)) = (a - b + 1) + (last - c + 1)
        BY ONLY <3>4, TwoIntervals
      <3>6. (a - b + 1) + (last - c + 1) = last - 11 - nv
        BY <1>4, <3>1, <3>3
      <3> QED
        BY <2>2, <3>1, <3>3, <3>5, <3>6 DEF Spans
    <2>4. low = last - 11 - nv
      <3>1. geo.format # "mydos" => nv = 1 /\ geo.format = "dos2"
        BY <1>1, <1>3 DEF Sizes, ImageOK
      <3> QED
        BY <1>4, <2>1, <3>1
    <2>5. High(vtoc2) = {}
      BY <2>1 DEF High
    <2>6. Cardinality(High(vtoc2)) = 0
      BY <2>5, FS_EmptySet
    <2> QED
      BY <1>1, <1>6, <2>1, <2>3, <2>4, <2>6 DEF TablesOK
  <1> QED
    BY <1>1, <1>5, <1>6

-----------------------------------------------------------------------------
(* The directory.                                                          *)

\* Each sector of q names the next one.
LinkedIn(l, q) ==
    \A i \in 1 .. Len(q) : q[i] \in DOMAIN l /\ l[q[i]] = IF i = Len(q) THEN 0 ELSE q[i + 1]

\* An entry has sectors of its own, that no table shows as free, and those of a
\* file are chained.
EntryOK(e, marked, free, l) ==
    /\ e.count \in Nat /\ e.count # 0 /\ Chosen(e.secs, marked, e.count)
    /\ ToSet(e.secs) \cap free = {} /\ e.start = e.secs[1]
    /\ ~e.isdir => LinkedIn(l, e.secs)

DirOK ==
    /\ \E C : dir \in Seq(C)
    /\ \A i \in DOMAIN dir : EntryOK(dir[i], MarkedFree, vtoc \cup vtoc2, links)
    /\ \A i \in DOMAIN dir : dir[i].bit16 <=> Use16BitSectorLinks
    /\ \A i, j \in DOMAIN dir : i # j => ToSet(dir[i].secs) \cap ToSet(dir[j].secs) = {}
    /\ \A i, j \in DOMAIN dir : dir[i].name = dir[j].name => i = j

LEMMA SameImage ==
    ASSUME UNCHANGED geo
    PROVE  /\ MarkedFree' = MarkedFree
           /\ IsDos25EnhancedDensity' <=> IsDos25EnhancedDensity
           /\ Use16BitSectorLinks' <=> Use16BitSectorLinks
           /\ ImageOK(geo)' <=> ImageOK(geo)
  BY DEF MarkedFree, IsDos25EnhancedDensity, Use16BitSectorLinks, GetNumberOfVTOCs, LastSector, ImageOK

LEMMA Chained ==
    ASSUME ImageOK(geo), NEW n \in Nat, NEW q, Chosen(q, MarkedFree, n), WriteBufferToImage(q)
    PROVE  /\ LinkedIn(links', q)
           /\ \A r : r \in Seq(Nat) /\ ToSet(r) \cap ToSet(q) = {} /\ LinkedIn(links, r) => LinkedIn(links', r)
  <1> DEFINE Next(s) == LET i == CHOOSE j \in DOMAIN q : q[j] = s
                        IN  IF i = Len(q) THEN 0 ELSE q[i + 1]
  <1>1. /\ DOMAIN links' = ToSet(q) \cup DOMAIN links
        /\ \A s \in ToSet(q) : links'[s] = IF Use16BitSectorLinks THEN Next(s) ELSE Next(s) % 1024
        /\ \A s \in DOMAIN links : s \notin ToSet(q) => links'[s] = links[s]
    BY DEF WriteBufferToImage
  <1>2. /\ q \in Seq(Nat) /\ Len(q) = n /\ DOMAIN q = 1 .. n
        /\ \A i, j \in 1 .. n : q[i] = q[j] => i = j
        /\ \A i \in 1 .. n : q[i] \in MarkedFree /\ q[i] \in ToSet(q)
    BY DEF Chosen, ToSet
  <1>3. \A i \in 1 .. n : Next(q[i]) = IF i = n THEN 0 ELSE q[i + 1]
    <2> TAKE i \in 1 .. n
    <2>1. (CHOOSE j \in DOMAIN q : q[j] = q[i]) = i
      BY <1>2
    <2> QED
      BY <1>2, <2>1
  <1> HIDE DEF Next
  <1>4. ~Use16BitSectorLinks => \A s \in MarkedFree : s \in Nat /\ s <= 1023
    <2>1. PICK last : last = LastSector
      OBVIOUS
    <2>2. last \in Nat /\ (~Use16BitSectorLinks => last <= 1023)
      BY <2>1, SizesAre DEF Sizes
    <2>3. \A s \in MarkedFree : s \in Nat /\ s <= last
      BY <2>1, MarkedIs
    <2> QED
      BY <2>2, <2>3
  <1>5. \A i \in 1 .. n : links'[q[i]] = IF i = n THEN 0 ELSE q[i + 1]
    <2> TAKE i \in 1 .. n
    <2>1. PICK x : x = IF i = n THEN 0 ELSE q[i + 1]
      OBVIOUS
    <2>2. links'[q[i]] = IF Use16BitSectorLinks THEN x ELSE x % 1024
      BY <1>1, <1>2, <1>3, <2>1
    <2>3. ~Use16BitSectorLinks => x \in Nat /\ x <= 1023
      <3>1. i # n => i + 1 \in 1 .. n
        OBVIOUS
      <3>2. i # n => x \in MarkedFree
        BY <1>2, <2>1, <3>1
      <3>3. i = n => x = 0
        BY <2>1
      <3> QED
        BY <1>4, <3>2, <3>3
    <2>4. x \in Nat /\ x <= 1023 => x % 1024 = x
      OBVIOUS
    <2> QED
      BY <2>1, <2>2, <2>3, <2>4
  <1>6. LinkedIn(links', q)
    BY <1>1, <1>2, <1>5 DEF LinkedIn
  <1>7. ASSUME NEW r, r \in Seq(Nat), ToSet(r) \cap ToSet(q) = {}, LinkedIn(links, r)
        PROVE  LinkedIn(links', r)
    <2>1. ASSUME NEW i \in 1 .. Len(r)
          PROVE  r[i] \notin ToSet(q)
      <3>1. i \in DOMAIN r
        BY <1>7
      <3>2. r[i] \in ToSet(r)
        BY <3>1, Zenon DEF ToSet
      <3> QED
        BY <1>7, <3>2
    <2> QED
      BY <1>1, <1>7, <2>1 DEF LinkedIn
  <1> QED
    BY <1>6, <1>7

\* There are more numbers than entries, so that one of them is free.
LEMMA NameIsFresh ==
    ASSUME NEW C, dir \in Seq(C), NEW name
    PROVE  \A i \in DOMAIN dir : dir[i].name # Unique(name)
  <1>1. PICK n : n = Len(dir)
    OBVIOUS
  <1>2. n \in Nat /\ DOMAIN dir = 1 .. n
    BY <1>1
  <1> DEFINE K == {k \in 0 .. n : \A i \in DOMAIN dir : dir[i].name # <<name[1], k>>}
  <1>3. CASE \A i \in DOMAIN dir : dir[i].name # name
    BY <1>3 DEF Unique
  <1>4. CASE ~ \A i \in DOMAIN dir : dir[i].name # name
    <2>1. Unique(name) = <<name[1], Min(K)>>
      BY <1>1, <1>4 DEF Unique
    <2>2. K # {}
      <3>1. SUFFICES ASSUME K = {} PROVE FALSE
        OBVIOUS
      <3>2. \A k \in 0 .. n : \E i \in 1 .. n : dir[i].name = <<name[1], k>>
        BY <1>2, <3>1
      <3>3. PICK f : f = [k \in 0 .. n |-> CHOOSE i \in 1 .. n : dir[i].name = <<name[1], k>>]
        OBVIOUS
      <3>4. \A k \in 0 .. n : f[k] \in 1 .. n /\ dir[f[k]].name = <<name[1], k>>
        BY <3>2, <3>3
      <3>5. f \in [0 .. n -> 1 .. n]
        BY <3>3, <3>4
      <3>6. /\ IsFiniteSet(0 .. n) /\ IsFiniteSet(1 .. n)
            /\ Cardinality(0 .. n) = n + 1 /\ Cardinality(1 .. n) = n
        <4>1. PICK a, b : a = 0 /\ b = 1
          OBVIOUS
        <4>2. a \in Nat /\ b \in Nat /\ a <= n + 1 /\ b <= n + 1
          BY <1>2, <4>1
        <4>3. /\ IsFiniteSet(a .. n) /\ Cardinality(a .. n) = n - a + 1
              /\ IsFiniteSet(b .. n) /\ Cardinality(b .. n) = n - b + 1
          BY <1>2, <4>2, Interval
        <4>4. n - a + 1 = n + 1 /\ n - b + 1 = n
          BY <1>2, <4>1
        <4> QED
          BY <4>1, <4>3, <4>4
      <3>7. Cardinality(1 .. n) < Cardinality(0 .. n)
        BY <1>2, <3>6
      <3>8. \E x, y \in 0 .. n : x # y /\ f[x] = f[y]
        BY <3>5, <3>6, <3>7, FS_PigeonHole, Zenon
      <3> QED
        BY <3>4, <3>8
    <2>3. K \subseteq Nat
      BY <1>2
    <2> HIDE DEF K
    <2>4. Min(K) \in K
      BY <2>2, <2>3, LeastOfMany DEF Min
    <2> QED
      BY <2>1, <2>4 DEF K
  <1> QED
    BY <1>3, <1>4

\* Free sectors are given to an entry, which is put behind the others.
LEMMA Added ==
    ASSUME ImageOK(geo), TablesOK, DirOK, UNCHANGED geo, NEW n \in Nat, n # 0, NEW q,
           Chosen(q, vtoc \cup High(vtoc2), n), AllocSectors(q),
           NEW name, NEW isdir \in BOOLEAN, dir' = Append(dir, Entry(name, q, isdir)),
           IF isdir THEN links' = links ELSE WriteBufferToImage(q)
    PROVE  TablesOK' /\ DirOK'
  <1>1. TablesOK' /\ vtoc' = vtoc \ ToSet(q) /\ vtoc2' = vtoc2 \ ToSet(q)
    BY AllocKeeps
  <1>2. Chosen(q, MarkedFree, n)
    <2>1. vtoc \cup High(vtoc2) \subseteq MarkedFree
      BY DEF TablesOK, High
    <2> QED
      BY <2>1 DEF Chosen
  <1>3. ToSet(q) \subseteq vtoc \cup vtoc2
    BY ChosenSet DEF High
  <1>4. PICK e : e = Entry(name, q, isdir)
    OBVIOUS
  <1>5. /\ e.name = Unique(name) /\ e.isdir = isdir /\ e.start = q[1] /\ e.count = n
        /\ e.secs = q /\ (e.bit16 <=> Use16BitSectorLinks)
    BY <1>4 DEF Entry, Chosen
  <1>6. PICK C : dir \in Seq(C)
    BY DEF DirOK
  <1>7. PICK l : l = Len(dir)
    OBVIOUS
  <1>8. /\ l \in Nat /\ DOMAIN dir = 1 .. l
        /\ dir' \in Seq(C \cup {e}) /\ DOMAIN dir' = 1 .. l + 1
        /\ dir'[l + 1] = e /\ \A i \in 1 .. l : dir'[i] = dir[i]
    <2>1. dir \in Seq(C \cup {e}) /\ dir' = Append(dir, e)
      BY <1>4, <1>6
    <2> QED
      BY <1>7, <2>1
  <1>9. \A i \in 1 .. l + 1 : i = l + 1 \/ i \in 1 .. l
    BY <1>8
  <1>10. \A i \in 1 .. l :
            EntryOK(dir[i], MarkedFree, vtoc \cup vtoc2, links) /\ ToSet(dir[i].secs) \cap ToSet(q) = {}
    <2> TAKE i \in 1 .. l
    <2>1. EntryOK(dir[i], MarkedFree, vtoc \cup vtoc2, links)
      BY <1>8 DEF DirOK
    <2>2. ToSet(dir[i].secs) \cap (vtoc \cup vtoc2) = {}
      BY <2>1 DEF EntryOK
    <2> QED
      BY <1>3, <2>1, <2>2
  <1>11. \A i \in 1 .. l : EntryOK(dir[i], MarkedFree, vtoc' \cup vtoc2', links')
    <2> TAKE i \in 1 .. l
    <2>1. PICK d : d = dir[i]
      OBVIOUS
    <2>2. EntryOK(d, MarkedFree, vtoc \cup vtoc2, links) /\ ToSet(d.secs) \cap ToSet(q) = {}
      BY <1>10, <2>1
    <2>3. ToSet(d.secs) \cap (vtoc' \cup vtoc2') = {}
      BY <1>1, <2>2 DEF EntryOK
    <2>4. ~d.isdir => LinkedIn(links', d.secs)
      <3>1. CASE isdir
        BY <2>2, <3>1 DEF EntryOK
      <3>2. CASE ~isdir
        <4>1. d.secs \in Seq(Nat)
          BY <2>2 DEF EntryOK, Chosen
        <4>2. WriteBufferToImage(q)
          BY <3>2
        <4> QED
          BY <1>2, <2>2, <4>1, <4>2, Chained DEF EntryOK
      <3> QED
        BY <3>1, <3>2
    <2> QED
      BY <2>1, <2>2, <2>3, <2>4 DEF EntryOK
  <1>12. EntryOK(e, MarkedFree, vtoc' \cup vtoc2', links')
    <2>1. ToSet(q) \cap (vtoc' \cup vtoc2') = {}
      BY <1>1
    <2>2. ~isdir => LinkedIn(links', q)
      BY <1>2, Chained
    <2> QED
      BY <1>2, <1>5, <2>1, <2>2 DEF EntryOK
  <1>13. /\ \A i \in DOMAIN dir' : EntryOK(dir'[i], MarkedFree', vtoc' \cup vtoc2', links')
         /\ \A i \in DOMAIN dir' : dir'[i].bit16 <=> Use16BitSectorLinks'
    <2>1. \A i \in DOMAIN dir' : EntryOK(dir'[i], MarkedFree, vtoc' \cup vtoc2', links')
      BY <1>8, <1>9, <1>11, <1>12
    <2>2. \A i \in 1 .. l : dir[i].bit16 <=> Use16BitSectorLinks
      BY <1>8 DEF DirOK
    <2>3. \A i \in DOMAIN dir' : dir'[i].bit16 <=> Use16BitSectorLinks
      BY <1>5, <1>8, <1>9, <2>2
    <2> QED
      BY <2>1, <2>3, SameImage
  <1>14. \A i, j \in DOMAIN dir' : i # j => ToSet(dir'[i].secs) \cap ToSet(dir'[j].secs) = {}
    <2> TAKE i, j \in DOMAIN dir'
    <2>1. \A a, b \in 1 .. l : a # b => ToSet(dir[a].secs) \cap ToSet(dir[b].secs) = {}
      BY <1>8 DEF DirOK
    <2>2. CASE i \in 1 .. l /\ j \in 1 .. l
      BY <1>8, <2>1, <2>2
    <2>3. CASE i = l + 1 /\ j \in 1 .. l
      BY <1>5, <1>8, <1>10, <2>3
    <2>4. CASE i \in 1 .. l /\ j = l + 1
      BY <1>5, <1>8, <1>10, <2>4
    <2> QED
      BY <1>8, <1>9, <2>2, <2>3, <2>4
  <1>15. \A i, j \in DOMAIN dir' : dir'[i].name = dir'[j].name => i = j
    <2> TAKE i, j \in DOMAIN dir'
    <2>1. \A a, b \in 1 .. l : dir[a].name = dir[b].name => a = b
      BY <1>8 DEF DirOK
    <2>2. \A a \in 1 .. l : dir[a].name # e.name
      BY <1>5, <1>6, <1>8, NameIsFresh
    <2> QED
      BY <1>8, <1>9, <2>1, <2>2
  <1>16. \E D : dir' \in Seq(D)
    BY <1>8
  <1> QED
    BY <1>1, <1>13, <1>14, <1>15, <1>16 DEF DirOK

\* The octet a directory gets.
LEMMA OctetIs ==
    ASSUME ImageOK(geo), TablesOK, Octets # {}, NEW q, q = [i \in 1 .. 8 |-> 8 * Min(Octets) + i - 1]
    PROVE  Chosen(q, vtoc \cup High(vtoc2), 8)
  <1>1. Octets \subseteq Nat
    <2>1. PICK m : m = geo.numsec \div 8
      OBVIOUS
    <2> QED
      BY <2>1 DEF Octets
  <1>2. PICK k : k = Min(Octets)
    OBVIOUS
  <1>3. k \in Octets
    BY <1>1, <1>2, LeastOfMany DEF Min
  <1>4. k \in Nat /\ Octet(k) \subseteq vtoc
    BY <1>1, <1>3 DEF Octets
  <1>5. q = [i \in 1 .. 8 |-> 8 * k + i - 1]
    BY <1>2
  <1>6. q \in Seq(Nat) /\ Len(q) = 8 /\ \A i \in 1 .. 8 : q[i] = 8 * k + i - 1
    BY <1>4, <1>5
  <1>7. \A i \in 1 .. 8 : q[i] \in Octet(k)
    BY <1>4, <1>6 DEF Octet
  <1>8. \A i, j \in 1 .. 8 : q[i] = q[j] => i = j
    BY <1>4, <1>6
  <1> QED
    BY <1>4, <1>6, <1>7, <1>8 DEF Chosen

-----------------------------------------------------------------------------
(* The file system is sound.                                               *)

DosInv == ImageOK(geo) /\ TablesOK /\ DirOK

LEMMA DosStarts ==
    ASSUME DosInit
    PROVE  DosInv
  <1>1. ImageOK(geo) /\ TablesOK
    BY FormattedIs DEF DosInit
  <1>2. dir = <<>>
    BY DEF DosInit, InitVTOC
  <1>3. dir \in Seq({}) /\ DOMAIN dir = {}
    BY <1>2
  <1> QED
    BY <1>1, <1>3 DEF DosInv, DirOK

LEMMA SameDisk ==
    ASSUME DosInv, UNCHANGED <<geo, vtoc, vtoc2, low, high, links, dir>>
    PROVE  DosInv'
  <1>1. TablesOK'
    BY SameImage DEF DosInv, TablesOK, High
  <1>2. DirOK'
    BY SameImage DEF DosInv, DirOK
  <1> QED
    BY <1>1, <1>2, SameImage DEF DosInv

LEMMA DosStep ==
    ASSUME DosInv, [DosNext]_dosvars
    PROVE  DosInv'
  <1>1. CASE UNCHANGED dosvars
    BY <1>1, SameDisk DEF dosvars
  <1>2. ASSUME NEW name, NEW n \in FileSizes, AddFile(name, n)
        PROVE  DosInv'
    <2>1. CASE UNCHANGED <<geo, vtoc, vtoc2, low, high, links, dir>>
      BY <2>1, SameDisk
    <2>2. CASE ~ UNCHANGED <<geo, vtoc, vtoc2, low, high, links, dir>>
      <3>1. PICK q : q = Lowest(vtoc \cup High(vtoc2), n)
        OBVIOUS
      <3>2. /\ UNCHANGED geo /\ ~ (n > low + high) /\ AllocSectors(q) /\ WriteBufferToImage(q)
            /\ dir' = Append(dir, Entry(name, q, FALSE))
        BY <1>2, <2>2, <3>1 DEF AddFile, GetNumberOfFreeSectors, High
      <3>3. n \in Nat /\ n # 0
        BY DosAssumption
      <3>4. ImageOK(geo) /\ TablesOK /\ DirOK
        BY DEF DosInv
      <3>5. Chosen(q, vtoc \cup High(vtoc2), n)
        <4>1. PICK S, c : S = vtoc \cup High(vtoc2) /\ c = Cardinality(S)
          OBVIOUS
        <4>2. S \subseteq 0 .. geo.numsec /\ c = low + high /\ low \in Nat /\ high \in Nat
          BY <3>4, <4>1, FreeSectorsAre
        <4>3. n <= c
          BY <3>2, <3>3, <4>2
        <4>4. geo.numsec \in Nat
          BY <3>4 DEF ImageOK
        <4> QED
          BY <3>1, <3>3, <4>1, <4>2, <4>3, <4>4, LowestIs
      <3>6. TablesOK' /\ DirOK'
        BY <3>2, <3>3, <3>4, <3>5, Added
      <3> QED
        BY <3>2, <3>4, <3>6, SameImage DEF DosInv
    <2> QED
      BY <2>1, <2>2
  <1>3. ASSUME NEW name, AddDirectory(name)
        PROVE  DosInv'
    <2>1. CASE UNCHANGED <<geo, vtoc, vtoc2, low, high, links, dir>>
      BY <2>1, SameDisk
    <2>2. CASE ~ UNCHANGED <<geo, vtoc, vtoc2, low, high, links, dir>>
      <3>1. PICK q : q = [i \in 1 .. 8 |-> 8 * Min(Octets) + i - 1]
        OBVIOUS
      <3>2. /\ UNCHANGED geo /\ links' = links /\ Octets # {} /\ AllocSectors(q)
            /\ dir' = Append(dir, Entry(name, q, TRUE))
        BY <1>3, <2>2, <3>1 DEF AddDirectory
      <3>3. ImageOK(geo) /\ TablesOK /\ DirOK
        BY DEF DosInv
      <3>4. Chosen(q, vtoc \cup High(vtoc2), 8)
        BY <3>1, <3>2, <3>3, OctetIs
      <3>5. PICK n : n = 8
        OBVIOUS
      <3>6. n \in Nat /\ n # 0 /\ Chosen(q, vtoc \cup High(vtoc2), n)
        BY <3>4, <3>5
      <3>7. PICK b \in BOOLEAN : b = TRUE
        OBVIOUS
      <3>8. b /\ dir' = Append(dir, Entry(name, q, b))
        BY <3>2, <3>7
      <3>9. TablesOK' /\ DirOK'
        BY <3>2, <3>3, <3>6, <3>8, Added
      <3> QED
        BY <3>2, <3>3, <3>9, SameImage DEF DosInv
    <2> QED
      BY <2>1, <2>2
  <1> QED
    BY <1>1, <1>2, <1>3 DEF DosNext

\* An entry of the invariant reads back.
LEMMA EntryReadsBack ==
    ASSUME ImageOK(geo), NEW e, EntryOK(e, MarkedFree, vtoc \cup vtoc2, links),
           e.bit16 <=> Use16BitSectorLinks, ~e.isdir
    PROVE  ReadsBack(e)
  <1>1. PICK q, n : q = e.secs /\ n = e.count
    OBVIOUS
  <1>2. /\ q \in Seq(Nat) /\ Len(q) = n /\ DOMAIN q = 1 .. n
        /\ \A i, j \in 1 .. n : q[i] = q[j] => i = j
        /\ \A i \in 1 .. n : q[i] \in MarkedFree
    BY <1>1 DEF EntryOK, Chosen
  <1>3. IsInjective(q)
    BY <1>2 DEF IsInjective
  <1>4. \A i \in 1 .. n : q[i] \in DOMAIN links /\ links[q[i]] = IF i = n THEN 0 ELSE q[i + 1]
    BY <1>1, <1>2 DEF EntryOK, LinkedIn
  <1>5. PICK last : last = LastSector
    OBVIOUS
  <1>6. /\ last \in Nat /\ last <= geo.numsec /\ geo.numsec \in Nat
        /\ ~Use16BitSectorLinks => last <= 1023
    BY <1>5, SizesAre DEF Sizes, ImageOK
  <1>7. \A s \in MarkedFree : s \in Nat /\ 4 <= s /\ s <= last
    BY <1>5, MarkedIs
  <1>8. ToSet(q) \subseteq (4 .. geo.numsec) \cap DOMAIN links
    <2>1. \A s \in ToSet(q) : \E i \in 1 .. n : s = q[i]
      BY <1>2 DEF ToSet
    <2>2. \A s \in ToSet(q) : s \in Nat /\ 4 <= s /\ s <= last /\ s \in DOMAIN links
      BY <1>2, <1>4, <1>7, <2>1
    <2> QED
      BY <1>6, <2>2
  <1>9. \A i \in 1 .. n : FollowLink(e, q[i]) = IF i = n THEN 0 ELSE q[i + 1]
    <2> TAKE i \in 1 .. n
    <2>1. PICK x : x = links[q[i]]
      OBVIOUS
    <2>2. FollowLink(e, q[i]) = IF Use16BitSectorLinks THEN x ELSE x % 1024
      BY <2>1 DEF FollowLink
    <2>3. x = 0 \/ x \in MarkedFree
      <3>1. i # n => i + 1 \in 1 .. n
        BY <1>2
      <3> QED
        BY <1>2, <1>4, <2>1, <3>1
    <2>4. ~Use16BitSectorLinks => x \in Nat /\ x <= 1023
      BY <1>6, <1>7, <2>3
    <2>5. x \in Nat /\ x <= 1023 => x % 1024 = x
      OBVIOUS
    <2> QED
      BY <1>4, <2>1, <2>2, <2>4, <2>5
  <1> QED
    BY <1>1, <1>2, <1>3, <1>8, <1>9 DEF ReadsBack, EntryOK

LEMMA DosInvIsSound ==
    ASSUME DosInv
    PROVE  DiskSound
  <1> DEFINE used == UNION {ToSet(dir[i].secs) : i \in DOMAIN dir}
  <1>1. ImageOK(geo) /\ TablesOK /\ DirOK
    BY DEF DosInv
  <1>2. \A i \in DOMAIN dir :
           /\ EntryOK(dir[i], MarkedFree, vtoc \cup vtoc2, links) /\ ToSet(dir[i].secs) \subseteq MarkedFree
           /\ dir[i].count = Cardinality(ToSet(dir[i].secs))
    <2> TAKE i \in DOMAIN dir
    <2>1. PICK e : e = dir[i]
      OBVIOUS
    <2>2. EntryOK(e, MarkedFree, vtoc \cup vtoc2, links)
      BY <1>1, <2>1 DEF DirOK
    <2>3. e.count \in Nat /\ Chosen(e.secs, MarkedFree, e.count)
      BY <2>2 DEF EntryOK
    <2> QED
      BY <2>1, <2>2, <2>3, ChosenSet
  <1>3. \A s \in used : s \in MarkedFree /\ s \notin vtoc /\ s \notin vtoc2
    BY <1>2 DEF EntryOK
  <1>4. used \cap (Reserved \cup vtoc \cup vtoc2) = {}
    BY <1>1, <1>3, MarkedIs
  <1>5. (vtoc \cup vtoc2) \cap Reserved = {}
    BY <1>1, MarkedIs DEF TablesOK
  <1>6. PICK nv, last : nv = GetNumberOfVTOCs /\ last = LastSector
    OBVIOUS
  <1>7. Sizes(nv, last)
    BY <1>1, <1>6, SizesAre
  <1>8. used \subseteq 4 .. LastSector
    <2>1. \A s \in MarkedFree : s \in Nat /\ 4 <= s /\ s <= last
      BY <1>1, <1>6, MarkedIs
    <2>2. last \in Nat
      BY <1>7 DEF Sizes
    <2>3. \A s \in MarkedFree : s \in 4 .. last
      BY <2>1, <2>2
    <2> QED
      BY <1>3, <1>6, <2>3
  <1>9. \A i \in DOMAIN dir : ~dir[i].isdir => ReadsBack(dir[i])
    BY <1>1, <1>2, EntryReadsBack DEF DirOK
  <1>10. IsDos25EnhancedDensity => {s \in vtoc : s >= 48} = {s \in vtoc2 : s < 720}
    BY <1>1 DEF TablesOK
  <1>11. FreeListed = GetNumberOfFreeSectors
    <2>1. low \in Nat /\ high \in Nat
      BY <1>1, FreeSectorsAre
    <2>2. CASE IsDos25EnhancedDensity
      BY <2>2 DEF FreeListed, VtocType, GetNumberOfFreeSectors, IsDos25EnhancedDensity
    <2>3. CASE ~IsDos25EnhancedDensity
      <3>1. High(vtoc2) = {}
        BY <1>1, <2>3 DEF TablesOK, High
      <3>2. high = 0
        BY <1>1, <3>1, FS_EmptySet DEF TablesOK
      <3>3. FreeListed = low
        BY <2>1, <3>2 DEF FreeListed
      <3> QED
        BY <2>1, <3>2, <3>3 DEF GetNumberOfFreeSectors
    <2> QED
      BY <2>2, <2>3
  <1>12. low = Cardinality(vtoc) /\ high = Cardinality({s \in vtoc2 : s >= 720})
    BY <1>1 DEF TablesOK, High
  <1>13. ~IsDos25EnhancedDensity => 10 + (LastSector \div 8) < GetNumberOfVTOCs * geo.seclen
    BY <1>6, <1>7 DEF Sizes
  <1>14. /\ \A i, j \in DOMAIN dir : i # j => ToSet(dir[i].secs) \cap ToSet(dir[j].secs) = {}
         /\ \A i, j \in DOMAIN dir : dir[i].name = dir[j].name => i = j
    BY <1>1 DEF DirOK
  <1> QED
    BY <1>2, <1>4, <1>5, <1>8, <1>9, <1>10, <1>11, <1>12, <1>13, <1>14 DEF DiskSound

\* Whatever files and directories are added to whatever image, up to a full disk:
\* no sector is given twice or taken from the system, files read back through
\* their links, the tables of DOS 2.5 agree, the counters count, and no two
\* entries have one name.
THEOREM DiskIsSound == DosSpec => []DiskSound
  <1>1. DosInit => DosInv
    BY DosStarts
  <1>2. DosInv /\ [DosNext]_dosvars => DosInv'
    BY DosStep
  <1>3. DosInv => DiskSound
    BY DosInvIsSound
  <1> QED
    BY <1>1, <1>2, <1>3, PTL DEF DosSpec

-----------------------------------------------------------------------------
(***************************************************************************)
(* Compressed images: for any lengths of sectors and of passes, any number *)
(* of sectors and any contents.                                            *)
(***************************************************************************)

-----------------------------------------------------------------------------
(* Buffers.                                                                *)

IsBuffer(b, n) == b \in Seq(Nat) /\ Len(b) = n

LEMMA SameBuffer ==
    ASSUME NEW n, NEW a, NEW b, IsBuffer(a, n), IsBuffer(b, n), \A i \in 1 .. n : a[i] = b[i]
    PROVE  a = b
  BY DEF IsBuffer

\* Buffer o is a but for the l bytes of s after the at first ones.
Written(o, a, n, at, s, l) ==
    /\ IsBuffer(o, n)
    /\ \A i \in 1 .. n : i <= at \/ at + l < i => o[i] = a[i]
    /\ \A i \in 1 .. n : at < i /\ i <= at + l => o[i] = s[i - at]

LEMMA OverwriteIs ==
    ASSUME NEW n \in Nat, NEW a, IsBuffer(a, n), NEW at \in Nat, NEW s \in Seq(Nat)
    PROVE  Written(Overwrite(a, at, s), a, n, at, s, Len(s))
  <1>1. PICK b : b = Overwrite(a, at, s)
    OBVIOUS
  <1>2. PICK l : l = Len(s)
    OBVIOUS
  <1>3. l \in Nat /\ a \in Seq(Nat) /\ DOMAIN a = 1 .. n /\ \A i \in 1 .. n : a[i] \in Nat
    BY <1>2 DEF IsBuffer
  <1>4. b = [i \in 1 .. n |-> IF i \in at + 1 .. at + l THEN s[i - at] ELSE a[i]]
    BY <1>1, <1>2, <1>3 DEF Overwrite
  <1>5. \A i \in 1 .. n : i \in at + 1 .. at + l => i - at \in 1 .. l
    BY <1>3
  <1>6. \A j \in 1 .. l : s[j] \in Nat
    BY <1>2
  <1>7. \A i \in 1 .. n : (IF i \in at + 1 .. at + l THEN s[i - at] ELSE a[i]) \in Nat
    BY <1>3, <1>5, <1>6
  <1>8. b \in [1 .. n -> Nat]
    BY <1>4, <1>7
  <1>9. IsBuffer(b, n)
    BY <1>8 DEF IsBuffer
  <1>10. \A i \in 1 .. n : i <= at \/ at + l < i => b[i] = a[i]
    BY <1>3, <1>4
  <1>11. \A i \in 1 .. n : at < i /\ i <= at + l => b[i] = s[i - at]
    BY <1>3, <1>4
  <1> QED
    BY <1>1, <1>2, <1>9, <1>10, <1>11 DEF Written

LEMMA GreatestOfMany ==
    ASSUME NEW n \in Nat, NEW T, T \subseteq 1 .. n, T # {}
    PROVE  \E x \in T : \A y \in T : y <= x
  <1> DEFINE U == {n - y : y \in T}
  <1>1. U \subseteq Nat /\ U # {}
    <2>1. \A y \in T : n - y \in Nat
      OBVIOUS
    <2>2. PICK y \in T : TRUE
      OBVIOUS
    <2>3. n - y \in U
      OBVIOUS
    <2> QED
      BY <2>1, <2>3
  <1>2. PICK u \in U : \A v \in U : u <= v
    BY <1>1, LeastOfMany
  <1>3. PICK x \in T : u = n - x
    OBVIOUS
  <1>4. \A y \in T : y <= x
    <2> TAKE y \in T
    <2>1. u <= n - y
      BY <1>2
    <2> QED
      BY <1>3, <2>1
  <1> QED
    BY <1>4

LEMMA Rec41 ==
    ASSUME NEW n \in Nat, n # 0, NEW cur, IsBuffer(cur, n), NEW prev, IsBuffer(prev, n)
    PROVE  /\ DecodeRec41(prev, EncodeRec41(cur, prev)) = cur
           /\ EncodeRec41(cur, prev) \in Seq(Nat)
  <1>1. PICK d : d = Diff(cur, prev)
    OBVIOUS
  <1>2. PICK m : m = IF d = {} THEN 1 ELSE CHOOSE i \in d : \A j \in d : j <= i
    OBVIOUS
  <1>3. /\ cur \in Seq(Nat) /\ Len(cur) = n /\ DOMAIN cur = 1 .. n
        /\ prev \in Seq(Nat) /\ Len(prev) = n
    BY DEF IsBuffer
  <1>4. d \subseteq 1 .. n /\ \A i \in 1 .. n : i \notin d => cur[i] = prev[i]
    BY <1>1, <1>3 DEF Diff
  <1>5. m \in 1 .. n /\ \A j \in d : j <= m
    <2>1. CASE d = {}
      BY <1>2, <2>1
    <2>2. CASE d # {}
      <3>1. m \in d /\ \A j \in d : j <= m
        BY <1>2, <1>4, <2>2, GreatestOfMany
      <3> QED
        BY <1>4, <3>1
    <2> QED
      BY <2>1, <2>2
  <1>6. PICK s : s = SubSeq(cur, 1, m)
    OBVIOUS
  <1>7. s \in Seq(Nat) /\ Len(s) = m /\ \A i \in 1 .. m : s[i] = cur[i]
    BY <1>3, <1>5, <1>6
  <1>8. PICK r : r = Reverse(s)
    OBVIOUS
  <1>9. r = [i \in 1 .. m |-> s[(m - i) + 1]]
    BY <1>7, <1>8 DEF Reverse
  <1>10. \A i \in 1 .. m : (m - i) + 1 \in 1 .. m /\ s[(m - i) + 1] \in Nat
    BY <1>5, <1>7
  <1>11. r \in Seq(Nat) /\ Len(r) = m
    BY <1>5, <1>9, <1>10
  <1>12. Reverse(r) = s
    <2>1. Reverse(r) = [i \in 1 .. m |-> r[(m - i) + 1]]
      BY <1>11 DEF Reverse
    <2>2. \A i \in 1 .. m : r[(m - i) + 1] = s[i]
      <3> TAKE i \in 1 .. m
      <3>1. PICK j : j = (m - i) + 1
        OBVIOUS
      <3>2. j \in 1 .. m /\ (m - j) + 1 = i
        BY <1>5, <3>1
      <3>3. r[j] = s[(m - j) + 1]
        BY <1>9, <3>2
      <3> QED
        BY <3>1, <3>2, <3>3
    <2>3. s = [i \in 1 .. m |-> s[i]]
      BY <1>7
    <2> QED
      BY <2>1, <2>2, <2>3
  <1>13. PICK x, b : x = Byte(m - 1) /\ b = EncodeRec41(cur, prev)
    OBVIOUS
  <1>14. b = <<x>> \o r /\ x \in Nat
    BY <1>1, <1>2, <1>5, <1>6, <1>8, <1>13, CodecAssumption DEF EncodeRec41, Byte
  <1>15. b \in Seq(Nat) /\ Tail(b) = r
    BY <1>11, <1>14
  <1>16. DecodeRec41(prev, b) = Overwrite(prev, 0, s)
    BY <1>12, <1>15 DEF DecodeRec41
  <1>17. PICK o : o = Overwrite(prev, 0, s)
    OBVIOUS
  <1>18. /\ IsBuffer(o, n) /\ \A i \in 1 .. n : m < i => o[i] = prev[i]
         /\ \A i \in 1 .. n : i <= m => o[i] = s[i]
    <2>1. Written(o, prev, n, 0, s, m)
      BY <1>7, <1>17, OverwriteIs
    <2>2. \A i \in 1 .. n : 0 + m = m /\ i - 0 = i /\ 0 < i
      BY <1>5
    <2> QED
      BY <1>5, <2>1, <2>2 DEF Written
  <1>19. \A i \in 1 .. n : o[i] = cur[i]
    <2> TAKE i \in 1 .. n
    <2>1. CASE i <= m
      BY <1>5, <1>7, <1>18, <2>1
    <2>2. CASE m < i
      <3>1. i \notin d
        BY <1>4, <1>5, <2>2
      <3> QED
        BY <1>4, <1>5, <1>18, <2>2, <3>1
    <2> QED
      BY <1>5, <2>1, <2>2
  <1>20. o = cur
    BY <1>18, <1>19, SameBuffer
  <1> QED
    BY <1>13, <1>15, <1>16, <1>17, <1>20

LEMMA Rec44 ==
    ASSUME NEW n \in Nat, n # 0, n <= Full, NEW cur, IsBuffer(cur, n), NEW prev, IsBuffer(prev, n)
    PROVE  /\ EncodeRec44(cur, prev) \in Seq(Nat)
           /\ Len(EncodeRec44(cur, prev)) < n => DecodeRec44(prev, EncodeRec44(cur, prev)) = cur
  <1>1. PICK d : d = Diff(cur, prev)
    OBVIOUS
  <1>2. PICK m : m = IF d = {} THEN n ELSE CHOOSE i \in d : \A j \in d : i <= j
    OBVIOUS
  <1>3. /\ cur \in Seq(Nat) /\ Len(cur) = n /\ DOMAIN cur = 1 .. n
        /\ prev \in Seq(Nat) /\ Len(prev) = n
    BY DEF IsBuffer
  <1>4. d \subseteq 1 .. n /\ \A i \in 1 .. n : i \notin d => cur[i] = prev[i]
    BY <1>1, <1>3 DEF Diff
  <1>5. m \in 1 .. n /\ \A j \in d : m <= j
    <2>1. CASE d = {}
      BY <1>2, <2>1
    <2>2. CASE d # {}
      <3>1. d \subseteq Nat
        BY <1>4
      <3>2. m \in d /\ \A j \in d : m <= j
        BY <1>2, <2>2, <3>1, LeastOfMany
      <3> QED
        BY <1>4, <3>2
    <2> QED
      BY <2>1, <2>2
  <1>6. PICK s : s = SubSeq(cur, m, n)
    OBVIOUS
  <1>7. s \in Seq(Nat) /\ Len(s) = n - m + 1 /\ \A i \in 1 .. n - m + 1 : s[i] = cur[m + i - 1]
    <2>1. cur \in Seq(Nat) /\ Len(cur) = n /\ 1 <= m /\ m <= n /\ m \in Nat
      BY <1>3, <1>5
    <2>2. s \in Seq(Nat) /\ Len(s) = n - m + 1
      BY <1>6, <2>1
    <2>3. \A i \in 1 .. n - m + 1 : s[i] = cur[m + i - 1]
      BY <1>6, <2>1
    <2> QED
      BY <2>2, <2>3
  <1>8. PICK x, b : x = Byte(m - 1) /\ b = EncodeRec44(cur, prev)
    OBVIOUS
  <1>9. x = m - 1
    <2>1. m - 1 \in 0 .. Full - 1
      BY <1>5, CodecAssumption
    <2> QED
      BY <1>8, <2>1, CodecAssumption DEF Byte
  <1>10. b = <<x>> \o s
    <2>1. b = <<Byte(m - 1)>> \o SubSeq(cur, m, n)
      BY <1>1, <1>2, <1>3, <1>8 DEF EncodeRec44
    <2> QED
      BY <1>6, <1>8, <2>1
  <1>11. b \in Seq(Nat) /\ Tail(b) = s /\ b[1] = x /\ Len(b) = n - m + 2
    <2>1. x \in Nat
      BY <1>5, <1>9
    <2>2. b \in Seq(Nat) /\ Tail(b) = s /\ b[1] = x /\ Len(b) = 1 + Len(s)
      BY <1>7, <1>10, <2>1
    <2> QED
      BY <1>5, <1>7, <2>2
  <1>12. ASSUME Len(b) < n PROVE DecodeRec44(prev, b) = cur
    <2>1. x # 0
      BY <1>5, <1>9, <1>11, <1>12
    <2>2. DecodeRec44(prev, b) = Overwrite(prev, x, s)
      BY <1>11, <2>1 DEF DecodeRec44, ReadOffset
    <2>3. PICK o : o = Overwrite(prev, x, s)
      OBVIOUS
    <2>4. x \in Nat
      BY <1>5, <1>9
    <2>5. /\ IsBuffer(o, n) /\ \A i \in 1 .. n : i <= x \/ x + Len(s) < i => o[i] = prev[i]
          /\ \A i \in 1 .. n : x < i /\ i <= x + Len(s) => o[i] = s[i - x]
      <3>1. Written(o, prev, n, x, s, Len(s))
        BY <1>7, <2>3, <2>4, OverwriteIs
      <3> QED
        BY <3>1 DEF Written
    <2>6. \A i \in 1 .. n : o[i] = cur[i]
      <3> TAKE i \in 1 .. n
      <3>1. CASE m <= i
        <4>1. PICK j : j = i - x
          OBVIOUS
        <4>2. j \in 1 .. n - m + 1 /\ m + j - 1 = i /\ x < i /\ i <= x + Len(s)
          BY <1>5, <1>7, <1>9, <3>1, <4>1
        <4> QED
          BY <1>7, <2>5, <4>1, <4>2
      <3>2. CASE i < m
        <4>1. i \notin d /\ i <= x
          BY <1>4, <1>5, <1>9, <3>2
        <4> QED
          BY <1>4, <2>5, <4>1
      <3> QED
        BY <1>5, <3>1, <3>2
    <2> QED
      BY <2>2, <2>3, <2>5, <2>6, SameBuffer
  <1> QED
    BY <1>8, <1>11, <1>12

-----------------------------------------------------------------------------
(* The loops of the codec: the function of its turns exists.               *)

EncodeStart == [from |-> 0, out |-> <<>>]
DecodeStart(buf) == [out |-> buf, p |-> 1, pos |-> 0]

Turn(loop, v, a, k) ==
    CASE loop = "encode"  -> EncodeRun(v, a)
      [] loop = "decode"  -> DecodeRun(v, a)
      [] loop = "save"    -> SaveTurn(v, a)
      [] loop = "records" -> LoadRecord(v, a[k])
      [] loop = "passes"  -> LoadPass(v, a[k])

IsLoop(f, loop, z, a, n) == f = [k \in 0 .. n |-> IF k = 0 THEN z ELSE Turn(loop, f[k - 1], a, k)]

LEMMA LoopGrows ==
    ASSUME NEW loop, NEW z, NEW a, NEW n \in Nat, NEW f, IsLoop(f, loop, z, a, n)
    PROVE  \E g : /\ IsLoop(g, loop, z, a, n + 1) /\ \A k \in 0 .. n : g[k] = f[k]
                  /\ g[n + 1] = Turn(loop, f[n], a, n + 1)
  <1>1. PICK v : v = Turn(loop, f[n], a, n + 1)
    OBVIOUS
  <1>2. PICK g : g = [k \in 0 .. n + 1 |-> IF k = n + 1 THEN v ELSE f[k]]
    OBVIOUS
  <1>3. \A k \in 0 .. n : g[k] = f[k] /\ k # n + 1
    BY <1>2
  <1>4. g[n + 1] = v /\ (n + 1) - 1 = n /\ n \in 0 .. n
    BY <1>2
  <1>5. \A k \in 0 .. n + 1 : g[k] = IF k = 0 THEN z ELSE Turn(loop, g[k - 1], a, k)
    <2> TAKE k \in 0 .. n + 1
    <2>1. CASE k = n + 1
      BY <1>1, <1>3, <1>4, <2>1
    <2>2. CASE k # n + 1
      <3>1. k \in 0 .. n /\ (k # 0 => k - 1 \in 0 .. n)
        BY <2>2
      <3>2. f[k] = IF k = 0 THEN z ELSE Turn(loop, f[k - 1], a, k)
        BY <3>1 DEF IsLoop
      <3> QED
        BY <1>3, <3>1, <3>2
    <2> QED
      BY <2>1, <2>2
  <1>6. g = [k \in 0 .. n + 1 |-> g[k]]
    BY <1>2
  <1>7. IsLoop(g, loop, z, a, n + 1)
    <2>1. [k \in 0 .. n + 1 |-> g[k]]
            = [k \in 0 .. n + 1 |-> IF k = 0 THEN z ELSE Turn(loop, g[k - 1], a, k)]
      BY <1>5
    <2> QED
      BY <1>6, <2>1 DEF IsLoop
  <1> QED
    BY <1>1, <1>3, <1>4, <1>7

LEMMA LoopExists ==
    ASSUME NEW loop, NEW z, NEW a, NEW N \in Nat
    PROVE  \E f : IsLoop(f, loop, z, a, N)
  <1> DEFINE S == {n \in Nat : \E f : IsLoop(f, loop, z, a, n)}
  <1>1. 0 \in S
    <2>1. PICK f : f = [k \in 0 .. 0 |-> z]
      OBVIOUS
    <2>2. [k \in 0 .. 0 |-> z] = [k \in 0 .. 0 |-> IF k = 0 THEN z ELSE Turn(loop, f[k - 1], a, k)]
      OBVIOUS
    <2>3. IsLoop(f, loop, z, a, 0)
      BY <2>1, <2>2 DEF IsLoop
    <2> QED
      BY <2>3
  <1>2. ASSUME NEW n \in Nat, n \in S PROVE n + 1 \in S
    BY <1>2, LoopGrows
  <1> HIDE DEF S
  <1>3. N \in S
    BY <1>1, <1>2, SetInduction
  <1> QED
    BY <1>3 DEF S

\* Step by step.
LEMMA LoopIs ==
    ASSUME NEW loop, NEW z, NEW a, NEW n \in Nat, NEW f, IsLoop(f, loop, z, a, n)
    PROVE  f[0] = z /\ \A k \in 0 .. n - 1 : f[k + 1] = Turn(loop, f[k], a, k + 1)
  <1>1. f[0] = z
    BY DEF IsLoop
  <1>2. \A k \in 0 .. n - 1 : f[k + 1] = Turn(loop, f[k], a, k + 1)
    <2> TAKE k \in 0 .. n - 1
    <2>1. k + 1 \in 0 .. n /\ k + 1 # 0 /\ (k + 1) - 1 = k
      OBVIOUS
    <2> QED
      BY <2>1 DEF IsLoop
  <1> QED
    BY <1>1, <1>2

LEMMA LoopTurn ==
    ASSUME NEW loop, NEW z, NEW a, NEW n \in Nat, NEW f, IsLoop(f, loop, z, a, n), NEW k \in Nat, k < n
    PROVE  f[k + 1] = Turn(loop, f[k], a, k + 1)
  <1>1. k \in 0 .. n - 1
    OBVIOUS
  <1> QED
    BY <1>1, LoopIs

LEMMA LoopLast ==
    ASSUME NEW loop, NEW z, NEW a, NEW n \in Nat, NEW m, m = n + 1, NEW f, IsLoop(f, loop, z, a, m)
    PROVE  f[m] = Turn(loop, f[n], a, m)
  <1>1. n \in 0 .. m - 1 /\ m \in Nat
    OBVIOUS
  <1> QED
    BY <1>1, LoopIs

\* Two of them are the same.
LEMMA LoopUnique ==
    ASSUME NEW loop, NEW z, NEW a, NEW n \in Nat, NEW f, IsLoop(f, loop, z, a, n),
           NEW m \in Nat, m <= n, NEW b, \A k \in 1 .. m : \A v : Turn(loop, v, a, k) = Turn(loop, v, b, k),
           NEW g, IsLoop(g, loop, z, b, m)
    PROVE  g[m] = f[m]
  <1> DEFINE S == {k \in Nat : k <= m => g[k] = f[k]}
  <1>1. 0 \in S
    BY LoopIs
  <1>2. ASSUME NEW k \in Nat, k \in S PROVE k + 1 \in S
    <2> SUFFICES ASSUME k + 1 <= m PROVE g[k + 1] = f[k + 1]
      OBVIOUS
    <2>1. k \in 0 .. n - 1 /\ k \in 0 .. m - 1 /\ k + 1 \in 1 .. m /\ k <= m
      OBVIOUS
    <2>2. f[k + 1] = Turn(loop, f[k], a, k + 1)
      BY <2>1, LoopIs
    <2>3. g[k + 1] = Turn(loop, g[k], b, k + 1)
      BY <2>1, LoopIs
    <2>4. g[k] = f[k]
      BY <1>2, <2>1
    <2> QED
      BY <2>1, <2>2, <2>3, <2>4
  <1> HIDE DEF S
  <1>3. m \in S
    BY <1>1, <1>2, SetInduction
  <1> QED
    BY <1>3 DEF S

LEMMA EncodeLoop ==
    ASSUME NEW cur, Len(cur) \in Nat
    PROVE  \E f : IsLoop(f, "encode", EncodeStart, cur, Len(cur)) /\ EncodeRec43(cur) = f[Len(cur)].out
  <1> DEFINE turn[k \in 0 .. Len(cur)] ==
                 IF k = 0 THEN [from |-> 0, out |-> <<>>] ELSE EncodeRun(turn[k - 1], cur)
  <1>1. EncodeRec43(cur) = turn[Len(cur)].out
    BY DEF EncodeRec43
  <1>2. PICK f : IsLoop(f, "encode", EncodeStart, cur, Len(cur))
    BY LoopExists
  <1>3. f = [k \in 0 .. Len(cur) |-> IF k = 0 THEN [from |-> 0, out |-> <<>>] ELSE EncodeRun(f[k - 1], cur)]
    BY <1>2 DEF IsLoop, Turn, EncodeStart
  <1>4. turn = [k \in 0 .. Len(cur) |-> IF k = 0 THEN [from |-> 0, out |-> <<>>] ELSE EncodeRun(turn[k - 1], cur)]
    BY <1>3, Zenon
  <1> HIDE DEF turn
  <1>5. IsLoop(turn, "encode", EncodeStart, cur, Len(cur))
    BY <1>4 DEF IsLoop, Turn, EncodeStart
  <1> QED
    BY <1>1, <1>5

LEMMA DecodeLoop ==
    ASSUME NEW buf, Len(buf) \in Nat, NEW b
    PROVE  \E f : IsLoop(f, "decode", DecodeStart(buf), b, Len(buf)) /\ DecodeRec43(buf, b) = f[Len(buf)].out
  <1> DEFINE turn[k \in 0 .. Len(buf)] ==
                 IF k = 0 THEN [out |-> buf, p |-> 1, pos |-> 0] ELSE DecodeRun(turn[k - 1], b)
  <1>1. DecodeRec43(buf, b) = turn[Len(buf)].out
    BY DEF DecodeRec43
  <1>2. PICK f : IsLoop(f, "decode", DecodeStart(buf), b, Len(buf))
    BY LoopExists
  <1>3. f = [k \in 0 .. Len(buf) |-> IF k = 0 THEN [out |-> buf, p |-> 1, pos |-> 0] ELSE DecodeRun(f[k - 1], b)]
    BY <1>2 DEF IsLoop, Turn, DecodeStart
  <1>4. turn = [k \in 0 .. Len(buf) |-> IF k = 0 THEN [out |-> buf, p |-> 1, pos |-> 0] ELSE DecodeRun(turn[k - 1], b)]
    BY <1>3, Zenon
  <1> HIDE DEF turn
  <1>5. IsLoop(turn, "decode", DecodeStart(buf), b, Len(buf))
    BY <1>4 DEF IsLoop, Turn, DecodeStart
  <1> QED
    BY <1>1, <1>5

LEMMA SaveLoop ==
    ASSUME NEW image, Len(image.data) \in Nat
    PROVE  \E f : /\ IsLoop(f, "save", SaveStart(image.size), image, 2 * Len(image.data))
                  /\ Save(image) = ClosePass(f[2 * Len(image.data)], TRUE).passes
  <1> DEFINE turn[k \in 0 .. 2 * Len(image.data)] ==
                 IF k = 0 THEN SaveStart(image.size) ELSE SaveTurn(turn[k - 1], image)
  <1>1. Save(image) = ClosePass(turn[2 * Len(image.data)], TRUE).passes
    BY DEF Save
  <1>2. PICK f : IsLoop(f, "save", SaveStart(image.size), image, 2 * Len(image.data))
    <2>1. PICK n : n = 2 * Len(image.data) /\ n \in Nat
      OBVIOUS
    <2>2. \E f : IsLoop(f, "save", SaveStart(image.size), image, n)
      BY <2>1, LoopExists
    <2> QED
      BY <2>1, <2>2
  <1>3. f = [k \in 0 .. 2 * Len(image.data) |-> IF k = 0 THEN SaveStart(image.size) ELSE SaveTurn(f[k - 1], image)]
    BY <1>2 DEF IsLoop, Turn
  <1>4. turn = [k \in 0 .. 2 * Len(image.data) |-> IF k = 0 THEN SaveStart(image.size) ELSE SaveTurn(turn[k - 1], image)]
    BY <1>3, Zenon
  <1> HIDE DEF turn
  <1>5. IsLoop(turn, "save", SaveStart(image.size), image, 2 * Len(image.data))
    BY <1>4 DEF IsLoop, Turn
  <1> QED
    BY <1>1, <1>5

LEMMA RecordsLoop ==
    ASSUME NEW st, NEW recs, Len(recs) \in Nat
    PROVE  \E f : IsLoop(f, "records", st, recs, Len(recs)) /\ LoadRecords(st, recs) = f[Len(recs)]
  <1> DEFINE turn[k \in 0 .. Len(recs)] == IF k = 0 THEN st ELSE LoadRecord(turn[k - 1], recs[k])
  <1>1. LoadRecords(st, recs) = turn[Len(recs)]
    BY DEF LoadRecords
  <1>2. PICK f : IsLoop(f, "records", st, recs, Len(recs))
    BY LoopExists
  <1>3. f = [k \in 0 .. Len(recs) |-> IF k = 0 THEN st ELSE LoadRecord(f[k - 1], recs[k])]
    BY <1>2 DEF IsLoop, Turn
  <1>4. turn = [k \in 0 .. Len(recs) |-> IF k = 0 THEN st ELSE LoadRecord(turn[k - 1], recs[k])]
    BY <1>3, Zenon
  <1> HIDE DEF turn
  <1>5. IsLoop(turn, "records", st, recs, Len(recs))
    BY <1>4 DEF IsLoop, Turn
  <1> QED
    BY <1>1, <1>5

LEMMA PassesLoop ==
    ASSUME NEW st, NEW file, Len(file) \in Nat
    PROVE  \E f : IsLoop(f, "passes", st, file, Len(file)) /\ Load(st, file) = f[Len(file)]
  <1> DEFINE turn[k \in 0 .. Len(file)] == IF k = 0 THEN st ELSE LoadPass(turn[k - 1], file[k])
  <1>1. Load(st, file) = turn[Len(file)]
    BY DEF Load
  <1>2. PICK f : IsLoop(f, "passes", st, file, Len(file))
    BY LoopExists
  <1>3. f = [k \in 0 .. Len(file) |-> IF k = 0 THEN st ELSE LoadPass(f[k - 1], file[k])]
    BY <1>2 DEF IsLoop, Turn
  <1>4. turn = [k \in 0 .. Len(file) |-> IF k = 0 THEN st ELSE LoadPass(turn[k - 1], file[k])]
    BY <1>3, Zenon
  <1> HIDE DEF turn
  <1>5. IsLoop(turn, "passes", st, file, Len(file))
    BY <1>4 DEF IsLoop, Turn
  <1> QED
    BY <1>1, <1>5

-----------------------------------------------------------------------------
(* Record 43: the encoder and the decoder go through it in the same turns. *)

Begins(a, b) == a \in Seq(Nat) /\ b \in Seq(Nat) /\ Len(a) <= Len(b) /\ \A i \in 1 .. Len(a) : b[i] = a[i]

LEMMA BeginsTrans ==
    ASSUME NEW a, NEW b, NEW c, Begins(a, b), Begins(b, c)
    PROVE  Begins(a, c)
  <1>1. /\ a \in Seq(Nat) /\ b \in Seq(Nat) /\ c \in Seq(Nat) /\ Len(a) <= Len(b) /\ Len(b) <= Len(c)
        /\ \A i \in 1 .. Len(a) : b[i] = a[i]
        /\ \A i \in 1 .. Len(b) : c[i] = b[i]
    BY DEF Begins
  <1>2. Len(a) \in Nat /\ Len(b) \in Nat /\ Len(c) \in Nat
    BY <1>1
  <1>3. \A i \in 1 .. Len(a) : i \in 1 .. Len(b)
    BY <1>1, <1>2
  <1> QED
    BY <1>1, <1>2, <1>3 DEF Begins

Joined(d, a, s) ==
    /\ d \in Seq(Nat) /\ Len(d) = Len(a) + Len(s)
    /\ \A i \in 1 .. Len(a) : d[i] = a[i]
    /\ \A i \in 1 .. Len(s) : d[Len(a) + i] = s[i]

LEMMA JoinIs ==
    ASSUME NEW a \in Seq(Nat), NEW s \in Seq(Nat)
    PROVE  Joined(a \o s, a, s) /\ Begins(a, a \o s)
  <1>1. PICK d : d = a \o s
    OBVIOUS
  <1>2. d \in Seq(Nat) /\ Len(d) = Len(a) + Len(s)
    BY <1>1
  <1>3. \A i \in 1 .. Len(a) : d[i] = a[i]
    BY <1>1
  <1>4. \A i \in 1 .. Len(s) : d[Len(a) + i] = s[i]
    BY <1>1
  <1> QED
    BY <1>1, <1>2, <1>3, <1>4 DEF Joined, Begins

LEMMA JoinOne ==
    ASSUME NEW a \in Seq(Nat), NEW x \in Nat
    PROVE  /\ a \o <<x>> \in Seq(Nat) /\ Begins(a, a \o <<x>>)
           /\ Len(a \o <<x>>) = Len(a) + 1 /\ (a \o <<x>>)[Len(a) + 1] = x
  <1>1. PICK s : s = <<x>>
    OBVIOUS
  <1>2. s \in Seq(Nat) /\ Len(s) = 1 /\ s[1] = x
    BY <1>1
  <1>3. Joined(a \o s, a, s) /\ Begins(a, a \o s)
    BY <1>2, JoinIs
  <1>4. 1 \in 1 .. 1
    OBVIOUS
  <1> QED
    BY <1>1, <1>2, <1>3, <1>4 DEF Joined

Cut(t, b, p, l) == t \in Seq(Nat) /\ Len(t) = l /\ \A i \in 1 .. l : t[i] = b[p + i]

LEMMA CutIs ==
    ASSUME NEW b \in Seq(Nat), NEW p \in Nat, NEW q \in Nat, p <= q, q <= Len(b)
    PROVE  Cut(SubSeq(b, p + 1, q), b, p, q - p)
  <1>1. PICK t : t = SubSeq(b, p + 1, q)
    OBVIOUS
  <1>2. t \in Seq(Nat) /\ Len(t) = q - p
    BY <1>1
  <1>3. \A i \in 1 .. q - p : t[i] = b[p + i]
    BY <1>1
  <1> QED
    BY <1>1, <1>2, <1>3 DEF Cut

\* What comes after the beginning a: a number and some bytes.
Reads(b, p, x, s) == b[p] = x /\ SubSeq(b, p + 1, p + Len(s)) = s

LEMMA ReadsNext ==
    ASSUME NEW a \in Seq(Nat), NEW x \in Nat, NEW s \in Seq(Nat), NEW b,
           Begins((a \o <<x>>) \o s, b), NEW p, p = Len(a) + 1
    PROVE  Reads(b, p, x, s)
  <1>1. PICK c : c = a \o <<x>>
    OBVIOUS
  <1>2. c \in Seq(Nat) /\ Len(c) = p /\ c[p] = x /\ p \in Nat /\ 1 <= p
    BY <1>1, JoinOne
  <1>3. PICK d : d = c \o s
    OBVIOUS
  <1>4. PICK l : l = Len(s) /\ l \in Nat
    OBVIOUS
  <1>5. d \in Seq(Nat) /\ Len(d) = p + l /\ d[p] = x /\ \A i \in 1 .. l : d[p + i] = s[i]
    <2>1. Joined(d, c, s)
      BY <1>2, <1>3, JoinIs
    <2>2. d[p] = c[p]
      BY <1>2, <2>1 DEF Joined
    <2> QED
      BY <1>2, <1>4, <2>1, <2>2 DEF Joined
  <1>6. b \in Seq(Nat) /\ p + l <= Len(b) /\ \A i \in 1 .. p + l : b[i] = d[i]
    BY <1>1, <1>3, <1>5 DEF Begins
  <1>7. b[p] = x
    BY <1>2, <1>4, <1>5, <1>6
  <1>8. SubSeq(b, p + 1, p + l) = s
    <2>1. PICK t : t = SubSeq(b, p + 1, p + l)
      OBVIOUS
    <2>2. t \in Seq(Nat) /\ Len(t) = l /\ \A i \in 1 .. l : t[i] = b[p + i]
      <3>1. PICK q : q = p + l /\ q \in Nat /\ p <= q /\ q - p = l
        BY <1>2, <1>4
      <3> QED
        <4>1. q <= Len(b) /\ t = SubSeq(b, p + 1, q)
          BY <1>6, <2>1, <3>1
        <4>2. Cut(SubSeq(b, p + 1, q), b, p, q - p)
          BY <1>2, <1>6, <3>1, <4>1, CutIs
        <4>3. Cut(t, b, p, l)
          BY <3>1, <4>1, <4>2
        <4> QED
          BY <4>3 DEF Cut
    <2>3. \A i \in 1 .. l : p + i \in 1 .. p + l
      BY <1>2, <1>4
    <2>4. \A i \in 1 .. l : t[i] = s[i]
      BY <1>5, <1>6, <2>2, <2>3
    <2>5. t = s
      <3>1. IsBuffer(t, l) /\ IsBuffer(s, l)
        BY <1>4, <2>2 DEF IsBuffer
      <3> QED
        BY <1>4, <2>4, <3>1, SameBuffer
    <2> QED
      BY <2>1, <2>5
  <1> QED
    BY <1>4, <1>7, <1>8 DEF Reads

LEMMA RunEndIs ==
    ASSUME NEW n \in Nat, NEW cur, IsBuffer(cur, n), NEW i \in 1 .. n - 2,
           cur[i] = cur[i + 1], cur[i] = cur[i + 2]
    PROVE  RunEnd(cur, i) \in i + 2 .. n /\ \A j \in i .. RunEnd(cur, i) : cur[j] = cur[i]
  <1>1. PICK T : T = {e \in 1 .. n : i <= e /\ \A j \in i .. e : cur[j] = cur[i]}
    OBVIOUS
  <1>2. i \in T /\ T \subseteq 1 .. n
    BY <1>1
  <1>3. PICK x \in T : \A y \in T : y <= x
    BY <1>2, GreatestOfMany
  <1>4. x \in 1 .. n /\ i <= x /\ \A j \in i .. x : cur[j] = cur[i]
    BY <1>1, <1>3
  <1>5. x = n \/ cur[x + 1] # cur[i]
    <2> SUFFICES ASSUME x # n, cur[x + 1] = cur[i] PROVE FALSE
      OBVIOUS
    <2>1. x + 1 \in 1 .. n /\ i <= x + 1
      BY <1>4
    <2>2. \A j \in i .. x + 1 : j \in i .. x \/ j = x + 1
      BY <1>4
    <2>3. x + 1 \in T
      BY <1>1, <1>4, <2>1, <2>2
    <2> QED
      BY <1>3, <1>4, <2>3
  <1>6. Len(cur) = n
    BY DEF IsBuffer
  <1>7. PICK e : e = RunEnd(cur, i)
    OBVIOUS
  <1>8. x \in i .. n
    BY <1>4
  <1>9. e \in i .. n /\ (\A j \in i .. e : cur[j] = cur[i]) /\ (e = n \/ cur[e + 1] # cur[i])
    BY <1>4, <1>5, <1>6, <1>7, <1>8 DEF RunEnd
  <1>10. e # i
    <2> SUFFICES ASSUME e = i PROVE FALSE
      OBVIOUS
    <2>1. e # n /\ e + 1 = i + 1
      OBVIOUS
    <2>2. cur[e + 1] = cur[i]
      BY <2>1
    <2> QED
      BY <1>9, <2>1, <2>2
  <1>11. e # i + 1
    <2> SUFFICES ASSUME e = i + 1 PROVE FALSE
      OBVIOUS
    <2>1. e + 1 = i + 2 /\ e # n
      OBVIOUS
    <2> QED
      BY <1>9, <2>1
  <1> QED
    BY <1>7, <1>9, <1>10, <1>11

\* A turn of the encoder: what is left as it is, or up to the next run, and the run.
LastString(to, out, from, cur, n) ==
    to = [from |-> n, out |-> (out \o <<Byte(n)>>) \o SubSeq(cur, from + 1, n)]
StringAndRun(to, out, from, cur, n, i, e) ==
    /\ i \in from + 1 .. n - 2 /\ e \in i + 2 .. n /\ \A j \in i .. e : cur[j] = cur[i]
    /\ to = [from |-> e, out |-> ((out \o <<Byte(i - 1)>>) \o SubSeq(cur, from + 1, i - 1)) \o <<Byte(e), cur[i]>>]

LEMMA EncodeRunIs ==
    ASSUME NEW n \in Nat, NEW cur, IsBuffer(cur, n), NEW from \in 0 .. n - 1, NEW out
    PROVE  \/ LastString(EncodeRun([from |-> from, out |-> out], cur), out, from, cur, n)
           \/ \E i, e : StringAndRun(EncodeRun([from |-> from, out |-> out], cur), out, from, cur, n, i, e)
  <1>1. PICK st : st = [from |-> from, out |-> out]
    OBVIOUS
  <1>2. PICK runs : runs = {i \in from + 1 .. n - 2 : cur[i] = cur[i + 1] /\ cur[i] = cur[i + 2]}
    OBVIOUS
  <1>3. PICK i : i = CHOOSE r \in runs : \A q \in runs : r <= q
    OBVIOUS
  <1>4. Len(cur) = n /\ st.from = from /\ st.out = out
    BY <1>1 DEF IsBuffer
  <1>5. EncodeRun(st, cur)
          = IF runs = {} THEN [from |-> n, out |-> st.out \o <<Byte(n)>> \o SubSeq(cur, st.from + 1, n)]
            ELSE [from |-> RunEnd(cur, i),
                  out |-> st.out \o <<Byte(i - 1)>> \o SubSeq(cur, st.from + 1, i - 1)
                          \o <<Byte(RunEnd(cur, i)), cur[i]>>]
    <2>1. st.from < Len(cur)
      BY <1>4
    <2>2. runs = {j \in st.from + 1 .. Len(cur) - 2 : cur[j] = cur[j + 1] /\ cur[j] = cur[j + 2]}
      BY <1>2, <1>4
    <2>3. EncodeRun(st, cur)
            = IF st.from >= Len(cur) THEN st
              ELSE IF runs = {}
              THEN [from |-> Len(cur), out |-> st.out \o <<Byte(Len(cur))>> \o SubSeq(cur, st.from + 1, Len(cur))]
              ELSE [from |-> RunEnd(cur, i),
                    out |-> st.out \o <<Byte(i - 1)>> \o SubSeq(cur, st.from + 1, i - 1)
                            \o <<Byte(RunEnd(cur, i)), cur[i]>>]
      BY <1>3, <2>2, Zenon DEF EncodeRun
    <2> QED
      BY <1>4, <2>1, <2>3
  <1>6. CASE runs = {}
    BY <1>1, <1>4, <1>5, <1>6 DEF LastString
  <1>7. CASE runs # {}
    <2>1. runs \subseteq Nat
      BY <1>2
    <2>2. i \in runs
      BY <1>3, <1>7, <2>1, LeastOfMany
    <2>3. i \in 1 .. n - 2 /\ i \in from + 1 .. n - 2 /\ cur[i] = cur[i + 1] /\ cur[i] = cur[i + 2]
      BY <1>2, <2>2
    <2>4. PICK e : e = RunEnd(cur, i)
      OBVIOUS
    <2>5. e \in i + 2 .. n /\ \A j \in i .. e : cur[j] = cur[i]
      BY <2>3, <2>4, RunEndIs
    <2>6. StringAndRun(EncodeRun(st, cur), out, from, cur, n, i, e)
      BY <1>4, <1>5, <1>7, <2>3, <2>4, <2>5 DEF StringAndRun
    <2> QED
      BY <1>1, <2>6
  <1> QED
    BY <1>6, <1>7

\* What the encoder has done, and what it will.
Encoding(st, n, k) ==
    /\ st = [from |-> st.from, out |-> st.out] /\ st.from \in 0 .. n /\ st.out \in Seq(Nat)
    /\ st.from = n \/ k <= st.from

LEMMA EncodeStep ==
    ASSUME NEW n \in Nat, NEW cur, IsBuffer(cur, n), NEW k \in Nat, NEW st, Encoding(st, n, k)
    PROVE  Encoding(EncodeRun(st, cur), n, k + 1) /\ Begins(st.out, EncodeRun(st, cur).out)
  <1>1. PICK from, out, to : from = st.from /\ out = st.out /\ to = EncodeRun(st, cur)
    OBVIOUS
  <1>2. /\ st = [from |-> from, out |-> out] /\ from \in 0 .. n /\ out \in Seq(Nat)
        /\ from = n \/ k <= from
    BY <1>1 DEF Encoding
  <1>3. cur \in Seq(Nat) /\ Len(cur) = n /\ \A i \in 1 .. n : cur[i] \in Nat
    BY DEF IsBuffer
  <1>4. \A i \in Nat : Byte(i) \in Nat
    BY CodecAssumption DEF Byte
  <1>5. CASE from = n
    <2>1. to = st
      BY <1>1, <1>3, <1>5 DEF EncodeRun
    <2>2. Begins(out, out)
      BY <1>2 DEF Begins
    <2> QED
      BY <1>1, <1>2, <1>5, <2>1, <2>2 DEF Encoding
  <1>6. CASE from # n
    <2>1. from \in 0 .. n - 1 /\ k <= from
      BY <1>2, <1>6
    <2>2. CASE LastString(to, out, from, cur, n)
      <3>1. PICK s, x : s = SubSeq(cur, from + 1, n) /\ x = Byte(n)
        OBVIOUS
      <3>2. s \in Seq(Nat) /\ x \in Nat
        <4>1. from \in Nat /\ from <= n /\ n <= Len(cur)
          BY <1>3, <2>1
        <4>2. s \in Seq(Nat)
          BY <1>3, <3>1, <4>1, CutIs DEF Cut
        <4> QED
          BY <1>4, <3>1, <4>2
      <3>3. PICK c : c = out \o <<x>>
        OBVIOUS
      <3>4. c \in Seq(Nat) /\ Begins(out, c)
        BY <1>2, <3>2, <3>3, JoinOne
      <3>5. PICK d : d = c \o s
        OBVIOUS
      <3>6. d \in Seq(Nat) /\ Begins(c, d)
        BY <3>2, <3>4, <3>5, JoinIs DEF Joined
      <3>7. to = [from |-> n, out |-> d]
        BY <2>2, <3>1, <3>3, <3>5 DEF LastString
      <3>8. Encoding(to, n, k + 1)
        BY <3>6, <3>7 DEF Encoding
      <3> QED
        BY <1>1, <3>4, <3>6, <3>7, <3>8, BeginsTrans
    <2>3. CASE \E i, e : StringAndRun(to, out, from, cur, n, i, e)
      <3>1. PICK i, e : StringAndRun(to, out, from, cur, n, i, e)
        BY <2>3
      <3>2. i \in from + 1 .. n - 2 /\ e \in i + 2 .. n
        BY <3>1 DEF StringAndRun
      <3>3. PICK s, x, y, z : s = SubSeq(cur, from + 1, i - 1) /\ x = Byte(i - 1) /\ y = Byte(e) /\ z = cur[i]
        OBVIOUS
      <3>4. s \in Seq(Nat) /\ x \in Nat /\ y \in Nat /\ z \in Nat
        <4>1. i - 1 \in Nat /\ e \in Nat /\ i \in 1 .. n /\ from + 1 \in 1 .. n /\ i - 1 <= n
          BY <2>1, <3>2
        <4>2. s \in Seq(Nat)
          BY <1>3, <3>3, <4>1
        <4> QED
          BY <1>3, <1>4, <3>3, <4>1, <4>2
      <3>5. PICK c : c = out \o <<x>>
        OBVIOUS
      <3>6. c \in Seq(Nat) /\ Begins(out, c)
        BY <1>2, <3>4, <3>5, JoinOne
      <3>7. PICK d : d = c \o s
        OBVIOUS
      <3>8. d \in Seq(Nat) /\ Begins(c, d)
        BY <3>4, <3>6, <3>7, JoinIs DEF Joined
      <3>9. PICK g : g = d \o <<y, z>>
        OBVIOUS
      <3>10. g \in Seq(Nat) /\ Begins(d, g)
        <4>1. PICK u : u = <<y, z>>
          OBVIOUS
        <4>2. u \in Seq(Nat)
          BY <3>4, <4>1
        <4> QED
          BY <3>8, <3>9, <4>1, <4>2, JoinIs DEF Joined
      <3>11. to = [from |-> e, out |-> g]
        BY <3>1, <3>3, <3>5, <3>7, <3>9 DEF StringAndRun
      <3>12. e \in 0 .. n /\ k + 1 <= e
        BY <2>1, <3>2
      <3>13. Encoding(to, n, k + 1)
        BY <3>10, <3>11, <3>12 DEF Encoding
      <3> QED
        BY <1>1, <3>6, <3>8, <3>10, <3>11, <3>13, BeginsTrans
    <2>4. LastString(to, out, from, cur, n) \/ \E i, e : StringAndRun(to, out, from, cur, n, i, e)
      BY <1>1, <1>2, <2>1, EncodeRunIs
    <2> QED
      BY <2>2, <2>3, <2>4
  <1> QED
    BY <1>5, <1>6

\* A turn of the decoder: up to byte e as it is, and the run up to end.
DecodeTurn(st, b, n, e, s, q, end) ==
    /\ Len(st.out) = n /\ st.pos < n
    /\ e = IF st.pos = 0 THEN b[st.p] ELSE ReadOffset(b[st.p])
    /\ s = SubSeq(b, st.p + 1, st.p + (e - st.pos))
    /\ q = (st.p + 1) + (e - st.pos)
    /\ end = ReadOffset(b[q])

TurnDone(st, b, n, e, s, q, end) ==
    /\ e >= n => DecodeRun(st, b) = [out |-> Overwrite(st.out, st.pos, s), p |-> q, pos |-> e]
    /\ e < n => DecodeRun(st, b)
                  = [out |-> Overwrite(Overwrite(st.out, st.pos, s), e, [i \in 1 .. end - e |-> b[q + 1]]),
                     p |-> q + 2, pos |-> end]

LEMMA DecodeRunIs ==
    ASSUME NEW n \in Nat, NEW st, st.pos \in Nat, NEW b, NEW e \in Nat, NEW s, NEW q, NEW end,
           DecodeTurn(st, b, n, e, s, q, end)
    PROVE  TurnDone(st, b, n, e, s, q, end)
  <1>1. ~ (st.pos >= Len(st.out))
    BY DEF DecodeTurn
  <1> DEFINE E == IF st.pos = 0 THEN b[st.p] ELSE ReadOffset(b[st.p])
             T == Overwrite(st.out, st.pos, SubSeq(b, st.p + 1, st.p + E - st.pos))
             Q == st.p + 1 + E - st.pos
             F == ReadOffset(b[Q])
             R == [i \in 1 .. F - E |-> b[Q + 1]]
  <1>2. DecodeRun(st, b)
          = IF st.pos >= Len(st.out) THEN st
            ELSE IF E >= Len(st.out) THEN [out |-> T, p |-> Q, pos |-> E]
            ELSE [out |-> Overwrite(T, E, R), p |-> Q + 2, pos |-> F]
    BY Zenon DEF DecodeRun
  <1>3. e = E
    BY DEF DecodeTurn
  <1>4. T = Overwrite(st.out, st.pos, s)
    <2>1. s = SubSeq(b, st.p + 1, st.p + (e - st.pos))
      BY DEF DecodeTurn
    <2> HIDE DEF E
    <2> QED
      BY <1>3, <2>1, Zenon
  <1>5. q = Q
    <2>1. q = (st.p + 1) + (e - st.pos)
      BY DEF DecodeTurn
    <2> HIDE DEF E
    <2> QED
      BY <1>3, <2>1, Zenon
  <1>6. end = F
    <2> HIDE DEF E, Q
    <2> QED
      BY <1>5, Zenon DEF DecodeTurn
  <1>7. R = [i \in 1 .. end - e |-> b[q + 1]]
    <2> HIDE DEF E, Q, F
    <2> QED
      BY <1>3, <1>5, <1>6, Zenon
  <1>8. Len(st.out) = n
    BY DEF DecodeTurn
  <1> HIDE DEF E, T, Q, F, R
  <1> QED
    BY <1>1, <1>2, <1>3, <1>4, <1>5, <1>6, <1>7, <1>8 DEF TurnDone

LEMMA DecodeRunLast ==
    ASSUME NEW n \in Nat, NEW st, st.pos \in Nat, NEW b, NEW s, NEW q, NEW end, DecodeTurn(st, b, n, n, s, q, end)
    PROVE  DecodeRun(st, b) = [out |-> Overwrite(st.out, st.pos, s), p |-> q, pos |-> n]
  <1>1. TurnDone(st, b, n, n, s, q, end)
    BY DecodeRunIs
  <1> QED
    BY <1>1 DEF TurnDone

\* The decoder knows the first from bytes of cur and has read up to p.
Known(st, n, cur, from, p) ==
    /\ st = [out |-> st.out, p |-> p, pos |-> from] /\ IsBuffer(st.out, n)
    /\ \A i \in 1 .. from : st.out[i] = cur[i]

LEMMA DecodeString ==
    ASSUME NEW n \in Nat, n # 0, n <= Full, NEW cur, IsBuffer(cur, n), NEW from \in 1 .. n - 1,
           NEW p \in Nat, NEW st, Known(st, n, cur, from, p), NEW b, b[p] = Byte(n),
           SubSeq(b, p + 1, p + (n - from)) = SubSeq(cur, from + 1, n)
    PROVE  Known(DecodeRun(st, b), n, cur, n, (p + 1) + (n - from))
  <1>1. PICK o : o = st.out
    OBVIOUS
  <1>2. /\ st = [out |-> o, p |-> p, pos |-> from] /\ IsBuffer(o, n)
        /\ \A i \in 1 .. from : o[i] = cur[i]
    BY <1>1 DEF Known
  <1>3. ReadOffset(b[p]) = n
    <2>1. CASE n = Full
      BY <2>1, CodecAssumption DEF Byte, ReadOffset
    <2>2. CASE n # Full
      <3>1. n \in 0 .. Full - 1
        BY <2>2, CodecAssumption
      <3> QED
        BY <3>1, CodecAssumption DEF Byte, ReadOffset
    <2> QED
      BY <2>1, <2>2
  <1>4. PICK s : s = SubSeq(cur, from + 1, n)
    OBVIOUS
  <1>5. Cut(s, cur, from, n - from)
    BY <1>4, CutIs DEF IsBuffer
  <1>6. from # 0 /\ from \in 0 .. n - 1 /\ n - from \in Nat
    OBVIOUS
  <1>7. s = SubSeq(b, p + 1, p + (n - from))
    BY <1>4, <1>6
  <1>8. PICK w : w = Overwrite(o, from, s)
    OBVIOUS
  <1>9. DecodeRun(st, b) = [out |-> w, p |-> (p + 1) + (n - from), pos |-> n]
    <2>1. PICK q, end : q = (p + 1) + (n - from) /\ end = ReadOffset(b[q])
      OBVIOUS
    <2>2. n = IF from = 0 THEN b[p] ELSE ReadOffset(b[p])
      BY <1>3, <1>6
    <2>3. st.out = o /\ st.pos = from /\ st.p = p /\ Len(o) = n /\ n >= n
      BY <1>2 DEF IsBuffer
    <2>4. st.pos < n /\ st.pos \in Nat
      BY <1>6, <2>3
    <2>5. DecodeTurn(st, b, n, n, s, q, end)
      BY <1>7, <2>1, <2>2, <2>3, <2>4 DEF DecodeTurn
    <2>6. DecodeRun(st, b) = [out |-> Overwrite(st.out, st.pos, s), p |-> q, pos |-> n]
      BY <2>4, <2>5, DecodeRunLast
    <2> QED
      BY <1>8, <2>1, <2>3, <2>6
  <1>10. Written(w, o, n, from, s, n - from)
    BY <1>2, <1>5, <1>6, <1>8, OverwriteIs DEF Cut
  <1>11. \A i \in 1 .. n : w[i] = cur[i]
    <2> TAKE i \in 1 .. n
    <2>1. CASE i <= from
      <3>1. i \in 1 .. from
        BY <2>1
      <3> QED
        BY <1>2, <1>10, <2>1, <3>1 DEF Written
    <2>2. CASE from < i
      <3>1. i - from \in 1 .. n - from /\ i <= from + (n - from) /\ from + (i - from) = i
        BY <2>2
      <3>2. w[i] = s[i - from]
        BY <1>10, <2>2, <3>1 DEF Written
      <3> QED
        BY <1>5, <3>1, <3>2 DEF Cut
    <2> QED
      BY <2>1, <2>2
  <1> QED
    BY <1>9, <1>10, <1>11 DEF Known, Written

LEMMA DecodeStringAndRun ==
    ASSUME NEW n \in Nat, n # 0, n <= Full, NEW cur, IsBuffer(cur, n), NEW from \in 0 .. n - 1,
           NEW i \in from + 1 .. n - 2, NEW to \in i + 2 .. n, \A j \in i .. to : cur[j] = cur[i],
           NEW p \in Nat, NEW st, Known(st, n, cur, from, p), NEW b, b[p] = i - 1,
           SubSeq(b, p + 1, p + ((i - 1) - from)) = SubSeq(cur, from + 1, i - 1),
           NEW q, q = (p + 1) + ((i - 1) - from), b[q] = Byte(to), b[q + 1] = cur[i]
    PROVE  Known(DecodeRun(st, b), n, cur, to, q + 2)
  <1>1. PICK o : o = st.out
    OBVIOUS
  <1>2. /\ st = [out |-> o, p |-> p, pos |-> from] /\ IsBuffer(o, n)
        /\ \A j \in 1 .. from : o[j] = cur[j]
    BY <1>1 DEF Known
  <1>3. ReadOffset(b[q]) = to
    <2>1. to \in Nat /\ to # 0 /\ to <= Full
      BY CodecAssumption
    <2>2. CASE to = Full
      BY <2>2, CodecAssumption DEF Byte, ReadOffset
    <2>3. CASE to # Full
      <3>1. to \in 0 .. Full - 1
        BY <2>1, <2>3, CodecAssumption
      <3> QED
        BY <2>1, <3>1, CodecAssumption DEF Byte, ReadOffset
    <2> QED
      BY <2>2, <2>3
  <1>4. PICK e : e = i - 1
    OBVIOUS
  <1>5. e \in Nat /\ from <= e /\ e < n /\ e < to /\ i = e + 1 /\ e - from \in Nat
    BY <1>4
  <1>6. e = IF from = 0 THEN b[p] ELSE ReadOffset(b[p])
    <2>1. b[p] = e
      BY <1>4
    <2>2. from # 0 => e # 0
      BY <1>5
    <2> QED
      BY <2>1, <2>2 DEF ReadOffset
  <1>7. PICK s : s = SubSeq(cur, from + 1, e)
    OBVIOUS
  <1>8. Cut(s, cur, from, e - from)
    BY <1>5, <1>7, CutIs DEF IsBuffer
  <1>9. s = SubSeq(b, p + 1, p + (e - from))
    BY <1>4, <1>5, <1>7
  <1>10. PICK w : w = Overwrite(o, from, s)
    OBVIOUS
  <1>11. PICK r : r = [j \in 1 .. to - e |-> b[q + 1]]
    OBVIOUS
  <1>12. PICK x : x = Overwrite(w, e, r)
    OBVIOUS
  <1>13. DecodeRun(st, b) = [out |-> x, p |-> q + 2, pos |-> to]
    <2>1. q = (p + 1) + (e - from)
      BY <1>4
    <2>2. st.out = o /\ st.pos = from /\ st.p = p /\ Len(o) = n /\ e < n
      BY <1>2, <1>5 DEF IsBuffer
    <2>3. st.pos < n /\ st.pos \in Nat
      BY <2>2
    <2>4. DecodeTurn(st, b, n, e, s, q, to)
      BY <1>3, <1>6, <1>9, <2>1, <2>2, <2>3 DEF DecodeTurn
    <2>5. DecodeRun(st, b)
            = [out |-> Overwrite(Overwrite(st.out, st.pos, s), e, [j \in 1 .. to - e |-> b[q + 1]]),
               p |-> q + 2, pos |-> to]
      BY <1>5, <2>2, <2>3, <2>4, DecodeRunIs DEF TurnDone
    <2> QED
      BY <1>10, <1>11, <1>12, <2>2, <2>5
  <1>14. Written(w, o, n, from, s, e - from)
    BY <1>2, <1>5, <1>8, <1>10, OverwriteIs DEF Cut
  <1>15. \A j \in 1 .. n : j <= e => w[j] = cur[j]
    <2> TAKE j \in 1 .. n
    <2> SUFFICES ASSUME j <= e PROVE w[j] = cur[j]
      OBVIOUS
    <2>1. CASE j <= from
      <3>1. j \in 1 .. from
        BY <2>1
      <3> QED
        BY <1>2, <1>14, <2>1, <3>1 DEF Written
    <2>2. CASE from < j
      <3>1. j - from \in 1 .. e - from /\ j <= from + (e - from) /\ from + (j - from) = j
        BY <1>5, <2>2
      <3>2. w[j] = s[j - from]
        BY <1>14, <2>2, <3>1 DEF Written
      <3> QED
        BY <1>8, <3>1, <3>2 DEF Cut
    <2> QED
      BY <2>1, <2>2
  <1>16. cur[i] \in Nat
    BY DEF IsBuffer
  <1>17. r \in Seq(Nat) /\ Len(r) = to - e /\ \A j \in 1 .. to - e : r[j] = cur[i]
    <2>1. PICK l, v : l = to - e /\ v = cur[i] /\ l \in Nat /\ v \in Nat
      BY <1>5, <1>16
    <2>2. r = [j \in 1 .. l |-> v]
      BY <1>11, <2>1
    <2>3. r \in Seq(Nat) /\ Len(r) = l /\ \A j \in 1 .. l : r[j] = v
      BY <2>1, <2>2
    <2> QED
      BY <2>1, <2>3
  <1>18. Written(x, w, n, e, r, to - e)
    <2>1. IsBuffer(w, n)
      BY <1>14 DEF Written
    <2>2. Written(Overwrite(w, e, r), w, n, e, r, Len(r))
      BY <1>5, <1>17, <2>1, OverwriteIs
    <2> QED
      BY <1>12, <1>17, <2>2
  <1>19. \A j \in 1 .. to : x[j] = cur[j]
    <2> TAKE j \in 1 .. to
    <2>1. j \in 1 .. n
      OBVIOUS
    <2>2. CASE j <= e
      BY <1>15, <1>18, <2>1, <2>2 DEF Written
    <2>3. CASE e < j
      <3>1. j - e \in 1 .. to - e /\ j <= e + (to - e) /\ j \in i .. to
        BY <1>5, <2>3
      <3>2. x[j] = r[j - e]
        BY <1>18, <2>1, <2>3, <3>1 DEF Written
      <3> QED
        BY <1>17, <3>1, <3>2
    <2> QED
      BY <1>5, <2>2, <2>3
  <1> QED
    BY <1>13, <1>18, <1>19 DEF Known, Written

LEMMA InStep ==
    ASSUME NEW n \in Nat, n # 0, n <= Full, NEW cur, IsBuffer(cur, n), NEW k, NEW st, Encoding(st, n, k),
           NEW b, Begins(EncodeRun(st, cur).out, b), Len(b) < n,
           NEW dec, Known(dec, n, cur, st.from, Len(st.out) + 1)
    PROVE  Known(DecodeRun(dec, b), n, cur, EncodeRun(st, cur).from, Len(EncodeRun(st, cur).out) + 1)
  <1>1. PICK from, out, to : from = st.from /\ out = st.out /\ to = EncodeRun(st, cur)
    OBVIOUS
  <1>2. st = [from |-> from, out |-> out] /\ from \in 0 .. n /\ out \in Seq(Nat)
    BY <1>1 DEF Encoding
  <1>3. PICK p : p = Len(out) + 1 /\ p \in Nat /\ Len(out) \in Nat
    BY <1>2
  <1>4. Known(dec, n, cur, from, p)
    BY <1>1, <1>3
  <1>5. cur \in Seq(Nat) /\ Len(cur) = n /\ \A i \in 1 .. n : cur[i] \in Nat
    BY DEF IsBuffer
  <1>6. \A i \in Nat : Byte(i) \in Nat
    BY CodecAssumption DEF Byte
  <1>7. b \in Seq(Nat) /\ Len(b) \in Nat /\ Len(to.out) <= Len(b) /\ to.out \in Seq(Nat)
    BY <1>1 DEF Begins
  <1>8. CASE from = n
    <2>1. to = st
      BY <1>1, <1>5, <1>8 DEF EncodeRun
    <2>2. DecodeRun(dec, b) = dec
      <3>1. dec.pos = n /\ Len(dec.out) = n
        BY <1>4, <1>8 DEF Known, IsBuffer
      <3> QED
        BY <3>1 DEF DecodeRun
    <2> QED
      BY <1>1, <1>3, <1>4, <2>1, <2>2
  <1>9. CASE from # n
    <2>1. from \in 0 .. n - 1
      BY <1>2, <1>9
    <2>2. CASE LastString(to, out, from, cur, n)
      <3>1. PICK s, x : s = SubSeq(cur, from + 1, n) /\ x = Byte(n)
        OBVIOUS
      <3>2. s \in Seq(Nat) /\ Len(s) = n - from /\ x \in Nat
        <4>1. from \in Nat /\ from <= n /\ n <= Len(cur)
          BY <1>5, <2>1
        <4>2. Cut(s, cur, from, n - from)
          BY <1>5, <3>1, <4>1, CutIs
        <4> QED
          BY <1>6, <3>1, <4>2 DEF Cut
      <3>3. PICK c : c = out \o <<x>>
        OBVIOUS
      <3>4. c \in Seq(Nat) /\ Len(c) = p
        BY <1>2, <1>3, <3>2, <3>3, JoinOne
      <3>5. PICK d : d = c \o s
        OBVIOUS
      <3>6. Len(d) = p + (n - from)
        BY <3>2, <3>4, <3>5, JoinIs DEF Joined
      <3>7. to.from = n /\ to.out = d
        BY <2>2, <3>1, <3>3, <3>5 DEF LastString
      <3>8. from \in 1 .. n - 1
        BY <1>3, <1>7, <2>1, <3>6, <3>7
      <3>9. Begins((out \o <<x>>) \o s, b)
        BY <1>1, <3>3, <3>5, <3>7
      <3>10. b[p] = x /\ SubSeq(b, p + 1, p + Len(s)) = s
        <4>1. Reads(b, p, x, s)
          BY <1>2, <1>3, <3>2, <3>9, ReadsNext
        <4> QED
          BY <4>1 DEF Reads
      <3>11. b[p] = Byte(n) /\ SubSeq(b, p + 1, p + (n - from)) = SubSeq(cur, from + 1, n)
        BY <3>1, <3>2, <3>10
      <3>12. Known(DecodeRun(dec, b), n, cur, n, (p + 1) + (n - from))
        BY <1>3, <1>4, <3>8, <3>11, DecodeString
      <3>13. (p + 1) + (n - from) = Len(to.out) + 1
        BY <1>3, <3>6, <3>7, <3>8
      <3> QED
        BY <1>1, <3>7, <3>12, <3>13
    <2>3. CASE \E i, e : StringAndRun(to, out, from, cur, n, i, e)
      <3>1. PICK i, e : StringAndRun(to, out, from, cur, n, i, e)
        BY <2>3
      <3>2. i \in from + 1 .. n - 2 /\ e \in i + 2 .. n /\ \A j \in i .. e : cur[j] = cur[i]
        BY <3>1 DEF StringAndRun
      <3>3. PICK s, x, y, z : s = SubSeq(cur, from + 1, i - 1) /\ x = Byte(i - 1) /\ y = Byte(e) /\ z = cur[i]
        OBVIOUS
      <3>4. s \in Seq(Nat) /\ Len(s) = (i - 1) - from /\ y \in Nat /\ z \in Nat
        <4>1. i - 1 \in Nat /\ e \in Nat /\ i \in 1 .. n /\ from \in Nat /\ from <= i - 1 /\ i - 1 <= Len(cur)
          BY <1>5, <2>1, <3>2
        <4>2. Cut(s, cur, from, (i - 1) - from)
          BY <1>5, <3>3, <4>1, CutIs
        <4> QED
          BY <1>5, <1>6, <3>3, <4>1, <4>2 DEF Cut
      <3>5. x = i - 1 /\ x \in Nat
        <4>1. PICK v : v = i - 1
          OBVIOUS
        <4>2. v \in 0 .. Full - 1
          BY <2>1, <3>2, <4>1, CodecAssumption
        <4>3. Byte(v) = v
          BY <4>2, CodecAssumption DEF Byte
        <4> QED
          BY <3>3, <4>1, <4>2, <4>3
      <3>6. PICK c : c = out \o <<x>>
        OBVIOUS
      <3>7. c \in Seq(Nat) /\ Len(c) = p
        BY <1>2, <1>3, <3>5, <3>6, JoinOne
      <3>8. PICK d : d = c \o s
        OBVIOUS
      <3>9. d \in Seq(Nat) /\ Len(d) = p + ((i - 1) - from)
        BY <3>4, <3>7, <3>8, JoinIs DEF Joined
      <3>10. PICK u, g : u = <<y, z>> /\ g = d \o u
        OBVIOUS
      <3>11. u \in Seq(Nat) /\ Len(u) = 2 /\ u[1] = y /\ u[2] = z
        BY <3>4, <3>10
      <3>12. Joined(g, d, u) /\ Begins(d, g)
        BY <3>9, <3>10, <3>11, JoinIs
      <3>13. to.from = e /\ to.out = g
        BY <3>1, <3>3, <3>6, <3>8, <3>10 DEF StringAndRun
      <3>14. Begins(g, b)
        BY <1>1, <3>13
      <3>15. Begins((out \o <<x>>) \o s, b)
        BY <3>6, <3>8, <3>12, <3>14, BeginsTrans
      <3>16. b[p] = x /\ SubSeq(b, p + 1, p + Len(s)) = s
        <4>1. Reads(b, p, x, s)
          BY <1>2, <1>3, <3>4, <3>5, <3>15, ReadsNext
        <4> QED
          BY <4>1 DEF Reads
      <3>17. PICK q : q = (p + 1) + ((i - 1) - from)
        OBVIOUS
      <3>18. q = Len(d) + 1 /\ Len(g) + 1 = q + 2 /\ q \in 1 .. Len(g) /\ q + 1 \in 1 .. Len(g) /\ q + 1 = Len(d) + 2
        <4>1. (i - 1) - from \in Nat
          BY <2>1, <3>2
        <4>2. Len(g) = Len(d) + 2
          BY <3>11, <3>12 DEF Joined
        <4>3. PICK l, v : l = Len(d) /\ v = (i - 1) - from /\ v \in Nat
          BY <4>1
        <4>4. q = (p + 1) + v /\ l = p + v /\ Len(g) = l + 2
          <5>1. q = (p + 1) + v
            BY <3>17, <4>3, Zenon
          <5>2. l = p + v
            BY <3>9, <4>3, Zenon
          <5>3. Len(g) = l + 2
            BY <4>2, <4>3, Zenon
          <5> QED
            BY <5>1, <5>2, <5>3
        <4>5. q = l + 1 /\ (l + 2) + 1 = q + 2 /\ q \in 1 .. l + 2 /\ q + 1 \in 1 .. l + 2 /\ q + 1 = l + 2
          <5>1. p \in Nat /\ v \in Nat /\ q = (p + 1) + v /\ l = p + v
            BY <1>3, <4>3, <4>4, Zenon
          <5> QED
            BY <5>1
        <4> QED
          BY <4>3, <4>4, <4>5, Zenon
      <3>19. b[q] = y /\ b[q + 1] = z
        <4>1. 1 \in 1 .. Len(u) /\ 2 \in 1 .. Len(u)
          BY <3>11
        <4>2. g[q] = y /\ g[q + 1] = z
          BY <3>11, <3>12, <3>18, <4>1 DEF Joined
        <4> QED
          BY <3>14, <3>18, <4>2 DEF Begins
      <3>20. Known(DecodeRun(dec, b), n, cur, e, q + 2)
        <4>1. b[p] = i - 1 /\ SubSeq(b, p + 1, p + ((i - 1) - from)) = SubSeq(cur, from + 1, i - 1)
          BY <3>3, <3>4, <3>5, <3>16
        <4>2. b[q] = Byte(e) /\ b[q + 1] = cur[i]
          BY <3>3, <3>19
        <4> QED
          BY <1>3, <1>4, <2>1, <3>2, <3>17, <4>1, <4>2, DecodeStringAndRun
      <3> QED
        BY <1>1, <3>13, <3>18, <3>20
    <2>4. LastString(to, out, from, cur, n) \/ \E i, e : StringAndRun(to, out, from, cur, n, i, e)
      BY <1>1, <1>2, <2>1, EncodeRunIs
    <2> QED
      BY <2>2, <2>3, <2>4
  <1> QED
    BY <1>8, <1>9

LEMMA Rec43 ==
    ASSUME NEW n \in Nat, n # 0, n <= Full, NEW cur, IsBuffer(cur, n), NEW buf, IsBuffer(buf, n)
    PROVE  /\ EncodeRec43(cur) \in Seq(Nat)
           /\ Len(EncodeRec43(cur)) < n => DecodeRec43(buf, EncodeRec43(cur)) = cur
  <1>1. Len(cur) = n /\ Len(buf) = n
    BY DEF IsBuffer
  <1>2. PICK f : IsLoop(f, "encode", EncodeStart, cur, n) /\ EncodeRec43(cur) = f[n].out
    BY <1>1, EncodeLoop
  <1>3. f[0] = EncodeStart /\ \A k \in 0 .. n - 1 : f[k + 1] = EncodeRun(f[k], cur)
    <2>1. f[0] = EncodeStart /\ \A k \in 0 .. n - 1 : f[k + 1] = Turn("encode", f[k], cur, k + 1)
      BY <1>2, LoopIs
    <2>2. \A k \in 0 .. n - 1 : Turn("encode", f[k], cur, k + 1) = EncodeRun(f[k], cur)
      BY DEF Turn
    <2> QED
      BY <2>1, <2>2
  <1>4. \A k \in 0 .. n : Encoding(f[k], n, k)
    <2> DEFINE S == {k \in Nat : k <= n => Encoding(f[k], n, k)}
    <2>1. 0 \in S
      <3>1. f[0] = [from |-> 0, out |-> <<>>]
        BY <1>3 DEF EncodeStart
      <3>2. PICK st : st = f[0]
        OBVIOUS
      <3>3. st = [from |-> 0, out |-> <<>>] /\ st.from = 0 /\ st.out = <<>>
        BY <3>1, <3>2
      <3>4. <<>> \in Seq(Nat) /\ 0 \in 0 .. n
        OBVIOUS
      <3>5. Encoding(st, n, 0)
        BY <3>3, <3>4 DEF Encoding
      <3> QED
        BY <3>2, <3>5
    <2>2. ASSUME NEW k \in Nat, k \in S PROVE k + 1 \in S
      <3> SUFFICES ASSUME k + 1 <= n PROVE Encoding(f[k + 1], n, k + 1)
        OBVIOUS
      <3>1. k \in 0 .. n - 1 /\ k <= n
        OBVIOUS
      <3>2. Encoding(f[k], n, k)
        BY <2>2, <3>1
      <3> QED
        BY <1>3, <3>1, <3>2, EncodeStep
    <2> HIDE DEF S
    <2>3. Nat \subseteq S
      BY <2>1, <2>2, SetInduction
    <2> QED
      BY <2>3 DEF S
  <1>5. \A k \in 0 .. n - 1 : Begins(f[k].out, f[k + 1].out)
    <2> TAKE k \in 0 .. n - 1
    <2>1. k \in Nat /\ Encoding(f[k], n, k)
      BY <1>4
    <2> QED
      BY <1>3, <2>1, EncodeStep
  <1>6. PICK b : b = f[n].out
    OBVIOUS
  <1>7. b \in Seq(Nat) /\ f[n].from = n
    <2>1. Encoding(f[n], n, n)
      BY <1>4
    <2> QED
      BY <1>6, <2>1 DEF Encoding
  <1>8. \A k \in 0 .. n : Begins(f[k].out, b)
    <2> DEFINE S == {j \in Nat : j <= n => Begins(f[n - j].out, b)}
    <2>1. 0 \in S
      <3>1. n - 0 = n
        OBVIOUS
      <3> QED
        BY <1>6, <1>7, <3>1 DEF Begins
    <2>2. ASSUME NEW j \in Nat, j \in S PROVE j + 1 \in S
      <3> SUFFICES ASSUME j + 1 <= n PROVE Begins(f[n - (j + 1)].out, b)
        OBVIOUS
      <3>1. PICK k : k = n - (j + 1)
        OBVIOUS
      <3>2. k \in 0 .. n - 1 /\ k + 1 = n - j /\ j <= n
        BY <3>1
      <3>3. Begins(f[k].out, f[k + 1].out) /\ Begins(f[k + 1].out, b)
        BY <1>5, <2>2, <3>2
      <3> QED
        BY <3>1, <3>3, BeginsTrans
    <2> HIDE DEF S
    <2>3. Nat \subseteq S
      BY <2>1, <2>2, SetInduction
    <2> TAKE k \in 0 .. n
    <2>4. PICK j : j = n - k /\ j \in Nat /\ j <= n /\ n - j = k
      OBVIOUS
    <2>5. j \in S
      BY <2>3, <2>4
    <2> QED
      BY <2>4, <2>5 DEF S
  <1>9. PICK g : IsLoop(g, "decode", DecodeStart(buf), b, n) /\ DecodeRec43(buf, b) = g[n].out
    BY <1>1, DecodeLoop
  <1>10. g[0] = DecodeStart(buf) /\ \A k \in 0 .. n - 1 : g[k + 1] = DecodeRun(g[k], b)
    <2>1. g[0] = DecodeStart(buf) /\ \A k \in 0 .. n - 1 : g[k + 1] = Turn("decode", g[k], b, k + 1)
      BY <1>9, LoopIs
    <2>2. \A k \in 0 .. n - 1 : Turn("decode", g[k], b, k + 1) = DecodeRun(g[k], b)
      BY DEF Turn
    <2> QED
      BY <2>1, <2>2
  <1>11. ASSUME Len(b) < n PROVE DecodeRec43(buf, b) = cur
    <2> DEFINE S == {k \in Nat : k <= n => Known(g[k], n, cur, f[k].from, Len(f[k].out) + 1)}
    <2>1. 0 \in S
      <3>1. f[0].from = 0 /\ f[0].out = <<>> /\ Len(f[0].out) + 1 = 1
        BY <1>3 DEF EncodeStart
      <3>2. g[0] = [out |-> buf, p |-> 1, pos |-> 0]
        BY <1>10 DEF DecodeStart
      <3> QED
        BY <3>1, <3>2 DEF Known
    <2>2. ASSUME NEW k \in Nat, k \in S PROVE k + 1 \in S
      <3> SUFFICES ASSUME k + 1 <= n PROVE Known(g[k + 1], n, cur, f[k + 1].from, Len(f[k + 1].out) + 1)
        OBVIOUS
      <3>1. k \in 0 .. n - 1 /\ k \in 0 .. n /\ k + 1 \in 0 .. n /\ k <= n
        OBVIOUS
      <3>2. PICK st : st = f[k]
        OBVIOUS
      <3>3. f[k + 1] = EncodeRun(st, cur) /\ g[k + 1] = DecodeRun(g[k], b) /\ Encoding(st, n, k)
        BY <1>3, <1>4, <1>10, <3>1, <3>2
      <3>4. Begins(EncodeRun(st, cur).out, b)
        BY <1>8, <3>1, <3>3
      <3>5. Known(g[k], n, cur, st.from, Len(st.out) + 1)
        BY <2>2, <3>1, <3>2
      <3>6. Known(DecodeRun(g[k], b), n, cur, EncodeRun(st, cur).from, Len(EncodeRun(st, cur).out) + 1)
        BY <1>11, <3>3, <3>4, <3>5, InStep
      <3> QED
        BY <3>3, <3>6
    <2> HIDE DEF S
    <2>3. n \in S
      BY <2>1, <2>2, SetInduction
    <2>4. Known(g[n], n, cur, n, Len(f[n].out) + 1)
      BY <1>7, <2>3 DEF S
    <2>5. IsBuffer(g[n].out, n) /\ \A i \in 1 .. n : g[n].out[i] = cur[i]
      BY <2>4 DEF Known
    <2> QED
      BY <1>9, <2>5, SameBuffer
  <1> QED
    BY <1>2, <1>6, <1>7, <1>11

-----------------------------------------------------------------------------
(* A record is read as it was written.                                     *)

Readable(r, n, prev, cur) ==
    /\ r.next = 0 /\ Len(r.bytes) \in Nat /\ Len(r.bytes) <= n
    /\ r = [type |-> r.type, bytes |-> r.bytes, next |-> r.next]
    /\ Decode(r, prev) = cur

LEMMA ShorterIs ==
    ASSUME NEW n \in Nat, NEW prev, NEW cur, NEW type, NEW bytes, bytes \in Seq(Nat),
           Len(bytes) < n => Decode(Record(type, bytes), prev) = cur,
           NEW best, Readable(best, n, prev, cur)
    PROVE  Readable(Shorter(Record(type, bytes), best), n, prev, cur)
  <1>1. PICK e : e = Record(type, bytes)
    OBVIOUS
  <1>2. e = [type |-> e.type, bytes |-> e.bytes, next |-> e.next] /\ e.bytes = bytes /\ e.next = 0 /\ Len(e.bytes) \in Nat
    BY <1>1 DEF Record
  <1>3. CASE Len(e.bytes) < Full - 1 /\ Len(e.bytes) < Len(best.bytes)
    <2>1. Shorter(e, best) = e
      BY <1>3 DEF Shorter
    <2>2. Len(e.bytes) < n
      BY <1>2, <1>3 DEF Readable
    <2>3. Readable(e, n, prev, cur)
      BY <1>1, <1>2, <2>2 DEF Readable
    <2> QED
      BY <1>1, <2>1, <2>3
  <1>4. CASE ~ (Len(e.bytes) < Full - 1 /\ Len(e.bytes) < Len(best.bytes))
    <2>1. Shorter(e, best) = best
      BY <1>4 DEF Shorter
    <2> QED
      BY <1>1, <2>1
  <1> QED
    BY <1>3, <1>4

LEMMA DecodeIs ==
    ASSUME NEW b, NEW buf
    PROVE  /\ Decode(Record("41", b), buf) = DecodeRec41(buf, b)
           /\ Decode(Record("43", b), buf) = DecodeRec43(buf, b)
           /\ Decode(Record("44", b), buf) = DecodeRec44(buf, b)
           /\ Decode(Record("46", b), buf) = buf
           /\ Decode(Record("47", b), buf) = b
  BY DEF Decode, Record, DecodeRec47

LEMMA EncodeRecReadable ==
    ASSUME NEW n \in Nat, n # 0, n <= Full, NEW cur, IsBuffer(cur, n), NEW prev, IsBuffer(prev, n),
           NEW isFirst \in BOOLEAN
    PROVE  Readable(EncodeRec(cur, prev, isFirst), n, prev, cur)
  <1>1. cur \in Seq(Nat) /\ Len(cur) = n
    BY DEF IsBuffer
  <1>2. PICK r47 : r47 = Record("47", cur)
    OBVIOUS
  <1>3. Readable(r47, n, prev, cur)
    <2>1. r47 = [type |-> r47.type, bytes |-> r47.bytes, next |-> r47.next] /\ r47.bytes = cur /\ r47.next = 0
      BY <1>2 DEF Record
    <2>2. Decode(r47, prev) = cur
      BY <1>2, DecodeIs
    <2> QED
      BY <1>1, <2>1, <2>2 DEF Readable
  <1>4. PICK r41 : r41 = IF isFirst THEN r47 ELSE Shorter(Record("41", EncodeRec41(cur, prev)), r47)
    OBVIOUS
  <1>5. Readable(r41, n, prev, cur)
    <2>1. PICK b : b = EncodeRec41(cur, prev)
      OBVIOUS
    <2>2. b \in Seq(Nat) /\ DecodeRec41(prev, b) = cur
      BY <2>1, Rec41
    <2>3. Len(b) < n => Decode(Record("41", b), prev) = cur
      BY <2>2, DecodeIs
    <2>4. Readable(Shorter(Record("41", b), r47), n, prev, cur)
      BY <1>3, <2>2, <2>3, ShorterIs
    <2> QED
      BY <1>3, <1>4, <2>1, <2>4
  <1>6. PICK r43 : r43 = Shorter(Record("43", EncodeRec43(cur)), r41)
    OBVIOUS
  <1>7. Readable(r43, n, prev, cur)
    <2>1. PICK b : b = EncodeRec43(cur)
      OBVIOUS
    <2>2. b \in Seq(Nat) /\ (Len(b) < n => DecodeRec43(prev, b) = cur)
      BY <2>1, Rec43
    <2>3. Len(b) < n => Decode(Record("43", b), prev) = cur
      BY <2>2, DecodeIs
    <2>4. Readable(Shorter(Record("43", b), r41), n, prev, cur)
      BY <1>5, <2>2, <2>3, ShorterIs
    <2> QED
      BY <1>6, <2>1, <2>4
  <1>8. PICK r44 : r44 = Shorter(Record("44", EncodeRec44(cur, prev)), r43)
    OBVIOUS
  <1>9. Readable(r44, n, prev, cur)
    <2>1. PICK b : b = EncodeRec44(cur, prev)
      OBVIOUS
    <2>2. b \in Seq(Nat) /\ (Len(b) < n => DecodeRec44(prev, b) = cur)
      BY <2>1, Rec44
    <2>3. Len(b) < n => Decode(Record("44", b), prev) = cur
      BY <2>2, DecodeIs
    <2>4. Readable(Shorter(Record("44", b), r43), n, prev, cur)
      BY <1>7, <2>2, <2>3, ShorterIs
    <2> QED
      BY <1>8, <2>1, <2>4
  <1>10. EncodeRec(cur, prev, isFirst) = IF isFirst THEN r43 ELSE r44
    BY <1>2, <1>4, <1>6, <1>8, Zenon DEF EncodeRec
  <1> QED
    BY <1>7, <1>9, <1>10

LEMMA RecordReadable ==
    ASSUME NEW n \in Nat, n # 0, n <= Full, NEW cur, IsBuffer(cur, n), NEW prev, IsBuffer(prev, n),
           NEW isFirst \in BOOLEAN
    PROVE  Readable(IF ~isFirst /\ cur = prev THEN EncodeRec46 ELSE EncodeRec(cur, prev, isFirst), n, prev, cur)
  <1>1. CASE ~isFirst /\ cur = prev
    <2>1. PICK r : r = EncodeRec46
      OBVIOUS
    <2>2. r = [type |-> r.type, bytes |-> r.bytes, next |-> r.next] /\ r.bytes = <<>> /\ r.next = 0 /\ Len(r.bytes) = 0
      BY <2>1 DEF EncodeRec46, Record
    <2>3. Decode(r, prev) = prev
      BY <2>1, DecodeIs DEF EncodeRec46
    <2>4. Readable(r, n, prev, cur)
      BY <1>1, <2>2, <2>3 DEF Readable
    <2> QED
      BY <1>1, <2>1, <2>4
  <1>2. CASE ~ (~isFirst /\ cur = prev)
    BY <1>2, EncodeRecReadable
  <1> QED
    BY <1>1, <1>2

-----------------------------------------------------------------------------
(* One more record of a pass, one more pass of a file.                     *)

IsList(s) == \E S : s \in Seq(S)

LEMMA Appended ==
    ASSUME NEW s, IsList(s), NEW r
    PROVE  /\ IsList(Append(s, r)) /\ Len(s) \in Nat /\ Len(Append(s, r)) = Len(s) + 1
           /\ Append(s, r)[Len(s) + 1] = r /\ \A i \in 1 .. Len(s) : Append(s, r)[i] = s[i]
  <1>1. PICK S : s \in Seq(S)
    BY DEF IsList
  <1>2. PICK T : T = S \cup {r}
    OBVIOUS
  <1>3. s \in Seq(T) /\ r \in T
    BY <1>1, <1>2
  <1>4. Append(s, r) \in Seq(T)
    BY <1>3
  <1> QED
    BY <1>3, <1>4 DEF IsList

LEMMA OneMoreRecord ==
    ASSUME NEW st, NEW recs, IsList(recs), NEW r
    PROVE  LoadRecords(st, Append(recs, r)) = LoadRecord(LoadRecords(st, recs), r)
  <1>1. PICK n, more : n = Len(recs) /\ more = Append(recs, r)
    OBVIOUS
  <1>2. n \in Nat /\ Len(more) = n + 1 /\ more[n + 1] = r /\ \A i \in 1 .. n : more[i] = recs[i]
    BY <1>1, Appended
  <1>3. PICK f : IsLoop(f, "records", st, recs, n) /\ LoadRecords(st, recs) = f[n]
    BY <1>1, <1>2, RecordsLoop
  <1>4. PICK g : IsLoop(g, "records", st, more, n + 1) /\ LoadRecords(st, more) = g[n + 1]
    <2>1. Len(more) \in Nat
      BY <1>2
    <2> QED
      BY <1>2, <2>1, RecordsLoop
  <1>5. \A k \in 1 .. n : \A v : Turn("records", v, more, k) = Turn("records", v, recs, k)
    BY <1>2 DEF Turn
  <1>6. PICK m : m = n + 1 /\ m \in Nat /\ n <= m
    BY <1>2
  <1>7. f[n] = g[n]
    BY <1>2, <1>3, <1>4, <1>5, <1>6, LoopUnique
  <1>8. g[n + 1] = LoadRecord(g[n], r)
    <2>1. n \in 0 .. m - 1
      BY <1>2, <1>6
    <2>2. g[n + 1] = Turn("records", g[n], more, n + 1)
      BY <1>4, <1>6, <2>1, LoopIs
    <2> QED
      BY <1>2, <2>2 DEF Turn
  <1> QED
    BY <1>1, <1>3, <1>4, <1>7, <1>8

LEMMA OneMorePass ==
    ASSUME NEW st, NEW file, IsList(file), NEW pass
    PROVE  Load(st, Append(file, pass)) = LoadPass(Load(st, file), pass)
  <1>1. PICK n, more : n = Len(file) /\ more = Append(file, pass)
    OBVIOUS
  <1>2. n \in Nat /\ Len(more) = n + 1 /\ more[n + 1] = pass /\ \A i \in 1 .. n : more[i] = file[i]
    BY <1>1, Appended
  <1>3. PICK f : IsLoop(f, "passes", st, file, n) /\ Load(st, file) = f[n]
    BY <1>1, <1>2, PassesLoop
  <1>4. PICK g : IsLoop(g, "passes", st, more, n + 1) /\ Load(st, more) = g[n + 1]
    <2>1. Len(more) \in Nat
      BY <1>2
    <2> QED
      BY <1>2, <2>1, PassesLoop
  <1>5. \A k \in 1 .. n : \A v : Turn("passes", v, more, k) = Turn("passes", v, file, k)
    BY <1>2 DEF Turn
  <1>6. PICK m : m = n + 1 /\ m \in Nat /\ n <= m
    BY <1>2
  <1>7. f[n] = g[n]
    BY <1>2, <1>3, <1>4, <1>5, <1>6, LoopUnique
  <1>8. g[n + 1] = LoadPass(g[n], pass)
    <2>1. n \in 0 .. m - 1
      BY <1>2, <1>6
    <2>2. g[n + 1] = Turn("passes", g[n], more, n + 1)
      BY <1>4, <1>6, <2>1, LoopIs
    <2> QED
      BY <1>2, <2>2 DEF Turn
  <1> QED
    BY <1>1, <1>3, <1>4, <1>7, <1>8

LEMMA NothingMore ==
    ASSUME NEW st
    PROVE  LoadRecords(st, <<>>) = st /\ Load(st, <<>>) = st
  <1>1. Len(<<>>) = 0 /\ 0 \in Nat
    OBVIOUS
  <1>2. PICK f : IsLoop(f, "records", st, <<>>, 0) /\ LoadRecords(st, <<>>) = f[0]
    BY <1>1, RecordsLoop
  <1>3. PICK g : IsLoop(g, "passes", st, <<>>, 0) /\ Load(st, <<>>) = g[0]
    BY <1>1, PassesLoop
  <1>4. f[0] = st /\ g[0] = st
    BY <1>2, <1>3 DEF IsLoop
  <1> QED
    BY <1>2, <1>3, <1>4

\* A gap is noted in the record before it: the sectors are the same, the next is another.
Noted(recs, num) == [recs EXCEPT ![Len(recs)].next = num]
IsRecord(r) == r = [type |-> r.type, bytes |-> r.bytes, next |-> r.next]
IsLoading(st) == st = [buf |-> st.buf, sector |-> st.sector, ended |-> st.ended, data |-> st.data]

LEMMA GapNoted ==
    ASSUME NEW st, NEW recs, IsList(recs), Len(recs) # 0, NEW num \in Nat, num # 0,
           IsRecord(recs[Len(recs)]), IsLoading(LoadRecords(st, recs))
    PROVE  /\ IsList(Noted(recs, num))
           /\ LoadRecords(st, Noted(recs, num)) = [LoadRecords(st, recs) EXCEPT !.sector = num]
  <1>1. PICK S : recs \in Seq(S)
    BY DEF IsList
  <1>2. PICK m : m = Len(recs) /\ m \in Nat /\ m # 0
    BY <1>1
  <1>3. PICK n : n = m - 1 /\ n \in Nat /\ n + 1 = m /\ n <= m
    BY <1>2
  <1>4. PICK last, new, noted : last = recs[m] /\ new = [last EXCEPT !.next = num] /\ noted = Noted(recs, num)
    OBVIOUS
  <1>5. noted = [recs EXCEPT ![m] = new]
    BY <1>2, <1>4 DEF Noted
  <1>6. noted \in Seq(S \cup {new}) /\ Len(noted) = m /\ noted[m] = new /\ \A i \in 1 .. n : noted[i] = recs[i]
    BY <1>1, <1>2, <1>3, <1>5
  <1>7. PICK f : IsLoop(f, "records", st, recs, m) /\ LoadRecords(st, recs) = f[m]
    BY <1>2, RecordsLoop
  <1>8. PICK g : IsLoop(g, "records", st, noted, m) /\ LoadRecords(st, noted) = g[m]
    <2>1. Len(noted) \in Nat
      BY <1>2, <1>6
    <2> QED
      BY <1>6, <2>1, RecordsLoop
  <1>9. \A k \in 1 .. n : \A v : Turn("records", v, noted, k) = Turn("records", v, recs, k)
    BY <1>6 DEF Turn
  <1>10. PICK h : IsLoop(h, "records", st, recs, n)
    BY <1>3, LoopExists
  <1>11. g[n] = h[n] /\ f[n] = h[n]
    <2>1. h[n] = f[n]
      BY <1>2, <1>3, <1>7, <1>10, LoopUnique
    <2>2. h[n] = g[n]
      <3>1. \A k \in 1 .. n : \A v : Turn("records", v, recs, k) = Turn("records", v, noted, k)
        BY <1>9
      <3>2. \A k \in 1 .. n : \A v : Turn("records", v, noted, k) = Turn("records", v, recs, k)
        BY <1>9
      <3> QED
        BY <1>2, <1>3, <1>8, <1>10, <3>1, <3>2, LoopUnique
    <2> QED
      BY <2>1, <2>2
  <1>12. f[m] = LoadRecord(f[n], last) /\ g[m] = LoadRecord(f[n], new)
    <2>1. f[m] = Turn("records", f[n], recs, m)
      BY <1>2, <1>3, <1>7, LoopLast
    <2>2. g[m] = Turn("records", g[n], noted, m)
      BY <1>2, <1>3, <1>8, LoopLast
    <2>3. Turn("records", f[n], recs, m) = LoadRecord(f[n], last)
      BY <1>4 DEF Turn
    <2>4. Turn("records", g[n], noted, m) = LoadRecord(f[n], new)
      BY <1>6, <1>11 DEF Turn
    <2> QED
      BY <2>1, <2>2, <2>3, <2>4
  <1>13. new.next = num /\ Decode(new, f[n].buf) = Decode(last, f[n].buf)
    BY <1>2, <1>4 DEF Decode, IsRecord
  <1>14. LoadRecord(f[n], new) = [LoadRecord(f[n], last) EXCEPT !.sector = num]
    BY <1>13 DEF LoadRecord
  <1> QED
    BY <1>4, <1>6, <1>7, <1>8, <1>12, <1>14 DEF IsList

-----------------------------------------------------------------------------
(* What the loader would have read of what Save has written.               *)

\* An image of N sectors of n bytes, the first one padded.
IsImage(image, N, n) ==
    /\ image.size = n /\ Len(image.data) = N /\ image.data = [s \in 1 .. N |-> image.data[s]]
    /\ \A s \in 1 .. N : IsBuffer(image.data[s], n)
    /\ \A i \in 1 .. n : 1 <= N /\ Full \div 2 < i => image.data[1][i] = 0

Upto(image, N, n, num) == [s \in 1 .. N |-> IF s < num THEN image.data[s] ELSE Zeros(n)]

Reading(buf, sector, ended, data) == [buf |-> buf, sector |-> sector, ended |-> ended, data |-> data]

LEMMA SectorRead ==
    ASSUME NEW n \in Nat, NEW N \in Nat, NEW image, IsImage(image, N, n), NEW num \in 1 .. N,
           NEW prev, NEW ended, NEW r, Readable(r, n, prev, image.data[num])
    PROVE  LoadRecord(Reading(prev, num, ended, Upto(image, N, n, num)), r)
             = Reading(image.data[num], num + 1, ended, Upto(image, N, n, num + 1))
  <1>1. PICK cur : cur = image.data[num]
    OBVIOUS
  <1>2. IsBuffer(cur, n) /\ Decode(r, prev) = cur /\ r.next = 0
    BY <1>1 DEF IsImage, Readable
  <1>3. DOMAIN cur = 1 .. n /\ Len(cur) = n /\ cur = [i \in 1 .. n |-> cur[i]]
    BY <1>2 DEF IsBuffer
  <1>4. PICK len : len = IF num = 1 THEN Full \div 2 ELSE n
    OBVIOUS
  <1>5. [i \in DOMAIN cur |-> IF i <= len THEN cur[i] ELSE 0] = cur
    <2>1. \A i \in 1 .. n : (IF i <= len THEN cur[i] ELSE 0) = cur[i]
      <3> TAKE i \in 1 .. n
      <3>1. CASE i <= len
        BY <3>1
      <3>2. CASE ~ (i <= len)
        <4>1. Full \div 2 \in Nat
          BY CodecAssumption
        <4>2. num = 1 /\ Full \div 2 < i
          BY <1>4, <3>2, <4>1
        <4>3. cur[i] = 0
          BY <1>1, <4>2 DEF IsImage
        <4> QED
          BY <3>2, <4>3
      <3> QED
        BY <3>1, <3>2
    <2> QED
      BY <1>3, <2>1
  <1>6. PICK d, st : d = Upto(image, N, n, num) /\ st = Reading(prev, num, ended, d)
    OBVIOUS
  <1>7. st.buf = prev /\ st.sector = num /\ st.ended = ended /\ st.data = d
        /\ st = [buf |-> prev, sector |-> num, ended |-> ended, data |-> d]
    BY <1>6 DEF Reading
  <1>8. PICK v : v = [i \in DOMAIN cur |-> IF i <= len THEN cur[i] ELSE 0]
    OBVIOUS
  <1>9. LoadRecord(st, r) = [st EXCEPT !.buf = cur, !.data[num] = v, !.sector = num + 1]
    <2>1. len = IF st.sector = 1 THEN Full \div 2 ELSE Len(cur)
      BY <1>3, <1>4, <1>7
    <2>2. LoadRecord(st, r)
            = [st EXCEPT !.buf = cur,
                         !.data[st.sector] = [i \in DOMAIN cur |-> IF i <= len THEN cur[i] ELSE 0],
                         !.sector = IF r.next = 0 THEN @ + 1 ELSE r.next]
      BY <1>2, <1>7, <2>1, Zenon DEF LoadRecord
    <2> QED
      BY <1>2, <1>7, <1>8, <2>2
  <1>10. LoadRecord(st, r) = [buf |-> cur, sector |-> num + 1, ended |-> ended, data |-> [d EXCEPT ![num] = cur]]
    BY <1>5, <1>7, <1>8, <1>9
  <1>11. [d EXCEPT ![num] = cur] = Upto(image, N, n, num + 1)
    <2>1. PICK z : z = Zeros(n)
      OBVIOUS
    <2>2. d = [s \in 1 .. N |-> IF s < num THEN image.data[s] ELSE z]
      BY <1>6, <2>1 DEF Upto
    <2>3. Upto(image, N, n, num + 1) = [s \in 1 .. N |-> IF s < num + 1 THEN image.data[s] ELSE z]
      BY <2>1 DEF Upto
    <2>4. \A s \in 1 .. N : (s < num + 1) <=> (s < num \/ s = num)
      OBVIOUS
    <2> QED
      BY <1>1, <2>2, <2>3, <2>4
  <1> QED
    BY <1>1, <1>6, <1>10, <1>11 DEF Reading

\* A sector that is left out.
LEMMA SectorSkipped ==
    ASSUME NEW n \in Nat, NEW N \in Nat, NEW image, IsImage(image, N, n), NEW num \in 1 .. N, Empty(image.data[num])
    PROVE  Upto(image, N, n, num + 1) = Upto(image, N, n, num)
  <1>1. PICK z : z = Zeros(n)
    OBVIOUS
  <1>2. image.data[num] = z
    BY <1>1 DEF IsImage, IsBuffer, Empty
  <1>3. /\ Upto(image, N, n, num) = [s \in 1 .. N |-> IF s < num THEN image.data[s] ELSE z]
        /\ Upto(image, N, n, num + 1) = [s \in 1 .. N |-> IF s < num + 1 THEN image.data[s] ELSE z]
    BY <1>1 DEF Upto
  <1>4. \A s \in 1 .. N : (s < num + 1) <=> (s < num \/ s = num)
    OBVIOUS
  <1>5. \A s \in 1 .. N : (IF s < num + 1 THEN image.data[s] ELSE z) = (IF s < num THEN image.data[s] ELSE z)
    BY <1>2, <1>4
  <1> QED
    BY <1>3, <1>5

\* After k turns.
Saving(st, N, n, k) ==
    /\ st = [sec |-> st.sec, passes |-> st.passes, first |-> st.first, prevSec |-> st.prevSec,
             prev |-> st.prev, recs |-> st.recs, len |-> st.len]
    /\ st.sec \in 1 .. N + 1 /\ st.first \in 0 .. N /\ IsBuffer(st.prev, n) /\ st.len \in Nat
    /\ IsList(st.passes) /\ IsList(st.recs)
    /\ st.sec <= N => k <= 2 * (st.sec - 1) + (IF st.len >= PassLimit THEN 0 ELSE 1)

\* The passes that are closed, and the one that is open, if one is.  Its first record
\* says all of the sector, whatever the buffer, j at the start, holds.
SavedPasses(st, N, j) == Load(LoadStart(j, N), st.passes)
Opened(base, first, ended) == Reading(base.buf, first, ended, base.data)

LEMMA OpenedIs ==
    ASSUME NEW base, IsLoading(base), NEW pass, NEW first, NEW ended, pass.first = first, pass.last = ended
    PROVE  DecodeRecFA(base, pass) = Opened(base, first, ended)
  <1>1. PICK b, d, s, e : base = [buf |-> b, sector |-> s, ended |-> e, data |-> d] /\ b = base.buf /\ d = base.data
    BY DEF IsLoading
  <1>2. DecodeRecFA(base, pass) = [base EXCEPT !.sector = first, !.ended = ended]
    BY DEF DecodeRecFA
  <1>3. [base EXCEPT !.sector = first, !.ended = ended] = [buf |-> b, sector |-> first, ended |-> ended, data |-> d]
    <2>1. PICK t : t = [buf |-> b, sector |-> first, ended |-> e, data |-> d]
      OBVIOUS
    <2>2. t = [base EXCEPT !.sector = first]
      BY <1>1, <2>1
    <2>3. [t EXCEPT !.ended = ended] = [buf |-> b, sector |-> first, ended |-> ended, data |-> d]
      BY <2>1
    <2> QED
      BY <2>2, <2>3, Zenon
  <1> QED
    BY <1>1, <1>2, <1>3 DEF Opened, Reading

PassesRead(st, image, N, n, j) ==
    /\ IsLoading(SavedPasses(st, N, j)) /\ SavedPasses(st, N, j).ended = FALSE
    /\ IsBuffer(SavedPasses(st, N, j).buf, n)
    /\ st.first = 0 => /\ st.recs = <<>> /\ st.len = 4
                       /\ SavedPasses(st, N, j).data = Upto(image, N, n, st.sec)
RecordsRead(st, image, N, n, j) ==
    st.first # 0 => /\ st.prevSec \in 1 .. st.sec - 1 /\ Len(st.recs) # 0
                    /\ IsRecord(st.recs[Len(st.recs)]) /\ st.recs[Len(st.recs)].next = 0
                    /\ \A ended \in BOOLEAN :
                          LoadRecords(Opened(SavedPasses(st, N, j), st.first, ended), st.recs)
                            = Reading(st.prev, st.prevSec + 1, ended, Upto(image, N, n, st.sec))

SaveInv(st, image, N, n, k, j) ==
    Saving(st, N, n, k) /\ PassesRead(st, image, N, n, j) /\ RecordsRead(st, image, N, n, j)

\* The end of a pass.
LEMMA PassClosed ==
    ASSUME NEW n, NEW N, NEW image, NEW j, NEW k, NEW st, SaveInv(st, image, N, n, k, j), NEW last \in BOOLEAN
    PROVE  /\ IsList(ClosePass(st, last).passes)
           /\ \E z, b : /\ IsBuffer(b, n)
                        /\ Load(LoadStart(j, N), ClosePass(st, last).passes)
                             = Reading(b, z, last, Upto(image, N, n, st.sec))
  <1>1. PICK base, pass, passes : /\ base = SavedPasses(st, N, j) /\ pass = EncodeRecFA(last, st.first, st.recs)
                                  /\ passes = Append(st.passes, pass)
    OBVIOUS
  <1>2. pass.last = last /\ pass.first = st.first /\ pass.recs = st.recs
    BY <1>1 DEF EncodeRecFA
  <1>3. IsList(st.passes) /\ IsLoading(base) /\ base.ended = FALSE
    BY <1>1 DEF SaveInv, Saving, PassesRead
  <1>4. ClosePass(st, last).passes = passes
    <2>1. st = [sec |-> st.sec, passes |-> st.passes, first |-> st.first, prevSec |-> st.prevSec,
                prev |-> st.prev, recs |-> st.recs, len |-> st.len]
      BY DEF SaveInv, Saving
    <2> QED
      BY <1>1, <2>1 DEF ClosePass
  <1>5. IsList(passes)
    BY <1>1, <1>3, Appended
  <1>6. Load(LoadStart(j, N), passes) = LoadPass(base, pass)
    BY <1>1, <1>3, OneMorePass DEF SavedPasses
  <1>7. LoadPass(base, pass) = LoadRecords(Opened(base, st.first, last), st.recs)
    <2>1. LoadPass(base, pass) = LoadRecords(DecodeRecFA(base, pass), pass.recs)
      BY <1>3 DEF LoadPass
    <2>2. DecodeRecFA(base, pass) = Opened(base, st.first, last)
      BY <1>2, <1>3, OpenedIs
    <2> QED
      BY <1>2, <2>1, <2>2
  <1>8. CASE st.first = 0
    <2>1. st.recs = <<>> /\ IsBuffer(base.buf, n) /\ base.data = Upto(image, N, n, st.sec)
      BY <1>1, <1>8 DEF SaveInv, PassesRead
    <2>2. LoadRecords(Opened(base, st.first, last), st.recs) = Opened(base, st.first, last)
      BY <2>1, NothingMore
    <2> QED
      BY <1>4, <1>5, <1>6, <1>7, <2>1, <2>2 DEF Opened
  <1>9. CASE st.first # 0
    <2>1. LoadRecords(Opened(base, st.first, last), st.recs)
            = Reading(st.prev, st.prevSec + 1, last, Upto(image, N, n, st.sec))
      BY <1>1, <1>9 DEF SaveInv, RecordsRead
    <2>2. IsBuffer(st.prev, n)
      BY DEF SaveInv, Saving
    <2> QED
      BY <1>4, <1>5, <1>6, <1>7, <2>1, <2>2
  <1> QED
    BY <1>8, <1>9

\* The turns of Save.
IsSaving(st) ==
    st = [sec |-> st.sec, passes |-> st.passes, first |-> st.first, prevSec |-> st.prevSec,
          prev |-> st.prev, recs |-> st.recs, len |-> st.len]

LEMMA TurnClosesPass ==
    ASSUME NEW n \in Nat, NEW N \in Nat, NEW image, NEW j, NEW k \in Nat, NEW st, SaveInv(st, image, N, n, k, j),
           st.sec <= N, st.len >= PassLimit
    PROVE  SaveInv(ClosePass(st, FALSE), image, N, n, k + 1, j)
  <1>1. /\ IsSaving(st) /\ st.sec \in 1 .. N + 1 /\ IsBuffer(st.prev, n)
        /\ k <= 2 * (st.sec - 1)
    BY CodecAssumption DEF SaveInv, Saving, IsSaving
  <1>2. PICK t : t = ClosePass(st, FALSE)
    OBVIOUS
  <1>3. /\ IsSaving(t) /\ t.sec = st.sec /\ t.first = 0 /\ t.prev = st.prev /\ t.recs = <<>> /\ t.len = 4
    BY <1>1, <1>2 DEF ClosePass, IsSaving
  <1>4. /\ IsList(t.passes)
        /\ \E z, b : IsBuffer(b, n) /\ SavedPasses(t, N, j) = Reading(b, z, FALSE, Upto(image, N, n, st.sec))
    <2>1. PICK last \in BOOLEAN : last = FALSE
      OBVIOUS
    <2>2. /\ IsList(ClosePass(st, last).passes)
          /\ \E z, b : /\ IsBuffer(b, n)
                       /\ Load(LoadStart(j, N), ClosePass(st, last).passes)
                            = Reading(b, z, last, Upto(image, N, n, st.sec))
      BY PassClosed
    <2> QED
      BY <1>2, <2>1, <2>2, Zenon DEF SavedPasses
  <1>5. IsList(t.recs)
    <2>1. <<>> \in Seq(Nat)
      OBVIOUS
    <2> QED
      BY <1>3, <2>1 DEF IsList
  <1>6. k + 1 <= 2 * (t.sec - 1) + 1 /\ ~ (t.len >= PassLimit)
    BY <1>1, <1>3, CodecAssumption
  <1>7. Saving(t, N, n, k + 1)
    BY <1>1, <1>3, <1>4, <1>5, <1>6 DEF Saving, IsSaving
  <1>8. PassesRead(t, image, N, n, j)
    <2>1. PICK z, b : IsBuffer(b, n) /\ SavedPasses(t, N, j) = Reading(b, z, FALSE, Upto(image, N, n, st.sec))
      BY <1>4
    <2>2. PICK base : base = SavedPasses(t, N, j)
      OBVIOUS
    <2>3. IsLoading(base) /\ base.ended = FALSE /\ IsBuffer(base.buf, n) /\ base.data = Upto(image, N, n, st.sec)
      BY <2>1, <2>2 DEF Reading, IsLoading
    <2> QED
      BY <1>3, <2>2, <2>3 DEF PassesRead
  <1>9. RecordsRead(t, image, N, n, j)
    BY <1>3 DEF RecordsRead
  <1> QED
    BY <1>2, <1>7, <1>8, <1>9 DEF SaveInv

LEMMA TurnSkips ==
    ASSUME NEW n \in Nat, NEW N \in Nat, NEW image, IsImage(image, N, n), NEW j, NEW k \in Nat,
           NEW st, SaveInv(st, image, N, n, k, j), st.sec <= N, Empty(image.data[st.sec])
    PROVE  SaveInv([st EXCEPT !.sec = @ + 1], image, N, n, k + 1, j)
  <1>1. PICK num : num = st.sec
    OBVIOUS
  <1>2. PICK t : t = [st EXCEPT !.sec = @ + 1]
    OBVIOUS
  <1>3. IsSaving(st) /\ num \in 1 .. N /\ k <= 2 * (num - 1) + (IF st.len >= PassLimit THEN 0 ELSE 1)
    BY <1>1 DEF SaveInv, Saving, IsSaving
  <1>4. /\ IsSaving(t) /\ t.sec = num + 1 /\ t.first = st.first /\ t.prev = st.prev /\ t.prevSec = st.prevSec
        /\ t.recs = st.recs /\ t.passes = st.passes /\ t.len = st.len
    BY <1>1, <1>2, <1>3 DEF IsSaving
  <1>5. k + 1 <= 2 * (t.sec - 1) + (IF t.len >= PassLimit THEN 0 ELSE 1)
    BY <1>3, <1>4
  <1>6. Saving(t, N, n, k + 1)
    BY <1>1, <1>3, <1>4, <1>5 DEF SaveInv, Saving, IsSaving
  <1>7. Upto(image, N, n, t.sec) = Upto(image, N, n, num)
    BY <1>1, <1>3, <1>4, SectorSkipped
  <1>8. SavedPasses(t, N, j) = SavedPasses(st, N, j)
    BY <1>4 DEF SavedPasses
  <1>9. PassesRead(t, image, N, n, j)
    BY <1>1, <1>4, <1>7, <1>8 DEF SaveInv, PassesRead
  <1>10. RecordsRead(t, image, N, n, j)
    <2> SUFFICES ASSUME t.first # 0 PROVE RecordsRead(t, image, N, n, j)
      BY DEF RecordsRead
    <2>1. /\ st.prevSec \in 1 .. num - 1 /\ Len(st.recs) # 0
          /\ IsRecord(st.recs[Len(st.recs)]) /\ st.recs[Len(st.recs)].next = 0
          /\ \A ended \in BOOLEAN :
                LoadRecords(Opened(SavedPasses(st, N, j), st.first, ended), st.recs)
                  = Reading(st.prev, st.prevSec + 1, ended, Upto(image, N, n, num))
      BY <1>1, <1>4 DEF SaveInv, RecordsRead
    <2>2. t.prevSec \in 1 .. t.sec - 1
      BY <1>3, <1>4, <2>1
    <2> QED
      BY <1>4, <1>7, <1>8, <2>1, <2>2, Zenon DEF RecordsRead
  <1> QED
    BY <1>2, <1>6, <1>9, <1>10 DEF SaveInv

\* The record of a sector, after the records of the pass, in the last of which a gap is
\* noted.
LEMMA TurnSaves ==
    ASSUME NEW n \in Nat, n # 0, n <= Full, NEW N \in Nat, NEW image, IsImage(image, N, n), NEW j, NEW k \in Nat,
           NEW st, SaveInv(st, image, N, n, k, j), st.sec <= N
    PROVE  SaveInv(SaveSector(st, image.data[st.sec]), image, N, n, k + 1, j)
  <1>1. PICK num, cur : num = st.sec /\ cur = image.data[num]
    OBVIOUS
  <1>2. PICK first, gap : first = (st.first = 0) /\ gap = (~first /\ num - st.prevSec > 1)
    OBVIOUS
  <1>3. /\ first \in BOOLEAN /\ gap \in BOOLEAN
        /\ (first <=> st.first = 0) /\ (gap <=> ~first /\ num - st.prevSec > 1)
    BY <1>2, Zenon
  <1>4. PICK r : r = IF ~first /\ cur = st.prev THEN EncodeRec46 ELSE EncodeRec(cur, st.prev, first)
    OBVIOUS
  <1>5. PICK recs : recs = IF gap THEN Noted(st.recs, num) ELSE st.recs
    OBVIOUS
  <1>6. PICK t : t = SaveSector(st, cur)
    OBVIOUS
  <1>7. t = [st EXCEPT !.first = IF first THEN st.sec ELSE @, !.prevSec = st.sec, !.prev = cur,
                       !.sec = @ + 1, !.recs = Append(recs, r),
                       !.len = @ + RecordLen(r) + (IF gap THEN 2 ELSE 0)]
    BY <1>1, <1>2, <1>4, <1>5, <1>6, Zenon DEF SaveSector, Noted
  <1>8. IsSaving(st) /\ num \in 1 .. N /\ k <= 2 * (num - 1) + (IF st.len >= PassLimit THEN 0 ELSE 1)
        /\ IsBuffer(st.prev, n) /\ st.len \in Nat /\ IsList(st.recs) /\ IsList(st.passes) /\ st.first \in 0 .. N
    BY <1>1 DEF SaveInv, Saving, IsSaving
  <1>9. /\ IsSaving(t) /\ t.sec = num + 1 /\ t.prevSec = num /\ t.prev = cur /\ t.recs = Append(recs, r)
        /\ t.passes = st.passes /\ t.first = (IF first THEN num ELSE st.first)
        /\ t.len = st.len + RecordLen(r) + (IF gap THEN 2 ELSE 0)
    BY <1>1, <1>7, <1>8 DEF IsSaving
  <1>10. IsBuffer(cur, n)
    BY <1>1, <1>8 DEF IsImage
  <1>12. PICK base : base = SavedPasses(st, N, j)
    OBVIOUS
  <1>21. PICK buf : buf = IF first THEN base.buf ELSE st.prev
    OBVIOUS
  <1>11. Readable(r, n, buf, cur)
    <2>1. IsBuffer(buf, n)
      BY <1>8, <1>12, <1>21 DEF SaveInv, PassesRead
    <2>2. r = IF ~first /\ cur = buf THEN EncodeRec46 ELSE EncodeRec(cur, buf, first)
      <3>1. CASE first
        <4>1. EncodeRec(cur, st.prev, first) = EncodeRec(cur, buf, first)
          BY <3>1, Zenon DEF EncodeRec
        <4> QED
          BY <1>4, <3>1, <4>1
      <3>2. CASE ~ first
        BY <1>4, <1>21, <3>2
      <3> QED
        BY <3>1, <3>2
    <2> QED
      BY <1>3, <1>10, <2>1, <2>2, RecordReadable
  <1>13. t.first # 0 /\ t.first \in 0 .. N
    <2>1. CASE first
      BY <1>8, <1>9, <2>1
    <2>2. CASE ~ first
      BY <1>3, <1>8, <1>9, <2>2
    <2> QED
      BY <2>1, <2>2
  <1>14. /\ IsList(recs)
         /\ \A ended \in BOOLEAN :
               LoadRecords(Opened(base, t.first, ended), recs) = Reading(buf, num, ended, Upto(image, N, n, num))
    <2>1. CASE first
      <3>1. st.first = 0 /\ ~ gap /\ recs = st.recs /\ t.first = num
        BY <1>3, <1>5, <1>9, <2>1
      <3>2. recs = <<>> /\ base.buf = buf /\ base.data = Upto(image, N, n, num)
        BY <1>1, <1>12, <1>21, <2>1, <3>1 DEF SaveInv, PassesRead
      <3>3. \A ended \in BOOLEAN : LoadRecords(Opened(base, t.first, ended), recs) = Opened(base, t.first, ended)
        BY <3>2, NothingMore
      <3> QED
        BY <1>8, <3>1, <3>2, <3>3 DEF Opened
    <2>2. CASE ~ first
      <3>1. st.first # 0 /\ t.first = st.first /\ buf = st.prev
        BY <1>3, <1>9, <1>21, <2>2
      <3>2. /\ st.prevSec \in 1 .. num - 1 /\ Len(st.recs) # 0 /\ IsRecord(st.recs[Len(st.recs)])
            /\ \A ended \in BOOLEAN :
                  LoadRecords(Opened(base, t.first, ended), st.recs)
                    = Reading(buf, st.prevSec + 1, ended, Upto(image, N, n, num))
        BY <1>1, <1>12, <3>1 DEF SaveInv, RecordsRead
      <3>3. CASE ~ gap
        <4>1. st.prevSec + 1 = num /\ recs = st.recs
          <5>1. ~ (num - st.prevSec > 1)
            BY <1>3, <2>2, <3>3
          <5> QED
            BY <1>5, <1>8, <3>2, <3>3, <5>1
        <4> QED
          BY <1>8, <3>2, <4>1
      <3>4. CASE gap
        <4>1. recs = Noted(st.recs, num) /\ num \in Nat /\ num # 0
          BY <1>5, <1>8, <3>4
        <4>2. IsList(recs)
          <5>1. PICK b : b = Opened(base, t.first, FALSE)
            OBVIOUS
          <5>2. IsLoading(LoadRecords(b, st.recs))
            <6>1. LoadRecords(b, st.recs) = Reading(buf, st.prevSec + 1, FALSE, Upto(image, N, n, num))
              BY <3>2, <5>1
            <6> QED
              BY <6>1 DEF IsLoading, Reading
          <5> QED
            BY <1>8, <3>2, <4>1, <5>2, GapNoted
        <4>3. ASSUME NEW ended \in BOOLEAN
              PROVE  LoadRecords(Opened(base, t.first, ended), recs) = Reading(buf, num, ended, Upto(image, N, n, num))
          <5>1. PICK b, d, u, p : /\ b = Opened(base, t.first, ended) /\ d = LoadRecords(b, st.recs)
                                  /\ u = Upto(image, N, n, num) /\ p = st.prevSec + 1
            OBVIOUS
          <5>2. d = Reading(buf, p, ended, u)
            BY <3>2, <5>1
          <5>3. IsLoading(d)
            BY <5>2 DEF IsLoading, Reading
          <5>4. LoadRecords(b, recs) = [d EXCEPT !.sector = num]
            BY <1>8, <3>2, <4>1, <5>1, <5>3, GapNoted
          <5>5. [d EXCEPT !.sector = num] = Reading(buf, num, ended, u)
            BY <5>2 DEF Reading
          <5> QED
            BY <5>1, <5>4, <5>5
        <4> QED
          BY <4>2, <4>3
      <3> QED
        BY <1>3, <3>3, <3>4
    <2> QED
      BY <1>3, <2>1, <2>2
  <1>15. IsList(t.recs) /\ Len(t.recs) # 0 /\ t.recs[Len(t.recs)] = r
    <2>1. PICK m : m = Len(recs)
      OBVIOUS
    <2>2. /\ m \in Nat /\ IsList(Append(recs, r)) /\ Len(Append(recs, r)) = m + 1
          /\ Append(recs, r)[m + 1] = r
      BY <1>14, <2>1, Appended
    <2> QED
      BY <1>9, <2>2
  <1>16. IsRecord(r) /\ r.next = 0 /\ Len(r.bytes) \in Nat
    BY <1>11 DEF Readable, IsRecord
  <1>17. Saving(t, N, n, k + 1)
    <2>1. t.len \in Nat
      <3>1. RecordLen(r) \in Nat
        BY <1>16 DEF RecordLen
      <3>2. t.len = st.len + RecordLen(r) + (IF gap THEN 2 ELSE 0) /\ st.len \in Nat
        BY <1>8, <1>9
      <3> QED
        BY <3>1, <3>2
    <2>2. k + 1 <= 2 * (t.sec - 1) + (IF t.len >= PassLimit THEN 0 ELSE 1)
      <3>1. k + 1 <= 2 * num /\ t.sec - 1 = num
        BY <1>8, <1>9
      <3> QED
        BY <1>8, <3>1
    <2>3. t.sec \in 1 .. N + 1
      BY <1>8, <1>9
    <2> QED
      BY <1>8, <1>9, <1>10, <1>13, <1>15, <2>1, <2>2, <2>3 DEF Saving, IsSaving
  <1>18. SavedPasses(t, N, j) = base
    BY <1>9, <1>12 DEF SavedPasses
  <1>19. PassesRead(t, image, N, n, j)
    BY <1>12, <1>13, <1>18 DEF SaveInv, PassesRead
  <1>20. RecordsRead(t, image, N, n, j)
    <2>1. \A ended \in BOOLEAN :
             LoadRecords(Opened(base, t.first, ended), t.recs)
               = Reading(t.prev, t.prevSec + 1, ended, Upto(image, N, n, t.sec))
      <3> TAKE ended \in BOOLEAN
      <3>1. PICK b : b = Opened(base, t.first, ended)
        OBVIOUS
      <3>2. LoadRecords(b, t.recs) = LoadRecord(LoadRecords(b, recs), r)
        BY <1>9, <1>14, OneMoreRecord
      <3>3. LoadRecords(b, recs) = Reading(buf, num, ended, Upto(image, N, n, num))
        BY <1>14, <3>1
      <3>4. LoadRecord(Reading(buf, num, ended, Upto(image, N, n, num)), r)
              = Reading(cur, num + 1, ended, Upto(image, N, n, num + 1))
        BY <1>1, <1>8, <1>11, SectorRead
      <3> QED
        BY <1>9, <3>1, <3>2, <3>3, <3>4
    <2>2. t.prevSec \in 1 .. t.sec - 1
      BY <1>8, <1>9
    <2> QED
      BY <1>15, <1>16, <1>18, <2>1, <2>2, Zenon DEF RecordsRead
  <1> QED
    BY <1>1, <1>6, <1>17, <1>19, <1>20 DEF SaveInv

LEMMA SaveStep ==
    ASSUME NEW n \in Nat, n # 0, n <= Full, NEW N \in Nat, NEW image, IsImage(image, N, n), NEW j, NEW k \in Nat,
           NEW st, SaveInv(st, image, N, n, k, j)
    PROVE  SaveInv(SaveTurn(st, image), image, N, n, k + 1, j)
  <1>1. Len(image.data) = N /\ st.sec \in 1 .. N + 1 /\ st.len \in Nat
    BY DEF IsImage, SaveInv, Saving
  <1>2. CASE st.sec > Len(image.data)
    <2>1. SaveTurn(st, image) = st /\ ~ (st.sec <= N)
      <3>1. SaveTurn(st, image) = st
        BY <1>2, Zenon DEF SaveTurn
      <3>2. ~ (st.sec <= N)
        BY <1>1, <1>2
      <3> QED
        BY <3>1, <3>2
    <2>2. Saving(st, N, n, k + 1)
      BY <2>1 DEF SaveInv, Saving
    <2>3. SaveInv(st, image, N, n, k + 1, j)
      BY <2>2 DEF SaveInv
    <2> QED
      BY <2>1, <2>3, Zenon
  <1>3. CASE ~ (st.sec > Len(image.data)) /\ st.len >= PassLimit
    <2>1. SaveTurn(st, image) = ClosePass(st, FALSE) /\ st.sec <= N
      <3>1. SaveTurn(st, image) = ClosePass(st, FALSE)
        BY <1>3, Zenon DEF SaveTurn
      <3>2. st.sec <= N
        BY <1>1, <1>3
      <3> QED
        BY <3>1, <3>2
    <2>2. SaveInv(ClosePass(st, FALSE), image, N, n, k + 1, j)
      BY <1>3, <2>1, TurnClosesPass
    <2> QED
      BY <2>1, <2>2, Zenon
  <1>4. CASE ~ (st.sec > Len(image.data)) /\ ~ (st.len >= PassLimit) /\ Empty(image.data[st.sec])
    <2>1. SaveTurn(st, image) = [st EXCEPT !.sec = @ + 1] /\ st.sec <= N
      <3>1. SaveTurn(st, image) = [st EXCEPT !.sec = @ + 1]
        BY <1>4, Zenon DEF SaveTurn
      <3>2. st.sec <= N
        BY <1>1, <1>4
      <3> QED
        BY <3>1, <3>2
    <2>2. SaveInv([st EXCEPT !.sec = @ + 1], image, N, n, k + 1, j)
      BY <1>4, <2>1, TurnSkips
    <2> QED
      BY <2>1, <2>2, Zenon
  <1>5. CASE ~ (st.sec > Len(image.data)) /\ ~ (st.len >= PassLimit) /\ ~ Empty(image.data[st.sec])
    <2>1. SaveTurn(st, image) = SaveSector(st, image.data[st.sec]) /\ st.sec <= N
      <3>1. SaveTurn(st, image) = SaveSector(st, image.data[st.sec])
        BY <1>5, Zenon DEF SaveTurn
      <3>2. st.sec <= N
        BY <1>1, <1>5
      <3> QED
        BY <3>1, <3>2
    <2> QED
      BY <1>5, <2>1, TurnSaves
  <1> QED
    BY <1>2, <1>3, <1>4, <1>5

LEMMA SaveStarts ==
    ASSUME NEW n \in Nat, NEW N \in Nat, NEW image, NEW j, IsBuffer(j, n)
    PROVE  SaveInv(SaveStart(n), image, N, n, 0, j)
  <1>1. PICK st, z : st = SaveStart(n) /\ z = Zeros(n)
    OBVIOUS
  <1>2. IsBuffer(z, n)
    <2>1. z = [i \in 1 .. n |-> 0]
      BY <1>1 DEF Zeros
    <2> QED
      BY <2>1 DEF IsBuffer
  <1>3. /\ IsSaving(st) /\ st.sec = 1 /\ st.passes = <<>> /\ st.first = 0 /\ st.prev = z /\ st.recs = <<>>
        /\ st.len = 4
    BY <1>1 DEF SaveStart, IsSaving
  <1>4. IsList(<<>>)
    <2>1. <<>> \in Seq(Nat)
      OBVIOUS
    <2> QED
      BY <2>1 DEF IsList
  <1>5. Saving(st, N, n, 0)
    <2>1. 0 <= 2 * (1 - 1) + (IF st.len >= PassLimit THEN 0 ELSE 1)
      BY <1>3, CodecAssumption
    <2> QED
      BY <1>2, <1>3, <1>4, <2>1 DEF Saving, IsSaving
  <1>6. SavedPasses(st, N, j) = LoadStart(j, N)
    BY <1>3, NothingMore DEF SavedPasses
  <1>7. Upto(image, N, n, 1) = [s \in 1 .. N |-> z]
    <2>1. \A s \in 1 .. N : ~ (s < 1)
      OBVIOUS
    <2>2. \A s \in 1 .. N : (IF s < 1 THEN image.data[s] ELSE z) = z
      BY <2>1
    <2> QED
      BY <1>1, <2>2 DEF Upto
  <1>8. PassesRead(st, image, N, n, j)
    <2>1. PICK base : base = LoadStart(j, N)
      OBVIOUS
    <2>2. base = [buf |-> j, sector |-> 0, ended |-> FALSE, data |-> [s \in 1 .. N |-> z]]
      BY <1>1, <2>1 DEF LoadStart, IsBuffer
    <2>3. IsLoading(base) /\ base.ended = FALSE /\ base.buf = j /\ base.data = Upto(image, N, n, 1)
      BY <1>7, <2>2 DEF IsLoading
    <2> QED
      BY <1>3, <1>6, <2>1, <2>3 DEF PassesRead
  <1>9. RecordsRead(st, image, N, n, j)
    BY <1>3 DEF RecordsRead
  <1> QED
    BY <1>1, <1>5, <1>8, <1>9 DEF SaveInv

LEMMA LoadedIs ==
    ASSUME NEW n \in Nat, n # 0, n <= Full, NEW N \in Nat, NEW image, IsImage(image, N, n), NEW j, IsBuffer(j, n)
    PROVE  Loaded(image, j).data = image.data
  <1>1. Len(image.data) = N /\ image.size = n
    BY DEF IsImage
  <1>2. PICK m : m = 2 * N /\ m \in Nat
    OBVIOUS
  <1>3. PICK f : IsLoop(f, "save", SaveStart(n), image, m) /\ Save(image) = ClosePass(f[m], TRUE).passes
    BY <1>1, <1>2, SaveLoop
  <1>4. f[0] = SaveStart(n) /\ \A k \in 0 .. m - 1 : f[k + 1] = SaveTurn(f[k], image)
    <2>1. f[0] = SaveStart(n)
      BY <1>2, <1>3 DEF IsLoop
    <2>2. ASSUME NEW k \in 0 .. m - 1 PROVE f[k + 1] = SaveTurn(f[k], image)
      <3>1. k \in Nat /\ k < m
        BY <1>2
      <3>2. f[k + 1] = Turn("save", f[k], image, k + 1)
        BY <1>2, <1>3, <3>1, LoopTurn
      <3> QED
        BY <3>2 DEF Turn
    <2> QED
      BY <2>1, <2>2
  <1>5. SaveInv(f[m], image, N, n, m, j)
    <2> DEFINE S == {k \in Nat : k <= m => SaveInv(f[k], image, N, n, k, j)}
    <2>1. 0 \in S
      BY <1>4, SaveStarts
    <2>2. ASSUME NEW k \in Nat, k \in S PROVE k + 1 \in S
      <3> SUFFICES ASSUME k + 1 <= m PROVE SaveInv(f[k + 1], image, N, n, k + 1, j)
        OBVIOUS
      <3>1. k \in 0 .. m - 1 /\ k <= m
        BY <1>2
      <3>2. SaveInv(f[k], image, N, n, k, j)
        BY <2>2, <3>1
      <3>3. SaveInv(SaveTurn(f[k], image), image, N, n, k + 1, j)
        BY <3>2, SaveStep
      <3> QED
        BY <1>4, <3>1, <3>3
    <2> HIDE DEF S
    <2>3. m \in S
      BY <1>2, <2>1, <2>2, SetInduction
    <2> QED
      BY <1>2, <2>3 DEF S
  <1>6. PICK st : st = f[m]
    OBVIOUS
  <1>7. st.sec = N + 1
    <2>1. /\ st.sec \in 1 .. N + 1
          /\ st.sec <= N => m <= 2 * (st.sec - 1) + (IF st.len >= PassLimit THEN 0 ELSE 1)
      BY <1>5, <1>6 DEF SaveInv, Saving
    <2> QED
      BY <1>2, <2>1
  <1>8. PICK last \in BOOLEAN : last = TRUE
    OBVIOUS
  <1>9. PICK z, b : Load(LoadStart(j, N), ClosePass(st, last).passes) = Reading(b, z, last, Upto(image, N, n, st.sec))
    BY <1>5, <1>6, PassClosed
  <1>10. Loaded(image, j).data = Upto(image, N, n, N + 1)
    <2>1. Loaded(image, j) = Reading(b, z, last, Upto(image, N, n, N + 1))
      BY <1>1, <1>3, <1>6, <1>7, <1>8, <1>9 DEF Loaded
    <2> QED
      BY <2>1 DEF Reading
  <1>11. Upto(image, N, n, N + 1) = image.data
    <2>1. \A s \in 1 .. N : s < N + 1
      OBVIOUS
    <2>2. \A s \in 1 .. N : (IF s < N + 1 THEN image.data[s] ELSE Zeros(n)) = image.data[s]
      BY <2>1
    <2>3. Upto(image, N, n, N + 1) = [s \in 1 .. N |-> image.data[s]]
      BY <2>2 DEF Upto
    <2> QED
      BY <2>3 DEF IsImage
  <1> QED
    BY <1>10, <1>11

-----------------------------------------------------------------------------
(* The checksum of a sector of a DI file.                                  *)

Carried(v, x) == IF v + x >= Base THEN (v + x) - (Base - 1) ELSE v + x

LEMMA ChecksumIs ==
    ASSUME NEW n \in Nat, NEW buf, IsBuffer(buf, n), \A i \in 1 .. n : buf[i] < Base
    PROVE  Atr!DiChecksum(buf, Base) = 0 <=> Empty(buf)
  <1>1. Len(buf) = n /\ (\A i \in 1 .. n : buf[i] \in Nat) /\ buf = [i \in 1 .. n |-> buf[i]]
    BY DEF IsBuffer
  <1>2. PICK V : V = 0 .. Base - 1
    OBVIOUS
  <1>3. 0 \in V /\ \A i \in 1 .. n : buf[i] \in V
    BY <1>1, <1>2, CodecAssumption
  <1>4. \A v \in V, x \in V : Carried(v, x) \in V /\ (Carried(v, x) = 0 <=> v = 0 /\ x = 0)
    BY <1>2, CodecAssumption DEF Carried
  <1>5. PICK next : next = [i \in 1 .. n |-> [v \in V |-> Carried(v, buf[i])]]
    OBVIOUS
  <1>6. \A i \in 1 .. n, v \in V : next[i][v] = Carried(v, buf[i]) /\ next[i][v] \in V
    BY <1>3, <1>4, <1>5
  <1>7. PICK f : Recurs(f, V, 0, n, next)
    BY <1>3, <1>6, Recursion
  <1>8. /\ f = [i \in 0 .. n |-> f[i]] /\ f[0] = 0 /\ (\A i \in 0 .. n : f[i] \in V)
        /\ \A i \in 1 .. n : f[i] = Carried(f[i - 1], buf[i])
    <2>1. /\ f = [i \in 0 .. n |-> f[i]] /\ f[0] = 0 /\ (\A i \in 0 .. n : f[i] \in V)
          /\ \A i \in 1 .. n : f[i] = next[i][f[i - 1]]
      BY <1>7 DEF Recurs
    <2>2. \A i \in 1 .. n : i - 1 \in 0 .. n
      OBVIOUS
    <2> QED
      BY <1>6, <2>1, <2>2
  <1> DEFINE sum[i \in 0 .. Len(buf)] ==
                 IF i = 0 THEN 0
                 ELSE LET s == sum[i - 1] + buf[i] IN IF s >= Base THEN s - (Base - 1) ELSE s
  <1>9. Atr!DiChecksum(buf, Base) = sum[Len(buf)]
    BY DEF Atr!DiChecksum
  <1>10. \A i \in 0 .. n : f[i] = IF i = 0 THEN 0
                                 ELSE LET s == f[i - 1] + buf[i] IN IF s >= Base THEN s - (Base - 1) ELSE s
    <2> TAKE i \in 0 .. n
    <2>1. CASE i = 0
      BY <1>8, <2>1
    <2>2. CASE i # 0
      <3>1. i \in 1 .. n
        BY <2>2
      <3> QED
        BY <1>8, <2>2, <3>1 DEF Carried
    <2> QED
      BY <2>1, <2>2
  <1>11. f = [i \in 0 .. Len(buf) |-> IF i = 0 THEN 0
                 ELSE LET s == f[i - 1] + buf[i] IN IF s >= Base THEN s - (Base - 1) ELSE s]
    <2>1. [i \in 0 .. n |-> f[i]]
            = [i \in 0 .. n |-> IF i = 0 THEN 0
                 ELSE LET s == f[i - 1] + buf[i] IN IF s >= Base THEN s - (Base - 1) ELSE s]
      BY <1>10
    <2> QED
      BY <1>1, <1>8, <2>1
  <1>12. sum = [i \in 0 .. Len(buf) |-> IF i = 0 THEN 0
                 ELSE LET s == sum[i - 1] + buf[i] IN IF s >= Base THEN s - (Base - 1) ELSE s]
    BY <1>11, Zenon
  <1> HIDE DEF sum
  <1> DEFINE S == {i \in Nat : i <= n => /\ sum[i] \in V
                                         /\ sum[i] = 0 <=> \A j \in 1 .. i : buf[j] = 0}
  <1>13. 0 \in S
    <2>1. sum[0] = 0
      BY <1>1, <1>12
    <2> QED
      BY <1>3, <2>1
  <1>14. ASSUME NEW i \in Nat, i \in S PROVE i + 1 \in S
    <2> SUFFICES ASSUME i + 1 <= n
                 PROVE  sum[i + 1] \in V /\ (sum[i + 1] = 0 <=> \A j \in 1 .. i + 1 : buf[j] = 0)
      OBVIOUS
    <2>1. i + 1 \in 0 .. Len(buf) /\ i + 1 # 0 /\ (i + 1) - 1 = i /\ i + 1 \in 1 .. n
      BY <1>1
    <2>2. sum[i + 1] = Carried(sum[i], buf[i + 1])
      BY <1>12, <2>1 DEF Carried
    <2>3. sum[i] \in V /\ (sum[i] = 0 <=> \A j \in 1 .. i : buf[j] = 0)
      BY <1>14, <2>1
    <2>4. buf[i + 1] \in V
      BY <1>3, <2>1
    <2>5. sum[i + 1] \in V /\ (sum[i + 1] = 0 <=> sum[i] = 0 /\ buf[i + 1] = 0)
      BY <1>4, <2>2, <2>3, <2>4
    <2>6. (\A j \in 1 .. i + 1 : buf[j] = 0) <=> (\A j \in 1 .. i : buf[j] = 0) /\ buf[i + 1] = 0
      <3>1. \A j \in 1 .. i + 1 : j \in 1 .. i \/ j = i + 1
        OBVIOUS
      <3>2. i + 1 \in 1 .. i + 1 /\ \A j \in 1 .. i : j \in 1 .. i + 1
        OBVIOUS
      <3> QED
        BY <3>1, <3>2
    <2> QED
      BY <2>3, <2>5, <2>6
  <1> HIDE DEF S
  <1>15. n \in S
    BY <1>13, <1>14, SetInduction
  <1>16. sum[n] = 0 <=> \A j \in 1 .. n : buf[j] = 0
    BY <1>15 DEF S
  <1>17. Empty(buf) <=> \A j \in 1 .. n : buf[j] = 0
    <2>1. Empty(buf) <=> buf = [j \in 1 .. n |-> 0]
      BY <1>1 DEF Empty, Zeros
    <2> QED
      BY <1>1, <2>1
  <1> QED
    BY <1>1, <1>9, <1>16, <1>17

-----------------------------------------------------------------------------
(* Every image that there can be.                                          *)

DiskInv ==
    /\ disk = [size |-> disk.size, data |-> disk.data] /\ disk.size \in ImageSizes
    /\ Len(disk.data) \in Nat /\ disk.data = [s \in 1 .. Len(disk.data) |-> disk.data[s]]
    /\ \A s \in 1 .. Len(disk.data) : disk.data[s] \in SectorContents(disk.size, s)

LEMMA ContentsAreBuffers ==
    ASSUME NEW n \in Nat, NEW s, NEW c \in SectorContents(n, s)
    PROVE  /\ IsBuffer(c, n) /\ \A i \in 1 .. n : c[i] < Base
           /\ \A i \in 1 .. n : s = 1 /\ Full \div 2 < i => c[i] = 0
  <1>1. c \in [1 .. n -> 0 .. Base - 1] /\ (s = 1 => \A i \in Full \div 2 + 1 .. n : c[i] = 0)
    BY DEF SectorContents
  <1>2. IsBuffer(c, n)
    <2>1. c \in [1 .. n -> Nat]
      BY <1>1, CodecAssumption
    <2> QED
      BY <2>1 DEF IsBuffer
  <1>3. \A i \in 1 .. n : c[i] < Base
    BY <1>1, CodecAssumption
  <1>4. \A i \in 1 .. n : s = 1 /\ Full \div 2 < i => c[i] = 0
    <2>1. PICK h : h = Full \div 2 /\ h \in Nat
      BY CodecAssumption
    <2>2. \A i \in 1 .. n : h < i => i \in h + 1 .. n
      BY <2>1
    <2> QED
      BY <1>1, <2>1, <2>2
  <1> QED
    BY <1>2, <1>3, <1>4

LEMMA DiskInvKept == CodecSpec => []DiskInv
  <1>1. CodecInit => DiskInv
    <2> SUFFICES ASSUME CodecInit PROVE DiskInv
      OBVIOUS
    <2>1. PICK n \in ImageSizes : disk = [size |-> n, data |-> <<>>]
      BY DEF CodecInit
    <2>2. disk.size = n /\ disk.data = <<>> /\ Len(disk.data) = 0 /\ 1 .. 0 = {}
      BY <2>1
    <2>3. disk.data = [s \in 1 .. Len(disk.data) |-> disk.data[s]]
      BY <2>2
    <2> QED
      BY <2>1, <2>2, <2>3 DEF DiskInv
  <1>2. DiskInv /\ [AddSector]_disk => DiskInv'
    <2> SUFFICES ASSUME DiskInv, [AddSector]_disk PROVE DiskInv'
      OBVIOUS
    <2>1. CASE UNCHANGED disk
      BY <2>1 DEF DiskInv
    <2>2. CASE AddSector
      <3>1. PICK n, d, m : n = disk.size /\ d = disk.data /\ m = Len(d)
        OBVIOUS
      <3>2. /\ disk = [size |-> n, data |-> d] /\ n \in ImageSizes /\ m \in Nat /\ d = [s \in 1 .. m |-> d[s]]
            /\ \A s \in 1 .. m : d[s] \in SectorContents(n, s)
        BY <3>1 DEF DiskInv
      <3>3. PICK c \in SectorContents(n, m + 1) : disk' = [disk EXCEPT !.data = Append(@, c)]
        BY <2>2, <3>1 DEF AddSector
      <3>4. PICK e : e = Append(d, c)
        OBVIOUS
      <3>5. disk' = [size |-> n, data |-> e]
        BY <3>2, <3>3, <3>4
      <3>6. IsList(d)
        <4>1. PICK S : S = {d[s] : s \in 1 .. m}
          OBVIOUS
        <4>2. d \in [1 .. m -> S]
          BY <3>2, <4>1
        <4>3. d \in Seq(S)
          BY <3>2, <4>2
        <4> QED
          BY <4>3 DEF IsList
      <3>7. IsList(e) /\ Len(e) = m + 1 /\ e[m + 1] = c /\ \A s \in 1 .. m : e[s] = d[s]
        BY <3>1, <3>4, <3>6, Appended
      <3>8. e = [s \in 1 .. Len(e) |-> e[s]] /\ Len(e) \in Nat
        <4>1. PICK S : e \in Seq(S)
          BY <3>7 DEF IsList
        <4> QED
          BY <4>1
      <3>9. \A s \in 1 .. m + 1 : e[s] \in SectorContents(n, s)
        <4> TAKE s \in 1 .. m + 1
        <4>1. s \in 1 .. m \/ s = m + 1
          BY <3>2
        <4> QED
          BY <3>2, <3>3, <3>7, <4>1
      <3>10. disk'.size = n /\ disk'.data = e
        BY <3>5
      <3> QED
        BY <3>2, <3>5, <3>7, <3>8, <3>9, <3>10 DEF DiskInv
    <2> QED
      BY <2>1, <2>2
  <1> QED
    BY <1>1, <1>2, PTL DEF CodecSpec

\* A compressed image comes back as it was, and only an empty sector has the checksum
\* zero: CodecsKeepData, for all lengths of sectors and passes, all values of a byte,
\* and images of any number of sectors with any contents.
THEOREM CodecsDoKeepData == CodecSpec => []CodecsKeepData
  <1>1. DiskInv => CodecsKeepData
    <2> SUFFICES ASSUME DiskInv PROVE CodecsKeepData
      OBVIOUS
    <2>1. PICK n, N : n = disk.size /\ N = Len(disk.data)
      OBVIOUS
    <2>2. /\ n \in ImageSizes /\ N \in Nat /\ disk.data = [s \in 1 .. N |-> disk.data[s]]
          /\ \A s \in 1 .. N : disk.data[s] \in SectorContents(n, s)
      BY <2>1 DEF DiskInv
    <2>3. n \in Nat /\ n # 0 /\ n <= Full
      BY <2>2, CodecAssumption
    <2>4. IsImage(disk, N, n)
      <3>1. \A s \in 1 .. N : IsBuffer(disk.data[s], n)
        BY <2>2, <2>3, ContentsAreBuffers
      <3>2. ASSUME NEW i \in 1 .. n, 1 <= N, Full \div 2 < i PROVE disk.data[1][i] = 0
        <4>1. disk.data[1] \in SectorContents(n, 1)
          BY <2>2, <3>2
        <4> QED
          BY <2>3, <3>2, <4>1, ContentsAreBuffers
      <3> QED
        BY <2>1, <2>2, <3>1, <3>2 DEF IsImage
    <2>5. ASSUME NEW b \in 0 .. Base - 1
          PROVE  Loaded(disk, [i \in 1 .. disk.size |-> b]).data = disk.data
      <3>1. PICK j : j = [i \in 1 .. n |-> b]
        OBVIOUS
      <3>2. IsBuffer(j, n)
        BY <2>3, <3>1, CodecAssumption DEF IsBuffer
      <3>3. Loaded(disk, j).data = disk.data
        BY <2>2, <2>3, <2>4, <3>2, LoadedIs
      <3> QED
        BY <2>1, <3>1, <3>3
    <2>6. \A s \in DOMAIN disk.data : Atr!DiChecksum(disk.data[s], Base) = 0 <=> Empty(disk.data[s])
      <3> TAKE s \in DOMAIN disk.data
      <3>1. s \in 1 .. N
        BY <2>2
      <3>2. disk.data[s] \in SectorContents(n, s)
        BY <2>2, <3>1
      <3>3. PICK c : c = disk.data[s]
        OBVIOUS
      <3>4. IsBuffer(c, n) /\ \A i \in 1 .. n : c[i] < Base
        BY <2>3, <3>2, <3>3, ContentsAreBuffers
      <3> QED
        BY <2>3, <3>3, <3>4, ChecksumIs
    <2> QED
      BY <2>5, <2>6 DEF CodecsKeepData
  <1> QED
    BY <1>1, DiskInvKept, PTL
=============================================================================
