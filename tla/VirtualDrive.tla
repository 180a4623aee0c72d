---------------------------- MODULE VirtualDrive ----------------------------
(***************************************************************************)
(* A directory of the host as a disk of the Atari                          *)
(* (tools/VirtualImageObserver.cpp, and the second half of                 *)
(* tools/Dos2xUtils.cpp).  The server looks at the directory sectors       *)
(* before and after each write and draws from the status bytes of the      *)
(* entries what the Atari's DOS does; files that the Atari closes are      *)
(* written back to the host, which may fail.  An entry stands for the      *)
(* eight of one sector, a subdirectory has one, contents are numbers.      *)
(***************************************************************************)
EXTENDS Integers

CONSTANTS
    Slots,          \* entries of the directory the Atari touches, of 0 .. 7
    Names,          \* the Atari's names for files
    Listings,       \* what the directory holds first: slot -> [st, name, host]
    NoName,         \* a null pointer
    MaxWrites       \* bound: files the Atari opens

ASSUME SlotsAssumption == Slots \subseteq 0 .. 7

VARIABLES
    entry,          \* the directory on the disk; was is the name under which the
                    \* host has got it, NoName if it has not (of the properties only)
    inside,         \* the file in the subdirectory that an entry is; "lost" when
                    \* the host has not got it
    atariName, origName, subdir,    \* fAtariName, fOrigName, fSubdir
    host,           \* the files of the host
    writes,
    alive           \* the server runs

virtualvars == <<entry, inside, atariName, origName, subdir, host, writes, alive>>

Upper(n) == <<n, "UC", ".">>
Lower(n) == <<n, "lc", ".">>
In(h) == <<h[1], h[2], "file">>
HostNames == {Upper(n) : n \in Names} \cup {Lower(n) : n \in Names}
Paths == HostNames \cup {In(h) : h \in HostNames}

\* At first the directory shows what the host has, under names of its own, and
\* perhaps a file that only the Atari has, PICONAME.TXT (AddDataBlock).
ASSUME ListingsAssumption ==
    /\ NoName \notin Names \cup HostNames
    /\ Listings \subseteq [Slots -> [st : {"free", "closed", "dir"}, name : Names \cup {NoName},
                                     host : HostNames \cup {NoName}]]
    /\ \A l \in Listings : \A e \in Slots :
          /\ l[e].st # "free" \/ l[e].host # NoName => l[e].name \in Names
          /\ l[e].st = "dir" => l[e].host \in HostNames

\* AddEntry shows no name twice, and the host has none twice; but it may have one
\* that is shown as another because the case of its letters had made two of one.
\* OwnNames says that there is no such file.
OwnNames ==
    \A l \in Listings, e \in Slots :
        /\ \A d \in Slots \ {e} :
              /\ l[e].st # "free" /\ l[d].st # "free" => l[e].name # l[d].name
              /\ l[e].host \in HostNames => l[e].host # l[d].host
        /\ \A n \in Names : l[e].name \in Names /\ l[e].host = Upper(n) => l[e].name = n

\* What a path of the host leads to, when it is no whole file.
Nothing == -1
Directory == -2
Partial == -3

\* SetDirectoryObserver: the sectors that are looked at.
Observed(e) == e \in 0 .. 6

-----------------------------------------------------------------------------
\* GetOrigName: the name of the host is forgotten when the Atari's has changed,
\* and so is the subdirectory.  Where the Atari's is known and the host's is not a
\* null pointer is followed, and the server ends.
GetOrigName_KeepsName(e, name) ==
    /\ atariName' = [atariName EXCEPT ![e] = IF @ = NoName THEN name ELSE @]
    /\ origName' = [origName EXCEPT ![e] = IF atariName[e] # NoName THEN @ ELSE Upper(name)]
    /\ alive' = (origName'[e] # NoName)

GetOrigName(e, name) ==
    /\ atariName' = [atariName EXCEPT ![e] = name]
    /\ origName' = [origName EXCEPT ![e] = IF atariName[e] = name THEN @ ELSE Upper(name)]
    /\ alive' = (origName'[e] # NoName)

IndicateDeleteEntry(e) ==
    /\ atariName' = [atariName EXCEPT ![e] = NoName]
    /\ origName' = [origName EXCEPT ![e] = NoName]
    /\ subdir' = [subdir EXCEPT ![e] = NoName]
    /\ UNCHANGED <<host, alive>>

\* What the file h of the host can be afterwards: it is not opened (a directory
\* never is), or it is emptied and then gets the chain's sectors until a loop, an
\* illegal link, a sector that cannot be read or a full disk.
WriteAtariFileToDisk(h, data) == {host[h]} \cup (IF host[h] = Directory THEN {} ELSE {Partial, data})

\* A status that belongs to another DOS is skipped.
IndicateCloseFile(e, new) ==
    /\ GetOrigName(e, new.name)
    /\ subdir' = [subdir EXCEPT ![e] = IF atariName[e] = new.name THEN @ ELSE NoName]
    /\ IF alive'
       THEN \E x \in WriteAtariFileToDisk(origName'[e], new.data) :
                host' = [host EXCEPT ![origName'[e]] = x]
       ELSE UNCHANGED host

\* The directory is not followed if a file has that name or mkdir fails.
IndicateCreateDirectory(e, new) ==
    /\ GetOrigName(e, new.name)
    /\ \/ /\ ~alive' \/ host[origName'[e]] # Directory
          /\ subdir' = [subdir EXCEPT ![e] = IF atariName[e] = new.name THEN @ ELSE NoName]
          /\ UNCHANGED host
       \/ /\ alive' /\ host[origName'[e]] \in {Nothing, Directory}
          /\ subdir' = [subdir EXCEPT ![e] = origName'[e]]
          /\ host' = [host EXCEPT ![origName'[e]] = Directory]

Ignored == UNCHANGED <<atariName, origName, subdir, host, alive>>

IndicateSectorWrite_AnyEndCloses(e, new) ==
    LET old == entry[e] IN
    IF ~Observed(e) \/ old.st = new.st THEN Ignored
    ELSE IF old.st = "open" /\ new.st # "free" THEN IndicateCloseFile(e, [new EXCEPT !.data = old.data])
    ELSE IF new.st \in {"deleted", "free"} THEN IndicateDeleteEntry(e)
    ELSE IF new.st = "dir" THEN IndicateCreateDirectory(e, new)
    ELSE Ignored

\* Before and after a write of a directory sector; the status tells.
IndicateSectorWrite(e, new) ==
    LET old == entry[e] IN
    IF ~Observed(e) \/ old.st = new.st THEN Ignored
    ELSE IF new.st \in {"deleted", "free"} THEN IndicateDeleteEntry(e)
    ELSE IF old.st = "open" /\ new.st = "closed" THEN IndicateCloseFile(e, new)
    ELSE IF old.st # "dir" /\ new.st = "dir" THEN IndicateCreateDirectory(e, new)
    ELSE Ignored

\* The host has got it.
Arrived(e, new) ==
    IF ~Observed(e) THEN TRUE
    ELSE alive' /\ host'[origName'[e]] = (IF new.st = "dir" THEN Directory ELSE new.data)

WriteEntry(e, new) ==
    /\ IndicateSectorWrite(e, new)
    /\ entry' = [entry EXCEPT ![e] = new]
WriteForHost(e, new) ==
    /\ IndicateSectorWrite(e, new)
    /\ entry' = [entry EXCEPT ![e] = [new EXCEPT !.was = IF Arrived(e, new) THEN new.name ELSE NoName]]

-----------------------------------------------------------------------------
\* What the Atari's DOS writes.
Live(e) == entry[e].st \in {"open", "closed", "dir"}
Fresh(n) == \A e \in Slots : Live(e) => entry[e].name # n

OpenFile(e, n) ==
    /\ writes < MaxWrites /\ writes' = writes + 1 /\ UNCHANGED inside
    /\ \/ ~Live(e) /\ Fresh(n)
       \/ entry[e].st = "closed" /\ entry[e].name = n
    /\ WriteEntry(e, [st |-> "open", name |-> n, data |-> writes + 1, was |-> entry[e].was])

CloseFile(e) ==
    /\ entry[e].st = "open" /\ UNCHANGED <<inside, writes>>
    /\ WriteForHost(e, [entry[e] EXCEPT !.st = "closed"])

\* A file that is open can be deleted, too: the Atari was switched off.  A deleted
\* entry keeps its name, a wiped one does not.
Delete(e, st) ==
    /\ Live(e) /\ inside[e].st = "none" /\ UNCHANGED <<inside, writes>>
    /\ WriteEntry(e, [st |-> st, name |-> IF st = "free" THEN NoName ELSE entry[e].name,
                      data |-> 0, was |-> NoName])

MakeDirectory(e, n) ==
    /\ ~Live(e) /\ Fresh(n) /\ UNCHANGED <<inside, writes>>
    /\ WriteForHost(e, [st |-> "dir", name |-> n, data |-> 0, was |-> NoName])

\* The status stays as it is: nobody takes notice.
Rename(e, n) ==
    /\ entry[e].st \in {"closed", "dir"} /\ Fresh(n) /\ UNCHANGED <<inside, writes>>
    /\ WriteEntry(e, [entry[e] EXCEPT !.name = n, !.was = NoName])

\* A Dos2xUtils of its own looks at the subdirectory.
WriteInside(e) ==
    /\ entry[e].st = "dir" /\ writes < MaxWrites /\ writes' = writes + 1
    /\ IF subdir[e] = NoName THEN UNCHANGED host
       ELSE \E x \in WriteAtariFileToDisk(In(subdir[e]), writes + 1) :
                host' = [host EXCEPT ![In(subdir[e])] = x]
    /\ inside' = [inside EXCEPT ![e] =
                     [st |-> IF subdir[e] # NoName /\ host'[In(subdir[e])] # writes + 1
                             THEN "lost" ELSE "closed",
                      data |-> writes + 1]]
    /\ UNCHANGED <<entry, atariName, origName, subdir, alive>>

VirtualInit ==
    \E l \in Listings :
        /\ entry = [e \in Slots |-> [st |-> l[e].st, name |-> l[e].name, data |-> 0,
                                  was |-> IF l[e].host = NoName THEN NoName ELSE l[e].name]]
        /\ inside = [e \in Slots |-> [st |-> "none", data |-> 0]]
        /\ atariName = [e \in Slots |-> l[e].name]
        /\ origName = [e \in Slots |-> l[e].host]
        /\ subdir = [e \in Slots |-> IF l[e].st = "dir" THEN l[e].host ELSE NoName]
        /\ host = [h \in Paths |->
                     IF \E e \in Slots : l[e].host = h
                     THEN LET e == CHOOSE e \in Slots : l[e].host = h
                          IN  IF l[e].st = "dir" THEN Directory ELSE 0
                     ELSE Nothing]
        /\ writes = 0 /\ alive = TRUE

VirtualNext ==
    /\ alive
    /\ \E e \in Slots :
          \/ \E n \in Names : OpenFile(e, n) \/ MakeDirectory(e, n) \/ Rename(e, n)
          \/ CloseFile(e) \/ WriteInside(e)
          \/ \E st \in {"deleted", "free"} : Delete(e, st)

VirtualSpec == VirtualInit /\ [][VirtualNext]_virtualvars

-----------------------------------------------------------------------------
\* Every variable has its type; a name the Atari knows has one of the host beside
\* it, but for those that a listing shows without, and only where there is such a
\* one the server can end.
Unnamed == {n \in Names : \E l \in Listings, e \in Slots : l[e].name = n /\ l[e].host = NoName}
VirtualTypeOK ==
    /\ entry \in [Slots -> [st : {"free", "deleted", "open", "closed", "dir"}, name : Names \cup {NoName},
                            data : Nat, was : Names \cup {NoName}]]
    /\ inside \in [Slots -> [st : {"none", "closed", "lost"}, data : Nat]]
    /\ atariName \in [Slots -> Names \cup {NoName}]
    /\ origName \in [Slots -> HostNames \cup {NoName}]
    /\ subdir \in [Slots -> HostNames \cup {NoName}]
    /\ host \in [Paths -> Nat \cup {Nothing, Directory, Partial}]
    /\ writes \in Nat /\ alive \in BOOLEAN
    /\ \A e \in Slots : /\ entry[e].st \in {"open", "closed", "dir"} => entry[e].name \in Names
                        /\ atariName[e] \in Names \ Unnamed => origName[e] \in HostNames
    /\ alive \/ Unnamed # {}

\* What the host has got is there, whole, under the name the entry has there, unless
\* the entry was renamed since or, for the file of a directory, another one is still
\* followed there: a directory of the host is never replaced by a file, nor a file
\* by a directory, and no entry writes into another's file.
Backed(e) ==
    LET h == IF atariName[e] = entry[e].name THEN origName[e] ELSE Upper(entry[e].name) IN
    entry[e].name \in Names /\ entry[e].was = entry[e].name =>
        /\ entry[e].st = "closed" => host[h] = entry[e].data
        /\ entry[e].st = "dir" => host[h] = Directory
        /\ entry[e].st = "dir" /\ inside[e].st = "closed" /\ (\A d \in Slots \ {e} : subdir[d] # h) =>
              host[In(h)] = inside[e].data

\* What the Atari wrote and the server did not refuse, fail to write or skip is on
\* the host, for the entries of the sectors observed.
Mirrored == alive => \A e \in Slots : Observed(e) => Backed(e)

\* Whenever the mark of an open file is cleared the file is written back
\* (README:567): for all entries of the directory.
WrittenBack == alive => \A e \in Slots : entry[e].st = "closed" => Backed(e)

\* The files of the host are safe from all but the entry that is written back into
\* them: one changes only in the step in which the Atari closes the entry that has it,
\* then has what that entry has or is cut, and then the Atari's file is not taken for
\* written; none ever vanishes, and a directory stays one, whatever is deleted,
\* renamed or wiped on the disk.
HostKept ==
    [][\A h \in HostNames :
          /\ host[h] # Nothing => host'[h] # Nothing
          /\ host[h] = Directory => host'[h] = Directory
          /\ host[h] \notin {host'[h], Nothing} =>
                \E e \in Slots : /\ entry[e].st = "open" /\ entry'[e].st = "closed" /\ origName'[e] = h
                                 /\ \/ host'[h] = entry[e].data
                                    \/ host'[h] = Partial /\ entry'[e].was = NoName]_virtualvars

\* Nothing the Atari writes ends the server: not so, see README, section 3.
ServerRuns == alive
=============================================================================
