--------------------------- MODULE Frontend_proofs ---------------------------
(***************************************************************************)
(* Proofs about the device manager and its three callers: whoever calls    *)
(* it, in whatever order, the drives work with the options the user sees,  *)
(* and changes are neither taken for saved nor lost but by order.          *)
(***************************************************************************)
EXTENDS Frontend, Induction, TLAPS

-----------------------------------------------------------------------------
(* The states of the manager.                                              *)

\* A handler with its image.  What counts as unchanged is what was saved.
HandlerFields == {"kind", "name", "content", "virtual", "saved", "changed", "wp", "active", "opt"}
Handler(h) ==
    /\ h = [x \in HandlerFields |-> h[x]]
    /\ h.kind \in {"atr", "atp"} /\ h.virtual \in BOOLEAN /\ h.changed \in BOOLEAN
    /\ ~h.virtual /\ ~h.changed => h.content = h.saved

\* Options that a handler was given are those of the manager.
Agrees(h, opt, failed) == h.kind = "atr" /\ ~failed => h.opt = opt

InSlot(h, opt, failed) == h = Empty \/ (Handler(h) /\ Agrees(h, opt, failed))

\* What a state of the manager consists of.
ManagerFields == {"slot", "file", "opt", "printer", "held", "ioctlFailed", "lost"}
Shape(s) ==
    /\ s = [x \in ManagerFields |-> s[x]]
    /\ s.slot = [d \in Drives |-> s.slot[d]] /\ s.file = [f \in Files |-> s.file[f]]
    /\ s.ioctlFailed \in BOOLEAN /\ s.lost \in BOOLEAN

\* The user interface keeps a reference to an image that is there.
HeldOK(s) == s.held = NoDrive \/ (s.held \in Drives /\ s.slot[s.held] # Empty)

ManagerOK(s) ==
    /\ Shape(s)
    /\ \A d \in Drives : InSlot(s.slot[d], s.opt, s.ioctlFailed)
    /\ HeldOK(s)

\* A step that leaves the options as they are.
Keeps(s, t) == ManagerOK(t) /\ t.opt = s.opt /\ t.ioctlFailed = s.ioctlFailed

LEMMA DrivesKnown ==
    /\ \A d \in Drives : d \in Nat \ {0}
    /\ NoDrive \notin Drives
    /\ \A p \in Programs : p \notin Files
  BY ManagerAssumption DEF NoDrive, Files

LEMMA DoneIs == \A s, ok : Done(s, ok).mgr = s /\ Done(s, ok).ok = ok
  BY DEF Done

LEMMA HandlerIsNotEmpty == \A h : Handler(h) => h # Empty
  <1> SUFFICES ASSUME NEW h, Handler(h), h = Empty PROVE FALSE
    OBVIOUS
  <1>1. Empty.kind = "none"
    BY DEF Empty
  <1> QED
    BY <1>1 DEF Handler

-----------------------------------------------------------------------------
(* Loading, creating and unloading.                                        *)

LEMMA SetSlot ==
    ASSUME NEW s, Shape(s), NEW slot, slot = [d \in Drives |-> slot[d]]
    PROVE  LET t == [s EXCEPT !.slot = slot]
           IN  /\ Shape(t) /\ t.slot = slot /\ t.file = s.file /\ t.opt = s.opt
               /\ t.printer = s.printer /\ t.held = s.held
               /\ t.ioctlFailed = s.ioctlFailed /\ t.lost = s.lost
  BY DEF Shape, ManagerFields

Unloads(s, t, D) ==
    /\ Shape(t)
    /\ \A d \in Drives : t.slot[d] = IF d \in D THEN Empty ELSE s.slot[d]
    /\ t.file = s.file /\ t.opt = s.opt /\ t.printer = s.printer
    /\ t.held = IF s.held \in D THEN NoDrive ELSE s.held
    /\ t.ioctlFailed = s.ioctlFailed /\ t.lost = s.lost

LEMMA UnloadIs ==
    ASSUME NEW s, Shape(s), NEW D
    PROVE  Unloads(s, UnloadDiskImage(s, D).mgr, D)
  <1> DEFINE t == UnloadDiskImage(s, D).mgr
  <1>1. t = [s EXCEPT !.slot = [d \in Drives |-> IF d \in D THEN Empty ELSE s.slot[d]],
                      !.held = IF s.held \in D THEN NoDrive ELSE s.held]
    BY DoneIs, Zenon DEF UnloadDiskImage
  <1> DEFINE slot == [d \in Drives |-> IF d \in D THEN Empty ELSE s.slot[d]]
             held == IF s.held \in D THEN NoDrive ELSE s.held
  <1>2. slot = [d \in Drives |-> slot[d]] /\ \A d \in Drives : slot[d] = IF d \in D THEN Empty ELSE s.slot[d]
    OBVIOUS
  <1>3. t = [s EXCEPT !.slot = slot, !.held = held]
    BY <1>1, Zenon
  <1> HIDE DEF t, slot, held
  <1>4. Shape(t) /\ t.slot = slot /\ t.held = held
    BY <1>2, <1>3 DEF Shape, ManagerFields
  <1>5. /\ t.file = s.file /\ t.opt = s.opt /\ t.printer = s.printer
        /\ t.ioctlFailed = s.ioctlFailed /\ t.lost = s.lost
    BY <1>3 DEF Shape, ManagerFields
  <1> QED
    BY <1>2, <1>4, <1>5 DEF t, held, Unloads

LEMMA UnloadKeeps ==
    ASSUME NEW s, ManagerOK(s), NEW D
    PROVE  ManagerOK(UnloadDiskImage(s, D).mgr)
  <1> DEFINE t == UnloadDiskImage(s, D).mgr
  <1>1. /\ Shape(t)
        /\ \A d \in Drives : t.slot[d] = IF d \in D THEN Empty ELSE s.slot[d]
        /\ t.held = IF s.held \in D THEN NoDrive ELSE s.held
        /\ t.opt = s.opt /\ t.ioctlFailed = s.ioctlFailed
    BY UnloadIs DEF ManagerOK, Unloads
  <1> HIDE DEF t
  <1>2. \A d \in Drives : InSlot(t.slot[d], t.opt, t.ioctlFailed)
    BY <1>1 DEF ManagerOK, InSlot
  <1>3. HeldOK(t)
    BY <1>1, DrivesKnown DEF ManagerOK, HeldOK
  <1> QED
    BY <1>1, <1>2, <1>3 DEF ManagerOK, t

LEMMA RegisterIs ==
    ASSUME NEW s, Shape(s), NEW d \in Drives, NEW h
    PROVE  LET t == Register(s, d, h)
           IN  /\ Shape(t)
               /\ \A e \in Drives : t.slot[e] = IF e = d THEN h ELSE s.slot[e]
               /\ t.file = s.file /\ t.opt = s.opt /\ t.printer = s.printer
               /\ t.held = IF s.held = d THEN NoDrive ELSE s.held
               /\ t.ioctlFailed = s.ioctlFailed /\ t.lost = s.lost
  <1> DEFINE t == Register(s, d, h)
             slot == [s.slot EXCEPT ![d] = h]
             held == IF s.held = d THEN NoDrive ELSE s.held
  <1>1. t = [s EXCEPT !.slot = slot, !.held = held]
    BY Zenon DEF Register
  <1>2. DOMAIN slot = Drives /\ \A e \in Drives : slot[e] = IF e = d THEN h ELSE s.slot[e]
    BY DEF Shape
  <1>3. slot = [e \in Drives |-> slot[e]]
    BY <1>2 DEF Shape
  <1> HIDE DEF t, slot, held
  <1>4. Shape(t) /\ t.slot = slot /\ t.held = held
    BY <1>1, <1>3 DEF Shape, ManagerFields
  <1>5. /\ t.file = s.file /\ t.opt = s.opt /\ t.printer = s.printer
        /\ t.ioctlFailed = s.ioctlFailed /\ t.lost = s.lost
    BY <1>1 DEF Shape, ManagerFields
  <1> QED
    BY <1>2, <1>4, <1>5 DEF t, held

LEMMA RegisterKeeps ==
    ASSUME NEW s, ManagerOK(s), NEW d \in Drives, NEW h, Handler(h), Agrees(h, s.opt, s.ioctlFailed)
    PROVE  ManagerOK(Register(s, d, h))
  <1> DEFINE t == Register(s, d, h)
  <1>1. /\ Shape(t)
        /\ \A e \in Drives : t.slot[e] = IF e = d THEN h ELSE s.slot[e]
        /\ t.held = IF s.held = d THEN NoDrive ELSE s.held
        /\ t.opt = s.opt /\ t.ioctlFailed = s.ioctlFailed
    BY RegisterIs DEF ManagerOK
  <1> HIDE DEF t
  <1>2. \A e \in Drives : InSlot(t.slot[e], t.opt, t.ioctlFailed)
    BY <1>1 DEF ManagerOK, InSlot
  <1>3. HeldOK(t)
    BY <1>1 DEF ManagerOK, HeldOK
  <1> QED
    BY <1>1, <1>2, <1>3 DEF ManagerOK, t

\* A new image is unchanged, and gets the options.
IsFresh(s, h, content) == Handler(h) /\ Agrees(h, s.opt, s.ioctlFailed) /\ h.content = content

LEMMA NewImage ==
    ASSUME NEW s, NEW kind \in {"atr", "atp"}, NEW name, NEW content
    PROVE  IsFresh(s, WithOptions(s, Image(kind, name, content, FALSE)), content)
  <1> DEFINE h == Image(kind, name, content, FALSE)
             o == WithOptions(s, h)
  <1>1. Handler(h) /\ h.kind = kind /\ h.content = content /\ h.saved = content
    BY DEF Image, Handler, HandlerFields
  <1> HIDE DEF h
  <1>2. o = IF kind = "atr" THEN [h EXCEPT !.opt = s.opt] ELSE h
    BY <1>1 DEF WithOptions
  <1> HIDE DEF o
  <1>3. Handler(o) /\ o.content = content /\ Agrees(o, s.opt, s.ioctlFailed)
    BY <1>1, <1>2 DEF Handler, HandlerFields, Agrees
  <1> QED
    BY <1>3 DEF o, h, IsFresh

LEMMA LoadedImage ==
    ASSUME NEW s, NEW f, ImageOf(s, f) # Empty
    PROVE  LET h == WithOptions(s, ImageOf(s, f))
           IN  /\ Handler(h) /\ Agrees(h, s.opt, s.ioctlFailed)
               /\ f \notin Programs => IsFresh(s, h, s.file[f])
  <1>1. CASE f \in Programs
    <2>1. ImageOf(s, f) = Image("atr", AtrOf(f), "a", FALSE)
      BY <1>1 DEF ImageOf
    <2>2. IsFresh(s, WithOptions(s, ImageOf(s, f)), "a")
      BY <2>1, NewImage, Zenon
    <2> QED
      BY <1>1, <2>2, Zenon DEF IsFresh
  <1>2. CASE f \notin Programs
    <2>1. ImageOf(s, f) = Image(IF f \in AtpFiles THEN "atp" ELSE "atr", f, s.file[f], FALSE)
      BY <1>2 DEF ImageOf
    <2> DEFINE kind == IF f \in AtpFiles THEN "atp" ELSE "atr"
               content == s.file[f]
    <2>2. kind \in {"atr", "atp"} /\ ImageOf(s, f) = Image(kind, f, content, FALSE)
      BY <2>1, Zenon
    <2>3. content = s.file[f]
      OBVIOUS
    <2> HIDE DEF kind, content
    <2>4. IsFresh(s, WithOptions(s, Image(kind, f, content, FALSE)), content)
      BY <2>2, NewImage, Zenon
    <2> QED
      BY <2>2, <2>3, <2>4, Zenon DEF IsFresh
  <1> QED
    BY <1>1, <1>2

\* What a method does to one drive leaves the others and the files alone.
OnlyDrive(s, t, d) ==
    t.file = s.file /\ t.lost = s.lost /\ \A e \in Drives \ {d} : t.slot[e] = s.slot[e]

LEMMA LoadIs ==
    ASSUME NEW s, ManagerOK(s), NEW d \in Drives, NEW f, NEW force \in BOOLEAN
    PROVE  LET r == LoadDiskImage(s, d, f, force)
           IN  Keeps(s, r.mgr) /\ OnlyDrive(s, r.mgr, d) /\ (r.ok => Handler(r.mgr.slot[d]))
  <1> DEFINE h == WithOptions(s, ImageOf(s, f))
  <1>1. CASE (DriveInUse(s, d) /\ ~force) \/ ImageOf(s, f) = Empty
    BY <1>1, DoneIs DEF LoadDiskImage, Keeps, OnlyDrive
  <1>2. CASE ~(DriveInUse(s, d) /\ ~force) /\ ImageOf(s, f) # Empty
    <2>1. LoadDiskImage(s, d, f, force) = Done(Register(s, d, h), TRUE)
      BY <1>2 DEF LoadDiskImage
    <2>2. Handler(h) /\ Agrees(h, s.opt, s.ioctlFailed)
      BY <1>2, LoadedImage
    <2> HIDE DEF h
    <2>3. ManagerOK(Register(s, d, h))
      BY <2>2, RegisterKeeps
    <2>4. /\ Register(s, d, h).opt = s.opt /\ Register(s, d, h).ioctlFailed = s.ioctlFailed
          /\ Register(s, d, h).slot[d] = h /\ OnlyDrive(s, Register(s, d, h), d)
      BY RegisterIs DEF ManagerOK, OnlyDrive
    <2>5. LoadDiskImage(s, d, f, force).mgr = Register(s, d, h)
      BY <2>1, DoneIs, Zenon
    <2> QED
      BY <2>2, <2>3, <2>4, <2>5 DEF Keeps
  <1> QED
    BY <1>1, <1>2

LEMMA CreateIs ==
    ASSUME NEW s, ManagerOK(s), NEW d \in Drives, NEW force \in BOOLEAN
    PROVE  LET r == CreateAtrMemoryImage(s, d, force)
           IN  Keeps(s, r.mgr) /\ (r.ok => Handler(r.mgr.slot[d]))
  <1> DEFINE h == WithOptions(s, Image("atr", NoName, "blank", FALSE))
  <1>1. CASE DriveInUse(s, d) /\ ~force
    BY <1>1, DoneIs DEF CreateAtrMemoryImage, Keeps
  <1>2. CASE ~(DriveInUse(s, d) /\ ~force)
    <2>1. CreateAtrMemoryImage(s, d, force) = Done(Register(s, d, h), TRUE)
      BY <1>2 DEF CreateAtrMemoryImage
    <2>2. IsFresh(s, h, "blank")
      BY NewImage, Zenon
    <2> HIDE DEF h
    <2>3. ManagerOK(Register(s, d, h))
      BY <2>2, RegisterKeeps DEF IsFresh
    <2>4. /\ Register(s, d, h).opt = s.opt /\ Register(s, d, h).ioctlFailed = s.ioctlFailed
          /\ Register(s, d, h).slot[d] = h
      BY RegisterIs DEF ManagerOK
    <2>5. CreateAtrMemoryImage(s, d, force).mgr = Register(s, d, h)
      BY <2>1, DoneIs, Zenon
    <2> QED
      BY <2>2, <2>3, <2>4, <2>5 DEF IsFresh, Keeps
  <1> QED
    BY <1>1, <1>2

\* A directory is put on an image.
LEMMA Shown ==
    ASSUME NEW h, Handler(h), NEW dir, NEW opt, NEW failed, Agrees(h, opt, failed)
    PROVE  LET v == [h EXCEPT !.virtual = TRUE, !.name = dir, !.content = "a"]
           IN  Handler(v) /\ Agrees(v, opt, failed)
  <1> DEFINE v == [h EXCEPT !.virtual = TRUE, !.name = dir, !.content = "a"]
  <1>1. /\ v = [x \in HandlerFields |-> v[x]] /\ v.virtual = TRUE
        /\ v.kind = h.kind /\ v.changed = h.changed /\ v.opt = h.opt
    BY DEF Handler, HandlerFields
  <1> HIDE DEF v
  <1> QED
    BY <1>1 DEF Handler, Agrees, v

LEMMA VirtualIs ==
    ASSUME NEW s, ManagerOK(s), NEW d \in Drives, NEW dir, NEW force \in BOOLEAN, NEW filled \in BOOLEAN
    PROVE  Keeps(s, CreateVirtualDrive(s, d, dir, force, filled).mgr)
  <1> DEFINE made == CreateAtrMemoryImage(s, d, force)
             u == made.mgr
             v == [u EXCEPT !.slot[d].virtual = TRUE, !.slot[d].name = dir, !.slot[d].content = "a"]
  <1>1. /\ ManagerOK(u) /\ u.opt = s.opt /\ u.ioctlFailed = s.ioctlFailed
        /\ made.ok => Handler(u.slot[d])
    BY CreateIs DEF Keeps
  <1>2. CASE ~made.ok
    BY <1>1, <1>2 DEF CreateVirtualDrive, Keeps
  <1>3. CASE made.ok /\ ~filled
    <2>1. CreateVirtualDrive(s, d, dir, force, filled).mgr = UnloadDiskImage(u, {d}).mgr
      BY <1>3, DoneIs DEF CreateVirtualDrive
    <2> HIDE DEF made, u
    <2>2. ManagerOK(UnloadDiskImage(u, {d}).mgr)
      BY <1>1, UnloadKeeps
    <2>3. UnloadDiskImage(u, {d}).mgr.opt = u.opt /\ UnloadDiskImage(u, {d}).mgr.ioctlFailed = u.ioctlFailed
      BY <1>1, UnloadIs DEF ManagerOK, Unloads
    <2> QED
      BY <1>1, <2>1, <2>2, <2>3 DEF Keeps
  <1>4. CASE made.ok /\ filled
    <2>1. CreateVirtualDrive(s, d, dir, force, filled).mgr = v
      BY <1>4, DoneIs DEF CreateVirtualDrive
    <2> HIDE DEF made, u
    <2> DEFINE h == [u.slot[d] EXCEPT !.virtual = TRUE, !.name = dir, !.content = "a"]
    <2>2. Handler(u.slot[d]) /\ Agrees(u.slot[d], u.opt, u.ioctlFailed)
      BY <1>1, <1>4, HandlerIsNotEmpty DEF ManagerOK, InSlot
    <2>3. Handler(h) /\ Agrees(h, u.opt, u.ioctlFailed)
      BY <2>2, Shown
    <2>4. v = [u EXCEPT !.slot[d] = h]
      BY <1>1 DEF ManagerOK, Shape
    <2>5. /\ Shape(v) /\ v.opt = u.opt /\ v.ioctlFailed = u.ioctlFailed /\ v.held = u.held
          /\ \A e \in Drives : v.slot[e] = IF e = d THEN h ELSE u.slot[e]
      <3> HIDE DEF h, v
      <3> DEFINE slot == [u.slot EXCEPT ![d] = h]
      <3>1. slot = [e \in Drives |-> slot[e]] /\ \A e \in Drives : slot[e] = IF e = d THEN h ELSE u.slot[e]
        <4>1. DOMAIN slot = Drives /\ \A e \in Drives : slot[e] = IF e = d THEN h ELSE u.slot[e]
          BY <1>1 DEF ManagerOK, Shape
        <4> QED
          BY <1>1, <4>1 DEF ManagerOK, Shape
      <3>2. v = [u EXCEPT !.slot = slot]
        BY <2>4, Zenon
      <3> HIDE DEF slot
      <3> QED
        BY <1>1, <3>1, <3>2, SetSlot DEF ManagerOK
    <2> HIDE DEF h, v
    <2>6. HeldOK(v) /\ \A e \in Drives : InSlot(v.slot[e], v.opt, v.ioctlFailed)
      BY <1>1, <2>3, <2>5, HandlerIsNotEmpty DEF ManagerOK, InSlot, HeldOK
    <2> QED
      BY <1>1, <2>1, <2>5, <2>6 DEF ManagerOK, Keeps
  <1> QED
    BY <1>2, <1>3, <1>4

\* Activity and write protection are nobody else's business.
LEMMA Marked ==
    ASSUME NEW h, NEW opt, NEW failed, InSlot(h, opt, failed), NEW a, NEW w
    PROVE  LET k == [h EXCEPT !.active = a, !.wp = w]
           IN  InSlot(k, opt, failed) /\ (h # Empty => k # Empty /\ k.content = h.content)
  <1> DEFINE k == [h EXCEPT !.active = a, !.wp = w]
  <1>1. CASE h = Empty
    <2>1. k = Empty
      BY <1>1 DEF Empty
    <2> QED
      BY <1>1, <2>1 DEF InSlot
  <1>2. CASE Handler(h) /\ Agrees(h, opt, failed)
    <2>1. /\ k = [x \in HandlerFields |-> k[x]] /\ k.virtual = h.virtual /\ k.content = h.content
          /\ k.kind = h.kind /\ k.changed = h.changed /\ k.opt = h.opt /\ k.saved = h.saved
      BY <1>2 DEF Handler, HandlerFields
    <2> HIDE DEF k
    <2>2. Handler(k) /\ Agrees(k, opt, failed)
      BY <1>2, <2>1 DEF Handler, Agrees
    <2>3. k # Empty
      BY <2>2, HandlerIsNotEmpty
    <2> QED
      BY <2>1, <2>2, <2>3 DEF InSlot, k
  <1> QED
    BY <1>1, <1>2 DEF InSlot

\* A drive with changes that are not saved is not among those that reload.
SparesChanges(s, t) == \A d \in Drives : Unsaved(s.slot[d]) => t.slot[d] = s.slot[d]

LEMMA ReloadIs ==
    ASSUME NEW s, ManagerOK(s), NEW D, NEW filled
    PROVE  LET t == ReloadDrive(s, D, filled).mgr
           IN  Keeps(s, t) /\ SparesChanges(s, t)
  <1> DEFINE again == {d \in D : Reloads(s.slot[d])}
             gone  == UnloadDiskImage(s, again).mgr
             one   == [d \in again |->
                          LET h == s.slot[d]
                          IN  IF h.virtual THEN CreateVirtualDrive(gone, d, h.name, FALSE, d \in filled)
                              ELSE LoadDiskImage(gone, d, h.name, FALSE)]
             kept(d) == LET h == one[d].mgr.slot[d]
                        IN  IF one[d].ok /\ ~h.virtual
                            THEN [h EXCEPT !.active = s.slot[d].active, !.wp = s.slot[d].wp] ELSE h
             slot == [d \in Drives |-> IF d \in again THEN kept(d) ELSE gone.slot[d]]
             t == [gone EXCEPT !.slot = slot]
  <1>1. ReloadDrive(s, D, filled).mgr = t
    BY DoneIs, Zenon DEF ReloadDrive
  <1>2. \A d \in Drives : Unsaved(s.slot[d]) => d \notin again
    BY DEF Unsaved, Reloads, ManagerOK, InSlot, Handler
  <1>3. /\ ManagerOK(gone) /\ gone.opt = s.opt /\ gone.ioctlFailed = s.ioctlFailed
        /\ gone.held = IF s.held \in again THEN NoDrive ELSE s.held
        /\ \A d \in Drives : gone.slot[d] = IF d \in again THEN Empty ELSE s.slot[d]
    <2>1. Shape(s)
      BY DEF ManagerOK
    <2> HIDE DEF again
    <2>2. ManagerOK(gone)
      BY UnloadKeeps, Zenon
    <2>3. Unloads(s, gone, again)
      BY <2>1, UnloadIs, Zenon
    <2> QED
      BY <2>2, <2>3, Zenon DEF Unloads
  <1>4. ASSUME NEW d \in Drives, d \in again
        PROVE  InSlot(kept(d), s.opt, s.ioctlFailed)
    <2>1. one[d] = IF s.slot[d].virtual THEN CreateVirtualDrive(gone, d, s.slot[d].name, FALSE, d \in filled)
                   ELSE LoadDiskImage(gone, d, s.slot[d].name, FALSE)
      BY <1>4, Zenon
    <2>2. ManagerOK(one[d].mgr) /\ one[d].mgr.opt = s.opt /\ one[d].mgr.ioctlFailed = s.ioctlFailed
      <3> HIDE DEF gone, one
      <3>1. CASE s.slot[d].virtual
        <4>1. one[d] = CreateVirtualDrive(gone, d, s.slot[d].name, FALSE, d \in filled)
          BY <2>1, <3>1, Zenon
        <4>2. (d \in filled) \in BOOLEAN
          OBVIOUS
        <4>3. Keeps(gone, one[d].mgr)
          BY <1>3, <4>1, <4>2, VirtualIs, Zenon
        <4> QED
          BY <1>3, <4>3, Zenon DEF Keeps
      <3>2. CASE ~s.slot[d].virtual
        <4>1. one[d] = LoadDiskImage(gone, d, s.slot[d].name, FALSE)
          BY <2>1, <3>2, Zenon
        <4>2. Keeps(gone, one[d].mgr)
          BY <1>3, <4>1, LoadIs, Zenon
        <4> QED
          BY <1>3, <4>2, Zenon DEF Keeps
      <3> QED
        BY <3>1, <3>2
    <2> DEFINE h == one[d].mgr.slot[d]
    <2>3. InSlot(h, s.opt, s.ioctlFailed)
      <3> HIDE DEF one
      <3> QED
        BY <2>2 DEF ManagerOK
    <2>4. kept(d) = h \/ kept(d) = [h EXCEPT !.active = s.slot[d].active, !.wp = s.slot[d].wp]
      BY Zenon
    <2> HIDE DEF h, one, kept
    <2>5. InSlot([h EXCEPT !.active = s.slot[d].active, !.wp = s.slot[d].wp], s.opt, s.ioctlFailed)
      BY <2>3, Marked, Zenon
    <2> QED
      BY <2>3, <2>4, <2>5, Zenon
  <1>5. slot = [d \in Drives |-> slot[d]] /\ \A d \in Drives : slot[d] = IF d \in again THEN kept(d) ELSE gone.slot[d]
    BY Zenon
  <1> HIDE DEF again, gone, one, kept, slot
  <1>6. Shape(t) /\ t.slot = slot /\ t.opt = s.opt /\ t.ioctlFailed = s.ioctlFailed /\ t.held = gone.held
    BY <1>3, <1>5, SetSlot DEF ManagerOK
  <1> HIDE DEF t
  <1>7. \A d \in Drives : InSlot(t.slot[d], t.opt, t.ioctlFailed)
    BY <1>3, <1>4, <1>5, <1>6 DEF ManagerOK
  <1>8. HeldOK(t)
    BY <1>3, <1>5, <1>6, DrivesKnown DEF ManagerOK, HeldOK
  <1> QED
    BY <1>1, <1>2, <1>3, <1>5, <1>6, <1>7, <1>8 DEF ManagerOK, Keeps, SparesChanges

-----------------------------------------------------------------------------
(* Saving.                                                                 *)

\* What a drive holds, whether it counts as saved or not.
Same(h, k) ==
    /\ h = Empty <=> k = Empty
    /\ k.content = h.content /\ k.kind = h.kind /\ k.name = h.name /\ k.virtual = h.virtual
SameSlots(s, t) == \A e \in Drives : Same(s.slot[e], t.slot[e])

LEMMA SavedHandler ==
    ASSUME NEW h, NEW opt, NEW failed, Handler(h), Agrees(h, opt, failed), NEW wrote \in BOOLEAN
    PROVE  LET k == [h EXCEPT !.changed = h.changed /\ ~wrote, !.saved = IF ~wrote THEN h.saved ELSE h.content]
           IN  Handler(k) /\ Agrees(k, opt, failed) /\ Same(h, k)
  <1> DEFINE changed == h.changed /\ ~wrote
             saved == IF ~wrote THEN h.saved ELSE h.content
             k == [h EXCEPT !.changed = changed, !.saved = saved]
  <1>1. changed \in BOOLEAN /\ (~h.virtual /\ ~changed => h.content = saved)
    BY DEF Handler
  <1> HIDE DEF changed, saved
  <1>2. /\ k = [x \in HandlerFields |-> k[x]] /\ k.changed = changed /\ k.saved = saved /\ k.opt = h.opt
        /\ k.content = h.content /\ k.kind = h.kind /\ k.name = h.name /\ k.virtual = h.virtual
    BY DEF Handler, HandlerFields
  <1> HIDE DEF k
  <1>3. Handler(k) /\ Agrees(k, opt, failed)
    BY <1>1, <1>2 DEF Handler, Agrees
  <1>4. Same(h, k)
    BY <1>2, <1>3, HandlerIsNotEmpty DEF Same
  <1> QED
    BY <1>3, <1>4 DEF k, changed, saved

Saves(s, t, d, f, outcome) ==
    /\ Keeps(s, t) /\ SameSlots(s, t)
    /\ outcome = "written" /\ f \in Files => t.file[f] = s.slot[d].content
    /\ outcome = "lost" => t.lost

LEMMA SaveIs ==
    ASSUME NEW s, ManagerOK(s), NEW d \in Drives, s.slot[d] # Empty, NEW f, NEW outcome
    PROVE  Saves(s, Save(s, d, f, outcome), d, f, outcome)
  <1> DEFINE h == s.slot[d]
             wrote == ~(outcome = "failed")
             k == [h EXCEPT !.changed = h.changed /\ ~wrote, !.saved = IF ~wrote THEN h.saved ELSE h.content]
             slot == [s.slot EXCEPT ![d] = k]
             on == CASE outcome = "written" -> h.content
                     [] outcome = "lost"    -> Damaged
                     [] OTHER -> IF f \in AtpFiles THEN Damaged ELSE Missing
             file == [s.file EXCEPT ![f] = on]
             lost == s.lost \/ outcome = "lost"
             t == Save(s, d, f, outcome)
  <1>1. Handler(h) /\ Agrees(h, s.opt, s.ioctlFailed) /\ wrote \in BOOLEAN /\ lost \in BOOLEAN
    BY HandlerIsNotEmpty DEF ManagerOK, InSlot
  <1>2. Handler(k) /\ Agrees(k, s.opt, s.ioctlFailed) /\ Same(h, k)
    <2> HIDE DEF h, wrote
    <2> QED
      BY <1>1, SavedHandler, Zenon
  <1>3. slot = [e \in Drives |-> slot[e]] /\ \A e \in Drives : slot[e] = IF e = d THEN k ELSE s.slot[e]
    <2> HIDE DEF h, k
    <2>1. DOMAIN slot = Drives /\ \A e \in Drives : slot[e] = IF e = d THEN k ELSE s.slot[e]
      BY DEF ManagerOK, Shape
    <2> QED
      BY <2>1 DEF ManagerOK, Shape
  <1>4. file = [g \in Files |-> file[g]] /\ (f \in Files => file[f] = on)
    <2> HIDE DEF on
    <2> QED
      BY DEF ManagerOK, Shape
  <1>5. outcome = "written" => on = h.content
    BY Zenon
  <1>6. /\ Shape(t) /\ t.slot = slot /\ t.file = file /\ t.lost = lost
        /\ t.opt = s.opt /\ t.ioctlFailed = s.ioctlFailed /\ t.held = s.held
    <2> DEFINE changed == h.changed /\ outcome = "failed"
               saved == IF outcome = "failed" THEN h.saved ELSE h.content
               s1 == [s EXCEPT !.file[f] = on]
               s2 == [s1 EXCEPT !.slot[d].changed = changed]
               s3 == [s2 EXCEPT !.slot[d].saved = saved]
    <2>1. t = [s3 EXCEPT !.lost = lost]
      BY Zenon DEF Save
    <2>2. /\ Shape(s1) /\ s1.slot = s.slot /\ s1.file = file /\ s1.lost = s.lost
          /\ s1.opt = s.opt /\ s1.ioctlFailed = s.ioctlFailed /\ s1.held = s.held
      <3>1. s1 = [s EXCEPT !.file = file]
        BY Zenon
      <3> HIDE DEF s1, file, on
      <3> QED
        BY <1>4, <3>1 DEF ManagerOK, Shape, ManagerFields
    <2> DEFINE h2 == [h EXCEPT !.changed = changed]
               h3 == [h2 EXCEPT !.saved = saved]
               slot2 == [s.slot EXCEPT ![d] = h2]
    <2>3. h2.saved = h.saved /\ h3 = k
      BY <1>1 DEF Handler, HandlerFields
    <2>4. /\ Shape(s2) /\ s2.slot = slot2 /\ s2.file = file /\ s2.lost = s.lost
          /\ s2.opt = s.opt /\ s2.ioctlFailed = s.ioctlFailed /\ s2.held = s.held
      <3> HIDE DEF s1, file
      <3>1. s2 = [s1 EXCEPT !.slot = slot2]
        BY <2>2, Zenon
      <3>2. slot2 = [e \in Drives |-> slot2[e]]
        <4> HIDE DEF h2
        <4> QED
          BY DEF ManagerOK, Shape
      <3> HIDE DEF s2, slot2
      <3> QED
        BY <2>2, <3>1, <3>2, SetSlot
    <2>5. slot2[d] = h2
      BY DEF ManagerOK, Shape
    <2>6. /\ Shape(s3) /\ s3.slot = slot /\ s3.file = file /\ s3.lost = s.lost
          /\ s3.opt = s.opt /\ s3.ioctlFailed = s.ioctlFailed /\ s3.held = s.held
      <3>1. s3 = [s2 EXCEPT !.slot = [slot2 EXCEPT ![d] = [h2 EXCEPT !.saved = saved]]]
        <4> HIDE DEF s2, slot2, h2
        <4> QED
          BY <2>3, <2>4, <2>5, Zenon
      <3>2. [slot2 EXCEPT ![d] = [h2 EXCEPT !.saved = saved]] = slot
        <4> HIDE DEF k, h2, saved
        <4> QED
          BY <2>3 DEF ManagerOK, Shape
      <3> HIDE DEF s2, s3, slot
      <3> QED
        BY <1>3, <2>4, <3>1, <3>2, SetSlot
    <2> HIDE DEF t, s3, slot, file
    <2> HIDE DEF lost
    <2> QED
      BY <1>1, <2>1, <2>6 DEF Shape, ManagerFields
  <1> HIDE DEF k, slot, file, lost, t, on
  <1>8. SameSlots(s, t)
    BY <1>2, <1>3, <1>6 DEF SameSlots, Same
  <1>9. \A e \in Drives : InSlot(t.slot[e], t.opt, t.ioctlFailed)
    BY <1>2, <1>3, <1>6 DEF ManagerOK, InSlot
  <1>10. HeldOK(t)
    BY <1>6, <1>8 DEF ManagerOK, HeldOK, SameSlots, Same
  <1> QED
    BY <1>4, <1>5, <1>6, <1>8, <1>9, <1>10 DEF Saves, Keeps, ManagerOK, lost, t

LEMMA WriteBackIs ==
    ASSUME NEW s, ManagerOK(s), NEW d \in Drives, NEW outcome
    PROVE  Keeps(s, WriteBackImage(s, d, outcome).mgr)
  <1>1. CASE CanWriteBack(s, d)
    <2>1. WriteBackImage(s, d, outcome).mgr = Save(s, d, s.slot[d].name, outcome)
      BY <1>1, DoneIs, Zenon DEF WriteBackImage
    <2>2. s.slot[d] # Empty
      BY <1>1 DEF CanWriteBack, DriveInUse
    <2>3. Saves(s, Save(s, d, s.slot[d].name, outcome), d, s.slot[d].name, outcome)
      BY <2>2, SaveIs, Zenon
    <2> QED
      BY <2>1, <2>3, Zenon DEF Saves
  <1>2. CASE ~CanWriteBack(s, d)
    <2>1. WriteBackImage(s, d, outcome).mgr = s
      BY <1>2, DoneIs, Zenon DEF WriteBackImage
    <2> QED
      BY <2>1 DEF Keeps
  <1> QED
    BY <1>1, <1>2

\* What one more drive makes of the state that the drives before it left.
WriteOne(s, outcome, u, t) ==
    IF t \in {d \in Drives : d <= t /\ CanWriteBack(s, d) /\ s.slot[d].changed}
    THEN Save(u, t, s.slot[t].name, outcome[t]) ELSE u

LEMMA WriteOneIs ==
    ASSUME NEW s, NEW outcome, NEW u, ManagerOK(s), ManagerOK(u), Keeps(s, u), SameSlots(s, u), NEW t
    PROVE  Keeps(s, WriteOne(s, outcome, u, t)) /\ SameSlots(s, WriteOne(s, outcome, u, t))
  <1> DEFINE v == Save(u, t, s.slot[t].name, outcome[t])
  <1>1. CASE t \in {d \in Drives : d <= t /\ CanWriteBack(s, d) /\ s.slot[d].changed}
    <2>1. WriteOne(s, outcome, u, t) = v
      BY <1>1, Zenon DEF WriteOne
    <2>2. t \in Drives /\ u.slot[t] # Empty
      BY <1>1 DEF CanWriteBack, DriveInUse, SameSlots, Same
    <2>3. Saves(u, v, t, s.slot[t].name, outcome[t])
      BY <2>2, SaveIs, Zenon
    <2> HIDE DEF v
    <2>4. Keeps(s, v) /\ SameSlots(s, v)
      BY <2>3 DEF Saves, Keeps, SameSlots, Same
    <2> QED
      BY <2>1, <2>4
  <1>2. CASE ~(t \in {d \in Drives : d <= t /\ CanWriteBack(s, d) /\ s.slot[d].changed})
    BY <1>2, Zenon DEF WriteOne
  <1> QED
    BY <1>1, <1>2

LEMMA WriteAllIs ==
    ASSUME NEW s, ManagerOK(s), NEW outcome
    PROVE  LET t == WriteBackImagesIfChanged(s, outcome).mgr IN Keeps(s, t) /\ SameSlots(s, t)
  <1> DEFINE write == [t \in Drives \cup {0} |-> {d \in Drives : d <= t /\ CanWriteBack(s, d) /\ s.slot[d].changed}]
             upto[t \in Drives \cup {0}] ==
                 IF t = 0 THEN s
                 ELSE IF t \in write[t] THEN Save(upto[t - 1], t, s.slot[t].name, outcome[t])
                 ELSE upto[t - 1]
             last == CHOOSE t \in Drives : \A d \in Drives : d <= t
  <1>1. WriteBackImagesIfChanged(s, outcome).mgr = upto[last]
    BY DoneIs, Zenon DEF WriteBackImagesIfChanged
  <1>2. PICK n \in Nat \ {0} : Drives = 1 .. n
    BY ManagerAssumption
  <1>3. Drives \cup {0} = 0 .. n
    BY <1>2
  <1>4. last \in Drives
    <2>1. n \in Drives /\ \A d \in Drives : d <= n
      BY <1>2
    <2> QED
      BY <2>1, Zenon
  \* The recursion has a solution.
  <1> DEFINE Solves(f, m) ==
                 /\ f = [t \in 0 .. m |-> f[t]] /\ f[0] = s
                 /\ \A t \in 1 .. m : f[t] = WriteOne(s, outcome, f[t - 1], t)
             S == {m \in Nat : \E f : Solves(f, m)}
  <1>5. 0 \in S
    <2>1. Solves([t \in 0 .. 0 |-> s], 0)
      OBVIOUS
    <2> HIDE DEF Solves
    <2> QED
      BY <2>1
  <1>6. ASSUME NEW m \in Nat, m \in S PROVE m + 1 \in S
    <2>1. PICK f : Solves(f, m)
      BY <1>6
    <2> DEFINE v == WriteOne(s, outcome, f[m], m + 1)
               g == [t \in 0 .. m + 1 |-> IF t = m + 1 THEN v ELSE f[t]]
    <2> HIDE DEF v
    <2>2. g = [t \in 0 .. m + 1 |-> g[t]] /\ g[0] = s
      BY <2>1
    <2>3. \A t \in 0 .. m : g[t] = f[t]
      OBVIOUS
    <2>4. g[m + 1] = v /\ (m + 1) - 1 = m /\ g[m] = f[m]
      OBVIOUS
    <2> HIDE DEF g
    <2>5. ASSUME NEW t \in 1 .. m + 1 PROVE g[t] = WriteOne(s, outcome, g[t - 1], t)
      <3>1. CASE t = m + 1
        BY <2>4, <3>1 DEF v
      <3>2. CASE t # m + 1
        <4>1. t \in 1 .. m /\ t \in 0 .. m /\ t - 1 \in 0 .. m
          BY <3>2
        <4>2. f[t] = WriteOne(s, outcome, f[t - 1], t)
          BY <2>1, <4>1
        <4> QED
          BY <2>3, <4>1, <4>2
      <3> QED
        BY <3>1, <3>2
    <2>6. Solves(g, m + 1)
      BY <2>2, <2>5
    <2> HIDE DEF Solves
    <2> QED
      BY <2>6
  <1>7. n \in S
    <2> HIDE DEF S
    <2> QED
      BY <1>2, <1>5, <1>6, SetInduction
  <1>8. PICK f : Solves(f, n)
    BY <1>7
  <1>9. f = [t \in Drives \cup {0} |->
                IF t = 0 THEN s
                ELSE IF t \in write[t] THEN Save(f[t - 1], t, s.slot[t].name, outcome[t])
                ELSE f[t - 1]]
    <2>1. f[0] = s /\ \A t \in Drives \cup {0} : t # 0 => f[t] = WriteOne(s, outcome, f[t - 1], t)
      BY <1>2, <1>8
    <2>2. \A t \in Drives \cup {0} : write[t] = {d \in Drives : d <= t /\ CanWriteBack(s, d) /\ s.slot[d].changed}
      BY Zenon
    <2>3. \A t \in Drives \cup {0} : f[t] = IF t = 0 THEN s
                ELSE IF t \in write[t] THEN Save(f[t - 1], t, s.slot[t].name, outcome[t])
                ELSE f[t - 1]
      <3> HIDE DEF write
      <3> SUFFICES ASSUME NEW t \in Drives \cup {0}
                   PROVE  f[t] = IF t = 0 THEN s
                                 ELSE IF t \in write[t] THEN Save(f[t - 1], t, s.slot[t].name, outcome[t])
                                 ELSE f[t - 1]
        OBVIOUS
      <3>1. CASE t = 0
        BY <2>1, <3>1
      <3>2. CASE t # 0
        BY <2>1, <2>2, <3>2, Zenon DEF WriteOne
      <3> QED
        BY <3>1, <3>2
    <2> HIDE DEF write
    <2> QED
      BY <1>3, <1>8, <2>3, Zenon
  <1>10. upto = [t \in Drives \cup {0} |->
                IF t = 0 THEN s
                ELSE IF t \in write[t] THEN Save(upto[t - 1], t, s.slot[t].name, outcome[t])
                ELSE upto[t - 1]]
    <2> HIDE DEF write
    <2> QED
      BY <1>9, Zenon
  <1>11. upto[0] = s /\ \A t \in Drives : upto[t] = WriteOne(s, outcome, upto[t - 1], t)
    <2> HIDE DEF upto
    <2> QED
      BY <1>3, <1>10, DrivesKnown, Zenon DEF WriteOne, NoDrive
  <1> HIDE DEF write, upto, last
  <1> DEFINE P(u) == Keeps(s, u) /\ SameSlots(s, u)
             U == {m \in Nat : m <= n => P(upto[m])}
  <1>12. 0 \in U
    BY <1>11 DEF Keeps, SameSlots, Same
  <1>13. ASSUME NEW m \in Nat, m \in U PROVE m + 1 \in U
    <2> SUFFICES ASSUME m + 1 <= n PROVE P(upto[m + 1])
      OBVIOUS
    <2>1. m + 1 \in Drives /\ (m + 1) - 1 = m /\ m <= n
      BY <1>2
    <2>2. upto[m + 1] = WriteOne(s, outcome, upto[m], m + 1)
      BY <1>11, <2>1
    <2>3. P(upto[m]) /\ ManagerOK(upto[m])
      BY <1>13, <2>1 DEF Keeps
    <2> QED
      BY <2>2, <2>3, WriteOneIs, Zenon
  <1>14. last \in U
    <2> HIDE DEF U
    <2> QED
      BY <1>2, <1>4, <1>12, <1>13, SetInduction
  <1>15. P(upto[last])
    BY <1>2, <1>4, <1>14
  <1> QED
    BY <1>1, <1>15

\* Changes are still in a drive, or in a file.
Kept(s, t) ==
    \A d \in Drives : Unsaved(s.slot[d]) =>
        \/ \E e \in Drives : t.slot[e] # Empty /\ t.slot[e].content = s.slot[d].content
        \/ \E f \in Files : t.file[f] = s.slot[d].content

LEMMA SameIsKept == \A s, t : SameSlots(s, t) => Kept(s, t)
  BY DEF SameSlots, Same, Kept, Unsaved

LEMMA Renamed ==
    ASSUME NEW h, Handler(h), NEW name, NEW opt, NEW failed, Agrees(h, opt, failed)
    PROVE  LET k == [h EXCEPT !.name = name]
           IN  Handler(k) /\ Agrees(k, opt, failed) /\ k.content = h.content
  <1> DEFINE k == [h EXCEPT !.name = name]
  <1>1. /\ k = [x \in HandlerFields |-> k[x]] /\ k.virtual = h.virtual /\ k.content = h.content
        /\ k.kind = h.kind /\ k.changed = h.changed /\ k.opt = h.opt /\ k.saved = h.saved
    BY DEF Handler, HandlerFields
  <1> HIDE DEF k
  <1> QED
    BY <1>1 DEF Handler, Agrees, k

LEMMA RenameIs ==
    ASSUME NEW s, ManagerOK(s), NEW d \in Drives, s.slot[d] # Empty, NEW name
    PROVE  LET t == [s EXCEPT !.slot[d].name = name] IN Keeps(s, t) /\ Kept(s, t)
  <1> DEFINE h == [s.slot[d] EXCEPT !.name = name]
             slot == [s.slot EXCEPT ![d] = h]
             t == [s EXCEPT !.slot[d].name = name]
  <1>1. Handler(s.slot[d]) /\ Agrees(s.slot[d], s.opt, s.ioctlFailed)
    BY DEF ManagerOK, InSlot
  <1>2. Handler(h) /\ Agrees(h, s.opt, s.ioctlFailed) /\ h.content = s.slot[d].content
    BY <1>1, Renamed
  <1>3. slot = [e \in Drives |-> slot[e]] /\ \A e \in Drives : slot[e] = IF e = d THEN h ELSE s.slot[e]
    <2> HIDE DEF h
    <2>1. DOMAIN slot = Drives /\ \A e \in Drives : slot[e] = IF e = d THEN h ELSE s.slot[e]
      BY DEF ManagerOK, Shape
    <2> QED
      BY <2>1 DEF ManagerOK, Shape
  <1>4. t = [s EXCEPT !.slot = slot]
    BY Zenon
  <1> HIDE DEF h, slot, t
  <1>5. Shape(t) /\ t.slot = slot /\ t.opt = s.opt /\ t.ioctlFailed = s.ioctlFailed /\ t.held = s.held
    BY <1>3, <1>4, SetSlot DEF ManagerOK
  <1>6. \A e \in Drives : InSlot(t.slot[e], t.opt, t.ioctlFailed)
    BY <1>2, <1>3, <1>5 DEF ManagerOK, InSlot
  <1>7. HeldOK(t)
    BY <1>2, <1>3, <1>5, HandlerIsNotEmpty DEF ManagerOK, HeldOK
  <1>8. Kept(s, t)
    BY <1>2, <1>3, <1>5, HandlerIsNotEmpty DEF Kept, Unsaved
  <1> QED
    BY <1>5, <1>6, <1>7, <1>8 DEF Keeps, ManagerOK, t

\* An image under another name is still there, and an image converted is
\* in its file.
LEMMA WriteDiskIs ==
    ASSUME NEW s, ManagerOK(s), NEW d \in Drives, NEW f, NEW outcome
    PROVE  LET t == WriteDiskImage(s, d, f, outcome).mgr
           IN  /\ Keeps(s, t)
               /\ f \in Files /\ outcome \in Outcomes => Kept(s, t) \/ t.lost
  <1> DEFINE h == s.slot[d]
             t == Save(s, d, f, outcome)
             r == WriteDiskImage(s, d, f, outcome).mgr
  <1>1. CASE h = Empty \/ (h.kind = "atp" /\ f \notin AtpFiles)
    <2>1. r = s
      BY <1>1, DoneIs, Zenon DEF WriteDiskImage
    <2> QED
      BY <2>1 DEF Keeps, Kept, Unsaved
  <1> SUFFICES ASSUME ~(h = Empty \/ (h.kind = "atp" /\ f \notin AtpFiles))
               PROVE  Keeps(s, r) /\ (f \in Files /\ outcome \in Outcomes => Kept(s, r) \/ r.lost)
    BY <1>1
  <1>2. Saves(s, t, d, f, outcome)
    BY SaveIs, Zenon
  <1>3. CASE outcome = "failed"
    <2>1. r = t
      BY <1>3, DoneIs, Zenon DEF WriteDiskImage
    <2> HIDE DEF t, r
    <2> QED
      BY <1>2, <2>1, SameIsKept DEF Saves
  <1>4. CASE outcome # "failed" /\ f \in AtpFiles /\ h.kind # "atp"
    <2> DEFINE gone == UnloadDiskImage(t, {d}).mgr
    <2>1. r = LoadDiskImage(gone, d, f, FALSE).mgr
      BY <1>4, Zenon DEF WriteDiskImage
    <2> HIDE DEF t, r
    <2>2. ManagerOK(t) /\ Shape(t) /\ t.opt = s.opt /\ t.ioctlFailed = s.ioctlFailed
      BY <1>2 DEF Saves, Keeps, ManagerOK
    <2>3. ManagerOK(gone) /\ Unloads(t, gone, {d})
      BY <2>2, UnloadIs, UnloadKeeps, Zenon
    <2> HIDE DEF gone
    <2>4. Keeps(gone, r) /\ OnlyDrive(gone, r, d)
      BY <2>1, <2>3, LoadIs, Zenon
    <2>5. Keeps(s, r)
      BY <2>2, <2>3, <2>4 DEF Keeps, Unloads
    <2>6. \A e \in Drives \ {d} : Same(s.slot[e], r.slot[e])
      BY <1>2, <2>3, <2>4 DEF Unloads, OnlyDrive, Saves, SameSlots
    <2>7. r.file = t.file /\ r.lost = t.lost
      BY <2>3, <2>4 DEF Unloads, OnlyDrive
    <2>8. ASSUME f \in Files, outcome \in Outcomes PROVE Kept(s, r) \/ r.lost
      <3>1. r.file[f] = h.content \/ r.lost
        BY <1>2, <1>4, <2>7, <2>8 DEF Saves, Outcomes
      <3> QED
        BY <2>6, <2>8, <3>1 DEF Kept, Same, Unsaved
    <2> QED
      BY <2>5, <2>8
  <1>5. CASE outcome # "failed" /\ ~(f \in AtpFiles /\ h.kind # "atp")
    <2>1. r = IF h.virtual THEN t ELSE [t EXCEPT !.slot[d].name = f]
      BY <1>5, DoneIs, Zenon DEF WriteDiskImage
    <2> HIDE DEF t, r
    <2>2. ManagerOK(t) /\ t.slot[d] # Empty
      BY <1>2 DEF Saves, Keeps, SameSlots, Same
    <2> DEFINE u == [t EXCEPT !.slot[d].name = f]
    <2>3. Keeps(t, u) /\ Kept(t, u)
      BY <2>2, RenameIs, Zenon
    <2>4. \A e \in Drives : u.slot[e] = IF e = d THEN [t.slot[d] EXCEPT !.name = f] ELSE t.slot[e]
      BY <2>2 DEF ManagerOK, Shape, ManagerFields
    <2>5. u.slot[d].content = t.slot[d].content /\ u.slot[d] # Empty
      <3>1. Handler(t.slot[d]) /\ Agrees(t.slot[d], t.opt, t.ioctlFailed)
        BY <2>2 DEF ManagerOK, InSlot
      <3>2. Handler(u.slot[d]) /\ u.slot[d].content = t.slot[d].content
        BY <2>4, <3>1, Renamed
      <3> QED
        BY <3>2, HandlerIsNotEmpty
    <2> HIDE DEF u
    <2>6. Keeps(s, u)
      BY <1>2, <2>3 DEF Saves, Keeps
    <2>7. Kept(s, u)
      BY <1>2, <2>4, <2>5 DEF Saves, SameSlots, Same, Kept, Unsaved
    <2>8. Keeps(s, t) /\ Kept(s, t)
      BY <1>2, SameIsKept DEF Saves
    <2>9. r = t \/ r = u
      BY <2>1 DEF u
    <2> QED
      BY <2>6, <2>7, <2>8, <2>9
  <1> QED
    BY <1>3, <1>4, <1>5

-----------------------------------------------------------------------------
(* The rest of the manager.                                                *)

\* What is neither in a slot nor an option has no say in all this.
LEMMA OthersAre ==
    ASSUME NEW s, ManagerOK(s), NEW t, Shape(t), t.slot = s.slot, t.held = s.held,
           t.opt = s.opt, t.ioctlFailed = s.ioctlFailed \/ t.ioctlFailed = TRUE
    PROVE  ManagerOK(t) /\ Kept(s, t)
  <1>1. \A d \in Drives : InSlot(t.slot[d], t.opt, t.ioctlFailed)
    BY DEF ManagerOK, InSlot, Agrees
  <1>2. Kept(s, t)
    BY DEF Kept, Unsaved
  <1>3. HeldOK(t)
    BY DEF ManagerOK, HeldOK
  <1> QED
    BY <1>1, <1>2, <1>3 DEF ManagerOK

LEMMA PrinterIs ==
    ASSUME NEW s, ManagerOK(s), NEW p
    PROVE  LET t == [s EXCEPT !.printer = p] IN ManagerOK(t) /\ Kept(s, t)
  <1> DEFINE t == [s EXCEPT !.printer = p]
  <1>1. /\ Shape(t) /\ t.slot = s.slot /\ t.held = s.held /\ t.opt = s.opt
        /\ t.ioctlFailed = s.ioctlFailed
    BY DEF ManagerOK, Shape, ManagerFields
  <1> QED
    BY <1>1, OthersAre, Zenon

LEMMA NothingIs == \A s : ManagerOK(s) => Kept(s, s)
  BY DEF Kept, Unsaved

LEMMA PrinterCalls ==
    ASSUME NEW s, ManagerOK(s), NEW conv, NEW opened, NEW on
    PROVE  /\ LET t == InstallPrinterHandler(s, conv, opened).mgr IN ManagerOK(t) /\ Kept(s, t)
           /\ LET t == RemovePrinterHandler(s).mgr IN ManagerOK(t) /\ Kept(s, t)
           /\ LET t == ActivatePrinter(s, on).mgr IN ManagerOK(t) /\ Kept(s, t)
           /\ FlushPrinterData(s).mgr = s
  <1>1. InstallPrinterHandler(s, conv, opened).mgr \in {s, [s EXCEPT !.printer = [conv |-> conv, active |-> TRUE]]}
    BY DoneIs DEF InstallPrinterHandler
  <1>2. RemovePrinterHandler(s).mgr \in {s, [s EXCEPT !.printer = NoPrinter]}
    BY DoneIs DEF RemovePrinterHandler
  <1>3. ActivatePrinter(s, on).mgr = [s EXCEPT !.printer = [s.printer EXCEPT !.active = on]]
    BY DoneIs, Zenon DEF ActivatePrinter
  <1>4. FlushPrinterData(s).mgr = s
    BY DoneIs, Zenon DEF FlushPrinterData
  <1>5. ASSUME NEW p PROVE ManagerOK([s EXCEPT !.printer = p]) /\ Kept(s, [s EXCEPT !.printer = p])
    BY PrinterIs, Zenon
  <1>6. LET t == InstallPrinterHandler(s, conv, opened).mgr IN ManagerOK(t) /\ Kept(s, t)
    BY <1>1, <1>5, NothingIs, Zenon
  <1>7. LET t == RemovePrinterHandler(s).mgr IN ManagerOK(t) /\ Kept(s, t)
    BY <1>2, <1>5, NothingIs, Zenon
  <1>8. LET t == ActivatePrinter(s, on).mgr IN ManagerOK(t) /\ Kept(s, t)
    BY <1>3, <1>5, Zenon
  <1> QED
    BY <1>4, <1>6, <1>7, <1>8, Zenon

\* Activity or write protection of a drive.
LEMMA MarkOne ==
    ASSUME NEW h, NEW opt, NEW failed, Handler(h), Agrees(h, opt, failed),
           NEW field \in {"active", "wp"}, NEW on
    PROVE  LET k == [h EXCEPT ![field] = on]
           IN  Handler(k) /\ Agrees(k, opt, failed) /\ k.content = h.content
  <1> DEFINE k == [h EXCEPT ![field] = on]
  <1>1. /\ k = [x \in HandlerFields |-> k[x]] /\ k.virtual = h.virtual /\ k.content = h.content
        /\ k.kind = h.kind /\ k.changed = h.changed /\ k.opt = h.opt /\ k.saved = h.saved
    BY DEF Handler, HandlerFields
  <1> HIDE DEF k
  <1> QED
    BY <1>1 DEF Handler, Agrees, k

LEMMA ChangeIs ==
    ASSUME NEW s, ManagerOK(s), NEW D, NEW field \in {"active", "wp"}, NEW on
    PROVE  LET t == Change(s, D, field, on) IN ManagerOK(t) /\ Kept(s, t)
  <1> DEFINE new(d) == IF d \in D /\ DriveInUse(s, d) THEN [s.slot[d] EXCEPT ![field] = on] ELSE s.slot[d]
             slot == [d \in Drives |-> new(d)]
             t == [s EXCEPT !.slot = slot]
  <1>1. Change(s, D, field, on) = t
    BY Zenon DEF Change
  <1>2. ASSUME NEW d \in Drives
        PROVE  /\ InSlot(new(d), s.opt, s.ioctlFailed)
               /\ s.slot[d] # Empty => new(d) # Empty /\ new(d).content = s.slot[d].content
    <2>1. CASE d \in D /\ DriveInUse(s, d)
      <3>1. Handler(s.slot[d]) /\ Agrees(s.slot[d], s.opt, s.ioctlFailed)
        BY <2>1 DEF DriveInUse, ManagerOK, InSlot
      <3>2. new(d) = [s.slot[d] EXCEPT ![field] = on]
        BY <2>1
      <3> HIDE DEF new
      <3>3. Handler(new(d)) /\ Agrees(new(d), s.opt, s.ioctlFailed) /\ new(d).content = s.slot[d].content
        BY <3>1, <3>2, MarkOne
      <3> QED
        BY <3>3, HandlerIsNotEmpty DEF InSlot
    <2>2. CASE ~(d \in D /\ DriveInUse(s, d))
      <3>1. new(d) = s.slot[d]
        BY <2>2
      <3> HIDE DEF new
      <3> QED
        BY <3>1 DEF ManagerOK
    <2> QED
      BY <2>1, <2>2
  <1>3. slot = [d \in Drives |-> slot[d]] /\ \A d \in Drives : slot[d] = new(d)
    <2> HIDE DEF new
    <2> QED
      OBVIOUS
  <1> HIDE DEF new, slot
  <1>4. Shape(t) /\ t.slot = slot /\ t.opt = s.opt /\ t.ioctlFailed = s.ioctlFailed /\ t.held = s.held
    BY <1>3, SetSlot DEF ManagerOK
  <1> HIDE DEF t
  <1>5. \A d \in Drives : InSlot(t.slot[d], t.opt, t.ioctlFailed)
    BY <1>2, <1>3, <1>4
  <1>6. HeldOK(t) /\ Kept(s, t)
    BY <1>2, <1>3, <1>4 DEF ManagerOK, HeldOK, Kept, Unsaved
  <1> QED
    BY <1>1, <1>4, <1>5, <1>6 DEF ManagerOK

LEMMA SetIs ==
    ASSUME NEW s, ManagerOK(s), NEW D, NEW on
    PROVE  /\ LET t == SetDeviceActive(s, D, on).mgr IN ManagerOK(t) /\ Kept(s, t)
           /\ LET t == SetWriteProtectImage(s, D, on).mgr IN ManagerOK(t) /\ Kept(s, t)
  <1>1. SetDeviceActive(s, D, on).mgr = Change(s, D, "active", on)
    BY DoneIs, Zenon DEF SetDeviceActive
  <1>2. SetWriteProtectImage(s, D, on).mgr = Change(s, D, "wp", on)
    BY DoneIs, Zenon DEF SetWriteProtectImage
  <1>3. ASSUME NEW field \in {"active", "wp"} PROVE ManagerOK(Change(s, D, field, on)) /\ Kept(s, Change(s, D, field, on))
    BY ChangeIs, Zenon
  <1>4. "active" \in {"active", "wp"} /\ "wp" \in {"active", "wp"}
    OBVIOUS
  <1> QED
    BY <1>1, <1>2, <1>3, <1>4, Zenon

\* Two drives exchange all they have, and the reference goes with the image.
LEMMA ExchangeIs ==
    ASSUME NEW s, ManagerOK(s), NEW d \in Drives, NEW e \in Drives
    PROVE  LET t == ExchangeDrives(s, d, e).mgr IN ManagerOK(t) /\ Kept(s, t)
  <1> DEFINE r == ExchangeDrives(s, d, e).mgr
             slot == [[s.slot EXCEPT ![d] = s.slot[e]] EXCEPT ![e] = s.slot[d]]
             held == IF s.held = d THEN e ELSE IF s.held = e THEN d ELSE s.held
             t == [s EXCEPT !.slot = slot, !.held = held]
  <1>1. CASE d = e
    <2>1. r = s
      BY <1>1, DoneIs, Zenon DEF ExchangeDrives
    <2> QED
      BY <2>1, NothingIs
  <1>2. CASE d # e
    <2>1. r = t
      <3>1. {d, e} \ Drives = {}
        OBVIOUS
      <3>2. r = [s EXCEPT !.slot[d] = s.slot[e], !.slot[e] = s.slot[d], !.held = held]
        BY <1>2, <3>1, DoneIs, Zenon DEF ExchangeDrives
      <3>3. [s EXCEPT !.slot = [s.slot EXCEPT ![d] = s.slot[e]]].slot = [s.slot EXCEPT ![d] = s.slot[e]]
        BY DEF ManagerOK, Shape, ManagerFields
      <3> HIDE DEF held, r
      <3> DEFINE a == [s.slot EXCEPT ![d] = s.slot[e]]
                 s1 == [s EXCEPT !.slot = a]
      <3>4. r = [s1 EXCEPT !.slot = [s1.slot EXCEPT ![e] = s.slot[d]], !.held = held]
        BY <3>2, Zenon
      <3>5. s1.slot = a /\ slot = [a EXCEPT ![e] = s.slot[d]]
        BY <3>3, Zenon
      <3> HIDE DEF a, slot
      <3>6. r = [s1 EXCEPT !.slot = slot, !.held = held]
        BY <3>4, <3>5, Zenon
      <3> QED
        BY <3>6 DEF ManagerOK, Shape, ManagerFields
    <2>2. /\ slot = [g \in Drives |-> slot[g]]
          /\ \A g \in Drives : slot[g] = IF g = d THEN s.slot[e] ELSE IF g = e THEN s.slot[d] ELSE s.slot[g]
      <3>1. /\ DOMAIN slot = Drives
            /\ \A g \in Drives : slot[g] = IF g = d THEN s.slot[e] ELSE IF g = e THEN s.slot[d] ELSE s.slot[g]
        BY <1>2 DEF ManagerOK, Shape
      <3> QED
        BY <3>1 DEF ManagerOK, Shape
    <2> HIDE DEF slot, held, r
    <2>3. Shape(t) /\ t.slot = slot /\ t.opt = s.opt /\ t.ioctlFailed = s.ioctlFailed /\ t.held = held
      BY <2>2 DEF ManagerOK, Shape, ManagerFields
    <2> HIDE DEF t
    <2>4. \A g \in Drives : InSlot(t.slot[g], t.opt, t.ioctlFailed)
      BY <2>2, <2>3 DEF ManagerOK
    <2>5. HeldOK(t)
      <3>1. NoDrive # d /\ NoDrive # e
        BY DrivesKnown
      <3>2. CASE s.held = NoDrive
        BY <2>3, <3>1, <3>2 DEF HeldOK, held
      <3>3. CASE s.held \in Drives /\ s.slot[s.held] # Empty
        <4>1. CASE s.held = d
          BY <2>2, <2>3, <3>3, <4>1 DEF HeldOK, held
        <4>2. CASE s.held # d
          BY <2>2, <2>3, <3>3, <4>2 DEF HeldOK, held
        <4> QED
          BY <4>1, <4>2
      <3> QED
        BY <3>2, <3>3 DEF ManagerOK, HeldOK
    <2>6. Kept(s, t)
      BY <1>2, <2>2, <2>3 DEF Kept, Unsaved
    <2> QED
      BY <2>1, <2>3, <2>4, <2>5, <2>6 DEF ManagerOK, r
  <1> QED
    BY <1>1, <1>2

\* The handlers but for their options: what is left when these change first
\* for the manager and then for the handlers.
Loose(s) == Shape(s) /\ HeldOK(s) /\ \A d \in Drives : InSlot(s.slot[d], s.opt, TRUE)

LEMMA Given ==
    ASSUME NEW h, Handler(h), h.kind = "atr", NEW opt, NEW failed
    PROVE  LET k == [h EXCEPT !.opt = opt]
           IN  Handler(k) /\ Agrees(k, opt, failed) /\ k.content = h.content
  <1> DEFINE k == [h EXCEPT !.opt = opt]
  <1>1. /\ k = [x \in HandlerFields |-> k[x]] /\ k.virtual = h.virtual /\ k.content = h.content
        /\ k.kind = h.kind /\ k.changed = h.changed /\ k.opt = opt /\ k.saved = h.saved
    BY DEF Handler, HandlerFields
  <1> HIDE DEF k
  <1> QED
    BY <1>1 DEF Handler, Agrees, k

LEMMA DistributeIs ==
    ASSUME NEW s, Loose(s), NEW opt
    PROVE  LET t == Distribute(s, opt) IN ManagerOK(t) /\ Kept(s, t)
  <1> DEFINE new(d) == IF s.slot[d].kind = "atr" THEN [s.slot[d] EXCEPT !.opt = opt] ELSE s.slot[d]
             slot == [d \in Drives |-> new(d)]
             t == [s EXCEPT !.opt = opt, !.slot = slot]
  <1>1. Distribute(s, opt) = t
    BY Zenon DEF Distribute
  <1>2. ASSUME NEW d \in Drives
        PROVE  /\ InSlot(new(d), opt, s.ioctlFailed)
               /\ s.slot[d] # Empty => new(d) # Empty /\ new(d).content = s.slot[d].content
    <2>1. CASE s.slot[d] = Empty
      <3>1. Empty.kind = "none"
        BY DEF Empty
      <3>2. new(d) = s.slot[d]
        BY <2>1, <3>1, Zenon
      <3> HIDE DEF new
      <3> QED
        BY <2>1, <3>2 DEF InSlot
    <2>2. CASE Handler(s.slot[d]) /\ s.slot[d].kind = "atr"
      <3>1. new(d) = [s.slot[d] EXCEPT !.opt = opt]
        BY <2>2
      <3> HIDE DEF new
      <3>2. Handler(new(d)) /\ Agrees(new(d), opt, s.ioctlFailed) /\ new(d).content = s.slot[d].content
        BY <2>2, <3>1, Given
      <3> QED
        BY <3>2, HandlerIsNotEmpty DEF InSlot
    <2>3. CASE Handler(s.slot[d]) /\ s.slot[d].kind # "atr"
      <3>1. new(d) = s.slot[d]
        BY <2>3
      <3> HIDE DEF new
      <3> QED
        BY <2>3, <3>1 DEF InSlot, Agrees
    <2> QED
      BY <2>1, <2>2, <2>3 DEF Loose, InSlot
  <1>3. slot = [d \in Drives |-> slot[d]] /\ \A d \in Drives : slot[d] = new(d)
    <2> HIDE DEF new
    <2> QED
      OBVIOUS
  <1> HIDE DEF new, slot
  <1>4. Shape(t) /\ t.slot = slot /\ t.opt = opt /\ t.ioctlFailed = s.ioctlFailed /\ t.held = s.held
    BY <1>3 DEF Loose, Shape, ManagerFields
  <1> HIDE DEF t
  <1>5. \A d \in Drives : InSlot(t.slot[d], t.opt, t.ioctlFailed)
    BY <1>2, <1>3, <1>4
  <1>6. HeldOK(t) /\ Kept(s, t)
    BY <1>2, <1>3, <1>4 DEF Loose, HeldOK, Kept, Unsaved
  <1> QED
    BY <1>1, <1>4, <1>5, <1>6 DEF ManagerOK

LEMMA LooseIs == \A s : ManagerOK(s) => Loose(s)
  BY DEF ManagerOK, Loose, InSlot, Agrees

LEMMA SpeedIs ==
    ASSUME NEW s, Loose(s), NEW on, NEW ioctls \in BOOLEAN
    PROVE  LET t == SetHighSpeedMode(s, on, ioctls).mgr IN ManagerOK(t) /\ Kept(s, t)
  <1>1. CASE ioctls
    <2>1. SetHighSpeedMode(s, on, ioctls).mgr = Distribute(s, [s.opt EXCEPT !.hs = on])
      BY <1>1, DoneIs, Zenon DEF SetHighSpeedMode
    <2> QED
      BY <2>1, DistributeIs, Zenon
  <1>2. CASE ~ioctls
    <2> DEFINE t == [s EXCEPT !.ioctlFailed = TRUE]
    <2>1. SetHighSpeedMode(s, on, ioctls).mgr = t
      BY <1>2, DoneIs, Zenon DEF SetHighSpeedMode
    <2>2. /\ Shape(t) /\ t.slot = s.slot /\ t.held = s.held /\ t.opt = s.opt
          /\ t.ioctlFailed = TRUE
      BY DEF Loose, Shape, ManagerFields
    <2> HIDE DEF t
    <2>3. ManagerOK(t)
      BY <2>2 DEF Loose, ManagerOK, HeldOK
    <2>4. Kept(s, t)
      BY <2>2 DEF Kept, Unsaved
    <2> QED
      BY <2>1, <2>3, <2>4
  <1> QED
    BY <1>1, <1>2

\* The divisor has changed before the driver refuses the mode.
LEMMA OptionsAre ==
    ASSUME NEW s, ManagerOK(s), NEW on, NEW divisor, NEW ioctls \in BOOLEAN
    PROVE  /\ LET t == SetHighSpeedMode(s, on, ioctls).mgr IN ManagerOK(t) /\ Kept(s, t)
           /\ LET t == SetHighSpeedParameters(s, divisor, ioctls).mgr IN ManagerOK(t) /\ Kept(s, t)
           /\ LET t == EnableXF551Mode(s, on).mgr IN ManagerOK(t) /\ Kept(s, t)
           /\ SetSioTiming(s, ioctls).mgr = s
  <1>1. Loose(s)
    BY LooseIs
  <1>2. LET t == SetHighSpeedMode(s, on, ioctls).mgr IN ManagerOK(t) /\ Kept(s, t)
    BY <1>1, SpeedIs, Zenon
  <1>3. LET t == SetHighSpeedParameters(s, divisor, ioctls).mgr IN ManagerOK(t) /\ Kept(s, t)
    <2> DEFINE u == [s EXCEPT !.opt.divisor = divisor]
               t == SetHighSpeedMode(u, s.opt.hs, ioctls).mgr
    <2>1. SetHighSpeedParameters(s, divisor, ioctls).mgr = t
      BY Zenon DEF SetHighSpeedParameters
    <2>2. /\ Shape(u) /\ u.slot = s.slot /\ u.held = s.held
      <3>1. u = [s EXCEPT !.opt = [s.opt EXCEPT !.divisor = divisor]]
        OBVIOUS
      <3> DEFINE opt == [s.opt EXCEPT !.divisor = divisor]
      <3> HIDE DEF opt
      <3> QED
        BY <3>1 DEF ManagerOK, Shape, ManagerFields, opt
    <2> HIDE DEF u
    <2>3. Loose(u)
      BY <1>1, <2>2 DEF Loose, InSlot, Agrees, HeldOK
    <2>4. ManagerOK(t) /\ Kept(u, t)
      BY <2>3, SpeedIs, Zenon
    <2> HIDE DEF t
    <2> QED
      BY <2>1, <2>2, <2>4 DEF Kept
  <1>4. LET t == EnableXF551Mode(s, on).mgr IN ManagerOK(t) /\ Kept(s, t)
    <2>1. EnableXF551Mode(s, on).mgr = Distribute(s, [s.opt EXCEPT !.xf551 = on])
      BY DoneIs, Zenon DEF EnableXF551Mode
    <2> QED
      BY <1>1, <2>1, DistributeIs, Zenon
  <1>5. SetSioTiming(s, ioctls).mgr = s
    BY DoneIs, Zenon DEF SetSioTiming
  <1> QED
    BY <1>2, <1>3, <1>4, <1>5, Zenon

-----------------------------------------------------------------------------
(* The remote control commands.                                            *)

LEMMA CommandIs ==
    ASSUME NEW s, ManagerOK(s), NEW c, NEW fate
    PROVE  ManagerOK(ProcessCommand(s, c, fate).mgr)
  <1>1. \A ok : ManagerOK(Done(s, ok).mgr)
    BY DoneIs, Zenon
  <1>2. ManagerOK(Usage(s).mgr)
    BY <1>1, Zenon DEF Usage
  <1>3. (c.size = "preset") \in BOOLEAN /\ (fate = "written") \in BOOLEAN /\ TRUE \in BOOLEAN
    OBVIOUS
  <1>4. \A t : Keeps(s, t) => ManagerOK(t)
    BY DEF Keeps
  <1>5. ManagerOK(Lo(s, c).mgr)
    <2>1. ASSUME Valid(c.d) PROVE ManagerOK(LoadDiskImage(s, c.d, c.file, TRUE).mgr)
      BY <1>3, <1>4, <2>1, LoadIs, Zenon DEF Valid
    <2> QED
      BY <1>2, <2>1, Zenon DEF Lo
  <1>6. ManagerOK(Cr(s, c).mgr)
    <2>1. ASSUME Valid(c.d) PROVE ManagerOK(CreateAtrMemoryImage(s, c.d, TRUE).mgr)
      BY <1>3, <1>4, <2>1, CreateIs, Zenon DEF Valid
    <2> QED
      BY <1>2, <2>1, Zenon DEF Cr
  <1>7. ManagerOK(Lv(s, c, fate).mgr)
    <2>1. ASSUME Valid(c.d)
          PROVE  ManagerOK(CreateVirtualDrive(s, c.d, c.dir, c.size = "preset", fate = "written").mgr)
      BY <1>3, <1>4, <2>1, VirtualIs, Zenon DEF Valid
    <2> QED
      BY <1>2, <2>1, Zenon DEF Lv
  <1>8. ManagerOK(Rd(s, c, fate).mgr)
    <2>1. ManagerOK(ReloadDrive(s, c.drives, IF fate = "written" THEN Drives ELSE {}).mgr)
      BY <1>4, ReloadIs, Zenon
    <2> QED
      BY <1>2, <2>1, Zenon DEF Rd
  <1>9. ManagerOK(Un(s, c).mgr)
    <2>1. ManagerOK(UnloadDiskImage(s, c.drives).mgr)
      BY UnloadKeeps, Zenon
    <2>2. ManagerOK(Done(UnloadDiskImage(s, c.drives).mgr, TRUE).mgr)
      BY <2>1, DoneIs, Zenon
    <2> QED
      BY <1>2, <2>2, Zenon DEF Un
  <1>10. ManagerOK(Wr(s, c, fate).mgr)
    <2>1. ASSUME Valid(c.d) PROVE ManagerOK(WriteBackImage(s, c.d, fate).mgr)
      BY <1>4, <2>1, WriteBackIs, Zenon DEF Valid
    <2>2. ASSUME Valid(c.d) PROVE ManagerOK(WriteDiskImage(s, c.d, c.file, fate).mgr)
      BY <1>4, <2>2, WriteDiskIs, Zenon DEF Valid
    <2> QED
      BY <1>2, <2>1, <2>2, Zenon DEF Wr
  <1>11. ManagerOK(Wc(s, fate).mgr)
    <2> DEFINE all == [d \in Drives |-> fate]
    <2>1. ManagerOK(WriteBackImagesIfChanged(s, all).mgr)
      BY <1>4, WriteAllIs, Zenon
    <2>2. Wc(s, fate).mgr = WriteBackImagesIfChanged(s, all).mgr
      BY DoneIs, Zenon DEF Wc
    <2> QED
      BY <2>1, <2>2, Zenon
  <1>12. ManagerOK(Xc(s, c).mgr)
    <2>1. ASSUME Valid(c.d), Valid(c.e) PROVE ManagerOK(ExchangeDrives(s, c.d, c.e).mgr)
      BY <2>1, ExchangeIs, Zenon DEF Valid
    <2>2. ASSUME Valid(c.d), Valid(c.e) PROVE ManagerOK(Done(ExchangeDrives(s, c.d, c.e).mgr, TRUE).mgr)
      BY <2>1, <2>2, DoneIs, Zenon
    <2> QED
      BY <1>2, <2>2, Zenon DEF Xc
  <1>13. ManagerOK(Cd(s).mgr) /\ ManagerOK(Ls(s).mgr) /\ ManagerOK(St(s).mgr) /\ ManagerOK(Sh(s, fate).mgr)
    BY <1>1, Zenon DEF Cd, Ls, St, Sh
  <1>14. ManagerOK(Wp(s, c).mgr)
    <2>1. ManagerOK(SetWriteProtectImage(s, {c.d}, c.on).mgr)
      BY SetIs, Zenon
    <2> QED
      BY <1>2, <2>1, Zenon DEF Wp
  <1>15. ManagerOK(Ad(s, c).mgr)
    <2>1. ManagerOK(SetDeviceActive(s, c.drives, c.on).mgr)
      BY SetIs, Zenon
    <2>2. ManagerOK(ActivatePrinter(s, c.on).mgr)
      BY PrinterCalls, Zenon
    <2> QED
      BY <1>2, <2>1, <2>2, Zenon DEF Ad
  <1>16. ManagerOK(Sp(s, c, fate).mgr) /\ ManagerOK(Xf(s, c).mgr)
    <2>1. ManagerOK(SetHighSpeedMode(s, c.on, fate = "written").mgr)
      BY <1>3, OptionsAre, Zenon
    <2>2. ManagerOK(EnableXF551Mode(s, c.on).mgr)
      BY <1>3, OptionsAre, Zenon
    <2> QED
      BY <2>1, <2>2, Zenon DEF Sp, Xf
  <1>17. ManagerOK(Pr(s, c, fate).mgr)
    <2>1. ManagerOK(RemovePrinterHandler(s).mgr) /\ ManagerOK(InstallPrinterHandler(s, c.eol, fate = "written").mgr)
      BY PrinterCalls, Zenon
    <2>2. FlushPrinterData(s).mgr = s
      BY PrinterCalls, Zenon
    <2>3. Pr(s, c, fate) \in {RemovePrinterHandler(s), InstallPrinterHandler(s, c.eol, fate = "written"),
                              FlushPrinterData(s), Usage(s)}
      BY DEF Pr
    <2> QED
      BY <1>2, <2>1, <2>2, <2>3, Zenon
  <1>18. \/ ProcessCommand(s, c, fate) \in {Lo(s, c), Lv(s, c, fate), Rd(s, c, fate), Cr(s, c), Un(s, c), Wr(s, c, fate)}
         \/ ProcessCommand(s, c, fate) \in {Wc(s, fate), Xc(s, c), Cd(s), Ls(s), St(s), Wp(s, c), Ad(s, c)}
         \/ ProcessCommand(s, c, fate) \in {Sp(s, c, fate), Xf(s, c), Pr(s, c, fate), Sh(s, fate), Done(s, TRUE), Usage(s)}
    BY DEF ProcessCommand
  <1> QED
    BY <1>1, <1>2, <1>5, <1>6, <1>7, <1>8, <1>9, <1>10, <1>11, <1>12, <1>13, <1>14, <1>15, <1>16,
       <1>17, <1>18, Zenon

\* The commands of a frame, one on what the others made.
NextCommand(cmds, fate, r, n) == IF r.ok THEN ProcessCommand(r.mgr, cmds[n], fate) ELSE r

LEMMA CommandsAre ==
    ASSUME NEW s, ManagerOK(s), NEW cmds, Len(cmds) \in Nat, NEW fate
    PROVE  ManagerOK(ProcessMultipleCommands(s, cmds, fate).mgr)
  <1> DEFINE N == Len(cmds)
             r0 == Done(s, TRUE)
             after[n \in 0 .. N] ==
                 IF n = 0 THEN r0
                 ELSE IF after[n - 1].ok THEN ProcessCommand(after[n - 1].mgr, cmds[n], fate)
                 ELSE after[n - 1]
  <1>1. ProcessMultipleCommands(s, cmds, fate) = after[N]
    BY Zenon DEF ProcessMultipleCommands
  <1>2. ManagerOK(r0.mgr) /\ N \in Nat
    BY DoneIs, Zenon
  <1> HIDE DEF N, r0
  <1> DEFINE Solves(f, m) ==
                 /\ f = [t \in 0 .. m |-> f[t]] /\ f[0] = r0
                 /\ \A t \in 1 .. m : f[t] = NextCommand(cmds, fate, f[t - 1], t)
             S == {m \in Nat : \E f : Solves(f, m)}
  <1>3. 0 \in S
    <2>1. Solves([t \in 0 .. 0 |-> r0], 0)
      OBVIOUS
    <2> HIDE DEF Solves
    <2> QED
      BY <2>1
  <1>4. ASSUME NEW m \in Nat, m \in S PROVE m + 1 \in S
    <2>1. PICK f : Solves(f, m)
      BY <1>4
    <2> DEFINE v == NextCommand(cmds, fate, f[m], m + 1)
               g == [t \in 0 .. m + 1 |-> IF t = m + 1 THEN v ELSE f[t]]
    <2> HIDE DEF v
    <2>2. g = [t \in 0 .. m + 1 |-> g[t]] /\ g[0] = r0
      BY <2>1
    <2>3. \A t \in 0 .. m : g[t] = f[t]
      OBVIOUS
    <2>4. g[m + 1] = v /\ (m + 1) - 1 = m /\ g[m] = f[m]
      OBVIOUS
    <2> HIDE DEF g
    <2>5. ASSUME NEW t \in 1 .. m + 1 PROVE g[t] = NextCommand(cmds, fate, g[t - 1], t)
      <3>1. CASE t = m + 1
        BY <2>4, <3>1 DEF v
      <3>2. CASE t # m + 1
        <4>1. t \in 1 .. m /\ t \in 0 .. m /\ t - 1 \in 0 .. m
          BY <3>2
        <4>2. f[t] = NextCommand(cmds, fate, f[t - 1], t)
          BY <2>1, <4>1
        <4> QED
          BY <2>3, <4>1, <4>2
      <3> QED
        BY <3>1, <3>2
    <2>6. Solves(g, m + 1)
      BY <2>2, <2>5
    <2> HIDE DEF Solves
    <2> QED
      BY <2>6
  <1>5. N \in S
    <2> HIDE DEF S
    <2> QED
      BY <1>2, <1>3, <1>4, SetInduction
  <1>6. PICK f : Solves(f, N)
    BY <1>5
  <1>7. f = [n \in 0 .. N |->
                IF n = 0 THEN r0
                ELSE IF f[n - 1].ok THEN ProcessCommand(f[n - 1].mgr, cmds[n], fate)
                ELSE f[n - 1]]
    <2>1. f[0] = r0 /\ \A n \in 0 .. N : n # 0 => f[n] = NextCommand(cmds, fate, f[n - 1], n)
      <3>1. \A n \in 0 .. N : n # 0 => n \in 1 .. N
        BY <1>2
      <3> QED
        BY <1>6, <3>1, Zenon
    <2>2. ASSUME NEW n \in 0 .. N
          PROVE  f[n] = IF n = 0 THEN r0
                        ELSE IF f[n - 1].ok THEN ProcessCommand(f[n - 1].mgr, cmds[n], fate)
                        ELSE f[n - 1]
      <3>1. CASE n = 0
        BY <2>1, <3>1
      <3>2. CASE n # 0
        BY <2>1, <3>2, Zenon DEF NextCommand
      <3> QED
        BY <3>1, <3>2
    <2> QED
      BY <1>6, <2>2, Zenon
  <1>8. after = [n \in 0 .. N |->
                IF n = 0 THEN r0
                ELSE IF after[n - 1].ok THEN ProcessCommand(after[n - 1].mgr, cmds[n], fate)
                ELSE after[n - 1]]
    BY <1>7, Zenon
  <1> HIDE DEF after
  <1>9. after[0] = r0 /\ \A n \in 0 .. N : n # 0 => after[n] = NextCommand(cmds, fate, after[n - 1], n)
    <2>1. 0 \in 0 .. N
      BY <1>2
    <2> QED
      BY <1>8, <2>1, Zenon DEF NextCommand
  <1> DEFINE U == {m \in Nat : m <= N => ManagerOK(after[m].mgr)}
  <1>10. 0 \in U
    BY <1>2, <1>9
  <1>11. ASSUME NEW m \in Nat, m \in U PROVE m + 1 \in U
    <2> SUFFICES ASSUME m + 1 <= N PROVE ManagerOK(after[m + 1].mgr)
      OBVIOUS
    <2>1. m + 1 \in 0 .. N /\ (m + 1) - 1 = m /\ m + 1 # 0 /\ m <= N
      BY <1>2
    <2>2. after[m + 1] = NextCommand(cmds, fate, after[m], m + 1)
      BY <1>9, <2>1
    <2>3. ManagerOK(after[m].mgr)
      BY <1>11, <2>1
    <2> QED
      BY <2>2, <2>3, CommandIs, Zenon DEF NextCommand
  <1>12. N \in U
    <2> HIDE DEF U
    <2> QED
      BY <1>2, <1>10, <1>11, SetInduction
  <1> QED
    BY <1>1, <1>2, <1>12

LEMMA ExecuteIs ==
    ASSUME NEW s, ManagerOK(s), NEW cmds, Len(cmds) \in Nat, NEW fate, NEW replied
    PROVE  ManagerOK(Execute(s, cmds, fate, replied).mgr)
  <1>1. ManagerOK(ProcessMultipleCommands(s, cmds, fate).mgr)
    BY CommandsAre, Zenon
  <1>2. Execute(s, cmds, fate, replied).mgr \in {s, ProcessMultipleCommands(s, cmds, fate).mgr}
    BY DEF Execute
  <1> QED
    BY <1>1, <1>2, Zenon

-----------------------------------------------------------------------------
(* The Atari's disk commands, and formatting by key.                       *)

\* Something is written on an image, so that it has changed.
LEMMA Written ==
    ASSUME NEW s, ManagerOK(s), NEW d \in Drives, s.slot[d] # Empty, NEW content, NEW held, held \in {s.held, NoDrive},
           NEW t, t = [s EXCEPT !.slot = [s.slot EXCEPT ![d] = [s.slot[d] EXCEPT !.content = content, !.changed = TRUE]],
                                !.held = held]
    PROVE  ManagerOK(t)
  <1> DEFINE h == s.slot[d]
             k == [h EXCEPT !.content = content, !.changed = TRUE]
             slot == [s.slot EXCEPT ![d] = k]
  <1>1. Handler(h) /\ Agrees(h, s.opt, s.ioctlFailed)
    BY DEF ManagerOK, InSlot
  <1>2. Handler(k) /\ Agrees(k, s.opt, s.ioctlFailed)
    <2>1. /\ k = [x \in HandlerFields |-> k[x]] /\ k.virtual = h.virtual /\ k.changed = TRUE
          /\ k.kind = h.kind /\ k.opt = h.opt
      BY <1>1 DEF Handler, HandlerFields
    <2> HIDE DEF k
    <2> QED
      BY <1>1, <2>1 DEF Handler, Agrees
  <1>3. slot = [e \in Drives |-> slot[e]] /\ \A e \in Drives : slot[e] = IF e = d THEN k ELSE s.slot[e]
    <2> HIDE DEF k
    <2>1. DOMAIN slot = Drives /\ \A e \in Drives : slot[e] = IF e = d THEN k ELSE s.slot[e]
      BY DEF ManagerOK, Shape
    <2> QED
      BY <2>1 DEF ManagerOK, Shape
  <1>4. t = [s EXCEPT !.slot = slot, !.held = held]
    BY Zenon
  <1> HIDE DEF k, slot
  <1>5. Shape(t) /\ t.slot = slot /\ t.opt = s.opt /\ t.ioctlFailed = s.ioctlFailed /\ t.held = held
    BY <1>3, <1>4 DEF ManagerOK, Shape, ManagerFields
  <1>6. \A e \in Drives : InSlot(t.slot[e], t.opt, t.ioctlFailed)
    BY <1>2, <1>3, <1>5 DEF ManagerOK, InSlot
  <1>7. HeldOK(t)
    BY <1>2, <1>3, <1>5, HandlerIsNotEmpty DEF ManagerOK, HeldOK
  <1> QED
    BY <1>5, <1>6, <1>7 DEF ManagerOK

LEMMA HeldIs ==
    ASSUME NEW s, ManagerOK(s), NEW d, d = NoDrive \/ (d \in Drives /\ s.slot[d] # Empty)
    PROVE  LET t == [s EXCEPT !.held = d] IN ManagerOK(t) /\ Kept(s, t)
  <1> DEFINE t == [s EXCEPT !.held = d]
  <1>1. /\ Shape(t) /\ t.slot = s.slot /\ t.opt = s.opt /\ t.ioctlFailed = s.ioctlFailed /\ t.held = d
    BY DEF ManagerOK, Shape, ManagerFields
  <1> HIDE DEF t
  <1>2. Kept(s, t) /\ HeldOK(t)
    BY <1>1 DEF Kept, Unsaved, HeldOK
  <1> QED
    BY <1>1, <1>2 DEF ManagerOK, t

LEMMA AtariWritesKeeps ==
    ASSUME ManagerOK(mgr), AtariWrites PROVE ManagerOK(mgr')
  <1>1. PICK d \in Drives, c \in Contents :
           /\ DriveInUse(mgr, d)
           /\ mgr' = Done([mgr EXCEPT !.slot[d].content = c, !.slot[d].changed = TRUE], TRUE).mgr
    BY Zenon DEF AtariWrites, Call
  <1> DEFINE h == mgr.slot[d]
             a == [mgr.slot EXCEPT ![d] = [h EXCEPT !.content = c]]
             b == [mgr EXCEPT !.slot = a]
  <1>2. mgr' = [b EXCEPT !.slot = [b.slot EXCEPT ![d] = [b.slot[d] EXCEPT !.changed = TRUE]]]
    BY <1>1, DoneIs, Zenon
  <1>3. b.slot = a /\ a[d] = [h EXCEPT !.content = c]
    BY DEF ManagerOK, Shape, ManagerFields
  <1>4. [h EXCEPT !.content = c, !.changed = TRUE] = [[h EXCEPT !.content = c] EXCEPT !.changed = TRUE]
    OBVIOUS
  <1> DEFINE k == [h EXCEPT !.content = c, !.changed = TRUE]
  <1>5. mgr' = [b EXCEPT !.slot = [a EXCEPT ![d] = k]]
    BY <1>2, <1>3, <1>4, Zenon
  <1>6. mgr' = [mgr EXCEPT !.slot = [mgr.slot EXCEPT ![d] = k], !.held = mgr.held]
    <2>1. [a EXCEPT ![d] = k] = [mgr.slot EXCEPT ![d] = k]
      <3> HIDE DEF k
      <3> QED
        BY DEF ManagerOK, Shape
    <2> DEFINE slot == [mgr.slot EXCEPT ![d] = k]
    <2>2. mgr' = [b EXCEPT !.slot = slot]
      BY <1>5, <2>1, Zenon
    <2> HIDE DEF slot, a
    <2>3. mgr' = [mgr EXCEPT !.slot = slot, !.held = mgr.held]
      BY <2>2 DEF ManagerOK, Shape, ManagerFields
    <2> QED
      BY <2>3 DEF slot
  <1>7. mgr.slot[d] # Empty
    BY <1>1 DEF DriveInUse
  <1> QED
    BY <1>6, <1>7, Written, Zenon

LEMMA FormatAsKeeps ==
    ASSUME ManagerOK(mgr), FormatAs PROVE ManagerOK(mgr')
  <1> DEFINE d == mgr.held
             h == mgr.slot[d]
             content == IF mgr.slot[d].wp THEN h.content ELSE "blank"
  <1>1. CASE d = NoDrive
    <2>1. mgr' = mgr
      BY <1>1, DoneIs, Zenon DEF FormatAs, Answer, Call
    <2> QED
      BY <2>1
  <1>2. CASE d # NoDrive
    <2>1. d \in Drives /\ mgr.slot[d] # Empty
      BY <1>2 DEF ManagerOK, HeldOK
    <2> DEFINE s1 == [mgr EXCEPT !.held = NoDrive]
               a == [s1.slot EXCEPT ![d] = [s1.slot[d] EXCEPT !.changed = TRUE]]
               s2 == [s1 EXCEPT !.slot = a]
    <2>2. mgr' = [s2 EXCEPT !.slot = [s2.slot EXCEPT ![d] = [s2.slot[d] EXCEPT !.content = content]]]
      BY <1>2, DoneIs, Zenon DEF FormatAs, Answer, Call
    <2>3. /\ Shape(s1) /\ s1.slot = mgr.slot /\ s1.held = NoDrive
      BY DEF ManagerOK, Shape, ManagerFields
    <2>4. Handler(h)
      BY <2>1, HandlerIsNotEmpty DEF ManagerOK, InSlot
    <2> DEFINE c == [h EXCEPT !.changed = TRUE]
               k == [h EXCEPT !.content = content, !.changed = TRUE]
               slot == [mgr.slot EXCEPT ![d] = k]
    <2>5. s2.slot = [mgr.slot EXCEPT ![d] = c] /\ s2.slot[d] = c
      <3> HIDE DEF c, s1
      <3>1. s2.slot = a
        BY <2>3 DEF Shape, ManagerFields
      <3>2. a = [mgr.slot EXCEPT ![d] = c]
        BY <2>3, Zenon DEF c
      <3> HIDE DEF a, s2
      <3>3. [mgr.slot EXCEPT ![d] = c][d] = c
        BY <2>1 DEF ManagerOK, Shape
      <3> QED
        BY <3>1, <3>2, <3>3
    <2>6. [c EXCEPT !.content = content] = k
      <3> HIDE DEF content
      <3> QED
        BY <2>4 DEF Handler, HandlerFields
    <2>7. [[mgr.slot EXCEPT ![d] = c] EXCEPT ![d] = k] = slot
      <3> HIDE DEF c, k
      <3> QED
        BY <2>1 DEF ManagerOK, Shape
    <2>8. mgr' = [s2 EXCEPT !.slot = slot]
      <3> HIDE DEF c, k, s2, content
      <3> QED
        BY <2>2, <2>5, <2>6, <2>7, Zenon DEF slot
    <2>9. mgr' = [mgr EXCEPT !.slot = slot, !.held = NoDrive]
      <3> HIDE DEF slot, a
      <3>1. [s2 EXCEPT !.slot = slot] = [mgr EXCEPT !.slot = slot, !.held = NoDrive]
        BY DEF ManagerOK, Shape, ManagerFields
      <3> QED
        BY <2>8, <3>1, Zenon
    <2>10. NoDrive \in {mgr.held, NoDrive}
      OBVIOUS
    <2> QED
      BY <2>1, <2>9, <2>10, Written, Zenon
  <1> QED
    BY <1>1, <1>2

-----------------------------------------------------------------------------
(* The three callers.                                                      *)

\* The steps after which changes must still be there.
Careful == {"reload", "exchange", "write", "protect", "activate", "speed", "xf551", "key", "abort", "unload"}
Good == ManagerOK(mgr') /\ (did' \in Careful => Kept(mgr, mgr') \/ mgr'.lost)

LEMMA InitIsOK == FrontInit => ManagerOK(mgr)
  <1> SUFFICES ASSUME FrontInit PROVE ManagerOK(mgr)
    OBVIOUS
  <1> DEFINE opt == [hs |-> TRUE, divisor |-> CHOOSE n \in Divisors : TRUE, xf551 |-> FALSE, strict |-> FALSE]
  <1>1. PICK g \in AtrFiles, D \in SUBSET Drives :
           mgr = [slot |-> [d \in Drives |-> IF d \notin D THEN Empty
                                      ELSE [Image("atr", g, "a", FALSE) EXCEPT !.opt.hs = TRUE]],
                  file |-> [f \in Files |-> IF \E p \in Programs : f = AtrOf(p) THEN Missing ELSE "a"],
                  opt  |-> opt,
                  printer |-> NoPrinter, held |-> NoDrive, ioctlFailed |-> FALSE, lost |-> FALSE]
    BY Zenon DEF FrontInit
  <1> DEFINE h == [Image("atr", g, "a", FALSE) EXCEPT !.opt.hs = TRUE]
             slot == [d \in Drives |-> IF d \notin D THEN Empty ELSE h]
             file == [f \in Files |-> IF \E p \in Programs : f = AtrOf(p) THEN Missing ELSE "a"]
  <1>2. Handler(h) /\ h.opt = opt
    <2> DEFINE n == CHOOSE n \in Divisors : TRUE
               i == Image("atr", g, "a", FALSE)
    <2>1. NotSet = [hs |-> FALSE, divisor |-> n, xf551 |-> FALSE, strict |-> FALSE]
      BY Zenon DEF NotSet
    <2>2. opt = [hs |-> TRUE, divisor |-> n, xf551 |-> FALSE, strict |-> FALSE]
      BY Zenon
    <2> HIDE DEF n, opt
    <2>3. [NotSet EXCEPT !.hs = TRUE] = opt
      <3>1. /\ DOMAIN NotSet = {"hs", "divisor", "xf551", "strict"}
            /\ NotSet.divisor = n /\ NotSet.xf551 = FALSE /\ NotSet.strict = FALSE
        BY <2>1
      <3> DEFINE o == [NotSet EXCEPT !.hs = TRUE]
                 F == {"hs", "divisor", "xf551", "strict"}
      <3>2. /\ o = [x \in F |-> o[x]]
            /\ o.hs = TRUE /\ o.divisor = n /\ o.xf551 = FALSE /\ o.strict = FALSE
        BY <2>1, <3>1
      <3> HIDE DEF o
      <3>3. /\ opt = [x \in F |-> opt[x]]
            /\ opt.hs = TRUE /\ opt.divisor = n /\ opt.xf551 = FALSE /\ opt.strict = FALSE
        BY <2>2
      <3>4. \A x \in F : o[x] = opt[x]
        BY <3>2, <3>3
      <3>5. [x \in F |-> o[x]] = [x \in F |-> opt[x]]
        BY <3>4, Zenon
      <3> HIDE DEF F
      <3>6. o = opt
        BY <3>2, <3>3, <3>5, Zenon
      <3> QED
        BY <3>6 DEF o
    <2>4. Handler(i) /\ i.opt = NotSet
      <3> HIDE DEF n
      <3> QED
        BY DEF Image, Handler, HandlerFields
    <2>5. h = [i EXCEPT !.opt = [i.opt EXCEPT !.hs = TRUE]]
      BY Zenon
    <2>6. h = [i EXCEPT !.opt = opt]
      BY <2>3, <2>4, <2>5, Zenon
    <2> HIDE DEF i, h
    <2> QED
      BY <2>4, <2>6 DEF Handler, HandlerFields
  <1>3. /\ slot = [d \in Drives |-> slot[d]] /\ file = [f \in Files |-> file[f]]
        /\ \A d \in Drives : slot[d] = IF d \notin D THEN Empty ELSE h
    OBVIOUS
  <1>4. mgr = [slot |-> slot, file |-> file, opt |-> opt, printer |-> NoPrinter, held |-> NoDrive,
               ioctlFailed |-> FALSE, lost |-> FALSE]
    BY <1>1, Zenon
  <1> HIDE DEF slot, file, opt, h
  <1>5. /\ Shape(mgr) /\ mgr.slot = slot /\ mgr.opt = opt /\ mgr.held = NoDrive
    BY <1>3, <1>4 DEF Shape, ManagerFields
  <1>6. \A d \in Drives : InSlot(mgr.slot[d], mgr.opt, mgr.ioctlFailed)
    BY <1>2, <1>3, <1>5 DEF InSlot, Agrees
  <1> QED
    BY <1>5, <1>6 DEF ManagerOK, HeldOK

LEMMA KeysAreGood ==
    ASSUME ManagerOK(mgr), FrontKeys PROVE Good
  <1>1. ASSUME NEW name, NEW r, Key(name, r), ManagerOK(r.mgr), Kept(mgr, r.mgr) PROVE Good
    BY <1>1 DEF Key, Call, Good
  <1>2. ASSUME NEW cond, NEW q, NEW D, Question(cond, q, D) PROVE Good
    BY <1>2, NothingIs DEF Question, Stay, Good
  <1>3. CASE ProcessWriteProtectDrive
    <2>1. PICK D \in AllOrOne, on \in BOOLEAN : Key("protect", SetWriteProtectImage(mgr, D, on))
      BY <1>3, Zenon DEF ProcessWriteProtectDrive
    <2>2. LET t == SetWriteProtectImage(mgr, D, on).mgr IN ManagerOK(t) /\ Kept(mgr, t)
      BY SetIs, Zenon
    <2> QED
      BY <1>1, <2>1, <2>2, Zenon
  <1>4. CASE ProcessActivateDrive
    <2>1. PICK D \in AllOrOne, on \in BOOLEAN : Key("activate", SetDeviceActive(mgr, D, on))
      BY <1>4, Zenon DEF ProcessActivateDrive
    <2>2. LET t == SetDeviceActive(mgr, D, on).mgr IN ManagerOK(t) /\ Kept(mgr, t)
      BY SetIs, Zenon
    <2> QED
      BY <1>1, <2>1, <2>2, Zenon
  <1>5. CASE ProcessReloadDrive
    <2>1. PICK D \in AllOrOne, filled \in SUBSET Drives : Key("reload", ReloadDrive(mgr, D, filled))
      BY <1>5, Zenon DEF ProcessReloadDrive
    <2> DEFINE t == ReloadDrive(mgr, D, filled).mgr
    <2>2. Keeps(mgr, t) /\ SparesChanges(mgr, t)
      BY ReloadIs, Zenon
    <2> HIDE DEF t
    <2>3. ManagerOK(t) /\ Kept(mgr, t)
      BY <2>2 DEF Keeps, Kept, Unsaved, SparesChanges
    <2> QED
      BY <1>1, <2>1, <2>3, Zenon DEF t
  <1>6. CASE ProcessSetHighSpeed
    <2>1. PICK on \in BOOLEAN, ioctls \in BOOLEAN : Key("speed", SetHighSpeedMode(mgr, on, ioctls))
      BY <1>6, Zenon DEF ProcessSetHighSpeed
    <2>2. LET t == SetHighSpeedMode(mgr, on, ioctls).mgr IN ManagerOK(t) /\ Kept(mgr, t)
      BY OptionsAre, Zenon
    <2> QED
      BY <1>1, <2>1, <2>2, Zenon
  <1>7. CASE ProcessSetHighSpeedParameters
    <2>1. PICK n \in Divisors, ioctls \in BOOLEAN : Key("speed", SetHighSpeedParameters(mgr, n, ioctls))
      BY <1>7, Zenon DEF ProcessSetHighSpeedParameters
    <2>2. LET t == SetHighSpeedParameters(mgr, n, ioctls).mgr IN ManagerOK(t) /\ Kept(mgr, t)
      BY OptionsAre, Zenon
    <2> QED
      BY <1>1, <2>1, <2>2, Zenon
  <1>8. CASE ProcessSetXF551Mode
    <2>1. PICK on \in BOOLEAN : Key("xf551", EnableXF551Mode(mgr, on))
      BY <1>8, Zenon DEF ProcessSetXF551Mode
    <2>2. TRUE \in BOOLEAN
      OBVIOUS
    <2>3. LET t == EnableXF551Mode(mgr, on).mgr IN ManagerOK(t) /\ Kept(mgr, t)
      BY <2>2, OptionsAre, Zenon
    <2> QED
      BY <1>1, <2>1, <2>3, Zenon
  <1>9. CASE ProcessSetSioTiming
    <2>1. PICK ioctls \in BOOLEAN : Key("speed", SetSioTiming(mgr, ioctls))
      BY <1>9, Zenon DEF ProcessSetSioTiming
    <2>2. SetSioTiming(mgr, ioctls).mgr = mgr
      BY OptionsAre, Zenon
    <2> QED
      BY <1>1, <2>1, <2>2, NothingIs, Zenon
  <1>10. CASE ProcessActivatePrinter
    <2>1. PICK on \in BOOLEAN : Key("activate", ActivatePrinter(mgr, on))
      BY <1>10, Zenon DEF ProcessActivatePrinter
    <2>2. LET t == ActivatePrinter(mgr, on).mgr IN ManagerOK(t) /\ Kept(mgr, t)
      BY PrinterCalls, Zenon
    <2> QED
      BY <1>1, <2>1, <2>2, Zenon
  <1>11. CASE ProcessUninstallPrinterHandler
    <2>1. Key("printer", RemovePrinterHandler(mgr))
      BY <1>11, Zenon DEF ProcessUninstallPrinterHandler
    <2>2. LET t == RemovePrinterHandler(mgr).mgr IN ManagerOK(t) /\ Kept(mgr, t)
      BY PrinterCalls, Zenon
    <2> QED
      BY <1>1, <2>1, <2>2, Zenon
  <1>12. CASE ProcessFlushPrinterData
    <2>1. Key("printer", FlushPrinterData(mgr))
      BY <1>12, Zenon DEF ProcessFlushPrinterData
    <2>2. FlushPrinterData(mgr).mgr = mgr
      BY PrinterCalls, Zenon
    <2> QED
      BY <1>1, <2>1, <2>2, NothingIs, Zenon
  <1>13. CASE ProcessWriteAll
    <2>1. PICK outcome \in AllFates : Key("write", WriteBackImagesIfChanged(mgr, outcome))
      BY <1>13, Zenon DEF ProcessWriteAll
    <2> DEFINE t == WriteBackImagesIfChanged(mgr, outcome).mgr
    <2>2. Keeps(mgr, t) /\ SameSlots(mgr, t)
      BY WriteAllIs, Zenon
    <2> HIDE DEF t
    <2>3. ManagerOK(t) /\ Kept(mgr, t)
      BY <2>2, SameIsKept DEF Keeps
    <2> QED
      BY <1>1, <2>1, <2>3, Zenon DEF t
  <1>14. CASE ProcessLoadDrive \/ ProcessCreateDrive \/ ProcessWriteDrive \/ ProcessExchangeDrives
    BY <1>2, <1>14, Zenon DEF ProcessLoadDrive, ProcessCreateDrive, ProcessWriteDrive, ProcessExchangeDrives
  <1>15. CASE ProcessUnloadDrive
    <2>1. PICK D \in AllOrOne :
             \/ ~DriveIsChanged(mgr, D) /\ Key("unload", UnloadDiskImage(mgr, D))
             \/ Question(DriveIsChanged(mgr, D), "really unload", D)
      BY <1>15, Zenon DEF ProcessUnloadDrive
    <2>2. CASE ~DriveIsChanged(mgr, D) /\ Key("unload", UnloadDiskImage(mgr, D))
      <3> DEFINE t == UnloadDiskImage(mgr, D).mgr
      <3>1. Shape(mgr)
        BY DEF ManagerOK
      <3>2. ManagerOK(t) /\ Unloads(mgr, t, D)
        BY <3>1, UnloadIs, UnloadKeeps, Zenon
      <3> HIDE DEF t
      <3>3. Kept(mgr, t)
        BY <2>2, <3>2 DEF Unloads, Kept, DriveIsChanged, Unsaved
      <3> QED
        BY <1>1, <2>2, <3>2, <3>3, Zenon DEF t
    <2> QED
      BY <1>2, <2>1, <2>2, Zenon
  <1>16. CASE ProcessQuit
    <2>1. mgr' = mgr
      BY <1>16 DEF ProcessQuit, Question, Stay
    <2> QED
      BY <2>1, NothingIs DEF Good
  <1>17. CASE ProcessFormatDrive
    <2>1. PICK d \in Drives : DriveInUse(mgr, d) /\ mgr' = [mgr EXCEPT !.held = d]
      BY <1>17, Zenon DEF ProcessFormatDrive
    <2>2. mgr.slot[d] # Empty
      BY <2>1 DEF DriveInUse
    <2>3. ManagerOK(mgr') /\ Kept(mgr, mgr')
      BY <2>1, <2>2, HeldIs, Zenon
    <2> QED
      BY <2>3 DEF Good
  <1>18. CASE ProcessInstallPrinterHandler
    <2>1. mgr' = mgr
      BY <1>18 DEF ProcessInstallPrinterHandler, Stay
    <2> QED
      BY <2>1, NothingIs DEF Good
  <1> QED
    BY <1>3, <1>4, <1>5, <1>6, <1>7, <1>8, <1>9, <1>10, <1>11, <1>12, <1>13, <1>14, <1>15, <1>16,
       <1>17, <1>18, Zenon DEF FrontKeys

LEMMA AnswersAreGood ==
    ASSUME ManagerOK(mgr), FrontAnswers PROVE Good
  <1>1. \A t : Keeps(mgr, t) => ManagerOK(t)
    BY DEF Keeps
  <1>2. ASSUME NEW q, NEW name, NEW r, Answer(q, name, r), ManagerOK(r.mgr),
               name \in Careful => Kept(mgr, r.mgr) \/ r.mgr.lost
        PROVE  Good
    BY <1>2 DEF Answer, Call, Event, Good
  <1>3. "load" \notin Careful /\ "create" \notin Careful /\ "confirmed" \notin Careful /\ "install" \notin Careful
        /\ "format" \notin Careful
    BY DEF Careful
  <1>4. CASE LoadFile
    <2>1. PICK d \in Drives, f \in Files \cup Programs : Answer("load", "load", LoadDiskImage(mgr, d, f, TRUE))
      BY <1>4, Zenon DEF LoadFile
    <2>2. TRUE \in BOOLEAN
      OBVIOUS
    <2>3. ManagerOK(LoadDiskImage(mgr, d, f, TRUE).mgr)
      BY <1>1, <2>2, LoadIs, Zenon
    <2> QED
      BY <1>2, <1>3, <2>1, <2>3, Zenon
  <1>5. CASE LoadVirtual
    <2>1. PICK d \in Drives, dir \in Dirs, preset \in BOOLEAN, filled \in BOOLEAN :
             Answer("load", "load", CreateVirtualDrive(mgr, d, dir, preset, filled))
      BY <1>5, Zenon DEF LoadVirtual
    <2>2. ManagerOK(CreateVirtualDrive(mgr, d, dir, preset, filled).mgr)
      BY <1>1, VirtualIs, Zenon
    <2> QED
      BY <1>2, <1>3, <2>1, <2>2, Zenon
  <1>6. CASE CreateSized
    <2>1. PICK d \in Drives : Answer("create", "create", CreateAtrMemoryImage(mgr, d, TRUE))
      BY <1>6, Zenon DEF CreateSized
    <2>2. TRUE \in BOOLEAN
      OBVIOUS
    <2>3. ManagerOK(CreateAtrMemoryImage(mgr, d, TRUE).mgr)
      BY <1>1, <2>2, CreateIs, Zenon
    <2> QED
      BY <1>2, <1>3, <2>1, <2>3, Zenon
  <1>7. CASE WriteFile
    <2>1. PICK d \in Drives, f \in Files, outcome \in Outcomes :
             Answer("write", "write", WriteDiskImage(mgr, d, f, outcome))
      BY <1>7, Zenon DEF WriteFile
    <2> DEFINE t == WriteDiskImage(mgr, d, f, outcome).mgr
    <2>2. ManagerOK(t) /\ (Kept(mgr, t) \/ t.lost)
      BY <1>1, WriteDiskIs, Zenon
    <2> QED
      BY <1>2, <2>1, <2>2, Zenon
  <1>8. CASE ExchangeWith
    <2>1. PICK d \in Drives, e \in Drives : Answer("exchange", "exchange", ExchangeDrives(mgr, d, e))
      BY <1>8, Zenon DEF ExchangeWith
    <2>2. LET t == ExchangeDrives(mgr, d, e).mgr IN ManagerOK(t) /\ Kept(mgr, t)
      BY ExchangeIs, Zenon
    <2> QED
      BY <1>2, <2>1, <2>2, Zenon
  <1>9. CASE ReallyUnload
    <2>1. PICK D \in AllOrOne : Answer("really unload", "confirmed", UnloadDiskImage(mgr, D))
      BY <1>9, Zenon DEF ReallyUnload
    <2>2. ManagerOK(UnloadDiskImage(mgr, D).mgr)
      BY UnloadKeeps, Zenon
    <2> QED
      BY <1>2, <1>3, <2>1, <2>2, Zenon
  <1>10. CASE ReallyQuit
    <2>1. mgr' = mgr
      BY <1>10 DEF ReallyQuit, Stay
    <2> QED
      BY <2>1, NothingIs DEF Good
  <1>11. CASE InstallPrinter
    <2>1. PICK opened \in BOOLEAN :
             Answer("printer", "install", InstallPrinterHandler(mgr, EOLOfKey[ui.key], opened))
      BY <1>11, Zenon DEF InstallPrinter
    <2>2. ManagerOK(InstallPrinterHandler(mgr, EOLOfKey[ui.key], opened).mgr)
      BY PrinterCalls, Zenon
    <2> QED
      BY <1>2, <1>3, <2>1, <2>2, Zenon
  <1>12. CASE FormatAs
    <2>1. ManagerOK(mgr')
      BY <1>12, FormatAsKeeps
    <2>2. did' = "format"
      BY <1>12 DEF FormatAs, Answer, Call, Event
    <2> QED
      BY <1>3, <2>1, <2>2 DEF Good
  <1>13. CASE Abort
    <2>1. mgr' = [mgr EXCEPT !.held = NoDrive]
      BY <1>13, Zenon DEF Abort
    <2>2. ManagerOK(mgr') /\ Kept(mgr, mgr')
      BY <2>1, HeldIs, Zenon
    <2> QED
      BY <2>2 DEF Good
  <1> QED
    BY <1>4, <1>5, <1>6, <1>7, <1>8, <1>9, <1>10, <1>11, <1>12, <1>13, Zenon DEF FrontAnswers

LEMMA StepIsGood ==
    ASSUME ManagerOK(mgr), [FrontNext]_frontvars PROVE Good
  <1>1. CASE FrontKeys
    BY <1>1, KeysAreGood
  <1>2. CASE FrontAnswers
    BY <1>2, AnswersAreGood
  <1>3. CASE RemoteFrame
    <2>1. PICK cmds \in RemoteCommands, fate \in Outcomes, replied \in {"ack fails", "data fails", "complete fails", "all"} :
             Call("remote", Execute(mgr, cmds, fate, replied))
      BY <1>3, Zenon DEF RemoteFrame
    <2>2. ManagerOK(Execute(mgr, cmds, fate, replied).mgr)
      <3>1. Len(cmds) \in Nat
        BY FrontendAssumption, Zenon
      <3> QED
        BY <3>1, ExecuteIs, Zenon
    <2>3. did' = "remote" /\ mgr' = Execute(mgr, cmds, fate, replied).mgr
      BY <2>1, Zenon DEF Call, Event
    <2>4. "remote" \notin Careful
      BY DEF Careful
    <2> QED
      BY <2>2, <2>3, <2>4, Zenon DEF Good
  <1>4. CASE RemoteAsks
    <2>1. mgr' = mgr
      BY <1>4, DoneIs, Zenon DEF RemoteAsks, Call
    <2> QED
      BY <2>1, NothingIs DEF Good
  <1>5. CASE AtariWrites
    <2>1. ManagerOK(mgr')
      BY <1>5, AtariWritesKeeps
    <2>2. did' = "atari"
      BY <1>5, Zenon DEF AtariWrites, Call, Event
    <2> QED
      BY <2>1, <2>2 DEF Good, Careful
  <1>6. CASE UNCHANGED frontvars
    <2>1. mgr' = mgr
      BY <1>6 DEF frontvars
    <2> QED
      BY <2>1, NothingIs DEF Good
  <1> QED
    BY <1>1, <1>2, <1>3, <1>4, <1>5, <1>6, Zenon DEF FrontNext

LEMMA ManagerIsOK == FrontSpec => []ManagerOK(mgr)
  <1>1. ManagerOK(mgr) /\ [FrontNext]_frontvars => ManagerOK(mgr)'
    BY StepIsGood DEF Good
  <1> QED
    BY <1>1, InitIsOK, PTL DEF FrontSpec

(* Every drive works with the options the user sees, unless an ioctl of    *)
(* the driver failed half-way: whichever of the methods of the device      *)
(* manager made the handler (LoadDiskImage, CreateAtrMemoryImage,          *)
(* CreateVirtualDrive, ReloadDrive), and whoever set the options last.     *)
THEOREM OptionsAlwaysAgree == FrontSpec => []OptionsAgree
  <1>1. ManagerOK(mgr) => OptionsAgree
    <2>1. Empty.kind = "none"
      BY DEF Empty
    <2> QED
      BY <2>1 DEF ManagerOK, InSlot, Agrees, OptionsAgree
  <1> QED
    BY <1>1, ManagerIsOK, PTL

(* What counts as unchanged is what was loaded or last saved: no failed    *)
(* write, conversion, exchange, format or reload, by key or by a remote    *)
(* command, makes changes look saved (DiskImage::SetChanged and its        *)
(* callers).                                                               *)
THEOREM CleanIsAlwaysSaved == FrontSpec => []CleanIsSaved
  <1>1. ManagerOK(mgr) => CleanIsSaved
    BY DEF ManagerOK, InSlot, Handler, CleanIsSaved, DriveInUse
  <1> QED
    BY <1>1, ManagerIsOK, PTL

(* Only an order to do so makes changes disappear: after any other key     *)
(* they are in a drive or in a file, for any number of drives and files,   *)
(* if no file was closed without its data.                                 *)
THEOREM ChangesAreKept == FrontSpec => OthersKeepChanges
  <1>1. ManagerOK(mgr) /\ [FrontNext]_frontvars
        => [did' \in Careful => ~Discards \/ mgr'.lost]_frontvars
    <2> SUFFICES ASSUME ManagerOK(mgr), [FrontNext]_frontvars, did' \in Careful, ~mgr'.lost
                 PROVE  ~Discards
      OBVIOUS
    <2>1. Kept(mgr, mgr')
      BY StepIsGood DEF Good
    <2> QED
      BY <2>1, Zenon DEF Kept, Discards
  <1> QED
    BY <1>1, ManagerIsOK, PTL DEF FrontSpec, OthersKeepChanges, Careful
=============================================================================
