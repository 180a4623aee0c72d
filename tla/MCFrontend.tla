----------------------------- MODULE MCFrontend -----------------------------
\* Two drives, an ATR file, an ATP file, a program and the image made of it,
\* one directory; single remote commands of every kind and some sequences.
EXTENDS Frontend

MCAtrOf(p) == "prog.atr"
MCRemoteCommands ==
    LET lo(d, f)   == [op |-> "lo", d |-> d, file |-> f]
        lv(d, p)   == [op |-> "lv", d |-> d, dir |-> "dir", size |-> p]
        wr(d, f)   == [op |-> "wr", d |-> d, file |-> f]
        rd(D)      == [op |-> "rd", drives |-> D]
        cr(d)      == [op |-> "cr", d |-> d, size |-> "preset"]
        un(D)      == [op |-> "un", drives |-> D]
        xc         == [op |-> "xc", d |-> 1, e |-> 2]
        wp(d, on)  == [op |-> "wp", d |-> d, on |-> on]
        ad(D, on)  == [op |-> "ad", drives |-> D, on |-> on]
        sp(on)     == [op |-> "sp", on |-> on]
        pr(on, e)  == [op |-> "pr", on |-> on, eol |-> e]
        xf(on)     == [op |-> "xf", on |-> on]
    IN  {<<lo(1, "a.atr")>>, <<lo(2, "b.atp")>>, <<lv(1, "preset")>>, <<lv(1, "number")>>, <<wr(1, NoName)>>,
         <<wr(1, "b.atp")>>, <<rd(Drives)>>, <<un({1})>>, <<sp(FALSE), xf(TRUE)>>,
         <<[op |-> "st"], [op |-> "cd"], [op |-> "ls"], [op |-> "pl"], un({NoDrive})>>,
         <<[op |-> "sh"], [op |-> "??"]>>, <<pr("f", "raw"), ad({Printer}, FALSE), pr("0", "raw")>>,
         <<cr(1), wp(1, TRUE), xc>>, <<wp(2, TRUE), xc>>, <<[op |-> "wc"], un(Drives)>>,
         <<ad({1}, FALSE), pr("1", "cr"), lo(1, "b.atp")>>, <<lo(NoDrive, "a.atr")>>}
=============================================================================
