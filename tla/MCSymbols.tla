----------------------------- MODULE MCSymbols -----------------------------
(***************************************************************************)
(* Small instances of Symbols: two files a client edits, and the library 3 *)
(* that some contents include.                                             *)
(***************************************************************************)
EXTENDS Symbols

Root(s) == [scope |-> s, sub |-> NoSub]
Sub(s, x) == [scope |-> s, sub |-> x]
Label(n) == [op |-> "label", name |-> n, zero |-> FALSE]
Zero(n) == [op |-> "label", name |-> n, zero |-> TRUE]
Macro(n) == [op |-> "macro", name |-> n, zero |-> FALSE]
Ref8(n) == [op |-> "ref8", name |-> n]
Ref16(n) == [op |-> "ref16", name |-> n]
Use(f) == [op |-> "include", file |-> f]
Op(o) == [op |-> o]

MCItems == [t \in Texts |->
    CASE t = "empty" -> <<>>
      [] t = "lib"   -> <<Zero(Root("a")), Op("device"), Zero(Root("b"))>>
      [] t = "use"   -> <<Macro(Root("d")), Op("enum"), Use(3), Ref16(Root("a")),
                          Op("sig"), Ref8(Root("c")), Use(3), Ref8(Root("d"))>>
      [] t = "full"  -> <<Zero(Root("a")), Op("device"), Op("enum"), Zero(Root("b")),
                          Zero(Sub("b", "x")), Op("sig"), Zero(Root("c")), Op("memory"),
                          Zero(Sub("b", "x")), Ref8(Root("d")), Label(Root("d"))>>
      [] t = "less"  -> <<Ref8(Root("c")), Label(Root("c")), Op("lambda"), Op("lint")>>
      [] t = "error" -> <<Op("error"), Label(Root("c"))>>]

MCDisk == [f \in Files |-> IF f = 3 THEN "lib" ELSE "empty"]
=============================================================================
