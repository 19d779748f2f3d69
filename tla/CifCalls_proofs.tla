--------------------------- MODULE CifCalls_proofs ---------------------------
(***************************************************************************)
(* Proofs about CifCalls: whatever the client declares in its array, and   *)
(* wherever memory ends, what it is told is what was done, nothing is done *)
(* without its arguments, and its arguments stay.                          *)
(***************************************************************************)
EXTENDS CifCalls, TLAPS

(* How many arguments what a service does takes.                           *)
NeededFor(service, does) ==
  CASE service \in {"open", "close"} -> 1
    [] service = "call-method" -> IF does = "mapped" THEN 6 ELSE 5
    [] OTHER -> 3

Methods == {"mem claim", "mmu map", "no method"}

Errors == {"ERR_NONE", "error", "BUG_ON", "ERR_SHUTDOWN", "ERR_UNSUPPORTED"}

(* The arguments that a script reads, and the results it writes.           *)
Shape(h) ==
  /\ h.args \in Seq(Nat)
  /\ h.missing \in {<<>>, <<"0">>, <<"junk">>}
  /\ h.missing # <<>> => h.rets = <<0>>

EndFits(h, e, service) ==
  /\ service # "call-method" => e.err \in Errors
  /\ e.err = "ERR_NONE" => Len(e.results) = Len(h.rets)
  /\ e.does # "none" =>
       /\ e.err = "ERR_NONE"
       /\ \E i \in 1 .. Len(h.args) : h.args[i] = NeededFor(service, e.does) - 1

(* What every handler of the table keeps to.                               *)
Fits(h, service) ==
  /\ Shape(h) /\ h.rets \in {<<>>, <<0>>}
  /\ \A e \in h.ends : EndFits(h, e, service) /\ (service = "call-method" => e.err \in Methods)
  /\ service = "call-method" => h.missing = <<>>

(* And every method of call-method.                                        *)
MethodFits(h) ==
  /\ Shape(h) /\ h.rets \in {<<>>, <<1>>}
  /\ \A e \in h.ends :
       /\ EndFits(h, e, "call-method")
       /\ e.err \in {"ERR_NONE", "error", "BUG_ON"}
       /\ e.does = "claimed" => h.rets = <<1>> /\ e.results = <<"address">>
       /\ e.does = "mapped" => h.rets = <<>>
       /\ e.does \in {"none", "claimed", "mapped"}
  /\ h.missing = <<>> /\ ~h.again

LEMMA ScriptFields ==
  ASSUME NEW args, NEW ends, NEW rets
  PROVE  /\ Script(args, ends, rets).args = args
         /\ Script(args, ends, rets).ends = ends
         /\ Script(args, ends, rets).rets = rets
         /\ Script(args, ends, rets).missing = <<>>
         /\ Script(args, ends, rets).again = FALSE
  BY DEF Script

(* An answer, with or without something done for it, or none.              *)
LEMMA ToldFits ==
  ASSUME NEW h, Len(h.rets) = 1, NEW v, NEW service
  PROVE  EndFits(h, Told(v), service)
  BY DEF EndFits, Told, End, Errors

LEMMA DoesFits ==
  ASSUME NEW h, Len(h.rets) = 1, NEW v, NEW service,
         NEW what, NEW i \in 1 .. Len(h.args), h.args[i] = NeededFor(service, what) - 1
  PROVE  EndFits(h, Does(what, v), service)
  BY DEF EndFits, Does, End, Errors

LEMMA NoAnswerFits ==
  ASSUME NEW h, NEW service
  PROVE  EndFits(h, Stop, service) /\ EndFits(h, Error, service)
  BY DEF EndFits, Stop, Error, End, Errors

LEMMA SilentFits ==
  ASSUME NEW h, h.rets = <<>>, NEW service
  PROVE  /\ EndFits(h, End("ERR_NONE", <<>>, "none"), service)
         /\ \A what, i : i \in 1 .. Len(h.args) /\ h.args[i] = NeededFor(service, what) - 1 =>
                EndFits(h, End("ERR_NONE", <<>>, what), service)
  BY DEF EndFits, End, Errors

(* The services that do something to the rest of the program.              *)
LEMMA MovesFit ==
  /\ Fits(rom_open, "open")
  /\ Fits(rom_close, "close")
  /\ Fits(rom_seek, "seek")
  /\ Fits(rom_read, "read")
  /\ Fits(rom_write, "write")
  /\ Fits(rom_claim, "claim")
<1>1. Fits(rom_open, "open")
  <2>1. /\ rom_open.args = <<0>>
        /\ rom_open.ends = {Told("0"), Does("opened", "ihandle"), Stop}
        /\ rom_open.rets = <<0>>
        /\ rom_open.missing = <<>>
    BY DEF rom_open, Script
  <2>2. Shape(rom_open) /\ rom_open.rets \in {<<>>, <<0>>}
    BY <2>1 DEF Shape
  <2>3. /\ Len(rom_open.rets) = 1
        /\ 1 \in 1 .. Len(rom_open.args)
        /\ rom_open.args[1] = NeededFor("open", "opened") - 1
    BY <2>1 DEF NeededFor
  <2>4. /\ EndFits(rom_open, Told("0"), "open")
        /\ EndFits(rom_open, Does("opened", "ihandle"), "open")
        /\ EndFits(rom_open, Stop, "open")
    BY <2>1, <2>3, ToldFits, DoesFits, NoAnswerFits
  <2>5. \A e \in rom_open.ends : EndFits(rom_open, e, "open")
    BY <2>1, <2>4
  <2> QED BY <2>2, <2>5, <2>1 DEF Fits
<1>2. Fits(rom_close, "close")
  <2>1. /\ rom_close.args = <<0>>
        /\ rom_close.ends = {End("ERR_NONE", <<>>, "none"), End("ERR_NONE", <<>>, "closed")}
        /\ rom_close.rets = <<>>
        /\ rom_close.missing = <<>>
    BY DEF rom_close, Script
  <2>2. Shape(rom_close) /\ rom_close.rets \in {<<>>, <<0>>}
    BY <2>1 DEF Shape
  <2>3. 1 \in 1 .. Len(rom_close.args) /\ rom_close.args[1] = NeededFor("close", "closed") - 1
    BY <2>1 DEF NeededFor
  <2>4. /\ EndFits(rom_close, End("ERR_NONE", <<>>, "none"), "close")
        /\ EndFits(rom_close, End("ERR_NONE", <<>>, "closed"), "close")
    BY <2>1, <2>3, SilentFits
  <2>5. \A e \in rom_close.ends : EndFits(rom_close, e, "close")
    BY <2>1, <2>4
  <2> QED BY <2>2, <2>5, <2>1 DEF Fits
<1>3. Fits(rom_seek, "seek")
  <2>1. /\ rom_seek.args = <<0, 1, 2>>
        /\ rom_seek.ends = {Told("-1"), Told("junk"), Does("moved", "0"), Stop}
        /\ rom_seek.rets = <<0>>
        /\ rom_seek.missing = <<>>
    BY DEF rom_seek, Script
  <2>2. Shape(rom_seek) /\ rom_seek.rets \in {<<>>, <<0>>}
    BY <2>1 DEF Shape
  <2>3. /\ Len(rom_seek.rets) = 1
        /\ 3 \in 1 .. Len(rom_seek.args)
        /\ rom_seek.args[3] = NeededFor("seek", "moved") - 1
    BY <2>1 DEF NeededFor
  <2>4. /\ EndFits(rom_seek, Told("-1"), "seek")
        /\ EndFits(rom_seek, Told("junk"), "seek")
        /\ EndFits(rom_seek, Does("moved", "0"), "seek")
        /\ EndFits(rom_seek, Stop, "seek")
    BY <2>1, <2>3, ToldFits, DoesFits, NoAnswerFits
  <2>5. \A e \in rom_seek.ends : EndFits(rom_seek, e, "seek")
    BY <2>1, <2>4
  <2> QED BY <2>2, <2>5, <2>1 DEF Fits
<1>4. Fits(rom_read, "read")
  <2>1. /\ rom_read.args = <<0, 1, 2>>
        /\ rom_read.ends = {Told("-1"), Does("moved", "length"), Stop}
        /\ rom_read.rets = <<0>>
        /\ rom_read.missing = <<>>
    BY DEF rom_read, Script
  <2>2. Shape(rom_read) /\ rom_read.rets \in {<<>>, <<0>>}
    BY <2>1 DEF Shape
  <2>3. /\ Len(rom_read.rets) = 1
        /\ 3 \in 1 .. Len(rom_read.args)
        /\ rom_read.args[3] = NeededFor("read", "moved") - 1
    BY <2>1 DEF NeededFor
  <2>4. /\ EndFits(rom_read, Told("-1"), "read")
        /\ EndFits(rom_read, Does("moved", "length"), "read")
        /\ EndFits(rom_read, Stop, "read")
    BY <2>1, <2>3, ToldFits, DoesFits, NoAnswerFits
  <2>5. \A e \in rom_read.ends : EndFits(rom_read, e, "read")
    BY <2>1, <2>4
  <2> QED BY <2>2, <2>5, <2>1 DEF Fits
<1>5. Fits(rom_write, "write")
  <2>1. /\ rom_write.args = <<0, 1, 2>>
        /\ rom_write.ends = {Told("-1"), Does("moved", "length"), Stop}
        /\ rom_write.rets = <<0>>
        /\ rom_write.missing = <<>>
    BY DEF rom_write, Script
  <2>2. Shape(rom_write) /\ rom_write.rets \in {<<>>, <<0>>}
    BY <2>1 DEF Shape
  <2>3. /\ Len(rom_write.rets) = 1
        /\ 3 \in 1 .. Len(rom_write.args)
        /\ rom_write.args[3] = NeededFor("write", "moved") - 1
    BY <2>1 DEF NeededFor
  <2>4. /\ EndFits(rom_write, Told("-1"), "write")
        /\ EndFits(rom_write, Does("moved", "length"), "write")
        /\ EndFits(rom_write, Stop, "write")
    BY <2>1, <2>3, ToldFits, DoesFits, NoAnswerFits
  <2>5. \A e \in rom_write.ends : EndFits(rom_write, e, "write")
    BY <2>1, <2>4
  <2> QED BY <2>2, <2>5, <2>1 DEF Fits
<1>6. Fits(rom_claim, "claim")
  <2>1. /\ rom_claim.args = <<0, 1, 2>>
        /\ rom_claim.ends = {Told("-1"), Does("claimed", "address"), Stop}
        /\ rom_claim.rets = <<0>>
        /\ rom_claim.missing = <<>>
    BY DEF rom_claim, Script
  <2>2. Shape(rom_claim) /\ rom_claim.rets \in {<<>>, <<0>>}
    BY <2>1 DEF Shape
  <2>3. /\ Len(rom_claim.rets) = 1
        /\ 3 \in 1 .. Len(rom_claim.args)
        /\ rom_claim.args[3] = NeededFor("claim", "claimed") - 1
    BY <2>1 DEF NeededFor
  <2>4. /\ EndFits(rom_claim, Told("-1"), "claim")
        /\ EndFits(rom_claim, Does("claimed", "address"), "claim")
        /\ EndFits(rom_claim, Stop, "claim")
    BY <2>1, <2>3, ToldFits, DoesFits, NoAnswerFits
  <2>5. \A e \in rom_claim.ends : EndFits(rom_claim, e, "claim")
    BY <2>1, <2>4
  <2> QED BY <2>2, <2>5, <2>1 DEF Fits
<1> QED BY <1>1, <1>2, <1>3, <1>4, <1>5, <1>6

(* The services that do nothing to the rest of the program.                *)
Looks ==
  {rom_child, rom_peer, rom_parent, rom_itopackage, rom_finddevice, rom_itopath, rom_ptopath,
   rom_getprop, rom_getproplen, rom_milliseconds}

LEMMA LooksFit ==
  ASSUME NEW service, service # "call-method", NEW h \in Looks
  PROVE  Fits(h, service)
<1>1. CASE h = rom_child
  <2>1. /\ h.args = <<0>>
        /\ h.ends = {Told("0"), Told("phandle")}
        /\ h.rets = <<0>>
        /\ h.missing = <<"0">>
    BY <1>1 DEF rom_child, Script
  <2>2. Shape(h) /\ Len(h.rets) = 1
    BY <2>1 DEF Shape
  <2>3. \A e \in h.ends : EndFits(h, e, service)
    BY <2>1, <2>2, ToldFits, NoAnswerFits
  <2> QED BY <2>1, <2>2, <2>3 DEF Fits
<1>2. CASE h = rom_peer
  <2>1. /\ h.args = <<0>>
        /\ h.ends = {Told("0"), Told("phandle")}
        /\ h.rets = <<0>>
        /\ h.missing = <<"0">>
    BY <1>2 DEF rom_peer, Script
  <2>2. Shape(h) /\ Len(h.rets) = 1
    BY <2>1 DEF Shape
  <2>3. \A e \in h.ends : EndFits(h, e, service)
    BY <2>1, <2>2, ToldFits, NoAnswerFits
  <2> QED BY <2>1, <2>2, <2>3 DEF Fits
<1>3. CASE h = rom_parent
  <2>1. /\ h.args = <<0>>
        /\ h.ends = {Told("0"), Told("-1"), Told("phandle"), Stop}
        /\ h.rets = <<0>>
        /\ h.missing = <<"junk">>
    BY <1>3 DEF rom_parent, Script
  <2>2. Shape(h) /\ Len(h.rets) = 1
    BY <2>1 DEF Shape
  <2>3. \A e \in h.ends : EndFits(h, e, service)
    BY <2>1, <2>2, ToldFits, NoAnswerFits
  <2> QED BY <2>1, <2>2, <2>3 DEF Fits
<1>4. CASE h = rom_itopackage
  <2>1. /\ h.args = <<0>>
        /\ h.ends = {Told("-1"), Told("phandle")}
        /\ h.rets = <<0>>
        /\ h.missing = <<>>
    BY <1>4 DEF rom_itopackage, Script
  <2>2. Shape(h) /\ Len(h.rets) = 1
    BY <2>1 DEF Shape
  <2>3. \A e \in h.ends : EndFits(h, e, service)
    BY <2>1, <2>2, ToldFits, NoAnswerFits
  <2> QED BY <2>1, <2>2, <2>3 DEF Fits
<1>5. CASE h = rom_finddevice
  <2>1. /\ h.args = <<0>>
        /\ h.ends = {Told("-1"), Told("phandle")}
        /\ h.rets = <<0>>
        /\ h.missing = <<>>
    BY <1>5 DEF rom_finddevice, Script
  <2>2. Shape(h) /\ Len(h.rets) = 1
    BY <2>1 DEF Shape
  <2>3. \A e \in h.ends : EndFits(h, e, service)
    BY <2>1, <2>2, ToldFits, NoAnswerFits
  <2> QED BY <2>1, <2>2, <2>3 DEF Fits
<1>6. CASE h = rom_itopath
  <2>1. /\ h.args = <<0, 1, 2>>
        /\ h.ends = {Told("-1"), Told("length"), Error}
        /\ h.rets = <<0>>
        /\ h.missing = <<>>
    BY <1>6 DEF rom_itopath, Script
  <2>2. Shape(h) /\ Len(h.rets) = 1
    BY <2>1 DEF Shape
  <2>3. \A e \in h.ends : EndFits(h, e, service)
    BY <2>1, <2>2, ToldFits, NoAnswerFits
  <2> QED BY <2>1, <2>2, <2>3 DEF Fits
<1>7. CASE h = rom_ptopath
  <2>1. /\ h.args = <<0, 1, 2>>
        /\ h.ends = {Told("-1"), Told("length"), Error}
        /\ h.rets = <<0>>
        /\ h.missing = <<>>
    BY <1>7 DEF rom_ptopath, Script
  <2>2. Shape(h) /\ Len(h.rets) = 1
    BY <2>1 DEF Shape
  <2>3. \A e \in h.ends : EndFits(h, e, service)
    BY <2>1, <2>2, ToldFits, NoAnswerFits
  <2> QED BY <2>1, <2>2, <2>3 DEF Fits
<1>8. CASE h = rom_getprop
  <2>1. /\ h.args = <<0, 1, 2, 3>>
        /\ h.ends = {Told("-1"), Told("length"), Error, Stop}
        /\ h.rets = <<0>>
        /\ h.missing = <<>>
    BY <1>8 DEF rom_getprop, Script
  <2>2. Shape(h) /\ Len(h.rets) = 1
    BY <2>1 DEF Shape
  <2>3. \A e \in h.ends : EndFits(h, e, service)
    BY <2>1, <2>2, ToldFits, NoAnswerFits
  <2> QED BY <2>1, <2>2, <2>3 DEF Fits
<1>9. CASE h = rom_getproplen
  <2>1. /\ h.args = <<0, 1>>
        /\ h.ends = {Told("-1"), Told("length")}
        /\ h.rets = <<0>>
        /\ h.missing = <<>>
    BY <1>9 DEF rom_getproplen, Script
  <2>2. Shape(h) /\ Len(h.rets) = 1
    BY <2>1 DEF Shape
  <2>3. \A e \in h.ends : EndFits(h, e, service)
    BY <2>1, <2>2, ToldFits, NoAnswerFits
  <2> QED BY <2>1, <2>2, <2>3 DEF Fits
<1>10. CASE h = rom_milliseconds
  <2>1. /\ h.args = <<>>
        /\ h.ends = {Told("time")}
        /\ h.rets = <<0>>
        /\ h.missing = <<>>
    BY <1>10 DEF rom_milliseconds, Script
  <2>2. Shape(h) /\ Len(h.rets) = 1
    BY <2>1 DEF Shape
  <2>3. \A e \in h.ends : EndFits(h, e, service)
    BY <2>1, <2>2, ToldFits, NoAnswerFits
  <2> QED BY <2>1, <2>2, <2>3 DEF Fits
<1> QED BY <1>1, <1>2, <1>3, <1>4, <1>5, <1>6, <1>7, <1>8, <1>9, <1>10 DEF Looks

(* The services that do not come back, and those that there are not.       *)
LEMMA OthersFit ==
  ASSUME NEW service, service # "call-method"
  PROVE  /\ Fits(rom_shutdown, service)
         /\ Fits(Script(<<>>, {End("ERR_UNSUPPORTED", <<>>, "none")}, <<>>), service)
<1>1. ASSUME NEW err \in Errors, NEW h, h = Script(<<>>, {End(err, <<>>, "none")}, <<>>)
      PROVE  Fits(h, service)
  <2>1. h.args = <<>> /\ h.ends = {End(err, <<>>, "none")} /\ h.rets = <<>> /\ h.missing = <<>>
    BY <1>1 DEF Script
  <2>2. EndFits(h, End(err, <<>>, "none"), service)
    BY <2>1 DEF EndFits, End
  <2> QED BY <2>1, <2>2 DEF Fits, Shape
<1> QED BY <1>1 DEF rom_shutdown, Errors

LEMMA CallMethodFits == Fits(rom_callmethod, "call-method")
<1>1. /\ rom_callmethod.args = <<0, 1>>
      /\ rom_callmethod.ends = {End(m, <<>>, "none") : m \in Methods}
      /\ rom_callmethod.rets = <<>>
      /\ rom_callmethod.missing = <<>>
  BY DEF rom_callmethod, Script, Methods
<1>2. ASSUME NEW m \in Methods
      PROVE  EndFits(rom_callmethod, End(m, <<>>, "none"), "call-method")
  BY <1>1 DEF EndFits, End, Methods
<1>3. \A m : End(m, <<>>, "none").err = m
  BY DEF End
<1> QED BY <1>1, <1>2, <1>3 DEF Fits, Shape

LEMMA HandlersFit ==
  ASSUME NEW service
  PROVE  Fits(handlers(service), service)
<1>1. CASE service \in {"open", "close", "seek", "read", "write", "claim"}
  BY <1>1, MovesFit DEF handlers
<1>2. CASE service = "call-method"
  BY <1>2, CallMethodFits DEF handlers
<1>3. CASE service \notin {"open", "close", "seek", "read", "write", "claim", "call-method"}
  <2>1. \/ handlers(service) \in Looks
        \/ handlers(service) = rom_shutdown
        \/ handlers(service) = Script(<<>>, {End("ERR_UNSUPPORTED", <<>>, "none")}, <<>>)
    BY <1>3 DEF handlers, Looks
  <2> QED BY <1>3, <2>1, LooksFit, OthersFit
<1> QED BY <1>1, <1>2, <1>3

(* And the methods of call-method.                                         *)
MethodHandlers == {rom_mem_call, rom_mmu_call, NoMethod}

LEMMA MethodsFit ==
  ASSUME NEW h \in MethodHandlers
  PROVE  MethodFits(h)
<1>1. CASE h = rom_mem_call
  <2>1. /\ h.args = <<2, 3, 4>>
        /\ h.ends = {Told("-1"), Does("claimed", "address"), Stop}
        /\ h.rets = <<1>>
        /\ h.missing = <<>>
        /\ h.again = FALSE
    BY <1>1 DEF rom_mem_call, Script
  <2>2. /\ Shape(h) /\ Len(h.rets) = 1
        /\ 3 \in 1 .. Len(h.args)
        /\ h.args[3] = NeededFor("call-method", "claimed") - 1
    BY <2>1 DEF Shape, NeededFor
  <2>3. \A e \in h.ends : EndFits(h, e, "call-method")
    BY <2>1, <2>2, ToldFits, DoesFits, NoAnswerFits
  <2>4. \A e \in h.ends :
          /\ e.err \in {"ERR_NONE", "error", "BUG_ON"}
          /\ e.does = "claimed" => e.results = <<"address">>
          /\ e.does \in {"none", "claimed"}
    BY <2>1 DEF Told, Does, Stop, End
  <2> QED BY <2>1, <2>2, <2>3, <2>4 DEF MethodFits
<1>2. CASE h = rom_mmu_call
  <2>1. /\ h.args = <<2, 3, 4, 5>>
        /\ h.ends = {End("ERR_NONE", <<>>, "none"), End("ERR_NONE", <<>>, "mapped"), Error, Stop}
        /\ h.rets = <<>>
        /\ h.missing = <<>>
        /\ h.again = FALSE
    BY <1>2 DEF rom_mmu_call, Script
  <2>2. /\ Shape(h)
        /\ 4 \in 1 .. Len(h.args)
        /\ h.args[4] = NeededFor("call-method", "mapped") - 1
    BY <2>1 DEF Shape, NeededFor
  <2>3. \A e \in h.ends : EndFits(h, e, "call-method")
    BY <2>1, <2>2, SilentFits, NoAnswerFits
  <2>4. \A e \in h.ends :
          /\ e.err \in {"ERR_NONE", "error", "BUG_ON"}
          /\ e.does \in {"none", "mapped"}
    BY <2>1 DEF Error, Stop, End
  <2> QED BY <2>1, <2>2, <2>3, <2>4 DEF MethodFits
<1>3. CASE h = NoMethod
  <2>1. h.args = <<>> /\ h.ends = {Error} /\ h.rets = <<>> /\ h.missing = <<>> /\ h.again = FALSE
    BY <1>3 DEF NoMethod, Script
  <2>2. EndFits(h, Error, "call-method") /\ Error.err = "error" /\ Error.does = "none"
    BY NoAnswerFits DEF Error, End
  <2> QED BY <2>1, <2>2 DEF MethodFits, Shape
<1> QED BY <1>1, <1>2, <1>3 DEF MethodHandlers

-----------------------------------------------------------------------------
(* Cells of the array, modulo the address space.                           *)
LEMMA CellType ==
  ASSUME NEW i \in Nat
  PROVE  /\ CELL(i) \in Cells /\ i \div CellMod \in Int
         /\ i = CellMod * (i \div CellMod) + CELL(i)
  BY CallsAssumption DEF CELL, Cells

LEMMA CellSmall ==
  ASSUME NEW i \in Nat, i < CellMod
  PROVE  CELL(i) = i
<1> DEFINE q == i \div CellMod
<1>0. q \in Int /\ CELL(i) \in Cells /\ i = CellMod * q + CELL(i)
  BY CellType
<1> HIDE DEF q
<1>1. q \in Int /\ CELL(i) \in Cells /\ CellMod * q = i - CELL(i)
  BY <1>0, CallsAssumption DEF Cells
<1>2. q < 1 /\ q > -1
  BY <1>1, CallsAssumption DEF Cells
<1>3. q = 0
  BY <1>1, <1>2
<1> QED BY <1>1, <1>3, CallsAssumption DEF Cells

LEMMA CellNext ==
  ASSUME NEW i \in Nat
  PROVE  CELL(i) # CELL(i + 1)
<1> SUFFICES ASSUME CELL(i) = CELL(i + 1) PROVE FALSE
  OBVIOUS
<1> DEFINE q == i \div CellMod
           p == (i + 1) \div CellMod
<1>1. q \in Int /\ CELL(i) \in Int /\ i = CellMod * q + CELL(i)
  BY CellType DEF Cells
<1>2. p \in Int /\ i + 1 = CellMod * p + CELL(i)
  BY CellType
<1> HIDE DEF p, q
<1>3. CellMod * (p - q) = 1 /\ p - q \in Int
  BY <1>1, <1>2, CallsAssumption
<1>4. p - q > 0 /\ p - q < 1
  BY <1>3, CallsAssumption
<1> QED BY <1>3, <1>4

-----------------------------------------------------------------------------
(* What holds of a call at every step of it.                               *)
TypeOK ==
  /\ call.nin \in Nat /\ call.nout \in Nat /\ call.present \in Nat
  /\ at \in Nat
  /\ DOMAIN cell = Cells
  /\ pc \in {"guest", "call", "args", "rets", "back", "monitor", "shut", "stopped"}
  /\ outer \in {"none", "method", "result"}

(* Where nothing is done yet, and where no method has begun.               *)
NothingYet ==
  /\ pc \in {"guest", "call", "args", "monitor"} => effect = "none"
  /\ pc \in {"guest", "call", "monitor"} => outer = "none"
  /\ pc = "guest" => cell = Untouched

(* The script is the service's, its method's, or call-method's result.     *)
RightHandler ==
  pc \in {"args", "rets"} =>
    /\ outer = "none" => handler = handlers(call.service)
    /\ outer # "none" => call.service = "call-method"
    /\ outer = "method" => handler \in MethodHandlers
    /\ outer = "result" => pc = "rets" /\ handler = MethodResult

ArgsRead ==
  pc = "args" =>
    /\ at <= Len(handler.args)
    /\ \A i \in 1 .. at : handler.args[i] < call.nin /\ There(3 + handler.args[i])

RetsWritten ==
  pc = "rets" =>
    /\ at <= Len(handler.rets) /\ Len(answer) = Len(handler.rets)
    /\ \A i \in 1 .. at : Ret(handler.rets[i]) = answer[i]
    /\ outer = "none" => call.service # "call-method"

(* What the method did, and where it told of it.                           *)
MethodTold ==
  pc = "rets" =>
    /\ outer = "method" =>
         /\ effect \in {"none", "claimed", "mapped"}
         /\ effect = "claimed" => handler.rets = <<1>> /\ answer = <<"address">>
         /\ effect = "mapped" => handler.rets = <<>>
    /\ outer = "result" =>
         \/ answer = <<"0">> /\ (effect = "claimed" => Ret(1) = "address")
         \/ answer = <<"-1">> /\ (effect = "none" \/ (effect = "claimed" /\ ~There(CIA_RET(1))))

CallInv ==
  /\ TypeOK /\ NothingYet /\ RightHandler /\ ArgsRead /\ RetsWritten /\ MethodTold
  /\ EffectHasArguments /\ ArgumentsKept /\ FailureHasNoEffect /\ AnswerTold

LEMMA UntouchedKept ==
  ASSUME NEW nin \in Nat, NEW nout \in Nat, 3 + nin + nout <= CellMod, NEW c \in 0 .. 2 + nin
  PROVE  Untouched[c] = "client"
<1>1. c \in Cells
  BY CallsAssumption DEF Cells
<1> QED BY <1>1 DEF Untouched

LEMMA CallInit == Init => CallInv
<1> SUFFICES ASSUME Init PROVE CallInv
  OBVIOUS
<1> USE CallsAssumption DEF Init, NoCall
<1>1. TypeOK
  BY DEF TypeOK, Untouched
<1>2. NothingYet /\ RightHandler /\ ArgsRead /\ RetsWritten /\ MethodTold
  BY DEF NothingYet, RightHandler, ArgsRead, RetsWritten, MethodTold
<1>3. EffectHasArguments /\ FailureHasNoEffect /\ AnswerTold
  BY DEF EffectHasArguments, FailureHasNoEffect, AnswerTold
<1>4. ArgumentsKept
  <2>1. call.nin \in Nat /\ call.nout \in Nat /\ cell = Untouched
    OBVIOUS
  <2> QED BY <2>1, UntouchedKept DEF ArgumentsKept
<1> QED BY <1>1, <1>2, <1>3, <1>4 DEF CallInv

-----------------------------------------------------------------------------
(* A client that asks, and one that goes on, finds its cells as they were. *)
LEMMA AskKeeps ==
  ASSUME CallInv, Ask
  PROVE  CallInv'
<1> USE DEF CallInv, Ask
<1>1. TypeOK'
  BY CallsAssumption DEF TypeOK, Cells
<1>2. /\ effect' = "none" /\ outer' = "none" /\ pc' = "call" /\ call' \in Calls /\ cell' = Untouched
  BY DEF NothingYet
<1>3. NothingYet' /\ RightHandler' /\ ArgsRead' /\ RetsWritten' /\ MethodTold'
  BY <1>2 DEF NothingYet, RightHandler, ArgsRead, RetsWritten, MethodTold
<1>4. EffectHasArguments' /\ FailureHasNoEffect' /\ AnswerTold'
  BY <1>2 DEF EffectHasArguments, FailureHasNoEffect, AnswerTold
<1>5. ArgumentsKept'
  <2>1. call'.nin \in Nat /\ call'.nout \in Nat /\ cell' = Untouched
    BY <1>1, <1>2 DEF TypeOK
  <2> QED BY <2>1, UntouchedKept DEF ArgumentsKept
<1> QED BY <1>1, <1>2, <1>3, <1>4, <1>5

LEMMA ResumeKeeps ==
  ASSUME Resume
  PROVE  CallInv'
<1> USE CallsAssumption DEF Resume, NoCall
<1>1. TypeOK'
  BY DEF TypeOK, Untouched
<1>2. NothingYet' /\ RightHandler' /\ ArgsRead' /\ RetsWritten' /\ MethodTold'
  BY DEF NothingYet, RightHandler, ArgsRead, RetsWritten, MethodTold
<1>3. EffectHasArguments' /\ FailureHasNoEffect' /\ AnswerTold'
  BY DEF EffectHasArguments, FailureHasNoEffect, AnswerTold
<1>4. ArgumentsKept'
  <2>1. call'.nin \in Nat /\ call'.nout \in Nat /\ cell' = Untouched
    OBVIOUS
  <2> QED BY <2>1, UntouchedKept DEF ArgumentsKept
<1> QED BY <1>1, <1>2, <1>3, <1>4 DEF CallInv

(* Going on, and going in: nothing is done.                                *)
LEMMA EntryKeeps ==
  ASSUME CallInv, Cont \/ rom_call, ~Dies
  PROVE  CallInv'
<1> USE DEF CallInv, Cont, rom_call, Back
<1>1. /\ effect' = "none" /\ outer' = "none" /\ UNCHANGED <<call, cell>>
      /\ pc' \in {"call", "args", "back"}
      /\ pc' = "args" => handler' = handlers(call.service) /\ at' = 0
      /\ pc' = "back" => r3' = -1
  BY DEF NothingYet
<1>2. TypeOK'
  BY <1>1 DEF TypeOK
<1>3. NothingYet' /\ RetsWritten' /\ MethodTold'
  BY <1>1 DEF NothingYet, RetsWritten, MethodTold
<1>4. RightHandler'
  BY <1>1 DEF RightHandler
<1>5. ArgsRead'
  <2>1. Len(handlers(call.service).args) \in Nat
    BY HandlersFit DEF Fits, Shape
  <2> QED BY <1>1, <2>1 DEF ArgsRead
<1>6. EffectHasArguments' /\ FailureHasNoEffect' /\ AnswerTold'
  BY <1>1 DEF EffectHasArguments, FailureHasNoEffect, AnswerTold
<1>7. ArgumentsKept'
  BY <1>1 DEF ArgumentsKept
<1> QED BY <1>2, <1>3, <1>4, <1>5, <1>6, <1>7

-----------------------------------------------------------------------------
(* The script that runs.                                                   *)
LEMMA ResultShape ==
  /\ MethodResult.args = <<>> /\ MethodResult.rets = <<0>> /\ MethodResult.missing = <<>>
  BY DEF MethodResult, Script

LEMMA RunningShape ==
  ASSUME CallInv, pc \in {"args", "rets"}
  PROVE  /\ Shape(handler)
         /\ outer # "method" => handler.rets \in {<<>>, <<0>>}
         /\ outer = "method" => handler.rets \in {<<>>, <<1>>}
         /\ handler.missing # <<>> => outer = "none" /\ call.service # "call-method"
<1>1. outer \in {"none", "method", "result"} /\ RightHandler
  BY DEF CallInv, TypeOK
<1>2. CASE outer = "none"
  BY <1>1, <1>2, HandlersFit DEF RightHandler, Fits
<1>3. CASE outer = "method"
  BY <1>1, <1>3, MethodsFit DEF RightHandler, MethodFits
<1>4. CASE outer = "result"
  <2>1. handler.args = <<>> /\ handler.rets = <<0>> /\ handler.missing = <<>>
    BY <1>1, <1>4, ResultShape DEF RightHandler
  <2> QED BY <1>4, <2>1 DEF Shape
<1> QED BY <1>1, <1>2, <1>3, <1>4

(* A BUG_ON, or the end of the program.                                    *)
LEMMA LeaveKeeps ==
  ASSUME CallInv, pc' \in {"stopped", "shut"}, UNCHANGED <<call, at, outer, cell, effect>>
  PROVE  CallInv'
<1> USE DEF CallInv
<1>1. TypeOK'
  BY DEF TypeOK
<1>2. NothingYet' /\ RightHandler' /\ ArgsRead' /\ RetsWritten' /\ MethodTold'
  BY DEF NothingYet, RightHandler, ArgsRead, RetsWritten, MethodTold
<1>3. EffectHasArguments' /\ FailureHasNoEffect' /\ AnswerTold'
  BY DEF EffectHasArguments, Needed, FailureHasNoEffect, AnswerTold
<1>4. ArgumentsKept'
  BY DEF ArgumentsKept
<1> QED BY <1>1, <1>2, <1>3, <1>4

(* A handler that fails.                                                   *)
LEMMA FailsKeeps ==
  ASSUME CallInv, pc \in {"args", "rets"}, Ends("error"), UNCHANGED <<call, cell, effect>>,
         outer = "method" => effect = "none" \/ (effect = "claimed" /\ ~There(CIA_RET(1))),
         outer # "method" => effect = "none" \/ ~There(CIA_RET(0))
  PROVE  CallInv'
<1> USE DEF CallInv
<1>1. EffectHasArguments' /\ ArgumentsKept'
  BY DEF EffectHasArguments, Needed, ArgumentsKept
<1>2. CASE outer = "method"
  <2>1. /\ handler' = MethodResult /\ outer' = "result" /\ answer' = <<"-1">>
        /\ at' = 0 /\ pc' = "rets"
    BY <1>2 DEF Ends
  <2>2. TypeOK' /\ NothingYet' /\ ArgsRead' /\ FailureHasNoEffect' /\ AnswerTold'
    BY <2>1 DEF TypeOK, NothingYet, ArgsRead, FailureHasNoEffect, AnswerTold
  <2>3. call.service = "call-method"
    BY <1>2 DEF RightHandler
  <2>4. RightHandler'
    BY <2>1, <2>3 DEF RightHandler
  <2>5. RetsWritten'
    BY <2>1, ResultShape DEF RetsWritten
  <2>6. MethodTold'
    BY <1>2, <2>1 DEF MethodTold, There, CIA_RET
  <2> QED BY <1>1, <2>2, <2>4, <2>5, <2>6
<1>3. CASE outer # "method"
  <2>1. pc' = "back" /\ r3' = -1 /\ UNCHANGED <<handler, at, answer, outer>>
    BY <1>3 DEF Ends, Back
  <2>2. /\ TypeOK' /\ NothingYet' /\ RightHandler' /\ ArgsRead' /\ RetsWritten' /\ MethodTold'
        /\ AnswerTold'
    BY <2>1 DEF TypeOK, NothingYet, RightHandler, ArgsRead, RetsWritten, MethodTold, AnswerTold
  <2>3. FailureHasNoEffect'
    BY <1>3, <2>1 DEF FailureHasNoEffect, There, CIA_RET
  <2> QED BY <1>1, <2>2, <2>3
<1> QED BY <1>2, <1>3

LEMMA ReadArgKeeps ==
  ASSUME CallInv, ReadArg
  PROVE  CallInv'
<1> DEFINE arg == CIA_ARG(handler.args[at + 1])
<1>0. /\ pc = "args" /\ at \in Nat /\ at < Len(handler.args) /\ UNCHANGED <<call, cell, effect>>
      /\ effect = "none"
  BY DEF ReadArg, CallInv, TypeOK, NothingYet
<1>1. CASE Dies
  BY <1>0, <1>1, LeaveKeeps DEF Dies
<1>2. CASE Ends("error")
  BY <1>0, <1>2, FailsKeeps
<1>3. CASE arg = "cell" /\ at' = at + 1 /\ UNCHANGED <<handler, answer, outer, r3, pc>>
  <2> USE DEF CallInv
  <2>1. handler.args[at + 1] < call.nin /\ There(3 + handler.args[at + 1])
    <3>1. /\ Len(handler.args) \in Nat /\ at + 1 \in 1 .. Len(handler.args)
          /\ handler.args \in Seq(Nat)
      BY <1>0, RunningShape DEF Shape
    <3>2. handler.args[at + 1] \in Nat
      BY <3>1
    <3> HIDE DEF CallInv
    <3>3. TypeOK
      BY DEF CallInv
    <3> QED BY <1>3, <3>2, <3>3 DEF CIA_ARG, Access, TypeOK
  <2>2. ArgsRead'
    <3>1. at + 1 <= Len(handler.args)
      BY <1>0, RunningShape DEF Shape
    <3>2. ASSUME NEW i \in 1 .. at + 1
          PROVE  handler.args[i] < call.nin /\ CELL(3 + handler.args[i]) < call.present
      <4>1. i \in 1 .. at \/ i = at + 1
        BY <1>0
      <4>2. \A k \in 1 .. at : handler.args[k] < call.nin /\ CELL(3 + handler.args[k]) < call.present
        BY <1>0 DEF ArgsRead, There
      <4> QED BY <2>1, <4>1, <4>2 DEF There
    <3> QED BY <1>0, <1>3, <3>1, <3>2 DEF ArgsRead, There, CELL
  <2>3. TypeOK' /\ NothingYet' /\ RightHandler' /\ RetsWritten' /\ MethodTold'
    BY <1>0, <1>3 DEF TypeOK, NothingYet, RightHandler, RetsWritten, MethodTold
  <2>4. EffectHasArguments' /\ FailureHasNoEffect' /\ AnswerTold' /\ ArgumentsKept'
    BY <1>0, <1>3 DEF EffectHasArguments, FailureHasNoEffect, AnswerTold, ArgumentsKept
  <2> QED BY <2>2, <2>3, <2>4
<1>4. CASE /\ handler.missing # <<>>
           /\ answer' = handler.missing /\ at' = 0 /\ pc' = "rets"
           /\ UNCHANGED <<handler, outer, r3>>
  <2>1. /\ outer = "none" /\ call.service # "call-method"
        /\ handler.rets = <<0>> /\ Len(handler.missing) = 1
    BY <1>0, <1>4, RunningShape DEF Shape
  <2> USE DEF CallInv
  <2>2. RetsWritten'
    BY <1>0, <1>4, <2>1 DEF RetsWritten
  <2>3. TypeOK' /\ NothingYet' /\ RightHandler' /\ ArgsRead' /\ MethodTold'
    BY <1>0, <1>4, <2>1 DEF TypeOK, NothingYet, RightHandler, ArgsRead, MethodTold
  <2>4. EffectHasArguments' /\ FailureHasNoEffect' /\ AnswerTold' /\ ArgumentsKept'
    BY <1>0, <1>4 DEF EffectHasArguments, FailureHasNoEffect, AnswerTold, ArgumentsKept
  <2> QED BY <2>2, <2>3, <2>4
<1> QED BY <1>1, <1>2, <1>3, <1>4 DEF ReadArg

LEMMA FinishKeeps ==
  ASSUME CallInv, Finish
  PROVE  CallInv'
<1>0. /\ pc = "rets" /\ at = Len(handler.rets) /\ Ends("ERR_NONE") /\ UNCHANGED <<call, cell, effect>>
      /\ TypeOK /\ RightHandler /\ RetsWritten /\ MethodTold
  BY DEF Finish, CallInv
<1>1. EffectHasArguments' /\ ArgumentsKept'
  BY <1>0 DEF CallInv, EffectHasArguments, Needed, ArgumentsKept
<1>2. CASE outer = "method"
  <2>1. /\ handler' = MethodResult /\ outer' = "result" /\ answer' = <<"0">>
        /\ at' = 0 /\ pc' = "rets"
    BY <1>0, <1>2 DEF Ends
  <2>2. TypeOK' /\ NothingYet' /\ ArgsRead' /\ FailureHasNoEffect' /\ AnswerTold'
    BY <1>0, <2>1 DEF TypeOK, NothingYet, ArgsRead, FailureHasNoEffect, AnswerTold
  <2>3. RightHandler'
    BY <1>0, <1>2, <2>1 DEF RightHandler
  <2>4. RetsWritten'
    BY <2>1, ResultShape DEF RetsWritten
  <2>5. effect = "claimed" => Ret(1) = "address"
    BY <1>0, <1>2 DEF RetsWritten, MethodTold
  <2>6. MethodTold'
    BY <1>0, <2>1, <2>5 DEF MethodTold, Ret, CIA_RET
  <2> QED BY <1>1, <2>2, <2>3, <2>4, <2>6 DEF CallInv
<1>3. CASE outer # "method"
  <2>1. pc' = "back" /\ r3' = 0 /\ UNCHANGED <<handler, at, answer, outer>>
    BY <1>0, <1>3 DEF Ends, Back
  <2>2. /\ TypeOK' /\ NothingYet' /\ RightHandler' /\ ArgsRead' /\ RetsWritten' /\ MethodTold'
        /\ FailureHasNoEffect'
    BY <1>0, <2>1 DEF TypeOK, NothingYet, RightHandler, ArgsRead, RetsWritten, MethodTold, FailureHasNoEffect
  <2>3. AnswerTold
    BY <1>0 DEF AnswerTold
  <2>4. CASE outer = "none"
    <3>1. call.service # "call-method" /\ \A i \in 1 .. Len(handler.rets) : Ret(handler.rets[i]) = answer[i]
      BY <1>0, <2>4 DEF RetsWritten
    <3>2. AnswerTold'
      BY <1>0, <2>1, <3>1 DEF AnswerTold, Ret, CIA_RET
    <3> QED BY <1>1, <2>2, <3>2 DEF CallInv
  <2>5. CASE outer = "result"
    <3>1. call.service = "call-method" /\ Ret(0) = answer[1]
      BY <1>0, <2>5, ResultShape DEF RightHandler, RetsWritten
    <3>2. \/ Ret(0) = "0" /\ (effect = "claimed" => Ret(1) = "address")
          \/ Ret(0) = "-1" /\ (effect = "none" \/ (effect = "claimed" /\ ~There(CIA_RET(1))))
      BY <1>0, <2>5, <3>1 DEF MethodTold
    <3>3. AnswerTold'
      BY <1>0, <2>1, <3>1, <3>2 DEF AnswerTold, Ret, CIA_RET, There
    <3> QED BY <1>1, <2>2, <3>3 DEF CallInv
  <2> QED BY <1>0, <1>3, <2>4, <2>5 DEF TypeOK
<1> QED BY <1>2, <1>3

LEMMA WriteRetKeeps ==
  ASSUME CallInv, WriteRet
  PROVE  CallInv'
<1> DEFINE x == handler.rets[at + 1]
           c == CIA_RET(x)
<1>0. /\ pc = "rets" /\ at \in Nat /\ at < Len(handler.rets) /\ UNCHANGED <<call, effect>>
      /\ TypeOK
  BY DEF WriteRet, CallInv, TypeOK
<1>1. /\ at = 0 /\ Len(handler.rets) = 1
      /\ outer # "method" => x = 0
      /\ outer = "method" => x = 1
  <2>1. /\ outer # "method" => handler.rets \in {<<>>, <<0>>}
        /\ outer = "method" => handler.rets \in {<<>>, <<1>>}
    BY <1>0, RunningShape
  <2>2. handler.rets # <<>>
    BY <1>0
  <2>3. CASE outer = "method" /\ handler.rets = <<1>>
    BY <1>0, <2>3
  <2>4. CASE outer # "method" /\ handler.rets = <<0>>
    BY <1>0, <2>4
  <2> QED BY <2>1, <2>2, <2>3, <2>4
<1>2. CASE Dies /\ UNCHANGED cell
  BY <1>0, <1>2, LeaveKeeps DEF Dies
<1>3. CASE ~There(c) /\ Ends("error") /\ UNCHANGED cell
  <2>1. outer = "method" => effect = "none" \/ (effect = "claimed" /\ ~There(CIA_RET(1)))
    BY <1>0, <1>1, <1>3 DEF CallInv, MethodTold
  <2>2. outer # "method" => ~There(CIA_RET(0))
    BY <1>1, <1>3
  <2> QED BY <1>0, <1>3, <2>1, <2>2, FailsKeeps
<1>4. CASE UNCHANGED <<handler, at, answer, outer, r3, pc>> /\ UNCHANGED cell
  BY <1>0, <1>4 DEF CallInv, TypeOK, NothingYet, RightHandler, ArgsRead, RetsWritten, MethodTold,
       EffectHasArguments, Needed, ArgumentsKept, FailureHasNoEffect, AnswerTold, Ret, CIA_RET, There
<1>5. CASE /\ x < call.nout
           /\ cell' = [cell EXCEPT ![CELL(c)] = answer[at + 1]]
           /\ at' = at + 1
           /\ UNCHANGED <<handler, answer, outer, r3, pc>>
  <2>1. c \in Nat /\ c = 3 + call.nin + x /\ CELL(c) \in Cells /\ x \in {0, 1}
    BY <1>0, <1>1, CellType DEF CIA_RET, TypeOK
  <2>2. /\ cell'[CELL(c)] = answer[1]
        /\ \A k \in Cells : k # CELL(c) => cell'[k] = cell[k]
        /\ DOMAIN cell' = Cells
    BY <1>0, <1>1, <1>5, <2>1 DEF TypeOK
  <2>3. TypeOK'
    BY <1>0, <1>5, <2>2 DEF TypeOK
  <2>4. NothingYet' /\ RightHandler' /\ ArgsRead' /\ FailureHasNoEffect' /\ AnswerTold'
    BY <1>0, <1>5 DEF CallInv, NothingYet, RightHandler, ArgsRead, FailureHasNoEffect, AnswerTold
  <2>5. RetsWritten'
    <3>1. Ret(handler.rets[1])' = answer[1]
      BY <1>0, <1>1, <1>5, <2>2 DEF Ret, CIA_RET
    <3>2. Len(answer) = 1 /\ (outer = "none" => call.service # "call-method")
      BY <1>0, <1>1 DEF CallInv, RetsWritten
    <3> QED BY <1>0, <1>1, <1>5, <3>1, <3>2 DEF RetsWritten
  <2>6. outer = "result" => Ret(1)' = Ret(1)
    <3> SUFFICES ASSUME outer = "result" PROVE Ret(1)' = Ret(1)
      OBVIOUS
    <3>1. x = 0 /\ CIA_RET(1) = c + 1 /\ CELL(c + 1) # CELL(c) /\ CELL(c + 1) \in Cells
      BY <1>0, <1>1, <2>1, CellNext, CellType DEF CIA_RET, TypeOK
    <3>2. cell'[CELL(c + 1)] = cell[CELL(c + 1)]
      BY <2>2, <3>1
    <3> QED BY <1>0, <3>1, <3>2 DEF Ret, CIA_RET
  <2>7. MethodTold'
    BY <1>0, <1>5, <2>6 DEF CallInv, MethodTold, There, CIA_RET
  <2>8. EffectHasArguments'
    BY <1>0 DEF CallInv, EffectHasArguments, Needed
  <2>9. ArgumentsKept'
    <3>1. SUFFICES ASSUME 3 + call.nin + call.nout <= CellMod, NEW k \in 0 .. 2 + call.nin
                   PROVE  cell'[k] = "client"
      BY <1>0 DEF ArgumentsKept
    <3>2. c < CellMod /\ k < c /\ k \in Cells
      <4> HIDE DEF c, x
      <4>1. call.nin \in Nat /\ call.nout \in Nat /\ x < call.nout
        BY <1>0, <1>5 DEF TypeOK
      <4> QED BY <2>1, <3>1, <4>1, CallsAssumption DEF Cells
    <3>3. CELL(c) = c
      BY <2>1, <3>2, CellSmall
    <3>4. cell[k] = "client"
      BY <3>1 DEF CallInv, ArgumentsKept
    <3> QED BY <2>1, <2>2, <3>2, <3>3, <3>4 DEF Cells
  <2> QED BY <2>3, <2>4, <2>5, <2>7, <2>8, <2>9 DEF CallInv
<1> QED BY <1>2, <1>3, <1>4, <1>5 DEF WriteRet, Access

(* What is done has had its arguments read.                                *)
LEMMA ArgumentsRead ==
  ASSUME CallInv, pc = "args", at = Len(handler.args),
         NEW does, NEW i \in 1 .. Len(handler.args),
         handler.args[i] = NeededFor(call.service, does) - 1
  PROVE  /\ NeededFor(call.service, does) <= call.nin
         /\ 3 + NeededFor(call.service, does) <= call.present
<1> DEFINE n == NeededFor(call.service, does)
<1>1. n \in {1, 3, 5, 6}
  BY DEF NeededFor
<1>2. n - 1 < call.nin /\ There(3 + (n - 1))
  BY DEF CallInv, ArgsRead
<1> HIDE DEF n
<1>3. CELL(2 + n) = 2 + n /\ 3 + (n - 1) = 2 + n
  BY <1>1, CellSmall, CallsAssumption
<1>4. call.nin \in Nat /\ call.present \in Nat
  BY DEF CallInv, TypeOK
<1>5. n <= call.nin /\ 3 + n <= call.present
  BY <1>1, <1>2, <1>3, <1>4 DEF There
<1> QED BY <1>5 DEF n

LEMMA ServeKeeps ==
  ASSUME CallInv, Serve
  PROVE  CallInv'
<1>0. /\ pc = "args" /\ at = Len(handler.args) /\ effect = "none" /\ outer \in {"none", "method"}
      /\ UNCHANGED <<call, cell>>
  BY DEF Serve, CallInv, NothingYet, RightHandler, TypeOK
<1>1. PICK end \in handler.ends :
        /\ effect' = IF end.does = "none" THEN effect ELSE end.does
        /\ \/ /\ end.err = "ERR_NONE"
              /\ answer' = end.results /\ at' = 0 /\ pc' = "rets" /\ UNCHANGED <<handler, outer, r3>>
           \/ end.err = "error" /\ Ends("error")
           \/ end.err = "BUG_ON" /\ Dies
           \/ /\ end.err = "ERR_SHUTDOWN" /\ pc' = "shut"
              /\ UNCHANGED <<handler, at, answer, outer, r3>>
           \/ /\ end.err = "ERR_UNSUPPORTED" /\ pc' = "monitor"
              /\ UNCHANGED <<handler, at, answer, outer, r3>>
           \/ /\ end.err \notin Errors
              /\ handler' \in MethodHandlers
              /\ outer' = "method" /\ at' = 0
              /\ UNCHANGED <<answer, r3, pc>>
  BY DEF Serve, Errors, MethodHandlers
<1>2. /\ EndFits(handler, end, call.service)
      /\ outer = "none" /\ call.service = "call-method" => end.err \in Methods
  <2>1. CASE outer = "none"
    BY <1>0, <2>1, HandlersFit DEF CallInv, RightHandler, Fits
  <2>2. CASE outer = "method"
    BY <1>0, <2>2, MethodsFit DEF CallInv, RightHandler, MethodFits
  <2> QED BY <1>0, <2>1, <2>2
<1>3. outer = "method" =>
        /\ call.service = "call-method" /\ end.err \in {"ERR_NONE", "error", "BUG_ON"}
        /\ end.does = "claimed" => handler.rets = <<1>> /\ end.results = <<"address">>
        /\ end.does = "mapped" => handler.rets = <<>>
        /\ end.does \in {"none", "claimed", "mapped"}
  BY <1>0, MethodsFit DEF CallInv, RightHandler, MethodFits
<1>4. end.err # "ERR_NONE" => effect' = "none"
  BY <1>0, <1>1, <1>2 DEF EndFits
<1>5. EffectHasArguments' /\ ArgumentsKept'
  <2>1. ArgumentsKept'
    BY <1>0 DEF CallInv, ArgumentsKept
  <2>2. CASE end.does = "none"
    BY <1>0, <1>1, <2>1, <2>2 DEF EffectHasArguments
  <2>3. CASE end.does # "none"
    <3>1. PICK i \in 1 .. Len(handler.args) : handler.args[i] = NeededFor(call.service, end.does) - 1
      BY <1>2, <2>3 DEF EndFits
    <3>2. /\ NeededFor(call.service, end.does) <= call.nin
          /\ 3 + NeededFor(call.service, end.does) <= call.present
      BY <1>0, <3>1, ArgumentsRead
    <3>3. effect' = end.does /\ call' = call
      BY <1>0, <1>1, <2>3
    <3> QED BY <2>1, <3>2, <3>3 DEF EffectHasArguments, Needed, NeededFor
  <2> QED BY <2>2, <2>3
<1>6. CASE /\ end.err = "ERR_NONE"
           /\ answer' = end.results /\ at' = 0 /\ pc' = "rets" /\ UNCHANGED <<handler, outer, r3>>
  <2>1. TypeOK' /\ NothingYet' /\ RightHandler' /\ ArgsRead' /\ FailureHasNoEffect' /\ AnswerTold'
    BY <1>0, <1>6 DEF CallInv, TypeOK, NothingYet, RightHandler, ArgsRead, FailureHasNoEffect, AnswerTold
  <2>2. RetsWritten'
    <3>1. Len(end.results) = Len(handler.rets) /\ 0 <= Len(handler.rets)
      BY <1>0, <1>2, <1>6, RunningShape DEF EndFits
    <3>2. outer = "none" => call.service # "call-method"
      BY <1>2, <1>6 DEF Methods
    <3> QED BY <1>0, <1>6, <3>1, <3>2 DEF RetsWritten
  <2>3. MethodTold'
    BY <1>0, <1>1, <1>3, <1>6 DEF MethodTold
  <2> QED BY <1>5, <2>1, <2>2, <2>3 DEF CallInv
<1>7. CASE end.err = "error" /\ Ends("error")
  BY <1>0, <1>4, <1>7, FailsKeeps
<1>8. CASE end.err = "BUG_ON" /\ Dies
  BY <1>0, <1>4, <1>8, LeaveKeeps DEF Dies
<1>9. CASE /\ end.err = "ERR_SHUTDOWN" /\ pc' = "shut"
           /\ UNCHANGED <<handler, at, answer, outer, r3>>
  BY <1>0, <1>4, <1>9, LeaveKeeps
<1>10. CASE /\ end.err = "ERR_UNSUPPORTED" /\ pc' = "monitor"
            /\ UNCHANGED <<handler, at, answer, outer, r3>>
  <2>1. outer' = "none" /\ effect' = "none"
    BY <1>0, <1>3, <1>4, <1>10
  <2>2. TypeOK' /\ NothingYet' /\ RightHandler' /\ ArgsRead' /\ RetsWritten' /\ MethodTold'
    BY <1>0, <1>10, <2>1
       DEF CallInv, TypeOK, NothingYet, RightHandler, ArgsRead, RetsWritten, MethodTold
  <2>3. FailureHasNoEffect' /\ AnswerTold'
    BY <1>10 DEF FailureHasNoEffect, AnswerTold
  <2> QED BY <1>5, <2>2, <2>3 DEF CallInv
<1>11. CASE /\ end.err \notin Errors
            /\ handler' \in MethodHandlers
            /\ outer' = "method" /\ at' = 0
            /\ UNCHANGED <<answer, r3, pc>>
  <2>1. call.service = "call-method" /\ effect' = "none"
    BY <1>2, <1>4, <1>11 DEF EndFits, Errors
  <2>2. ArgsRead'
    <3>1. Len(handler'.args) \in Nat
      BY <1>11, MethodsFit DEF MethodFits, Shape
    <3> QED BY <1>0, <1>11, <3>1 DEF ArgsRead
  <2>3. TypeOK' /\ NothingYet' /\ RightHandler' /\ RetsWritten' /\ MethodTold'
    BY <1>0, <1>11, <2>1 DEF CallInv, TypeOK, NothingYet, RightHandler, RetsWritten, MethodTold
  <2>4. FailureHasNoEffect' /\ AnswerTold'
    BY <1>0, <1>11 DEF FailureHasNoEffect, AnswerTold
  <2> QED BY <1>5, <2>2, <2>3, <2>4 DEF CallInv
<1> QED BY <1>1, <1>6, <1>7, <1>8, <1>9, <1>10, <1>11

LEMMA CallNext == CallInv /\ [Next]_vars => CallInv'
<1> SUFFICES ASSUME CallInv, [Next]_vars PROVE CallInv'
  OBVIOUS
<1>1. CASE Ask
  BY <1>1, AskKeeps
<1>2. CASE Resume
  BY <1>2, ResumeKeeps
<1>3. CASE (Cont \/ rom_call) /\ ~Dies
  BY <1>3, EntryKeeps
<1>4. CASE ReadArg
  BY <1>4, ReadArgKeeps
<1>5. CASE Serve
  BY <1>5, ServeKeeps
<1>6. CASE WriteRet
  BY <1>6, WriteRetKeeps
<1>7. CASE Finish
  BY <1>7, FinishKeeps
<1>8. CASE UNCHANGED vars
  BY <1>8 DEF vars, CallInv, TypeOK, NothingYet, RightHandler, ArgsRead, RetsWritten, MethodTold,
       EffectHasArguments, Needed, ArgumentsKept, FailureHasNoEffect, AnswerTold, Ret, CIA_RET, There
<1>9. CASE rom_call /\ Dies
  BY <1>9, LeaveKeeps DEF rom_call, Dies
<1>10. CASE Cont
  <2>1. ~Dies
    BY <1>10 DEF Cont, Dies
  <2> QED BY <1>3, <1>10, <2>1
<1> QED BY <1>1, <1>2, <1>3, <1>4, <1>5, <1>6, <1>7, <1>8, <1>9, <1>10 DEF Next, Step

LEMMA CallsInvariant == Spec => []CallInv
  BY CallInit, CallNext, PTL DEF Spec

-----------------------------------------------------------------------------
(* Whatever counts a client declares and wherever memory ends, rom_call    *)
(* does nothing to the rest of the program without the arguments for it.   *)
THEOREM EffectsHaveArguments == Spec => []EffectHasArguments
<1>1. CallInv => EffectHasArguments
  BY DEF CallInv
<1> QED BY <1>1, CallsInvariant, PTL

(* rom_call writes past the client's arguments alone.                      *)
THEOREM CallsKeepArguments == Spec => []ArgumentsKept
<1>1. CallInv => ArgumentsKept
  BY DEF CallInv
<1> QED BY <1>1, CallsInvariant, PTL

(* A client that rom_call tells of a failure caused nothing, unless its    *)
(* result cell is missing.                                                 *)
THEOREM FailuresHaveNoEffect == Spec => []FailureHasNoEffect
<1>1. CallInv => FailureHasNoEffect
  BY DEF CallInv
<1> QED BY <1>1, CallsInvariant, PTL

(* A client that rom_call tells of success has the answer in its cells,    *)
(* and call-method's account of its method is true.                        *)
THEOREM AnswersTold == Spec => []AnswerTold
<1>1. CallInv => AnswerTold
  BY DEF CallInv
<1> QED BY <1>1, CallsInvariant, PTL
=============================================================================
