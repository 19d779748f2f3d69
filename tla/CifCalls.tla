------------------------------ MODULE CifCalls ------------------------------
(***************************************************************************)
(* How rom_call of src/rom.c serves a call of the client interface: the    *)
(* client's array of cells is the name of a service, the numbers of        *)
(* arguments and results, the arguments and the results.  Every cell is    *)
(* read and written on its own, in the order of the handler, and may be    *)
(* missing from the guest's memory; a count that is too small is a BUG_ON, *)
(* when the cell past it is reached, and so is a cell that two pages share:*)
(* its 4 bytes are cut in pieces that are none (pmem.c:66, pmem.c:115).    *)
(*                                                                         *)
(* What a service does and finds is a choice here: RomClaims, GuestMmu,    *)
(* DeviceTree and Ihandles say what it is.                                 *)
(***************************************************************************)
EXTENDS Integers, Sequences

CONSTANTS
  Calls,    \* what clients ask: records service, nin, nout, present, cut
  CellMod   \* cells of the address space, 2^30: past the last is the first

Cells == 0 .. CellMod - 1

(* The arguments of call-method alone take 9 cells.                        *)
ASSUME CallsAssumption ==
  /\ CellMod \in Nat /\ CellMod > 8
  /\ Calls \subseteq [service : STRING, nin : Cells, nout : Cells, present : Nat,
                       cut : SUBSET Cells]

VARIABLES
  call,     \* what was asked; the first "present" cells begin in memory, and
            \* those of "cut" end in the page after
  handler,  \* the script that runs
  at,       \* how many of its arguments are read, or results written
  answer,   \* the results it writes
  outer,    \* what call-method's own result will be, or "none" outside it
  cell,     \* what the cells hold, "client" where the client left it
  effect,   \* what the call has done to the rest of the program, or "none"
  r3,       \* GPR 3 of the guest when the call has returned
  pc        \* "guest", "call", "args", "rets", "back", "monitor", "shut",
            \* or "stopped" by a BUG_ON

vars == <<call, handler, at, answer, outer, cell, effect, r3, pc>>

-----------------------------------------------------------------------------
(* The handlers, as scripts: which arguments are read in which order, how  *)
(* it may go on from there, which results are written; what is written in  *)
(* place of an answer when an argument is missing, or <<>> for a failure;  *)
(* and whether a result that cannot be written is tried again.             *)
Script(args, ends, rets) ==
  [args |-> args, ends |-> ends, rets |-> rets, missing |-> <<>>, again |-> FALSE]

End(e, results, does) == [err |-> e, results |-> results, does |-> does]

Told(v) == End("ERR_NONE", <<v>>, "none")
Does(what, v) == End("ERR_NONE", <<v>>, what)
Error == End("error", <<>>, "none")
Stop == End("BUG_ON", <<>>, "none")

(* child, peer and parent jump back to the write that failed, and so does  *)
(* write; parent has nothing to write when its argument is missing.        *)
rom_child ==
  [Script(<<0>>, {Told("0"), Told("phandle")}, <<0>>) EXCEPT !.missing = <<"0">>, !.again = TRUE]
rom_peer ==
  [Script(<<0>>, {Told("0"), Told("phandle")}, <<0>>) EXCEPT !.missing = <<"0">>, !.again = TRUE]
rom_parent ==
  [Script(<<0>>, {Told("0"), Told("-1"), Told("phandle"), Stop}, <<0>>)
     EXCEPT !.missing = <<"junk">>, !.again = TRUE]
rom_itopackage == Script(<<0>>, {Told("-1"), Told("phandle")}, <<0>>)
rom_finddevice == Script(<<0>>, {Told("-1"), Told("phandle")}, <<0>>)

(* The client's buffer may be missing.                                     *)
rom_itopath == Script(<<0, 1, 2>>, {Told("-1"), Told("length"), Error}, <<0>>)
rom_ptopath == Script(<<0, 1, 2>>, {Told("-1"), Told("length"), Error}, <<0>>)
rom_getprop == Script(<<0, 1, 2, 3>>, {Told("-1"), Told("length"), Error, Stop}, <<0>>)
rom_getproplen == Script(<<0, 1>>, {Told("-1"), Told("length")}, <<0>>)

(* Variants: a read that tells of a buffer that is missing after it has    *)
(* moved the handle, a claim whose result is tried again.                  *)
rom_read_Partial ==
  Script(<<0, 1, 2>>, {Told("-1"), Does("moved", "length"), End("error", <<>>, "moved"), Stop}, <<0>>)

(* A failed open is an ihandle of 0.  A seek that fails leaves its result  *)
(* unset; close has none.                                                  *)
rom_open == Script(<<0>>, {Told("0"), Does("opened", "ihandle"), Stop}, <<0>>)
rom_seek == Script(<<0, 1, 2>>, {Told("-1"), Told("junk"), Does("moved", "0"), Stop}, <<0>>)
rom_close == Script(<<0>>, {End("ERR_NONE", <<>>, "none"), End("ERR_NONE", <<>>, "closed")}, <<>>)
rom_read == Script(<<0, 1, 2>>, {Told("-1"), Does("moved", "length"), Stop}, <<0>>)
rom_write ==
  [Script(<<0, 1, 2>>, {Told("-1"), Does("moved", "length"), Stop}, <<0>>) EXCEPT !.again = TRUE]

rom_claim_Again ==
  [Script(<<0, 1, 2>>, {Told("-1"), Does("claimed", "address"), Stop}, <<0>>) EXCEPT !.again = TRUE]

rom_claim == Script(<<0, 1, 2>>, {Told("-1"), Does("claimed", "address"), Stop}, <<0>>)
rom_milliseconds == Script(<<>>, {Told("time")}, <<0>>)
rom_shutdown == Script(<<>>, {End("ERR_SHUTDOWN", <<>>, "none")}, <<>>)

(* call-method reads its method and ihandle and hands over to the method,  *)
(* or to none; mapping an address to itself does nothing.                  *)
rom_callmethod ==
  Script(<<0, 1>>, {End(m, <<>>, "none") : m \in {"mem claim", "mmu map", "no method"}}, <<>>)
rom_mem_call == Script(<<2, 3, 4>>, {Told("-1"), Does("claimed", "address"), Stop}, <<1>>)
rom_mmu_call ==
  Script(<<2, 3, 4, 5>>,
         {End("ERR_NONE", <<>>, "none"), End("ERR_NONE", <<>>, "mapped"), Error, Stop}, <<>>)
NoMethod == Script(<<>>, {Error}, <<>>)
MethodResult == Script(<<>>, {}, <<0>>)

handlers(service) ==
  CASE service = "child"               -> rom_child
    [] service = "peer"                -> rom_peer
    [] service = "parent"              -> rom_parent
    [] service = "instance-to-package" -> rom_itopackage
    [] service = "instance-to-path"    -> rom_itopath
    [] service = "finddevice"          -> rom_finddevice
    [] service = "getprop"             -> rom_getprop
    [] service = "getproplen"          -> rom_getproplen
    [] service = "open"                -> rom_open
    [] service = "seek"                -> rom_seek
    [] service = "close"               -> rom_close
    [] service = "write"               -> rom_write
    [] service = "read"                -> rom_read
    [] service = "claim"               -> rom_claim
    [] service \in {"exit", "enter", "boot", "chain"} -> rom_shutdown
    [] service = "milliseconds"        -> rom_milliseconds
    [] service = "call-method"         -> rom_callmethod
    [] service = "package-to-path"     -> rom_ptopath
    [] OTHER                           -> Script(<<>>, {End("ERR_UNSUPPORTED", <<>>, "none")}, <<>>)

-----------------------------------------------------------------------------
NoCall == [service |-> "", nin |-> 0, nout |-> 0, present |-> 0, cut |-> {}]

Untouched == [c \in Cells |-> "client"]

Init ==
  /\ call = NoCall /\ handler = Script(<<>>, {}, <<>>)
  /\ at = 0 /\ answer = <<>> /\ outer = "none"
  /\ cell = Untouched
  /\ effect = "none"
  /\ r3 = 0
  /\ pc = "guest"

(* The client fills in its cells and calls.                                *)
Ask ==
  /\ pc = "guest"
  /\ \E c \in Calls : call' = c
  /\ pc' = "call"
  /\ UNCHANGED <<handler, at, answer, outer, cell, effect, r3>>

(* Cell i of the array, whether memory is there, and what an access of its *)
(* 4 bytes meets.                                                          *)
CELL(i) == i % CellMod

There(i) == CELL(i) < call.present

Access(i) ==
  IF ~There(i) THEN "missing" ELSE IF CELL(i) \in call.cut THEN "stops" ELSE "cell"

Back(value) == r3' = value /\ pc' = "back"

Dies == pc' = "stopped" /\ UNCHANGED <<handler, at, answer, outer, r3>>

(* rom_call up to the handler.                                             *)
rom_call ==
  /\ pc = "call"
  /\ LET header == {Access(i) : i \in 0 .. 2}
     IN  \/ "stops" \in header /\ Dies
         \/ /\ header = {"cell"}
            /\ handler' = handlers(call.service) /\ at' = 0
            /\ pc' = "args"
            /\ UNCHANGED <<answer, outer, r3>>
         \/ /\ "stops" \notin header /\ "missing" \in header
            /\ Back(-1) /\ UNCHANGED <<handler, at, answer, outer>>
  /\ UNCHANGED <<call, cell, effect>>

(* The handler is done.  A method's error becomes call-method's result.    *)
Ends(err) ==
  IF outer = "method"
    THEN /\ handler' = MethodResult /\ outer' = "result"
         /\ answer' = <<IF err = "ERR_NONE" THEN "0" ELSE "-1">>
         /\ at' = 0 /\ pc' = "rets" /\ UNCHANGED r3
    ELSE Back(IF err = "ERR_NONE" THEN 0 ELSE -1) /\ UNCHANGED <<handler, at, answer, outer>>

CIA_ARG_OffByOne(x) == IF x > call.nin THEN "stops" ELSE Access(3 + x)

CIA_ARG(x) == IF x >= call.nin THEN "stops" ELSE Access(3 + x)

CIA_RET_Arg(x) == 3 + x

CIA_RET(x) == 3 + call.nin + x

(* guest_from_x of the next argument.                                      *)
ReadArg ==
  /\ pc = "args" /\ at < Len(handler.args)
  /\ LET arg == CIA_ARG(handler.args[at + 1])
     IN  \/ arg = "stops" /\ Dies
         \/ arg = "cell" /\ at' = at + 1 /\ UNCHANGED <<handler, answer, outer, r3, pc>>
         \/ arg = "missing" /\ handler.missing = <<>> /\ Ends("error")
         \/ /\ arg = "missing" /\ handler.missing # <<>>
            /\ answer' = handler.missing /\ at' = 0 /\ pc' = "rets"
            /\ UNCHANGED <<handler, outer, r3>>
  /\ UNCHANGED <<call, cell, effect>>

(* What the handler finds and does.  An unknown service enters the monitor,*)
(* with the registers as they were.                                        *)
Serve ==
  /\ pc = "args" /\ at = Len(handler.args)
  /\ \E end \in handler.ends :
       /\ effect' = IF end.does = "none" THEN effect ELSE end.does
       /\ CASE end.err = "ERR_NONE" ->
                 /\ answer' = end.results /\ at' = 0 /\ pc' = "rets"
                 /\ UNCHANGED <<handler, outer, r3>>
            [] end.err = "error" -> Ends("error")
            [] end.err = "BUG_ON" -> Dies
            [] end.err \in {"ERR_SHUTDOWN", "ERR_UNSUPPORTED"} ->
                 /\ pc' = IF end.err = "ERR_SHUTDOWN" THEN "shut" ELSE "monitor"
                 /\ UNCHANGED <<handler, at, answer, outer, r3>>
            [] OTHER ->
                 /\ handler' = IF end.err = "mem claim" THEN rom_mem_call
                               ELSE IF end.err = "mmu map" THEN rom_mmu_call ELSE NoMethod
                 /\ outer' = "method" /\ at' = 0
                 /\ UNCHANGED <<answer, r3, pc>>
  /\ UNCHANGED <<call, cell>>

WriteRet_Ignored ==
  /\ pc = "rets" /\ at < Len(handler.rets)
  /\ LET x == handler.rets[at + 1]
         c == CIA_RET(x)
     IN  \/ (x >= call.nout \/ Access(c) = "stops") /\ Dies /\ UNCHANGED cell
         \/ /\ x < call.nout /\ Access(c) # "stops"
            /\ cell' = IF There(c) THEN [cell EXCEPT ![CELL(c)] = answer[at + 1]] ELSE cell
            /\ at' = at + 1
            /\ UNCHANGED <<handler, answer, outer, r3, pc>>
  /\ UNCHANGED <<call, effect>>

(* guest_to_x of the next result.                                          *)
WriteRet ==
  /\ pc = "rets" /\ at < Len(handler.rets)
  /\ LET x == handler.rets[at + 1]
         c == CIA_RET(x)
     IN  \/ (x >= call.nout \/ Access(c) = "stops") /\ Dies /\ UNCHANGED cell
         \/ /\ x < call.nout /\ Access(c) = "cell"
            /\ cell' = [cell EXCEPT ![CELL(c)] = answer[at + 1]]
            /\ at' = at + 1
            /\ UNCHANGED <<handler, answer, outer, r3, pc>>
         \/ /\ x < call.nout /\ Access(c) = "missing"
            /\ IF handler.again THEN UNCHANGED <<handler, at, answer, outer, r3, pc>>
                                ELSE Ends("error")
            /\ UNCHANGED cell
  /\ UNCHANGED <<call, effect>>

Finish ==
  /\ pc = "rets" /\ at = Len(handler.rets)
  /\ Ends("ERR_NONE")
  /\ UNCHANGED <<call, cell, effect>>

(* The guest goes on at LR.                                                *)
Resume ==
  /\ pc = "back" /\ pc' = "guest"
  /\ call' = NoCall /\ handler' = Script(<<>>, {}, <<>>)
  /\ at' = 0 /\ answer' = <<>> /\ outer' = "none"
  /\ cell' = Untouched /\ effect' = "none"
  /\ r3' = 0

(* The monitor's cont: the PC is still at the call.                        *)
Cont ==
  /\ pc = "monitor" /\ pc' = "call"
  /\ UNCHANGED <<call, handler, at, answer, outer, cell, effect, r3>>

Step == rom_call \/ ReadArg \/ Serve \/ WriteRet \/ Finish

Next == Ask \/ Step \/ Resume \/ Cont

Spec == Init /\ [][Next]_vars

(* rom_call runs to its end in the one thread of the program.              *)
FairSpec == Spec /\ WF_vars(Step)
-----------------------------------------------------------------------------
(* The result cells of a service, as its client counts them.               *)
Ret(i) == cell[CELL(CIA_RET(i))]

(* A client that is told of success finds the answer in its cells; what    *)
(* call-method tells of its method's success is true, unless the method's  *)
(* own result was lost on the way.                                         *)
AnswerTold ==
  (pc = "back" /\ r3 = 0) =>
    IF call.service # "call-method"
      THEN \A i \in 1 .. Len(handler.rets) : Ret(handler.rets[i]) = answer[i]
      ELSE \/ Ret(0) = "0" /\ (effect = "claimed" => Ret(1) = "address")
           \/ Ret(0) = "-1" /\ (effect = "none" \/ (effect = "claimed" /\ ~There(CIA_RET(1))))

(* A client that is told of a failure caused nothing, unless what is       *)
(* missing is the cell the result was for.                                 *)
FailureHasNoEffect ==
  (pc = "back" /\ r3 = -1 /\ effect # "none") => ~There(CIA_RET(0))

(* A call writes its result cells alone: the name, the counts and the      *)
(* arguments stay the client's, as long as the counts fit the address      *)
(* space.                                                                  *)
ArgumentsKept ==
  3 + call.nin + call.nout <= CellMod =>
    \A c \in 0 .. 2 + call.nin : cell[c] = "client"

(* How many arguments it takes to do something.                            *)
Needed(service) ==
  CASE service \in {"open", "close"} -> 1
    [] service = "call-method" -> IF effect = "mapped" THEN 6 ELSE 5
    [] OTHER -> 3

(* Nothing is done for a client that has not passed all the arguments, in  *)
(* cells that it declared and that were there.                             *)
EffectHasArguments ==
  effect # "none" =>
    Needed(call.service) <= call.nin /\ 3 + Needed(call.service) <= call.present

Busy == pc \in {"call", "args", "rets"}

(* The result that child, peer, parent and write try to write again.       *)
Unwritable ==
  call.service \in {"child", "peer", "parent", "write"} /\ ~There(CIA_RET(0))

(* Every call returns to the guest, enters the monitor or ends the program,*)
(* but for these four when their result cell is missing.                   *)
CallReturns == Busy ~> ~Busy \/ Unwritable

(* rom.c: "'child' always returns 0 on failure".                           *)
ChildReturns == (Busy /\ call.service = "child") ~> ~Busy
=============================================================================
