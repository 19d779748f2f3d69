------------------------------ MODULE Monitor -------------------------------
(***************************************************************************)
(* The main loop of src/pvp.c, the monitor it enters (src/mon.c) and the   *)
(* monitor's socket (src/socket.c), with the clients on the other end.     *)
(*                                                                         *)
(* The program is one thread.  It starts its parts, sources pvp.pcl and   *)
(* listens; then it runs the guest until the VMM returns, handles that,   *)
(* runs the on_trace script and polls the socket for one character.  What *)
(* it does not handle holds the guest in mon_activate, which polls the    *)
(* same socket until a line of the client releases it.                    *)
(* Clients connect, type and leave at any time.  The socket does not block.*)
(***************************************************************************)
EXTENDS Naturals, Sequences, FiniteSets

CONSTANTS
  Clients,     \* connections, each made once
  Keys,        \* the characters clients type; a command is one character
  Scripts,     \* what on_trace may be set to
  Profiles,    \* what pvp.pcl may set on_trace and picol_err to
  IBUF_SIZE,
  MaxTyped,    \* bound of the model: characters a client types
  Patient,     \* whether a client types only when it has a prompt
  LeaveEarly   \* whether a client may leave before it was prompted

NoClient == "no client"

Errors == {"ERR_NONE", "ERR_CONTINUE", "ERR_PAUSE", "ERR_SHUTDOWN"}

(* With on_trace unset nothing is printed, and nothing fails.              *)
Unset == [talks |-> FALSE, err |-> "ERR_NONE"]

ASSUME MonitorAssumption ==
  /\ \A p \in Profiles : p.on_trace \in Scripts \cup {Unset} /\ p.err \in Errors
  /\ NoClient \notin Clients
  /\ IBUF_SIZE \in Nat \ {0} /\ MaxTyped \in Nat
  /\ Patient \in BOOLEAN /\ LeaveEarly \in BOOLEAN

VARIABLES
  pc,           \* where the program is
  activated,
  pend_prompt,
  on_trace,     \* the script, or Unset
  picol_err,    \* what a script asked for and nobody has returned yet
  ibuf,         \* ibuf up to ibuf_index: characters, and who typed them
  ran,          \* who typed the line that was executed last
  fd,           \* the connection accepted, or NoClient
  backlog,      \* the connections listen() holds
  status,       \* of each client: "away", "here", "done" (it will type no
                \* more) or "gone" (nor read)
  input,        \* characters on their way from each client
  typed,
  prompt        \* the prompt each client has not answered yet, "crossed" if
                \* a line of the client was on its way when it was printed

program == <<pc, activated, pend_prompt, on_trace, picol_err, ibuf, ran>>
socket == <<fd, backlog>>
clients == <<status, input, typed, prompt>>
vars == <<pc, activated, pend_prompt, on_trace, picol_err, ibuf, ran, fd, backlog, status, input, typed, prompt>>

Over == pc \in {"stopped", "hung"}

(* The guest is held from the exit that was not handled on.                *)
Held == pc = "enter" \/ activated

Init ==
  /\ pc = "start"
  /\ activated = FALSE /\ pend_prompt = FALSE
  /\ on_trace = Unset /\ picol_err = "ERR_NONE"
  /\ ibuf = <<>> /\ ran = {}
  /\ fd = NoClient /\ backlog = <<>>
  /\ status = [c \in Clients |-> "away"]
  /\ input = [c \in Clients |-> <<>>]
  /\ typed = [c \in Clients |-> 0]
  /\ prompt = [c \in Clients |-> "none"]

-----------------------------------------------------------------------------
Connect(c) ==
  /\ status[c] = "away" /\ pc # "start" /\ ~Over
  /\ status' = [status EXCEPT ![c] = "here"]
  /\ backlog' = Append(backlog, c)
  /\ UNCHANGED <<program, fd, input, typed, prompt>>

(* The end of a line answers the prompt.                                   *)
Type(c, k) ==
  /\ status[c] = "here" /\ typed[c] < MaxTyped
  /\ Patient => prompt[c] # "none"
  /\ input' = [input EXCEPT ![c] = Append(@, k)]
  /\ typed' = [typed EXCEPT ![c] = @ + 1]
  /\ prompt' = IF k = "\n" THEN [prompt EXCEPT ![c] = "none"] ELSE prompt
  /\ UNCHANGED <<program, socket, status>>

Leave(c) ==
  /\ status[c] = "here"
  /\ LeaveEarly \/ typed[c] > 0 \/ prompt[c] # "none"
  /\ \E s \in {"done", "gone"} : status' = [status EXCEPT ![c] = s]
  /\ UNCHANGED <<program, socket, input, typed, prompt>>

-----------------------------------------------------------------------------
(* Writing to a client that is gone may fail.  socket_out then adds 1 to   *)
(* what is left to write, and does not end.                                *)
Writes ==
  \/ pc = "enter"
  \/ pc = "check" /\ pend_prompt
  \/ pc = "input" /\ (fd # NoClient => input[fd] # <<>> \/ status[fd] # "here")
  \/ pc = "trace" /\ on_trace.talks
  \/ pc = "bye" /\ fd # NoClient

Spin ==
  /\ Writes
  /\ \/ fd # NoClient /\ status[fd] = "gone"
     \/ fd = NoClient /\ backlog # <<>> /\ status[Head(backlog)] = "gone"
  /\ pc' = "hung"
  /\ UNCHANGED <<activated, pend_prompt, on_trace, picol_err, ibuf, ran, socket, clients>>

(* The console is a socket too, and its client may leave: what the guest   *)
(* writes to it, or term_bye does, then does not end.                      *)
term_out ==
  /\ pc \in {"run", "bye"}
  /\ pc' = "hung"
  /\ UNCHANGED <<activated, pend_prompt, on_trace, picol_err, ibuf, ran, socket, clients>>

CanAccept == fd = NoClient /\ backlog # <<>>

accept == fd' = Head(backlog) /\ backlog' = Tail(backlog)

mon_on_connect == pend_prompt' = TRUE

socket_disconnect == fd' = NoClient

-----------------------------------------------------------------------------
socket_init == fd' = NoClient /\ backlog' = <<>>

(* pvp.pcl runs before there is a socket, and what it asked for with quit, *)
(* cont or pause is left for the first line or trace to return.            *)
mon_init ==
  /\ \E p \in Profiles : on_trace' = p.on_trace /\ picol_err' = p.err
  /\ socket_init

(* The parts start in order, term_init when the console is connected.      *)
(* Where one fails main returns, and what has been started stays.          *)
Start ==
  /\ pc = "start"
  /\ \/ mon_init /\ pc' \in {"run", "stopped"}
     \/ UNCHANGED <<on_trace, picol_err, socket>> /\ pc' = "stopped"
  /\ UNCHANGED <<activated, pend_prompt, ibuf, ran, clients>>

(* kVmmExecuteVM, and what the main loop does with its result.  A BUG_ON in*)
(* a handler ends the program, and a rom_call may not return (rom.c:1077). *)
Execute ==
  /\ pc = "run"
  /\ pc' \in {"trace", "enter", "bye", "stopped", "hung"}
  /\ UNCHANGED <<activated, pend_prompt, on_trace, picol_err, ibuf, ran, socket, clients>>

(* Variants, for the properties to tell apart: a main loop that runs the   *)
(* guest again without polling, a mon_activate that does not ask for a     *)
(* prompt, a prompt that leaves ibuf alone, a mon_activate whose loop ends *)
(* with ERR_NONE, a line that is not bounded.                              *)
mon_trace_NoPoll ==
  /\ pc = "trace"
  /\ pc' = "run"
  /\ UNCHANGED <<activated, pend_prompt, on_trace, picol_err, ibuf, ran, socket, clients>>

mon_activate_NoPrompt ==
  /\ pc = "enter"
  /\ activated' = TRUE
  /\ IF fd # NoClient THEN UNCHANGED socket ELSE CanAccept /\ accept
  /\ pc' = "check"
  /\ UNCHANGED <<pend_prompt, on_trace, picol_err, ibuf, ran, clients>>

mon_prompt_KeepLine ==
  /\ pc = "check"
  /\ pc' = "input"
  /\ pend_prompt' = FALSE
  /\ IF pend_prompt /\ fd # NoClient
       THEN prompt' = [prompt EXCEPT ![fd] = IF activated THEN "sync" ELSE "async"]
       ELSE UNCHANGED prompt
  /\ UNCHANGED <<activated, on_trace, picol_err, ibuf, ran, socket, status, input, typed>>

Return_Released(err) ==
  /\ activated' = FALSE
  /\ pc' = CASE err = "ERR_SHUTDOWN" -> "bye" [] err = "ERR_PAUSE" -> "enter" [] OTHER -> "run"

(* What a script asks for, or an earlier one did.                          *)
Asked(err) == IF err = "ERR_NONE" THEN picol_err ELSE err

(* The script may print, on a connection that printing accepts.            *)
mon_trace ==
  /\ pc = "trace"
  /\ IF on_trace.talks /\ CanAccept
       THEN accept /\ mon_on_connect
       ELSE UNCHANGED <<socket, pend_prompt>>
  /\ IF on_trace = Unset
       THEN pc' = "check" /\ UNCHANGED picol_err
       ELSE /\ pc' = CASE Asked(on_trace.err) = "ERR_SHUTDOWN" -> "bye"
                       [] Asked(on_trace.err) = "ERR_PAUSE"    -> "enter"
                       [] OTHER                                -> "check"
            /\ picol_err' = "ERR_NONE"
  /\ UNCHANGED <<activated, on_trace, ibuf, ran, clients>>

(* mon_activate, up to its loop over mon_check.                            *)
mon_activate ==
  /\ pc = "enter"
  /\ activated' = TRUE
  /\ IF fd # NoClient THEN UNCHANGED socket ELSE CanAccept /\ accept
  /\ pend_prompt' = TRUE
  /\ pc' = "check"
  /\ UNCHANGED <<on_trace, picol_err, ibuf, ran, clients>>

Prompt ==
  IF \E i \in DOMAIN input[fd] : input[fd][i] = "\n" THEN "crossed"
  ELSE IF activated THEN "sync" ELSE "async"

(* mon_check prints the prompt that is due.  A connection that printing    *)
(* accepts gets its banner, and the banner's text where the prompt was:    *)
(* both are formatted into the same static buffer.                         *)
mon_prompt ==
  /\ pc = "check"
  /\ pc' = "input"
  /\ pend_prompt' = FALSE
  /\ IF pend_prompt
       THEN /\ ibuf' = <<>>
            /\ IF fd # NoClient
                 THEN prompt' = [prompt EXCEPT ![fd] = Prompt]
                 ELSE UNCHANGED prompt
            /\ IF CanAccept THEN accept ELSE UNCHANGED socket
       ELSE UNCHANGED <<ibuf, prompt, socket>>
  /\ UNCHANGED <<activated, on_trace, picol_err, ran, status, input, typed>>

(* What mon_check returns, to the main loop or to mon_activate, whose loop *)
(* ends with any error and whose caller stops the VM over all but          *)
(* ERR_CONTINUE.                                                           *)
Return(err) ==
  /\ activated' = (activated /\ err = "ERR_NONE")
  /\ pc' = CASE err = "ERR_SHUTDOWN"           -> "bye"
             [] err = "ERR_PAUSE"              -> IF activated THEN "bye" ELSE "enter"
             [] err = "ERR_NONE" /\ activated  -> "check"
             [] OTHER                          -> "run"

Line == [i \in DOMAIN ibuf |-> ibuf[i].key]

Outcome ==
  CASE Line = <<"quit">>  -> "ERR_SHUTDOWN"
    [] Line = <<"cont">>  -> "ERR_CONTINUE"
    [] Line = <<"pause">> -> "ERR_PAUSE"
    [] OTHER              -> "ERR_NONE"

(* picolEval of a line that c ends.                                        *)
picolEval(c) ==
  /\ ran' = {ibuf[i].by : i \in DOMAIN ibuf} \cup {c}
  /\ IF Line = <<"set on_trace">> THEN on_trace' \in Scripts ELSE UNCHANGED on_trace
  /\ UNCHANGED ibuf
  /\ picol_err' = "ERR_NONE"
  /\ Return(Asked(Outcome))

Keep_Unbounded(k, c) ==
  /\ ibuf' = Append(ibuf, [key |-> k, by |-> c])
  /\ UNCHANGED <<ran, on_trace, picol_err>>
  /\ Return("ERR_NONE")

(* A character that joins the line.  Backspace makes room, and is kept.    *)
Keep(k, c) ==
  LET line == IF k = "backspace" /\ ibuf # <<>> THEN SubSeq(ibuf, 1, Len(ibuf) - 1) ELSE ibuf
  IN  /\ ibuf' = IF Len(line) = IBUF_SIZE - 1 THEN line
                                              ELSE Append(line, [key |-> k, by |-> c])
      /\ UNCHANGED <<ran, on_trace, picol_err>>
      /\ Return("ERR_NONE")

(* The rest of mon_check: socket_in accepts a connection and reads from it *)
(* at once.                                                                *)
mon_input(c, new) ==
  \/ /\ input[c] # <<>>
     /\ LET k == Head(input[c])
        IN  /\ IF k = "\n" THEN picolEval(c)
               ELSE IF k = "\r" THEN UNCHANGED <<ibuf, ran, on_trace, picol_err>> /\ Return("ERR_NONE")
               ELSE Keep(k, c)
            /\ pend_prompt' = (new \/ k = "\n")
     /\ input' = [input EXCEPT ![c] = Tail(@)]
     /\ fd' = c
     /\ UNCHANGED <<status, typed, prompt>>
  \/ /\ input[c] = <<>>
     /\ fd' = IF status[c] = "here" THEN c ELSE NoClient
     /\ pend_prompt' = new
     /\ Return("ERR_NONE")
     /\ UNCHANGED <<ibuf, ran, on_trace, picol_err, clients>>

mon_check ==
  /\ pc = "input"
  /\ \/ fd # NoClient /\ mon_input(fd, FALSE) /\ UNCHANGED backlog
     \/ CanAccept /\ mon_input(Head(backlog), TRUE) /\ backlog' = Tail(backlog)
     \/ /\ fd = NoClient /\ backlog = <<>>
        /\ Return("ERR_NONE")
        /\ UNCHANGED <<pend_prompt, on_trace, picol_err, ibuf, ran, socket, clients>>

mon_bye == socket_disconnect /\ UNCHANGED backlog

(* The contexts, the disks and the console go first, and cannot fail main. *)
Stop ==
  /\ pc = "bye"
  /\ pc' = "stopped"
  /\ mon_bye
  /\ UNCHANGED <<activated, pend_prompt, on_trace, picol_err, ibuf, ran, clients>>

Program == Execute \/ mon_trace \/ mon_activate \/ mon_prompt \/ mon_check \/ Stop

Next ==
  \/ \E c \in Clients : Connect(c) \/ Leave(c) \/ \E k \in Keys : Type(c, k)
  \/ Start
  \/ Program
  \/ Spin \/ term_out

Spec == Init /\ [][Next]_vars

(* Once started the program keeps running, and the VMM returns again and   *)
(* again: the main loop polls the monitor for nothing but its return codes.*)
(* It may wait for a console to connect forever.                           *)
FairSpec == Spec /\ WF_vars(Program)

-----------------------------------------------------------------------------
Prompts == {"none", "crossed", "sync", "async"}

TypeOK ==
  /\ pc \in {"start", "run", "trace", "enter", "check", "input", "bye", "stopped", "hung"}
  /\ activated \in BOOLEAN /\ pend_prompt \in BOOLEAN
  /\ on_trace \in Scripts \cup {Unset} /\ picol_err \in Errors
  /\ ibuf \in Seq([key : Keys, by : Clients]) /\ Len(ibuf) < IBUF_SIZE
  /\ ran \subseteq Clients
  /\ fd \in Clients \cup {NoClient} /\ backlog \in Seq(Clients)
  /\ status \in [Clients -> {"away", "here", "done", "gone"}]
  /\ input \in [Clients -> Seq(Keys)] /\ typed \in [Clients -> 0 .. MaxTyped]
  /\ prompt \in [Clients -> Prompts]

(* A line that is executed was typed by one client, the one that ended it: *)
(* what an earlier connection left in ibuf is never completed by a later   *)
(* one.  It takes clients that wait for their prompt, since the character  *)
(* read right after accept() comes before the prompt that empties ibuf.    *)
LineFromOneClient == Cardinality(ran) <= 1

(* A client that was told "(sync)", and has not answered, has a guest that *)
(* is held: nobody else and nothing else lets it run.  It takes a prompt   *)
(* that crossed no line, which may have been "cont".  Nor is it prompted   *)
(* again, so no prompt empties the line it types; one told "(async)" may   *)
(* lose the start of its line, to mon_activate's prompt.                   *)
SyncPromptTruthful ==
  \A c \in Clients : fd = c /\ prompt[c] = "sync" => activated /\ ~pend_prompt

(* Once held, the guest runs again only over a cont line, or over the first*)
(* line where pvp.pcl has said cont; clients that come and go, other lines *)
(* and an on_trace script do not release it.                               *)
HeldUntilCont ==
  [][Held /\ pc' = "run" => pc = "input" /\ Asked(Outcome) = "ERR_CONTINUE" /\ ran' # {}]_vars

(* mon.c, pause, and err.h: "Pause VM execution".  A line that asks to     *)
(* pause does not end the VM.                                              *)
PauseDoesNotStop ==
  [][pc = "input" /\ pc' = "bye" => Line # <<"pause">>]_vars

(* A client that is connected gets a prompt, again after each line.        *)
PromptReached ==
  \A c \in Clients : fd = c ~> prompt[c] # "none" \/ fd # c \/ Over

(* What a connected client has typed is read, guest running or held.       *)
InputRead ==
  \A c \in Clients : (fd = c /\ input[c] # <<>>) ~> input[c] = <<>> \/ fd # c \/ Over
=============================================================================
