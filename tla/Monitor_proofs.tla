---------------------------- MODULE Monitor_proofs ----------------------------
(***************************************************************************)
(* Safety of Monitor, for any number of clients and any length of line.    *)
(***************************************************************************)
EXTENDS Monitor, FiniteSetTheorems, SequenceTheorems, TLAPS

-----------------------------------------------------------------------------
LEMMA OutcomeType ==
  Outcome \in {"ERR_SHUTDOWN", "ERR_CONTINUE", "ERR_PAUSE", "ERR_NONE"}
  BY DEF Outcome

LEMMA ReturnType ==
  ASSUME TypeOK, NEW err, Return(err)
  PROVE  /\ activated' \in BOOLEAN
         /\ pc' \in {"run", "enter", "check", "bye"}
  BY DEF Return, TypeOK

LEMMA Elements ==
  ASSUME NEW S, NEW s \in Seq(S)
  PROVE  /\ Len(s) \in Nat /\ DOMAIN s = 1 .. Len(s)
         /\ \A i \in DOMAIN s : s[i] \in S
  OBVIOUS

LEMMA EmptyLine ==
  ASSUME NEW S
  PROVE  <<>> \in Seq(S) /\ Len(<<>>) < IBUF_SIZE
  BY MonitorAssumption, EmptySeq

LEMMA Entries ==
  ASSUME TypeOK
  PROVE  \A i \in DOMAIN ibuf : ibuf[i].by \in Clients
<1> DEFINE Rec == [key : Keys, by : Clients]
<1>1. ibuf \in Seq(Rec)
  BY DEF TypeOK
<1>2. \A r \in Rec : r.by \in Clients
  OBVIOUS
<1> HIDE DEF Rec
<1> QED BY <1>1, <1>2, Elements

LEMMA KeepType ==
  ASSUME TypeOK, NEW k \in Keys, NEW c \in Clients, Keep(k, c)
  PROVE  /\ ibuf' \in Seq([key : Keys, by : Clients]) /\ Len(ibuf') < IBUF_SIZE
         /\ \A i \in DOMAIN ibuf' :
              ibuf'[i].by = c \/ \E j \in DOMAIN ibuf : ibuf'[i] = ibuf[j]
<1> DEFINE Rec  == [key : Keys, by : Clients]
           line == IF k = "backspace" /\ ibuf # <<>> THEN SubSeq(ibuf, 1, Len(ibuf) - 1) ELSE ibuf
<1>1. ibuf \in Seq(Rec) /\ Len(ibuf) < IBUF_SIZE /\ IBUF_SIZE \in Nat \ {0}
  BY MonitorAssumption DEF TypeOK
<1>2. [key |-> k, by |-> c] \in Rec
  OBVIOUS
<1>3. /\ line \in Seq(Rec) /\ Len(line) < IBUF_SIZE /\ Len(line) \in Nat
      /\ \A i \in DOMAIN line : \E j \in DOMAIN ibuf : line[i] = ibuf[j]
  <2>1. CASE k = "backspace" /\ ibuf # <<>>
    <3>1. Len(ibuf) \in Nat \ {0} /\ DOMAIN ibuf = 1 .. Len(ibuf)
      BY <1>1, <2>1, EmptySeq
    <3> HIDE DEF Rec
    <3>2. \A i \in 1 .. Len(ibuf) - 1 : ibuf[i] \in Rec
      BY <1>1, <3>1, Elements
    <3>3. /\ SubSeq(ibuf, 1, Len(ibuf) - 1) \in Seq(Rec)
          /\ Len(SubSeq(ibuf, 1, Len(ibuf) - 1)) = Len(ibuf) - 1
          /\ \A i \in 1 .. Len(ibuf) - 1 : SubSeq(ibuf, 1, Len(ibuf) - 1)[i] = ibuf[i]
      BY <3>1, <3>2, SubSeqProperties
    <3>4. DOMAIN SubSeq(ibuf, 1, Len(ibuf) - 1) = 1 .. Len(ibuf) - 1
      BY <3>3
    <3> QED BY <1>1, <2>1, <3>1, <3>3, <3>4
  <2>2. CASE ~(k = "backspace" /\ ibuf # <<>>)
    BY <1>1, <2>2
  <2> QED BY <2>1, <2>2
<1>4. ibuf' = IF Len(line) = IBUF_SIZE - 1 THEN line ELSE Append(line, [key |-> k, by |-> c])
  BY DEF Keep
<1> HIDE DEF line, Rec
<1>5. CASE Len(line) = IBUF_SIZE - 1
  BY <1>1, <1>3, <1>4, <1>5 DEF Rec
<1>6. CASE Len(line) # IBUF_SIZE - 1
  <2>1. ibuf' = Append(line, [key |-> k, by |-> c])
    BY <1>4, <1>6
  <2>2. /\ ibuf' \in Seq(Rec) /\ Len(ibuf') = Len(line) + 1
        /\ DOMAIN ibuf' = 1 .. Len(line) + 1 /\ DOMAIN line = 1 .. Len(line)
        /\ \A i \in 1 .. Len(line) : ibuf'[i] = line[i]
        /\ ibuf'[Len(line) + 1] = [key |-> k, by |-> c]
    BY <2>1, <1>2, <1>3
  <2>3. \A i \in 1 .. Len(line) + 1 : i \in 1 .. Len(line) \/ i = Len(line) + 1
    BY <1>3
  <2>4. ASSUME NEW i \in DOMAIN ibuf'
        PROVE  ibuf'[i].by = c \/ \E j \in DOMAIN ibuf : ibuf'[i] = ibuf[j]
    BY <1>3, <2>2, <2>3, <2>4
  <2>5. Len(ibuf') < IBUF_SIZE
    BY <2>2, <1>1, <1>3, <1>6
  <2> QED BY <2>2, <2>4, <2>5 DEF Rec
<1> QED BY <1>5, <1>6

(* What a step of the program does to ibuf, ran, on_trace and the rest of  *)
(* its own state.                                                          *)
LEMMA InputType ==
  ASSUME TypeOK, NEW c \in Clients, NEW new \in BOOLEAN, mon_input(c, new)
  PROVE  /\ pc' \in {"run", "enter", "check", "bye"}
         /\ activated' \in BOOLEAN /\ pend_prompt' \in BOOLEAN
         /\ on_trace' \in Scripts \cup {Unset} /\ picol_err' \in Errors
         /\ ibuf' \in Seq([key : Keys, by : Clients]) /\ Len(ibuf') < IBUF_SIZE
         /\ ran' \subseteq Clients
         /\ fd' \in {c, NoClient}
         /\ UNCHANGED <<status, typed, prompt>>
         /\ \/ UNCHANGED input
            \/ input[c] # <<>> /\ input' = [input EXCEPT ![c] = Tail(@)]
<1> DEFINE k == Head(input[c])
<1>1. CASE input[c] = <<>>
  <2>1. /\ fd' = IF status[c] = "here" THEN c ELSE NoClient
        /\ pend_prompt' = new
        /\ Return("ERR_NONE")
        /\ UNCHANGED <<ibuf, ran, on_trace, picol_err, clients>>
    BY <1>1 DEF mon_input
  <2> QED BY <2>1, ReturnType DEF TypeOK, clients
<1>2. CASE input[c] # <<>>
  <2>1. /\ IF k = "\n" THEN picolEval(c)
           ELSE IF k = "\r" THEN UNCHANGED <<ibuf, ran, on_trace, picol_err>> /\ Return("ERR_NONE")
           ELSE Keep(k, c)
        /\ pend_prompt' = (new \/ k = "\n")
        /\ input' = [input EXCEPT ![c] = Tail(@)]
        /\ fd' = c
        /\ UNCHANGED <<status, typed, prompt>>
    BY <1>2 DEF mon_input
  <2>2. k \in Keys
    BY <1>2 DEF TypeOK
  <2>3. CASE k = "\n"
    <3>1. picolEval(c)
      BY <2>1, <2>3
    <3>2. ran' \subseteq Clients
      <4>1. \A i \in DOMAIN ibuf : ibuf[i].by \in Clients
        BY Entries
      <4>2. ran' = {ibuf[i].by : i \in DOMAIN ibuf} \cup {c}
        BY <3>1 DEF picolEval
      <4> QED BY <4>1, <4>2
    <3>3. on_trace' \in Scripts \cup {Unset}
      BY <3>1 DEF picolEval, TypeOK
    <3>4. UNCHANGED ibuf /\ Return(Asked(Outcome)) /\ picol_err' \in Errors
      BY <3>1 DEF picolEval, Errors
    <3> QED BY <2>1, <3>2, <3>3, <3>4, <1>2, ReturnType DEF TypeOK
  <2>4. CASE k # "\n" /\ k = "\r"
    BY <2>1, <2>4, <1>2, ReturnType DEF TypeOK
  <2>5. CASE k # "\n" /\ k # "\r"
    <3>1. Keep(k, c)
      BY <2>1, <2>5
    <3>2. UNCHANGED <<ran, on_trace, picol_err>> /\ Return("ERR_NONE")
      BY <3>1 DEF Keep
    <3>3. ibuf' \in Seq([key : Keys, by : Clients]) /\ Len(ibuf') < IBUF_SIZE
      BY <3>1, <2>2, KeepType
    <3> QED BY <2>1, <3>2, <3>3, <1>2, ReturnType DEF TypeOK
  <2> QED BY <2>3, <2>4, <2>5
<1> QED BY <1>1, <1>2

-----------------------------------------------------------------------------
(* What the program does to the socket, and to what clients see of it.     *)
Drop == fd' = NoClient /\ UNCHANGED backlog

Take == CanAccept /\ fd' \in {Head(backlog), NoClient} /\ backlog' = Tail(backlog)

Read(c) ==
  /\ input[c] # <<>>
  /\ input' = [input EXCEPT ![c] = Tail(@)]

SocketStep ==
  /\ UNCHANGED socket \/ Drop \/ Take
  /\ UNCHANGED <<status, typed>>
  /\ \/ UNCHANGED prompt
     \/ fd # NoClient /\ UNCHANGED input /\ prompt' = [prompt EXCEPT ![fd] = Prompt]
  /\ \/ UNCHANGED input
     \/ \E c \in Clients : (c = fd \/ (CanAccept /\ c = Head(backlog))) /\ Read(c)

ProgramType ==
  /\ pc \in {"start", "run", "trace", "enter", "check", "input", "bye", "stopped", "hung"}
  /\ activated \in BOOLEAN /\ pend_prompt \in BOOLEAN
  /\ on_trace \in Scripts \cup {Unset} /\ picol_err \in Errors
  /\ ibuf \in Seq([key : Keys, by : Clients]) /\ Len(ibuf) < IBUF_SIZE
  /\ ran \subseteq Clients

LEMMA ProgramSteps ==
  ASSUME TypeOK, Program \/ Spin \/ term_out
  PROVE  SocketStep /\ ProgramType'
<1>1. CASE Execute
  BY <1>1 DEF Execute, SocketStep, ProgramType, TypeOK, socket, clients
<1>2. CASE mon_trace
  <2>1. pc' \in {"check", "bye", "enter"} /\ picol_err' \in Errors
    <3>1. CASE on_trace = Unset
      BY <1>2, <3>1 DEF mon_trace, TypeOK
    <3>2. CASE on_trace # Unset
      BY <1>2, <3>2 DEF mon_trace, Errors
    <3> QED BY <3>1, <3>2
  <2>2. UNCHANGED <<activated, on_trace, ibuf, ran, clients>>
    BY <1>2 DEF mon_trace
  <2>3. UNCHANGED <<socket, pend_prompt>> \/ (CanAccept /\ accept /\ mon_on_connect)
    BY <1>2 DEF mon_trace
  <2> QED BY <2>1, <2>2, <2>3 DEF SocketStep, Take, accept, mon_on_connect, ProgramType,
             TypeOK, socket, clients
<1>3. CASE mon_activate
  BY <1>3 DEF mon_activate, SocketStep, Take, accept, ProgramType, TypeOK, socket, clients
<1>4. CASE mon_prompt
  <2>1. SocketStep
    BY <1>4 DEF mon_prompt, SocketStep, Take, accept, TypeOK, socket
  <2>2. ibuf' \in Seq([key : Keys, by : Clients]) /\ Len(ibuf') < IBUF_SIZE
    <3>1. ibuf' = <<>> \/ UNCHANGED ibuf
      BY <1>4 DEF mon_prompt
    <3> QED BY <3>1, EmptyLine DEF TypeOK
  <2> QED BY <1>4, <2>1, <2>2 DEF mon_prompt, ProgramType, TypeOK
<1>5. CASE mon_check
  <2>1. CASE fd # NoClient /\ mon_input(fd, FALSE) /\ UNCHANGED backlog
    <3>1. fd \in Clients
      BY <2>1 DEF TypeOK
    <3> QED BY <2>1, <3>1, InputType DEF SocketStep, Drop, Read, ProgramType, socket
  <2>2. CASE CanAccept /\ mon_input(Head(backlog), TRUE) /\ backlog' = Tail(backlog)
    <3>1. Head(backlog) \in Clients
      BY <2>2, HeadTailProperties DEF TypeOK, CanAccept
    <3> QED BY <2>2, <3>1, InputType DEF SocketStep, Take, Read, ProgramType, socket
  <2>3. CASE /\ Return("ERR_NONE")
             /\ UNCHANGED <<pend_prompt, on_trace, picol_err, ibuf, ran, socket, clients>>
    BY <2>3, ReturnType DEF SocketStep, ProgramType, TypeOK, socket, clients
  <2> QED BY <1>5, <2>1, <2>2, <2>3 DEF mon_check
<1>6. CASE Stop
  BY <1>6 DEF Stop, mon_bye, socket_disconnect, SocketStep, Drop, ProgramType, TypeOK, clients
<1>7. CASE Spin \/ term_out
  BY <1>7 DEF Spin, term_out, SocketStep, ProgramType, TypeOK, socket, clients
<1> QED BY <1>1, <1>2, <1>3, <1>4, <1>5, <1>6, <1>7 DEF Program

(* Starting leaves no connection, as there was none to begin with.         *)
LEMMA StartType ==
  ASSUME TypeOK, Start
  PROVE  /\ TypeOK'
         /\ UNCHANGED <<activated, pend_prompt, ibuf, ran, status, input, typed, prompt>>
         /\ UNCHANGED socket \/ (fd' = NoClient /\ backlog' = <<>>)
<1>1. /\ UNCHANGED <<activated, pend_prompt, ibuf, ran, status, input, typed, prompt>>
      /\ pc' \in {"run", "stopped"}
      /\ UNCHANGED socket \/ (fd' = NoClient /\ backlog' = <<>>)
  BY DEF Start, mon_init, socket_init, clients
<1>2. on_trace' \in Scripts \cup {Unset} /\ picol_err' \in Errors
  BY MonitorAssumption DEF Start, mon_init, TypeOK
<1>3. backlog' \in Seq(Clients) /\ fd' \in Clients \cup {NoClient}
  BY <1>1, EmptySeq DEF TypeOK, socket
<1> QED BY <1>1, <1>2, <1>3 DEF TypeOK

LEMMA TypeNext == TypeOK /\ [Next]_vars => TypeOK'
<1> SUFFICES ASSUME TypeOK, [Next]_vars PROVE TypeOK'
  OBVIOUS
<1>1. CASE UNCHANGED vars
  BY <1>1 DEF vars, TypeOK
<1>2. ASSUME NEW c \in Clients, Connect(c) PROVE TypeOK'
  BY <1>2 DEF Connect, program, TypeOK
<1>3. ASSUME NEW c \in Clients, Leave(c) PROVE TypeOK'
  BY <1>3 DEF Leave, program, socket, TypeOK
<1>4. ASSUME NEW c \in Clients, NEW k \in Keys, Type(c, k) PROVE TypeOK'
  <2>1. typed' \in [Clients -> 0 .. MaxTyped]
    BY <1>4, MonitorAssumption DEF Type, TypeOK
  <2>2. input' \in [Clients -> Seq(Keys)]
    BY <1>4 DEF Type, TypeOK
  <2>3. prompt' \in [Clients -> Prompts]
    BY <1>4 DEF Type, TypeOK, Prompts
  <2> QED BY <1>4, <2>1, <2>2, <2>3 DEF Type, program, socket, TypeOK
<1>5. CASE Program \/ Spin \/ term_out
  <2>1. SocketStep /\ ProgramType'
    BY <1>5, ProgramSteps
  <2>2. fd' \in Clients \cup {NoClient} /\ backlog' \in Seq(Clients)
    <3>1. CASE UNCHANGED socket \/ Drop
      BY <3>1 DEF TypeOK, socket, Drop
    <3>2. CASE Take
      BY <3>2, HeadTailProperties DEF TypeOK, Take, CanAccept
    <3> QED BY <2>1, <3>1, <3>2 DEF SocketStep
  <2>3. input' \in [Clients -> Seq(Keys)]
    <3>1. \A c \in Clients : input[c] # <<>> => Tail(input[c]) \in Seq(Keys)
      BY HeadTailProperties DEF TypeOK
    <3> QED BY <2>1, <3>1 DEF SocketStep, Read, TypeOK
  <2>4. prompt' \in [Clients -> Prompts]
    BY <2>1 DEF SocketStep, TypeOK, Prompt, Prompts
  <2> QED BY <2>1, <2>2, <2>3, <2>4 DEF SocketStep, ProgramType, TypeOK
<1>6. CASE Start
  BY <1>6, StartType
<1> QED BY <1>1, <1>2, <1>3, <1>4, <1>5, <1>6 DEF Next

LEMMA TypeInit == Init => TypeOK
<1> SUFFICES ASSUME Init PROVE TypeOK
  OBVIOUS
<1>1. ibuf \in Seq([key : Keys, by : Clients]) /\ Len(ibuf) < IBUF_SIZE
  BY EmptyLine DEF Init
<1>2. backlog \in Seq(Clients) /\ input \in [Clients -> Seq(Keys)]
  BY EmptySeq DEF Init
<1>3. /\ typed \in [Clients -> 0 .. MaxTyped] /\ prompt \in [Clients -> Prompts]
      /\ status \in [Clients -> {"away", "here", "done", "gone"}]
  BY MonitorAssumption DEF Init, Prompts
<1>4. /\ activated \in BOOLEAN /\ pend_prompt \in BOOLEAN
      /\ pc \in {"start", "run", "trace", "enter", "check", "input", "bye", "stopped", "hung"}
  BY DEF Init
<1>5. /\ on_trace \in Scripts \cup {Unset} /\ ran \subseteq Clients
      /\ fd \in Clients \cup {NoClient}
  BY Zenon DEF Init
<1>6. picol_err \in Errors
  BY DEF Init, Errors
<1> QED BY <1>1, <1>2, <1>3, <1>4, <1>5, <1>6 DEF TypeOK

(* The line stays inside ibuf, and everything else keeps its type.         *)
THEOREM MonitorTypes == Spec => []TypeOK
  BY TypeInit, TypeNext, PTL DEF Spec

-----------------------------------------------------------------------------
(* A guest is held by mon_activate only while it loops over mon_check.     *)
ActiveInLoop == activated => pc \in {"check", "input", "hung"}

(* What mon_check returns to, and what it takes to release the guest.      *)
LEMMA InputReturns ==
  ASSUME picol_err \in Errors, NEW c, NEW new, mon_input(c, new)
  PROVE  /\ activated' => pc' = "check"
         /\ activated /\ pc' = "run" => Asked(Outcome) = "ERR_CONTINUE" /\ ran' # {}
<1>1. ASSUME NEW err, Return(err)
      PROVE  /\ activated' => pc' = "check"
             /\ activated /\ pc' = "run" =>
                  err \notin {"ERR_NONE", "ERR_SHUTDOWN", "ERR_PAUSE"}
  BY <1>1 DEF Return
<1>2. CASE Return("ERR_NONE")
  BY <1>1, <1>2
<1>3. CASE picolEval(c)
  <2>1. Return(Asked(Outcome)) /\ c \in ran'
    BY <1>3 DEF picolEval
  <2>2. Asked(Outcome) \in Errors
    BY DEF Asked, Outcome, Errors, TypeOK
  <2> QED BY <1>1, <2>1, <2>2 DEF Errors
<1> QED BY <1>2, <1>3 DEF mon_input, Keep

LEMMA HeldNext ==
  ASSUME TypeOK, ActiveInLoop, [Next]_vars
  PROVE  /\ ActiveInLoop'
         /\ [Held /\ pc' = "run" => pc = "input" /\ Asked(Outcome) = "ERR_CONTINUE" /\ ran' # {}]_vars
<1> DEFINE Good == [Held /\ pc' = "run" => pc = "input" /\ Asked(Outcome) = "ERR_CONTINUE" /\ ran' # {}]_vars
<1>1. CASE UNCHANGED vars
  BY <1>1 DEF vars, ActiveInLoop
<1>2. CASE UNCHANGED program
  BY <1>2 DEF program, ActiveInLoop, Held
<1>3. CASE Execute \/ mon_trace \/ mon_activate \/ mon_prompt \/ Stop \/ Start \/ Spin \/ term_out
  BY <1>3 DEF Execute, mon_trace, mon_activate, mon_prompt, Stop, Start, Spin, term_out,
                ActiveInLoop, Held
<1>4. CASE mon_check
  <2>1. pc = "input"
    BY <1>4 DEF mon_check
  <2>2. ASSUME NEW c, NEW new, mon_input(c, new) PROVE ActiveInLoop' /\ Good
    BY <2>1, <2>2, InputReturns DEF TypeOK, ActiveInLoop, Held
  <2>3. CASE Return("ERR_NONE")
    BY <2>1, <2>3 DEF Return, ActiveInLoop, Held
  <2> QED BY <1>4, <2>2, <2>3 DEF mon_check
<1> QED BY <1>1, <1>2, <1>3, <1>4 DEF Next, Program, Connect, Leave, Type

(* Only a cont line lets a guest that is held by mon_activate run again.   *)
THEOREM HeldGuestStays == Spec => HeldUntilCont
<1> DEFINE Inv == TypeOK /\ ActiveInLoop
<1>1. Init => Inv
  BY TypeInit DEF Init, ActiveInLoop
<1>2. Inv /\ [Next]_vars =>
        /\ Inv'
        /\ [Held /\ pc' = "run" => pc = "input" /\ Asked(Outcome) = "ERR_CONTINUE" /\ ran' # {}]_vars
  BY TypeNext, HeldNext
<1> QED BY <1>1, <1>2, PTL DEF Spec, HeldUntilCont

-----------------------------------------------------------------------------
(* A client that was not accepted yet waits in the backlog once, has seen  *)
(* no prompt, and has typed nothing if it waits for one.                   *)
Fresh(c) == status[c] = "away" \/ \E i \in DOMAIN backlog : backlog[i] = c

QueueInv ==
  /\ \A i, j \in DOMAIN backlog : backlog[i] = backlog[j] => i = j
  /\ \A i \in DOMAIN backlog : status[backlog[i]] # "away"
  /\ fd # NoClient => ~Fresh(fd)
  /\ \A c \in Clients : Fresh(c) => prompt[c] = "none"
  /\ Patient => \A c \in Clients : Fresh(c) => typed[c] = 0 /\ input[c] = <<>>

LEMMA Dequeued ==
  ASSUME TypeOK, CanAccept, backlog' = Tail(backlog)
  PROVE  /\ Head(backlog) \in Clients
         /\ 1 \in DOMAIN backlog /\ Head(backlog) = backlog[1]
         /\ \A i \in DOMAIN backlog' :
              /\ i + 1 \in DOMAIN backlog /\ i + 1 # 1
              /\ backlog'[i] = backlog[i + 1]
         /\ \A i, j \in DOMAIN backlog' : i + 1 = j + 1 => i = j
<1>1. backlog \in Seq(Clients) /\ backlog # <<>>
  BY DEF TypeOK, CanAccept
<1>2. Len(backlog) \in Nat \ {0} /\ DOMAIN backlog = 1 .. Len(backlog)
  BY <1>1, EmptySeq
<1>3. /\ Head(backlog) \in Clients /\ Head(backlog) = backlog[1]
      /\ backlog' \in Seq(Clients) /\ DOMAIN backlog' = 1 .. Len(backlog) - 1
      /\ \A i \in DOMAIN backlog' : backlog'[i] = backlog[i + 1]
  BY <1>1, <1>2, HeadTailProperties
<1> QED BY <1>2, <1>3

LEMMA SocketKeepsQueue ==
  ASSUME TypeOK, QueueInv, SocketStep
  PROVE  /\ QueueInv'
         /\ \A c \in Clients : Fresh(c)' => Fresh(c)
         /\ Take => Head(backlog) \in Clients /\ Fresh(Head(backlog))
<1>1. /\ \A c \in Clients : Fresh(c)' => Fresh(c)
      /\ \A i, j \in DOMAIN backlog' : backlog'[i] = backlog'[j] => i = j
      /\ \A i \in DOMAIN backlog' : status'[backlog'[i]] # "away"
      /\ fd' # NoClient => fd' \in Clients /\ ~Fresh(fd)'
  <2>1. CASE UNCHANGED socket \/ Drop
    BY <2>1 DEF SocketStep, socket, Drop, Fresh, QueueInv, TypeOK
  <2>2. CASE Take
    <3>1. /\ \A i \in DOMAIN backlog' : i + 1 \in DOMAIN backlog /\ backlog'[i] = backlog[i + 1]
          /\ \A i, j \in DOMAIN backlog' : i + 1 = j + 1 => i = j
          /\ \A i \in DOMAIN backlog' : backlog'[i] # backlog[1]
          /\ backlog[1] \in Clients /\ 1 \in DOMAIN backlog
          /\ fd' \in {backlog[1], NoClient} /\ status' = status
      BY <2>2, Dequeued DEF SocketStep, Take, QueueInv
    <3> QED BY <3>1 DEF Fresh, QueueInv
  <2> QED BY <2>1, <2>2 DEF SocketStep
<1>2. Take => Head(backlog) \in Clients /\ Fresh(Head(backlog))
  BY Dequeued DEF Take, Fresh
<1>3. \A c \in Clients : Fresh(c) => prompt'[c] = "none"
  BY DEF SocketStep, QueueInv, TypeOK
<1>4. Patient => \A c \in Clients : Fresh(c) => typed'[c] = 0 /\ input'[c] = <<>>
  <2>1. CASE UNCHANGED input
    BY <2>1 DEF SocketStep, QueueInv
  <2>2. ASSUME NEW c \in Clients, Read(c), Patient,
               NEW d \in Clients, Fresh(d)
        PROVE  input'[d] = <<>>
    <3>1. c # d
      BY <2>2 DEF QueueInv, Read
    <3> QED BY <2>2, <3>1 DEF QueueInv, Read, TypeOK
  <2>3. UNCHANGED typed
    BY DEF SocketStep
  <2> QED BY <2>1, <2>2, <2>3 DEF SocketStep, QueueInv
<1> QED BY <1>1, <1>2, <1>3, <1>4 DEF QueueInv

LEMMA QueueNext ==
  ASSUME TypeOK, QueueInv, [Next]_vars
  PROVE  QueueInv'
<1>1. CASE UNCHANGED vars
  BY <1>1 DEF vars, QueueInv, Fresh
<1>2. ASSUME NEW c \in Clients, Connect(c) PROVE QueueInv'
  <2>1. /\ backlog' = Append(backlog, c) /\ status[c] = "away"
        /\ status' = [status EXCEPT ![c] = "here"]
        /\ UNCHANGED <<fd, input, typed, prompt>>
    BY <1>2 DEF Connect
  <2>2. /\ DOMAIN backlog' = DOMAIN backlog \cup {Len(backlog) + 1}
        /\ Len(backlog) + 1 \notin DOMAIN backlog
        /\ \A i \in DOMAIN backlog : backlog'[i] = backlog[i] /\ backlog[i] \in Clients
        /\ backlog'[Len(backlog) + 1] = c
    <3>1. backlog \in Seq(Clients)
      BY DEF TypeOK
    <3> QED BY <2>1, <3>1, AppendProperties, Elements
  <2>3. \A d \in Clients : Fresh(d)' <=> Fresh(d)
    BY <2>1, <2>2 DEF Fresh, TypeOK
  <2>4. \A i \in DOMAIN backlog : backlog[i] # c
    BY <2>1 DEF QueueInv
  <2>5. \A i, j \in DOMAIN backlog' : backlog'[i] = backlog'[j] => i = j
    BY <2>2, <2>4 DEF QueueInv
  <2>6. \A i \in DOMAIN backlog' : status'[backlog'[i]] # "away"
    BY <2>1, <2>2 DEF QueueInv, TypeOK
  <2> QED BY <2>1, <2>3, <2>5, <2>6 DEF QueueInv, TypeOK
<1>3. ASSUME NEW c \in Clients, Leave(c) PROVE QueueInv'
  <2>1. \A d \in Clients : (status'[d] = "away") = (status[d] = "away")
    BY <1>3 DEF Leave, TypeOK
  <2>2. \A i \in DOMAIN backlog : backlog[i] \in Clients
    BY Elements DEF TypeOK
  <2> QED BY <1>3, <2>1, <2>2 DEF Leave, socket, QueueInv, Fresh, TypeOK
<1>4. ASSUME NEW c \in Clients, NEW k \in Keys, Type(c, k) PROVE QueueInv'
  <2>1. UNCHANGED <<fd, backlog, status>>
    BY <1>4 DEF Type, socket
  <2>2. \A d \in Clients : prompt'[d] \in {prompt[d], "none"}
    BY <1>4 DEF Type, TypeOK
  <2>3. \A d \in Clients : d # c => input'[d] = input[d] /\ typed'[d] = typed[d]
    BY <1>4 DEF Type, TypeOK
  <2>4. Patient => ~Fresh(c)
    BY <1>4 DEF Type, QueueInv
  <2> QED BY <2>1, <2>2, <2>3, <2>4 DEF QueueInv, Fresh
<1>5. CASE Program \/ Spin \/ term_out
  BY <1>5, ProgramSteps, SocketKeepsQueue
<1>6. CASE Start
  <2>1. backlog' = <<>> => DOMAIN backlog' = {}
    BY EmptySeq
  <2> QED BY <1>6, <2>1, StartType DEF QueueInv, Fresh, socket
<1> QED BY <1>1, <1>2, <1>3, <1>4, <1>5, <1>6 DEF Next

LEMMA QueueInit == Init => QueueInv
  BY DEF Init, QueueInv, Fresh

(* All of Next but mon_check and mon_prompt leaves the prompts, the line   *)
(* and what the program read alone, and activated at least as it was.      *)
LEMMA OtherSteps ==
  ASSUME TypeOK, ActiveInLoop, Execute \/ mon_trace \/ mon_activate \/ Stop \/ Spin \/ term_out
  PROVE  /\ UNCHANGED <<ibuf, ran, input, typed, prompt>>
         /\ activated => activated' /\ UNCHANGED pend_prompt
         /\ fd' = fd \/ fd' = NoClient \/ Take
  BY DEF Execute, mon_trace, mon_activate, Stop, mon_bye, socket_disconnect, Spin, term_out,
     Take, accept, socket, clients, ActiveInLoop

(* What a client was told with (sync) is true: until it answers, the guest *)
(* is held, and no line that could release it is on its way.               *)
SyncInv ==
  \A c \in Clients : fd = c /\ prompt[c] = "sync" =>
    activated /\ ~pend_prompt /\ \A i \in DOMAIN input[c] : input[c][i] # "\n"

LEMMA SyncInput ==
  ASSUME TypeOK, SyncInv, NEW c \in Clients, NEW new \in BOOLEAN, mon_input(c, new),
         c # fd => prompt[c] = "none", c = fd => new = FALSE
  PROVE  SyncInv'
<1> SUFFICES ASSUME NEW d \in Clients, fd' = d, prompt'[d] = "sync"
             PROVE  activated' /\ ~pend_prompt' /\ \A i \in DOMAIN input'[d] : input'[d][i] # "\n"
  BY DEF SyncInv
<1>1. d = c /\ c = fd /\ UNCHANGED prompt
  BY InputType, MonitorAssumption
<1>2. activated /\ new = FALSE /\ \A i \in DOMAIN input[c] : input[c][i] # "\n"
  BY <1>1 DEF SyncInv
<1>3. CASE input[c] = <<>>
  BY <1>1, <1>2, <1>3, Zenon DEF mon_input, Return, clients
<1>4. CASE input[c] # <<>>
  <2>1. /\ 1 \in DOMAIN input[c] /\ Head(input[c]) = input[c][1]
        /\ \A i \in DOMAIN Tail(input[c]) :
             i + 1 \in DOMAIN input[c] /\ Tail(input[c])[i] = input[c][i + 1]
    <3>1. input[c] \in Seq(Keys) /\ Len(input[c]) \in Nat \ {0}
      BY <1>4, EmptySeq DEF TypeOK
    <3> QED BY <3>1, <1>4, HeadTailProperties, Elements
  <2>2. Head(input[c]) # "\n" /\ \A i \in DOMAIN Tail(input[c]) : Tail(input[c])[i] # "\n"
    BY <1>2, <2>1
  <2>3. Return("ERR_NONE") /\ pend_prompt' = FALSE /\ input' = [input EXCEPT ![c] = Tail(@)]
    BY <1>4, <2>2 DEF mon_input, Keep
  <2> QED BY <1>1, <1>2, <2>2, <2>3 DEF Return, TypeOK
<1> QED BY <1>3, <1>4

LEMMA SyncNext ==
  ASSUME TypeOK, ActiveInLoop, QueueInv, SyncInv, [Next]_vars
  PROVE  SyncInv'
<1>1. CASE UNCHANGED vars
  BY <1>1 DEF vars, SyncInv
<1>2. ASSUME NEW c \in Clients, Connect(c) \/ Leave(c) PROVE SyncInv'
  BY <1>2 DEF Connect, Leave, program, socket, SyncInv
<1>3. ASSUME NEW c \in Clients, NEW k \in Keys, Type(c, k) PROVE SyncInv'
  <2> SUFFICES ASSUME NEW d \in Clients, fd' = d, prompt'[d] = "sync"
               PROVE  activated' /\ ~pend_prompt' /\ \A i \in DOMAIN input'[d] : input'[d][i] # "\n"
    BY DEF SyncInv
  <2>1. fd = d /\ prompt[d] = "sync" /\ (d = c => k # "\n")
         /\ UNCHANGED <<activated, pend_prompt>>
    BY <1>3 DEF Type, program, socket, TypeOK
  <2>2. activated /\ ~pend_prompt /\ \A i \in DOMAIN input[d] : input[d][i] # "\n"
    BY <2>1 DEF SyncInv
  <2>3. CASE d # c
    BY <1>3, <2>1, <2>2, <2>3 DEF Type, TypeOK
  <2>4. CASE d = c
    <3>1. input'[d] = Append(input[d], k) /\ input[d] \in Seq(Keys)
      BY <1>3, <2>4 DEF Type, TypeOK
    <3>2. \A i \in DOMAIN Append(input[d], k) :
            \/ Append(input[d], k)[i] = k
            \/ i \in DOMAIN input[d] /\ Append(input[d], k)[i] = input[d][i]
      BY <3>1, AppendProperties, Elements
    <3> QED BY <2>1, <2>2, <2>4, <3>1, <3>2
  <2> QED BY <2>3, <2>4
<1>4. CASE Execute \/ mon_trace \/ mon_activate \/ Stop \/ Spin \/ term_out
  <2>1. Take => Head(backlog) \in Clients /\ prompt[Head(backlog)] = "none"
    BY <1>4, Dequeued DEF Take, QueueInv, Fresh
  <2> QED BY <1>4, <2>1, OtherSteps, MonitorAssumption DEF SyncInv, Take
<1>5. CASE mon_prompt
  <2>1. UNCHANGED <<activated, input>> /\ pend_prompt' = FALSE
    BY <1>5 DEF mon_prompt
  <2>2. CASE ~pend_prompt
    BY <1>5, <2>1, <2>2 DEF mon_prompt, SyncInv, socket
  <2>3. CASE pend_prompt /\ fd # NoClient
    <3>1. fd' = fd /\ fd \in Clients /\ prompt' = [prompt EXCEPT ![fd] = Prompt]
      BY <1>5, <2>3 DEF mon_prompt, CanAccept, socket, TypeOK
    <3>2. prompt'[fd] = Prompt
      BY <3>1 DEF TypeOK
    <3> QED BY <2>1, <3>1, <3>2 DEF SyncInv, Prompt
  <2>4. CASE pend_prompt /\ fd = NoClient
    <3>1. UNCHANGED prompt /\ (fd' = NoClient \/ Take)
      BY <1>5, <2>4 DEF mon_prompt, Take, accept, socket
    <3>2. Take => Head(backlog) \in Clients /\ prompt[Head(backlog)] = "none"
      BY Dequeued DEF Take, QueueInv, Fresh
    <3> QED BY <3>1, <3>2, MonitorAssumption DEF SyncInv, Take
  <2> QED BY <2>2, <2>3, <2>4
<1>6. CASE mon_check
  <2>1. CASE fd # NoClient /\ mon_input(fd, FALSE)
    BY <2>1, SyncInput, Zenon DEF TypeOK
  <2>2. CASE CanAccept /\ mon_input(Head(backlog), TRUE) /\ backlog' = Tail(backlog)
    <3>1. /\ Head(backlog) \in Clients /\ prompt[Head(backlog)] = "none"
          /\ Head(backlog) # fd
      BY <2>2, Dequeued, MonitorAssumption DEF QueueInv, Fresh, CanAccept
    <3> QED BY <2>2, <3>1, SyncInput
  <2>3. CASE Return("ERR_NONE") /\ UNCHANGED <<pend_prompt, socket, clients>>
    BY <2>3 DEF Return, SyncInv, socket, clients
  <2> QED BY <1>6, <2>1, <2>2, <2>3 DEF mon_check
<1>7. CASE Start
  BY <1>7, StartType, MonitorAssumption DEF SyncInv, socket
<1> QED BY <1>1, <1>2, <1>3, <1>4, <1>5, <1>6, <1>7 DEF Next, Program

(* The invariant that both theorems on (sync) rest on.                     *)
LEMMA SyncAlways == Spec => [](TypeOK /\ SyncInv)
<1> DEFINE Inv == TypeOK /\ ActiveInLoop /\ QueueInv /\ SyncInv
<1>1. Init => Inv
  BY TypeInit, QueueInit DEF Init, ActiveInLoop, SyncInv
<1>2. Inv /\ [Next]_vars => Inv'
  BY TypeNext, HeldNext, QueueNext, SyncNext
<1> QED BY <1>1, <1>2, PTL DEF Spec

(* The (sync) of a prompt that crossed no line stays true until the client *)
(* answers: only its own line makes mon_activate return, and no prompt     *)
(* comes before it.                                                        *)
THEOREM SyncPromptsTruthful == Spec => []SyncPromptTruthful
<1>1. TypeOK /\ SyncInv => SyncPromptTruthful
  BY DEF SyncInv, SyncPromptTruthful
<1> QED BY <1>1, SyncAlways, PTL

-----------------------------------------------------------------------------
(* With clients that wait for a prompt: ibuf holds no character of another *)
(* client once the connected one was prompted or typed, and so the line it *)
(* ends is its own.                                                        *)
LineInv ==
  /\ \A c \in Clients : fd = c /\ (typed[c] > 0 \/ prompt[c] # "none") =>
       \A i \in DOMAIN ibuf : ibuf[i].by = c
  /\ \A c \in Clients : input[c] # <<>> => typed[c] > 0
  /\ ran = {} \/ \E c \in Clients : ran = {c}

LEMMA LineInput ==
  ASSUME TypeOK, LineInv, NEW c \in Clients, NEW new \in BOOLEAN, mon_input(c, new),
         c = fd \/ (input[c] = <<>> /\ typed[c] = 0 /\ prompt[c] = "none")
  PROVE  LineInv'
<1>1. UNCHANGED <<typed, prompt>> /\ fd' \in {c, NoClient}
  BY InputType
<1>2. CASE input[c] = <<>>
  <2>1. UNCHANGED <<ibuf, ran, input>>
    BY <1>2 DEF mon_input, clients
  <2>2. ASSUME NEW d \in Clients, fd' = d, typed[d] > 0 \/ prompt[d] # "none"
        PROVE  fd = d
    <3>1. ~(0 > 0) /\ d = c
      BY <1>1, <2>2, MonitorAssumption
    <3> QED BY <2>2, <3>1
  <2> QED BY <1>1, <2>1, <2>2 DEF LineInv
<1>3. CASE input[c] # <<>>
  <2>1. c = fd /\ \A i \in DOMAIN ibuf : ibuf[i].by = c
    BY <1>3 DEF LineInv
  <2>2. (\A i \in DOMAIN ibuf' : ibuf'[i].by = c) /\ (ran' = ran \/ ran' = {c})
    <3>1. CASE picolEval(c)
      BY <3>1, <2>1 DEF picolEval
    <3>2. CASE UNCHANGED <<ibuf, ran>>
      BY <3>2, <2>1
    <3>3. ASSUME NEW k \in Keys, Keep(k, c)
          PROVE  (\A i \in DOMAIN ibuf' : ibuf'[i].by = c) /\ ran' = ran
      BY <3>3, <2>1, KeepType DEF Keep
    <3>4. Head(input[c]) \in Keys
      BY <1>3 DEF TypeOK
    <3> QED BY <1>3, <3>1, <3>2, <3>3, <3>4 DEF mon_input
  <2>3. \A d \in Clients : input'[d] # <<>> => input[d] # <<>>
    BY <1>3 DEF mon_input, TypeOK
  <2> QED BY <1>1, <2>1, <2>2, <2>3, MonitorAssumption DEF LineInv
<1> QED BY <1>2, <1>3

LEMMA LineNext ==
  ASSUME Patient, TypeOK, ActiveInLoop, QueueInv, LineInv, [Next]_vars
  PROVE  LineInv'
<1> DEFINE New == /\ Head(backlog) \in Clients
                  /\ input[Head(backlog)] = <<>> /\ typed[Head(backlog)] = 0
                  /\ prompt[Head(backlog)] = "none"
<1>1. CASE UNCHANGED vars
  BY <1>1 DEF vars, LineInv
<1>2. ASSUME NEW c \in Clients, Connect(c) \/ Leave(c) PROVE LineInv'
  BY <1>2 DEF Connect, Leave, program, socket, LineInv
<1>3. ASSUME NEW c \in Clients, NEW k \in Keys, Type(c, k) PROVE LineInv'
  <2>1. prompt[c] # "none" /\ typed[c] \in Nat /\ UNCHANGED <<program, fd>>
    BY <1>3, MonitorAssumption DEF Type, TypeOK, socket
  <2>2. typed'[c] > 0
    BY <1>3, <2>1 DEF Type, TypeOK
  <2>3. \A d \in Clients : d # c =>
          input'[d] = input[d] /\ typed'[d] = typed[d] /\ prompt'[d] = prompt[d]
    BY <1>3 DEF Type, TypeOK
  <2> QED BY <2>1, <2>2, <2>3 DEF LineInv, program
<1>4. CanAccept /\ backlog' = Tail(backlog) => New
  BY Dequeued DEF QueueInv, Fresh
<1>5. CASE Execute \/ mon_trace \/ mon_activate \/ Stop \/ Spin \/ term_out
  <2>1. /\ UNCHANGED <<ibuf, ran, input, typed, prompt>>
        /\ fd' = fd \/ fd' = NoClient \/ Take
    BY <1>5, OtherSteps
  <2>2. ASSUME NEW d \in Clients, fd' = d, typed[d] > 0 \/ prompt[d] # "none"
        PROVE  fd = d
    <3>1. Take => ~(fd' = d)
      <4>1. ~(0 > 0)
        OBVIOUS
      <4> QED BY <1>4, <2>2, <4>1, MonitorAssumption DEF Take
    <3> QED BY <2>1, <2>2, <3>1, MonitorAssumption
  <2> QED BY <2>1, <2>2 DEF LineInv
<1>6. CASE mon_prompt
  <2>1. UNCHANGED <<ran, input, typed>>
    BY <1>6 DEF mon_prompt
  <2>2. CASE pend_prompt
    BY <1>6, <2>1, <2>2 DEF mon_prompt, LineInv
  <2>3. CASE ~pend_prompt
    BY <1>6, <2>1, <2>3 DEF mon_prompt, LineInv, socket
  <2> QED BY <2>2, <2>3
<1>7. CASE mon_check
  <2>1. CASE fd # NoClient /\ mon_input(fd, FALSE)
    BY <2>1, LineInput DEF TypeOK
  <2>2. CASE CanAccept /\ mon_input(Head(backlog), TRUE) /\ backlog' = Tail(backlog)
    BY <1>4, <2>2, LineInput
  <2>3. CASE UNCHANGED <<ibuf, ran, socket, clients>>
    BY <2>3 DEF LineInv, socket, clients
  <2> QED BY <1>7, <2>1, <2>2, <2>3 DEF mon_check
<1>8. CASE Start
  BY <1>8, StartType, MonitorAssumption DEF LineInv, socket
<1> QED BY <1>1, <1>2, <1>3, <1>5, <1>6, <1>7, <1>8 DEF Next, Program

(* A line that runs was typed by the client that ended it alone, when each *)
(* client types only at a prompt: nothing survives in ibuf from one client *)
(* to the next.                                                            *)
THEOREM LinesFromOneClient == Patient => (Spec => []LineFromOneClient)
<1> SUFFICES ASSUME Patient PROVE Spec => []LineFromOneClient
  OBVIOUS
<1> DEFINE Inv == TypeOK /\ ActiveInLoop /\ QueueInv /\ LineInv
<1>1. Init => Inv
  BY TypeInit, QueueInit DEF Init, ActiveInLoop, LineInv
<1>2. Inv /\ [Next]_vars => Inv'
  BY TypeNext, HeldNext, QueueNext, LineNext
<1>3. Inv => LineFromOneClient
  <2>1. Cardinality({}) = 0 /\ \A c \in Clients : Cardinality({c}) = 1
    BY FS_EmptySet, FS_Singleton
  <2>2. LineInv => Cardinality(ran) \in {0, 1}
    BY <2>1 DEF LineInv
  <2> QED BY <2>2 DEF LineFromOneClient
<1> QED BY <1>1, <1>2, <1>3, PTL DEF Spec
=============================================================================
