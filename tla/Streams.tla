------------------------------ MODULE Streams -------------------------------
(***************************************************************************)
(* What the ihandles of src/rom.c promise: each is a stream of its own on  *)
(* a host file or on a part of a disk, with a position that only its own   *)
(* transfers and seeks move, however many streams are open on one disk.    *)
(* A transfer starts at the stream's position and, on a part of a disk,    *)
(* ends inside the part, places being counted modulo WordMod.  A stream    *)
(* nobody has placed promises nothing: the position of a disk is unknown   *)
(* until the first seek.                                                   *)
(***************************************************************************)
EXTENDS Integers

CONSTANTS
  Values,    \* ihandles
  WordMod,
  Handles    \* what an ihandle may stand for, records with fields kind
             \* ("none", "file", "disk", "console"), dev, base, length, pos
             \* and placed

VARIABLES
  stream,
  io         \* the transfer that was made last: device, place and length

Init ==
  /\ \A v \in Values : stream[v].kind \in {"none", "console"}
  /\ io.n = 0

Only(v) == UNCHANGED io /\ \A w \in Values \ {v} : stream'[w] = stream[w]

Open(v) ==
  /\ stream[v].kind = "none"
  /\ stream'[v] \in Handles
  /\ stream'[v].kind = "file" => stream'[v].placed /\ stream'[v].pos = 0
  /\ stream'[v].kind = "disk" => ~stream'[v].placed
  /\ Only(v)

Close(v) ==
  /\ stream[v].kind # "none" /\ stream'[v].kind = "none"
  /\ Only(v)

Move(v) == stream' = [stream EXCEPT ![v].pos = stream'[v].pos]

Place(v) ==
  /\ stream[v].kind = "disk" => stream'[v].pos <= stream[v].length
  /\ stream' = [stream EXCEPT ![v].pos = stream'[v].pos, ![v].placed = TRUE]
  /\ UNCHANGED io

Transfer(v) ==
  /\ stream[v].kind \in {"file", "disk"}
  /\ io'.dev = stream[v].dev
  /\ stream[v].placed =>
       /\ io'.at = IF stream[v].kind = "disk"
                     THEN (stream[v].base + stream[v].pos) % WordMod
                     ELSE stream[v].pos
       /\ stream[v].kind = "disk" => stream[v].pos + io'.n <= stream[v].length
       /\ stream'[v].pos = stream[v].pos + io'.n
  /\ Move(v)

Rest == io'.n = 0 /\ UNCHANGED stream

Next == Rest \/ \E v \in Values : Open(v) \/ Close(v) \/ Place(v) \/ Transfer(v)

Spec == Init /\ [][Next]_<<stream, io>>
=============================================================================
