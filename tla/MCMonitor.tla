----------------------------- MODULE MCMonitor ------------------------------
(***************************************************************************)
(* Monitor with two connections and commands of one character.             *)
(***************************************************************************)
EXTENDS Monitor

Commands == {"quit", "cont", "pause", "\n"}

(* With a character that is no command, an on_trace that prints and one    *)
(* that pauses, and what mon_check treats apart.                           *)
AllKeys == Commands \cup {"set on_trace", "backspace", "\r"}

(* A pvp.pcl that does neither, and one that says cont.                    *)
NoProfile == {[on_trace |-> Unset, err |-> "ERR_NONE"]}
MCProfiles == NoProfile \cup {[on_trace |-> Unset, err |-> "ERR_CONTINUE"]}

MCScripts == {[talks |-> TRUE, err |-> "ERR_NONE"], [talks |-> FALSE, err |-> "ERR_PAUSE"]}
=============================================================================
