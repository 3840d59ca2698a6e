---------------------------- MODULE ScanService ----------------------------
(***************************************************************************)
(* What the scanner promises a client, stated without threads or flags: at *)
(* most one scan is under way; while it runs, the previous result of its   *)
(* kind cannot be read; a scan that completes makes the files of the       *)
(* volume the client named readable, and one that does not (it was         *)
(* stopped, or its volume could not be read) leaves no result of its kind. *)
(***************************************************************************)
CONSTANTS Kinds, Volumes, NULL

VARIABLES
    phase,    \* the kind of scan under way, or "IDLE"
    subject,  \* the volume it reads
    result    \* by kind, the volume whose files the client may read

vars == <<phase, subject, result>>

Init ==
    /\ phase = "IDLE"
    /\ subject = NULL
    /\ result = [k \in Kinds |-> NULL]

Begin(k, v) ==
    /\ phase = "IDLE"
    /\ phase' = k
    /\ subject' = v
    /\ result' = [result EXCEPT ![k] = NULL]

Complete ==
    /\ phase \in Kinds
    /\ result' = [result EXCEPT ![phase] = subject]
    /\ phase' = "IDLE"
    /\ subject' = NULL

Abandon ==
    /\ phase \in Kinds
    /\ phase' = "IDLE"
    /\ subject' = NULL
    /\ UNCHANGED result

Next == (\E k \in Kinds, v \in Volumes : Begin(k, v)) \/ Complete \/ Abandon

Spec == Init /\ [][Next]_vars
=============================================================================
