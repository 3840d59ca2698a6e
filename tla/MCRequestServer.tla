-------------------------- MODULE MCRequestServer --------------------------
(* Instances of RequestServer for TLC. *)
EXTENDS RequestServer

CONSTANTS w1, w2

OneWorker == {w1}
TwoWorkers == {w1, w2}

Plain == [text |-> TRUE, head |-> "datarec", action |-> "get", command |-> "scan",
          params |-> <<>>]

\* Every combination the parser tells apart, with up to PARAM_NUM parameters; a request that
\* fails early is tried with one continuation.
AllRequests ==
    {r \in [text : {TRUE}, head : {"datarec"}, action : Actions \cup {"none"},
            command : {"info", "disk", "scan", "recovery", "other", "long", "none"},
            params : ParamSeqs] :
        r.action # "none" \/ r.params = <<>>}
      \cup {[Plain EXCEPT !.text = FALSE], [Plain EXCEPT !.head = "other"],
            [Plain EXCEPT !.head = "none"]}

\* A few that differ in every field: a command that takes a parameter, one that is unknown,
\* and a request to exit as the client sends it.
FewRequests ==
    {[Plain EXCEPT !.action = "set", !.params = <<"stop">>],
     [Plain EXCEPT !.command = "other"],
     [Plain EXCEPT !.action = "exit", !.command = "none"]}

\* A request to start a scan, and one to exit whose command is unknown (main looks at the action
\* alone).
PairRequests ==
    {[Plain EXCEPT !.action = "set", !.params = <<"value", "value">>],
     [Plain EXCEPT !.action = "exit", !.command = "other"]}

WorkerSymmetry == {[w \in TwoWorkers |-> IF w = w1 THEN w2 ELSE w1], [w \in TwoWorkers |-> w]}
=============================================================================
