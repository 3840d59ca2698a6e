------------------------ MODULE RequestServer_proofs ------------------------
(***************************************************************************)
(* Theorems about RequestServer.                                           *)
(*                                                                         *)
(* For any number of workers: types; the contexts are there whenever a     *)
(* request is served; main stops only for a client that asked for it; and  *)
(* nothing of a request is left when all workers are at rest.  For a lone  *)
(* worker: it dies of a fatal request only, and each client it answers is  *)
(* answered what its own request calls for.                                *)
(***************************************************************************)
EXTENDS RequestServer, SequenceTheorems, TLAPS

Names == {"info", "disk", "scan", "recovery"}
Codes == {"OK", "COMMON_ERROR"}
Acts == {"get", "set", "neither"}

States == {"receive"} \cup Parsing \cup Answering \cup Resetting
Results == {"OK", "COMMON_ERROR", "UNKNOWN_TYPE", "UNKNOWN_HEAD", "ONLY_HAS_HEAD",
            "UNKNOWN_ACTION", "UNKNOWN_COMMAND", "UNKNOWN_PARAM", "PARAM_LEN_TOO_LONG"}

LocalType == {NULL} \cup [command : Names, action : Acts] \cup [code : Codes]

\* What a worker knows when it is about to execute its next statement.
WorkerInv(w) ==
    /\ pc[w] # "receive" => message[w] \in Requests
    /\ pc[w] \in {"run", "run_get", "answer"} => local[w] \in [command : Names, action : Acts]
    /\ pc[w] = "result" => local[w] \in [code : Codes]

TypeInv ==
    /\ TypeOK
    /\ local \in [Workers -> LocalType]
    /\ \A w \in Workers : WorkerInv(w)

----------------------------------------------------------------------------
(* Types *)

\* The fields of a request.
LEMMA RequestFields ==
    ASSUME NEW r \in Requests
    PROVE  /\ r.text \in BOOLEAN
           /\ r.head \in {"datarec", "other", "none"}
           /\ r.action \in Actions \cup {"none"}
           /\ r.command \in Names \cup {"other", "long", "none"}
           /\ r.params \in Seq(Params)
           /\ Len(r.params) \in 0 .. PARAM_NUM
           /\ r # NULL
<1>1. r \in RequestType
    BY RequestsAssumption
<1>2. r.params \in ParamSeqs
    BY <1>1 DEF RequestType
<1>3. PICK n \in 0 .. PARAM_NUM : r.params \in [1 .. n -> Params]
    BY <1>2 DEF ParamSeqs
<1>4. r.params \in Seq(Params) /\ Len(r.params) = n
    BY <1>3, ParamNumAssumption
<1> QED
    BY <1>1, <1>4, RequestsAssumption DEF RequestType, Names, Actions

\* The table of commands.
LEMMA CommandTable ==
    /\ DOMAIN Commands = 1 .. 4 /\ OVERWRITTEN = 5
    /\ Commands[1] = "info" /\ Commands[2] = "disk" /\ Commands[3] = "scan"
    /\ Commands[4] = "recovery"
    /\ \A i \in 1 .. 4 : Commands[i] \in Names
BY DEF Commands, Names, OVERWRITTEN

\* Array_ID_Matcher finds a name in the table, if it is there (common.c).
LEMMA Matcher ==
    ASSUME NEW name
    PROVE  /\ Array_ID_Matcher(name) \in 0 .. 4
           /\ name \in Names => /\ Array_ID_Matcher(name) \in 1 .. 4
                                /\ Commands[Array_ID_Matcher(name)] = name
           /\ name \notin Names => Array_ID_Matcher(name) = NO_COMMAND
BY CommandTable DEF Array_ID_Matcher, NO_COMMAND, Names

\* The contexts main builds.
LEMMA AllContexts == ToSet(Contexts) = {"data_Rec", "testdisk", "server"}
<1>1. DOMAIN Contexts = 1 .. 3
    BY DEF Contexts
<1> QED
    BY <1>1 DEF ToSet, Contexts

LEMMA InitType == Init => TypeInv
<1> SUFFICES ASSUME Init PROVE TypeInv
    OBVIOUS
<1>0. /\ param = NoParams /\ param_Num = 0 /\ index = [w \in Workers |-> 1] /\ command_ID = 1
    BY DEF Init
<1>1. param \in [1 .. PARAM_NUM + 1 -> Params \cup {EMPTY}] /\ param_Num \in 0 .. PARAM_NUM
    BY <1>0, ParamNumAssumption DEF NoParams
<1>2. index \in [Workers -> 1 .. PARAM_NUM + 1]
    BY <1>0, ParamNumAssumption
<1>3. command_ID \in DOMAIN Commands \cup {NO_COMMAND, OVERWRITTEN}
    BY <1>0, CommandTable
<1>4. scanning \in BOOLEAN /\ crashed \in BOOLEAN
    BY DEF Init
<1>5. local \in [Workers -> LocalType]
    BY DEF Init, LocalType
<1>6. pc \in [Workers -> States]
    BY DEF Init, States
<1> QED
    BY <1>1, <1>2, <1>3, <1>4, <1>5, <1>6 DEF TypeInv, TypeOK, WorkerInv, Init, Results, States

\* A statement of a worker leaves what the other workers know as it is.
LEMMA OthersKnow ==
    ASSUME TypeInv, NEW w \in Workers, WorkerInv(w)',
           \A u \in Workers : u # w => /\ message'[u] = message[u]
                                      /\ local'[u] = local[u]
                                      /\ pc'[u] = pc[u]
    PROVE  \A u \in Workers : WorkerInv(u)'
BY DEF TypeInv, WorkerInv

\* A step that changes no more than the two flags keeps the types.
LEMMA StillType ==
    ASSUME TypeInv, UNCHANGED <<request_Ctx, respond_Ctx, pc, message, index, local, contexts, main>>,
           scanning' \in BOOLEAN, crashed' \in BOOLEAN
    PROVE  TypeInv'
<1>1. TypeOK'
    BY DEF TypeInv, TypeOK, request_Ctx, respond_Ctx
<1>2. local' \in [Workers -> LocalType]
    BY DEF TypeInv
<1>3. ASSUME NEW w \in Workers PROVE WorkerInv(w)'
    <2>1. WorkerInv(w)
        BY DEF TypeInv
    <2> QED
        BY <2>1 DEF WorkerInv
<1> QED
    BY <1>1, <1>2, <1>3 DEF TypeInv

\* A worker goes from one statement to the next.
LEMMA GotoType ==
    ASSUME TypeInv, NEW w \in Workers, NEW from, NEW to \in States, Goto(w, from, to)
    PROVE  /\ pc' \in [Workers -> States]
           /\ pc[w] = from /\ pc'[w] = to
           /\ \A u \in Workers : u # w => pc'[u] = pc[u]
BY DEF Goto, TypeInv, TypeOK, States

\* A test of the result, and the setting of it, keep the types.
LEMMA GateType ==
    ASSUME TypeInv, NEW w \in Workers, NEW from, NEW go, NEW skip, Gate(w, from, go, skip),
           from # "receive", {go, skip} \subseteq States \ {"receive", "run", "run_get", "answer", "result"}
    PROVE  TypeInv'
<1>1. pc' \in [Workers -> States]
    BY DEF Gate, Goto, TypeInv, TypeOK, States
<1>2. WorkerInv(w)' /\ \A u \in Workers : u # w => pc'[u] = pc[u]
    <2>1. \/ Goto(w, from, go) /\ Locals
          \/ Goto(w, from, skip) /\ Locals
        BY DEF Gate
    <2>2. go \in States \ {"receive", "run", "run_get", "answer", "result"} /\ go \in States
          /\ skip \in States \ {"receive", "run", "run_get", "answer", "result"} /\ skip \in States
        OBVIOUS
    <2>3. /\ pc[w] = from /\ pc'[w] \in {go, skip} /\ message' = message
          /\ \A u \in Workers : u # w => pc'[u] = pc[u]
        BY <2>1, <2>2, GotoType DEF Locals
    <2>4. message[w] \in Requests
        BY <2>3 DEF TypeInv, WorkerInv
    <2> QED
        BY <2>2, <2>3, <2>4 DEF WorkerInv
<1> QED
    BY ZenonT(60), <1>1, <1>2, OthersKnow
       DEF Gate, Locals, Outside, request_Ctx, respond_Ctx, TypeInv, TypeOK, States

LEMMA SetResultType ==
    ASSUME TypeInv, NEW w \in Workers, NEW from, NEW code, NEW to, Set_Result(w, from, code, to),
           from # "receive", code \in Results, to \in States \ {"receive", "run", "run_get", "answer", "result"}
    PROVE  TypeInv'
<1>1. pc' \in [Workers -> States] /\ result' \in Results
    BY DEF Set_Result, Goto, TypeInv, TypeOK, States
<1>2. WorkerInv(w)' /\ \A u \in Workers : u # w => pc'[u] = pc[u]
    BY DEF Set_Result, Goto, TypeInv, TypeOK, WorkerInv, Locals
<1> QED
    BY <1>1, <1>2, OthersKnow
       DEF Set_Result, Locals, Outside, request_Ctx, TypeInv, TypeOK, States, Results

\* Each statement of a worker keeps the types (handler.c:42-417).
LEMMA ServeType == ASSUME TypeInv, NEW w \in Workers, Serve(w) PROVE TypeInv'
<1>s. {"receive"} \cup Parsing \cup Answering \cup Resetting = States
    BY DEF States
<1> USE DEF Results
<1>1. CASE Request_Type_Analyzer(w)
    BY <1>1, SetResultType DEF Request_Type_Analyzer, States, Parsing
<1>2. CASE Request_Parser(w)
    BY <1>2, GateType DEF Request_Parser, States, Parsing, Answering
<1>3. CASE Check_datarec(w)
    <2>1. pc[w] = "head"
        BY <1>3 DEF Check_datarec, Set_Result, Goto
    <2>2. message[w].head \in {"datarec", "other", "none"}
        BY <2>1, RequestFields DEF TypeInv, WorkerInv
    <2> QED
        BY <1>3, <2>2, SetResultType DEF Check_datarec, States, Parsing
<1>4. CASE Check_Action(w)
    <2>1. CASE Gate(w, "may_action", "action", "may_command")
        BY <2>1, GateType DEF States, Parsing
    <2>2. CASE Set_Result(w, "action", "UNKNOWN_ACTION", "may_command")
        BY <2>2, SetResultType DEF States, Parsing
    <2>3. CASE Set_Result(w, "action_ok", "OK", "may_command")
        BY <2>3, SetResultType DEF States, Parsing
    <2>4. ASSUME Goto(w, "action", "action_ok"), message[w].action # "none",
                 action' = message[w].action,
                 UNCHANGED <<command_ID, param, param_Num, respond_Ctx>>, Locals, Outside
          PROVE  TypeInv'
        <3>1. /\ pc' \in [Workers -> States] /\ pc[w] = "action" /\ pc'[w] = "action_ok"
              /\ \A u \in Workers : u # w => pc'[u] = pc[u]
            BY <2>4, GotoType DEF States, Parsing
        <3>2. message[w] \in Requests
            BY <3>1 DEF TypeInv, WorkerInv
        <3>3. action' \in Actions
            BY <2>4, <3>2, RequestFields
        <3>4. WorkerInv(w)'
            BY <2>4, <3>1, <3>2 DEF WorkerInv, Locals
        <3> QED
            BY ZenonT(60), <2>4, <3>1, <3>3, <3>4, <1>s, OthersKnow
               DEF Locals, Outside, respond_Ctx, TypeInv, TypeOK
    <2> QED
        BY <1>4, <2>1, <2>2, <2>3, <2>4 DEF Check_Action
<1>5. CASE Chek_Command(w)
    <2>1. CASE Gate(w, "may_command", "match", "may_param")
        BY <2>1, GateType DEF States, Parsing
    <2>2. CASE \/ Set_Result(w, "match", "UNKNOWN_COMMAND", "may_param")
               \/ Set_Result(w, "command_bad", "UNKNOWN_COMMAND", "may_param")
               \/ Set_Result(w, "command_ok", "OK", "may_param")
        BY <2>2, SetResultType DEF States, Parsing
    <2>3. ASSUME Goto(w, "match", "set_command"),
                 command_ID' = Array_ID_Matcher(message[w].command),
                 UNCHANGED <<action, param, param_Num, respond_Ctx>>, Locals, Outside
          PROVE  TypeInv'
        <3>1. /\ pc' \in [Workers -> States] /\ pc[w] = "match" /\ pc'[w] = "set_command"
              /\ \A u \in Workers : u # w => pc'[u] = pc[u]
            BY <2>3, GotoType DEF States, Parsing
        <3>2. command_ID' \in DOMAIN Commands \cup {NO_COMMAND, OVERWRITTEN}
            BY <2>3, Matcher, CommandTable DEF NO_COMMAND
        <3>3. WorkerInv(w)'
            BY <2>3, <3>1 DEF WorkerInv, Locals, TypeInv
        <3> QED
            BY ZenonT(60), <2>3, <3>1, <3>2, <3>3, <1>s, OthersKnow
               DEF Locals, Outside, respond_Ctx, TypeInv, TypeOK
    <2>5. CASE Set_Command(w)
        <3>1. /\ pc' \in [Workers -> States] /\ pc[w] = "set_command" /\ pc'[w] = "check_match"
              /\ \A u \in Workers : u # w => pc'[u] = pc[u]
            BY <2>5, GotoType DEF Set_Command, States, Parsing
        <3>2. command_ID' \in DOMAIN Commands \cup {NO_COMMAND, OVERWRITTEN}
            <4>1. command_ID' \in {1, OVERWRITTEN, command_ID}
                BY <2>5 DEF Set_Command, Overwritten
            <4>2. command_ID \in DOMAIN Commands \cup {NO_COMMAND, OVERWRITTEN}
                BY DEF TypeInv, TypeOK
            <4> QED
                BY <4>1, <4>2, CommandTable
        <3>3. WorkerInv(w)'
            BY <2>5, <3>1 DEF Set_Command, WorkerInv, Locals, TypeInv
        <3>4. UNCHANGED <<action, param, param_Num, respond_Ctx>> /\ Locals /\ Outside
            BY <2>5 DEF Set_Command
        <3> QED
            BY ZenonT(60), <3>1, <3>2, <3>3, <3>4, <1>s, OthersKnow
               DEF Locals, Outside, respond_Ctx, TypeInv, TypeOK
    <2>4. CASE Check_Match(w)
        <3>1. /\ pc' \in [Workers -> States] /\ pc[w] = "check_match"
              /\ pc'[w] \in {"command_bad", "command_ok"}
              /\ \A u \in Workers : u # w => pc'[u] = pc[u]
            BY <2>4, GotoType DEF Check_Match, States, Parsing
        <3>2. WorkerInv(w)'
            BY <2>4, <3>1 DEF Check_Match, WorkerInv, Locals, TypeInv
        <3> QED
            BY ZenonT(60), <2>4, <3>1, <3>2, <1>s, OthersKnow
               DEF Check_Match, Locals, Outside, request_Ctx, respond_Ctx, TypeInv, TypeOK
    <2> QED
        BY <1>5, <2>1, <2>2, <2>3, <2>4, <2>5 DEF Chek_Command
<1>6. CASE Check_Param(w)
    <2>1. CASE Gate(w, "may_param", "param", "may_call")
        BY <2>1, GateType DEF States, Parsing, Answering
    <2>2. CASE Set_Result(w, "param_ok", "OK", "may_call")
        BY <2>2, SetResultType DEF States, Parsing, Answering
    <2>3. ASSUME Goto(w, "param_num", "param_ok"), param_Num' = index[w] - 1,
                 UNCHANGED <<action, command_ID, param, respond_Ctx>>, Locals, Outside
          PROVE  TypeInv'
        <3>1. /\ pc' \in [Workers -> States] /\ pc[w] = "param_num" /\ pc'[w] = "param_ok"
              /\ \A u \in Workers : u # w => pc'[u] = pc[u]
            BY <2>3, GotoType DEF States, Parsing
        <3>2. index[w] \in 1 .. PARAM_NUM + 1
            BY DEF TypeInv, TypeOK
        <3>3. param_Num' \in 0 .. PARAM_NUM
            BY <2>3, <3>2, ParamNumAssumption
        <3>4. WorkerInv(w)'
            BY <2>3, <3>1 DEF WorkerInv, Locals, TypeInv
        <3> QED
            BY ZenonT(60), <2>3, <3>1, <3>3, <3>4, <1>s, OthersKnow
               DEF Locals, Outside, respond_Ctx, TypeInv, TypeOK
    <2>4. CASE Check_Param_Value(w)
        <3> DEFINE params == message[w].params
                   i == index[w]
        <3>1. pc[w] = "param"
            BY <2>4 DEF Check_Param_Value, Set_Result, Goto
        <3>2. message[w] \in Requests /\ params \in Seq(Params) /\ Len(params) \in 0 .. PARAM_NUM
            BY <3>1, RequestFields DEF TypeInv, WorkerInv
        <3>3. i \in 1 .. PARAM_NUM + 1
            BY DEF TypeInv, TypeOK
        <3>4. CASE Goto(w, "param", "param_num") /\ UNCHANGED <<request_Ctx, respond_Ctx>>
                     /\ Locals /\ Outside
            <4>1. /\ pc' \in [Workers -> States] /\ pc'[w] = "param_num"
                  /\ \A u \in Workers : u # w => pc'[u] = pc[u]
                BY <3>4, GotoType DEF States, Parsing
            <4>2. WorkerInv(w)'
                BY <3>4, <4>1, <3>2 DEF WorkerInv, Locals
            <4> QED
                BY ZenonT(60), <3>4, <4>1, <4>2, <1>s, OthersKnow
                   DEF Locals, Outside, request_Ctx, respond_Ctx, TypeInv, TypeOK
        <3>5. CASE Set_Result(w, "param", "UNKNOWN_PARAM", "may_call")
            BY <3>5, SetResultType DEF States, Parsing, Answering
        <3>6. ASSUME Goto(w, "param", "param"), i <= Len(params), params[i] # "not_param",
                     index' = [index EXCEPT ![w] = i + 1],
                     IF params[i] # "long"
                     THEN param' = [param EXCEPT ![i] = params[i]] /\ UNCHANGED result
                     ELSE result' = "PARAM_LEN_TOO_LONG" /\ UNCHANGED param,
                     UNCHANGED <<action, command_ID, param_Num, respond, message, local>>, Outside
              PROVE  TypeInv'
            <4>1. /\ pc' \in [Workers -> States] /\ pc'[w] = "param"
                  /\ \A u \in Workers : u # w => pc'[u] = pc[u]
                BY <3>6, GotoType DEF States, Parsing
            <4>2. i + 1 \in 1 .. PARAM_NUM + 1
                BY <3>6, <3>2, <3>3, ParamNumAssumption
            <4>3. index' \in [Workers -> 1 .. PARAM_NUM + 1]
                BY <4>2, <3>6 DEF TypeInv, TypeOK
            <4>4. params[i] \in Params
                BY <3>2, <3>3, <3>6
            <4>5. param' \in [1 .. PARAM_NUM + 1 -> Params \cup {EMPTY}] /\ result' \in Results
                BY <4>4, <3>6 DEF TypeInv, TypeOK
            <4>6. WorkerInv(w)'
                BY <3>6, <4>1, <3>2 DEF WorkerInv
            <4> QED
                BY <3>6, <4>1, <4>3, <4>5, <4>6, <1>s, OthersKnow DEF Outside, TypeInv, TypeOK
        <3> QED
            BY <2>4, <3>4, <3>5, <3>6 DEF Check_Param_Value
    <2> QED
        BY <1>6, <2>1, <2>2, <2>3, <2>4 DEF Check_Param
<1>7. CASE Request_Function_Caller(w)
    <2>1. CASE Gate(w, "may_call", "call", "splice")
        BY <2>1, GateType DEF States, Answering
    <2>2. CASE crashed' = TRUE /\ UNCHANGED <<request_Ctx, respond_Ctx, pc, reply, contexts, main, scanning>>
                 /\ Locals
        BY <2>2, StillType DEF TypeInv, TypeOK, Locals
    <2>3. ASSUME command_ID \in DOMAIN Commands, Goto(w, "call", "run"),
                 local' = [local EXCEPT ![w] = [command |-> Commands[command_ID],
                                                action |-> "neither"]],
                 UNCHANGED <<request_Ctx, respond_Ctx, message, index>>, Outside
          PROVE  TypeInv'
        <3>1. /\ pc' \in [Workers -> States] /\ pc[w] = "call" /\ pc'[w] = "run"
              /\ \A u \in Workers : u # w => pc'[u] = pc[u]
            BY <2>3, GotoType DEF States, Answering
        <3>2. Commands[command_ID] \in Names
            BY <2>3, CommandTable
        <3>3. [command |-> Commands[command_ID], action |-> "neither"]
                  \in [command : Names, action : Acts]
            BY <3>2 DEF Acts
        <3>4. /\ local' \in [Workers -> LocalType]
              /\ local'[w] \in [command : Names, action : Acts]
            BY <3>3, <2>3 DEF TypeInv, LocalType
        <3>5. WorkerInv(w)'
            BY <2>3, <3>1, <3>4 DEF WorkerInv, TypeInv
        <3> QED
            BY ZenonT(60), <2>3, <3>1, <3>4, <3>5, <1>s, OthersKnow
               DEF Outside, request_Ctx, respond_Ctx, TypeInv, TypeOK
    <2> QED
        BY <1>7, <2>1, <2>2, <2>3 DEF Request_Function_Caller
<1>8. CASE Handler_Reads(w)
    <2>1. PICK from \in {"run", "run_get"}, to \in {"run_get", "answer"} :
              /\ Goto(w, from, to)
              /\ local' = local \/ \E act \in {"get", "set"} :
                                      local' = [local EXCEPT ![w] = [@ EXCEPT !.action = act]]
              /\ UNCHANGED <<request_Ctx, respond_Ctx, message, index>> /\ Outside
        <3>1. CASE /\ Goto(w, "run", "answer")
                   /\ UNCHANGED <<request_Ctx, respond_Ctx>> /\ Locals /\ Outside
            BY <3>1 DEF Locals
        <3>2. CASE Compare_Action(w, "run", "set", "run_get")
            BY <3>2 DEF Compare_Action
        <3>3. CASE Compare_Action(w, "run_get", "get", "answer")
            BY <3>3 DEF Compare_Action
        <3> QED
            BY <1>8, <3>1, <3>2, <3>3 DEF Handler_Reads
    <2>2. /\ pc' \in [Workers -> States] /\ pc[w] = from /\ pc'[w] = to
          /\ \A u \in Workers : u # w => pc'[u] = pc[u]
        BY <2>1, GotoType DEF States, Answering
    <2>3. local[w] \in [command : Names, action : Acts] /\ local \in [Workers -> LocalType]
        BY <2>2 DEF TypeInv, WorkerInv
    <2>4. /\ local' \in [Workers -> LocalType]
          /\ local'[w] \in [command : Names, action : Acts]
          /\ \A u \in Workers : u # w => local'[u] = local[u]
        <3>1. CASE local' = local
            BY <2>3, <3>1
        <3>2. ASSUME NEW act \in {"get", "set"},
                     local' = [local EXCEPT ![w] = [@ EXCEPT !.action = act]]
              PROVE  <2>4!1 /\ <2>4!2 /\ <2>4!3
            <4>1. [local[w] EXCEPT !.action = act] \in [command : Names, action : Acts]
                BY <2>3 DEF Acts
            <4>2. [local[w] EXCEPT !.action = act] \in LocalType
                BY <4>1 DEF LocalType
            <4> QED
                BY <2>3, <3>2, <4>1, <4>2
        <3> QED
            BY <2>1, <3>1, <3>2
    <2>5. WorkerInv(w)'
        BY <2>1, <2>2, <2>4 DEF WorkerInv, TypeInv
    <2> QED
        BY ZenonT(60), <2>1, <2>2, <2>4, <2>5, <1>s, OthersKnow
           DEF Outside, request_Ctx, respond_Ctx, TypeInv, TypeOK
<1>9. CASE Handler_Answers(w)
    <2> DEFINE read == local[w]
               given == Get_Params
    <2>0. CASE Function_Dies(w, read, given)
        BY <2>0, StillType DEF Function_Dies, TypeInv, TypeOK, Locals
    <2>a. CASE Function_Runs(w, read, given)
        <3>1. /\ pc' \in [Workers -> States] /\ pc[w] = "answer" /\ pc'[w] = "result"
              /\ \A u \in Workers : u # w => pc'[u] = pc[u]
            BY <2>a, GotoType DEF Function_Runs, States, Answering
        <3>2. PICK code \in Codes : local' = [local EXCEPT ![w] = [code |-> code]]
            BY <2>a DEF Function_Runs, Outcomes, Codes
        <3>3. [code |-> code] \in [code : Codes]
            OBVIOUS
        <3>4. local' \in [Workers -> LocalType] /\ local'[w] \in [code : Codes]
            BY <3>2, <3>3 DEF TypeInv, LocalType
        <3>5. WorkerInv(w)'
            BY <2>a, <3>1, <3>4 DEF Function_Runs, WorkerInv, TypeInv
        <3>6. scanning' \in BOOLEAN
            BY <2>a, Zenon DEF Function_Runs, TypeInv, TypeOK
        <3>7. UNCHANGED <<request_Ctx, result, message, index, reply, contexts, main, crashed>>
            BY <2>a DEF Function_Runs
        <3> QED
            BY ZenonT(60), <3>1, <3>2, <3>4, <3>5, <3>6, <3>7, <1>s, OthersKnow
               DEF request_Ctx, TypeInv, TypeOK
    <2> QED
        BY <1>9, <2>0, <2>a DEF Handler_Answers
<1>10. CASE Function_Returns(w)
    <2>1. pc[w] = "result"
        BY <1>10 DEF Function_Returns, Set_Result, Goto
    <2>2. local[w].code \in Codes
        BY <2>1 DEF TypeInv, WorkerInv
    <2> QED
        BY <1>10, <2>2, SetResultType DEF Function_Returns, States, Answering, Codes
<1>11. CASE Error_Info_Splicer(w)
    <2>1. /\ pc' \in [Workers -> States] /\ pc[w] = "splice" /\ pc'[w] = "send"
          /\ \A u \in Workers : u # w => pc'[u] = pc[u]
        BY <1>11, GotoType DEF Error_Info_Splicer, States, Answering
    <2>2. WorkerInv(w)'
        BY <1>11, <2>1 DEF Error_Info_Splicer, WorkerInv, Locals, TypeInv
    <2> QED
        BY ZenonT(60), <1>11, <2>1, <2>2, <1>s, OthersKnow
           DEF Error_Info_Splicer, Locals, Outside, request_Ctx, TypeInv, TypeOK
<1>12. CASE Error_Info_Sender(w)
    <2>1. /\ pc' \in [Workers -> States] /\ pc[w] = "send" /\ pc'[w] = "reset_action"
          /\ \A u \in Workers : u # w => pc'[u] = pc[u]
        BY <1>12, GotoType DEF Error_Info_Sender, States, Answering, Resetting
    <2>2. local' \in [Workers -> LocalType] /\ \A u \in Workers : u # w => local'[u] = local[u]
        BY <1>12 DEF Error_Info_Sender, LocalType, TypeInv
    <2>3. index' \in [Workers -> 1 .. PARAM_NUM + 1]
        <3>1. index' = [index EXCEPT ![w] = 1]
            BY <1>12 DEF Error_Info_Sender
        <3>2. 1 \in 1 .. PARAM_NUM + 1
            BY ParamNumAssumption
        <3> QED
            BY <3>1, <3>2 DEF TypeInv, TypeOK
    <2>4. WorkerInv(w)'
        BY <1>12, <2>1 DEF Error_Info_Sender, WorkerInv, TypeInv
    <2> QED
        BY ZenonT(60), <1>12, <2>1, <2>2, <2>3, <2>4, <1>s, OthersKnow
           DEF Error_Info_Sender, request_Ctx, respond_Ctx, TypeInv, TypeOK
<1>13. CASE Server_Context_Reset(w)
    <2>1. /\ pc' \in [Workers -> States] /\ pc[w] \in Resetting
          /\ pc'[w] \in {"receive"} \cup Resetting
          /\ pc'[w] # "receive" => message'[w] = message[w]
          /\ \A u \in Workers : u # w => pc'[u] = pc[u]
        <3>1. PICK from \in Resetting, to \in {"receive"} \cup Resetting : Goto(w, from, to)
            BY <1>13 DEF Server_Context_Reset, Reset_Request, Resetting
        <3>2. message' = message \/ Goto(w, "reset_result", "receive")
            BY <1>13 DEF Server_Context_Reset, Reset_Request, Locals
        <3>3. from \in States /\ to \in States
            BY DEF States
        <3> QED
            BY <3>1, <3>2, <3>3, GotoType DEF States
    <2>2. WorkerInv(w)'
        BY <2>1 DEF WorkerInv, TypeInv, Resetting
    <2>3. NoParams \in [1 .. PARAM_NUM + 1 -> Params \cup {EMPTY}] /\ 0 \in 0 .. PARAM_NUM
        BY ParamNumAssumption DEF NoParams
    <2>4. 1 \in DOMAIN Commands \cup {NO_COMMAND, OVERWRITTEN}
        BY CommandTable
    <2>5. CASE Reset_Request(w)
        <3>1. /\ UNCHANGED <<respond_Ctx, message, index, local>> /\ Outside
              /\ action' \in {"", action} /\ command_ID' \in {1, command_ID}
              /\ param' \in {NoParams, param} /\ param_Num' \in {0, param_Num}
            BY <2>5 DEF Reset_Request, Locals
        <3>2. \A u \in Workers : WorkerInv(u)'
            BY <2>1, <2>2, <3>1, OthersKnow
        <3>3. action' = "" \/ action' = action
            BY <3>1
        <3>4. /\ command_ID' \in DOMAIN Commands \cup {NO_COMMAND, OVERWRITTEN} /\ param_Num' \in 0 .. PARAM_NUM
              /\ param' \in [1 .. PARAM_NUM + 1 -> Params \cup {EMPTY}]
            BY <2>3, <2>4, <3>1 DEF TypeInv, TypeOK
        <3> QED
            <4>1. /\ UNCHANGED <<result, message, index, local, contexts, main, scanning, crashed>>
                  /\ pc' \in [Workers -> {"receive"} \cup Parsing \cup Answering \cup Resetting]
                BY <2>1, <3>1, <1>s DEF Outside, respond_Ctx
            <4>2. action' \in Actions \cup {""}
                BY <3>3 DEF TypeInv, TypeOK
            <4>3. local' \in [Workers -> LocalType]
                BY <4>1 DEF TypeInv
            <4> QED
                BY <3>2, <3>4, <4>1, <4>2, <4>3 DEF TypeInv, TypeOK
    <2>6. CASE /\ Goto(w, "reset_respond", "reset_result")
               /\ UNCHANGED <<request_Ctx, result>> /\ Locals /\ Outside
        BY ZenonT(60), <2>1, <2>2, <2>6, <1>s, OthersKnow DEF Locals, Outside, request_Ctx, TypeInv, TypeOK
    <2>7. CASE /\ Goto(w, "reset_result", "receive")
               /\ result' = "OK"
               /\ message' = [message EXCEPT ![w] = NULL]
               /\ UNCHANGED <<request_Ctx, respond, index, local, contexts, main, scanning, crashed>>
        <3>1. /\ message' \in [Workers -> Requests \cup {NULL}]
              /\ \A u \in Workers : u # w => message'[u] = message[u]
            BY <2>7 DEF TypeInv, TypeOK
        <3> QED
            BY <2>1, <2>2, <2>7, <3>1, <1>s, OthersKnow DEF request_Ctx, TypeInv, TypeOK
    <2> QED
        BY <1>13, <2>5, <2>6, <2>7 DEF Server_Context_Reset
<1> QED
    BY <1>1, <1>2, <1>3, <1>4, <1>5, <1>6, <1>7, <1>8, <1>9, <1>10, <1>11, <1>12, <1>13
       DEF Serve

\* The threads around the workers, and a message that arrives, keep the types.
LEMMA AroundType ==
    ASSUME TypeInv, (\E w \in Workers : Receive(w)) \/ Scanner_Reports \/ Main
    PROVE  TypeInv'
<1>1. ASSUME NEW w \in Workers, Receive(w) PROVE TypeInv'
    <2>1. /\ pc' \in [Workers -> States] /\ pc[w] = "receive" /\ pc'[w] = "type"
          /\ \A u \in Workers : u # w => pc'[u] = pc[u]
        BY <1>1, GotoType DEF Receive, States, Parsing
    <2>2. PICK r \in Requests : message' = [message EXCEPT ![w] = r]
        BY <1>1 DEF Receive
    <2>3. /\ message' \in [Workers -> Requests \cup {NULL}] /\ message'[w] \in Requests
          /\ \A u \in Workers : u # w => message'[u] = message[u]
        BY <2>2 DEF TypeInv, TypeOK
    <2>4. WorkerInv(w)'
        BY <2>1, <2>3 DEF WorkerInv
    <2> QED
        BY <1>1, <2>1, <2>3, <2>4, OthersKnow
           DEF Receive, Outside, request_Ctx, respond_Ctx, TypeInv, TypeOK, States
<1>2. CASE Scanner_Reports
    <2>1. crashed' \in BOOLEAN /\ scanning' \in BOOLEAN
        BY <1>2, Zenon DEF Scanner_Reports, TypeInv, TypeOK
    <2> QED
        BY <1>2, <2>1 DEF Scanner_Reports, Locals, request_Ctx, TypeInv, TypeOK, WorkerInv
<1>3. CASE Main
    <2>1. /\ UNCHANGED <<request_Ctx, respond_Ctx, pc, reply, scanning, crashed>>
          /\ UNCHANGED <<message, index, local>>
        BY <1>3 DEF Main, My_Data_Context_Init, Civetweb_Init, Civetweb_Set_Handler, Main_Polls,
                    Civetweb_Stop, My_Data_Context_Free, Main_Calls, Locals
    <2>2. contexts' \subseteq ToSet(Contexts)
        BY <1>3 DEF Main, My_Data_Context_Init, Civetweb_Init, Civetweb_Set_Handler, Main_Polls,
                    Civetweb_Stop, My_Data_Context_Free, TypeInv, TypeOK
    <2>3. main' \in {"My_Data_Context_Init", "Civetweb_Init", "Civetweb_Set_Handler", "poll",
                     "poll without a server", "Civetweb_Stop", "My_Data_Context_Free", "gone"}
        BY <1>3 DEF Main, My_Data_Context_Init, Civetweb_Init, Civetweb_Set_Handler, Main_Polls,
                    Civetweb_Stop, My_Data_Context_Free, Main_Calls
    <2> QED
        BY <2>1, <2>2, <2>3 DEF request_Ctx, respond_Ctx, TypeInv, TypeOK, WorkerInv
<1> QED
    BY <1>1, <1>2, <1>3

LEMMA StepType == ASSUME TypeInv, [Next]_vars PROVE TypeInv'
<1>1. CASE UNCHANGED vars
    BY <1>1, StillType DEF vars, TypeInv, TypeOK
<1> QED
    BY <1>1, ServeType, AroundType DEF Next

\* Whatever requests come and in whatever order the workers take their steps, what they share
\* and what each of them knows is of the type the code gives it (common.c:274-441).
THEOREM TypeCorrect == Spec => []TypeOK
<1>1. Spec => []TypeInv
    BY InitType, StepType, PTL DEF Spec
<1>2. TypeInv => TypeOK
    BY DEF TypeInv
<1> QED
    BY <1>1, <1>2, PTL

----------------------------------------------------------------------------
(* The life of the contexts *)

\* Where main is says which contexts there are and whether workers may be at work.
LifeInv ==
    /\ main \in {"Civetweb_Init", "Civetweb_Set_Handler", "poll", "poll without a server",
                 "Civetweb_Stop"} => contexts = ToSet(Contexts)
    /\ main \notin {"poll", "Civetweb_Stop"} => \A w \in Workers : pc[w] = "receive"

\* What a worker's statement leaves alone.
Frame(w) ==
    /\ UNCHANGED <<contexts, main>>
    /\ pc[w] # "receive"
    /\ \A u \in Workers : u # w => pc'[u] = pc[u] /\ message'[u] = message[u]

LEMMA GotoFrame ==
    ASSUME TypeInv, NEW w \in Workers, NEW from, NEW to, from # "receive", Goto(w, from, to),
           UNCHANGED <<contexts, main>>,
           message' = message \/ message' = [message EXCEPT ![w] = NULL]
    PROVE  Frame(w)
BY DEF Goto, TypeInv, TypeOK, Frame

LEMMA GateFrame ==
    ASSUME TypeInv, NEW w \in Workers, NEW from, NEW go, NEW skip, from # "receive",
           Gate(w, from, go, skip)
    PROVE  Frame(w)
BY GotoFrame DEF Gate, Locals, Outside

LEMMA SetResultFrame ==
    ASSUME TypeInv, NEW w \in Workers, NEW from, NEW code, NEW to, from # "receive",
           Set_Result(w, from, code, to)
    PROVE  Frame(w)
BY GotoFrame DEF Set_Result, Locals, Outside

LEMMA ServeFrame == ASSUME TypeInv, NEW w \in Workers, Serve(w) PROVE Frame(w)
<1> USE GotoFrame, GateFrame, SetResultFrame
<1>4. CASE Request_Type_Analyzer(w) \/ Request_Parser(w) \/ Check_datarec(w) \/ Function_Returns(w)
    BY <1>4 DEF Request_Type_Analyzer, Request_Parser, Check_datarec, Function_Returns
<1>5. CASE Check_Action(w)
    BY <1>5 DEF Check_Action, Locals, Outside
<1>6. CASE Chek_Command(w)
    BY <1>6 DEF Chek_Command, Set_Command, Check_Match, Locals, Outside
<1>7. CASE Check_Param(w)
    BY <1>7 DEF Check_Param, Check_Param_Value, Locals, Outside
<1>8. CASE Request_Function_Caller(w)
    <2>1. CASE pc[w] = "call" /\ UNCHANGED <<pc, contexts, main>> /\ Locals
        BY <2>1 DEF Frame, Locals
    <2> QED
        BY <1>8, <2>1 DEF Request_Function_Caller, Locals, Outside
<1>9. CASE Handler_Reads(w) \/ Error_Info_Splicer(w) \/ Error_Info_Sender(w)
    BY <1>9 DEF Handler_Reads, Compare_Action, Error_Info_Splicer, Error_Info_Sender, Locals,
                Outside
<1>11. CASE Handler_Answers(w)
    <2>1. CASE pc[w] = "answer" /\ UNCHANGED <<pc, contexts, main>> /\ Locals
        BY <2>1 DEF Frame, Locals
    <2>2. CASE Goto(w, "answer", "result") /\ UNCHANGED <<message, contexts, main>>
        BY <2>2
    <2> QED
        BY <1>11, <2>1, <2>2 DEF Handler_Answers, Function_Runs, Function_Dies
<1>10. CASE Server_Context_Reset(w)
    BY <1>10 DEF Server_Context_Reset, Reset_Request, Locals, Outside
<1> QED
    BY <1>4, <1>5, <1>6, <1>7, <1>8, <1>9, <1>10, <1>11 DEF Serve

LEMMA StepLife == ASSUME TypeInv, LifeInv, [Next]_vars PROVE LifeInv'
<1>1. ASSUME NEW w \in Workers, Serve(w) PROVE LifeInv'
    BY <1>1, ServeFrame DEF Frame, LifeInv
<1>2. ASSUME NEW w \in Workers, Receive(w) PROVE LifeInv'
    BY <1>2 DEF Receive, Outside, LifeInv
<1>3. CASE Scanner_Reports \/ UNCHANGED vars
    BY <1>3 DEF Scanner_Reports, vars, LifeInv
<1>4. CASE Main
    BY <1>4 DEF Main, My_Data_Context_Init, Civetweb_Init, Civetweb_Set_Handler, Main_Polls,
                Civetweb_Stop, My_Data_Context_Free, Main_Calls, LifeInv
<1> QED
    BY <1>1, <1>2, <1>3, <1>4 DEF Next

\* Every request finds the contexts complete, from the first that main lets in to the last that
\* mg_stop waits for (datarec.c:48-60).
THEOREM AlwaysServed == Spec => []ServedFromContexts
<1>1. Init => LifeInv
    BY DEF Init, LifeInv
<1>2. Spec => [](TypeInv /\ LifeInv)
    BY <1>1, InitType, StepType, StepLife, PTL DEF Spec
<1>3. LifeInv => ServedFromContexts
    BY DEF LifeInv, ServedFromContexts
<1> QED
    BY <1>2, <1>3, PTL

----------------------------------------------------------------------------
(* What is left in the shared contexts *)

\* From the statement after a worker's first write of a shared field to its reset of the field.
Commanding == {"set_command", "check_match", "command_bad", "command_ok", "may_param"}
ParamPart == {"param", "param_num", "param_ok"}

HoldsAction == {"action_ok", "may_command", "match"} \cup Commanding \cup ParamPart
                 \cup Answering \cup {"reset_action"}
HoldsID == Commanding \cup ParamPart \cup Answering \cup {"reset_action", "reset_ID"}
HoldsParam == ParamPart \cup Answering \cup {"reset_action", "reset_ID", "reset_param"}
HoldsNum == {"param_ok"} \cup Answering \cup {"reset_action", "reset_ID", "reset_param", "reset_num"}
HoldsRespond == {"result", "splice", "send"} \cup (Resetting \ {"reset_result"})
HoldsResult == States \ {"receive", "type"}

\* What is in the shared contexts was put there by a worker that will take it away.
TidyInv ==
    /\ action = "" \/ \E w \in Workers : pc[w] \in HoldsAction
    /\ command_ID = 1 \/ \E w \in Workers : pc[w] \in HoldsID
    /\ param = NoParams \/ \E w \in Workers : pc[w] \in HoldsParam
    /\ param_Num = 0 \/ \E w \in Workers : pc[w] \in HoldsNum
    /\ respond \in {<<>>, << <<"report">> >>} \/ \E w \in Workers : pc[w] \in HoldsRespond
    /\ result = "OK" \/ \E w \in Workers : pc[w] \in HoldsResult

\* An action that asks to exit is that of a request in service.
ExitInv ==
    action = "exit" => \E w \in Workers : /\ pc[w] \in HoldsAction
                                         /\ message[w] # NULL /\ message[w].action = "exit"

\* What one statement of w does to each shared field.
Writes(w) ==
    /\ \/ action' = action
       \/ pc[w] = "action" /\ pc'[w] \in HoldsAction /\ action' = message[w].action
       \/ pc[w] = "reset_action" /\ action' = ""
    /\ command_ID' = command_ID \/ pc'[w] \in HoldsID \/ command_ID' = 1
    /\ param' = param \/ pc'[w] \in HoldsParam \/ param' = NoParams
    /\ param_Num' = param_Num \/ pc'[w] \in HoldsNum \/ param_Num' = 0
    /\ respond' = respond \/ pc'[w] \in HoldsRespond \/ respond' = <<>>
    /\ result' = result \/ pc'[w] \in HoldsResult \/ result' = "OK"

\* A worker that has written a field has it until the statement that resets the field.
Keeps(w) ==
    /\ pc[w] \in HoldsAction => pc'[w] \in HoldsAction \/ action' = ""
    /\ pc[w] \in HoldsID => pc'[w] \in HoldsID \/ command_ID' = 1
    /\ pc[w] \in HoldsParam => pc'[w] \in HoldsParam \/ param' = NoParams
    /\ pc[w] \in HoldsNum => pc'[w] \in HoldsNum \/ param_Num' = 0
    /\ pc[w] \in HoldsRespond => pc'[w] \in HoldsRespond \/ respond' = <<>>
    /\ pc[w] \in HoldsResult => pc'[w] \in HoldsResult \/ result' = "OK"
    /\ message'[w] = message[w] \/ pc[w] = "reset_result"

LEMMA ServeWrites ==
    ASSUME TypeInv, NEW w \in Workers, Serve(w) PROVE Writes(w) /\ Keeps(w)
<1>s. {"receive"} \cup Parsing \cup Answering \cup Resetting = States
    BY DEF States
<1>p. pc \in [Workers -> States]
    BY <1>s DEF TypeInv, TypeOK
<1> USE <1>p DEF Writes, Keeps, Goto, Locals, Outside, HoldsAction, HoldsID, HoldsParam, HoldsNum,
        HoldsRespond, HoldsResult, Commanding, ParamPart, Answering, Resetting, Parsing,
        States, request_Ctx, respond_Ctx
<1>1. CASE Request_Type_Analyzer(w)
    BY <1>1 DEF Request_Type_Analyzer, Set_Result
<1>2. CASE Request_Parser(w)
    BY <1>2 DEF Request_Parser, Gate
<1>3. CASE Check_datarec(w)
    BY <1>3 DEF Check_datarec, Set_Result
<1>4. CASE Check_Action(w)
    BY <1>4 DEF Check_Action, Set_Result, Gate
<1>5. CASE Chek_Command(w)
    BY <1>5 DEF Chek_Command, Set_Command, Check_Match, Set_Result, Gate
<1>6. CASE Check_Param(w)
    BY <1>6 DEF Check_Param, Check_Param_Value, Set_Result, Gate
<1>7. CASE Request_Function_Caller(w)
    BY <1>7 DEF Request_Function_Caller, Gate
<1>8. CASE Handler_Reads(w)
    BY <1>8 DEF Handler_Reads, Compare_Action
<1>9. CASE Handler_Answers(w)
    <2>1. CASE pc[w] = "answer" /\ UNCHANGED <<request_Ctx, respond_Ctx, pc>> /\ Locals
        BY <2>1
    <2>2. CASE Goto(w, "answer", "result") /\ UNCHANGED <<request_Ctx, result, message>>
        BY <2>2
    <2> QED
        BY <1>9, <2>1, <2>2 DEF Handler_Answers, Function_Runs, Function_Dies
<1>10. CASE Function_Returns(w)
    BY <1>10 DEF Function_Returns, Set_Result
<1>11. CASE Error_Info_Splicer(w)
    BY <1>11 DEF Error_Info_Splicer
<1>12. CASE Error_Info_Sender(w)
    BY <1>12 DEF Error_Info_Sender
<1>13. CASE Server_Context_Reset(w)
    BY <1>13 DEF Server_Context_Reset, Reset_Request
<1> QED
    BY <1>1, <1>2, <1>3, <1>4, <1>5, <1>6, <1>7, <1>8, <1>9, <1>10, <1>11, <1>12, <1>13
       DEF Serve

LEMMA StepTidy == ASSUME TypeInv, TidyInv, [Next]_vars PROVE TidyInv'
<1>1. ASSUME NEW w \in Workers, Serve(w) PROVE TidyInv'
    <2>1. Writes(w) /\ Keeps(w) /\ Frame(w)
        BY <1>1, ServeWrites, ServeFrame
    <2> QED
        BY ZenonT(60), <2>1 DEF Writes, Keeps, Frame, TidyInv
<1>2. ASSUME NEW w \in Workers, Receive(w) PROVE TidyInv'
    <2>1. /\ pc[w] = "receive" /\ \A u \in Workers : u # w => pc'[u] = pc[u]
        BY <1>2 DEF Receive, Goto, TypeInv, TypeOK
    <2>2. UNCHANGED <<request_Ctx, respond_Ctx>>
        BY <1>2 DEF Receive
    <2>3. "receive" \notin HoldsAction \cup HoldsID \cup HoldsParam \cup HoldsNum \cup HoldsRespond
                            \cup HoldsResult
        BY DEF HoldsAction, HoldsID, HoldsParam, HoldsNum, HoldsRespond, HoldsResult, Commanding,
               ParamPart, Answering, Resetting
    <2> QED
        BY <2>1, <2>2, <2>3 DEF TidyInv, request_Ctx, respond_Ctx
<1>3. CASE Scanner_Reports
    BY <1>3 DEF Scanner_Reports, TidyInv, request_Ctx
<1>4. CASE Main
    BY <1>4 DEF Main, My_Data_Context_Init, Civetweb_Init, Civetweb_Set_Handler, Main_Polls,
                Civetweb_Stop, My_Data_Context_Free, Main_Calls, TidyInv, request_Ctx, respond_Ctx
<1>5. CASE UNCHANGED vars
    BY <1>5 DEF vars, TidyInv, request_Ctx, respond_Ctx
<1> QED
    BY <1>1, <1>2, <1>3, <1>4, <1>5 DEF Next

\* However the requests of several workers were interleaved, the last of them to be done leaves
\* nothing for the next to inherit (handler.c:413-414, common.c:423-441).
THEOREM QuietServer == Spec => []QuietIsClean
<1>1. Init => TidyInv
    BY DEF Init, TidyInv
<1>2. Spec => [](TypeInv /\ TidyInv)
    BY <1>1, InitType, StepType, StepTidy, PTL DEF Spec
<1>3. TidyInv => QuietIsClean
    BY DEF TidyInv, QuietIsClean, HoldsAction, HoldsID, HoldsParam, HoldsNum, HoldsRespond,
           HoldsResult, Commanding, ParamPart, Answering, Resetting
<1> QED
    BY <1>2, <1>3, PTL

LEMMA StepExit == ASSUME TypeInv, ExitInv, [Next]_vars PROVE ExitInv'
<1>1. ASSUME NEW w \in Workers, Serve(w) PROVE ExitInv'
    <2>1. Writes(w) /\ Keeps(w) /\ Frame(w)
        BY <1>1, ServeWrites, ServeFrame
    <2>2. "reset_result" \notin HoldsAction
        BY DEF HoldsAction, Commanding, ParamPart, Answering
    <2>3. CASE action' = action
        BY <2>1, <2>2, <2>3 DEF Writes, Keeps, Frame, ExitInv
    <2>4. CASE pc[w] = "action" /\ pc'[w] \in HoldsAction /\ action' = message[w].action
        <3>1. message[w] \in Requests
            BY <2>4 DEF TypeInv, WorkerInv
        <3>2. message[w] # NULL
            BY <3>1, RequestsAssumption
        <3> QED
            BY <2>1, <2>4, <3>2 DEF Keeps, ExitInv
    <2> QED
        BY <2>1, <2>3, <2>4 DEF Writes, ExitInv
<1>2. ASSUME NEW w \in Workers, Receive(w) PROVE ExitInv'
    <2>1. /\ pc[w] = "receive"
          /\ \A u \in Workers : u # w => pc'[u] = pc[u] /\ message'[u] = message[u]
        BY <1>2 DEF Receive, Goto, TypeInv, TypeOK
    <2>2. action' = action
        BY <1>2 DEF Receive, request_Ctx
    <2>3. "receive" \notin HoldsAction
        BY DEF HoldsAction, Commanding, ParamPart, Answering
    <2> QED
        BY <2>1, <2>2, <2>3 DEF ExitInv
<1>3. CASE Scanner_Reports \/ UNCHANGED vars
    BY <1>3 DEF Scanner_Reports, Locals, ExitInv, request_Ctx, vars
<1>4. CASE Main
    BY <1>4 DEF Main, My_Data_Context_Init, Civetweb_Init, Civetweb_Set_Handler, Main_Polls,
                Civetweb_Stop, My_Data_Context_Free, Main_Calls, Locals, ExitInv, request_Ctx
<1> QED
    BY <1>1, <1>2, <1>3, <1>4 DEF Next

\* When main reads "exit" in the action that all workers parse into, one of them is serving a
\* request that says so (datarec.c:54).
THEOREM StopsForAClient == Spec => StopsOnExit
<1>1. Init => ExitInv
    BY DEF Init, ExitInv
<1>2. ASSUME TypeInv, ExitInv, [Next]_vars
      PROVE  [main' = "Civetweb_Stop"
                 => \E w \in Workers : message[w] # NULL /\ message[w].action = "exit"]_main
    <2>1. \A w \in Workers : Serve(w) \/ Receive(w) => UNCHANGED main
        BY <1>2, ServeFrame DEF Frame, Receive, Outside
    <2>2. Scanner_Reports \/ UNCHANGED vars => UNCHANGED main
        BY DEF Scanner_Reports, vars
    <2>3. ASSUME Main, main' = "Civetweb_Stop" PROVE action = "exit"
        BY <2>3 DEF Main, My_Data_Context_Init, Civetweb_Init, Civetweb_Set_Handler, Main_Polls,
                    Civetweb_Stop, My_Data_Context_Free, Main_Calls
    <2> QED
        BY <1>2, <2>1, <2>2, <2>3 DEF Next, ExitInv
<1>3. Spec => [](TypeInv /\ ExitInv)
    BY <1>1, InitType, StepType, StepExit, PTL DEF Spec
<1> QED
    BY <1>2, <1>3, PTL DEF Spec, StopsOnExit

----------------------------------------------------------------------------
(* The answers of a lone worker *)

\* How far a request goes before something is found wrong with it.
Addressed(r) == r.text /\ r.head = "datarec"
Ordered(r) == Addressed(r) /\ r.action # "none"
Named(r) == Ordered(r) /\ r.command \in Names \cup {"long"}

RefusalCode(r) ==
    IF ~r.text THEN "UNKNOWN_TYPE"
    ELSE IF r.head = "none" THEN "ONLY_HAS_HEAD"
    ELSE IF r.head = "other" THEN "UNKNOWN_HEAD"
    ELSE IF r.action = "none" THEN "UNKNOWN_ACTION"
    ELSE IF r.command \in {"none", "other"} THEN "UNKNOWN_COMMAND"
    ELSE "UNKNOWN_PARAM"

\* The command of r is in the request context, and the first n of its parameters are.
HasCommand(r) ==
    /\ action = r.action
    /\ IF r.command = "long" THEN command_ID = OVERWRITTEN
       ELSE command_ID \in 1 .. 4 /\ Commands[command_ID] = r.command

HasParams(r, n) ==
    /\ n <= Len(r.params)
    /\ \A j \in 1 .. n : r.params[j] # "not_param"
    /\ \A j \in 1 .. PARAM_NUM + 1 :
          param[j] = IF j <= n /\ r.params[j] # "long" THEN r.params[j] ELSE EMPTY

Ready(r) == Passed(r) /\ HasCommand(r) /\ Get_Params = Stored(r.params)

\* The codes the function of r's command may return.
Says(r) == Outcomes(r.command, Act(r), Stored(r.params))

\* What the shared contexts hold of the only request there is, statement by statement.
StageInv(w, r) ==
    /\ pc[w] \in {"receive", "reset_result"} \cup Parsing
                 \cup {"may_call", "call", "run", "run_get", "answer"} => respond = <<>>
    /\ pc[w] \in {"receive"} \cup (Parsing \ ParamPart) \cup Resetting => index[w] = 1
    /\ pc[w] = "parse" => result = IF r.text THEN "OK" ELSE RefusalCode(r)
    /\ pc[w] = "head" => r.text
    /\ pc[w] = "may_action" => result = IF Addressed(r) THEN "OK" ELSE RefusalCode(r)
    /\ pc[w] = "action" => Addressed(r)
    /\ pc[w] \in {"action_ok", "match", "set_command", "check_match", "command_bad"}
          => Ordered(r) /\ action = r.action
    /\ pc[w] = "may_command" => IF Ordered(r) THEN result = "OK" /\ action = r.action
                                ELSE result = RefusalCode(r)
    /\ pc[w] = "set_command" => command_ID = Array_ID_Matcher(r.command)
    /\ pc[w] = "check_match" => IF Named(r) THEN HasCommand(r) ELSE command_ID = NO_COMMAND
    /\ pc[w] = "command_bad" => ~Named(r)
    /\ pc[w] \in {"command_ok"} \cup ParamPart => Named(r) /\ HasCommand(r)
    /\ pc[w] = "may_param" => IF Named(r) THEN result = "OK" /\ HasCommand(r)
                              ELSE result = RefusalCode(r)
    /\ pc[w] = "param" => HasParams(r, index[w] - 1)
    /\ pc[w] = "param_num" => index[w] = Len(r.params) + 1
    /\ pc[w] \in {"param_num", "param_ok"} => HasParams(r, Len(r.params))
    /\ pc[w] = "param_ok" => param_Num = Len(r.params)
    /\ pc[w] = "may_call" => IF Passed(r) THEN result = "OK" /\ Ready(r)
                             ELSE result = RefusalCode(r)
    /\ pc[w] \in {"call", "run", "run_get", "answer"} => Ready(r)
    /\ pc[w] \in {"run", "run_get", "answer"} => local[w].command = r.command
    /\ pc[w] \in {"run", "run_get"} => local[w].action = "neither"
    /\ pc[w] = "run_get" => Act(r) # "set" /\ r.command # "info"
    /\ pc[w] = "answer" => local[w].action = Act(r)
    /\ pc[w] = "result" => local[w].code \in Says(r)
    /\ pc[w] = "result" \/ (pc[w] = "splice" /\ Passed(r))
          => Passed(r) /\ ~Fatal(r) /\ respond = Body(r.command, Act(r), Stored(r.params))
    /\ pc[w] = "splice" => IF Passed(r) THEN result \in Says(r)
                           ELSE result = RefusalCode(r) /\ respond = <<>>
    /\ pc[w] = "send" => respond \in Answers(r)
    /\ pc[w] \in Resetting => reply[w] \in Answers(r)

LoneInv(w) ==
    /\ crashed => message[w] # NULL /\ Fatal(message[w])
    /\ ~scanning /\ w \in DOMAIN reply /\ StageInv(w, message[w])

\* What a function is given of the parameters (common.c:350-365).
LEMMA ParamsGiven ==
    ASSUME TypeOK, NEW r \in Requests, HasParams(r, Len(r.params)), param_Num = Len(r.params)
    PROVE  Get_Params = Stored(r.params)
<1> DEFINE n == Len(r.params)
           kept == [i \in DOMAIN r.params |-> IF r.params[i] = "long" THEN EMPTY ELSE r.params[i]]
<1>1. r.params \in Seq(Params) /\ n \in 0 .. PARAM_NUM
    BY RequestFields
<1>2. DOMAIN r.params = 1 .. n
    BY <1>1
<1>3. CASE r.params = <<>>
    BY <1>3 DEF Get_Params, Stored
<1>4. CASE r.params # <<>>
    <2>1. n # 0
        BY <1>1, <1>4
    <2>2. param \in Seq(Params \cup {EMPTY}) /\ Len(param) = PARAM_NUM + 1
        <3>1. param \in [1 .. PARAM_NUM + 1 -> Params \cup {EMPTY}]
            BY DEF TypeOK
        <3>2. PARAM_NUM + 1 \in Nat
            BY ParamNumAssumption
        <3> QED
            BY <3>1, <3>2
    <2>3. SubSeq(param, 1, n + 1) = [i \in 1 .. n + 1 |-> param[i]]
        BY <1>1, <2>2, ParamNumAssumption
    <2>4. kept \in Seq(Params \cup {EMPTY}) /\ Len(kept) = n
        BY <1>1, <1>2
    <2>5. Append(kept, EMPTY) = [i \in 1 .. n + 1 |-> IF i <= n THEN kept[i] ELSE EMPTY]
        BY <2>4
    <2>6. \A i \in 1 .. n + 1 : param[i] = IF i <= n THEN kept[i] ELSE EMPTY
        BY <1>1, <1>2, ParamNumAssumption DEF HasParams
    <2>7. SubSeq(param, 1, n + 1) = Append(kept, EMPTY)
        BY <2>3, <2>5, <2>6
    <2> QED
        BY <1>4, <2>1, <2>7 DEF Get_Params, Stored
<1> QED
    BY <1>3, <1>4

\* The answer to a request that is refused.
LEMMA Refused ==
    ASSUME NEW r \in Requests, ~Passed(r)
    PROVE  /\ RefusalCode(r) # "OK"
           /\ Answers(r) = {IF RefusalCode(r) \in Unspliced THEN <<>>
                            ELSE << <<RefusalCode(r)>> >>}
<1>1. /\ r.text \in BOOLEAN /\ r.head \in {"datarec", "other", "none"}
      /\ r.action \in Actions \cup {"none"}
    BY RequestFields
<1>2. CASE ~r.text
    BY <1>2 DEF RefusalCode, Answers, Fatal, Refusal, Unspliced
<1>3. CASE r.text
    BY <1>1, <1>3 DEF RefusalCode, Answers, Fatal, Refusal, Unspliced
<1> QED
    BY <1>1, <1>2, <1>3

\* What is ready for a call stays so while the request context stays as it is.
LEMMA ReadyKept ==
    ASSUME NEW r, Ready(r), UNCHANGED request_Ctx PROVE Ready(r)'
BY DEF Ready, HasCommand, Get_Params, request_Ctx

LEMMA StageServe ==
    ASSUME TypeInv, NEW w \in Workers, Serve(w), LoneInv(w), TidyInv, Workers = {w}, ~Reports
    PROVE  LoneInv(w)'
<1> DEFINE r == message[w]
<1>s. pc \in [Workers -> States] /\ {"receive"} \cup Parsing \cup Answering \cup Resetting = States
    BY DEF States, TypeInv, TypeOK
<1>r. /\ pc[w] # "receive" /\ r \in Requests
      /\ r.text \in BOOLEAN /\ r.head \in {"datarec", "other", "none"}
      /\ r.action \in Actions \cup {"none"} /\ r.command \in Names \cup {"other", "long", "none"}
    BY ServeFrame, RequestFields DEF Frame, TypeInv, WorkerInv
<1> USE <1>s, <1>r DEF LoneInv, StageInv, Goto, Locals, Outside, Answering, Resetting, Parsing,
                      ParamPart
<1>1. CASE Request_Type_Analyzer(w)
    BY <1>1 DEF Request_Type_Analyzer, Set_Result, RefusalCode
<1>2. CASE Request_Parser(w)
    <2>1. CASE r.text
        BY <1>2, <2>1 DEF Request_Parser, Gate, request_Ctx, respond_Ctx
    <2>2. CASE ~r.text
        BY <1>2, <2>2 DEF Request_Parser, Gate, request_Ctx, respond_Ctx, RefusalCode, Passed
    <2> QED
        BY <2>1, <2>2
<1>3. CASE Check_datarec(w)
    BY <1>3 DEF Check_datarec, Set_Result, Addressed, RefusalCode
<1>8. CASE Handler_Reads(w)
    <2>0. Ready(r) /\ action = r.action /\ local[w].command = r.command
          /\ pc[w] \in {"run", "run_get"} /\ local[w].action = "neither"
        BY <1>8 DEF Handler_Reads, Compare_Action, Ready, HasCommand
    <2>1. /\ Ready(r)' /\ UNCHANGED <<respond, message, index, reply, crashed, scanning>>
          /\ ~crashed
        BY <1>8, <2>0, ReadyKept DEF Handler_Reads, Compare_Action, respond_Ctx
    <2>2. CASE /\ Goto(w, "run", "answer") /\ local[w].command = "info"
               /\ Locals
        BY <2>0, <2>1, <2>2 DEF Act
    <2>3. ASSUME NEW from, NEW act \in {"get", "set"}, NEW otherwise,
                 Compare_Action(w, from, act, otherwise)
          PROVE  IF action = act
                 THEN pc'[w] = "answer" /\ local'[w].action = act /\ local'[w].command = r.command
                 ELSE pc'[w] = otherwise /\ local' = local
        <3>1. local[w] \in [command : Names, action : Acts]
            BY <2>0 DEF TypeInv, WorkerInv
        <3> QED
            BY <2>0, <2>3, <3>1 DEF Compare_Action, TypeInv, Acts
    <2>4. CASE Compare_Action(w, "run", "set", "run_get") /\ local[w].command # "info"
        <3>1. CASE action = "set"
            BY <2>0, <2>1, <2>3, <2>4, <3>1 DEF Act
        <3>2. CASE action # "set"
            BY <2>0, <2>1, <2>3, <2>4, <3>2 DEF Act
        <3> QED
            BY <3>1, <3>2
    <2>5. CASE Compare_Action(w, "run_get", "get", "answer")
        <3>0. pc[w] = "run_get" /\ Act(r) # "set" /\ r.command # "info"
            BY <2>5 DEF Compare_Action
        <3>1. CASE action = "get"
            BY <2>0, <2>1, <2>3, <2>5, <3>0, <3>1 DEF Act
        <3>2. CASE action # "get"
            BY <2>0, <2>1, <2>3, <2>5, <3>0, <3>2 DEF Act
        <3> QED
            BY <3>1, <3>2
    <2> QED
        BY <1>8, <2>2, <2>4, <2>5 DEF Handler_Reads
<1>10. CASE Function_Returns(w)
    BY <1>10 DEF Function_Returns, Set_Result
<1>4. CASE Check_Action(w)
    <2>1. CASE Gate(w, "may_action", "action", "may_command")
        <3>1. CASE Addressed(r)
            BY <2>1, <3>1 DEF Gate, request_Ctx, respond_Ctx
        <3>2. CASE ~Addressed(r)
            <4>1. ~Ordered(r) /\ RefusalCode(r) # "OK"
                BY <3>2 DEF Addressed, Ordered, RefusalCode
            <4> QED
                BY <2>1, <3>2, <4>1 DEF Gate, request_Ctx, respond_Ctx
        <3> QED
            BY <3>1, <3>2
    <2>2. CASE Set_Result(w, "action", "UNKNOWN_ACTION", "may_command")
                 /\ message[w].action = "none"
        BY <2>2 DEF Set_Result, Addressed, Ordered, RefusalCode
    <2>3. CASE /\ Goto(w, "action", "action_ok")
               /\ message[w].action # "none"
               /\ action' = message[w].action
               /\ UNCHANGED <<command_ID, param, param_Num, respond_Ctx>> /\ Locals /\ Outside
        BY <2>3 DEF Ordered, respond_Ctx
    <2>4. CASE Set_Result(w, "action_ok", "OK", "may_command")
        BY <2>4 DEF Set_Result, request_Ctx
    <2> QED
        BY <1>4, <2>1, <2>2, <2>3, <2>4 DEF Check_Action
<1>5. CASE Chek_Command(w)
    <2>1. CASE Gate(w, "may_command", "match", "may_param")
        <3>1. CASE Ordered(r)
            BY <2>1, <3>1 DEF Gate, request_Ctx, respond_Ctx
        <3>2. CASE ~Ordered(r)
            <4>1. ~Named(r) /\ RefusalCode(r) # "OK"
                BY <3>2 DEF Addressed, Named, Ordered, RefusalCode
            <4> QED
                BY <2>1, <3>2, <4>1 DEF Gate, request_Ctx, respond_Ctx
        <3> QED
            BY <3>1, <3>2
    <2>2. CASE /\ Set_Result(w, "match", "UNKNOWN_COMMAND", "may_param")
               /\ message[w].command = "none"
        BY <2>2 DEF Set_Result, Named, Ordered, Addressed, Names, RefusalCode
    <2>3. CASE /\ Goto(w, "match", "set_command")
               /\ message[w].command # "none"
               /\ command_ID' = Array_ID_Matcher(message[w].command)
               /\ UNCHANGED <<action, param, param_Num, respond_Ctx>> /\ Locals /\ Outside
        BY <2>3 DEF respond_Ctx
    <2>7. CASE Set_Command(w)
        <3>1. /\ command_ID = Array_ID_Matcher(r.command) /\ Ordered(r) /\ action = r.action
              /\ UNCHANGED <<action, respond_Ctx>> /\ pc'[w] = "check_match"
            BY <2>7 DEF Set_Command
        <3>2. CASE r.command = "long"
            <4>1. command_ID = NO_COMMAND
                BY <3>1, <3>2, Matcher DEF Names
            <4>2. command_ID' = OVERWRITTEN
                BY <2>7, <3>2, <4>1 DEF Set_Command, Overwritten
            <4> QED
                BY <2>7, <3>1, <3>2, <4>2 DEF Set_Command, Named, HasCommand, respond_Ctx
        <3>3. CASE r.command # "long"
            <4>1. command_ID' = command_ID
                BY <2>7, <3>3 DEF Set_Command
            <4>2. IF Named(r) THEN command_ID \in 1 .. 4 /\ Commands[command_ID] = r.command
                  ELSE command_ID = NO_COMMAND
                BY <3>1, <3>3, Matcher DEF Named
            <4> QED
                BY <2>7, <3>1, <3>3, <4>1, <4>2 DEF Set_Command, HasCommand, respond_Ctx
        <3> QED
            BY <3>2, <3>3
    <2>4. CASE Check_Match(w)
        <3>1. /\ command_ID = NO_COMMAND => ~Named(r)
              /\ command_ID # NO_COMMAND => Named(r) /\ HasCommand(r)
            BY <2>4, CommandTable DEF Check_Match, HasCommand, NO_COMMAND
        <3>2. CASE command_ID = NO_COMMAND
            BY <2>4, <3>1, <3>2 DEF Check_Match, request_Ctx, respond_Ctx
        <3>3. CASE command_ID # NO_COMMAND
            BY <2>4, <3>1, <3>3 DEF Check_Match, HasCommand, request_Ctx, respond_Ctx
        <3> QED
            BY <3>2, <3>3
    <2>5. CASE Set_Result(w, "command_bad", "UNKNOWN_COMMAND", "may_param")
        <3>1. RefusalCode(r) = "UNKNOWN_COMMAND"
            BY <2>5 DEF Set_Result, Named, Ordered, Addressed, Names, RefusalCode
        <3> QED
            BY <2>5, <3>1 DEF Set_Result
    <2>6. CASE Set_Result(w, "command_ok", "OK", "may_param")
        BY <2>6 DEF Set_Result, HasCommand, request_Ctx
    <2> QED
        BY <1>5, <2>1, <2>2, <2>3, <2>4, <2>5, <2>6, <2>7 DEF Chek_Command
<1>7. CASE Request_Function_Caller(w)
    <2>1. CASE Gate(w, "may_call", "call", "splice")
        <3>1. CASE Passed(r)
            <4>1. Ready(r)'
                BY <2>1, <3>1, ReadyKept DEF Gate
            <4> QED
                BY <2>1, <3>1, <4>1 DEF Gate, respond_Ctx
        <3>2. CASE ~Passed(r)
            <4>1. RefusalCode(r) # "OK"
                BY <3>2, Refused
            <4> QED
                BY <2>1, <3>2, <4>1 DEF Gate, respond_Ctx
        <3> QED
            BY <3>1, <3>2
    <2>2. CASE /\ pc[w] = "call" /\ command_ID \notin DOMAIN Commands
               /\ UNCHANGED <<request_Ctx, respond_Ctx, pc, reply, contexts, main, scanning>>
               /\ Locals
        <3>1. Ready(r) /\ Ready(r)'
            BY <2>2, ReadyKept
        <3>2. Fatal(r)
            BY <2>2, <3>1, CommandTable DEF Ready, HasCommand, Fatal
        <3> QED
            BY <1>r, <2>2, <3>1, <3>2, RequestsAssumption DEF respond_Ctx
    <2>3. CASE /\ command_ID \in DOMAIN Commands
               /\ Goto(w, "call", "run")
               /\ local' = [local EXCEPT ![w] = [command |-> Commands[command_ID],
                                                action |-> "neither"]]
               /\ UNCHANGED <<request_Ctx, respond_Ctx, message, index>> /\ Outside
        <3>1. Ready(r) /\ Ready(r)'
            BY <2>3, ReadyKept
        <3>2. Commands[command_ID] = r.command
            BY <2>3, <3>1, CommandTable DEF Ready, HasCommand
        <3>3. local'[w].command = r.command /\ local'[w].action = "neither"
            BY <2>3, <3>2 DEF TypeInv
        <3> QED
            BY <2>3, <3>1, <3>3 DEF respond_Ctx
    <2> QED
        BY <1>7, <2>1, <2>2, <2>3 DEF Request_Function_Caller
<1>9. CASE Handler_Answers(w)
    <2>1. /\ Ready(r) /\ local[w].command = r.command /\ local[w].action = Act(r)
          /\ respond = <<>> /\ pc[w] = "answer" /\ ~crashed
        BY <1>9 DEF Handler_Answers, Function_Runs, Function_Dies
    <2>2. Get_Params = Stored(r.params) /\ Passed(r)
        BY <2>1 DEF Ready
    <2>3. r.command # "long"
        BY <2>1 DEF TypeInv, WorkerInv, Names
    <2>4. CASE Function_Runs(w, local[w], Get_Params)
        <3>1. ~Fatal(r)
            BY <2>1, <2>2, <2>3, <2>4 DEF Function_Runs, Fatal
        <3>2. respond' = Body(r.command, Act(r), Stored(r.params))
            BY <2>1, <2>2, <2>4 DEF Function_Runs
        <3>3. PICK code \in Says(r) : local' = [local EXCEPT ![w] = [code |-> code]]
            BY <2>1, <2>2, <2>4 DEF Function_Runs, Says
        <3>4. local'[w].code = code
            BY <3>3 DEF TypeInv
        <3>5. UNCHANGED <<message, index, reply, crashed, scanning>> /\ pc'[w] = "result"
            BY <2>4 DEF Function_Runs
        <3> QED
            BY <2>1, <2>2, <3>1, <3>2, <3>3, <3>4, <3>5
    <2>5. CASE Function_Dies(w, local[w], Get_Params)
        <3>1. Fatal(r)
            BY <2>1, <2>2, <2>5 DEF Function_Dies, Fatal
        <3>2. Ready(r)'
            BY <2>1, <2>5, ReadyKept DEF Function_Dies
        <3>3. UNCHANGED <<message, index, local, reply, scanning, respond, pc>>
            BY <2>5 DEF Function_Dies, respond_Ctx
        <3> QED
            BY <1>r, <2>1, <3>1, <3>2, <3>3, RequestsAssumption
    <2> QED
        BY <1>9, <2>4, <2>5 DEF Handler_Answers
<1>11. CASE Error_Info_Splicer(w)
    <2>1. CASE Passed(r)
        <3>1. result \in Says(r) /\ result \notin Unspliced /\ ~Fatal(r)
            BY <1>11, <2>1 DEF Error_Info_Splicer, Says, Outcomes, Unspliced
        <3>2. respond' = << <<result>> >> \o Body(r.command, Act(r), Stored(r.params))
            BY <1>11, <2>1, <3>1 DEF Error_Info_Splicer
        <3>3. respond' \in Answers(r)
            BY <2>1, <3>1, <3>2 DEF Answers, Says
        <3> QED
            BY <1>11, <3>3 DEF Error_Info_Splicer
    <2>2. CASE ~Passed(r)
        <3>1. result = RefusalCode(r) /\ respond = <<>>
            BY <1>11, <2>2 DEF Error_Info_Splicer
        <3>2. << <<result>> >> \o <<>> = << <<result>> >>
            OBVIOUS
        <3>3. respond' \in Answers(r)
            BY <1>11, <2>2, <3>1, <3>2, Refused DEF Error_Info_Splicer
        <3> QED
            BY <1>11, <3>3 DEF Error_Info_Splicer
    <2> QED
        BY <2>1, <2>2
<1>12. CASE Error_Info_Sender(w)
    BY <1>12 DEF Error_Info_Sender, TypeInv, TypeOK
<1>13. CASE Server_Context_Reset(w)
    <2>1. CASE Reset_Request(w)
        BY ZenonT(60), <2>1 DEF Reset_Request, respond_Ctx
    <2>2. CASE /\ Goto(w, "reset_respond", "reset_result")
               /\ respond' = <<>> /\ Locals /\ Outside
        BY <2>2
    <2>3. CASE /\ Goto(w, "reset_result", "receive")
               /\ reply' = [reply EXCEPT ![w] = NULL]
               /\ UNCHANGED <<respond, index, scanning, crashed>>
        BY <2>3
    <2> QED
        BY <1>13, <2>1, <2>2, <2>3 DEF Server_Context_Reset
<1>6. CASE Check_Param(w)
    <2>1. r.params \in Seq(Params) /\ Len(r.params) \in 0 .. PARAM_NUM /\ index[w] \in 1 .. PARAM_NUM + 1
        BY RequestFields DEF TypeInv, TypeOK
    <2>2. CASE Gate(w, "may_param", "param", "may_call")
        <3>1. CASE Named(r)
            <4>1. param = NoParams /\ index[w] = 1
                BY <2>2 DEF Gate, TidyInv, HoldsParam
            <4>2. HasParams(r, 0)
                BY <2>1, <4>1 DEF NoParams, HasParams
            <4>3. HasParams(r, 0)'
                BY <2>2, <4>2 DEF Gate, HasParams, request_Ctx
            <4>4. index'[w] - 1 = 0
                BY <2>2, <4>1 DEF Gate
            <4> QED
                BY <2>2, <3>1, <4>3, <4>4 DEF Gate, HasCommand, request_Ctx, respond_Ctx
        <3>2. CASE ~Named(r)
            <4>1. ~Passed(r) /\ RefusalCode(r) # "OK"
                BY <3>2 DEF Addressed, Named, Ordered, RefusalCode, Passed
            <4> QED
                BY <2>2, <3>2, <4>1 DEF Gate, request_Ctx, respond_Ctx
        <3> QED
            BY <3>1, <3>2
    <2>3. CASE /\ Goto(w, "param", "param_num") /\ index[w] > Len(r.params)
               /\ UNCHANGED <<request_Ctx, respond_Ctx>> /\ Locals /\ Outside
        <3>0. HasParams(r, index[w] - 1)
            BY <2>3
        <3>1. index[w] = Len(r.params) + 1
            <4>1. index[w] > Len(r.params)
                BY <2>3
            <4> HIDE <1>r
            <4> QED BY <2>1, <3>0, <4>1 DEF HasParams
        <3>2. HasParams(r, Len(r.params))
            BY <2>1, <3>0, <3>1
        <3>3. HasParams(r, Len(r.params))'
            BY <2>3, <3>2 DEF HasParams, request_Ctx
        <3> QED
            BY <2>3, <3>1, <3>3 DEF HasCommand, request_Ctx, respond_Ctx
    <2>4. CASE /\ Set_Result(w, "param", "UNKNOWN_PARAM", "may_call")
               /\ index[w] <= Len(r.params) /\ r.params[index[w]] = "not_param"
        <3>1. ~Passed(r)
            BY <2>1, <2>4 DEF Passed
        <3>2. RefusalCode(r) = "UNKNOWN_PARAM"
            BY <2>4 DEF Set_Result, Named, Ordered, Addressed, Names, RefusalCode
        <3> QED
            BY <2>4, <3>1, <3>2 DEF Set_Result
    <2>5. CASE /\ Goto(w, "param", "param")
               /\ index[w] <= Len(r.params) /\ r.params[index[w]] # "not_param"
               /\ index' = [index EXCEPT ![w] = index[w] + 1]
               /\ IF r.params[index[w]] # "long"
                  THEN param' = [param EXCEPT ![index[w]] = r.params[index[w]]] /\ UNCHANGED result
                  ELSE result' = "PARAM_LEN_TOO_LONG" /\ UNCHANGED param
               /\ UNCHANGED <<action, command_ID, param_Num, respond, message, local>> /\ Outside
        <3>0. PICK i \in 1 .. PARAM_NUM + 1 : i = index[w]
            BY <2>1
        <3>a. index' = [index EXCEPT ![w] = i + 1]
            BY <2>5, <3>0
        <3>b. index \in [Workers -> 1 .. PARAM_NUM + 1]
            BY DEF TypeInv, TypeOK
        <3>1. index'[w] - 1 = i
            <4> HIDE <1>r
            <4> QED BY <3>0, <3>a, <3>b
        <3>2. HasParams(r, i - 1)
            BY <2>5, <3>0
        <3>3. param \in [1 .. PARAM_NUM + 1 -> Params \cup {EMPTY}]
            BY DEF TypeInv, TypeOK
        <3>4. \A j \in 1 .. PARAM_NUM + 1 :
                  param'[j] = IF j <= i /\ r.params[j] # "long" THEN r.params[j] ELSE EMPTY
            <4>1. \A j \in 1 .. PARAM_NUM + 1 :
                      param[j] = IF j <= i - 1 /\ r.params[j] # "long" THEN r.params[j] ELSE EMPTY
                BY <3>2 DEF HasParams
            <4>2. CASE r.params[i] # "long"
                <5>1. param' = [param EXCEPT ![i] = r.params[i]]
                    BY <2>5, <3>0, <4>2
                <5>2. /\ param'[i] = r.params[i]
                      /\ \A j \in 1 .. PARAM_NUM + 1 : j # i => param'[j] = param[j]
                    BY <3>3, <5>1
                <5>3. \A j \in 1 .. PARAM_NUM + 1 : j # i => (j <= i <=> j <= i - 1)
                    BY ParamNumAssumption
                <5> QED
                    BY <3>0, <4>1, <4>2, <5>2, <5>3
            <4>3. CASE r.params[i] = "long"
                <5>1. param' = param
                    BY <2>5, <3>0, <4>3
                <5>2. \A j \in 1 .. PARAM_NUM + 1 : j # i => (j <= i <=> j <= i - 1)
                    BY ParamNumAssumption
                <5>3. ~(i <= i - 1)
                    BY <3>0, ParamNumAssumption
                <5> QED
                    BY <3>0, <4>1, <4>3, <5>1, <5>2, <5>3
            <4> QED
                BY <4>2, <4>3
        <3>5. \A j \in 1 .. i : r.params[j] # "not_param"
            BY <2>1, <2>5, <3>0, <3>2 DEF HasParams
        <3>6. HasParams(r, i)'
            BY <2>1, <2>5, <3>0, <3>4, <3>5 DEF HasParams
        <3> QED
            BY <2>5, <3>0, <3>1, <3>6 DEF HasCommand
    <2>6. CASE /\ Goto(w, "param_num", "param_ok")
               /\ param_Num' = index[w] - 1
               /\ UNCHANGED <<action, command_ID, param, respond_Ctx>> /\ Locals /\ Outside
        <3>1. HasParams(r, Len(r.params)) /\ param_Num' = Len(r.params)
            BY <2>1, <2>6
        <3>2. HasParams(r, Len(r.params))'
            BY <2>6, <3>1 DEF HasParams
        <3> QED
            BY <2>6, <3>1, <3>2 DEF HasCommand, respond_Ctx
    <2>7. CASE Set_Result(w, "param_ok", "OK", "may_call")
        <3>1. HasParams(r, Len(r.params)) /\ param_Num = Len(r.params) /\ Named(r) /\ HasCommand(r)
            BY <2>7 DEF Set_Result
        <3>2. Get_Params = Stored(r.params)
            BY <3>1, ParamsGiven DEF TypeInv
        <3>3. Passed(r)
            BY <2>1, <3>1 DEF HasParams, Named, Ordered, Addressed, Names, Passed
        <3>4. Ready(r)'
            BY <2>7, <3>1, <3>2, <3>3, ReadyKept DEF Ready, Set_Result
        <3> QED
            BY <2>7, <3>3, <3>4 DEF Set_Result
    <2> QED
        BY <1>6, <2>2, <2>3, <2>4, <2>5, <2>6, <2>7 DEF Check_Param, Check_Param_Value
<1> QED
    BY <1>1, <1>2, <1>3, <1>4, <1>5, <1>6, <1>7, <1>8, <1>9, <1>10, <1>11, <1>12, <1>13
       DEF Serve

LEMMA StageStep ==
    ASSUME TypeInv, TidyInv, NEW w, Workers = {w}, ~Reports, LoneInv(w), [Next]_vars
    PROVE  LoneInv(w)'
<1>1. CASE Serve(w)
    BY <1>1, StageServe
<1>2. CASE Receive(w)
    BY <1>2 DEF Receive, Goto, Outside, LoneInv, StageInv, TypeInv, TypeOK, respond_Ctx, Parsing,
                Answering, Resetting, ParamPart
<1>3. CASE \/ Main /\ UNCHANGED <<request_Ctx, respond_Ctx, pc, reply, scanning, crashed>> /\ Locals
           \/ UNCHANGED vars
    <2>1. UNCHANGED <<request_Ctx, respond_Ctx, pc, reply, scanning, crashed, message, index, local>>
        BY <1>3 DEF vars, Locals
    <2>2. \A r : Ready(r) => Ready(r)'
        BY <2>1, ReadyKept
    <2>3. \A r, n : HasParams(r, n) => HasParams(r, n)'
        BY <2>1 DEF HasParams, request_Ctx
    <2> QED
        BY <2>1, <2>2, <2>3 DEF LoneInv, StageInv, HasCommand, request_Ctx, respond_Ctx
<1>4. Main => UNCHANGED <<request_Ctx, respond_Ctx, pc, reply, scanning, crashed>> /\ Locals
    BY DEF Main, My_Data_Context_Init, Civetweb_Init, Civetweb_Set_Handler, Main_Polls,
           Civetweb_Stop, My_Data_Context_Free, Main_Calls
<1>5. ~Scanner_Reports
    BY DEF Scanner_Reports, LoneInv
<1> QED
    BY <1>1, <1>2, <1>3, <1>4, <1>5 DEF Next

LEMMA LoneCorrect ==
    ASSUME NEW w, Workers = {w}, ~Reports PROVE Spec => [](TypeInv /\ LoneInv(w))
<1>1. Init => LoneInv(w)
    <2>1. Init => pc = [u \in Workers |-> "receive"] /\ index = [u \in Workers |-> 1]
        BY DEF Init
    <2>2. Init => pc[w] = "receive" /\ index[w] = 1
        BY <2>1
    <2>3. Init => ~crashed /\ ~scanning /\ w \in DOMAIN reply /\ respond = <<>>
        BY DEF Init
    <2> QED
        BY <2>2, <2>3 DEF LoneInv, StageInv, Parsing, Answering, Resetting, ParamPart
<1>2. Init => TidyInv
    BY DEF Init, TidyInv
<1>3. TypeInv /\ TidyInv /\ LoneInv(w) /\ [Next]_vars => LoneInv(w)'
    BY StageStep
<1> QED
    BY <1>1, <1>2, <1>3, InitType, StepType, StepTidy, PTL DEF Spec

\* A lone worker brings the process down only with a request whose command does not fit or whose
\* function needs parameters it does not have; no other reaches a function outside the table or a
\* parameter that is not there (handler.c:132-152, 369-383, common.c:352-365).
THEOREM LoneDies ==
    ASSUME NEW w, Workers = {w}, ~Reports PROVE Spec => []DiesOfAFatalRequest
<1>1. LoneInv(w) => DiesOfAFatalRequest
    BY DEF LoneInv, DiesOfAFatalRequest
<1> QED
    BY <1>1, LoneCorrect, PTL

\* A lone worker answers each request that does not bring the process down with what is first
\* wrong with it, or with what its command's function says of its own action and parameters, and
\* a request that does is not answered (handler.c:396-417).
THEOREM LoneAnswers ==
    ASSUME NEW w, Workers = {w}, ~Reports PROVE Spec => []AnswersItsRequest
<1>1. LoneInv(w) => AnswersItsRequest
    BY DEF LoneInv, StageInv, AnswersItsRequest
<1> QED
    BY <1>1, LoneCorrect, PTL
=============================================================================
