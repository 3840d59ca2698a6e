---------------------------- MODULE RequestServer ----------------------------
(***************************************************************************)
(* How requests are served (handler.c, server/server.c, datarec.c).        *)
(*                                                                         *)
(* civetweb runs WS_Data_Handler on one of its workers for each message.   *)
(* All workers parse into one request context and answer through one       *)
(* respond context (common.c:274-441), without a lock, so every read and   *)
(* every write of a shared field is a step of its own.  The main thread    *)
(* polls the action that was parsed, to see whether it is "exit"; before   *)
(* that it builds the contexts and starts the server, after it it takes    *)
(* both down.  Memory is taken to suffice, and the log file to open.       *)
(*                                                                         *)
(* What a command does is the subject of other modules.  Here a command's  *)
(* answer is what its function read: command, action and the parameters    *)
(* it looks at, which it reads in one step.  A parameter it needs and is   *)
(* not given is a null pointer, and the process dies of it.                *)
(* Request text is abstracted to the outcome of each comparison the parser *)
(* makes; a message is of less than 100 bytes, the size of the parser's    *)
(* copy, and has no '%'.  datarec, command and request_Buffer are only     *)
(* written and logged, and are left out, except for what Set_Command       *)
(* writes behind the end of command.  strtok keeps its place by thread in  *)
(* the C library the program is built with.                                *)
(***************************************************************************)
EXTENDS Integers, SequencesExt

CONSTANTS
    Workers,    \* civetweb's worker threads ("num_threads" in server.c)
    Requests,   \* messages that clients may send
    PARAM_NUM,  \* bound: parameters of a request (nine fit in REQUEST_BUFFER_SIZE bytes; the
                \* array has ten places)
    Reports,    \* whether a scanner thread may report that a volume cannot be read
    NULL

Commands == <<"info", "disk", "scan", "recovery">>
Actions == {"get", "set", "exit"}
NO_COMMAND == 0  \* the -1 of Array_ID_Matcher: table positions start at 1 here
OVERWRITTEN == Len(Commands) + 1  \* a number that is neither -1 nor a position

\* A parameter: a text that tells Scan_Handler to read two more ("stop": one that does not), one
\* that is PARAM_LEN or longer, or a token without "param=".  An empty place reads as a zero.
Params == {"value", "stop", "long", "not_param"}
EMPTY == "empty"

ParamSeqs == UNION {[1 .. n -> Params] : n \in 0 .. PARAM_NUM}

RequestType == [text : BOOLEAN,                              \* a text message
                head : {"datarec", "other", "none"},         \* the first token
                action : Actions \cup {"none"},              \* "none": missing or unknown
                \* "long": not in the table, and 32 to 35 characters (a longer one runs on into
                \* the parameters, but comes to the same end)
                command : {"info", "disk", "scan", "recovery", "other", "long", "none"},
                params : ParamSeqs]

ASSUME RequestsAssumption == Requests \subseteq RequestType /\ NULL \notin Requests
ASSUME ParamNumAssumption == PARAM_NUM \in Nat
ASSUME ReportsAssumption == Reports \in BOOLEAN

VARIABLES
    action, command_ID, param, param_Num,  \* request_Ctx
    respond, result,                       \* respond_Ctx: pieces of text, and an error code
    pc,         \* the next statement of each worker
    message,    \* the request each worker serves
    index,      \* the loop counter of Check_Param
    local,      \* what the function of the command has read
    reply,      \* what each worker has sent for its request
    contexts,   \* the parts of g_my_Data_Ctx that are allocated
    main,       \* the next call of the main thread
    scanning,   \* a scanner thread is about to read its volume
    crashed     \* a function outside the table was called, a parameter that is not there was
                \* read, or a freed context was used

request_Ctx == <<action, command_ID, param, param_Num>>
respond_Ctx == <<respond, result>>
vars == <<request_Ctx, respond_Ctx, pc, message, index, local, reply, contexts, main,
          scanning, crashed>>

\* In the order in which they are freed.
Contexts == <<"data_Rec", "testdisk", "server">>

NoParams == [i \in 1 .. PARAM_NUM + 1 |-> EMPTY]

Init ==
    /\ action = "" /\ command_ID = 1 /\ param = NoParams /\ param_Num = 0
    /\ respond = <<>> /\ result = "OK"
    /\ pc = [w \in Workers |-> "receive"]
    /\ message = [w \in Workers |-> NULL]
    /\ index = [w \in Workers |-> 1]
    /\ local = [w \in Workers |-> NULL]
    /\ reply = [w \in Workers |-> NULL]
    /\ contexts = {}
    /\ main = "My_Data_Context_Init"
    /\ scanning = FALSE
    /\ crashed = FALSE

\* Where a worker is in Request_Handler.
Parsing == {"type", "parse", "head", "may_action", "action", "action_ok", "may_command", "match",
            "set_command", "check_match", "command_bad", "command_ok", "may_param", "param", "param_num",
            "param_ok"}
Answering == {"may_call", "call", "run", "run_get", "answer", "result", "splice", "send"}
Resetting == {"reset_action", "reset_ID", "reset_param", "reset_num", "reset_respond",
              "reset_result"}

Goto(w, from, to) == ~crashed /\ pc[w] = from /\ pc' = [pc EXCEPT ![w] = to]
Outside == UNCHANGED <<reply, contexts, main, scanning, crashed>>
Locals == UNCHANGED <<message, index, local>>

\* if (ERROR_NONE_OK != Get_Result()) return;
Gate(w, from, go, skip) ==
    /\ Goto(w, from, IF result = "OK" THEN go ELSE skip)
    /\ UNCHANGED <<request_Ctx, respond_Ctx>> /\ Locals /\ Outside

Set_Result(w, from, code, to) ==
    /\ Goto(w, from, to)
    /\ result' = code
    /\ UNCHANGED <<request_Ctx, respond>> /\ Locals /\ Outside

----------------------------------------------------------------------------
(* Request_Type_Analyzer and Request_Parser *)

\* WS_Data_Handler is called once main has set it.  mg_stop lets no new message in.
Receive(w) ==
    /\ main = "poll"
    /\ Goto(w, "receive", "type")
    /\ \E r \in Requests : message' = [message EXCEPT ![w] = r]
    /\ UNCHANGED <<request_Ctx, respond_Ctx, index, local>> /\ Outside

Request_Type_Analyzer(w) ==
    Set_Result(w, "type", IF message[w].text THEN "OK" ELSE "UNKNOWN_TYPE", "parse")

Request_Parser(w) == Gate(w, "parse", "head", "may_call")

Check_datarec(w) ==
    Set_Result(w, "head", CASE message[w].head = "datarec" -> "OK"
                            [] message[w].head = "other" -> "UNKNOWN_HEAD"
                            [] message[w].head = "none" -> "ONLY_HAS_HEAD", "may_action")

Check_Action(w) ==
    \/ Gate(w, "may_action", "action", "may_command")
    \/ /\ Set_Result(w, "action", "UNKNOWN_ACTION", "may_command")
       /\ message[w].action = "none"
    \/ /\ Goto(w, "action", "action_ok")
       /\ message[w].action # "none"
       /\ action' = message[w].action
       /\ UNCHANGED <<command_ID, param, param_Num, respond_Ctx>> /\ Locals /\ Outside
    \/ Set_Result(w, "action_ok", "OK", "may_command")

Array_ID_Matcher(name) ==
    IF \E i \in DOMAIN Commands : Commands[i] = name
    THEN CHOOSE i \in DOMAIN Commands : Commands[i] = name ELSE NO_COMMAND

\* strcpy into command[30]: the end of a longer text falls on command_ID, which follows it.  The
\* last zero may fall on the only byte of a position that is not zero.
Overwritten(id) == IF id = NO_COMMAND THEN {OVERWRITTEN} ELSE {1, OVERWRITTEN}

Set_Command(w) ==
    /\ Goto(w, "set_command", "check_match")
    /\ command_ID' \in IF message[w].command = "long" THEN Overwritten(command_ID)
                       ELSE {command_ID}
    /\ UNCHANGED <<action, param, param_Num, respond_Ctx>> /\ Locals /\ Outside

Bug_Check_Match_Skipped(w) ==
    /\ Goto(w, "check_match", "command_ok")
    /\ UNCHANGED <<request_Ctx, respond_Ctx>> /\ Locals /\ Outside

\* if (-1 == Get_Command_ID())
Check_Match(w) ==
    /\ Goto(w, "check_match", IF command_ID = NO_COMMAND THEN "command_bad" ELSE "command_ok")
    /\ UNCHANGED <<request_Ctx, respond_Ctx>> /\ Locals /\ Outside

Chek_Command(w) ==
    \/ Gate(w, "may_command", "match", "may_param")
    \/ /\ Set_Result(w, "match", "UNKNOWN_COMMAND", "may_param")
       /\ message[w].command = "none"
    \/ /\ Goto(w, "match", "set_command")
       /\ message[w].command # "none"
       /\ command_ID' = Array_ID_Matcher(message[w].command)
       /\ UNCHANGED <<action, param, param_Num, respond_Ctx>> /\ Locals /\ Outside
    \/ Set_Command(w)
    \/ Check_Match(w)
    \/ Set_Result(w, "command_bad", "UNKNOWN_COMMAND", "may_param")
    \/ Set_Result(w, "command_ok", "OK", "may_param")

\* The loop over the parameters: a long one is reported, and its place left as it is; one
\* without "param=" ends the parser; at the end of the list the number is set.
Check_Param_Value(w) ==
    LET params == message[w].params
        i == index[w]
    IN  \/ /\ Goto(w, "param", "param_num")
           /\ i > Len(params)
           /\ UNCHANGED <<request_Ctx, respond_Ctx>> /\ Locals /\ Outside
        \/ /\ Set_Result(w, "param", "UNKNOWN_PARAM", "may_call")
           /\ i <= Len(params)
           /\ params[i] = "not_param"
        \/ /\ Goto(w, "param", "param")
           /\ i <= Len(params)
           /\ params[i] # "not_param"
           /\ index' = [index EXCEPT ![w] = i + 1]
           /\ IF params[i] # "long"
              THEN param' = [param EXCEPT ![i] = params[i]] /\ UNCHANGED result
              ELSE result' = "PARAM_LEN_TOO_LONG" /\ UNCHANGED param
           /\ UNCHANGED <<action, command_ID, param_Num, respond, message, local>> /\ Outside

Bug_Check_Param_Counts_One_More(w) ==
    \/ Gate(w, "may_param", "param", "may_call")
    \/ Check_Param_Value(w)
    \/ /\ Goto(w, "param_num", "param_ok")
       /\ param_Num' = index[w]
       /\ UNCHANGED <<action, command_ID, param, respond_Ctx>> /\ Locals /\ Outside
    \/ Set_Result(w, "param_ok", "OK", "may_call")

Check_Param(w) ==
    \/ Gate(w, "may_param", "param", "may_call")
    \/ Check_Param_Value(w)
    \/ /\ Goto(w, "param_num", "param_ok")
       /\ param_Num' = index[w] - 1
       /\ UNCHANGED <<action, command_ID, param, respond_Ctx>> /\ Locals /\ Outside
    \/ Set_Result(w, "param_ok", "OK", "may_call")

----------------------------------------------------------------------------
(* Request_Function_Caller, Request_Responder and Server_Context_Reset *)

\* gSA_command_Info_List[Get_Command_ID()].Function: outside the table, anything is called.
Request_Function_Caller(w) ==
    \/ Gate(w, "may_call", "call", "splice")
    \/ /\ pc[w] = "call" /\ command_ID \notin DOMAIN Commands /\ ~crashed
       /\ crashed' = TRUE
       /\ UNCHANGED <<request_Ctx, respond_Ctx, pc, reply, contexts, main, scanning>> /\ Locals
    \/ /\ command_ID \in DOMAIN Commands
       /\ Goto(w, "call", "run")
       /\ local' = [local EXCEPT ![w] = [command |-> Commands[command_ID], action |-> "neither"]]
       /\ UNCHANGED <<request_Ctx, respond_Ctx, message, index>> /\ Outside

\* if (0 == strcmp(act, Get_Action()))
Compare_Action(w, from, act, otherwise) ==
    /\ Goto(w, from, IF action = act THEN "answer" ELSE otherwise)
    /\ local' = IF action = act THEN [local EXCEPT ![w] = [@ EXCEPT !.action = act]] ELSE local
    /\ UNCHANGED <<request_Ctx, respond_Ctx, message, index>> /\ Outside

\* The function of a command looks at the action before it looks at the parameters.
Handler_Reads(w) ==
    \/ /\ Goto(w, "run", "answer")
       /\ local[w].command = "info"
       /\ UNCHANGED <<request_Ctx, respond_Ctx>> /\ Locals /\ Outside
    \/ Compare_Action(w, "run", "set", "run_get") /\ local[w].command # "info"
    \/ Compare_Action(w, "run_get", "get", "answer")

\* Get_Char_Param lets a function read the place after the last parameter too, but no place
\* when there is no parameter.
Get_Params == IF param_Num = 0 THEN <<>> ELSE SubSeq(param, 1, param_Num + 1)

\* How many of the parameters it is given a command's function reads.
Needed(command, act, given) ==
    CASE command \in {"info", "disk"} \/ act = "neither" -> 0
      [] command = "recovery" /\ act = "set" -> IF given = <<>> THEN 0 ELSE 1
      [] command = "recovery" /\ act = "get" -> 1
      [] command = "scan" /\ act = "set" ->
            IF given = <<>> THEN 0 ELSE IF given[1] = "stop" THEN 1 ELSE 3
      [] command = "scan" /\ act = "get" -> IF Len(given) <= 2 THEN 0 ELSE 3

Enough(command, act, given) == Needed(command, act, given) <= Len(given)

Outcomes(command, act, given) ==
    CASE command = "info" \/ (command = "recovery" /\ act = "set") -> {"OK"}
      [] command # "info" /\ (act = "neither" \/ (command = "scan" /\ given = <<>>)) -> {"COMMON_ERROR"}
      [] OTHER -> {"OK", "COMMON_ERROR"}

\* What a command's function writes, given what it read.
Body(command, act, given) ==
    CASE command = "info" -> << <<command>> >>
      [] command \in {"disk", "recovery"} /\ act = "neither" -> <<>>
      [] OTHER -> << <<command, act, SubSeq(given, 1, Needed(command, act, given))>> >>

\* "set scan" may leave a scanner thread behind.
Function_Runs(w, read, given) ==
    /\ Goto(w, "answer", "result")
    /\ Enough(read.command, read.action, given)
    /\ respond' = LET body == Body(read.command, read.action, given)
                  IN  IF body = <<>> THEN respond ELSE body
    /\ \E code \in Outcomes(read.command, read.action, given) :
          /\ local' = [local EXCEPT ![w] = [code |-> code]]
          /\ \/ UNCHANGED scanning
             \/ /\ Reports /\ read.command = "scan" /\ read.action = "set" /\ code = "OK"
                /\ given[1] # "stop"
                /\ scanning' = TRUE
    /\ UNCHANGED <<request_Ctx, result, message, index, reply, contexts, main, crashed>>

\* atoi(NULL)
Function_Dies(w, read, given) ==
    /\ pc[w] = "answer" /\ ~crashed
    /\ ~Enough(read.command, read.action, given)
    /\ crashed' = TRUE
    /\ UNCHANGED <<request_Ctx, respond_Ctx, pc, reply, contexts, main, scanning>> /\ Locals

Handler_Answers(w) ==
    \/ Function_Runs(w, local[w], Get_Params)
    \/ Function_Dies(w, local[w], Get_Params)

Function_Returns(w) == Set_Result(w, "result", local[w].code, "splice")

\* Error codes that the switch of Error_Info_Splicer has no case for.
Unspliced == {"ONLY_HAS_HEAD", "PARAM_LEN_TOO_LONG"}

\* The error text is put before whatever the respond buffer holds.
Error_Info_Splicer(w) ==
    /\ Goto(w, "splice", "send")
    /\ respond' = IF result \in Unspliced THEN respond ELSE << <<result>> >> \o respond
    /\ UNCHANGED <<request_Ctx, result>> /\ Locals /\ Outside

Error_Info_Sender(w) ==
    /\ Goto(w, "send", "reset_action")
    /\ reply' = [reply EXCEPT ![w] = respond]
    /\ index' = [index EXCEPT ![w] = 1]
    /\ local' = [local EXCEPT ![w] = NULL]
    /\ UNCHANGED <<request_Ctx, respond_Ctx, message, contexts, main, scanning, crashed>>

Bug_Param_Not_Reset(w) ==
    /\ \/ Goto(w, "reset_action", "reset_ID") /\ action' = "" /\ UNCHANGED <<command_ID, param_Num>>
       \/ Goto(w, "reset_ID", "reset_num") /\ command_ID' = 1 /\ UNCHANGED <<action, param_Num>>
       \/ Goto(w, "reset_num", "reset_respond") /\ param_Num' = 0
          /\ UNCHANGED <<action, command_ID>>
    /\ UNCHANGED <<param, respond_Ctx>> /\ Locals /\ Outside

Bug_Action_Not_Reset(w) ==
    /\ \/ Goto(w, "reset_action", "reset_ID") /\ UNCHANGED <<command_ID, param, param_Num>>
       \/ Goto(w, "reset_ID", "reset_param") /\ command_ID' = 1 /\ UNCHANGED <<param, param_Num>>
       \/ Goto(w, "reset_param", "reset_num") /\ param' = NoParams
          /\ UNCHANGED <<command_ID, param_Num>>
       \/ Goto(w, "reset_num", "reset_respond") /\ param_Num' = 0 /\ UNCHANGED <<command_ID, param>>
    /\ UNCHANGED <<action, respond_Ctx>> /\ Locals /\ Outside

Reset_Request(w) ==
    /\ \/ /\ Goto(w, "reset_action", "reset_ID")
          /\ action' = ""
          /\ UNCHANGED <<command_ID, param, param_Num>>
       \/ /\ Goto(w, "reset_ID", "reset_param")
          /\ command_ID' = 1
          /\ UNCHANGED <<action, param, param_Num>>
       \/ /\ Goto(w, "reset_param", "reset_num")
          /\ param' = NoParams
          /\ UNCHANGED <<action, command_ID, param_Num>>
       \/ /\ Goto(w, "reset_num", "reset_respond")
          /\ param_Num' = 0
          /\ UNCHANGED <<action, command_ID, param>>
    /\ UNCHANGED respond_Ctx /\ Locals /\ Outside

Server_Context_Reset(w) ==
    \/ Reset_Request(w)
    \/ /\ Goto(w, "reset_respond", "reset_result")
       /\ respond' = <<>>
       /\ UNCHANGED <<request_Ctx, result>> /\ Locals /\ Outside
    \/ /\ Goto(w, "reset_result", "receive")
       /\ result' = "OK"
       /\ message' = [message EXCEPT ![w] = NULL]
       /\ reply' = [reply EXCEPT ![w] = NULL]
       /\ UNCHANGED <<request_Ctx, respond, index, local, contexts, main, scanning, crashed>>

----------------------------------------------------------------------------
(* The threads around the workers *)

\* Read_Partition_Data puts its report where a request's answer is being built.  Nothing waits
\* for the scanner thread, which goes on to use every context.
Scanner_Reports ==
    /\ scanning /\ ~crashed /\ main # "gone"
    /\ scanning' = FALSE
    /\ IF contexts = ToSet(Contexts)
       THEN respond' = << <<"report">> >> /\ UNCHANGED crashed
       ELSE crashed' = TRUE /\ UNCHANGED respond
    /\ UNCHANGED <<request_Ctx, result, pc, reply, contexts, main>> /\ Locals

Main_Calls(from, to) ==
    /\ main = from /\ ~crashed
    /\ main' = to
    /\ UNCHANGED <<request_Ctx, respond_Ctx, pc, reply, scanning, crashed>> /\ Locals

My_Data_Context_Init ==
    /\ Main_Calls("My_Data_Context_Init", "Civetweb_Init")
    /\ contexts' = ToSet(Contexts)

\* main ignores a failure, such as a port in use, and waits for a request that cannot come.
Civetweb_Init ==
    /\ \/ Main_Calls("Civetweb_Init", "Civetweb_Set_Handler")
       \/ Main_Calls("Civetweb_Init", "poll without a server")
    /\ UNCHANGED contexts

Civetweb_Set_Handler == Main_Calls("Civetweb_Set_Handler", "poll") /\ UNCHANGED contexts

Bug_Main_Stops_On_Any_Action ==
    /\ Main_Calls("poll", IF action # "" THEN "Civetweb_Stop" ELSE "poll")
    /\ UNCHANGED contexts

\* while (0 != strcmp(Get_Action(), "exit"));
Main_Polls ==
    /\ Main_Calls("poll", IF action = "exit" THEN "Civetweb_Stop" ELSE "poll")
    /\ UNCHANGED contexts

Bug_Stop_Does_Not_Wait == Main_Calls("Civetweb_Stop", "My_Data_Context_Free") /\ UNCHANGED contexts

\* mg_stop waits for the workers.
Civetweb_Stop ==
    /\ \A w \in Workers : pc[w] = "receive"
    /\ Main_Calls("Civetweb_Stop", "My_Data_Context_Free")
    /\ UNCHANGED contexts

\* One context after the other; then main returns.
My_Data_Context_Free ==
    LET next == SelectSeq(Contexts, LAMBDA c : c \in contexts)
    IN  \/ next # <<>> /\ Main_Calls("My_Data_Context_Free", "My_Data_Context_Free")
           /\ contexts' = contexts \ {Head(next)}
        \/ next = <<>> /\ Main_Calls("My_Data_Context_Free", "gone") /\ UNCHANGED contexts

Main ==
    \/ My_Data_Context_Init
    \/ Civetweb_Init
    \/ Civetweb_Set_Handler
    \/ Main_Polls
    \/ Civetweb_Stop
    \/ My_Data_Context_Free

Serve(w) ==
    \/ Request_Type_Analyzer(w)
    \/ Request_Parser(w)
    \/ Check_datarec(w)
    \/ Check_Action(w)
    \/ Chek_Command(w)
    \/ Check_Param(w)
    \/ Request_Function_Caller(w)
    \/ Handler_Reads(w)
    \/ Handler_Answers(w)
    \/ Function_Returns(w)
    \/ Error_Info_Splicer(w)
    \/ Error_Info_Sender(w)
    \/ Server_Context_Reset(w)

Next ==
    \/ \E w \in Workers : Receive(w) \/ Serve(w)
    \/ Scanner_Reports
    \/ Main

Spec == Init /\ [][Next]_vars

----------------------------------------------------------------------------
(* Properties *)

TypeOK ==
    /\ action \in Actions \cup {""}
    /\ command_ID \in DOMAIN Commands \cup {NO_COMMAND, OVERWRITTEN}
    /\ param \in [1 .. PARAM_NUM + 1 -> Params \cup {EMPTY}]
    /\ param_Num \in 0 .. PARAM_NUM
    /\ result \in {"OK", "COMMON_ERROR", "UNKNOWN_TYPE", "UNKNOWN_HEAD", "ONLY_HAS_HEAD",
                   "UNKNOWN_ACTION", "UNKNOWN_COMMAND", "UNKNOWN_PARAM", "PARAM_LEN_TOO_LONG"}
    /\ message \in [Workers -> Requests \cup {NULL}]
    /\ index \in [Workers -> 1 .. PARAM_NUM + 1]
    /\ pc \in [Workers -> {"receive"} \cup Parsing \cup Answering \cup Resetting]
    /\ contexts \subseteq ToSet(Contexts)
    /\ main \in {"My_Data_Context_Init", "Civetweb_Init", "Civetweb_Set_Handler", "poll",
                 "poll without a server", "Civetweb_Stop", "My_Data_Context_Free", "gone"}
    /\ scanning \in BOOLEAN /\ crashed \in BOOLEAN

\* What the function of its command is given of r's parameters when r is the only request
\* (handler.c:160-230, common.c:350-365).
Stored(params) ==
    LET kept == [i \in DOMAIN params |-> IF params[i] = "long" THEN EMPTY ELSE params[i]]
    IN  IF params = <<>> THEN <<>> ELSE Append(kept, EMPTY)

\* The action r's function finds.
Act(r) == IF r.command # "info" /\ r.action \in {"get", "set"} THEN r.action ELSE "neither"

\* The parser finds nothing wrong with r.
Passed(r) ==
    /\ r.text /\ r.head = "datarec" /\ r.action # "none"
    /\ r.command \notin {"none", "other"}
    /\ \A i \in DOMAIN r.params : r.params[i] # "not_param"

\* What follows has no answer in the code: the command does not fit, or its function reads more
\* parameters than there are.
Fatal(r) ==
    /\ Passed(r)
    /\ \/ r.command = "long"
       \/ ~Enough(r.command, Act(r), Stored(r.params))

\* What a client that sends r alone is answered: the first thing wrong with it, or what its
\* command's function says of its parameters (handler.c:42-289).
Refusal(r) ==
    CASE ~r.text -> << <<"UNKNOWN_TYPE">> >>
      [] r.text /\ r.head = "none" -> <<>>
      [] r.text /\ r.head = "other" -> << <<"UNKNOWN_HEAD">> >>
      [] r.text /\ r.head = "datarec" /\ r.action = "none" -> << <<"UNKNOWN_ACTION">> >>
      [] r.text /\ r.head = "datarec" /\ r.action # "none"
             /\ r.command \in {"none", "other"} -> << <<"UNKNOWN_COMMAND">> >>
      [] OTHER -> << <<"UNKNOWN_PARAM">> >>

Answers(r) ==
    IF Fatal(r) THEN {}
    ELSE IF Passed(r)
    THEN LET given == Stored(r.params)
         IN  {<< <<code>> >> \o Body(r.command, Act(r), given)
                 : code \in Outcomes(r.command, Act(r), given)}
    ELSE {Refusal(r)}

\* Every client that is answered is answered what its own request calls for
\* (handler.c:396-417).
AnswersItsRequest ==
    \A w \in Workers : pc[w] \in Resetting => reply[w] \in Answers(message[w])

\* When no request is in service, nothing of one is left in the shared contexts for the next
\* to inherit, except a scanner's report (handler.c:413-414, common.c:423-441).
QuietIsClean ==
    (\A w \in Workers : pc[w] = "receive") =>
        /\ action = "" /\ command_ID = 1 /\ param = NoParams /\ param_Num = 0
        /\ result = "OK"
        /\ respond = <<>> \/ respond = << <<"report">> >>

\* The program stops only for a client that asked for it, not because main read the shared
\* action between two requests (datarec.c:54).
StopsOnExit ==
    [][main' = "Civetweb_Stop" => \E w \in Workers : message[w] # NULL /\ message[w].action = "exit"]_main

\* A request is served, and main polls, only between the building of the contexts and their
\* end: no worker meets one that is not there yet or not there any more (datarec.c:48-60).
ServedFromContexts ==
    (main \in {"poll", "poll without a server"} \/ \E w \in Workers : pc[w] # "receive")
        => contexts = ToSet(Contexts)

\* The process dies only while it serves a request whose command does not fit in its field or
\* whose function needs parameters it does not have: for a lone worker no refusal is lost on the
\* way to the call, and no parameter that was sent is missing there (handler.c:132-152, 369-383,
\* common.c:352-365).
DiesOfAFatalRequest ==
    crashed => \E w \in Workers : message[w] # NULL /\ Fatal(message[w])

=============================================================================
