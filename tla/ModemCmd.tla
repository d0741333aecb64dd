------------------------------ MODULE ModemCmd ------------------------------
(***************************************************************************)
(* The AT command layer: modem_cmd_handler.c and the three ways of         *)
(* w61_at_common.c to issue a command. Tasks call it, the parser task      *)
(* (Modem_Process) handles the lines the NCP answers.                      *)
(*                                                                         *)
(* The parser has a higher priority than every caller and only waits for   *)
(* data: it handles a line in one step, between any two statements of a    *)
(* caller. The NCP may take any time to answer, so that a caller may time  *)
(* out whenever it waits.                                                  *)
(*                                                                         *)
(* Kinds of calls: "execute" (SetExecute), "query" (Query_Parse), "send"   *)
(* and "post" (RequestSendData with and without check_resp). Calls are     *)
(* numbered. A text is told apart by its kind only: all queries share one  *)
(* answer prefix, all calls of a kind one data length.                     *)
(***************************************************************************)
EXTENDS Naturals, Sequences

CONSTANTS
    Callers,                    \* the tasks that issue commands
    NoOne,                      \* the holder of a free lock
    MaxCalls,                   \* bound: calls
    MaxFaults                   \* bound: messages the bus refuses

ASSUME ModemAssumption ==
    /\ NoOne \notin Callers
    /\ MaxCalls \in Nat /\ MaxFaults \in Nat

Kinds  == {"execute", "query", "send", "post"}
WithData == {"send", "post"}

VARIABLES
    pc,                         \* where each caller is
    job,                        \* its call
    ret,                        \* what the call is about to return
    calls,                      \* the number of calls so far
    lock,                       \* sem_tx_lock
    table,                      \* cmds[CMD_HANDLER]: whose handlers
    lastError,                  \* last_error is -EIO
    semResponse, semTx,         \* sem_response, sem_tx_ready
    rxData,                     \* the buffer of the query: 0 its command, or
                                \* the call whose answer overwrote it
    rxLen,                      \* rx_data_len, as a kind
    held,                       \* the receive buffer begins with a prompt
    faults,                     \* messages refused
    down, up,                   \* commands and data to, lines from the NCP
    mode,                       \* the call whose data the NCP waits for
    quiet,                      \* nothing was under way when the call began
    verdict                     \* what the NCP made of the running call

calling == <<pc, job, ret, calls, lock>>
handler == <<table, lastError, semResponse, semTx, rxData, rxLen>>
link    == <<held, faults, down, up, mode>>
history == <<quiet, verdict>>
vars    == <<calling, handler, link, history>>

NoCall == [call |-> 0, kind |-> "none"]
Call   == [call : 1..MaxCalls, kind : Kinds]

kind(c) == job[c].kind

(* The handlers for the prompt and for "Recv" are installed. *)
TakesData == table.kind \in WithData

Quiet == ~held /\ down = << >> /\ up = << >> /\ mode = NoCall

-----------------------------------------------------------------------------
(* A caller. *)

At(c, from, to) == pc[c] = from /\ pc' = [pc EXCEPT ![c] = to]

Start(c) ==
    /\ calls < MaxCalls /\ calls' = calls + 1
    /\ At(c, "idle", "lock")
    /\ \E k \in Kinds : job' = [job EXCEPT ![c] = [call |-> calls + 1, kind |-> k]]
    /\ UNCHANGED <<ret, lock, handler, link, history>>

(* The lock, and what each way prepares before send_ext: the buffer for    *)
(* the answer, which is the one that holds the command, or no prompt.      *)
Lock(c) ==
    /\ lock = NoOne /\ lock' = c
    /\ At(c, "lock", "setCmds")
    /\ rxData' = IF kind(c) = "query" THEN 0 ELSE rxData
    /\ semTx' = (semTx /\ kind(c) \notin WithData)
    /\ verdict' = "none"
    /\ UNCHANGED <<job, ret, calls, table, lastError, semResponse, rxLen, link, quiet>>

SetCmds(c) ==
    /\ At(c, "setCmds", IF kind(c) = "post" THEN "write" ELSE "reset")
    /\ table' = IF kind(c) = "execute" THEN NoCall ELSE job[c]
    /\ lastError' = FALSE
    /\ quiet' = Quiet
    /\ UNCHANGED <<job, ret, calls, lock, semResponse, semTx, rxData, rxLen, link, verdict>>

(* Mutant: an answer to an earlier command is kept. *)
MutReset(c) ==
    /\ At(c, "reset", "write")
    /\ UNCHANGED <<job, ret, calls, lock, handler, link, history>>

Reset(c) ==
    /\ At(c, "reset", "write")
    /\ semResponse' = FALSE
    /\ UNCHANGED <<job, ret, calls, lock, table, lastError, semTx, rxData, rxLen, link, history>>

(* What a call puts on the bus, unless the bus refuses: nobody looks.      *)
Send(what, c) ==
    \/ /\ down' = Append(down, [what |-> what, of |-> job[c]])
       /\ UNCHANGED faults
    \/ /\ faults < MaxFaults /\ faults' = faults + 1
       /\ UNCHANGED down

Write(c) ==
    /\ At(c, "write", IF kind(c) = "post" THEN "resetRecv" ELSE "await")
    /\ Send(IF kind(c) = "query" /\ rxData # 0 THEN "garbled" ELSE "command", c)
    /\ ret' = [ret EXCEPT ![c] = "OK"]
    /\ UNCHANGED <<job, calls, lock, handler, held, up, mode, history>>

Await(c) ==
    /\ semResponse /\ semResponse' = FALSE
    /\ At(c, "await", "error")
    /\ UNCHANGED <<job, ret, calls, lock, table, lastError, semTx, rxData, rxLen, link, history>>

GetError(c) ==
    /\ At(c, "error", IF kind(c) = "send" /\ ~lastError THEN "resetRecv" ELSE "unset")
    /\ ret' = [ret EXCEPT ![c] = IF lastError THEN "ERROR" ELSE "OK"]
    /\ UNCHANGED <<job, calls, lock, handler, link, history>>

ResetRecv(c) ==
    /\ At(c, "resetRecv", "setLen")
    /\ semResponse' = FALSE
    /\ UNCHANGED <<job, ret, calls, lock, table, lastError, semTx, rxData, rxLen, link, history>>

SetLen(c) ==
    /\ At(c, "setLen", "prompt")
    /\ rxLen' = kind(c)
    /\ UNCHANGED <<job, ret, calls, lock, table, lastError, semResponse, semTx, rxData, link, history>>

Prompt(c) ==
    /\ semTx /\ semTx' = FALSE
    /\ At(c, "prompt", "data")
    /\ UNCHANGED <<job, ret, calls, lock, table, lastError, semResponse, rxData, rxLen, link, history>>

(* A refused message ends the loop: its negative result counts as a huge   *)
(* number of bytes consumed.                                               *)
WriteData(c) ==
    /\ At(c, "data", "recv")
    /\ Send("data", c)
    /\ UNCHANGED <<job, ret, calls, lock, handler, held, up, mode, history>>

Recv(c) ==
    /\ semResponse /\ semResponse' = FALSE
    /\ At(c, "recv", "recvError")
    /\ UNCHANGED <<job, ret, calls, lock, table, lastError, semTx, rxData, rxLen, link, history>>

RecvError(c) ==
    /\ At(c, "recvError", "unset")
    /\ ret' = [ret EXCEPT ![c] = IF lastError THEN "ERROR" ELSE "OK"]
    /\ UNCHANGED <<job, calls, lock, handler, link, history>>

(* A semaphore was not given in time. *)
Waits(c) ==
    \/ pc[c] \in {"await", "recv"} /\ ~semResponse
    \/ pc[c] = "prompt" /\ ~semTx

(* Mutant: giving up on the prompt returns with the lock held. *)
MutTimeout(c) ==
    /\ Waits(c)
    /\ pc' = [pc EXCEPT ![c] = IF @ = "prompt" THEN "idle" ELSE "unset"]
    /\ ret' = [ret EXCEPT ![c] = "TIMEOUT"]
    /\ UNCHANGED <<job, calls, lock, handler, link, history>>

Timeout(c) ==
    /\ Waits(c)
    /\ pc' = [pc EXCEPT ![c] = "unset"]
    /\ ret' = [ret EXCEPT ![c] = "TIMEOUT"]
    /\ UNCHANGED <<job, calls, lock, handler, link, history>>

(* Mutant: after a timeout the handlers stay installed. *)
MutUnset(c) ==
    /\ At(c, "unset", "unlock")
    /\ table' = IF ret[c] = "TIMEOUT" THEN table ELSE NoCall
    /\ UNCHANGED <<job, ret, calls, lock, lastError, semResponse, semTx, rxData, rxLen, link, history>>

Unset(c) ==
    /\ At(c, "unset", "unlock")
    /\ table' = NoCall
    /\ UNCHANGED <<job, ret, calls, lock, lastError, semResponse, semTx, rxData, rxLen, link, history>>

(* The locals of the call, its buffer among them, end with it. *)
Unlock(c) ==
    /\ At(c, "unlock", "idle")
    /\ lock' = NoOne
    /\ job' = [job EXCEPT ![c] = NoCall] /\ ret' = [ret EXCEPT ![c] = "OK"]
    /\ rxData' = 0
    /\ quiet' = FALSE /\ verdict' = "none"
    /\ UNCHANGED <<calls, table, lastError, semResponse, semTx, rxLen, link>>

CallerStep(c) ==
    \/ Lock(c) \/ SetCmds(c) \/ Reset(c) \/ Write(c) \/ Await(c) \/ GetError(c)
    \/ ResetRecv(c) \/ SetLen(c) \/ Prompt(c) \/ WriteData(c) \/ Recv(c) \/ RecvError(c)
    \/ Timeout(c) \/ Unset(c) \/ Unlock(c)

-----------------------------------------------------------------------------
(* The parser. *)

OnOk    == lastError' = FALSE /\ semResponse' = TRUE
OnError == lastError' = TRUE /\ semResponse' = TRUE
OnRecv(line) == lastError' = (line.len # rxLen) /\ semResponse' = TRUE

(* A line with a line break is matched against the responses, then against *)
(* the handlers installed; a line nobody handles is skipped.               *)
Handle(line) ==
    \/ line.line = "OK" /\ OnOk /\ UNCHANGED rxData
    \/ line.line = "ERROR" /\ OnError /\ UNCHANGED rxData
    \/ line.line = "Recv" /\ TakesData /\ OnRecv(line) /\ UNCHANGED rxData
    \/ /\ line.line = "data" /\ table.kind = "query"
       /\ rxData' = line.call
       /\ UNCHANGED <<lastError, semResponse>>
    \/ /\ \/ line.line = "Recv" /\ ~TakesData
          \/ line.line = "data" /\ table.kind # "query"
       /\ UNCHANGED <<lastError, semResponse, rxData>>

Fetch == up # << >> /\ up' = Tail(up)

(* A prompt has no line break: it is matched at once, or stays at the      *)
(* beginning of the receive buffer.                                        *)
ParsePrompt ==
    /\ Fetch /\ Head(up).line = ">"
    /\ IF TakesData THEN semTx' = TRUE /\ held' = FALSE ELSE held' = TRUE /\ UNCHANGED semTx
    /\ UNCHANGED <<table, lastError, semResponse, rxData, rxLen, faults, down, mode, calling, history>>

(* A prompt that stayed is matched before the next line is.                *)
ParseLine ==
    /\ Fetch /\ Head(up).line # ">"
    /\ Handle(Head(up))
    /\ semTx' = (semTx \/ (held /\ TakesData))
    /\ held' = FALSE
    /\ UNCHANGED <<table, rxLen, faults, down, mode, calling, history>>

(* If nobody takes it, and no line break comes between, the next line is   *)
(* read as part of it and skipped with it.                                 *)
ParseGlued ==
    /\ Fetch /\ Head(up).line # ">"
    /\ held /\ ~TakesData /\ held' = FALSE
    /\ UNCHANGED <<handler, faults, down, mode, calling, history>>

-----------------------------------------------------------------------------
(* The NCP. *)

Line(text, of, len) == [line |-> text, call |-> of.call, len |-> len]
Accepts(of) ==
    CASE of.kind = "execute" -> <<Line("OK", of, "none")>>
      [] of.kind = "query"   -> <<Line("data", of, "none"), Line("OK", of, "none")>>
      [] of.kind = "send"    -> <<Line("OK", of, "none"), Line(">", of, "none")>>
      [] OTHER               -> <<Line(">", of, "none")>>

Running(of) == \E c \in Callers : lock = c /\ job[c] = of

(* The NCP's verdict on a call is remembered while the call runs.          *)
Judge(of, v) == verdict' = IF Running(of) THEN v ELSE verdict

NcpCommand ==
    /\ mode = NoCall
    /\ down # << >> /\ down' = Tail(down)
    /\ LET item == Head(down) IN
       \/ /\ item.what = "command"
          /\ up' = up \o Accepts(item.of)
          /\ mode' = IF item.of.kind \in WithData THEN item.of ELSE NoCall
          /\ Judge(item.of, IF item.of.kind \in WithData THEN "asked" ELSE "OK")
       \/ /\ item.what \in {"command", "garbled"}
          /\ up' = Append(up, Line("ERROR", item.of, "none"))
          /\ Judge(item.of, "ERROR")
          /\ UNCHANGED mode
       \/ item.what = "data" /\ UNCHANGED <<up, mode, verdict>>
    /\ UNCHANGED <<calling, handler, held, faults, quiet>>

(* Whatever comes next is taken for the data. *)
NcpData ==
    /\ mode # NoCall /\ mode' = NoCall
    /\ down # << >> /\ down' = Tail(down)
    /\ LET item == Head(down) IN
       \/ /\ item.what = "data" /\ item.of = mode
          /\ up' = Append(up, Line("Recv", mode, mode.kind))
          /\ Judge(mode, "OK")
       \/ /\ up' = Append(up, Line("Recv", mode, "short"))
          /\ Judge(mode, "ERROR")
       \/ /\ up' = Append(up, Line("ERROR", mode, "none"))
          /\ Judge(mode, "ERROR")
    /\ UNCHANGED <<calling, handler, held, faults, quiet>>

NcpGivesUp ==
    /\ mode # NoCall /\ mode' = NoCall
    /\ UNCHANGED <<calling, handler, held, faults, down, up, history>>

-----------------------------------------------------------------------------
Init ==
    /\ pc = [c \in Callers |-> "idle"] /\ job = [c \in Callers |-> NoCall]
    /\ ret = [c \in Callers |-> "OK"]
    /\ calls = 0 /\ lock = NoOne
    /\ table = NoCall /\ lastError = FALSE
    /\ semResponse = FALSE /\ semTx = FALSE
    /\ rxData = 0 /\ rxLen = "none"
    /\ held = FALSE /\ faults = 0
    /\ down = << >> /\ up = << >> /\ mode = NoCall
    /\ quiet = FALSE /\ verdict = "none"

Next ==
    \/ \E c \in Callers : Start(c) \/ CallerStep(c)
    \/ ParsePrompt \/ ParseLine \/ ParseGlued
    \/ NcpCommand \/ NcpData \/ NcpGivesUp

Spec == Init /\ [][Next]_vars

(* A caller that may run does so, and its timeouts expire. *)
FairSpec == Spec /\ \A c \in Callers : WF_vars(CallerStep(c))

-----------------------------------------------------------------------------
Places == {"idle", "lock", "setCmds", "reset", "write", "await", "error", "resetRecv",
           "setLen", "prompt", "data", "recv", "recvError", "unset", "unlock"}
Item  == [what : {"command", "garbled", "data"}, of : Call]
Lines == [line : {"OK", "ERROR", "data", ">", "Recv"}, call : 1..MaxCalls,
          len : {"none", "short"} \cup WithData]

TypeOK ==
    /\ pc \in [Callers -> Places]
    /\ job \in [Callers -> Call \cup {NoCall}]
    /\ ret \in [Callers -> {"OK", "ERROR", "TIMEOUT"}]
    /\ calls \in 0..MaxCalls /\ lock \in Callers \cup {NoOne}
    /\ table \in Call \cup {NoCall}
    /\ lastError \in BOOLEAN /\ semResponse \in BOOLEAN /\ semTx \in BOOLEAN
    /\ held \in BOOLEAN /\ quiet \in BOOLEAN
    /\ rxData \in 0..MaxCalls /\ rxLen \in WithData \cup {"none"}
    /\ faults \in 0..MaxFaults
    /\ down \in Seq(Item) /\ up \in Seq(Lines)
    /\ mode \in Call \cup {NoCall}
    /\ verdict \in {"none", "asked", "OK", "ERROR"}

(* The handlers installed, which lie on the stack of a caller as does the  *)
(* buffer they write to, are those of the one call that runs, from before  *)
(* its command is written until it no longer waits; otherwise there are    *)
(* none. Two callers never have handlers to install at once.               *)
TableOwned ==
    /\ \A c \in Callers :
         pc[c] \in Places \ {"idle", "lock", "setCmds", "unlock"} =>
             /\ lock = c
             /\ table = IF kind(c) = "execute" THEN NoCall ELSE job[c]
    /\ table # NoCall => \E c \in Callers : lock = c /\ job[c] = table

(* A call that began on a quiet link writes its data only once the NCP has *)
(* asked for them; and if it does not time out it returns what the NCP     *)
(* made of that very command, a query its own answer, and leaves the link  *)
(* as quiet as it found it. So nothing that earlier calls left in the      *)
(* semaphores, the error or the buffer is taken for its own, and only a    *)
(* timeout can make a later call take the answer of another.               *)
OwnAnswer == \A c \in Callers : quiet =>
    /\ pc[c] = "data" => verdict = "asked"
    /\ pc[c] = "unlock" /\ ret[c] # "TIMEOUT" =>
        /\ ret[c] = verdict
        /\ kind(c) = "query" /\ ret[c] = "OK" => rxData = job[c].call
        /\ Quiet

(* Every call returns, whatever the NCP does. *)
CallReturns == \A c \in Callers : pc[c] = "lock" ~> pc[c] = "idle"

(* The lock never stays with a call: every way through it, the timeouts    *)
(* included, leads back to xSemaphoreGive.                                 *)
LockComesBack == lock # NoOne ~> lock = NoOne

(* What of the fairness the two need: who holds the lock goes on, its      *)
(* timeouts included; and a semaphore that is given again and again while  *)
(* a caller waits for it goes to that caller, too.                         *)
HolderStep   == lock # NoOne /\ CallerStep(lock)
HolderGoesOn == []<>(lock = NoOne) \/ []<><<HolderStep>>_vars
LockIsFair   == \A c \in Callers :
    []<>(pc[c] = "lock" /\ lock = NoOne) => []<><<Lock(c)>>_vars
=============================================================================
