---------------------------- MODULE ModemCmdProofs ----------------------------
(***************************************************************************)
(* Proofs about ModemCmd, for any set of callers and any number of calls   *)
(* and faults.                                                             *)
(***************************************************************************)
EXTENDS ModemCmd, SequenceTheorems, TLAPS

(***************************************************************************)
(* The inductive invariant: who has the lock has the handlers.             *)
(***************************************************************************)

(* A caller has the lock just while it is past taking it. *)
Exclusion == \A c \in Callers : pc[c] \notin {"idle", "lock"} <=> lock = c

(* A call goes the way of its kind. *)
SendsData == {"resetRecv", "setLen", "prompt", "data", "recv", "recvError"}
Jobs == \A c \in Callers :
  /\ pc[c] # "idle" => job[c] \in Call
  /\ pc[c] \in SendsData => kind(c) \in WithData
  /\ pc[c] \in {"reset", "await", "error"} => kind(c) # "post"

(* The handlers are those of the holder of the lock, if any. *)
Handlers ==
  /\ \A c \in Callers : lock = c =>
       table = IF pc[c] \in {"setCmds", "unlock"} \/ kind(c) = "execute"
               THEN NoCall ELSE job[c]
  /\ lock = NoOne => table = NoCall

(* Only the calls that send data make the NCP wait for them. *)
DataMode == mode # NoCall => mode.kind \in WithData

IInv == TypeOK /\ Exclusion /\ Jobs /\ Handlers /\ DataMode

(***************************************************************************)
(* The exchange of a call that began on a quiet link.                      *)
(***************************************************************************)

Sent(c, what) == <<[what |-> what, of |-> job[c]]>>
Says(c, text) == Line(text, job[c], "none")

(* Nothing is written yet, and nothing is left from earlier calls. *)
Before(c) ==
  /\ Quiet /\ verdict = "none" /\ ~lastError
  /\ kind(c) = "query" => rxData = 0
  /\ kind(c) \in WithData => ~semTx
  /\ pc[c] = "write" /\ kind(c) # "post" => ~semResponse

(* The command is on its way or lost; refused; or accepted. *)
Unjudged(c) ==
  /\ verdict = "none" /\ mode = NoCall
  /\ up = << >> /\ down \in {<< >>, Sent(c, "command")}
  /\ ~lastError /\ (kind(c) \in WithData => ~semTx)

Refused(c) ==
  /\ verdict = "ERROR" /\ mode = NoCall /\ down = << >>
  /\ up = <<Says(c, "ERROR")>> \/ (up = << >> /\ lastError)
  /\ kind(c) \in WithData => ~semTx

Done(c) ==
  /\ verdict = "OK" /\ mode = NoCall /\ down = << >>
  /\ ~lastError
  /\ \/ kind(c) = "execute" /\ up \in {<<Says(c, "OK")>>, << >>}
     \/ kind(c) = "query" /\ up = <<Says(c, "data"), Says(c, "OK")>>
     \/ kind(c) = "query" /\ up \in {<<Says(c, "OK")>>, << >>} /\ rxData = job[c].call

Asked(c) ==
  /\ verdict = "asked" /\ mode \in {NoCall, job[c]} /\ down = << >>
  /\ ~lastError
  /\ \/ kind(c) = "send" /\ up = <<Says(c, "OK"), Says(c, ">")>> /\ ~semTx
     \/ kind(c) \in WithData /\ up = <<Says(c, ">")>> /\ ~semTx
     \/ kind(c) \in WithData /\ up = << >>

Begun(c) == ~held /\ (Unjudged(c) \/ Refused(c) \/ Done(c) \/ Asked(c))

(* The OK or the ERROR has arrived. *)
Answered(c) == verdict # "none" /\ up \in {<< >>, <<Says(c, ">")>>}

(* The data are on their way or lost; stored; or spoilt. *)
Awaited(c) ==
  /\ verdict = "asked" /\ mode \in {NoCall, job[c]}
  /\ up = << >> /\ down \in {<< >>, Sent(c, "data")}
  /\ ~lastError /\ ~semResponse

Stored(c) ==
  /\ verdict = "OK" /\ mode = NoCall /\ down = << >>
  /\ ~lastError
  /\ (up = <<Line("Recv", job[c], kind(c))>> /\ ~semResponse) \/ up = << >>

Spoilt(c) ==
  /\ verdict = "ERROR" /\ mode = NoCall /\ down = << >>
  /\ \/ up \in {<<Line("Recv", job[c], "short")>>, <<Says(c, "ERROR")>>} /\ ~semResponse
     \/ up = << >> /\ lastError

Ended(c) ==
  /\ Quiet /\ ret[c] = verdict
  /\ kind(c) = "query" /\ ret[c] = "OK" => rxData = job[c].call

Stage(c) ==
  /\ pc[c] \in {"reset", "write"} => Before(c)
  /\ pc[c] = "await" => Begun(c) /\ (semResponse => Answered(c))
  /\ pc[c] = "error" => Begun(c) /\ Answered(c)
  /\ pc[c] \in {"resetRecv", "setLen", "prompt"} =>
       /\ Begun(c)
       /\ kind(c) = "send" => Answered(c) /\ verdict = "asked"
       /\ pc[c] # "resetRecv" /\ semResponse => lastError
  /\ pc[c] = "data" => Awaited(c) /\ down = << >> /\ ~held
  /\ pc[c] = "recv" => (Awaited(c) \/ Stored(c) \/ Spoilt(c)) /\ ~held
  /\ pc[c] = "recvError" => Quiet /\ verdict = IF lastError THEN "ERROR" ELSE "OK"
  /\ pc[c] \in {"unset", "unlock"} /\ ret[c] # "TIMEOUT" => Ended(c)

(* What the caller itself has set up. *)
Prepared(c) ==
  /\ pc[c] = "setCmds" =>
       /\ verdict = "none"
       /\ kind(c) = "query" => rxData = 0
       /\ kind(c) \in WithData => ~semTx
  /\ pc[c] \in {"prompt", "data", "recv"} => rxLen = kind(c)

(* A call that is not written yet is one the NCP has not seen. *)
Unseen(c) == mode # job[c] /\ \A i \in 1..Len(down) : down[i].of # job[c]

Numbered ==
  /\ mode.call <= calls /\ \A i \in 1..Len(down) : down[i].of.call <= calls
  /\ \A c \in Callers : job[c].call <= calls
  /\ \A c \in Callers : pc[c] \in {"lock", "setCmds"} => Unseen(c)
  /\ \A c, d \in Callers :
       c # d /\ pc[c] # "idle" /\ pc[d] # "idle" => job[c].call # job[d].call

Exchange == \A c \in Callers :
  /\ lock = c => Prepared(c)
  /\ lock = c /\ pc[c] # "setCmds" /\ quiet => Stage(c)

(***************************************************************************)
(* Type correctness and the handlers.                                      *)
(***************************************************************************)

LEMMA InitIInv == Init => IInv
<1> SUFFICES ASSUME Init PROVE IInv
  OBVIOUS
<1>1. TypeOK
  <2>1. down \in Seq(Item) /\ up \in Seq(Lines)
    BY EmptySeq DEF Init
  <2>2. pc \in [Callers -> Places] /\ job \in [Callers -> Call \cup {NoCall}]
        /\ ret \in [Callers -> {"OK", "ERROR", "TIMEOUT"}]
    BY DEF Init, Places
  <2>3. calls \in 0..MaxCalls /\ faults \in 0..MaxFaults /\ rxData \in 0..MaxCalls
    BY ModemAssumption DEF Init
  <2> QED BY <2>1, <2>2, <2>3 DEF Init, TypeOK
<1>2. Exclusion /\ Jobs /\ Handlers /\ DataMode
  BY ModemAssumption DEF Init, Exclusion, Jobs, Handlers, DataMode, SendsData
<1> QED BY <1>1, <1>2 DEF IInv

(* The steps of a caller, one by one. *)
LEMMA StartIInv ==
  ASSUME IInv, NEW c \in Callers, Start(c) PROVE IInv'
<1> USE DEF IInv
<1>1. PICK k \in Kinds : job' = [job EXCEPT ![c] = [call |-> calls + 1, kind |-> k]]
  BY DEF Start
<1>2. calls + 1 \in 1..MaxCalls /\ calls' \in 0..MaxCalls
  BY ModemAssumption DEF Start, TypeOK
<1>3. [call |-> calls + 1, kind |-> k] \in Call
  BY <1>1, <1>2 DEF Call
<1>4. TypeOK'
  BY <1>1, <1>2, <1>3 DEF Start, At, TypeOK, Places, handler, link, history
<1>5. Exclusion' /\ Jobs'
  BY <1>1, <1>3 DEF Start, At, TypeOK, Exclusion, Jobs, kind, SendsData
<1>6. \A d \in Callers : lock' = d => d # c
  BY DEF Start, At, TypeOK, Exclusion
<1>7. Handlers' /\ DataMode'
  BY <1>1, <1>6 DEF Start, At, TypeOK, Handlers, DataMode, kind, handler, link
<1> QED BY <1>4, <1>5, <1>7

LEMMA CallerType ==
  ASSUME IInv, NEW c \in Callers, CallerStep(c) PROVE TypeOK'
<1> USE DEF IInv, TypeOK, At, handler, link, history, Places
<1>1. CASE Lock(c)
  BY <1>1, ModemAssumption DEF Lock
<1>2. CASE SetCmds(c)
  <2>1. quiet' \in BOOLEAN
    BY <1>2 DEF SetCmds, Quiet
  <2> QED BY <1>2, <2>1 DEF SetCmds
<1>3. CASE Reset(c)
  BY <1>3 DEF Reset
<1>4. CASE Write(c)
  <2>1. job[c] \in Call
    BY <1>4 DEF Write, Jobs
  <2>2. PICK what \in {"command", "garbled", "data"} : Send(what, c)
    BY <1>4 DEF Write
  <2>3. [what |-> what, of |-> job[c]] \in Item
    BY <2>1 DEF Item
  <2>4. down' \in Seq(Item)
    BY <2>2, <2>3, AppendProperties DEF Send
  <2>5. faults' \in 0..MaxFaults
    BY <2>2, ModemAssumption DEF Send
  <2> QED BY <1>4, <2>4, <2>5 DEF Write
<1>5. CASE Await(c)
  BY <1>5 DEF Await
<1>6. CASE GetError(c)
  BY <1>6 DEF GetError
<1>7. CASE ResetRecv(c)
  BY <1>7 DEF ResetRecv
<1>8. CASE SetLen(c)
  <2>1. kind(c) \in WithData
    BY <1>8 DEF SetLen, Jobs, SendsData
  <2> QED BY <1>8, <2>1 DEF SetLen
<1>9. CASE Prompt(c)
  BY <1>9 DEF Prompt
<1>10. CASE WriteData(c)
  <2>1. job[c] \in Call
    BY <1>10 DEF WriteData, Jobs
  <2>2. [what |-> "data", of |-> job[c]] \in Item
    BY <2>1 DEF Item
  <2>3. down' \in Seq(Item)
    <3>1. Send("data", c)
      BY <1>10 DEF WriteData
    <3> QED BY <3>1, <2>2, AppendProperties DEF Send
  <2>4. faults' \in 0..MaxFaults
    BY <1>10, ModemAssumption DEF Send, WriteData
  <2> QED BY <1>10, <2>3, <2>4 DEF WriteData
<1>11. CASE Recv(c)
  BY <1>11 DEF Recv
<1>12. CASE RecvError(c)
  BY <1>12 DEF RecvError
<1>13. CASE Timeout(c)
  BY <1>13 DEF Timeout
<1>14. CASE Unset(c)
  BY <1>14 DEF Unset
<1>15. CASE Unlock(c)
  <2>1. rxData' \in 0..MaxCalls
    BY <1>15, ModemAssumption DEF Unlock
  <2>2. lock' \in Callers \cup {NoOne}
    BY <1>15 DEF Unlock
  <2>3. pc' \in [Callers -> Places] /\ job' \in [Callers -> Call \cup {NoCall}]
          /\ ret' \in [Callers -> {"OK", "ERROR", "TIMEOUT"}]
    BY <1>15 DEF Unlock
  <2>4. quiet' \in BOOLEAN /\ verdict' \in {"none", "asked", "OK", "ERROR"}
    BY <1>15 DEF Unlock
  <2>5. UNCHANGED <<calls, table, lastError, semResponse, semTx, rxLen, link>>
    BY <1>15 DEF Unlock
  <2> HIDE <1>15
  <2> QED BY <2>1, <2>2, <2>3, <2>4, <2>5
<1> QED BY <1>1, <1>2, <1>3, <1>4, <1>5, <1>6, <1>7, <1>8, <1>9, <1>10, <1>11,
           <1>12, <1>13, <1>14, <1>15 DEF CallerStep

LEMMA CallerExclusion ==
  ASSUME IInv, NEW c \in Callers, CallerStep(c) PROVE Exclusion'
<1> USE DEF IInv, TypeOK, At, Exclusion, Waits
<1>1. CASE Lock(c)
  BY <1>1, ModemAssumption DEF Lock
<1>2. CASE Unlock(c)
  BY <1>2, ModemAssumption DEF Unlock
<1>3. \/ /\ lock' = lock
         /\ pc[c] \notin {"idle", "lock"} /\ pc'[c] \notin {"idle", "lock"}
         /\ \A d \in Callers \ {c} : pc'[d] = pc[d]
      \/ Lock(c) \/ Unlock(c)
  BY DEF CallerStep, SetCmds, Reset, Write, Await, GetError, ResetRecv, SetLen,
         Prompt, WriteData, Recv, RecvError, Timeout, Unset
<1> QED BY <1>1, <1>2, <1>3

LEMMA CallerJobs ==
  ASSUME IInv, NEW c \in Callers, CallerStep(c) PROVE Jobs'
<1> USE DEF IInv, TypeOK, At, Jobs, SendsData, kind, WithData
<1>1. CASE Unlock(c)
  BY <1>1 DEF Unlock
<1>2. \/ job' = job /\ (\A d \in Callers \ {c} : pc'[d] = pc[d])
      \/ Unlock(c)
  BY DEF CallerStep, Lock, SetCmds, Reset, Write, Await, GetError, ResetRecv, SetLen,
         Prompt, WriteData, Recv, RecvError, Timeout, Unset
<1>3. CASE ~Unlock(c)
  <2>1. pc[c] # "idle" /\ (pc'[c] \in SendsData => kind(c) \in WithData)
        /\ (pc'[c] \in {"reset", "await", "error"} => kind(c) # "post")
    BY <1>3, ModemAssumption
       DEF CallerStep, Lock, SetCmds, Reset, Write, Await, GetError, ResetRecv, SetLen,
           Prompt, WriteData, Recv, RecvError, Timeout, Unset, Waits, Call, Kinds
  <2> QED BY <1>2, <1>3, <2>1
<1> QED BY <1>1, <1>3

LEMMA CallerHandlers ==
  ASSUME IInv, NEW c \in Callers, CallerStep(c) PROVE Handlers' /\ DataMode'
<1> USE DEF IInv, TypeOK, At, Handlers, handler, link
<1>0. DataMode'
  BY DEF CallerStep, Lock, SetCmds, Reset, Write, Await, GetError, ResetRecv, SetLen,
         Prompt, WriteData, Recv, RecvError, Timeout, Unset, Unlock, DataMode
<1>1. CASE Lock(c)
  <2>1. table' = NoCall /\ lock' = c /\ pc'[c] = "setCmds"
    BY <1>1 DEF Lock
  <2> QED BY <1>0, <2>1, ModemAssumption
<1>2. CASE SetCmds(c)
  <2>1. lock = c /\ lock' = c /\ pc'[c] \notin {"setCmds", "unlock"}
    BY <1>2 DEF SetCmds, Exclusion
  <2>2. table' = IF kind(c) = "execute" THEN NoCall ELSE job[c]
    BY <1>2 DEF SetCmds
  <2>3. job' = job
    BY <1>2 DEF SetCmds
  <2> QED BY <1>0, <2>1, <2>2, <2>3, ModemAssumption DEF kind
<1>3. CASE Unset(c)
  <2>1. lock = c /\ lock' = c /\ pc'[c] = "unlock" /\ table' = NoCall
    BY <1>3 DEF Unset, Exclusion
  <2> QED BY <1>0, <2>1, ModemAssumption
<1>4. CASE Unlock(c)
  <2>1. lock = c /\ lock' = NoOne /\ table' = NoCall
    BY <1>4 DEF Unlock, Exclusion
  <2> QED BY <1>0, <2>1, ModemAssumption
<1>5. CASE ~(Lock(c) \/ SetCmds(c) \/ Unset(c) \/ Unlock(c))
  <2>1. lock' = lock /\ table' = table /\ job' = job
    BY <1>5 DEF CallerStep, Reset, Write, Await, GetError, ResetRecv, SetLen,
                Prompt, WriteData, Recv, RecvError, Timeout
  <2>2. pc[c] \notin {"idle", "lock", "setCmds", "unlock"}
    BY <1>5 DEF CallerStep, Reset, Write, Await, GetError, ResetRecv, SetLen,
                Prompt, WriteData, Recv, RecvError, Timeout, Waits
  <2>3. pc'[c] \notin {"setCmds", "unlock"}
    BY <1>5 DEF CallerStep, Reset, Write, Await, GetError, ResetRecv, SetLen,
                Prompt, WriteData, Recv, RecvError, Timeout
  <2>4. lock = c
    BY <2>2 DEF Exclusion
  <2> QED BY <1>0, <2>1, <2>2, <2>3, <2>4, ModemAssumption DEF kind
<1> QED BY <1>1, <1>2, <1>3, <1>4, <1>5

LEMMA CallerIInv ==
  ASSUME IInv, NEW c \in Callers, CallerStep(c) PROVE IInv'
BY CallerType, CallerExclusion, CallerJobs, CallerHandlers DEF IInv

(* The parser touches neither the callers nor the handlers. *)
LEMMA LineType ==
  ASSUME TypeOK, Fetch PROVE Head(up) \in Lines /\ up' \in Seq(Lines)
BY HeadTailProperties DEF Fetch, TypeOK

LEMMA ParserIInv ==
  ASSUME IInv, ParsePrompt \/ ParseLine \/ ParseGlued PROVE IInv'
<1>1. UNCHANGED <<calling, table, rxLen, faults, down, mode, history>>
  BY DEF ParsePrompt, ParseLine, ParseGlued, handler, history
<1>2. Exclusion' /\ Jobs' /\ Handlers' /\ DataMode'
  BY <1>1 DEF IInv, calling, Exclusion, Jobs, Handlers, DataMode, kind
<1>3. TypeOK'
  <2>0. TypeOK /\ Fetch
    BY DEF IInv, ParsePrompt, ParseLine, ParseGlued
  <2>1. Head(up) \in Lines /\ up' \in Seq(Lines)
    BY <2>0, LineType
  <2>2. lastError' \in BOOLEAN /\ semResponse' \in BOOLEAN /\ semTx' \in BOOLEAN
        /\ held' \in BOOLEAN
    BY <2>0 DEF TypeOK, ParsePrompt, ParseLine, ParseGlued, Handle, OnOk, OnError,
                OnRecv, TakesData, handler
  <2>3. Head(up).call \in 0..MaxCalls
    BY <2>1 DEF Lines
  <2>4. rxData' \in 0..MaxCalls
    BY <2>0, <2>3 DEF TypeOK, ParsePrompt, ParseLine, ParseGlued, Handle, handler
  <2> QED BY <2>0, <2>1, <2>2, <2>4, <1>1 DEF TypeOK, calling, history
<1> QED BY <1>2, <1>3 DEF IInv

(* The NCP answers in lines. *)
LEMMA LineTypes ==
  ASSUME NEW of \in Call, NEW text \in {"OK", "ERROR", "data", ">", "Recv"},
         NEW len \in {"none", "short"} \cup WithData
  PROVE  Line(text, of, len) \in Lines
BY DEF Line, Lines, Call

LEMMA AcceptsType ==
  ASSUME NEW of \in Call PROVE Accepts(of) \in Seq(Lines)
<1>1. /\ Line("OK", of, "none") \in Lines /\ Line("data", of, "none") \in Lines
      /\ Line(">", of, "none") \in Lines
  BY LineTypes
<1>2. \A x, y \in Lines : <<x>> \in Seq(Lines) /\ <<x, y>> \in Seq(Lines)
  OBVIOUS
<1> QED BY <1>1, <1>2 DEF Accepts

LEMMA NcpIInv ==
  ASSUME IInv, NcpCommand \/ NcpData \/ NcpGivesUp PROVE IInv'
<1>1. UNCHANGED <<calling, handler, held, faults, quiet>>
  BY DEF NcpCommand, NcpData, NcpGivesUp, history
<1>2. Exclusion' /\ Jobs' /\ Handlers'
  BY <1>1 DEF IInv, calling, handler, Exclusion, Jobs, Handlers, kind
<1>3. /\ down' \in Seq(Item) /\ up' \in Seq(Lines)
      /\ mode' \in Call \cup {NoCall} /\ (mode' # NoCall => mode'.kind \in WithData)
      /\ verdict' \in {"none", "asked", "OK", "ERROR"}
  <2>1. CASE NcpCommand
    <3>1. Head(down) \in Item /\ Tail(down) \in Seq(Item)
      BY <2>1, HeadTailProperties DEF NcpCommand, IInv, TypeOK
    <3>2. Head(down).of \in Call
      BY <3>1 DEF Item
    <3>3. Accepts(Head(down).of) \in Seq(Lines)
          /\ Line("ERROR", Head(down).of, "none") \in Lines
      BY <3>2, AcceptsType, LineTypes
    <3>4. up \o Accepts(Head(down).of) \in Seq(Lines)
          /\ Append(up, Line("ERROR", Head(down).of, "none")) \in Seq(Lines)
      BY <3>3, ConcatProperties, AppendProperties DEF IInv, TypeOK
    <3>5. up' \in Seq(Lines)
      BY <2>1, <3>4 DEF NcpCommand, IInv, TypeOK
    <3>6. verdict' \in {"none", "asked", "OK", "ERROR"}
      BY <2>1 DEF NcpCommand, Judge, IInv, TypeOK
    <3>7. mode' \in Call \cup {NoCall} /\ (mode' # NoCall => mode'.kind \in WithData)
      BY <2>1, <3>2 DEF NcpCommand, IInv, TypeOK
    <3> QED BY <2>1, <3>1, <3>5, <3>6, <3>7 DEF NcpCommand
  <2>2. CASE NcpData
    <3>1. Tail(down) \in Seq(Item)
      BY <2>2, HeadTailProperties DEF NcpData, IInv, TypeOK
    <3>2. mode \in Call /\ mode.kind \in WithData
      BY <2>2 DEF NcpData, IInv, TypeOK, DataMode
    <3>3. /\ Line("Recv", mode, mode.kind) \in Lines
          /\ Line("Recv", mode, "short") \in Lines
          /\ Line("ERROR", mode, "none") \in Lines
      BY <3>2, LineTypes
    <3>4. \A x \in Lines : Append(up, x) \in Seq(Lines)
      BY AppendProperties DEF IInv, TypeOK
    <3>5. up' \in Seq(Lines)
      BY <2>2, <3>3, <3>4 DEF NcpData
    <3>6. verdict' \in {"none", "asked", "OK", "ERROR"}
      BY <2>2 DEF NcpData, Judge, IInv, TypeOK
    <3> QED BY <2>2, <3>1, <3>5, <3>6 DEF NcpData
  <2>3. CASE NcpGivesUp
    BY <2>3 DEF NcpGivesUp, history, IInv, TypeOK
  <2> QED BY <2>1, <2>2, <2>3
<1>4. TypeOK'
  BY <1>1, <1>3 DEF IInv, TypeOK, calling, handler
<1>5. DataMode'
  BY <1>3 DEF DataMode
<1> QED BY <1>2, <1>4, <1>5 DEF IInv

LEMMA NextIInv == IInv /\ [Next]_vars => IInv'
<1> SUFFICES ASSUME IInv, [Next]_vars PROVE IInv'
  OBVIOUS
<1>1. CASE \E c \in Callers : Start(c) \/ CallerStep(c)
  BY <1>1, StartIInv, CallerIInv
<1>2. CASE ParsePrompt \/ ParseLine \/ ParseGlued
  BY <1>2, ParserIInv
<1>3. CASE NcpCommand \/ NcpData \/ NcpGivesUp
  BY <1>3, NcpIInv
<1>4. CASE UNCHANGED vars
  <2>1. UNCHANGED <<pc, job, ret, calls, lock, table, lastError, semResponse, semTx, rxData,
                    rxLen, held, faults, down, up, mode, quiet, verdict>>
    BY <1>4 DEF vars, calling, handler, link, history
  <2> QED BY <2>1 DEF IInv, TypeOK, Exclusion, Jobs, Handlers, DataMode, kind
<1> QED BY <1>1, <1>2, <1>3, <1>4 DEF Next

LEMMA Inductive == Spec => []IInv
BY InitIInv, NextIInv, PTL DEF Spec

(* Every variable keeps its type; so each caller stays within the places   *)
(* of a call and each line of the NCP within those the parser knows.       *)
THEOREM TypeCorrect == Spec => []TypeOK
<1>1. IInv => TypeOK
  BY DEF IInv
<1> QED BY <1>1, Inductive, PTL

LEMMA Owned == IInv => TableOwned
<1> SUFFICES ASSUME IInv PROVE TableOwned
  OBVIOUS
<1>1. ASSUME NEW c \in Callers, pc[c] \in Places \ {"idle", "lock", "setCmds", "unlock"}
      PROVE  lock = c /\ table = IF kind(c) = "execute" THEN NoCall ELSE job[c]
  BY <1>1 DEF IInv, Exclusion, Handlers
<1>2. ASSUME table # NoCall
      PROVE  \E c \in Callers : lock = c /\ job[c] = table
  BY <1>2 DEF IInv, TypeOK, Handlers
<1> QED BY <1>1, <1>2 DEF TableOwned

(* The handlers installed, and the buffer they write to, are those of the  *)
(* one call that runs, for any number of callers (modem_cmd_send_ext).     *)
THEOREM HandlersOwned == Spec => []TableOwned
BY Inductive, Owned, PTL

(***************************************************************************)
(* The numbers of the calls.                                               *)
(***************************************************************************)

LEMMA TailElements ==
  ASSUME NEW S, NEW s \in Seq(S), s # << >>
  PROVE  \A i \in 1..Len(Tail(s)) : i + 1 \in 1..Len(s) /\ Tail(s)[i] = s[i + 1]
<1>1. Len(s) \in Nat \ {0} /\ Len(Tail(s)) = Len(s) - 1
  BY HeadTailProperties, EmptySeq, LenProperties
<1> SUFFICES ASSUME NEW i \in 1..Len(Tail(s))
             PROVE  i + 1 \in 1..Len(s) /\ Tail(s)[i] = s[i + 1]
  OBVIOUS
<1>2. i + 1 \in 1..Len(s)
  BY <1>1
<1>3. Tail(s)[i] = s[i + 1]
  BY HeadTailProperties
<1> QED BY <1>2, <1>3

LEMMA AppendElements ==
  ASSUME NEW S, NEW s \in Seq(S), NEW e \in S
  PROVE  \A i \in 1..Len(Append(s, e)) :
           Append(s, e)[i] = e \/ (i \in 1..Len(s) /\ Append(s, e)[i] = s[i])
<1>1. Len(s) \in Nat /\ Len(Append(s, e)) = Len(s) + 1
  BY AppendProperties, LenProperties
<1> SUFFICES ASSUME NEW i \in 1..Len(Append(s, e))
             PROVE  Append(s, e)[i] = e \/ (i \in 1..Len(s) /\ Append(s, e)[i] = s[i])
  OBVIOUS
<1>2. i \in 1..Len(s) \/ i = Len(s) + 1
  BY <1>1
<1> QED BY <1>2, AppendProperties

LEMMA InitNumbered == Init => Numbered
BY ModemAssumption DEF Init, Numbered, NoCall, Unseen

(* What is taken from the way to the NCP, and for its mode, was there. *)
LEMMA TakenNumbered ==
  ASSUME IInv, Numbered, UNCHANGED calling,
         \/ down' = down
         \/ down # << >> /\ down' = Tail(down),
         \/ mode' \in {mode, NoCall}
         \/ down # << >> /\ mode' = Head(down).of
  PROVE  Numbered'
<1> USE DEF IInv, TypeOK
<1>1. \A i \in 1..Len(down') : \E k \in 1..Len(down) : down'[i] = down[k]
  <2>1. CASE down # << >> /\ down' = Tail(down)
    <3>1. down \in Seq(Item)
      OBVIOUS
    <3>2. \A i \in 1..Len(Tail(down)) : i + 1 \in 1..Len(down) /\ Tail(down)[i] = down[i + 1]
      BY <2>1, <3>1, TailElements
    <3> QED BY <2>1, <3>2
  <2> QED BY <2>1
<1>2. mode' \in {mode, NoCall} \/ (\E k \in 1..Len(down) : mode' = down[k].of)
  <2>1. CASE down # << >> /\ mode' = Head(down).of
    <3>1. 1 \in 1..Len(down) /\ Head(down) = down[1]
      BY <2>1, HeadTailProperties, EmptySeq, LenProperties
    <3> QED BY <2>1, <3>1
  <2> QED BY <2>1
<1>3. NoCall.call = 0 /\ calls \in Nat
  BY DEF NoCall
<1>4. mode'.call <= calls' /\ \A i \in 1..Len(down') : down'[i].of.call <= calls'
  <2>1. calls' = calls /\ 0 <= calls
    BY <1>3 DEF calling
  <2>2. mode'.call <= calls
    BY <1>2, <1>3, <2>1 DEF Numbered
  <2>3. \A i \in 1..Len(down') : down'[i].of.call <= calls
    BY <1>1 DEF Numbered
  <2> QED BY <2>1, <2>2, <2>3
<1>5. ASSUME NEW c \in Callers, pc[c] \in {"lock", "setCmds"} PROVE Unseen(c)'
  <2>1. job[c] \in Call /\ job' = job
    BY <1>5 DEF Jobs, calling
  <2>2. job[c] # NoCall
    BY <2>1 DEF Call, NoCall
  <2> QED BY <1>1, <1>2, <1>5, <2>1, <2>2 DEF Numbered, Unseen
<1> QED BY <1>4, <1>5 DEF Numbered, calling

LEMMA StartNumbered ==
  ASSUME IInv, Numbered, NEW c \in Callers, Start(c) PROVE Numbered'
<1> USE DEF IInv, TypeOK
<1>1. PICK k \in Kinds : job' = [job EXCEPT ![c] = [call |-> calls + 1, kind |-> k]]
  BY DEF Start
<1>2. calls \in Nat /\ calls' = calls + 1
  BY DEF Start
<1>3. /\ pc[c] = "idle" /\ pc' = [pc EXCEPT ![c] = "lock"]
      /\ UNCHANGED <<down, mode>>
  BY DEF Start, At, link
<1>4. job'[c].call = calls + 1 /\ \A d \in Callers \ {c} : job'[d] = job[d]
  BY <1>1
<1>5. \A d \in Callers : job[d].call \in Nat
  BY DEF Call, NoCall
<1>6. mode.call \in Nat /\ \A i \in 1..Len(down) : down[i].of.call \in Nat
  <2>1. \A i \in 1..Len(down) : down[i] \in Item
    BY ElementOfSeq
  <2> QED BY <2>1 DEF Call, NoCall, Item
<1>7. mode'.call <= calls' /\ \A i \in 1..Len(down') : down'[i].of.call <= calls'
  BY <1>2, <1>3, <1>6 DEF Numbered
<1>8. \A d \in Callers : job'[d].call <= calls'
  BY <1>2, <1>4, <1>5 DEF Numbered
<1>9. ASSUME NEW d \in Callers, pc'[d] \in {"lock", "setCmds"} PROVE Unseen(d)'
  <2>1. CASE d = c
    <3>1. mode.call # job'[c].call
      BY <1>2, <1>4, <1>6 DEF Numbered
    <3>2. \A i \in 1..Len(down) : down[i].of.call # job'[c].call
      BY <1>2, <1>4, <1>6 DEF Numbered
    <3> QED BY <2>1, <3>1, <3>2, <1>3 DEF Unseen
  <2>2. CASE d # c
    BY <1>3, <1>4, <1>9, <2>2 DEF Numbered, Unseen
  <2> QED BY <2>1, <2>2
<1>10. ASSUME NEW b \in Callers, NEW d \in Callers,
              b # d, pc'[b] # "idle", pc'[d] # "idle"
       PROVE  job'[b].call # job'[d].call
  <2>1. CASE b = c
    BY <2>1, <1>10, <1>2, <1>4, <1>5 DEF Numbered
  <2>2. CASE d = c
    BY <2>2, <1>10, <1>2, <1>4, <1>5 DEF Numbered
  <2>3. CASE b # c /\ d # c
    BY <2>3, <1>10, <1>3, <1>4 DEF Numbered
  <2> QED BY <2>1, <2>2, <2>3
<1> QED BY <1>7, <1>8, <1>9, <1>10 DEF Numbered

(* A caller only sends its own call, and only past setting the handlers. *)
LEMMA CallerNumbered ==
  ASSUME IInv, Numbered, NEW c \in Callers, CallerStep(c) PROVE Numbered'
<1> USE DEF IInv, TypeOK, At
<1>1. calls' = calls /\ mode' = mode
  BY DEF CallerStep, Lock, SetCmds, Reset, Write, Await, GetError, ResetRecv, SetLen,
         Prompt, WriteData, Recv, RecvError, Timeout, Unset, Unlock, link
<1>2. /\ pc[c] # "idle"
      /\ \A d \in Callers \ {c} : pc'[d] = pc[d] /\ job'[d] = job[d]
      /\ job'[c] = job[c] \/ (job'[c] = NoCall /\ pc'[c] = "idle")
  BY DEF CallerStep, Lock, SetCmds, Reset, Write, Await, GetError, ResetRecv, SetLen,
         Prompt, WriteData, Recv, RecvError, Timeout, Waits, Unset, Unlock
<1>3. pc'[c] \in {"lock", "setCmds"} => pc[c] = "lock" /\ job' = job /\ down' = down
  BY DEF CallerStep, Lock, SetCmds, Reset, Write, Await, GetError, ResetRecv, SetLen,
         Prompt, WriteData, Recv, RecvError, Timeout, Unset, Unlock, link
<1>4. \A i \in 1..Len(down') :
        down'[i].of = job[c] \/ (i \in 1..Len(down) /\ down'[i] = down[i])
  <2>1. CASE Write(c) \/ WriteData(c)
    <3>1. PICK what \in {"command", "garbled", "data"} : Send(what, c)
      BY <2>1 DEF Write, WriteData
    <3>2. [what |-> what, of |-> job[c]] \in Item
      BY <2>1 DEF Item, Jobs, Write, WriteData
    <3> QED BY <3>1, <3>2, AppendElements DEF Send
  <2>2. CASE ~(Write(c) \/ WriteData(c))
    <3>1. down' = down
      BY <2>2 DEF CallerStep, Lock, SetCmds, Reset, Await, GetError, ResetRecv, SetLen,
                  Prompt, Recv, RecvError, Timeout, Unset, Unlock, link
    <3> QED BY <3>1
  <2> QED BY <2>1, <2>2
<1>5. mode'.call <= calls' /\ \A i \in 1..Len(down') : down'[i].of.call <= calls'
  BY <1>1, <1>4 DEF Numbered
<1>6. \A d \in Callers : job'[d].call <= calls'
  BY <1>1, <1>2 DEF Numbered, NoCall
<1>7. ASSUME NEW d \in Callers, pc'[d] \in {"lock", "setCmds"} PROVE Unseen(d)'
  <2>1. CASE d = c
    BY <2>1, <1>1, <1>3, <1>7 DEF Numbered, Unseen
  <2>2. CASE d # c
    <3>1. Unseen(d) /\ job[d].call # job[c].call /\ job'[d] = job[d]
      BY <2>2, <1>2, <1>7 DEF Numbered
    <3> QED BY <3>1, <1>1, <1>4 DEF Unseen
  <2> QED BY <2>1, <2>2
<1>8. ASSUME NEW b \in Callers, NEW d \in Callers,
             b # d, pc'[b] # "idle", pc'[d] # "idle"
      PROVE  job'[b].call # job'[d].call
  <2>1. /\ pc[b] # "idle" /\ pc[d] # "idle"
        /\ job'[b] = job[b] /\ job'[d] = job[d]
    BY <1>2, <1>8
  <2> QED BY <2>1, <1>8 DEF Numbered
<1> QED BY <1>5, <1>6, <1>7, <1>8 DEF Numbered

LEMMA NextNumbered == IInv /\ Numbered /\ [Next]_vars => Numbered'
<1> SUFFICES ASSUME IInv, Numbered, [Next]_vars PROVE Numbered'
  OBVIOUS
<1>1. CASE \E c \in Callers : Start(c) \/ CallerStep(c)
  BY <1>1, StartNumbered, CallerNumbered
<1>2. CASE ParsePrompt \/ ParseLine \/ ParseGlued \/ UNCHANGED vars
  <2>1. UNCHANGED calling /\ down' = down /\ mode' = mode
    BY <1>2 DEF ParsePrompt, ParseLine, ParseGlued, vars, link
  <2> QED BY <2>1, TakenNumbered
<1>3. CASE NcpCommand
  <2>1. UNCHANGED calling /\ down # << >> /\ down' = Tail(down)
        /\ mode' \in {mode, NoCall, Head(down).of}
    BY <1>3 DEF NcpCommand
  <2> QED BY <2>1, TakenNumbered
<1>4. CASE NcpData \/ NcpGivesUp
  <2>1. UNCHANGED calling /\ mode' = NoCall
        /\ (down' = down \/ (down # << >> /\ down' = Tail(down)))
    BY <1>4 DEF NcpData, NcpGivesUp
  <2> QED BY <2>1, TakenNumbered
<1> QED BY <1>1, <1>2, <1>3, <1>4 DEF Next

(***************************************************************************)
(* The exchange: the steps of the caller itself.                           *)
(***************************************************************************)

LEMMA Words ==
  ASSUME NEW c
  PROVE  /\ \A t, u \in {"OK", "ERROR", "data", ">"} :
              t # u => Says(c, t) # Says(c, u) /\ <<Says(c, t)>> # <<Says(c, u)>>
         /\ \A t \in {"OK", "ERROR", "data", ">"} : <<Says(c, t)>> # << >>
         /\ \A t, u, w \in {"OK", "ERROR", "data", ">"} :
              <<Says(c, t), Says(c, u)>> # << >> /\ <<Says(c, t), Says(c, u)>> # <<Says(c, w)>>
<1>1. \A t, u \in {"OK", "ERROR", "data", ">"} : t # u => Says(c, t) # Says(c, u)
  BY DEF Says, Line
<1>2. \A x, y : x # y => <<x>> # <<y>>
  OBVIOUS
<1>3. \A x, y, z : <<x>> # << >> /\ <<x, y>> # << >> /\ <<x, y>> # <<z>>
  OBVIOUS
<1> QED BY <1>1, <1>2, <1>3

LEMMA ToWrite ==
  ASSUME IInv, NEW c \in Callers, lock = c, Prepared(c), SetCmds(c)
  PROVE  Prepared(c)' /\ (quiet' => Stage(c)')
<1> USE DEF SetCmds, At, IInv, TypeOK
<1>1. pc'[c] = IF kind(c) = "post" THEN "write" ELSE "reset"
  OBVIOUS
<1>2. Prepared(c)'
  BY <1>1 DEF Prepared
<1>3. quiet' => Before(c)'
  BY <1>1 DEF Prepared, Before, Quiet, link, kind
<1> QED BY <1>1, <1>2, <1>3 DEF Stage

LEMMA ToReset ==
  ASSUME IInv, NEW c \in Callers, quiet, Stage(c), Reset(c)
  PROVE  Stage(c)'
<1> USE DEF Reset, At, IInv, TypeOK
<1>1. pc[c] = "reset" /\ pc'[c] = "write"
  OBVIOUS
<1>2. Before(c)'
  BY <1>1 DEF Stage, Before, Quiet, link, history, kind
<1> QED BY <1>1, <1>2 DEF Stage

LEMMA ToBegin ==
  ASSUME IInv, NEW c \in Callers, quiet, Stage(c), Write(c)
  PROVE  Stage(c)'
<1> USE DEF Write, At, IInv, TypeOK
<1>1. pc[c] = "write" /\ pc'[c] = IF kind(c) = "post" THEN "resetRecv" ELSE "await"
  OBVIOUS
<1>2. Before(c)
  BY <1>1 DEF Stage
<1>3. Send("command", c)
  BY <1>2 DEF Before
<1>4. down' \in {<< >>, Sent(c, "command")}
  <2>1. down = << >>
    BY <1>2 DEF Before, Quiet
  <2>2. \A x : Append(<< >>, x) = <<x>>
    OBVIOUS
  <2> QED BY <1>3, <2>1, <2>2 DEF Send, Sent
<1>5. Unjudged(c)' /\ ~held'
  BY <1>2, <1>4 DEF Before, Quiet, Unjudged, handler, history, kind, Sent
<1>6. kind(c) # "post" => ~semResponse'
  BY <1>1, <1>2 DEF Before, handler
<1>7. kind(c)' = kind(c)
  BY DEF kind
<1>9. Begun(c)'
  BY <1>5 DEF Begun
<1> QED BY <1>1, <1>6, <1>7, <1>9 DEF Stage

(* The verdict is known where the caller goes on without waiting for data. *)
LEMMA Judged ==
  ASSUME IInv, NEW c \in Callers, Begun(c), Answered(c)
  PROVE  /\ lastError => Quiet /\ verdict = "ERROR"
         /\ ~lastError /\ kind(c) \in {"execute", "query"} =>
              Quiet /\ verdict = "OK" /\ (kind(c) = "query" => rxData = job[c].call)
         /\ ~lastError /\ kind(c) \in WithData => Asked(c)
<1>1. /\ up # <<Says(c, "ERROR")>> /\ up # <<Says(c, "OK")>>
      /\ up # <<Says(c, "data"), Says(c, "OK")>>
  BY Words DEF Answered
<1>2. ~Unjudged(c) /\ ~held
  BY DEF Answered, Unjudged, Begun
<1>3. CASE Refused(c)
  <2>1. up = << >> /\ lastError
    BY <1>1, <1>3 DEF Refused
  <2> QED BY <1>2, <1>3, <2>1 DEF Refused, Quiet
<1>4. CASE Done(c)
  <2>1. up = << >> /\ ~lastError /\ kind(c) \notin WithData
    BY <1>1, <1>4 DEF Done, WithData
  <2>2. kind(c) = "query" => rxData = job[c].call
    BY <1>1, <1>4 DEF Done
  <2> QED BY <1>2, <1>4, <2>1, <2>2 DEF Done, Quiet
<1>5. CASE Asked(c)
  <2>1. ~lastError /\ kind(c) \in WithData
    BY <1>5 DEF Asked, WithData
  <2> QED BY <1>5, <2>1 DEF WithData
<1> QED BY <1>2, <1>3, <1>4, <1>5 DEF Begun

LEMMA ToError ==
  ASSUME IInv, NEW c \in Callers, quiet, Stage(c), Await(c)
  PROVE  Stage(c)'
<1> USE DEF Await, At, IInv, TypeOK
<1>1. pc[c] = "await" /\ pc'[c] = "error"
  OBVIOUS
<1>2. Begun(c) /\ Answered(c)
  BY <1>1 DEF Stage
<1>3. Answered(c)'
  BY <1>2 DEF Answered, Says, link, history
<1>4. Begun(c)'
  BY <1>2 DEF Begun, Unjudged, Refused, Done, Asked, Sent, Says, kind, link, history
<1> QED BY <1>1, <1>3, <1>4 DEF Stage

LEMMA ToVerdict ==
  ASSUME IInv, NEW c \in Callers, quiet, Stage(c), GetError(c)
  PROVE  Stage(c)'
<1> USE DEF GetError, At, IInv, TypeOK
<1>1. pc[c] = "error" /\ Begun(c) /\ Answered(c)
  BY DEF Stage
<1>2. job[c] \in Call /\ kind(c) \in {"execute", "query", "send"}
  BY <1>1 DEF Jobs, Call, Kinds, kind
<1>3. CASE kind(c) = "send" /\ ~lastError
  <2>1. pc'[c] = "resetRecv"
    BY <1>3
  <2>2. Asked(c)
    BY <1>1, <1>3, Judged DEF WithData
  <2>3. Asked(c)' /\ ~held'
    BY <1>1, <2>2 DEF Asked, Begun, Says, kind, handler, link, history
  <2>4. Answered(c)' /\ verdict' = "asked"
    BY <1>1, <2>2 DEF Answered, Asked, Says, link, history
  <2>5. Begun(c)'
    BY <2>3 DEF Begun
  <2> QED BY <2>1, <2>4, <2>5 DEF Stage
<1>4. CASE ~(kind(c) = "send" /\ ~lastError)
  <2>1. pc'[c] = "unset" /\ ret'[c] = IF lastError THEN "ERROR" ELSE "OK"
    BY <1>4
  <2>2. Quiet /\ verdict = ret'[c] /\ (kind(c) = "query" /\ ~lastError => rxData = job[c].call)
    BY <1>1, <1>2, <1>4, <2>1, Judged
  <2>3. Ended(c)'
    BY <2>1, <2>2 DEF Ended, Quiet, kind, handler, link, history
  <2> QED BY <2>1, <2>3 DEF Stage
<1> QED BY <1>3, <1>4

LEMMA ToPrompt ==
  ASSUME IInv, NEW c \in Callers, quiet, Stage(c), ResetRecv(c) \/ SetLen(c)
  PROVE  Stage(c)'
<1> USE DEF ResetRecv, SetLen, At, IInv, TypeOK
<1>1. pc[c] \in {"resetRecv", "setLen"}
      /\ pc'[c] = IF pc[c] = "resetRecv" THEN "setLen" ELSE "prompt"
  OBVIOUS
<1>2. Begun(c) /\ (kind(c) = "send" => Answered(c) /\ verdict = "asked")
  BY <1>1 DEF Stage
<1>3. semResponse' => lastError'
  BY <1>1 DEF Stage
<1>4. Answered(c) => Answered(c)'
  BY DEF Answered, Says, link, history
<1>5. Begun(c)'
  <2>1. UNCHANGED <<job, lastError, semTx, rxData, held, down, up, mode, verdict>>
    BY DEF link, history
  <2> QED BY <1>2, <2>1 DEF Begun, Unjudged, Refused, Done, Asked, Sent, Says, kind
<1>6. kind(c)' = kind(c) /\ verdict' = verdict
  BY DEF kind, history
<1> QED BY <1>1, <1>2, <1>3, <1>4, <1>5, <1>6 DEF Stage

LEMMA ToData ==
  ASSUME IInv, NEW c \in Callers, quiet, Stage(c), Prompt(c)
  PROVE  Stage(c)'
<1> USE DEF Prompt, At, IInv, TypeOK
<1>1. pc[c] = "prompt" /\ pc'[c] = "data"
  OBVIOUS
<1>2. Begun(c) /\ (semResponse => lastError) /\ kind(c) \in WithData
  BY <1>1 DEF Stage, Jobs, SendsData
<1>3. Asked(c) /\ ~held /\ semTx
  BY <1>2 DEF Begun, Unjudged, Refused, Done, WithData
<1>4. up = << >>
  BY <1>3 DEF Asked
<1>5. Awaited(c)' /\ down' = << >> /\ ~held'
  BY <1>2, <1>3, <1>4 DEF Asked, Awaited, link, history
<1> QED BY <1>1, <1>5 DEF Stage

LEMMA ToRecv ==
  ASSUME IInv, NEW c \in Callers, quiet, Stage(c), WriteData(c)
  PROVE  Stage(c)'
<1> USE DEF WriteData, At, IInv, TypeOK
<1>1. pc[c] = "data" /\ pc'[c] = "recv" /\ Send("data", c)
  OBVIOUS
<1>2. Awaited(c) /\ down = << >> /\ ~held
  BY <1>1 DEF Stage
<1>3. down' \in {<< >>, Sent(c, "data")}
  <2>1. \A x : Append(<< >>, x) = <<x>>
    OBVIOUS
  <2> QED BY <1>1, <1>2, <2>1 DEF Send, Sent
<1>4. Awaited(c)' /\ ~held'
  BY <1>2, <1>3 DEF Awaited, Sent, handler, history
<1> QED BY <1>1, <1>4 DEF Stage

LEMMA ToRecvError ==
  ASSUME IInv, NEW c \in Callers, quiet, Stage(c), Recv(c)
  PROVE  Stage(c)'
<1> USE DEF Recv, At, IInv, TypeOK
<1>1. pc[c] = "recv" /\ pc'[c] = "recvError" /\ semResponse
  OBVIOUS
<1>2. (Stored(c) \/ Spoilt(c)) /\ ~held
  BY <1>1 DEF Stage, Awaited
<1>3. up = << >> /\ down = << >> /\ mode = NoCall
      /\ verdict = IF lastError THEN "ERROR" ELSE "OK"
  BY <1>1, <1>2 DEF Stored, Spoilt
<1>4. Quiet' /\ verdict' = IF lastError' THEN "ERROR" ELSE "OK"
  BY <1>2, <1>3 DEF Quiet, link, history
<1> QED BY <1>1, <1>4 DEF Stage

LEMMA ToUnlock ==
  ASSUME IInv, NEW c \in Callers, quiet, Stage(c), RecvError(c) \/ Timeout(c) \/ Unset(c)
  PROVE  Stage(c)'
<1> USE DEF At, IInv, TypeOK
<1>1. CASE RecvError(c)
  <2>1. pc[c] = "recvError" /\ pc'[c] = "unset" /\ ret'[c] = IF lastError THEN "ERROR" ELSE "OK"
    BY <1>1 DEF RecvError
  <2>2. Quiet /\ verdict = ret'[c] /\ kind(c) \in WithData
    BY <2>1 DEF Stage, Jobs, SendsData
  <2>3. Quiet' /\ verdict' = verdict /\ kind(c)' = kind(c)
    BY <1>1, <2>2 DEF RecvError, Quiet, link, history, kind
  <2>4. Ended(c)'
    BY <2>2, <2>3 DEF Ended, WithData
  <2> QED BY <2>1, <2>4 DEF Stage
<1>2. CASE Timeout(c)
  <2>1. pc'[c] = "unset" /\ ret'[c] = "TIMEOUT"
    BY <1>2 DEF Timeout
  <2> QED BY <2>1 DEF Stage
<1>3. CASE Unset(c)
  <2>1. pc[c] = "unset" /\ pc'[c] = "unlock" /\ ret' = ret
    BY <1>3 DEF Unset
  <2>2. ret[c] # "TIMEOUT" => Ended(c)
    BY <2>1 DEF Stage
  <2>3. Ended(c) => Ended(c)'
    BY <1>3 DEF Unset, Ended, Quiet, kind, link, history
  <2> QED BY <2>1, <2>2, <2>3 DEF Stage
<1> QED BY <1>1, <1>2, <1>3

LEMMA CallerExchange ==
  ASSUME IInv, Exchange, NEW d \in Callers, Start(d) \/ CallerStep(d)
  PROVE  Exchange'
<1> SUFFICES ASSUME NEW c \in Callers, lock' = c
             PROVE  Prepared(c)' /\ (pc'[c] # "setCmds" /\ quiet' => Stage(c)')
  BY DEF Exchange
<1> USE DEF IInv, TypeOK, At
<1>1. CASE Start(d)
  <2>1. lock = c /\ d # c
    BY <1>1 DEF Start, Exclusion
  <2>2. UNCHANGED <<pc[c], job[c], ret, handler, link, history>>
    BY <1>1, <2>1 DEF Start
  <2>3. Prepared(c) /\ (pc[c] # "setCmds" /\ quiet => Stage(c))
    BY <2>1 DEF Exchange
  <2>4. Prepared(c)'
    BY <2>2, <2>3 DEF Prepared, kind, handler, history
  <2>5. Stage(c) => Stage(c)'
    BY <2>2 DEF Stage, Before, Begun, Unjudged, Refused, Done, Asked, Answered, Awaited,
                Stored, Spoilt, Ended, Quiet, Sent, Says, kind, handler, link, history
  <2> QED BY <2>2, <2>3, <2>4, <2>5 DEF history
<1>2. CASE Lock(d)
  <2>1. d = c /\ pc'[c] = "setCmds" /\ verdict' = "none" /\ job' = job
    BY <1>2 DEF Lock
  <2>2. /\ kind(c) = "query" => rxData' = 0
        /\ kind(c) \in WithData => ~semTx'
    BY <1>2, <2>1 DEF Lock
  <2> QED BY <2>1, <2>2 DEF Prepared, kind
<1>3. CASE Unlock(d)
  BY <1>3, ModemAssumption DEF Unlock
<1>4. CASE CallerStep(d) /\ ~Lock(d) /\ ~Unlock(d)
  <2>1. lock' = lock /\ job' = job /\ pc[d] \notin {"idle", "lock"}
    BY <1>4 DEF CallerStep, SetCmds, Reset, Write, Await, GetError, ResetRecv, SetLen,
                Prompt, WriteData, Recv, RecvError, Timeout, Waits, Unset
  <2>2. d = c /\ lock = c
    BY <2>1 DEF Exclusion
  <2>3. Prepared(c) /\ (pc[c] # "setCmds" /\ quiet => Stage(c))
    BY <2>2 DEF Exchange
  <2>4. CASE SetCmds(c)
    BY <2>2, <2>3, <2>4, ToWrite
  <2>5. CASE ~SetCmds(c)
    <3>1. pc[c] # "setCmds" /\ pc'[c] # "setCmds" /\ quiet' = quiet
      BY <1>4, <2>2, <2>5 DEF CallerStep, Reset, Write, Await, GetError, ResetRecv, SetLen,
             Prompt, WriteData, Recv, RecvError, Timeout, Waits, Unset, history
    <3>2. quiet => Stage(c)'
      BY <1>4, <2>2, <2>3, <2>5, <3>1, ToReset, ToBegin, ToError, ToVerdict, ToPrompt,
         ToData, ToRecv, ToRecvError, ToUnlock DEF CallerStep
    <3>3. Prepared(c)'
      <4>1. pc'[c] = "prompt" => SetLen(c)
        BY <1>4, <2>2, <2>5 DEF CallerStep, Reset, Write, Await, GetError, ResetRecv,
               Prompt, WriteData, Recv, RecvError, Timeout, Unset
      <4>2. pc'[c] \in {"data", "recv"} => pc[c] \in {"prompt", "data"} /\ rxLen' = rxLen
        BY <1>4, <2>2, <2>5 DEF CallerStep, Reset, Write, Await, GetError, ResetRecv, SetLen,
               Prompt, WriteData, Recv, RecvError, Timeout, Unset, handler
      <4>3. SetLen(c) => rxLen' = kind(c)
        BY DEF SetLen
      <4> QED BY <2>1, <2>3, <3>1, <4>1, <4>2, <4>3 DEF Prepared, kind
    <3> QED BY <3>1, <3>2, <3>3
  <2> QED BY <2>4, <2>5
<1> QED BY <1>1, <1>2, <1>3, <1>4

(***************************************************************************)
(* The exchange: the steps of the parser.                                  *)
(***************************************************************************)

LEMMA ParserPrepared ==
  ASSUME IInv, NEW c \in Callers, lock = c, Prepared(c),
         ParsePrompt \/ ParseLine \/ ParseGlued
  PROVE  Prepared(c)'
<1>1. UNCHANGED <<calling, rxLen, history>>
  BY DEF ParsePrompt, ParseLine, ParseGlued, handler, history
<1>2. ASSUME pc[c] = "setCmds" PROVE UNCHANGED <<rxData, semTx>>
  <2>1. table.kind = "none" /\ ~TakesData
    BY <1>2 DEF IInv, Handlers, NoCall, TakesData, WithData
  <2> QED BY <2>1 DEF ParsePrompt, ParseLine, ParseGlued, Handle, handler, IInv, TypeOK
<1> QED BY <1>1, <1>2 DEF Prepared, kind, calling, history

(* What the parser does for a running call, which has no prompt waiting.   *)
LEMMA Parsed ==
  ASSUME IInv, ~held, ParsePrompt \/ ParseLine \/ ParseGlued
  PROVE  /\ up # << >> /\ up' = Tail(up)
         /\ UNCHANGED <<calling, table, rxLen, faults, down, mode, history>>
         /\ \/ /\ Head(up).line = ">"
               /\ UNCHANGED <<lastError, semResponse, rxData>>
               /\ TakesData => semTx' /\ ~held'
            \/ Head(up).line # ">" /\ Handle(Head(up)) /\ semTx' = semTx /\ ~held'
BY DEF IInv, TypeOK, ParsePrompt, ParseLine, ParseGlued, Fetch, handler, history

LEMMA Ends ==
  ASSUME NEW x, NEW y
  PROVE  /\ Head(<<x>>) = x /\ Tail(<<x>>) = << >>
         /\ Head(<<x, y>>) = x /\ Tail(<<x, y>>) = <<y>>
OBVIOUS

LEMMA ParserBegun ==
  ASSUME IInv, NEW c \in Callers, lock = c, Begun(c),
         pc[c] \in {"await", "error", "resetRecv", "setLen", "prompt"},
         ParsePrompt \/ ParseLine \/ ParseGlued
  PROVE  /\ Begun(c)' /\ verdict' = verdict
         /\ Answered(c) => Answered(c)'
         /\ semResponse' => semResponse \/ Answered(c)'
         /\ \/ UNCHANGED <<semResponse, lastError>>
            \/ lastError'
            \/ ~Answered(c) /\ kind(c) # "post"
<1> USE DEF IInv, TypeOK
<1>1. table = IF kind(c) = "execute" THEN NoCall ELSE job[c]
  BY DEF Handlers
<1>2. TakesData <=> kind(c) \in WithData
  BY <1>1 DEF TakesData, WithData, NoCall, kind
<1>3. ~held
  BY DEF Begun
<1>4. /\ up # << >> /\ up' = Tail(up)
      /\ UNCHANGED <<calling, table, rxLen, faults, down, mode, history>>
  BY <1>3, Parsed
<1>5. kind(c)' = kind(c) /\ job' = job /\ verdict' = verdict
  BY <1>4 DEF kind, calling, history
<1>6. ~Unjudged(c)
  BY <1>4 DEF Unjudged
<1>7. CASE Refused(c)
  <2>1. up = <<Says(c, "ERROR")>>
    BY <1>4, <1>7 DEF Refused
  <2>2. Head(up).line = "ERROR" /\ up' = << >>
    BY <1>4, <2>1, Ends DEF Says, Line
  <2>3. lastError' /\ semTx' = semTx /\ ~held'
    BY <1>3, <2>2, Parsed DEF Handle, OnError
  <2>4. Refused(c)' /\ Answered(c)'
    BY <1>4, <1>5, <1>7, <2>2, <2>3 DEF Refused, Answered
  <2> QED BY <1>5, <2>3, <2>4 DEF Begun
<1>8. CASE Done(c)
  <2>1. CASE up = <<Says(c, "OK")>>
    <3>1. Head(up).line = "OK" /\ up' = << >>
      BY <1>4, <2>1, Ends DEF Says, Line
    <3>2. ~lastError' /\ rxData' = rxData /\ ~held'
      BY <1>3, <3>1, Parsed DEF Handle, OnOk
    <3>3. kind(c) = "query" => rxData = job[c].call
      BY <1>8, <2>1, Words DEF Done
    <3>4. Done(c)' /\ Answered(c)'
      BY <1>4, <1>5, <1>8, <3>1, <3>2, <3>3 DEF Done, Answered
    <3>5. ~Answered(c) /\ kind(c) # "post"
      BY <1>8, <2>1, Words DEF Done, Answered
    <3> QED BY <1>5, <3>2, <3>4, <3>5 DEF Begun
  <2>2. CASE kind(c) = "query" /\ up = <<Says(c, "data"), Says(c, "OK")>>
    <3>1. Head(up).line = "data" /\ Head(up).call = job[c].call /\ up' = <<Says(c, "OK")>>
      BY <1>4, <2>2, Ends DEF Says, Line
    <3>2. table.kind = "query"
      BY <1>1, <2>2 DEF kind
    <3>3. UNCHANGED <<lastError, semResponse>> /\ rxData' = job[c].call /\ ~held'
      BY <1>3, <3>1, <3>2, Parsed DEF Handle
    <3>4. Done(c)'
      BY <1>4, <1>5, <1>8, <2>2, <3>1, <3>3 DEF Done, Says
    <3>5. ~Answered(c)
      BY <2>2, Words DEF Answered
    <3> QED BY <1>5, <3>3, <3>4, <3>5 DEF Begun
  <2> QED BY <1>4, <1>8, <2>1, <2>2 DEF Done
<1>9. CASE Asked(c)
  <2>1. CASE kind(c) = "send" /\ up = <<Says(c, "OK"), Says(c, ">")>>
    <3>1. Head(up).line = "OK" /\ up' = <<Says(c, ">")>>
      BY <1>4, <2>1, Ends DEF Says, Line
    <3>2. ~lastError' /\ ~held' /\ semTx' = semTx
      BY <1>3, <3>1, Parsed DEF Handle, OnOk
    <3>3. ~semTx
      <4>1. <<Says(c, "OK"), Says(c, ">")>> # <<Says(c, ">")>>
            /\ <<Says(c, "OK"), Says(c, ">")>> # << >>
        BY Words
      <4> QED BY <1>9, <2>1, <4>1 DEF Asked
    <3>4. Asked(c)' /\ Answered(c)'
      BY <1>4, <1>5, <1>9, <2>1, <3>1, <3>2, <3>3 DEF Asked, Answered, Says, WithData
    <3>5. ~Answered(c)
      BY <2>1, Words DEF Answered
    <3> QED BY <1>5, <2>1, <3>2, <3>4, <3>5 DEF Begun
  <2>2. CASE kind(c) \in WithData /\ up = <<Says(c, ">")>>
    <3>1. Head(up).line = ">" /\ up' = << >>
      BY <1>4, <2>2, Ends DEF Says, Line
    <3>2. UNCHANGED <<lastError, semResponse>> /\ ~held'
      BY <1>2, <1>3, <2>2, <3>1, Parsed
    <3>3. Asked(c)' /\ Answered(c)'
      BY <1>4, <1>5, <1>9, <2>2, <3>1, <3>2 DEF Asked, Answered
    <3> QED BY <1>5, <3>2, <3>3 DEF Begun
  <2> QED BY <1>4, <1>9, <2>1, <2>2 DEF Asked
<1> QED BY <1>6, <1>7, <1>8, <1>9 DEF Begun

LEMMA ParserStored ==
  ASSUME IInv, NEW c \in Callers, lock = c, pc[c] = "recv", ~held, rxLen = kind(c),
         Awaited(c) \/ Stored(c) \/ Spoilt(c),
         ParsePrompt \/ ParseLine \/ ParseGlued
  PROVE  (Stored(c)' \/ Spoilt(c)') /\ ~held'
<1> USE DEF IInv, TypeOK
<1>1. kind(c) \in WithData
  BY DEF Jobs, SendsData
<1>2. TakesData
  BY <1>1 DEF Handlers, TakesData, kind, WithData
<1>3. /\ up # << >> /\ up' = Tail(up)
      /\ UNCHANGED <<calling, table, rxLen, faults, down, mode, history>>
  BY Parsed
<1>4. ~Awaited(c)
  BY <1>3 DEF Awaited
<1>5. CASE Stored(c)
  <2>1. up = <<Line("Recv", job[c], kind(c))>>
    BY <1>3, <1>5 DEF Stored
  <2>2. Head(up).line = "Recv" /\ Head(up).len = kind(c) /\ up' = << >>
    BY <1>3, <2>1, Ends DEF Line
  <2>3. ~lastError' /\ ~held'
    BY <1>2, <2>2, Parsed DEF Handle, OnRecv
  <2> QED BY <1>3, <1>5, <2>2, <2>3 DEF Stored, history
<1>6. CASE Spoilt(c)
  <2>1. up \in {<<Line("Recv", job[c], "short")>>, <<Says(c, "ERROR")>>}
    BY <1>3, <1>6 DEF Spoilt
  <2>2. \/ Head(up).line = "Recv" /\ Head(up).len = "short"
        \/ Head(up).line = "ERROR"
    BY <2>1, Ends DEF Line, Says
  <2>3. up' = << >>
    BY <1>3, <2>1, Ends
  <2>4. lastError' /\ ~held'
    BY <1>1, <1>2, <2>2, Parsed DEF Handle, OnRecv, OnError, WithData
  <2> QED BY <1>3, <1>6, <2>3, <2>4 DEF Spoilt, history
<1> QED BY <1>4, <1>5, <1>6

LEMMA ParserStage ==
  ASSUME IInv, NEW c \in Callers, lock = c, pc[c] # "setCmds", Prepared(c), Stage(c),
         ParsePrompt \/ ParseLine \/ ParseGlued
  PROVE  Stage(c)'
<1>1. up # << >> /\ UNCHANGED calling
  BY DEF ParsePrompt, ParseLine, ParseGlued, Fetch
<1>2. pc' = pc /\ ret' = ret /\ kind(c)' = kind(c)
  BY <1>1 DEF calling, kind
<1>3. CASE pc[c] \in {"await", "error", "resetRecv", "setLen", "prompt"}
  <2>1. Begun(c)
    BY <1>3 DEF Stage
  <2>2. /\ Begun(c)' /\ verdict' = verdict
        /\ Answered(c) => Answered(c)'
        /\ semResponse' => semResponse \/ Answered(c)'
        /\ \/ UNCHANGED <<semResponse, lastError>>
           \/ lastError'
           \/ ~Answered(c) /\ kind(c) # "post"
    BY <1>3, <2>1, ParserBegun
  <2>3. pc[c] \in {"resetRecv", "setLen", "prompt"} => kind(c) \in {"send", "post"}
    BY DEF IInv, Jobs, SendsData, WithData
  <2> QED BY <1>2, <1>3, <2>2, <2>3 DEF Stage
<1>4. CASE pc[c] = "recv"
  <2>1. (Stored(c)' \/ Spoilt(c)') /\ ~held'
    BY <1>4, ParserStored DEF Stage, Prepared
  <2> QED BY <1>2, <1>4, <2>1 DEF Stage
<1>5. CASE pc[c] \notin {"await", "error", "resetRecv", "setLen", "prompt", "recv"}
  <2>1. pc[c] \in {"unset", "unlock"} /\ ret[c] = "TIMEOUT"
    BY <1>1, <1>5 DEF Stage, Before, Awaited, Ended, Quiet, IInv, TypeOK, Exclusion, Places
  <2> QED BY <1>2, <2>1 DEF Stage
<1> QED BY <1>3, <1>4, <1>5

(***************************************************************************)
(* The exchange: the steps of the NCP.                                     *)
(***************************************************************************)

LEMMA NcpPrepared ==
  ASSUME IInv, Numbered, NEW c \in Callers, lock = c, Prepared(c),
         NcpCommand \/ NcpData \/ NcpGivesUp
  PROVE  Prepared(c)'
<1> USE DEF IInv, TypeOK
<1>1. UNCHANGED <<calling, handler>>
  BY DEF NcpCommand, NcpData, NcpGivesUp
<1>2. ASSUME pc[c] = "setCmds" PROVE verdict' = verdict
  <2>1. Unseen(c)
    BY <1>2 DEF Numbered
  <2>2. \A of : Running(of) => of = job[c]
    BY DEF Running
  <2>3. CASE NcpCommand
    <3>1. 1 \in 1..Len(down) /\ Head(down) = down[1]
      BY <2>3, HeadTailProperties, EmptySeq, LenProperties DEF NcpCommand
    <3>2. ~Running(Head(down).of)
      BY <2>1, <2>2, <3>1 DEF Unseen
    <3> QED BY <2>3, <3>2 DEF NcpCommand, Judge
  <2>4. CASE NcpData
    <3>1. ~Running(mode)
      BY <2>1, <2>2 DEF Unseen
    <3> QED BY <2>4, <3>1 DEF NcpData, Judge
  <2>5. CASE NcpGivesUp
    BY <2>5 DEF NcpGivesUp, history
  <2> QED BY <2>3, <2>4, <2>5
<1> QED BY <1>1, <1>2 DEF Prepared, kind, calling, handler

LEMMA NcpBegun ==
  ASSUME IInv, NEW c \in Callers, lock = c, pc[c] # "idle", Begun(c),
         NcpCommand \/ NcpData \/ NcpGivesUp
  PROVE  Begun(c)' /\ (verdict # "none" => verdict' = verdict /\ up' = up)
<1> USE DEF IInv, TypeOK
<1>1. UNCHANGED <<calling, handler, held>>
  BY DEF NcpCommand, NcpData, NcpGivesUp
<1>2. kind(c)' = kind(c) /\ job' = job /\ Running(job[c]) /\ job[c] \in Call
  BY <1>1 DEF kind, calling, Running, Jobs
<1>3. kind(c) \in Kinds
  BY <1>2 DEF kind, Call
<1>4. CASE down = << >>
  <2>1. NcpGivesUp /\ mode # NoCall
    BY <1>4 DEF NcpCommand, NcpData, NcpGivesUp
  <2>2. Asked(c)
    BY <2>1 DEF Begun, Unjudged, Refused, Done
  <2>3. Asked(c)' /\ ~held' /\ verdict' = verdict /\ up' = up
    BY <1>1, <1>2, <2>1, <2>2 DEF Asked, Begun, NcpGivesUp, Says, handler, history
  <2> QED BY <2>3 DEF Begun
<1>5. CASE down # << >>
  <2>1. Unjudged(c) /\ down = Sent(c, "command") /\ up = << >> /\ mode = NoCall
    BY <1>5 DEF Begun, Unjudged, Refused, Done, Asked
  <2>2. Head(down) = [what |-> "command", of |-> job[c]] /\ Tail(down) = << >>
    BY <2>1, Ends DEF Sent
  <2>3. NcpCommand
    BY <2>1 DEF NcpData, NcpGivesUp, NcpCommand
  <2>4. down' = << >> /\ verdict = "none" /\ ~held'
        /\ (kind(c) \in WithData => ~semTx') /\ ~lastError'
    BY <1>1, <2>1, <2>2, <2>3 DEF NcpCommand, Unjudged, Begun, handler
  <2>5. CASE up' = Append(up, Line("ERROR", job[c], "none")) /\ verdict' = "ERROR" /\ mode' = mode
    <3>1. up' = <<Says(c, "ERROR")>>
      <4>1. \A x : Append(<< >>, x) = <<x>>
        OBVIOUS
      <4> QED BY <2>1, <2>5, <4>1 DEF Says
    <3>2. Refused(c)'
      BY <1>2, <2>1, <2>4, <2>5, <3>1 DEF Refused, Says
    <3> QED BY <2>4, <3>2 DEF Begun
  <2>6. CASE /\ up' = up \o Accepts(job[c])
             /\ mode' = IF kind(c) \in WithData THEN job[c] ELSE NoCall
             /\ verdict' = IF kind(c) \in WithData THEN "asked" ELSE "OK"
    <3>1. up' = Accepts(job[c])
      <4>1. Accepts(job[c]) \in Seq(Lines)
        BY <1>2, AcceptsType
      <4>2. \A t \in Seq(Lines) : << >> \o t = t
        OBVIOUS
      <4> QED BY <2>1, <2>6, <4>1, <4>2
    <3>2. CASE kind(c) = "execute"
      <4>1. up' = <<Says(c, "OK")>>
        BY <3>1, <3>2 DEF Accepts, Says, kind
      <4>2. Done(c)'
        BY <1>2, <2>4, <2>6, <3>2, <4>1 DEF Done, Says, WithData
      <4> QED BY <2>4, <4>2 DEF Begun
    <3>3. CASE kind(c) = "query"
      <4>1. up' = <<Says(c, "data"), Says(c, "OK")>>
        BY <3>1, <3>3 DEF Accepts, Says, kind
      <4>2. Done(c)'
        BY <1>2, <2>4, <2>6, <3>3, <4>1 DEF Done, Says, WithData
      <4> QED BY <2>4, <4>2 DEF Begun
    <3>4. CASE kind(c) = "send"
      <4>1. up' = <<Says(c, "OK"), Says(c, ">")>>
        BY <3>1, <3>4 DEF Accepts, Says, kind
      <4>2. Asked(c)'
        BY <1>2, <2>4, <2>6, <3>4, <4>1 DEF Asked, Says, WithData
      <4> QED BY <2>4, <4>2 DEF Begun
    <3>5. CASE kind(c) = "post"
      <4>1. up' = <<Says(c, ">")>>
        BY <3>1, <3>5 DEF Accepts, Says, kind
      <4>2. Asked(c)'
        BY <1>2, <2>4, <2>6, <3>5, <4>1 DEF Asked, Says, WithData
      <4> QED BY <2>4, <4>2 DEF Begun
    <3> QED BY <1>3, <3>2, <3>3, <3>4, <3>5 DEF Kinds
  <2>7. \/ up' = Append(up, Line("ERROR", job[c], "none")) /\ verdict' = "ERROR" /\ mode' = mode
        \/ /\ up' = up \o Accepts(job[c])
           /\ mode' = IF kind(c) \in WithData THEN job[c] ELSE NoCall
           /\ verdict' = IF kind(c) \in WithData THEN "asked" ELSE "OK"
    <3>1. Head(down).what = "command" /\ Head(down).of = job[c]
      BY <2>2
    <3>2. \A v : Judge(job[c], v) => verdict' = v
      BY <1>2 DEF Judge
    <3> QED BY <2>3, <3>1, <3>2 DEF NcpCommand, kind
  <2> QED BY <2>4, <2>5, <2>6, <2>7
<1> QED BY <1>4, <1>5

LEMMA NcpStored ==
  ASSUME IInv, NEW c \in Callers, lock = c, pc[c] \in {"data", "recv"},
         Awaited(c) \/ Stored(c) \/ Spoilt(c),
         NcpCommand \/ NcpData \/ NcpGivesUp
  PROVE  /\ Awaited(c)' \/ Stored(c)' \/ Spoilt(c)'
         /\ down = << >> => Awaited(c)' /\ down' = << >>
<1> USE DEF IInv, TypeOK
<1>1. UNCHANGED <<calling, handler, held>>
  BY DEF NcpCommand, NcpData, NcpGivesUp
<1>2. kind(c)' = kind(c) /\ job' = job /\ Running(job[c])
  BY <1>1 DEF kind, calling, Running
<1>3. Awaited(c)
  BY DEF Stored, Spoilt, NcpCommand, NcpData, NcpGivesUp
<1>4. CASE down = << >>
  <2>1. NcpGivesUp
    BY <1>4 DEF NcpCommand, NcpData
  <2> QED BY <1>1, <1>2, <1>3, <1>4, <2>1 DEF Awaited, NcpGivesUp, Sent, handler, history
<1>5. CASE down # << >>
  <2>1. down = Sent(c, "data") /\ up = << >> /\ mode \in {NoCall, job[c]}
    BY <1>3, <1>5 DEF Awaited
  <2>2. Head(down) = [what |-> "data", of |-> job[c]] /\ Tail(down) = << >>
    BY <2>1, Ends DEF Sent
  <2>3. CASE NcpGivesUp
    BY <1>1, <1>2, <1>3, <2>3 DEF Awaited, NcpGivesUp, Sent, handler, history
  <2>4. CASE NcpCommand
    <3>1. down' = << >> /\ UNCHANGED <<up, mode, verdict>>
      BY <2>2, <2>4 DEF NcpCommand
    <3> QED BY <1>1, <1>2, <1>3, <1>5, <3>1 DEF Awaited, handler
  <2>5. CASE NcpData
    <3>1. mode = job[c] /\ mode' = NoCall /\ down' = << >>
      BY <2>1, <2>2, <2>5 DEF NcpData
    <3>2. ~lastError' /\ ~semResponse'
      BY <1>1, <1>3 DEF Awaited, handler
    <3>3. \A x : Append(up, x) = <<x>>
      BY <2>1
    <3>4. CASE up' = Append(up, Line("Recv", job[c], kind(c))) /\ verdict' = "OK"
      <4>1. up' = <<Line("Recv", job'[c], kind(c)')>>
        BY <1>2, <3>3, <3>4
      <4> QED BY <1>5, <3>1, <3>2, <3>4, <4>1 DEF Stored
    <3>5. CASE /\ up' \in {Append(up, Line("Recv", job[c], "short")),
                            Append(up, Line("ERROR", job[c], "none"))}
               /\ verdict' = "ERROR"
      <4>1. up' \in {<<Line("Recv", job'[c], "short")>>, <<Line("ERROR", job'[c], "none")>>}
        BY <1>2, <3>3, <3>5
      <4> QED BY <1>5, <3>1, <3>2, <3>5, <4>1 DEF Spoilt, Says
    <3>6. \/ up' = Append(up, Line("Recv", job[c], kind(c))) /\ verdict' = "OK"
          \/ /\ up' \in {Append(up, Line("Recv", job[c], "short")),
                          Append(up, Line("ERROR", job[c], "none"))}
             /\ verdict' = "ERROR"
      BY <1>2, <2>5, <3>1 DEF NcpData, Judge, kind
    <3> QED BY <1>5, <3>4, <3>5, <3>6
  <2> QED BY <1>5, <2>3, <2>4, <2>5
<1> QED BY <1>4, <1>5

LEMMA NcpStage ==
  ASSUME IInv, NEW c \in Callers, lock = c, pc[c] # "setCmds", Stage(c),
         NcpCommand \/ NcpData \/ NcpGivesUp
  PROVE  Stage(c)'
<1>1. UNCHANGED <<calling, handler, held>>
  BY DEF NcpCommand, NcpData, NcpGivesUp
<1>2. UNCHANGED <<pc, ret, job, semResponse, lastError>> /\ kind(c)' = kind(c)
  BY <1>1 DEF calling, handler, kind
<1>3. ~Quiet
  BY DEF Quiet, NcpCommand, NcpData, NcpGivesUp
<1>4. CASE pc[c] \in {"await", "error", "resetRecv", "setLen", "prompt"}
  <2>1. Begun(c) /\ pc[c] # "idle"
    BY <1>4 DEF Stage
  <2>2. Begun(c)' /\ (verdict # "none" => verdict' = verdict /\ up' = up)
    BY <2>1, NcpBegun
  <2>3. Answered(c) => Answered(c)' /\ verdict' = verdict
    BY <1>2, <2>2 DEF Answered, Says
  <2> QED BY <1>2, <1>4, <2>2, <2>3 DEF Stage
<1>5. CASE pc[c] = "data"
  <2>1. Awaited(c)' /\ down' = << >>
    BY <1>5, NcpStored DEF Stage
  <2> QED BY <1>1, <1>2, <1>5, <2>1 DEF Stage
<1>6. CASE pc[c] = "recv"
  <2>1. Awaited(c)' \/ Stored(c)' \/ Spoilt(c)'
    BY <1>6, NcpStored DEF Stage
  <2> QED BY <1>1, <1>2, <1>6, <2>1 DEF Stage
<1>7. CASE pc[c] \notin {"await", "error", "resetRecv", "setLen", "prompt", "data", "recv"}
  <2>1. pc[c] \in {"unset", "unlock"} /\ ret[c] = "TIMEOUT"
    BY <1>3, <1>7 DEF Stage, Before, Ended, IInv, TypeOK, Exclusion, Places
  <2> QED BY <1>2, <2>1 DEF Stage
<1> QED BY <1>4, <1>5, <1>6, <1>7

(***************************************************************************)
(* A call that began on a quiet link gets its own answer.                  *)
(***************************************************************************)

Inv == IInv /\ Numbered /\ Exchange

LEMMA NextExchange == Inv /\ [Next]_vars => Exchange'
<1> SUFFICES ASSUME IInv, Numbered, Exchange, [Next]_vars PROVE Exchange'
  BY DEF Inv
<1>1. CASE \E c \in Callers : Start(c) \/ CallerStep(c)
  BY <1>1, CallerExchange
<1>2. CASE ParsePrompt \/ ParseLine \/ ParseGlued
  <2>1. UNCHANGED calling /\ quiet' = quiet
    BY <1>2 DEF ParsePrompt, ParseLine, ParseGlued, history
  <2>2. ASSUME NEW c \in Callers, lock' = c
        PROVE  Prepared(c)' /\ (pc'[c] # "setCmds" /\ quiet' => Stage(c)')
    BY <1>2, <2>1, <2>2, ParserPrepared, ParserStage DEF Exchange, calling
  <2> QED BY <2>2 DEF Exchange
<1>3. CASE NcpCommand \/ NcpData \/ NcpGivesUp
  <2>1. UNCHANGED calling /\ quiet' = quiet
    BY <1>3 DEF NcpCommand, NcpData, NcpGivesUp, history
  <2>2. ASSUME NEW c \in Callers, lock' = c
        PROVE  Prepared(c)' /\ (pc'[c] # "setCmds" /\ quiet' => Stage(c)')
    BY <1>3, <2>1, <2>2, NcpPrepared, NcpStage DEF Exchange, calling
  <2> QED BY <2>2 DEF Exchange
<1>4. CASE UNCHANGED vars
  BY <1>4 DEF vars, calling, handler, link, history, Exchange, Prepared, Stage, Before, Begun,
     Unjudged, Refused, Done, Asked, Answered, Awaited, Stored, Spoilt, Ended, Quiet, Sent,
     Says, kind
<1> QED BY <1>1, <1>2, <1>3, <1>4 DEF Next

LEMMA InvInductive == Spec => []Inv
<1>1. Init => Inv
  <2>1. Init => Exchange
    BY ModemAssumption DEF Init, Exchange
  <2> QED BY <2>1, InitIInv, InitNumbered DEF Inv
<1>2. Inv /\ [Next]_vars => Inv'
  BY NextIInv, NextNumbered, NextExchange DEF Inv
<1> QED BY <1>1, <1>2, PTL DEF Spec

LEMMA OwnAnswerHolds == Inv => OwnAnswer
<1> SUFFICES ASSUME IInv, Exchange, NEW c \in Callers, quiet
             PROVE  /\ pc[c] = "data" => verdict = "asked"
                    /\ pc[c] = "unlock" /\ ret[c] # "TIMEOUT" =>
                         /\ ret[c] = verdict
                         /\ kind(c) = "query" /\ ret[c] = "OK" => rxData = job[c].call
                         /\ Quiet
  BY DEF Inv, OwnAnswer
<1>1. pc[c] \in {"data", "unlock"} => Stage(c)
  BY DEF IInv, Exclusion, Exchange
<1> QED BY <1>1 DEF Stage, Awaited, Ended

(* A call that finds the link quiet is asked for its data before it writes *)
(* them and returns, unless it times out, the verdict of the NCP on its    *)
(* own command and the answer to its own query, and leaves the link quiet  *)
(* (the resets in modem_cmd_send_ext and W61_AT_Common_RequestSendData).   *)
THEOREM AnswersOwned == Spec => []OwnAnswer
BY InvInductive, OwnAnswerHolds, PTL

(***************************************************************************)
(* Every call returns: no step of the holder of the lock leads back.       *)
(***************************************************************************)

(* How many statements a call has before it at most. *)
Left(p) ==
  CASE p = "setCmds" -> 13 [] p = "reset" -> 12 [] p = "write" -> 11 [] p = "await" -> 10
    [] p = "error" -> 9 [] p = "resetRecv" -> 8 [] p = "setLen" -> 7 [] p = "prompt" -> 6
    [] p = "data" -> 5 [] p = "recv" -> 4 [] p = "recvError" -> 3 [] p = "unset" -> 2
    [] OTHER -> 1

HasAtMost(n) == lock # NoOne /\ Left(pc[lock]) <= n

(* The steps of the others, of the parser and of the NCP change nothing of *)
(* the call that has the lock.                                             *)
LEMMA HolderUndisturbed ==
  ASSUME IInv, [Next]_vars, NEW c \in Callers, lock = c, ~CallerStep(c)
  PROVE  lock' = c /\ pc'[c] = pc[c]
<1>1. ASSUME NEW d \in Callers, Start(d) PROVE lock' = c /\ pc'[c] = pc[c]
  BY <1>1 DEF Start, At, IInv, Exclusion, TypeOK
<1>2. ASSUME NEW d \in Callers, CallerStep(d) PROVE lock' = c /\ pc'[c] = pc[c]
  <2>1. d # c /\ pc[d] \in {"idle", "lock"} /\ lock # NoOne
    BY <1>2, ModemAssumption DEF IInv, Exclusion
  <2> QED BY <1>2, <2>1 DEF CallerStep, Lock, SetCmds, Reset, Write, Await, GetError,
             ResetRecv, SetLen, Prompt, WriteData, Recv, RecvError, Timeout, Waits, Unset,
             Unlock, At
<1>3. CASE ParsePrompt \/ ParseLine \/ ParseGlued \/ NcpCommand \/ NcpData \/ NcpGivesUp
  BY <1>3 DEF ParsePrompt, ParseLine, ParseGlued, NcpCommand, NcpData, NcpGivesUp, calling
<1>4. CASE UNCHANGED vars
  BY <1>4 DEF vars, calling
<1> QED BY <1>1, <1>2, <1>3, <1>4 DEF Next

(* Each of its own leaves it fewer statements, or gives the lock back. *)
LEMMA HolderAdvances ==
  ASSUME IInv, NEW c \in Callers, lock = c, CallerStep(c)
  PROVE  \/ lock' = c /\ Left(pc'[c]) <= Left(pc[c]) - 1 /\ Left(pc[c]) # 1
         \/ lock' = NoOne /\ pc'[c] = "idle"
<1> USE DEF At, IInv, TypeOK
<1>1. CASE Unlock(c)
  BY <1>1 DEF Unlock
<1>2. CASE Lock(c)
  BY <1>2, ModemAssumption DEF Lock
<1>3. CASE Timeout(c)
  <2>1. pc[c] \in {"await", "recv", "prompt"} /\ pc'[c] = "unset" /\ lock' = c
    BY <1>3 DEF Timeout, Waits
  <2>2. Left("await") = 10 /\ Left("recv") = 4 /\ Left("prompt") = 6 /\ Left("unset") = 2
    BY DEF Left
  <2> QED BY <2>1, <2>2
<1>4. CASE SetCmds(c) \/ Reset(c) \/ Write(c) \/ Await(c) \/ GetError(c)
  BY <1>4 DEF SetCmds, Reset, Write, Await, GetError, Left
<1>5. CASE ResetRecv(c) \/ SetLen(c) \/ Prompt(c) \/ WriteData(c) \/ Recv(c)
           \/ RecvError(c) \/ Unset(c)
  BY <1>5 DEF ResetRecv, SetLen, Prompt, WriteData, Recv, RecvError, Unset, Left
<1> QED BY <1>1, <1>2, <1>3, <1>4, <1>5 DEF CallerStep

LEMMA LeftRange == \A p : Left(p) \in 1..13
BY DEF Left

(* A call with at most n statements before it keeps to that, and has fewer *)
(* after its next step.                                                    *)
LEMMA FewerLeft ==
  ASSUME NEW n \in Nat, IInv, [Next]_vars, HasAtMost(n)
  PROVE  /\ HasAtMost(n)' \/ lock' = NoOne
         /\ <<HolderStep>>_vars => HasAtMost(n - 1)' \/ lock' = NoOne
<1>1. PICK c \in Callers : lock = c
  BY DEF HasAtMost, IInv, TypeOK
<1>2. c # NoOne /\ Left(pc[c]) <= n
  BY <1>1 DEF HasAtMost
<1>3. Left(pc[c]) \in Nat /\ Left(pc'[c]) \in Nat
  BY LeftRange
<1>4. CASE CallerStep(c)
  BY <1>1, <1>2, <1>3, <1>4, HolderAdvances DEF HasAtMost
<1>5. CASE ~CallerStep(c)
  BY <1>1, <1>2, <1>5, HolderUndisturbed DEF HasAtMost, HolderStep
<1> QED BY <1>4, <1>5

(* Who takes the lock of the AT layer gives it back, with or without an    *)
(* answer, as long as it goes on: the failures and the timeouts of         *)
(* modem_cmd_send_ext and W61_AT_Common_RequestSendData all release it.    *)
THEOREM LockIsGivenBack == Spec /\ HolderGoesOn => LockComesBack
<1> DEFINE Free == lock = NoOne
           Taken == lock # NoOne
           Step == HolderStep
           L0 == HasAtMost(0)
           L1 == HasAtMost(1)
           L2 == HasAtMost(2)
           L3 == HasAtMost(3)
           L4 == HasAtMost(4)
           L5 == HasAtMost(5)
           L6 == HasAtMost(6)
           L7 == HasAtMost(7)
           L8 == HasAtMost(8)
           L9 == HasAtMost(9)
           L10 == HasAtMost(10)
           L11 == HasAtMost(11)
           L12 == HasAtMost(12)
           L13 == HasAtMost(13)
<1>1. Taken /\ IInv => L13
  BY LeftRange DEF HasAtMost
<1>2. ~L0
  BY LeftRange DEF HasAtMost
<1>3. IInv /\ [Next]_vars /\ L1 =>
        (L1' \/ Free') /\ (<<Step>>_vars => L0' \/ Free')
  BY FewerLeft
<1>4. IInv /\ [Next]_vars /\ L2 =>
        (L2' \/ Free') /\ (<<Step>>_vars => L1' \/ Free')
  BY FewerLeft
<1>5. IInv /\ [Next]_vars /\ L3 =>
        (L3' \/ Free') /\ (<<Step>>_vars => L2' \/ Free')
  BY FewerLeft
<1>6. IInv /\ [Next]_vars /\ L4 =>
        (L4' \/ Free') /\ (<<Step>>_vars => L3' \/ Free')
  BY FewerLeft
<1>7. IInv /\ [Next]_vars /\ L5 =>
        (L5' \/ Free') /\ (<<Step>>_vars => L4' \/ Free')
  BY FewerLeft
<1>8. IInv /\ [Next]_vars /\ L6 =>
        (L6' \/ Free') /\ (<<Step>>_vars => L5' \/ Free')
  BY FewerLeft
<1>9. IInv /\ [Next]_vars /\ L7 =>
        (L7' \/ Free') /\ (<<Step>>_vars => L6' \/ Free')
  BY FewerLeft
<1>10. IInv /\ [Next]_vars /\ L8 =>
        (L8' \/ Free') /\ (<<Step>>_vars => L7' \/ Free')
  BY FewerLeft
<1>11. IInv /\ [Next]_vars /\ L9 =>
        (L9' \/ Free') /\ (<<Step>>_vars => L8' \/ Free')
  BY FewerLeft
<1>12. IInv /\ [Next]_vars /\ L10 =>
        (L10' \/ Free') /\ (<<Step>>_vars => L9' \/ Free')
  BY FewerLeft
<1>13. IInv /\ [Next]_vars /\ L11 =>
        (L11' \/ Free') /\ (<<Step>>_vars => L10' \/ Free')
  BY FewerLeft
<1>14. IInv /\ [Next]_vars /\ L12 =>
        (L12' \/ Free') /\ (<<Step>>_vars => L11' \/ Free')
  BY FewerLeft
<1>15. IInv /\ [Next]_vars /\ L13 =>
        (L13' \/ Free') /\ (<<Step>>_vars => L12' \/ Free')
  BY FewerLeft
<1>16. Taken <=> ~Free
  OBVIOUS
<1>17. HolderGoesOn => []<>Free \/ []<><<Step>>_vars
  BY DEF HolderGoesOn
<1> HIDE DEF Free, Taken, Step, L0, L1, L2, L3, L4, L5, L6, L7, L8, L9, L10, L11, L12, L13
<1>18. Spec /\ HolderGoesOn => (Taken ~> Free)
  BY <1>1, <1>2, <1>3, <1>4, <1>5, <1>6, <1>7, <1>8, <1>9, <1>10, <1>11, <1>12, <1>13, <1>14,
     <1>15, <1>16, <1>17, Inductive, PTL DEF Spec
<1> QED BY <1>18 DEF LockComesBack, Taken, Free

(* Every call returns if moreover the semaphore is fair to those that wait *)
(* for it.                                                                 *)
THEOREM CallsReturn == Spec /\ HolderGoesOn /\ LockIsFair => CallReturns
<1>1. ASSUME NEW c \in Callers
      PROVE  Spec /\ (lock # NoOne ~> lock = NoOne)
               /\ ([]<>(pc[c] = "lock" /\ lock = NoOne) => []<><<Lock(c)>>_vars)
             => (pc[c] = "lock" ~> pc[c] = "idle")
  <2> DEFINE Wants == pc[c] = "lock"
             Idle  == pc[c] = "idle"
             Mine  == lock = c
             Free  == lock = NoOne
             Taken == lock # NoOne
             Served == pc[c] = "lock" /\ lock = NoOne
             Takes == Lock(c)
  <2>1. IInv /\ [Next]_vars /\ Wants => Wants' \/ Mine'
    <3>1. CASE Lock(c)
      BY <3>1 DEF Lock
    <3>2. CASE ~Lock(c)
      <4>1. ASSUME NEW d \in Callers, Start(d) \/ CallerStep(d), Wants, IInv PROVE Wants'
        <5>1. d # c
          BY <3>2, <4>1 DEF CallerStep, SetCmds, Reset, Write, Await, GetError, ResetRecv,
             SetLen, Prompt, WriteData, Recv, RecvError, Timeout, Waits, Unset, Unlock, At,
             Start
        <5> QED BY <4>1, <5>1 DEF CallerStep, Lock, SetCmds, Reset, Write, Await, GetError,
           ResetRecv, SetLen, Prompt, WriteData, Recv, RecvError, Timeout, Waits, Unset,
           Unlock, At, Start, IInv, TypeOK
      <4>2. CASE ParsePrompt \/ ParseLine \/ ParseGlued \/ NcpCommand \/ NcpData
                 \/ NcpGivesUp
        BY <4>2 DEF ParsePrompt, ParseLine, ParseGlued, NcpCommand, NcpData, NcpGivesUp,
           calling
      <4>3. CASE UNCHANGED vars
        BY <4>3 DEF vars, calling
      <4> QED BY <4>1, <4>2, <4>3 DEF Next
    <3> QED BY <3>1, <3>2
  <2>2. IInv /\ [Next]_vars /\ Mine => Mine' \/ Idle'
    BY HolderUndisturbed, HolderAdvances
  <2>3. (Free => ~Mine) /\ (Taken <=> ~Free) /\ (Served <=> Wants /\ Free)
    BY ModemAssumption
  <2>4. IInv /\ <<Takes>>_vars => Mine'
    BY DEF Lock
  <2> HIDE DEF Wants, Idle, Mine, Free, Taken, Served, Takes
  <2>5. Spec /\ (Taken ~> Free) /\ ([]<>Served => []<><<Takes>>_vars) => (Wants ~> Idle)
    BY <2>1, <2>2, <2>3, <2>4, Inductive, PTL DEF Spec
  <2> QED BY <2>5 DEF Wants, Idle, Free, Taken, Served, Takes
<1>2. LockIsFair => \A c \in Callers :
        []<>(pc[c] = "lock" /\ lock = NoOne) => []<><<Lock(c)>>_vars
  BY DEF LockIsFair
<1>3. Spec /\ HolderGoesOn => (lock # NoOne ~> lock = NoOne)
  BY LockIsGivenBack DEF LockComesBack
<1> QED BY <1>1, <1>2, <1>3 DEF CallReturns
=============================================================================
