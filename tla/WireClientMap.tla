--------------------------- MODULE WireClientMap ---------------------------
(***************************************************************************)
(* The wire client's handling of buffer map replies                       *)
(* (src/src/dawn_wire/client/ClientDoers.cpp, DoBufferMapReadAsyncCallback *)
(* and DoBufferMapWriteAsyncCallback, and DoDeviceUncapturedErrorCallback),*)
(* with the client buffer operations                                       *)
(* that create and drop map requests and the server that answers them.     *)
(*                                                                         *)
(* The client and the server talk over two ordered streams: c2s carries    *)
(* MapAsync, Unmap and Destroy commands, s2c the map replies. A request is *)
(* identified by (buffer, serial); the client keeps the outstanding ones   *)
(* in buffer->requests. A reply may arrive after the request was dropped   *)
(* by Unmap or after the buffer was destroyed. When ServerMisbehaves the   *)
(* server may also send replies no honest server sends (wrong kind,        *)
(* duplicate, success while mapped, undecodable data).                     *)
(***************************************************************************)
EXTENDS Naturals, Sequences, FiniteSets

CONSTANTS
    Buffers,            \* client buffer objects
    MaxSerial,          \* map requests per buffer (bounds requestSerial)
    MaxUnmaps,          \* Unmap calls per buffer
    ServerMisbehaves,   \* whether the server may send malformed replies
    MaxForged,          \* replies a misbehaving server may make up
    ForgedStatuses,     \* the status words it may put in them
    ForgedErrorTypes,   \* the error type words it may put in an error callback
    ServerErrorTypes,   \* the DawnErrorTypes the device's error callback reports
    MaxErrors           \* uncaptured errors the device reports

Serials == 0 .. MaxSerial - 1
Kinds == {"read", "write"}
\* DawnBufferMapAsyncStatus values.
SUCCESS == "SUCCESS"
ERROR == "ERROR"
UNKNOWN == "UNKNOWN"
CONTEXT_LOST == "CONTEXT_LOST"
DEVICE_LOST == "DEVICE_LOST"
Statuses == {SUCCESS, ERROR, UNKNOWN, CONTEXT_LOST, DEVICE_LOST}
\* The reply carries the status as a uint32_t: any word may arrive, one
\* that names no DawnBufferMapAsyncStatus included.
OUT_OF_RANGE == "OUT_OF_RANGE"
WireStatuses == Statuses \cup {OUT_OF_RANGE}
\* DawnErrorType values; the error type also travels as a 32-bit word.
ErrorTypes == {"NO_ERROR", "VALIDATION", "OUT_OF_MEMORY", "UNKNOWN", "DEVICE_LOST"}
WireErrorTypes == ErrorTypes \cup {OUT_OF_RANGE}

ASSUME MaxSerial \in Nat \ {0} /\ MaxUnmaps \in Nat /\ ServerMisbehaves \in BOOLEAN
       /\ MaxForged \in Nat /\ ForgedStatuses \subseteq WireStatuses
       /\ ForgedErrorTypes \subseteq WireErrorTypes /\ ServerErrorTypes \subseteq ErrorTypes
       /\ MaxErrors \in Nat

VARIABLES
    alive,          \* alive[b]: the client object still exists
    requestSerial,  \* requestSerial[b]: the next request serial
    requests,       \* requests[b][s]: kind of the outstanding request, or "none"
    readHandle,     \* readHandle[b]: the buffer owns a ReadHandle (mapped for read)
    writeHandle,    \* writeHandle[b]: the buffer owns a WriteHandle
    unmaps,         \* unmaps[b]: Unmap calls made so far (bounded)
    wireError,      \* a doer returned false: the client stopped handling replies
    c2s, s2c,       \* the two command streams
    smapped,        \* server: the native buffer is mapped or has a pending map
    spending,       \* server: the pending native map request, or {} if none
    forged,         \* replies a misbehaving server has made up (bounded)
    errorsSent,     \* uncaptured errors the device has reported (bounded)
    issued,         \* history: issued[b][s] is the kind of request s, or "none"
    calls,          \* history: calls[b][s] lists the statuses the user callback got
    errorCalls      \* history: the error types the device error callback got

client == <<alive, requestSerial, requests, readHandle, writeHandle, unmaps, wireError>>
server == <<smapped, spending, forged, errorsSent>>
vars == <<client, server, c2s, s2c, issued, calls, errorCalls>>

Command == [op : {"mapRead", "mapWrite"}, buf : Buffers, serial : Serials]
           \cup [op : {"unmap", "destroy"}, buf : Buffers]
ReplyWith(sts) == [buf : Buffers, serial : Serials, kind : Kinds, status : sts,
                   wellFormed : BOOLEAN]
ErrorReply(types) == [kind : {"error"}, errorType : types]
Reply == ReplyWith(WireStatuses) \cup ErrorReply(WireErrorTypes)

\* Buffer::ClearMapRequests(status): the callback history h of one buffer
\* after the callback of every request still in rs was fired with status.
ClearMapRequests(h, rs, status) ==
    [s \in Serials |-> IF rs[s] # "none" THEN Append(h[s], status) ELSE h[s]]

NoRequests == [s \in Serials |-> "none"]

Init ==
    /\ alive = [b \in Buffers |-> TRUE]
    /\ requestSerial = [b \in Buffers |-> 0]
    /\ requests = [b \in Buffers |-> NoRequests]
    /\ readHandle = [b \in Buffers |-> FALSE]
    /\ writeHandle = [b \in Buffers |-> FALSE]
    /\ unmaps = [b \in Buffers |-> 0]
    /\ wireError = FALSE
    /\ c2s = <<>>
    /\ s2c = <<>>
    /\ smapped = [b \in Buffers |-> FALSE]
    /\ spending = [b \in Buffers |-> {}]
    /\ forged = 0
    /\ errorsSent = 0
    /\ errorCalls = <<>>
    /\ issued = [b \in Buffers |-> NoRequests]
    /\ calls = [b \in Buffers |-> [s \in Serials |-> <<>>]]

(***************************************************************************)
(* Client buffer operations (the callers of the doers).                    *)
(***************************************************************************)
\* MapReadAsync / MapWriteAsync: record the request, send the command.
MapAsync(b, kind) ==
    LET s == requestSerial[b] IN
    /\ alive[b]
    /\ s < MaxSerial
    /\ requestSerial' = [requestSerial EXCEPT ![b] = s + 1]
    /\ requests' = [requests EXCEPT ![b][s] = kind]
    /\ issued' = [issued EXCEPT ![b][s] = kind]
    /\ c2s' = Append(c2s, [op |-> IF kind = "read" THEN "mapRead" ELSE "mapWrite",
                           buf |-> b, serial |-> s])
    /\ UNCHANGED <<alive, readHandle, writeHandle, unmaps, wireError, server, s2c, calls,
                   errorCalls>>

\* The state change of Unmap: drop the handles, fire every outstanding
\* request with UNKNOWN, tell the server. Also run from inside a callback.
UnmapEffect(b, rs) ==
    /\ readHandle' = [readHandle EXCEPT ![b] = FALSE]
    /\ writeHandle' = [writeHandle EXCEPT ![b] = FALSE]
    /\ requests' = [requests EXCEPT ![b] = NoRequests]
    /\ calls' = [calls EXCEPT ![b] = ClearMapRequests(calls[b], rs, UNKNOWN)]
    /\ c2s' = Append(c2s, [op |-> "unmap", buf |-> b])

Unmap(b) ==
    /\ alive[b]
    /\ unmaps[b] < MaxUnmaps
    /\ unmaps' = [unmaps EXCEPT ![b] = @ + 1]
    /\ UnmapEffect(b, requests[b])
    /\ UNCHANGED <<alive, requestSerial, wireError, server, s2c, issued, errorCalls>>

\* Releasing the last reference: ~Buffer fires the outstanding requests.
Destroy(b) ==
    /\ alive[b]
    /\ alive' = [alive EXCEPT ![b] = FALSE]
    /\ requests' = [requests EXCEPT ![b] = NoRequests]
    /\ readHandle' = [readHandle EXCEPT ![b] = FALSE]
    /\ writeHandle' = [writeHandle EXCEPT ![b] = FALSE]
    /\ calls' = [calls EXCEPT ![b] = ClearMapRequests(calls[b], requests[b], UNKNOWN)]
    /\ c2s' = Append(c2s, [op |-> "destroy", buf |-> b])
    /\ UNCHANGED <<requestSerial, unmaps, wireError, server, s2c, issued, errorCalls>>

\* After a doer failed the embedder tears the client down, which destroys
\* every buffer and so fires every outstanding request.
Teardown ==
    /\ wireError
    /\ \E b \in Buffers : alive[b]
    /\ alive' = [b \in Buffers |-> FALSE]
    /\ requests' = [b \in Buffers |-> NoRequests]
    /\ readHandle' = [b \in Buffers |-> FALSE]
    /\ writeHandle' = [b \in Buffers |-> FALSE]
    /\ calls' = [b \in Buffers |->
                   IF alive[b] THEN ClearMapRequests(calls[b], requests[b], UNKNOWN)
                               ELSE calls[b]]
    /\ UNCHANGED <<requestSerial, unmaps, wireError, server, c2s, s2c, issued, errorCalls>>

(***************************************************************************)
(* The doers: Client::DoBufferMapReadAsyncCallback and                     *)
(* Client::DoBufferMapWriteAsyncCallback handle one reply r.               *)
(***************************************************************************)
\* Mutant: the "Buffer is already mapped" check is missing.
GetMappedDataRead_NoMappedCheck(r, req) ==
    /\ req # "write"
    /\ r.status = SUCCESS => r.wellFormed

\* GetMappedData of the read doer for a request of kind req. The
\* initialDataInfoLength > SIZE_MAX check cannot fail on a 64-bit build.
GetMappedDataRead(r, req) ==
    /\ req # "write"
    /\ r.status = SUCCESS =>
           /\ ~(readHandle[r.buf] \/ writeHandle[r.buf])
           /\ r.wellFormed                      \* DeserializeInitialData

\* Mutant: the write doer does not reject a reply to a read request.
GetMappedDataWrite_NoKindCheck(r, req, openOk) ==
    r.status = SUCCESS => ~(readHandle[r.buf] \/ writeHandle[r.buf]) /\ openOk

\* GetMappedData of the write doer; openOk is whether WriteHandle::Open
\* returned memory.
GetMappedDataWrite(r, req, openOk) ==
    /\ req # "read"
    /\ r.status = SUCCESS =>
           /\ ~(readHandle[r.buf] \/ writeHandle[r.buf])
           /\ openOk

\* Mutant: the request is erased only after its callback returned.
Remaining_EraseAfterCallback(b, s) == requests[b]

\* The requests of buffer b left when the callback of request s runs: the
\* request is erased before the callback is called.
Remaining(b, s) == [requests[b] EXCEPT ![s] = "none"]

\* Mutant: the callback is skipped when GetMappedData fails.
CallbackStatuses_NoFatalCallback(r, ok) == IF ok THEN <<r.status>> ELSE <<>>

\* What the request's callback receives: its status, or DEVICE_LOST when
\* GetMappedData failed (the callback is called even on a fatal error).
CallbackStatuses(r, ok) == IF ok THEN <<r.status>> ELSE <<DEVICE_LOST>>

\* Erase the request, map the buffer on success, call the callback and
\* return ok. The user callback may itself call buffer.Unmap().
MapCallback(r, ok) ==
    LET b == r.buf
        h == [calls[b] EXCEPT ![r.serial] = @ \o CallbackStatuses(r, ok)]
        maps == ok /\ r.status = SUCCESS
    IN
    /\ wireError' = ~ok
    /\ \/ /\ requests' = [requests EXCEPT ![b] = Remaining(b, r.serial)]
          /\ readHandle' = [readHandle EXCEPT ![b] = @ \/ (maps /\ r.kind = "read")]
          /\ writeHandle' = [writeHandle EXCEPT ![b] = @ \/ (maps /\ r.kind = "write")]
          /\ calls' = [calls EXCEPT ![b] = h]
          /\ UNCHANGED <<unmaps, c2s>>
       \/ /\ unmaps[b] < MaxUnmaps                \* Unmap() inside the callback
          /\ unmaps' = [unmaps EXCEPT ![b] = @ + 1]
          /\ readHandle' = [readHandle EXCEPT ![b] = FALSE]
          /\ writeHandle' = [writeHandle EXCEPT ![b] = FALSE]
          /\ requests' = [requests EXCEPT ![b] = NoRequests]
          /\ calls' = [calls EXCEPT ![b] = ClearMapRequests(h, Remaining(b, r.serial), UNKNOWN)]
          /\ c2s' = Append(c2s, [op |-> "unmap", buf |-> b])

\* A reply for a destroyed buffer, or for a request Unmap already dropped.
IgnoreReply(r) ==
    /\ ~alive[r.buf] \/ requests[r.buf][r.serial] = "none"
    /\ UNCHANGED <<readHandle, writeHandle, requests, unmaps, wireError, c2s, calls>>

DoBufferMapReadAsyncCallback(r) ==
    \/ IgnoreReply(r)
    \/ /\ alive[r.buf] /\ requests[r.buf][r.serial] # "none"
       /\ MapCallback(r, GetMappedDataRead(r, requests[r.buf][r.serial]))

DoBufferMapWriteAsyncCallback(r) ==
    \/ IgnoreReply(r)
    \/ /\ alive[r.buf] /\ requests[r.buf][r.serial] # "none"
       /\ \E openOk \in BOOLEAN :
              MapCallback(r, GetMappedDataWrite(r, requests[r.buf][r.serial], openOk))

\* Mutant: the error type is not checked against DawnErrorType.
DoDeviceUncapturedErrorCallback_NoTypeCheck(r) ==
    /\ errorCalls' = Append(errorCalls, r.errorType)
    /\ UNCHANGED wireError

\* Client::DoDeviceUncapturedErrorCallback: a type word that names no
\* DawnErrorType fails the doer; otherwise Device::HandleError calls the
\* user's error callback.
DoDeviceUncapturedErrorCallback(r) ==
    \/ /\ r.errorType \in ErrorTypes
       /\ errorCalls' = Append(errorCalls, r.errorType)
       /\ UNCHANGED wireError
    \/ /\ r.errorType \notin ErrorTypes
       /\ wireError' = TRUE
       /\ UNCHANGED errorCalls

\* Client::HandleCommands takes the next reply; after a doer returned false
\* the client handles no more.
ClientHandleReply ==
    /\ ~wireError
    /\ s2c # <<>>
    /\ s2c' = Tail(s2c)
    /\ \/ /\ Head(s2c).kind = "read" /\ DoBufferMapReadAsyncCallback(Head(s2c))
          /\ UNCHANGED errorCalls
       \/ /\ Head(s2c).kind = "write" /\ DoBufferMapWriteAsyncCallback(Head(s2c))
          /\ UNCHANGED errorCalls
       \/ /\ Head(s2c).kind = "error" /\ DoDeviceUncapturedErrorCallback(Head(s2c))
          /\ UNCHANGED <<requests, readHandle, writeHandle, unmaps, c2s, calls>>
    /\ UNCHANGED <<alive, requestSerial, server, issued>>

(***************************************************************************)
(* The server: a native buffer takes one map at a time (a second MapAsync *)
(* fails with ERROR), and Unmap or Destroy fires a pending map with        *)
(* UNKNOWN.                                                                *)
(***************************************************************************)
ServerReply(b, s, kind, status) ==
    [buf |-> b, serial |-> s, kind |-> kind, status |-> status, wellFormed |-> TRUE]

ServerHandleCommand ==
    LET cmd == Head(c2s)
        b == cmd.buf
    IN
    /\ c2s # <<>>
    /\ c2s' = Tail(c2s)
    /\ \/ /\ cmd.op \in {"mapRead", "mapWrite"}
          /\ LET kind == IF cmd.op = "mapRead" THEN "read" ELSE "write" IN
             IF smapped[b]
             THEN /\ s2c' = Append(s2c, ServerReply(b, cmd.serial, kind, ERROR))
                  /\ UNCHANGED <<smapped, spending>>
             ELSE /\ smapped' = [smapped EXCEPT ![b] = TRUE]
                  /\ spending' = [spending EXCEPT ![b] = {[serial |-> cmd.serial, kind |-> kind]}]
                  /\ UNCHANGED s2c
       \/ /\ cmd.op \in {"unmap", "destroy"}
          /\ smapped' = [smapped EXCEPT ![b] = FALSE]
          /\ spending' = [spending EXCEPT ![b] = {}]
          /\ s2c' = IF spending[b] = {} THEN s2c
                    ELSE LET p == CHOOSE p \in spending[b] : TRUE
                         IN Append(s2c, ServerReply(b, p.serial, p.kind, UNKNOWN))
    /\ UNCHANGED <<client, forged, errorsSent, issued, calls, errorCalls>>

\* The native map of buffer b completes.
ServerCompleteMap(b) ==
    /\ spending[b] # {}
    /\ \E p \in spending[b], st \in {SUCCESS, CONTEXT_LOST} :
           s2c' = Append(s2c, ServerReply(b, p.serial, p.kind, st))
    /\ spending' = [spending EXCEPT ![b] = {}]
    /\ UNCHANGED <<client, smapped, forged, errorsSent, c2s, issued, calls, errorCalls>>

\* A misbehaving server sends any reply: wrong kind, duplicate, a success
\* while mapped, data that does not deserialize.
ServerForgeReply ==
    /\ ServerMisbehaves
    /\ forged < MaxForged
    /\ forged' = forged + 1
    /\ \E r \in ReplyWith(ForgedStatuses) \cup ErrorReply(ForgedErrorTypes) :
           s2c' = Append(s2c, r)
    /\ UNCHANGED <<client, smapped, spending, errorsSent, c2s, issued, calls, errorCalls>>

\* The device's uncaptured-error callback on the server sends the error on.
ServerUncapturedError ==
    /\ errorsSent < MaxErrors
    /\ errorsSent' = errorsSent + 1
    /\ \E t \in ServerErrorTypes : s2c' = Append(s2c, [kind |-> "error", errorType |-> t])
    /\ UNCHANGED <<client, smapped, spending, forged, c2s, issued, calls, errorCalls>>

Next ==
    \/ \E b \in Buffers, kind \in Kinds : MapAsync(b, kind)
    \/ \E b \in Buffers : Unmap(b) \/ Destroy(b) \/ ServerCompleteMap(b)
    \/ Teardown
    \/ ClientHandleReply
    \/ ServerHandleCommand
    \/ ServerForgeReply
    \/ ServerUncapturedError

\* The server handles every command and completes every native map, the
\* embedder feeds every reply to the client, and tears a failed client down.
Fairness ==
    /\ WF_vars(ServerHandleCommand)
    /\ \A b \in Buffers : WF_vars(ServerCompleteMap(b))
    /\ WF_vars(ClientHandleReply)
    /\ WF_vars(Teardown)

Spec == Init /\ [][Next]_vars /\ Fairness

(***************************************************************************)
(* Properties                                                              *)
(***************************************************************************)
\* Every variable has its type; in particular every user callback receives a
\* value of its enum: the error callback a DawnErrorType, which
\* DoDeviceUncapturedErrorCallback checks, and the map callbacks a
\* DawnBufferMapAsyncStatus, although the map doers pass on the reply's
\* status word with a static_cast and never check it.
TypeOK ==
    /\ alive \in [Buffers -> BOOLEAN]
    /\ requestSerial \in [Buffers -> 0 .. MaxSerial]
    /\ requests \in [Buffers -> [Serials -> Kinds \cup {"none"}]]
    /\ issued \in [Buffers -> [Serials -> Kinds \cup {"none"}]]
    /\ readHandle \in [Buffers -> BOOLEAN]
    /\ writeHandle \in [Buffers -> BOOLEAN]
    /\ unmaps \in [Buffers -> 0 .. MaxUnmaps]
    /\ wireError \in BOOLEAN
    /\ forged \in 0 .. MaxForged
    /\ c2s \in Seq(Command)
    /\ s2c \in Seq(Reply)
    /\ calls \in [Buffers -> [Serials -> Seq(Statuses)]]
    /\ errorsSent \in 0 .. MaxErrors
    /\ errorCalls \in Seq(ErrorTypes)

\* Each map callback fires at most once, whatever the order of replies,
\* Unmap, destruction and an Unmap made from inside another callback (the
\* erase-before-callback in both doers and ClearMapRequests).
CallbackAtMostOnce == \A b \in Buffers, s \in Serials : Len(calls[b][s]) <= 1

\* A buffer never owns a ReadHandle and a WriteHandle at once, even when the
\* server reports success for two requests (the "already mapped" checks).
AtMostOneHandle == \A b \in Buffers : ~(readHandle[b] /\ writeHandle[b])

\* A buffer holds a ReadHandle (WriteHandle) only if the user was told that a
\* read (write) request of it succeeded: the doers reject a reply of the
\* other kind instead of mapping the buffer for it.
HandleMatchesCallback ==
    \A b \in Buffers :
        /\ readHandle[b] => \E s \in Serials : issued[b][s] = "read" /\ calls[b][s] = <<SUCCESS>>
        /\ writeHandle[b] => \E s \in Serials : issued[b][s] = "write" /\ calls[b][s] = <<SUCCESS>>

\* Every map request's callback is eventually called ("Dawn promises that
\* all callbacks are called in finite time. Even if a fatal error occurs").
EveryRequestAnswered ==
    \A b \in Buffers, s \in Serials : (issued[b][s] # "none") ~> (calls[b][s] # <<>>)
=============================================================================
