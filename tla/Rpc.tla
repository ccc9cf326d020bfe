-------------------------------- MODULE Rpc --------------------------------
(***************************************************************************)
(* A command of the command line or of the MCP server on its way through   *)
(* the daemon: RpcClient (daemon/embed_client.cpp), the frames and the     *)
(* handshake (daemon/rpc_v2.cpp), the connection's handler thread          *)
(* (handle_client_conn in daemon/embed_server.cpp).                        *)
(*                                                                         *)
(* Every command makes an RpcClient of its own, so a command has one       *)
(* connection: over the unix socket, where it first compares builds and    *)
(* waits at most 30 seconds, or over TCP, where it first shakes hands and  *)
(* waits for ever.  What a command does to an index is in Daemon; here it  *)
(* is carried out or it fails.                                             *)
(***************************************************************************)
EXTENDS Integers, Sequences

CONSTANTS
  Commands,            \* runs of a command; a retry is another one
  Builds,              \* builds of the binary
  Callers,             \* the callers there are
  MaxFaults            \* bound: crashes of the daemon, connections that break

\* Who runs a command: the way it connects (GOGOL_HOST), its key (GOGOL_KEY),
\* its build, and whether its request is over the limit of 64 MB.  A key is the
\* daemon's, one of that name with other bytes, or one of another name.
KeyKinds == {"none", "same", "other bytes", "other name"}
Caller == [via : {"unix", "tcp"}, key : KeyKinds, build : Builds, huge : BOOLEAN]

ASSUME RpcAssumption == 
  /\ MaxFaults \in Nat
  /\ Callers \subseteq {w \in Caller : w.via = "unix" => w.key = "none"}

VARIABLES
  who,                 \* the caller of each command
  keyed,               \* [keys] is configured
  running, build,      \* the daemon and its build
  cpc, spc,            \* where a command and its connection's handler are
  toServer, toClient,  \* frames written and not read
  linked,              \* "up", or a TCP connection "reset" or gone "silent"
  clientCrypto, serverCrypto,  \* CryptoState of both ends
  handled,             \* builds of the daemons that carried it out, in order
  outcome,             \* what came of it
  answer,              \* what RpcClient returned
  rpcFaults

rpcVars == <<who, keyed, running, build, cpc, spc, toServer, toClient, linked,
             clientCrypto, serverCrypto, handled, outcome, answer, rpcFaults>>
setting == <<who, keyed>>
daemon == <<running, build>>

\* A nonce is the random one its sender drew, advanced n times.
Nonce == [by : {"client", "server"}, n : Nat]
Crypto == [key : KeyKinds, send : Nonce, recv : Nonce]
First(side) == [by |-> side, n |-> 0]
Plain == [key |-> "none", send |-> First("client"), recv |-> First("server")]

CryptoInit(key, local, remote) == [key |-> key, send |-> First(local), recv |-> First(remote)]

Tags == {"hello", "welcome", "reject", "ping", "pong", "command", "reply"}
Message == [tag : Tags, val : Builds \cup {"", "ok", "err"}]
Frame == [msg : Message, key : KeyKinds, nonce : Nonce]
Say(tag, val) == [tag |-> tag, val |-> val]

Failures == {"Not connected", "Send failed", "Read failed"}
\* What may come of a command at its client: its process may be killed.
Results == {"unused", "ok", "Error: err", "killed"} \cup Failures

RpcTypeOK ==
  /\ who \in [Commands -> Caller] /\ keyed \in BOOLEAN
  /\ running \in BOOLEAN /\ build \in Builds
  /\ cpc \in [Commands -> {"idle", "connected", "welcome", "pong", "ready", "sending",
                           "answer", "done"}]
  /\ spc \in [Commands -> {"none", "handshake", "reading", "working", "replying", "closed"}]
  /\ toServer \in [Commands -> Seq(Frame)] /\ toClient \in [Commands -> Seq(Frame)]
  /\ linked \in [Commands -> {"up", "reset", "silent"}]
  /\ clientCrypto \in [Commands -> Crypto] /\ serverCrypto \in [Commands -> Crypto]
  /\ handled \in [Commands -> Seq(Builds)]
  /\ outcome \in [Commands -> {"", "ok", "err"}]
  /\ answer \in [Commands -> Results \cup {""}]
  /\ rpcFaults \in Nat

RpcInit ==
  /\ who \in [Commands -> Callers]
  /\ keyed \in BOOLEAN
  /\ running = TRUE /\ build \in Builds
  /\ cpc = [c \in Commands |-> "idle"] /\ spc = [c \in Commands |-> "none"]
  /\ toServer = [c \in Commands |-> <<>>] /\ toClient = [c \in Commands |-> <<>>]
  /\ linked = [c \in Commands |-> "up"]
  /\ clientCrypto = [c \in Commands |-> Plain]
  /\ serverCrypto = [c \in Commands |-> Plain]
  /\ handled = [c \in Commands |-> <<>>]
  /\ outcome = [c \in Commands |-> ""] /\ answer = [c \in Commands |-> ""]
  /\ rpcFaults = 0

-----------------------------------------------------------------------------
(* Frames.                                                                 *)

\* crypto_frame_write encrypts with the nonce to send and advances it, whether
\* the frame gets out or not; frame_write sends the message as it is.
Sealed(msg, crypto) == [msg |-> msg, key |-> crypto.key, nonce |-> crypto.send]
Sent(crypto) == IF crypto.key = "none" THEN crypto ELSE [crypto EXCEPT !.send.n = @ + 1]
Received(crypto) == IF crypto.key = "none" THEN crypto ELSE [crypto EXCEPT !.recv.n = @ + 1]
\* crypto_frame_read needs the key and the nonce it was encrypted with.
Opens(frame, crypto) ==
  frame.key = crypto.key /\ (crypto.key # "none" => frame.nonce = crypto.recv)

\* Who still reads what the other end writes.  An end whose peer has closed, or
\* whose connection was reset, gets to know; one whose peer is silent does not.
ServerHears(c) == linked[c] = "up" /\ spc[c] \notin {"none", "closed"}
ClientHears(c) == linked[c] = "up" /\ cpc[c] # "done"
ServerGone(c) == linked[c] # "silent" /\ ~ServerHears(c)
ClientGone(c) == linked[c] # "silent" /\ ~ClientHears(c)

ServerWrites(c, msg) ==
  /\ toClient' = IF ClientHears(c)
                 THEN [toClient EXCEPT ![c] = Append(@, Sealed(msg, serverCrypto[c]))]
                 ELSE toClient
  /\ serverCrypto' = [serverCrypto EXCEPT ![c] = Sent(@)]

-----------------------------------------------------------------------------
(* The client.                                                             *)

ClientGoes(c, step) == cpc' = [cpc EXCEPT ![c] = step]
Returns(c, result) == ClientGoes(c, "done") /\ answer' = [answer EXCEPT ![c] = result]
ClientStays == UNCHANGED <<setting, daemon, linked, handled, outcome, rpcFaults>>

\* A write to a daemon that is gone.  Clients leave SIGPIPE as it is, only the
\* daemon ignores it: over the unix socket the write kills the client's process.
\* Over TCP it does so too, unless a reset fails it first or nobody knows yet.
WriteFails(c, failure) ==
  /\ ServerGone(c)
  /\ \/ Returns(c, "killed")
     \/ who[c].via = "tcp" /\ Returns(c, failure)
WriteIsLost(c) == who[c].via = "tcp" /\ ~ServerHears(c)
ClientWrites(c, frame) ==
  IF ServerHears(c) THEN toServer' = [toServer EXCEPT ![c] = Append(@, frame)]
  ELSE WriteIsLost(c) /\ UNCHANGED toServer

\* RpcClient::connect_to_daemon: connect.  The daemon's accept loop gives the
\* connection a handler.
Connect(c) ==
  /\ cpc[c] = "idle" /\ running
  /\ ClientGoes(c, "connected")
  /\ spc' = [spc EXCEPT ![c] = IF who[c].via = "unix" THEN "reading" ELSE "handshake"]
  /\ ClientStays /\ UNCHANGED <<toServer, toClient, clientCrypto, serverCrypto, answer>>

\* What it writes then: the request for the daemon's build, or the first message
\* of the handshake.
Greet(c) ==
  /\ cpc[c] = "connected"
  /\ LET unix == who[c].via = "unix" IN
       \/ /\ ClientWrites(c, Sealed(Say(IF unix THEN "ping" ELSE "hello", ""), Plain))
          /\ ClientGoes(c, IF unix THEN "pong" ELSE "welcome") /\ UNCHANGED answer
       \/ WriteFails(c, "Not connected") /\ UNCHANGED toServer
  /\ ClientStays /\ UNCHANGED <<spc, toClient, clientCrypto, serverCrypto>>

ConnectFails(c) ==
  /\ cpc[c] = "idle" /\ ~running
  /\ Returns(c, "Not connected")
  /\ ClientStays /\ UNCHANGED <<spc, toServer, toClient, clientCrypto, serverCrypto>>

\* client_handshake: welcomed, the client encrypts if it has a key.
Welcomed(c) ==
  /\ cpc[c] = "welcome" /\ toClient[c] # <<>>
  /\ toClient' = [toClient EXCEPT ![c] = Tail(@)]
  /\ IF Head(toClient[c]).msg.tag = "welcome"
     THEN /\ ClientGoes(c, "ready") /\ UNCHANGED answer
          /\ clientCrypto' = IF who[c].key = "none" THEN clientCrypto
               ELSE [clientCrypto EXCEPT ![c] = CryptoInit(who[c].key, "client", "server")]
     ELSE Returns(c, "Not connected") /\ UNCHANGED clientCrypto
  /\ ClientStays /\ UNCHANGED <<spc, toServer, serverCrypto>>

\* check_daemon_version.
Ponged(c) ==
  /\ cpc[c] = "pong" /\ toClient[c] # <<>>
  /\ toClient' = [toClient EXCEPT ![c] = Tail(@)]
  /\ IF Head(toClient[c]).msg.val = who[c].build
     THEN ClientGoes(c, "ready") /\ UNCHANGED answer
     ELSE Returns(c, "Not connected")
  /\ ClientStays /\ UNCHANGED <<spc, toServer, clientCrypto, serverCrypto>>

\* send_msg.  A request over the limit does not fit into the socket's buffers:
\* the client is still writing when the daemon has read its length.
SendCommand(c) ==
  /\ cpc[c] = "ready"
  /\ \/ /\ ClientWrites(c, Sealed(Say("command", ""), clientCrypto[c]))
        /\ ClientGoes(c, IF who[c].huge THEN "sending" ELSE "answer") /\ UNCHANGED answer
     \/ WriteFails(c, "Send failed") /\ UNCHANGED toServer
  /\ clientCrypto' = [clientCrypto EXCEPT ![c] = Sent(@)]
  /\ ClientStays /\ UNCHANGED <<spc, toClient, serverCrypto>>

SendingFails(c) ==
  /\ cpc[c] = "sending"
  /\ WriteFails(c, "Send failed")
  /\ ClientStays /\ UNCHANGED <<spc, toServer, toClient, clientCrypto, serverCrypto>>

\* Mutant: what arrives is taken for success.
ReadAnswerUnread(c) ==
  /\ cpc[c] = "answer" /\ toClient[c] # <<>>
  /\ toClient' = [toClient EXCEPT ![c] = Tail(@)]
  /\ Returns(c, "ok")
  /\ ClientStays /\ UNCHANGED <<spc, toServer, clientCrypto, serverCrypto>>

\* recv_msg and the status byte: cmd_add and cmd_rm return ERR as "Error: " and
\* the message, cmd_query and cmd_list as the message, cmd_get as nothing.
ReadAnswer(c) ==
  /\ cpc[c] = "answer" /\ toClient[c] # <<>>
  /\ LET frame == Head(toClient[c]) IN
       Returns(c, IF ~Opens(frame, clientCrypto[c]) THEN "Read failed"
                  ELSE IF frame.msg.val = "ok" THEN "ok" ELSE "Error: err")
  /\ toClient' = [toClient EXCEPT ![c] = Tail(@)]
  /\ clientCrypto' = [clientCrypto EXCEPT ![c] = Received(@)]
  /\ ClientStays /\ UNCHANGED <<spc, toServer, serverCrypto>>

\* A read that ends: connect_to_daemon gives up, a command has failed.
GivesUp(c) ==
  /\ Returns(c, IF cpc[c] = "answer" THEN "Read failed" ELSE "Not connected")
  /\ ClientStays /\ UNCHANGED <<spc, toServer, toClient, clientCrypto, serverCrypto>>

Awaits(c) == cpc[c] \in {"welcome", "pong", "answer"} /\ toClient[c] = <<>>
ReadFails(c) == Awaits(c) /\ ServerGone(c) /\ GivesUp(c)

\* SO_RCVTIMEO is set on the unix socket only.  The request stays where it is.
Timeout(c) == Awaits(c) /\ who[c].via = "unix" /\ GivesUp(c)

\* ~RpcClient without a command: a tool whose arguments do not do.
Disconnect(c) ==
  /\ cpc[c] = "ready"
  /\ Returns(c, "unused")
  /\ ClientStays /\ UNCHANGED <<spc, toServer, toClient, clientCrypto, serverCrypto>>

-----------------------------------------------------------------------------
(* The connection's handler.                                               *)

HandlerGoes(c, step) == spc' = [spc EXCEPT ![c] = step]
HandlerStays == UNCHANGED <<setting, daemon, cpc, linked, clientCrypto, answer, rpcFaults>>

\* Mutant: a client that does not ask for encryption is served in any case.
AcceptsPlain(w) == w.key \in {"none"} \cup (IF keyed THEN {"same", "other bytes"} ELSE {})
\* server_handshake: with keys configured a client must name one of them,
\* without it must not name any.
Accepts(w) == IF keyed THEN w.key \in {"same", "other bytes"} ELSE w.key = "none"

GreetsBack(c, tag) ==
  toClient' = IF ClientHears(c)
              THEN [toClient EXCEPT ![c] = Append(@, Sealed(Say(tag, ""), Plain))]
              ELSE toClient

\* The daemon encrypts with its own bytes of the key named.
Handshake(c) ==
  /\ spc[c] = "handshake" /\ toServer[c] # <<>>
  /\ toServer' = [toServer EXCEPT ![c] = Tail(@)]
  /\ IF Accepts(who[c])
     THEN /\ HandlerGoes(c, "reading")
          /\ GreetsBack(c, "welcome")
          /\ serverCrypto' = IF who[c].key = "none" THEN serverCrypto
               ELSE [serverCrypto EXCEPT ![c] = CryptoInit("same", "server", "client")]
     ELSE /\ HandlerGoes(c, "closed")
          /\ GreetsBack(c, "reject")
          /\ UNCHANGED serverCrypto
  /\ HandlerStays /\ UNCHANGED <<handled, outcome>>

\* frame_read refuses what is over the limit.
Readable(c) ==
  LET frame == Head(toServer[c]) IN
    /\ Opens(frame, serverCrypto[c])
    /\ ~(frame.msg.tag = "command" /\ who[c].huge)

ReadPing(c) ==
  /\ spc[c] = "reading" /\ toServer[c] # <<>>
  /\ Readable(c) /\ Head(toServer[c]).msg.tag = "ping"
  /\ toServer' = [toServer EXCEPT ![c] = Tail(@)]
  /\ ServerWrites(c, Say("pong", build))
  /\ HandlerStays /\ UNCHANGED <<spc, handled, outcome>>

ReadCommand(c) ==
  /\ spc[c] = "reading" /\ toServer[c] # <<>>
  /\ Readable(c) /\ Head(toServer[c]).msg.tag = "command"
  /\ HandlerGoes(c, "working")
  /\ toServer' = [toServer EXCEPT ![c] = Tail(@)]
  /\ serverCrypto' = [serverCrypto EXCEPT ![c] = Received(@)]
  /\ HandlerStays /\ UNCHANGED <<toClient, handled, outcome>>

\* Mutant: a message that cannot be read is skipped.
SkipUnreadable(c) ==
  /\ spc[c] = "reading" /\ toServer[c] # <<>> /\ ~Readable(c)
  /\ toServer' = [toServer EXCEPT ![c] = Tail(@)]
  /\ HandlerStays /\ UNCHANGED <<spc, toClient, serverCrypto, handled, outcome>>

\* An empty message ends the loop: the peer is gone, or it could not be read.
LeaveLoop(c) ==
  /\ spc[c] \in {"handshake", "reading"}
  /\ IF toServer[c] = <<>> THEN ClientGone(c)
     ELSE spc[c] = "reading" /\ ~Readable(c)
  /\ HandlerGoes(c, "closed")
  /\ HandlerStays /\ UNCHANGED <<toServer, toClient, serverCrypto, handled, outcome>>

\* The command's job has run and succeeded, or failed, or thrown.
Execute(c) ==
  /\ spc[c] = "working"
  /\ HandlerGoes(c, "replying")
  /\ handled' = [handled EXCEPT ![c] = Append(@, build)]
  /\ \E result \in {"ok", "err"} : outcome' = [outcome EXCEPT ![c] = result]
  /\ HandlerStays /\ UNCHANGED <<toServer, toClient, serverCrypto>>

\* A reply to a client that has left is written to nobody.
Reply(c) ==
  /\ spc[c] = "replying"
  /\ HandlerGoes(c, "reading")
  /\ ServerWrites(c, Say("reply", outcome[c]))
  /\ HandlerStays /\ UNCHANGED <<toServer, handled, outcome>>

-----------------------------------------------------------------------------
(* Faults.                                                                 *)

RpcFault == rpcFaults < MaxFaults /\ rpcFaults' = rpcFaults + 1

\* Replies that were written may still be read.
Crash ==
  /\ running /\ RpcFault
  /\ running' = FALSE
  /\ spc' = [c \in Commands |-> IF spc[c] = "none" THEN "none" ELSE "closed"]
  /\ toServer' = [c \in Commands |-> <<>>]
  /\ \E kept \in SUBSET Commands :
       toClient' = [c \in Commands |-> IF c \in kept THEN toClient[c] ELSE <<>>]
  /\ UNCHANGED <<setting, build, cpc, linked, clientCrypto, serverCrypto,
                 handled, outcome, answer>>

Start ==
  /\ ~running
  /\ running' = TRUE /\ build' \in Builds
  /\ UNCHANGED <<setting, cpc, spc, toServer, toClient, linked, clientCrypto,
                 serverCrypto, handled, outcome, answer, rpcFaults>>

\* A TCP connection is reset, or its peer's host or the network is gone and no
\* end hears of the other again: nobody has asked for keep-alive messages.
Break(c) ==
  /\ who[c].via = "tcp" /\ linked[c] = "up" /\ cpc[c] \notin {"idle", "done"} /\ RpcFault
  /\ \E how \in {"reset", "silent"} : linked' = [linked EXCEPT ![c] = how]
  /\ toServer' = [toServer EXCEPT ![c] = <<>>]
  /\ toClient' = [toClient EXCEPT ![c] = <<>>]
  /\ UNCHANGED <<setting, daemon, cpc, spc, clientCrypto, serverCrypto, handled,
                 outcome, answer>>

\* What was written to a silent peer was retransmitted often enough.
Unacknowledged(c) ==
  /\ linked[c] = "silent"
  /\ linked' = [linked EXCEPT ![c] = "reset"]
  /\ UNCHANGED <<setting, daemon, cpc, spc, toServer, toClient, clientCrypto, serverCrypto,
                 handled, outcome, answer, rpcFaults>>

ClientStep(c) ==
  \/ Greet(c) \/ Welcomed(c) \/ Ponged(c) \/ SendingFails(c)
  \/ ReadAnswer(c) \/ ReadFails(c) \/ Timeout(c)
HandlerStep(c) ==
  \/ Handshake(c) \/ ReadPing(c) \/ ReadCommand(c) \/ LeaveLoop(c)
  \/ Execute(c) \/ Reply(c)

RpcNext ==
  \/ \E c \in Commands :
       \/ Connect(c) \/ ConnectFails(c) \/ SendCommand(c) \/ Disconnect(c)
       \/ ClientStep(c) \/ HandlerStep(c) \/ Break(c) \/ Unacknowledged(c)
  \/ Crash \/ Start

RpcSpec == RpcInit /\ [][RpcNext]_rpcVars

-----------------------------------------------------------------------------
(* Properties.                                                             *)

\* A client is told what came of this very command: success and error only with
\* that outcome, "Not connected" and "Send failed" only if nothing was done, and
\* nothing was done either when the signal killed it.  After a failed read either
\* may be the case.
ToldTheTruth ==
  \A c \in Commands :
    /\ answer[c] = "ok" => outcome[c] = "ok"
    /\ answer[c] = "Error: err" => outcome[c] = "err"
    /\ answer[c] \in {"Not connected", "Send failed", "unused", "killed"} => handled[c] = <<>>

\* A command is carried out at most once, whatever its client did while it was
\* under way, and by a daemon that may: over the unix socket one of the client's
\* own build, over TCP one that shares the client's key or has none configured.
HandledOnceByRightDaemon ==
  \A c \in Commands : handled[c] # <<>> =>
    /\ Len(handled[c]) = 1
    /\ who[c].via = "unix" => Head(handled[c]) = who[c].build
    /\ who[c].via = "tcp" => who[c].key = IF keyed THEN "same" ELSE "none"
=============================================================================
