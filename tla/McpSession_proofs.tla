-------------------------- MODULE McpSession_proofs --------------------------
(***************************************************************************)
(* First about commands (Rpc), for any commands, callers and builds and    *)
(* through crashes, restarts, lost connections and timeouts: a command is  *)
(* carried out at most once and by a daemon that may, and its client is    *)
(* told the truth.                                                         *)
(*                                                                         *)
(* Then about sessions: a session uses its commands the way Rpc says they  *)
(* are used, so the above holds in it; a cursor reaches the hit that was   *)
(* shown, and a note that is acknowledged is stored.                       *)
(***************************************************************************)
EXTENDS McpSession, SequenceTheorems, TLAPS

-----------------------------------------------------------------------------
(* What both ends of a connection know.                                    *)

\* The states of both ends after the handshake.
ClientKeyed(c) ==
  IF who[c].key = "none" THEN Plain ELSE CryptoInit(who[c].key, "client", "server")
ServerKeyed(c) ==
  IF who[c].key = "none" THEN Plain ELSE CryptoInit("same", "server", "client")

Hello == Sealed(Say("hello", ""), Plain)
Ping == Sealed(Say("ping", ""), Plain)
CommandFrame(c) == Sealed(Say("command", ""), ClientKeyed(c))
ReplyFrame(c) == Sealed(Say("reply", outcome[c]), Received(ServerKeyed(c)))

\* The command may have reached the daemon.
Asked(c) == cpc[c] \in {"sending", "answer"} \/ answer[c] \in {"ok", "Error: err", "Read failed"}
Live(c) == spc[c] \notin {"none", "closed"}
Up == running
\* Over TCP: the client has the daemon's key, if it has any.
KeyFits(c) == who[c].key = IF keyed THEN "same" ELSE "none"

ClientInv(c) ==
  /\ cpc[c] # "done" <=> answer[c] = ""
  /\ cpc[c] \in {"idle", "connected", "welcome", "pong"} => clientCrypto[c] = Plain
  /\ cpc[c] = "idle" => spc[c] = "none"
  /\ cpc[c] \in {"idle", "connected"} =>
       toServer[c] = <<>> /\ toClient[c] = <<>> /\ serverCrypto[c] = Plain
  /\ cpc[c] = "welcome" => who[c].via = "tcp"
  /\ cpc[c] = "pong" => who[c].via = "unix"
  /\ cpc[c] \in {"welcome", "pong"} =>
       toClient[c] = <<>> \/ \E f \in Frame : toClient[c] = <<f>>
  /\ cpc[c] = "ready" => clientCrypto[c] = ClientKeyed(c) /\ toClient[c] = <<>>
  /\ cpc[c] = "answer" =>
       /\ clientCrypto[c] = Sent(ClientKeyed(c))
       /\ toClient[c] = <<>> \/ (toClient[c] = <<ReplyFrame(c)>> /\ handled[c] # <<>>)
  /\ cpc[c] = "sending" => who[c].huge
  /\ handled[c] # <<>> => Asked(c) /\ ~who[c].huge

\* What is on its way to a handler that reads and has carried out nothing yet.
Greeted(c) ==
  \/ /\ who[c].via = "unix" /\ toServer[c] = <<Ping>> /\ ~Asked(c)
     /\ cpc[c] \in {"pong", "done"} /\ toClient[c] = <<>>
  \/ /\ toServer[c] = <<>>
     /\ who[c].via = "tcp" => cpc[c] # "connected"
     /\ cpc[c] = "pong" /\ toClient[c] # <<>> => Head(toClient[c]).msg.val = build
  \/ Asked(c) /\ toServer[c] = <<CommandFrame(c)>>

ServerInv(c) ==
  /\ spc[c] = "none" => cpc[c] \in {"idle", "done"}
  /\ spc[c] = "handshake" =>
       /\ who[c].via = "tcp" /\ ~Asked(c) /\ cpc[c] \in {"connected", "welcome", "done"}
       /\ toClient[c] = <<>> /\ serverCrypto[c] = Plain
       /\ toServer[c] \in {<<>>, <<Hello>>}
  /\ spc[c] = "reading" /\ handled[c] = <<>> => serverCrypto[c] = ServerKeyed(c) /\ Greeted(c)
  /\ spc[c] = "reading" /\ handled[c] # <<>> =>
       serverCrypto[c] = Sent(Received(ServerKeyed(c))) /\ toServer[c] = <<>>
  /\ spc[c] \in {"working", "replying"} =>
       /\ Asked(c) /\ toServer[c] = <<>> /\ serverCrypto[c] = Received(ServerKeyed(c))
       /\ cpc[c] = "answer" => toClient[c] = <<>>
  /\ spc[c] = "working" =>
       handled[c] = <<>> /\ ~who[c].huge /\ (who[c].via = "tcp" => KeyFits(c))
  /\ spc[c] = "replying" => handled[c] # <<>>
  /\ linked[c] # "up" => toServer[c] = <<>>

DaemonInv(c) ==
  /\ handled[c] = <<>> <=> outcome[c] = ""
  /\ Live(c) => Up
  /\ Live(c) /\ who[c].via = "unix" /\ (cpc[c] = "ready" \/ Asked(c)) => build = who[c].build
  /\ Live(c) /\ who[c].via = "tcp" /\ spc[c] # "handshake" => Accepts(who[c])
  /\ who[c] \in Callers

Truth(c) ==
  /\ answer[c] = "ok" => outcome[c] = "ok"
  /\ answer[c] = "Error: err" => outcome[c] = "err"
Right(c) ==
  handled[c] # <<>> =>
    /\ Len(handled[c]) = 1
    /\ who[c].via = "unix" => Head(handled[c]) = who[c].build
    /\ who[c].via = "tcp" => KeyFits(c)

Conversation(c) == ClientInv(c) /\ ServerInv(c) /\ DaemonInv(c) /\ Truth(c) /\ Right(c)
ConversationInv == RpcTypeOK /\ \A c \in Commands : Conversation(c)

-----------------------------------------------------------------------------
(* Types.                                                                  *)

LEMMA CryptoTypes ==
  ASSUME NEW k \in Crypto
  PROVE  /\ Sent(k) \in Crypto /\ Received(k) \in Crypto
         /\ \A msg \in Message : Sealed(msg, k) \in Frame
BY DEF Crypto, Nonce, Sent, Received, Sealed, Frame

LEMMA KeyTypes ==
  /\ Plain \in Crypto
  /\ \A key \in KeyKinds, local \in {"client", "server"}, remote \in {"client", "server"} :
       CryptoInit(key, local, remote) \in Crypto
BY DEF Plain, CryptoInit, First, Crypto, Nonce, KeyKinds

LEMMA SayTypes ==
  ASSUME NEW tag \in Tags, NEW val \in Builds \cup {"", "ok", "err"}
  PROVE  Say(tag, val) \in Message
BY DEF Say, Message

\* One frame is all a connection ever holds in one direction.
LEMMA OneFrame ==
  ASSUME NEW f
  PROVE  /\ Head(<<f>>) = f /\ Tail(<<f>>) = <<>> /\ <<f>> # <<>>
         /\ Append(<<>>, f) = <<f>> /\ Len(<<f>>) = 1
OBVIOUS

LEMMA CallerTypes ==
  ASSUME RpcTypeOK, NEW c \in Commands, who[c] \in Callers
  PROVE  /\ who[c] \in Caller /\ (who[c].via = "unix" => who[c].key = "none")
         /\ ClientKeyed(c) \in Crypto /\ ServerKeyed(c) \in Crypto
<1>1. who[c] \in Caller /\ (who[c].via = "unix" => who[c].key = "none")
  BY RpcAssumption
<1>2. who[c].key \in KeyKinds /\ "same" \in KeyKinds
  BY <1>1 DEF Caller, KeyKinds
<1> QED BY <1>1, <1>2, KeyTypes DEF ClientKeyed, ServerKeyed

\* The types, in groups that actions change together.
FlagsType == keyed \in BOOLEAN /\ running \in BOOLEAN /\ linked \in [Commands -> {"up", "reset", "silent"}]
OutsideType == who \in [Commands -> Caller] /\ build \in Builds /\ rpcFaults \in Nat
WireType == toServer \in [Commands -> Seq(Frame)] /\ toClient \in [Commands -> Seq(Frame)]
ClientType ==
  /\ cpc \in [Commands -> {"idle", "connected", "welcome", "pong", "ready", "sending",
                           "answer", "done"}]
  /\ clientCrypto \in [Commands -> Crypto]
  /\ answer \in [Commands -> Results \cup {""}]
HandlerType ==
  /\ spc \in [Commands -> {"none", "handshake", "reading", "working", "replying", "closed"}]
  /\ serverCrypto \in [Commands -> Crypto]
  /\ handled \in [Commands -> Seq(Builds)]
  /\ outcome \in [Commands -> {"", "ok", "err"}]

LEMMA TypeParts ==
  RpcTypeOK <=> FlagsType /\ OutsideType /\ WireType /\ ClientType /\ HandlerType
BY Zenon DEF RpcTypeOK, FlagsType, OutsideType, WireType, ClientType, HandlerType

LEMMA InitTypes == RpcInit => RpcTypeOK
<1> SUFFICES ASSUME RpcInit PROVE RpcTypeOK
  OBVIOUS
<1>1. Callers \subseteq Caller
  BY RpcAssumption
<1>2. <<>> \in Seq(Frame) /\ <<>> \in Seq(Builds)
  OBVIOUS
<1>3. FlagsType
  BY DEF RpcInit, FlagsType
<1>4. OutsideType /\ WireType /\ ClientType /\ HandlerType
  BY <1>1, <1>2, KeyTypes DEF RpcInit, OutsideType, WireType, ClientType, HandlerType
<1> QED BY <1>3, <1>4, TypeParts

LEMMA FlagsTypes ==
  ASSUME FlagsType, RpcNext
  PROVE  FlagsType'
<1>1. CASE \E c \in Commands : \/ Connect(c) \/ ConnectFails(c) \/ SendCommand(c)
                              \/ Disconnect(c) \/ ClientStep(c)
  BY <1>1 DEF FlagsType, Connect, ConnectFails, SendCommand, Disconnect, ClientStep, Greet, SendingFails, WriteFails, Welcomed,
              Ponged, ReadAnswer, ReadFails, Timeout, GivesUp, ClientStays, setting, daemon
<1>2. CASE \E c \in Commands : HandlerStep(c)
  BY <1>2 DEF FlagsType, HandlerStep, Handshake, ReadPing, ReadCommand, LeaveLoop, Execute,
              Reply, HandlerStays, setting, daemon
<1>3. CASE Crash \/ Start \/ \E c \in Commands : Break(c) \/ Unacknowledged(c)
  BY <1>3 DEF FlagsType, Crash, Start, Break, Unacknowledged, setting, daemon
<1> QED BY <1>1, <1>2, <1>3 DEF RpcNext

LEMMA OutsideTypes ==
  ASSUME OutsideType, RpcNext
  PROVE  OutsideType'
<1>1. who' = who /\ build' \in Builds
  <2>1. CASE \E c \in Commands : \/ Connect(c) \/ ConnectFails(c) \/ SendCommand(c)
                                \/ Disconnect(c) \/ ClientStep(c)
    BY <2>1 DEF OutsideType, Connect, ConnectFails, SendCommand, Disconnect, ClientStep,
                Greet, SendingFails, Welcomed, Ponged, ReadAnswer, ReadFails, Timeout, GivesUp, ClientStays,
                setting, daemon
  <2>2. CASE \E c \in Commands : HandlerStep(c)
    BY <2>2 DEF OutsideType, HandlerStep, Handshake, ReadPing, ReadCommand, LeaveLoop, Execute,
                Reply, HandlerStays, setting, daemon
  <2>3. CASE Crash \/ Start \/ \E c \in Commands : Break(c) \/ Unacknowledged(c)
    BY <2>3 DEF OutsideType, Crash, Start, Break, Unacknowledged, setting, daemon
  <2> QED BY <2>1, <2>2, <2>3 DEF RpcNext
<1>2. rpcFaults' = rpcFaults \/ rpcFaults' = rpcFaults + 1
  <2>1. CASE \E c \in Commands : \/ Connect(c) \/ ConnectFails(c) \/ SendCommand(c)
                                \/ Disconnect(c) \/ ClientStep(c)
    BY <2>1, Zenon DEF Connect, ConnectFails, SendCommand, Disconnect, ClientStep, Greet, SendingFails, WriteFails, Welcomed,
                Ponged, ReadAnswer, ReadFails, Timeout, GivesUp, ClientStays
  <2>2. CASE \E c \in Commands : HandlerStep(c)
    BY <2>2, Zenon DEF HandlerStep, Handshake, ReadPing, ReadCommand, LeaveLoop, Execute, Reply,
                HandlerStays
  <2>3. CASE Crash \/ Start \/ \E c \in Commands : Break(c) \/ Unacknowledged(c)
    BY <2>3, Zenon DEF Crash, Start, Break, Unacknowledged, RpcFault
  <2> QED BY <2>1, <2>2, <2>3 DEF RpcNext
<1> QED BY <1>1, <1>2 DEF OutsideType

LEMMA SentFrames ==
  ASSUME OutsideType, ClientType, HandlerType, NEW c \in Commands
  PROVE  /\ Sealed(Say("ping", ""), Plain) \in Frame /\ Sealed(Say("hello", ""), Plain) \in Frame
         /\ Sealed(Say("welcome", ""), Plain) \in Frame /\ Sealed(Say("reject", ""), Plain) \in Frame
         /\ Sealed(Say("command", ""), clientCrypto[c]) \in Frame
         /\ Sealed(Say("pong", build), serverCrypto[c]) \in Frame
         /\ Sealed(Say("reply", outcome[c]), serverCrypto[c]) \in Frame
<1>1. Plain \in Crypto /\ clientCrypto[c] \in Crypto /\ serverCrypto[c] \in Crypto
  BY KeyTypes DEF ClientType, HandlerType
<1>2. build \in Builds /\ outcome[c] \in {"", "ok", "err"}
  BY DEF OutsideType, HandlerType
<1>3. \A tag \in Tags : /\ Say(tag, "") \in Message /\ Say(tag, build) \in Message
                        /\ Say(tag, outcome[c]) \in Message
  BY <1>2, SayTypes
<1> QED BY <1>1, <1>3, CryptoTypes DEF Tags

\* A frame read, and a frame written.
LEMMA FrameRead ==
  ASSUME NEW wire \in [Commands -> Seq(Frame)], NEW c \in Commands, wire[c] # <<>>
  PROVE  [wire EXCEPT ![c] = Tail(wire[c])] \in [Commands -> Seq(Frame)]
OBVIOUS

LEMMA FrameWritten ==
  ASSUME NEW wire \in [Commands -> Seq(Frame)], NEW c \in Commands, NEW f \in Frame
  PROVE  /\ [wire EXCEPT ![c] = Append(wire[c], f)] \in [Commands -> Seq(Frame)]
         /\ [wire EXCEPT ![c] = <<f>>] \in [Commands -> Seq(Frame)]
OBVIOUS

LEMMA WireTypes ==
  ASSUME OutsideType, WireType, ClientType, HandlerType, RpcNext
  PROVE  WireType'
<1>0. <<>> \in Seq(Frame)
  OBVIOUS
<1>1. ASSUME NEW c \in Commands, NEW f \in Frame, ClientWrites(c, f) \/ UNCHANGED toServer
      PROVE  toServer' \in [Commands -> Seq(Frame)]
  <2>1. \/ toServer' = toServer
        \/ toServer' = [toServer EXCEPT ![c] = Append(toServer[c], f)]
    <3>1. CASE ServerHears(c)
      BY <1>1, <3>1 DEF ClientWrites
    <3>2. CASE ~ServerHears(c)
      BY <1>1, <3>2 DEF ClientWrites
    <3> QED BY <3>1, <3>2
  <2>2. toServer \in [Commands -> Seq(Frame)]
    BY DEF WireType
  <2>3. [toServer EXCEPT ![c] = Append(toServer[c], f)] \in [Commands -> Seq(Frame)]
    BY <2>2, FrameWritten
  <2> QED BY <2>1, <2>2, <2>3, Zenon
<1>2. ASSUME NEW c \in Commands, Greet(c) \/ SendCommand(c) PROVE WireType'
  <2>1. /\ toClient' = toClient
        /\ \E f \in Frame : ClientWrites(c, f) \/ UNCHANGED toServer
    <3>1. CASE Greet(c)
      <4>1. Sealed(Say(IF who[c].via = "unix" THEN "ping" ELSE "hello", ""), Plain) \in Frame
        BY SentFrames
      <4> QED BY <3>1, <4>1 DEF Greet
    <3>2. CASE SendCommand(c)
      BY <3>2, SentFrames DEF SendCommand
    <3> QED BY <1>2, <3>1, <3>2
  <2> QED BY <1>1, <2>1 DEF WireType
<1>3. ASSUME NEW c \in Commands, Welcomed(c) \/ Ponged(c) \/ ReadAnswer(c) PROVE WireType'
  <2>1. /\ toServer' = toServer /\ toClient[c] # <<>>
        /\ toClient' = [toClient EXCEPT ![c] = Tail(toClient[c])]
    BY <1>3, Zenon DEF Welcomed, Ponged, ReadAnswer
  <2> QED BY <2>1, FrameRead DEF WireType
<1>4. ASSUME NEW c \in Commands,
             \/ Connect(c) \/ ConnectFails(c) \/ SendingFails(c) \/ Disconnect(c)
             \/ ReadFails(c) \/ Timeout(c) \/ LeaveLoop(c) \/ Execute(c) \/ Unacknowledged(c)
      PROVE  WireType'
  BY <1>4, Zenon DEF WireType, Connect, SendingFails, Unacknowledged, ConnectFails, Disconnect, ReadFails, Timeout, GivesUp, LeaveLoop,
                     Execute
<1>5. ASSUME NEW c \in Commands, Handshake(c) PROVE WireType'
  <2>1. /\ toServer[c] # <<>> /\ toServer' = [toServer EXCEPT ![c] = Tail(toServer[c])]
        /\ \/ toClient' = toClient
           \/ \E tag \in {"welcome", "reject"} : toClient' = [toClient EXCEPT ![c] =
                Append(toClient[c], Sealed(Say(tag, ""), Plain))]
    <3>1. CASE ClientHears(c)
      BY <1>5, <3>1 DEF Handshake, GreetsBack
    <3>2. CASE ~ClientHears(c)
      BY <1>5, <3>2 DEF Handshake, GreetsBack
    <3> QED BY <3>1, <3>2
  <2>2. \A tag \in {"welcome", "reject"} :
          [toClient EXCEPT ![c] = Append(toClient[c], Sealed(Say(tag, ""), Plain))]
            \in [Commands -> Seq(Frame)]
    BY SentFrames, FrameWritten DEF WireType
  <2>3. [toServer EXCEPT ![c] = Tail(toServer[c])] \in [Commands -> Seq(Frame)]
    BY <2>1, FrameRead DEF WireType
  <2> QED BY <2>1, <2>2, <2>3 DEF WireType
<1>6. ASSUME NEW c \in Commands, NEW msg, Sealed(msg, serverCrypto[c]) \in Frame, ServerWrites(c, msg)
      PROVE  toClient' \in [Commands -> Seq(Frame)]
  <2>1. \/ toClient' = toClient
        \/ toClient' = [toClient EXCEPT ![c] = Append(toClient[c], Sealed(msg, serverCrypto[c]))]
    <3>1. CASE ClientHears(c)
      BY <1>6, <3>1 DEF ServerWrites
    <3>2. CASE ~ClientHears(c)
      BY <1>6, <3>2 DEF ServerWrites
    <3> QED BY <3>1, <3>2
  <2>2. [toClient EXCEPT ![c] = Append(toClient[c], Sealed(msg, serverCrypto[c]))]
          \in [Commands -> Seq(Frame)]
    BY <1>6, FrameWritten DEF WireType
  <2> QED BY <2>1, <2>2 DEF WireType
<1>7. ASSUME NEW c \in Commands, ReadPing(c) PROVE WireType'
  <2>1. /\ toServer[c] # <<>> /\ toServer' = [toServer EXCEPT ![c] = Tail(toServer[c])]
        /\ ServerWrites(c, Say("pong", build))
    BY <1>7, Zenon DEF ReadPing
  <2>2. toClient' \in [Commands -> Seq(Frame)]
    BY <1>6, <2>1, SentFrames
  <2> QED BY <2>1, <2>2, FrameRead DEF WireType
<1>8. ASSUME NEW c \in Commands, ReadCommand(c) PROVE WireType'
  <2>1. /\ toServer[c] # <<>> /\ toServer' = [toServer EXCEPT ![c] = Tail(toServer[c])]
        /\ toClient' = toClient
    BY <1>8, Zenon DEF ReadCommand
  <2> QED BY <2>1, FrameRead DEF WireType
<1>9. ASSUME NEW c \in Commands, Reply(c) PROVE WireType'
  <2>1. toServer' = toServer /\ ServerWrites(c, Say("reply", outcome[c]))
    BY <1>9, Zenon DEF Reply
  <2>2. toClient' \in [Commands -> Seq(Frame)]
    BY <1>6, <2>1, SentFrames
  <2> QED BY <2>1, <2>2 DEF WireType
<1>10. CASE Crash
  <2>1. PICK kept \in SUBSET Commands :
          /\ toServer' = [c \in Commands |-> <<>>]
          /\ toClient' = [c \in Commands |-> IF c \in kept THEN toClient[c] ELSE <<>>]
    BY <1>10, Zenon DEF Crash
  <2> QED BY <1>0, <2>1 DEF WireType
<1>11. ASSUME NEW c \in Commands, Break(c) PROVE WireType'
  <2>1. toServer' = [toServer EXCEPT ![c] = <<>>] /\ toClient' = [toClient EXCEPT ![c] = <<>>]
    BY <1>11, Zenon DEF Break
  <2> QED BY <1>0, <2>1 DEF WireType
<1>12. CASE Start
  BY <1>12, Zenon DEF Start, WireType
<1> QED BY <1>1, <1>2, <1>3, <1>4, <1>5, <1>7, <1>8, <1>9, <1>10, <1>11, <1>12
        DEF RpcNext, ClientStep, HandlerStep

LEMMA ClientTypes ==
  ASSUME OutsideType, WireType, ClientType, RpcNext
  PROVE  ClientType'
<1>1. ASSUME NEW c \in Commands, NEW step \in {"connected", "welcome", "pong", "ready", "sending", "answer"},
             ClientGoes(c, step), answer' = answer, clientCrypto' \in [Commands -> Crypto]
      PROVE  ClientType'
  BY <1>1 DEF ClientGoes, ClientType
<1>2. ASSUME NEW c \in Commands,
             NEW result \in Results,
             Returns(c, result), clientCrypto' \in [Commands -> Crypto]
      PROVE  ClientType'
  BY <1>2 DEF Returns, ClientGoes, ClientType
<1>3. UNCHANGED <<cpc, clientCrypto, answer>> => ClientType'
  BY DEF ClientType
<1>4. clientCrypto \in [Commands -> Crypto]
  BY DEF ClientType
<1>5. ASSUME NEW c \in Commands, Connect(c) \/ Greet(c) PROVE ClientType'
  <2>1. /\ clientCrypto' = clientCrypto
        /\ \/ answer' = answer /\ \E step \in {"connected", "pong", "welcome"} : ClientGoes(c, step)
           \/ \E result \in {"killed", "Not connected"} : Returns(c, result)
    <3>1. CASE Connect(c)
      BY <3>1 DEF Connect
    <3>2. CASE Greet(c)
      BY <3>2 DEF Greet, WriteFails
    <3> QED BY <1>5, <3>1, <3>2
  <2> QED BY <1>1, <1>2, <1>4, <2>1 DEF Results, Failures
<1>6. ASSUME NEW c \in Commands, SendCommand(c) \/ SendingFails(c) PROVE ClientType'
  <2>1. /\ \/ answer' = answer /\ \E step \in {"sending", "answer"} : ClientGoes(c, step)
           \/ \E result \in {"killed", "Send failed"} : Returns(c, result)
        /\ \/ clientCrypto' = [clientCrypto EXCEPT ![c] = Sent(clientCrypto[c])]
           \/ clientCrypto' = clientCrypto
    <3>1. CASE SendCommand(c)
      BY <3>1 DEF SendCommand, WriteFails
    <3>2. CASE SendingFails(c)
      BY <3>2 DEF SendingFails, WriteFails
    <3> QED BY <1>6, <3>1, <3>2
  <2>2. clientCrypto' \in [Commands -> Crypto]
    BY <1>4, <2>1, CryptoTypes
  <2> QED BY <1>1, <1>2, <2>1, <2>2 DEF Results, Failures
<1>7. ASSUME NEW c \in Commands, Welcomed(c) PROVE ClientType'
  <2>1. /\ \/ ClientGoes(c, "ready") /\ answer' = answer
           \/ Returns(c, "Not connected")
        /\ \/ clientCrypto' = clientCrypto
           \/ clientCrypto' = [clientCrypto EXCEPT ![c] = CryptoInit(who[c].key, "client", "server")]
    <3>1. CASE who[c].key = "none"
      BY <1>7, <3>1 DEF Welcomed
    <3>2. CASE who[c].key # "none"
      BY <1>7, <3>2 DEF Welcomed
    <3> QED BY <3>1, <3>2
  <2>2. CryptoInit(who[c].key, "client", "server") \in Crypto
    BY KeyTypes DEF OutsideType, Caller
  <2>3. clientCrypto' \in [Commands -> Crypto]
    BY <1>4, <2>1, <2>2
  <2> QED BY <1>1, <1>2, <2>1, <2>3 DEF Results, Failures
<1>8. ASSUME NEW c \in Commands, Ponged(c) PROVE ClientType'
  <2>1. /\ (ClientGoes(c, "ready") /\ answer' = answer) \/ Returns(c, "Not connected")
        /\ clientCrypto' = clientCrypto
    BY <1>8, Zenon DEF Ponged
  <2> QED BY <1>1, <1>2, <1>4, <2>1 DEF Results, Failures
<1>9. ASSUME NEW c \in Commands, ReadAnswer(c) PROVE ClientType'
  <2>1. /\ Returns(c, "Read failed") \/ Returns(c, "ok") \/ Returns(c, "Error: err")
        /\ clientCrypto' = [clientCrypto EXCEPT ![c] = Received(clientCrypto[c])]
    BY <1>9 DEF ReadAnswer
  <2>2. clientCrypto' \in [Commands -> Crypto]
    BY <1>4, <2>1, CryptoTypes
  <2> QED BY <1>2, <2>1, <2>2 DEF Results, Failures
<1>10. ASSUME NEW c \in Commands,
              ConnectFails(c) \/ Disconnect(c) \/ ReadFails(c) \/ Timeout(c)
       PROVE  ClientType'
  <2>1. /\ Returns(c, "Not connected") \/ Returns(c, "Read failed") \/ Returns(c, "unused")
        /\ clientCrypto' = clientCrypto
    BY <1>10 DEF ConnectFails, Disconnect, ReadFails, Timeout, GivesUp
  <2> QED BY <1>2, <1>4, <2>1 DEF Results, Failures
<1>11. ASSUME NEW c \in Commands, HandlerStep(c) \/ Break(c) \/ Unacknowledged(c) PROVE ClientType'
  BY <1>3, <1>11, Zenon DEF HandlerStep, Handshake, ReadPing, ReadCommand, LeaveLoop, Execute,
                            Reply, HandlerStays, Break, Unacknowledged
<1>12. CASE Crash \/ Start
  BY <1>3, <1>12, Zenon DEF Crash, Start
<1> QED BY <1>5, <1>6, <1>7, <1>8, <1>9, <1>10, <1>11, <1>12 DEF RpcNext, ClientStep

LEMMA HandlerTypes ==
  ASSUME OutsideType, HandlerType, RpcNext
  PROVE  HandlerType'
<1>1. ASSUME NEW c \in Commands, spc' = spc \/
               \E step \in {"handshake", "reading", "working", "replying", "closed"} :
                 spc' = [spc EXCEPT ![c] = step],
             handled' = handled, outcome' = outcome, serverCrypto' \in [Commands -> Crypto]
      PROVE  HandlerType'
  BY <1>1 DEF HandlerType
<1>2. serverCrypto \in [Commands -> Crypto]
  BY DEF HandlerType
<1>3. ASSUME NEW c \in Commands, NEW k \in Crypto, serverCrypto' = [serverCrypto EXCEPT ![c] = k]
      PROVE  serverCrypto' \in [Commands -> Crypto]
  BY <1>2, <1>3
<1>4. \A c \in Commands : Sent(serverCrypto[c]) \in Crypto /\ Received(serverCrypto[c]) \in Crypto
  BY <1>2, CryptoTypes
<1>5. ASSUME NEW c \in Commands, \/ Connect(c) \/ ConnectFails(c) \/ SendCommand(c)
                                 \/ Disconnect(c) \/ ClientStep(c) \/ Break(c)
                                 \/ Unacknowledged(c)
      PROVE  HandlerType'
  <2>1. CASE Connect(c)
    <3>1. /\ spc' = [spc EXCEPT ![c] = IF who[c].via = "unix" THEN "reading" ELSE "handshake"]
          /\ UNCHANGED <<handled, outcome, serverCrypto>>
      BY <2>1, Zenon DEF Connect, ClientStays
    <3> QED BY <1>1, <1>2, <3>1
  <2>2. CASE ~Connect(c)
    <3>1. UNCHANGED <<spc, handled, outcome, serverCrypto>>
      BY <1>5, <2>2, Zenon DEF ConnectFails, SendCommand, Disconnect, ClientStep, Greet,
                        SendingFails, Welcomed, Ponged, ReadAnswer, ReadFails, Timeout, GivesUp,
                        ClientStays, Break, Unacknowledged
    <3> QED BY <1>1, <1>2, <3>1
  <2> QED BY <2>1, <2>2
<1>6. ASSUME NEW c \in Commands, Handshake(c) PROVE HandlerType'
  <2>1. /\ spc' = [spc EXCEPT ![c] = "reading"] \/ spc' = [spc EXCEPT ![c] = "closed"]
        /\ UNCHANGED <<handled, outcome>>
        /\ \/ serverCrypto' = serverCrypto
           \/ serverCrypto' = [serverCrypto EXCEPT ![c] = CryptoInit("same", "server", "client")]
    <3>1. CASE Accepts(who[c])
      BY <1>6, <3>1, Zenon DEF Handshake, HandlerGoes
    <3>2. CASE ~Accepts(who[c])
      BY <1>6, <3>2, Zenon DEF Handshake, HandlerGoes
    <3> QED BY <3>1, <3>2
  <2>2. CryptoInit("same", "server", "client") \in Crypto
    BY KeyTypes DEF KeyKinds
  <2> QED BY <1>1, <1>2, <1>3, <2>1, <2>2
<1>7. ASSUME NEW c \in Commands, ReadPing(c) \/ Reply(c) PROVE HandlerType'
  <2>1. /\ spc' = spc \/ spc' = [spc EXCEPT ![c] = "reading"]
        /\ UNCHANGED <<handled, outcome>>
        /\ serverCrypto' = [serverCrypto EXCEPT ![c] = Sent(serverCrypto[c])]
    BY <1>7, Zenon DEF ReadPing, Reply, HandlerGoes, ServerWrites
  <2> QED BY <1>1, <1>3, <1>4, <2>1
<1>8. ASSUME NEW c \in Commands, ReadCommand(c) PROVE HandlerType'
  <2>1. /\ spc' = [spc EXCEPT ![c] = "working"] /\ UNCHANGED <<handled, outcome>>
        /\ serverCrypto' = [serverCrypto EXCEPT ![c] = Received(serverCrypto[c])]
    BY <1>8, Zenon DEF ReadCommand, HandlerGoes
  <2> QED BY <1>1, <1>3, <1>4, <2>1
<1>9. ASSUME NEW c \in Commands, LeaveLoop(c) PROVE HandlerType'
  <2>1. spc' = [spc EXCEPT ![c] = "closed"] /\ UNCHANGED <<handled, outcome, serverCrypto>>
    BY <1>9, Zenon DEF LeaveLoop, HandlerGoes
  <2> QED BY <1>1, <1>2, <2>1
<1>10. ASSUME NEW c \in Commands, Execute(c) PROVE HandlerType'
  <2>1. /\ spc' = [spc EXCEPT ![c] = "replying"] /\ serverCrypto' = serverCrypto
        /\ handled' = [handled EXCEPT ![c] = Append(handled[c], build)]
        /\ \E result \in {"ok", "err"} : outcome' = [outcome EXCEPT ![c] = result]
    BY <1>10, Zenon DEF Execute, HandlerGoes
  <2>2. handled' \in [Commands -> Seq(Builds)]
    <3>1. handled[c] \in Seq(Builds) /\ build \in Builds
      BY DEF HandlerType, OutsideType
    <3>2. Append(handled[c], build) \in Seq(Builds)
      BY <3>1
    <3> QED BY <2>1, <3>2 DEF HandlerType
  <2> QED BY <2>1, <2>2 DEF HandlerType
<1>11. CASE Crash
  <2>1. /\ spc' = [c \in Commands |-> IF spc[c] = "none" THEN "none" ELSE "closed"]
        /\ UNCHANGED <<handled, outcome, serverCrypto>>
    BY <1>11, Zenon DEF Crash
  <2> QED BY <2>1 DEF HandlerType
<1>12. CASE Start
  BY <1>12, Zenon DEF Start, HandlerType
<1> QED BY <1>5, <1>6, <1>7, <1>8, <1>9, <1>10, <1>11, <1>12 DEF RpcNext, HandlerStep

LEMMA NextTypes == RpcTypeOK /\ [RpcNext]_rpcVars => RpcTypeOK'
<1> SUFFICES ASSUME RpcTypeOK, [RpcNext]_rpcVars PROVE RpcTypeOK'
  OBVIOUS
<1>1. CASE UNCHANGED rpcVars
  BY <1>1, Zenon DEF rpcVars, RpcTypeOK
<1>2. CASE RpcNext
  <2>1. FlagsType /\ OutsideType /\ WireType /\ ClientType /\ HandlerType
    BY TypeParts
  <2>2. FlagsType' /\ OutsideType' /\ WireType' /\ ClientType' /\ HandlerType'
    BY <1>2, <2>1, FlagsTypes, OutsideTypes, WireTypes, ClientTypes, HandlerTypes
  <2> QED BY <2>2, Zenon DEF RpcTypeOK, FlagsType, OutsideType, WireType, ClientType, HandlerType
<1> QED BY <1>1, <1>2

-----------------------------------------------------------------------------
(* A step of one command leaves the others alone.                          *)

Local(c) == <<cpc[c], spc[c], toServer[c], toClient[c], clientCrypto[c], serverCrypto[c],
              handled[c], outcome[c], answer[c], linked[c]>>

LEMMA SettingStays ==
  ASSUME UNCHANGED setting, NEW c
  PROVE  /\ who' = who
         /\ ClientKeyed(c)' = ClientKeyed(c) /\ ServerKeyed(c)' = ServerKeyed(c)
         /\ CommandFrame(c)' = CommandFrame(c)
         /\ KeyFits(c)' <=> KeyFits(c)
         /\ Accepts(who[c])' <=> Accepts(who[c])
BY DEF setting, ClientKeyed, ServerKeyed, CommandFrame, KeyFits, Accepts

LEMMA Untouched ==
  ASSUME NEW c \in Commands, Conversation(c), UNCHANGED setting, UNCHANGED daemon,
         Local(c)' = Local(c)
  PROVE  Conversation(c)'
<1>1. UNCHANGED <<cpc[c], spc[c], toServer[c], toClient[c], clientCrypto[c], serverCrypto[c],
                  handled[c], outcome[c], answer[c], linked[c]>>
  BY DEF Local
<1>2. build' = build /\ (Up' <=> Up)
  BY DEF daemon, Up
<1>3. ReplyFrame(c)' = ReplyFrame(c) /\ (Asked(c)' <=> Asked(c)) /\ (Live(c)' <=> Live(c))
  BY <1>1, SettingStays DEF ReplyFrame, Asked, Live
<1>4. ClientInv(c)'
  BY <1>1, <1>3, SettingStays DEF Conversation, ClientInv
<1>5. ServerInv(c)'
  BY <1>1, <1>2, <1>3, SettingStays DEF Conversation, ServerInv, Greeted
<1>6. DaemonInv(c)' /\ Truth(c)' /\ Right(c)'
  BY <1>1, <1>2, <1>3, SettingStays DEF Conversation, DaemonInv, Truth, Right
<1> QED BY <1>4, <1>5, <1>6 DEF Conversation

LEMMA OneCommandMoves ==
  ASSUME RpcTypeOK, NEW c \in Commands, NEW d \in Commands, c # d,
         \/ Connect(c) \/ ConnectFails(c) \/ SendCommand(c) \/ Disconnect(c)
         \/ ClientStep(c) \/ HandlerStep(c) \/ Break(c) \/ Unacknowledged(c)
  PROVE  UNCHANGED setting /\ UNCHANGED daemon /\ Local(d)' = Local(d)
<1>1. WireType /\ ClientType /\ HandlerType
  BY TypeParts
<1>2. UNCHANGED setting /\ UNCHANGED daemon
  BY Zenon DEF Connect, ConnectFails, SendCommand, Disconnect, ClientStep, HandlerStep, Greet,
     SendingFails, Welcomed, Ponged, ReadAnswer, ReadFails, Timeout, GivesUp, Handshake, ReadPing, ReadCommand, LeaveLoop,
     Execute, Reply, Break, Unacknowledged, ClientStays, HandlerStays
<1>3. CASE Connect(c)
  <2>1. /\ cpc' = [cpc EXCEPT ![c] = "connected"]
        /\ spc' = [spc EXCEPT ![c] = IF who[c].via = "unix" THEN "reading" ELSE "handshake"]
        /\ UNCHANGED <<toServer, toClient, clientCrypto, serverCrypto, handled, outcome, answer,
                       linked>>
    BY <1>3, Zenon DEF Connect, ClientGoes, ClientStays
  <2> QED BY <1>1, <1>2, <2>1 DEF Local, WireType, ClientType, HandlerType
<1>4. CASE ConnectFails(c) \/ Disconnect(c) \/ ReadFails(c) \/ Timeout(c) \/ SendingFails(c)
  <2>1. /\ cpc' = [cpc EXCEPT ![c] = "done"]
        /\ \E result : answer' = [answer EXCEPT ![c] = result]
        /\ UNCHANGED <<spc, toServer, toClient, clientCrypto, serverCrypto, handled, outcome,
                       linked>>
    BY <1>4, Zenon DEF ConnectFails, Disconnect, ReadFails, Timeout, SendingFails, WriteFails,
                       GivesUp, Returns, ClientGoes, ClientStays
  <2> QED BY <1>1, <1>2, <2>1 DEF Local, WireType, ClientType, HandlerType
<1>5. CASE Greet(c) \/ SendCommand(c)
  <2>1. /\ \E step : cpc' = [cpc EXCEPT ![c] = step]
        /\ answer' = answer \/ \E result : answer' = [answer EXCEPT ![c] = result]
        /\ clientCrypto' = clientCrypto \/ \E k : clientCrypto' = [clientCrypto EXCEPT ![c] = k]
        /\ toServer' = toServer \/ \E f : ClientWrites(c, f)
        /\ UNCHANGED <<spc, toClient, serverCrypto, handled, outcome, linked>>
    BY <1>5, Zenon DEF Greet, SendCommand, WriteFails, Returns, ClientGoes, ClientStays
  <2>2. toServer' = toServer \/ \E s : toServer' = [toServer EXCEPT ![c] = s]
    <3>1. CASE ServerHears(c)
      BY <2>1, <3>1 DEF ClientWrites
    <3>2. CASE ~ServerHears(c)
      BY <2>1, <3>2 DEF ClientWrites
    <3> QED BY <3>1, <3>2
  <2> QED BY <1>1, <1>2, <2>1, <2>2 DEF Local, WireType, ClientType, HandlerType
<1>6. CASE Welcomed(c) \/ Ponged(c) \/ ReadAnswer(c)
  <2>1. /\ \E step : cpc' = [cpc EXCEPT ![c] = step]
        /\ answer' = answer \/ \E result : answer' = [answer EXCEPT ![c] = result]
        /\ clientCrypto' = clientCrypto \/ \E k : clientCrypto' = [clientCrypto EXCEPT ![c] = k]
        /\ \E s : toClient' = [toClient EXCEPT ![c] = s]
        /\ UNCHANGED <<spc, toServer, serverCrypto, handled, outcome, linked>>
    BY <1>6, Zenon DEF Welcomed, Ponged, ReadAnswer, Returns, ClientGoes, ClientStays
  <2> QED BY <1>1, <1>2, <2>1 DEF Local, WireType, ClientType, HandlerType
<1>7. CASE HandlerStep(c)
  <2>1. /\ spc' = spc \/ \E step : spc' = [spc EXCEPT ![c] = step]
        /\ serverCrypto' = serverCrypto \/ \E k : serverCrypto' = [serverCrypto EXCEPT ![c] = k]
        /\ toServer' = toServer \/ \E s : toServer' = [toServer EXCEPT ![c] = s]
        /\ toClient' = toClient \/ \E s : toClient' = [toClient EXCEPT ![c] = s]
        /\ handled' = handled \/ \E h : handled' = [handled EXCEPT ![c] = h]
        /\ outcome' = outcome \/ \E o : outcome' = [outcome EXCEPT ![c] = o]
        /\ UNCHANGED <<cpc, clientCrypto, answer, linked>>
    BY <1>7, Zenon DEF HandlerStep, Handshake, ReadPing, ReadCommand, LeaveLoop, Execute, Reply,
                       GreetsBack, ServerWrites, HandlerGoes, HandlerStays
  <2> QED BY <1>1, <1>2, <2>1 DEF Local, WireType, ClientType, HandlerType
<1>8. CASE Break(c) \/ Unacknowledged(c)
  <2>1. /\ \E how : linked' = [linked EXCEPT ![c] = how]
        /\ toServer' = toServer \/ \E s : toServer' = [toServer EXCEPT ![c] = s]
        /\ toClient' = toClient \/ \E s : toClient' = [toClient EXCEPT ![c] = s]
        /\ UNCHANGED <<cpc, spc, clientCrypto, serverCrypto, handled, outcome, answer>>
    BY <1>8, Zenon DEF Break, Unacknowledged
  <2> QED BY <1>1, <1>2, <2>1, TypeParts DEF Local, FlagsType, WireType, ClientType, HandlerType
<1> QED BY <1>3, <1>4, <1>5, <1>6, <1>7, <1>8 DEF ClientStep

-----------------------------------------------------------------------------
(* What a client's step does to its own conversation.                      *)

LEMMA InitConversation ==
  ASSUME RpcInit, NEW c \in Commands
  PROVE  Conversation(c)
<1>1. /\ cpc[c] = "idle" /\ spc[c] = "none" /\ toServer[c] = <<>> /\ toClient[c] = <<>>
      /\ clientCrypto[c] = Plain /\ serverCrypto[c] = Plain
      /\ handled[c] = <<>> /\ outcome[c] = "" /\ answer[c] = "" /\ who[c] \in Callers
      /\ linked[c] = "up"
  BY DEF RpcInit
<1> QED BY <1>1 DEF Conversation, ClientInv, ServerInv, DaemonInv, Truth, Right, Live, Asked

LEMMA ConnectKeeps ==
  ASSUME RpcTypeOK, NEW c \in Commands, Conversation(c), Connect(c)
  PROVE  Conversation(c)'
<1>1. ClientType /\ HandlerType
  BY TypeParts
<1>2. /\ cpc[c] = "idle" /\ Up /\ UNCHANGED setting /\ UNCHANGED daemon
      /\ cpc' = [cpc EXCEPT ![c] = "connected"]
      /\ spc' = [spc EXCEPT ![c] = IF who[c].via = "unix" THEN "reading" ELSE "handshake"]
      /\ UNCHANGED <<toServer, toClient, clientCrypto, serverCrypto, handled, outcome, answer,
                     linked>>
  BY Zenon DEF Connect, ClientGoes, ClientStays, Up
<1>3. who[c] \in Caller /\ (who[c].via = "unix" => who[c].key = "none")
  BY CallerTypes DEF Conversation, DaemonInv
<1>4. who[c].via = "unix" \/ who[c].via = "tcp"
  BY <1>3 DEF Caller
<1>5. Up' <=> Up
  BY <1>2 DEF Up, daemon
<1>6. /\ answer[c] = "" /\ handled[c] = <<>> /\ outcome[c] = ""
      /\ toServer[c] = <<>> /\ toClient[c] = <<>>
      /\ clientCrypto[c] = Plain /\ serverCrypto[c] = Plain
  BY <1>2 DEF Conversation, ClientInv, DaemonInv, Asked
<1>7. cpc'[c] = "connected" /\ ~Asked(c)'
  BY <1>1, <1>2, <1>6 DEF ClientType, Asked
<1>8. ClientInv(c)'
  BY <1>2, <1>6, <1>7, SettingStays DEF ClientInv
<1>9. CASE who[c].via = "unix"
  <2>1. spc'[c] = "reading"
    BY <1>1, <1>2, <1>9 DEF HandlerType
  <2>2. ServerKeyed(c) = Plain
    BY <1>3, <1>9 DEF ServerKeyed
  <2>3. ServerInv(c)'
    BY <1>2, <1>6, <1>7, <1>9, <2>1, <2>2, SettingStays DEF ServerInv, Greeted
  <2>4. DaemonInv(c)' /\ Truth(c)' /\ Right(c)'
    BY <1>2, <1>5, <1>6, <1>7, <1>9, <2>1, SettingStays
       DEF Conversation, DaemonInv, Truth, Right, Live
  <2> QED BY <1>8, <2>3, <2>4 DEF Conversation
<1>10. CASE who[c].via = "tcp"
  <2>1. spc'[c] = "handshake"
    BY <1>1, <1>2, <1>10 DEF HandlerType
  <2> QED BY <1>2, <1>5, <1>6, <1>7, <1>8, <1>10, <2>1, SettingStays
          DEF Conversation, ServerInv, DaemonInv, Truth, Right, Live
<1> QED BY <1>4, <1>9, <1>10

\* A client that returns without an answer: nothing else changes for it.
LEMMA ReturnKeeps ==
  ASSUME RpcTypeOK, NEW c \in Commands, Conversation(c), NEW result,
         \/ result \in {"Not connected", "Send failed", "unused", "killed"} /\ ~Asked(c)
         \/ result = "Read failed" /\ cpc[c] = "answer",
         cpc' = [cpc EXCEPT ![c] = "done"], answer' = [answer EXCEPT ![c] = result],
         UNCHANGED setting, UNCHANGED daemon,
         UNCHANGED <<spc[c], toServer[c], serverCrypto[c], handled[c], outcome[c], linked[c]>>,
         toClient'[c] = toClient[c] \/ toClient'[c] = <<>>
  PROVE  Conversation(c)'
<1>1. ClientType
  BY TypeParts
<1>2. cpc'[c] = "done" /\ answer'[c] = result
  BY <1>1 DEF ClientType
<1>3. Asked(c)' <=> Asked(c)
  BY <1>1, <1>2 DEF Asked, Conversation, ClientInv
<1>4. (Up' <=> Up) /\ build' = build /\ (Live(c)' <=> Live(c))
  BY DEF Up, daemon, Live
<1>5. ClientInv(c)'
  BY <1>2, <1>3, SettingStays DEF Conversation, ClientInv
<1>6. ServerInv(c)'
  BY <1>2, <1>3, <1>4, SettingStays DEF Conversation, ServerInv, Greeted
<1>7. DaemonInv(c)' /\ Truth(c)' /\ Right(c)'
  BY <1>2, <1>3, <1>4, SettingStays DEF Conversation, DaemonInv, Truth, Right
<1> QED BY <1>5, <1>6, <1>7 DEF Conversation

LEMMA LeavingKeeps ==
  ASSUME RpcTypeOK, NEW c \in Commands, Conversation(c),
         ConnectFails(c) \/ Disconnect(c) \/ ReadFails(c) \/ Timeout(c)
  PROVE  Conversation(c)'
<1>1. PICK result :
        /\ \/ result \in {"Not connected", "unused"} /\ cpc[c] \in {"idle", "ready", "welcome", "pong"}
           \/ result = "Read failed" /\ cpc[c] = "answer"
        /\ Returns(c, result)
  <2>1. CASE ReadFails(c) \/ Timeout(c)
    BY <2>1 DEF ReadFails, Timeout, GivesUp, Awaits
  <2>2. CASE ConnectFails(c) \/ Disconnect(c)
    BY <2>2 DEF ConnectFails, Disconnect
  <2> QED BY <2>1, <2>2
<1>2. /\ UNCHANGED setting /\ UNCHANGED daemon
      /\ UNCHANGED <<spc, toServer, toClient, serverCrypto, handled, outcome, linked>>
  BY Zenon DEF ConnectFails, Disconnect, ReadFails, Timeout, GivesUp, ClientStays
<1>3. cpc[c] \in {"idle", "ready", "welcome", "pong"} => ~Asked(c)
  BY DEF Conversation, ClientInv, Asked
<1> QED BY <1>1, <1>2, <1>3, ReturnKeeps DEF Returns, ClientGoes

\* While a client is ready its handler, if there is one, has nothing to do.
LEMMA ReadyIsQuiet ==
  ASSUME RpcTypeOK, NEW c \in Commands, Conversation(c), Live(c),
         cpc[c] = "ready" \/ (cpc[c] \in {"welcome", "pong"} /\ toClient[c] # <<>>)
  PROVE  spc[c] = "reading" /\ handled[c] = <<>> /\ toServer[c] = <<>> /\ ~Asked(c)
<1>1. ~Asked(c) /\ handled[c] = <<>>
  BY DEF Conversation, ClientInv, Asked
<1>2. spc[c] \notin {"none", "closed", "handshake", "working"}
  BY <1>1 DEF Conversation, ServerInv, Live
<1>3. spc[c] = "reading"
  BY <1>1, <1>2, TypeParts DEF Conversation, ServerInv, HandlerType
<1>4. Greeted(c)
  BY <1>1, <1>3 DEF Conversation, ServerInv
<1> QED BY <1>1, <1>3, <1>4 DEF Greeted

\* Who hears a client lives, and what is written to it is all it has to read.
LEMMA WriteEffects ==
  ASSUME RpcTypeOK, NEW c \in Commands, NEW f, ClientWrites(c, f), Live(c) => toServer[c] = <<>>
  PROVE  /\ Live(c) => toServer'[c] = <<f>> \/ toServer'[c] = <<>>
         /\ linked[c] # "up" => toServer'[c] = toServer[c]
<1>1. WireType
  BY TypeParts
<1>2. CASE ServerHears(c)
  <2>1. Live(c) /\ linked[c] = "up" /\ toServer' = [toServer EXCEPT ![c] = Append(toServer[c], f)]
    BY <1>2 DEF ClientWrites, ServerHears, Live
  <2> QED BY <1>1, <2>1, OneFrame DEF WireType
<1>3. CASE ~ServerHears(c)
  BY <1>3 DEF ClientWrites
<1> QED BY <1>2, <1>3

LEMMA GreetKeeps ==
  ASSUME RpcTypeOK, NEW c \in Commands, Conversation(c), Greet(c)
  PROVE  Conversation(c)'
<1>1. ClientType /\ HandlerType
  BY TypeParts
<1>2. /\ cpc[c] = "connected" /\ UNCHANGED setting /\ UNCHANGED daemon
      /\ UNCHANGED <<spc, toClient, clientCrypto, serverCrypto, handled, outcome, linked>>
  BY Zenon DEF Greet, ClientStays
<1>3. /\ ~Asked(c) /\ answer[c] = "" /\ handled[c] = <<>> /\ outcome[c] = ""
      /\ toServer[c] = <<>> /\ toClient[c] = <<>>
      /\ clientCrypto[c] = Plain /\ serverCrypto[c] = Plain
  BY <1>2 DEF Conversation, ClientInv, DaemonInv, Asked
<1>4. CASE \E result \in {"killed", "Not connected"} : Returns(c, result) /\ toServer' = toServer
  BY <1>2, <1>3, <1>4, ReturnKeeps DEF Returns, ClientGoes
<1>5. CASE /\ ClientWrites(c, Sealed(Say(IF who[c].via = "unix" THEN "ping" ELSE "hello", ""), Plain))
           /\ ClientGoes(c, IF who[c].via = "unix" THEN "pong" ELSE "welcome") /\ answer' = answer
  <2>1. who[c] \in Caller /\ (who[c].via = "unix" => who[c].key = "none")
    BY CallerTypes DEF Conversation, DaemonInv
  <2>2. who[c].via \in {"unix", "tcp"}
    BY <2>1 DEF Caller
  <2>3. (Up' <=> Up) /\ build' = build /\ (Live(c)' <=> Live(c))
    BY <1>2 DEF Up, daemon, Live
  <2>4. spc[c] # "none" /\ (linked[c] # "up" => toServer'[c] = <<>>)
    BY <1>2, <1>3, <1>5, WriteEffects DEF Conversation, ServerInv
  <2>5. CASE who[c].via = "unix"
    <3>1. cpc'[c] = "pong"
      BY <1>1, <1>5, <2>5 DEF ClientType, ClientGoes
    <3>2. ClientWrites(c, Ping)
      BY <1>5, <2>5 DEF Ping
    <3>3. Live(c) => toServer'[c] = <<Ping>> \/ toServer'[c] = <<>>
      BY <1>3, <3>2, WriteEffects
    <3>4. ServerKeyed(c) = Plain /\ ~Asked(c)'
      BY <1>3, <1>5, <2>1, <2>5, <3>1 DEF ServerKeyed, Asked
    <3>5. ClientInv(c)'
      BY <1>2, <1>3, <1>5, <2>5, <3>1, <3>4, SettingStays DEF ClientInv
    <3>6. Live(c) => spc[c] = "reading"
      BY <1>1, <1>3, <2>5 DEF Conversation, ServerInv, HandlerType, Live
    <3>7. ServerInv(c)'
      BY <1>2, <1>3, <2>3, <2>4, <2>5, <3>1, <3>3, <3>4, <3>6, SettingStays
         DEF ServerInv, Greeted, Live
    <3>8. DaemonInv(c)' /\ Truth(c)' /\ Right(c)'
      BY <1>2, <1>3, <1>5, <2>3, <2>5, <3>1, <3>4, SettingStays
         DEF Conversation, DaemonInv, Truth, Right, Live
    <3> QED BY <3>5, <3>7, <3>8 DEF Conversation
  <2>6. CASE who[c].via = "tcp"
    <3>1. cpc'[c] = "welcome"
      BY <1>1, <1>5, <2>6 DEF ClientType, ClientGoes
    <3>2. ClientWrites(c, Hello)
      BY <1>5, <2>6 DEF Hello
    <3>3. Live(c) => toServer'[c] = <<Hello>> \/ toServer'[c] = <<>>
      BY <1>3, <3>2, WriteEffects
    <3>4. ~Asked(c)'
      BY <1>3, <1>5, <3>1 DEF Asked
    <3>5. ClientInv(c)'
      BY <1>2, <1>3, <1>5, <2>6, <3>1, <3>4, SettingStays DEF ClientInv
    <3>6. Live(c) => spc[c] = "handshake"
      <4>1. spc[c] = "reading" => ~Greeted(c)
        BY <1>2, <1>3, <2>6 DEF Greeted
      <4>2. spc[c] \in {"none", "handshake", "reading", "working", "replying", "closed"}
        BY <1>1 DEF HandlerType
      <4> QED BY <1>3, <4>1, <4>2 DEF Conversation, ServerInv, Live
    <3>7. ServerInv(c)'
      BY <1>2, <1>3, <2>3, <2>4, <2>6, <3>1, <3>3, <3>4, <3>6, SettingStays
         DEF ServerInv, Greeted, Live
    <3>8. DaemonInv(c)' /\ Truth(c)' /\ Right(c)'
      BY <1>2, <1>3, <1>5, <2>3, <2>6, <3>1, <3>4, SettingStays
         DEF Conversation, DaemonInv, Truth, Right, Live
    <3> QED BY <3>5, <3>7, <3>8 DEF Conversation
  <2> QED BY <2>2, <2>5, <2>6
<1>6. CASE ~\E result \in {"killed", "Not connected"} : Returns(c, result) /\ toServer' = toServer
  BY <1>5, <1>6 DEF Greet, WriteFails
<1> QED BY <1>4, <1>6

LEMMA SendCommandKeeps ==
  ASSUME RpcTypeOK, NEW c \in Commands, Conversation(c), SendCommand(c)
  PROVE  Conversation(c)'
<1>1. ClientType /\ HandlerType
  BY TypeParts
<1>2. /\ cpc[c] = "ready" /\ UNCHANGED setting /\ UNCHANGED daemon
      /\ clientCrypto' = [clientCrypto EXCEPT ![c] = Sent(clientCrypto[c])]
      /\ UNCHANGED <<spc, toClient, serverCrypto, handled, outcome, linked>>
  BY Zenon DEF SendCommand, ClientStays
<1>3. /\ ~Asked(c) /\ answer[c] = "" /\ handled[c] = <<>> /\ toClient[c] = <<>>
      /\ clientCrypto[c] = ClientKeyed(c)
  BY <1>2 DEF Conversation, ClientInv, Asked
<1>4. Live(c) => spc[c] = "reading" /\ toServer[c] = <<>>
  BY <1>2, ReadyIsQuiet
<1>5. CASE \E result \in {"killed", "Send failed"} : Returns(c, result) /\ toServer' = toServer
  BY <1>2, <1>3, <1>5, ReturnKeeps DEF Returns, ClientGoes
<1>6. CASE ~\E result \in {"killed", "Send failed"} : Returns(c, result) /\ toServer' = toServer
  <2>1. /\ ClientWrites(c, CommandFrame(c)) /\ answer' = answer
        /\ ClientGoes(c, IF who[c].huge THEN "sending" ELSE "answer")
    BY <1>3, <1>6 DEF SendCommand, WriteFails, CommandFrame
  <2>2. /\ cpc'[c] = IF who[c].huge THEN "sending" ELSE "answer"
        /\ clientCrypto'[c] = Sent(ClientKeyed(c))
    BY <1>1, <1>2, <1>3, <2>1 DEF ClientType, ClientGoes
  <2>3. /\ Live(c) => toServer'[c] = <<>> \/ toServer'[c] = <<CommandFrame(c)>>
        /\ linked[c] # "up" => toServer'[c] = <<>>
    BY <1>4, <2>1, WriteEffects DEF Conversation, ServerInv
  <2>4. Asked(c)' /\ (Up' <=> Up) /\ build' = build /\ (Live(c)' <=> Live(c))
    BY <1>2, <2>2 DEF Asked, Up, daemon, Live
  <2>5. ClientInv(c)'
    BY <1>2, <1>3, <2>1, <2>2, <2>4, SettingStays DEF ClientInv
  <2>6. cpc[c] # "idle" /\ spc[c] # "none"
    BY <1>2 DEF Conversation, ServerInv
  <2>7. ServerInv(c)'
    BY <1>2, <1>3, <1>4, <2>2, <2>3, <2>4, <2>6, SettingStays
       DEF Conversation, ServerInv, Greeted, Live
  <2>8. DaemonInv(c)' /\ Truth(c)' /\ Right(c)'
    BY <1>2, <1>3, <2>1, <2>2, <2>4, SettingStays DEF Conversation, DaemonInv, Truth, Right
  <2> QED BY <2>5, <2>7, <2>8 DEF Conversation
<1> QED BY <1>5, <1>6

\* A request over the limit was not carried out, and nobody reads the rest of it.
LEMMA SendingFailsKeeps ==
  ASSUME RpcTypeOK, NEW c \in Commands, Conversation(c), SendingFails(c)
  PROVE  Conversation(c)'
<1>1. ClientType
  BY TypeParts
<1>2. PICK result \in {"killed", "Send failed"} :
        /\ cpc[c] = "sending" /\ ServerGone(c)
        /\ cpc' = [cpc EXCEPT ![c] = "done"] /\ answer' = [answer EXCEPT ![c] = result]
        /\ UNCHANGED setting /\ UNCHANGED daemon
        /\ UNCHANGED <<spc, toServer, toClient, clientCrypto, serverCrypto, handled, outcome, linked>>
  BY DEF SendingFails, WriteFails, Returns, ClientGoes, ClientStays
<1>3. cpc'[c] = "done" /\ answer'[c] = result /\ ~Asked(c)'
  BY <1>1, <1>2 DEF ClientType, Asked
<1>4. who[c].huge /\ handled[c] = <<>>
  BY <1>2 DEF Conversation, ClientInv
<1>5. Live(c) => toServer[c] = <<>>
  BY <1>2 DEF ServerGone, ServerHears, Live, Conversation, ServerInv
<1>6. spc[c] \notin {"handshake", "working", "replying"}
  BY <1>2, <1>4 DEF Conversation, ServerInv, Asked
<1>7. (Up' <=> Up) /\ build' = build /\ (Live(c)' <=> Live(c))
  BY <1>2 DEF Up, daemon, Live
<1>8. ClientInv(c)'
  BY <1>2, <1>3, <1>4, SettingStays DEF ClientInv
<1>9. ServerInv(c)'
  BY <1>2, <1>3, <1>4, <1>5, <1>6, SettingStays DEF Conversation, ServerInv, Greeted, Live
<1>10. DaemonInv(c)' /\ Truth(c)' /\ Right(c)'
  BY <1>2, <1>3, <1>4, <1>7, SettingStays DEF Conversation, DaemonInv, Truth, Right
<1> QED BY <1>8, <1>9, <1>10 DEF Conversation

\* A client that was greeted in a way it accepts is ready.
LEMMA GreetingKeeps ==
  ASSUME RpcTypeOK, NEW c \in Commands, Conversation(c),
         cpc[c] \in {"welcome", "pong"}, toClient[c] # <<>>,
         cpc' = [cpc EXCEPT ![c] = "ready"], toClient'[c] = <<>>,
         clientCrypto'[c] = ClientKeyed(c),
         UNCHANGED setting, UNCHANGED daemon,
         UNCHANGED <<spc, toServer, serverCrypto, handled, outcome, answer, linked>>,
         Live(c) /\ cpc[c] = "pong" => build = who[c].build
  PROVE  Conversation(c)'
<1>1. ClientType
  BY TypeParts
<1>2. cpc'[c] = "ready"
  BY <1>1 DEF ClientType
<1>3. ~Asked(c) /\ answer[c] = "" /\ handled[c] = <<>> /\ spc[c] # "none"
  BY DEF Conversation, ClientInv, ServerInv, Asked
<1>4. Live(c) => spc[c] = "reading" /\ toServer[c] = <<>>
  BY ReadyIsQuiet
<1>5. ~Asked(c)' /\ (Up' <=> Up) /\ build' = build /\ (Live(c)' <=> Live(c))
  BY <1>2, <1>3 DEF Asked, Up, daemon, Live
<1>6. ClientInv(c)'
  BY <1>2, <1>3, <1>5, SettingStays DEF ClientInv
<1>7. ServerInv(c)'
  BY <1>2, <1>3, <1>4, <1>5, SettingStays DEF Conversation, ServerInv, Greeted, Live
<1>8. who[c].via = "unix" => cpc[c] = "pong"
  BY DEF Conversation, ClientInv
<1>9. DaemonInv(c)' /\ Truth(c)' /\ Right(c)'
  BY <1>2, <1>3, <1>5, <1>8, SettingStays DEF Conversation, DaemonInv, Truth, Right
<1> QED BY <1>6, <1>7, <1>9 DEF Conversation

LEMMA WelcomedKeeps ==
  ASSUME RpcTypeOK, NEW c \in Commands, Conversation(c), Welcomed(c) \/ Ponged(c)
  PROVE  Conversation(c)'
<1>1. WireType /\ ClientType /\ HandlerType
  BY TypeParts
<1>2. /\ cpc[c] \in {"welcome", "pong"} /\ toClient[c] # <<>>
      /\ toClient' = [toClient EXCEPT ![c] = Tail(toClient[c])]
      /\ UNCHANGED setting /\ UNCHANGED daemon
      /\ UNCHANGED <<spc, toServer, serverCrypto, handled, outcome, linked>>
  BY Zenon DEF Welcomed, Ponged, ClientStays
<1>3. PICK f \in Frame : toClient[c] = <<f>>
  BY <1>2 DEF Conversation, ClientInv
<1>4. toClient'[c] = <<>>
  BY <1>1, <1>2, <1>3, OneFrame DEF WireType
<1>5. ~Asked(c) /\ clientCrypto[c] = Plain
  BY <1>2 DEF Conversation, ClientInv, Asked
<1>6. CASE Returns(c, "Not connected")
  BY <1>2, <1>4, <1>5, <1>6, ReturnKeeps DEF Returns, ClientGoes
<1>7. CASE ~Returns(c, "Not connected") /\ Welcomed(c)
  <2>1. /\ cpc[c] = "welcome" /\ cpc' = [cpc EXCEPT ![c] = "ready"] /\ answer' = answer
        /\ clientCrypto' = IF who[c].key = "none" THEN clientCrypto
             ELSE [clientCrypto EXCEPT ![c] = CryptoInit(who[c].key, "client", "server")]
    BY <1>7, Zenon DEF Welcomed, ClientGoes
  <2>2. clientCrypto'[c] = ClientKeyed(c)
    BY <1>1, <1>5, <2>1 DEF ClientType, ClientKeyed
  <2> QED BY <1>2, <1>4, <2>1, <2>2, GreetingKeeps
<1>8. CASE ~Returns(c, "Not connected") /\ Ponged(c)
  <2>1. /\ cpc[c] = "pong" /\ cpc' = [cpc EXCEPT ![c] = "ready"]
        /\ Head(toClient[c]).msg.val = who[c].build /\ UNCHANGED <<answer, clientCrypto>>
    BY <1>8, Zenon DEF Ponged, ClientGoes
  <2>2. who[c].via = "unix" /\ who[c].key = "none"
    BY <2>1, CallerTypes DEF Conversation, ClientInv, DaemonInv
  <2>3. clientCrypto'[c] = ClientKeyed(c)
    BY <1>5, <2>1, <2>2 DEF ClientKeyed
  <2>4. Live(c) => build = who[c].build
    <3>1. Live(c) => spc[c] = "reading" /\ handled[c] = <<>>
      BY <1>2, ReadyIsQuiet
    <3> QED BY <1>2, <1>5, <2>1, <3>1 DEF Conversation, ServerInv, Greeted
  <2> QED BY <1>2, <1>4, <2>1, <2>3, <2>4, GreetingKeeps
<1> QED BY <1>6, <1>7, <1>8

LEMMA ReadAnswerKeeps ==
  ASSUME RpcTypeOK, NEW c \in Commands, Conversation(c), ReadAnswer(c)
  PROVE  Conversation(c)'
<1>1. WireType /\ ClientType /\ HandlerType
  BY TypeParts
<1>2. /\ cpc[c] = "answer" /\ toClient[c] # <<>>
      /\ Returns(c, IF ~Opens(Head(toClient[c]), clientCrypto[c]) THEN "Read failed"
                    ELSE IF Head(toClient[c]).msg.val = "ok" THEN "ok" ELSE "Error: err")
      /\ toClient' = [toClient EXCEPT ![c] = Tail(toClient[c])]
      /\ UNCHANGED setting /\ UNCHANGED daemon
      /\ UNCHANGED <<spc, toServer, serverCrypto, handled, outcome, linked>>
  BY Zenon DEF ReadAnswer, ClientStays
<1>3. toClient[c] = <<ReplyFrame(c)>> /\ handled[c] # <<>> /\ Asked(c)
  BY <1>2 DEF Conversation, ClientInv, Asked
<1>4. outcome[c] \in {"ok", "err"}
  BY <1>1, <1>3 DEF HandlerType, Conversation, DaemonInv
<1>5. Head(toClient[c]).msg.val = outcome[c]
  BY <1>3, OneFrame DEF ReplyFrame, Sealed, Say
<1>6. /\ cpc'[c] = "done"
      /\ \/ answer'[c] = "Read failed"
         \/ answer'[c] = "ok" /\ outcome[c] = "ok"
         \/ answer'[c] = "Error: err" /\ outcome[c] = "err"
  <2>1. PICK result :
          /\ Returns(c, result)
          /\ \/ result = "Read failed"
             \/ result = "ok" /\ outcome[c] = "ok"
             \/ result = "Error: err" /\ outcome[c] = "err"
    <3>1. CASE ~Opens(Head(toClient[c]), clientCrypto[c])
      BY <1>2, <3>1
    <3>2. CASE Opens(Head(toClient[c]), clientCrypto[c]) /\ outcome[c] = "ok"
      BY <1>2, <1>5, <3>2
    <3>3. CASE Opens(Head(toClient[c]), clientCrypto[c]) /\ outcome[c] = "err"
      <4>1. Head(toClient[c]).msg.val # "ok"
        BY <1>5, <3>3
      <4>2. Returns(c, "Error: err")
        BY <1>2, <3>3, <4>1
      <4> QED BY <3>3, <4>2
    <3> QED BY <1>4, <3>1, <3>2, <3>3
  <2>2. cpc'[c] = "done" /\ answer'[c] = result
    BY <1>1, <2>1 DEF ClientType, Returns, ClientGoes
  <2> QED BY <2>1, <2>2
<1>7. toClient'[c] = <<>>
  BY <1>1, <1>2, <1>3, OneFrame DEF WireType
<1>8. Asked(c)' /\ (Up' <=> Up) /\ build' = build /\ (Live(c)' <=> Live(c))
  BY <1>2, <1>6 DEF Asked, Up, daemon, Live
<1>9. ClientInv(c)'
  BY <1>2, <1>3, <1>6, <1>8, SettingStays DEF Conversation, ClientInv
<1>10. ServerInv(c)'
  BY <1>2, <1>3, <1>6, <1>7, <1>8, SettingStays DEF Conversation, ServerInv, Greeted
<1>11. DaemonInv(c)' /\ Truth(c)' /\ Right(c)'
  BY <1>2, <1>3, <1>6, <1>8, SettingStays DEF Conversation, DaemonInv, Truth, Right
<1> QED BY <1>9, <1>10, <1>11 DEF Conversation

-----------------------------------------------------------------------------
(* What a handler's step does to its conversation.                         *)

LEMMA HandlerLeaves ==
  ASSUME NEW c \in Commands, HandlerStep(c)
  PROVE  /\ UNCHANGED setting /\ UNCHANGED daemon /\ UNCHANGED <<cpc, clientCrypto, answer, linked>>
         /\ (Asked(c)' <=> Asked(c)) /\ (Up' <=> Up) /\ build' = build
<1>1. UNCHANGED setting /\ UNCHANGED daemon /\ UNCHANGED <<cpc, clientCrypto, answer, linked>>
  BY Zenon DEF HandlerStep, Handshake, ReadPing, ReadCommand, LeaveLoop, Execute, Reply,
               HandlerStays
<1> QED BY <1>1 DEF Asked, Up, daemon

LEMMA HandshakeKeeps ==
  ASSUME RpcTypeOK, NEW c \in Commands, Conversation(c), Handshake(c)
  PROVE  Conversation(c)'
<1>1. OutsideType /\ WireType /\ ClientType /\ HandlerType
  BY TypeParts
<1>2. /\ spc[c] = "handshake" /\ toServer[c] # <<>>
      /\ toServer' = [toServer EXCEPT ![c] = Tail(toServer[c])]
      /\ UNCHANGED <<handled, outcome>>
  BY Zenon DEF Handshake
<1>3. /\ UNCHANGED setting /\ UNCHANGED daemon /\ UNCHANGED <<cpc, clientCrypto, answer, linked>>
      /\ (Asked(c)' <=> Asked(c)) /\ (Up' <=> Up) /\ build' = build
  BY HandlerLeaves DEF HandlerStep
<1>4. /\ who[c].via = "tcp" /\ ~Asked(c) /\ cpc[c] \in {"welcome", "done"} /\ toClient[c] = <<>>
      /\ serverCrypto[c] = Plain /\ toServer[c] = <<Hello>> /\ handled[c] = <<>>
      /\ Up /\ answer[c] \notin {"ok", "Error: err"}
  BY <1>2 DEF Conversation, ServerInv, ClientInv, DaemonInv, Live, Asked
<1>5. toServer'[c] = <<>>
  BY <1>1, <1>2, <1>4, OneFrame DEF WireType
<1>6. toClient'[c] = <<>> \/ \E f \in Frame : toClient'[c] = <<f>>
  <2>1. \/ toClient' = toClient
        \/ \E tag \in {"welcome", "reject"} : toClient' = [toClient EXCEPT ![c] =
             Append(toClient[c], Sealed(Say(tag, ""), Plain))]
    <3>1. CASE ClientHears(c)
      BY <3>1 DEF Handshake, GreetsBack
    <3>2. CASE ~ClientHears(c)
      BY <3>2 DEF Handshake, GreetsBack
    <3> QED BY <3>1, <3>2
  <2>2. \A tag \in {"welcome", "reject"} : Sealed(Say(tag, ""), Plain) \in Frame
    BY <1>1, SentFrames
  <2>3. ASSUME NEW f \in Frame, toClient' = [toClient EXCEPT ![c] = Append(toClient[c], f)]
        PROVE  toClient'[c] = <<f>>
    BY <1>1, <1>4, <2>3, OneFrame DEF WireType
  <2> QED BY <1>4, <2>1, <2>2, <2>3
<1>7. ClientInv(c)'
  BY <1>2, <1>3, <1>4, <1>5, <1>6, SettingStays DEF Conversation, ClientInv
<1>8. CASE Accepts(who[c])
  <2>1. /\ spc' = [spc EXCEPT ![c] = "reading"]
        /\ serverCrypto' = IF who[c].key = "none" THEN serverCrypto
             ELSE [serverCrypto EXCEPT ![c] = CryptoInit("same", "server", "client")]
    BY <1>8, Zenon DEF Handshake, HandlerGoes
  <2>2. spc'[c] = "reading" /\ serverCrypto'[c] = ServerKeyed(c)
    BY <1>1, <1>4, <2>1 DEF HandlerType, ServerKeyed
  <2>3. ServerInv(c)'
    BY <1>2, <1>3, <1>4, <1>5, <2>2, SettingStays DEF ServerInv, Greeted
  <2>4. DaemonInv(c)' /\ Truth(c)' /\ Right(c)'
    BY <1>2, <1>3, <1>4, <1>8, <2>2, SettingStays DEF Conversation, DaemonInv, Truth, Right
  <2> QED BY <1>7, <2>3, <2>4 DEF Conversation
<1>9. CASE ~Accepts(who[c])
  <2>1. spc' = [spc EXCEPT ![c] = "closed"]
    BY <1>9, Zenon DEF Handshake, HandlerGoes
  <2>2. spc'[c] = "closed" /\ ~Live(c)'
    BY <1>1, <2>1 DEF HandlerType, Live
  <2>3. ServerInv(c)'
    BY <1>2, <1>3, <1>4, <1>5, <2>2, SettingStays DEF ServerInv
  <2>4. DaemonInv(c)' /\ Truth(c)' /\ Right(c)'
    BY <1>2, <1>3, <1>4, <2>2, SettingStays DEF Conversation, DaemonInv, Truth, Right
  <2> QED BY <1>7, <2>3, <2>4 DEF Conversation
<1> QED BY <1>8, <1>9

LEMMA ReadPingKeeps ==
  ASSUME RpcTypeOK, NEW c \in Commands, Conversation(c), ReadPing(c)
  PROVE  Conversation(c)'
<1>1. OutsideType /\ WireType /\ ClientType /\ HandlerType
  BY TypeParts
<1>2. /\ spc[c] = "reading" /\ toServer[c] # <<>> /\ Head(toServer[c]).msg.tag = "ping"
      /\ toServer' = [toServer EXCEPT ![c] = Tail(toServer[c])]
      /\ ServerWrites(c, Say("pong", build)) /\ UNCHANGED <<spc, handled, outcome>>
  BY Zenon DEF ReadPing
<1>3. /\ UNCHANGED setting /\ UNCHANGED daemon /\ UNCHANGED <<cpc, clientCrypto, answer, linked>>
      /\ (Asked(c)' <=> Asked(c)) /\ (Up' <=> Up) /\ build' = build
  BY HandlerLeaves DEF HandlerStep
<1>4. handled[c] = <<>> /\ serverCrypto[c] = ServerKeyed(c) /\ Greeted(c)
  BY <1>2 DEF Conversation, ServerInv
<1>5. CommandFrame(c).msg.tag = "command"
  BY DEF CommandFrame, Sealed, Say
<1>6. /\ who[c].via = "unix" /\ toServer[c] = <<Ping>> /\ ~Asked(c)
      /\ cpc[c] \in {"pong", "done"} /\ toClient[c] = <<>>
  BY <1>2, <1>4, <1>5, OneFrame DEF Greeted
<1>7. serverCrypto[c] = Plain /\ ServerKeyed(c) = Plain
  BY <1>4, <1>6, CallerTypes DEF Conversation, DaemonInv, ServerKeyed
<1>8. serverCrypto'[c] = Plain
  <2>1. serverCrypto' = [serverCrypto EXCEPT ![c] = Sent(serverCrypto[c])]
    BY <1>2, Zenon DEF ServerWrites
  <2>2. Sent(Plain) = Plain
    BY DEF Sent, Plain
  <2> QED BY <1>1, <1>7, <2>1, <2>2 DEF HandlerType
<1>9. toServer'[c] = <<>>
  BY <1>1, <1>2, <1>6, OneFrame DEF WireType
<1>10. toClient'[c] = <<>> \/ toClient'[c] = <<Sealed(Say("pong", build), serverCrypto[c])>>
  <2>1. \/ toClient' = toClient
        \/ toClient' = [toClient EXCEPT ![c] =
             Append(toClient[c], Sealed(Say("pong", build), serverCrypto[c]))]
    <3>1. CASE ClientHears(c)
      BY <1>2, <3>1 DEF ServerWrites
    <3>2. CASE ~ClientHears(c)
      BY <1>2, <3>2 DEF ServerWrites
    <3> QED BY <3>1, <3>2
  <2> QED BY <1>1, <1>6, <2>1, OneFrame DEF WireType
<1>11. Sealed(Say("pong", build), serverCrypto[c]) \in Frame
  BY <1>1, SentFrames
<1>12. toClient'[c] # <<>> => Head(toClient'[c]).msg.val = build
  BY <1>10, OneFrame DEF Sealed, Say
<1>13. ClientInv(c)'
  BY <1>2, <1>3, <1>4, <1>6, <1>10, <1>11, SettingStays DEF Conversation, ClientInv
<1>14. ServerInv(c)'
  BY <1>2, <1>3, <1>4, <1>6, <1>7, <1>8, <1>9, <1>12, SettingStays DEF ServerInv, Greeted
<1>15. DaemonInv(c)' /\ Truth(c)' /\ Right(c)'
  BY <1>2, <1>3, SettingStays DEF Conversation, DaemonInv, Truth, Right, Live
<1> QED BY <1>13, <1>14, <1>15 DEF Conversation

\* A command that opens was sent by a client with the daemon's key.
LEMMA OpenedFits ==
  ASSUME NEW c \in Commands, Accepts(who[c]), Opens(CommandFrame(c), ServerKeyed(c))
  PROVE  KeyFits(c)
<1>1. ClientKeyed(c).key = who[c].key
      /\ ServerKeyed(c).key = IF who[c].key = "none" THEN "none" ELSE "same"
  BY DEF ClientKeyed, ServerKeyed, CryptoInit, Plain
<1>2. ClientKeyed(c).key = ServerKeyed(c).key
  BY DEF Opens, CommandFrame, Sealed
<1>3. who[c].key \in {"none", "same"}
  BY <1>1, <1>2
<1>4. CASE keyed
  BY <1>3, <1>4 DEF Accepts, KeyFits
<1>5. CASE ~keyed
  BY <1>3, <1>5 DEF Accepts, KeyFits
<1> QED BY <1>4, <1>5

LEMMA ReadCommandKeeps ==
  ASSUME RpcTypeOK, NEW c \in Commands, Conversation(c), ReadCommand(c)
  PROVE  Conversation(c)'
<1>1. WireType /\ ClientType /\ HandlerType
  BY TypeParts
<1>2. /\ spc[c] = "reading" /\ toServer[c] # <<>> /\ Head(toServer[c]).msg.tag = "command"
      /\ Opens(Head(toServer[c]), serverCrypto[c]) /\ ~who[c].huge
      /\ spc' = [spc EXCEPT ![c] = "working"]
      /\ toServer' = [toServer EXCEPT ![c] = Tail(toServer[c])]
      /\ serverCrypto' = [serverCrypto EXCEPT ![c] = Received(serverCrypto[c])]
      /\ UNCHANGED <<toClient, handled, outcome>>
  BY Zenon DEF ReadCommand, HandlerGoes, Readable
<1>3. /\ UNCHANGED setting /\ UNCHANGED daemon /\ UNCHANGED <<cpc, clientCrypto, answer, linked>>
      /\ (Asked(c)' <=> Asked(c)) /\ (Up' <=> Up) /\ build' = build
  BY HandlerLeaves DEF HandlerStep
<1>4. handled[c] = <<>> /\ serverCrypto[c] = ServerKeyed(c) /\ Greeted(c)
  BY <1>2 DEF Conversation, ServerInv
<1>5. Ping.msg.tag = "ping"
  BY DEF Ping, Sealed, Say
<1>6. Asked(c) /\ toServer[c] = <<CommandFrame(c)>>
  BY <1>2, <1>4, <1>5, OneFrame DEF Greeted
<1>7. Opens(CommandFrame(c), ServerKeyed(c))
  BY <1>2, <1>4, <1>6, OneFrame
<1>8. who[c].via = "tcp" => KeyFits(c)
  BY <1>2, <1>7, OpenedFits DEF Conversation, DaemonInv, Live
<1>9. /\ spc'[c] = "working" /\ serverCrypto'[c] = Received(ServerKeyed(c)) /\ toServer'[c] = <<>>
      /\ cpc[c] = "answer" => toClient[c] = <<>>
  BY <1>1, <1>2, <1>4, <1>6, OneFrame DEF WireType, HandlerType, Conversation, ClientInv
<1>10. ClientInv(c)'
  BY <1>2, <1>3, <1>4, <1>6, <1>9, SettingStays DEF Conversation, ClientInv
<1>11. ServerInv(c)'
  BY <1>2, <1>3, <1>4, <1>6, <1>8, <1>9, SettingStays DEF ServerInv
<1>12. DaemonInv(c)' /\ Truth(c)' /\ Right(c)'
  BY <1>2, <1>3, <1>9, SettingStays DEF Conversation, DaemonInv, Truth, Right, Live
<1> QED BY <1>10, <1>11, <1>12 DEF Conversation

LEMMA LeaveLoopKeeps ==
  ASSUME RpcTypeOK, NEW c \in Commands, Conversation(c), LeaveLoop(c)
  PROVE  Conversation(c)'
<1>1. HandlerType
  BY TypeParts
<1>2. /\ spc[c] \in {"handshake", "reading"} /\ spc' = [spc EXCEPT ![c] = "closed"]
      /\ UNCHANGED <<toServer, toClient, serverCrypto, handled, outcome>>
  BY Zenon DEF LeaveLoop, HandlerGoes
<1>3. /\ UNCHANGED setting /\ UNCHANGED daemon /\ UNCHANGED <<cpc, clientCrypto, answer, linked>>
      /\ (Asked(c)' <=> Asked(c)) /\ (Up' <=> Up) /\ build' = build
  BY HandlerLeaves DEF HandlerStep
<1>4. spc'[c] = "closed" /\ ~Live(c)' /\ ReplyFrame(c)' = ReplyFrame(c)
  BY <1>1, <1>2, <1>3, SettingStays DEF HandlerType, Live, ReplyFrame
<1>5. cpc[c] # "idle"
  BY <1>2 DEF Conversation, ClientInv
<1>6. ClientInv(c)'
  BY <1>2, <1>3, <1>4, <1>5, SettingStays DEF Conversation, ClientInv
<1>7. ServerInv(c)' /\ DaemonInv(c)' /\ Truth(c)' /\ Right(c)'
  BY <1>2, <1>3, <1>4, SettingStays DEF Conversation, ServerInv, DaemonInv, Truth, Right
<1> QED BY <1>6, <1>7 DEF Conversation

LEMMA ExecuteKeeps ==
  ASSUME RpcTypeOK, NEW c \in Commands, Conversation(c), Execute(c)
  PROVE  Conversation(c)'
<1>1. OutsideType /\ HandlerType
  BY TypeParts
<1>2. PICK result \in {"ok", "err"} :
        /\ spc[c] = "working" /\ spc' = [spc EXCEPT ![c] = "replying"]
        /\ handled' = [handled EXCEPT ![c] = Append(handled[c], build)]
        /\ outcome' = [outcome EXCEPT ![c] = result]
        /\ UNCHANGED <<toServer, toClient, serverCrypto>>
  BY Zenon DEF Execute, HandlerGoes
<1>3. /\ UNCHANGED setting /\ UNCHANGED daemon /\ UNCHANGED <<cpc, clientCrypto, answer, linked>>
      /\ (Asked(c)' <=> Asked(c)) /\ (Up' <=> Up) /\ build' = build
  BY HandlerLeaves DEF HandlerStep
<1>4. /\ Asked(c) /\ handled[c] = <<>> /\ toServer[c] = <<>> /\ outcome[c] = ""
      /\ serverCrypto[c] = Received(ServerKeyed(c)) /\ (who[c].via = "tcp" => KeyFits(c))
      /\ ~who[c].huge
      /\ cpc[c] = "answer" => toClient[c] = <<>>
  BY <1>2 DEF Conversation, ServerInv, DaemonInv
<1>5. cpc[c] \notin {"idle", "connected", "welcome", "pong", "ready", "sending"}
  BY <1>4 DEF Conversation, ClientInv, Asked
<1>6. who[c].via = "unix" => build = who[c].build
  BY <1>2, <1>4 DEF Conversation, DaemonInv, Live
<1>7. spc'[c] = "replying" /\ outcome'[c] = result
  BY <1>1, <1>2 DEF HandlerType
<1>8. handled'[c] = <<build>>
  BY <1>1, <1>2, <1>4, OneFrame DEF HandlerType
<1>9. handled'[c] # <<>> /\ Len(handled'[c]) = 1 /\ Head(handled'[c]) = build
  BY <1>8, OneFrame
<1>10. answer[c] \notin {"ok", "Error: err"}
  BY <1>4 DEF Conversation, Truth
<1>11. ClientInv(c)'
  BY <1>2, <1>3, <1>4, <1>5, SettingStays DEF Conversation, ClientInv
<1>12. ServerInv(c)'
  BY <1>2, <1>3, <1>4, <1>7, <1>9, SettingStays DEF ServerInv
<1>13. DaemonInv(c)'
  BY <1>2, <1>3, <1>7, <1>9, SettingStays DEF Conversation, DaemonInv, Live
<1>14. Truth(c)' /\ Right(c)'
  BY <1>3, <1>4, <1>6, <1>9, <1>10, SettingStays DEF Truth, Right
<1> QED BY <1>11, <1>12, <1>13, <1>14 DEF Conversation

LEMMA ReplyKeeps ==
  ASSUME RpcTypeOK, NEW c \in Commands, Conversation(c), Reply(c)
  PROVE  Conversation(c)'
<1>1. WireType /\ ClientType /\ HandlerType
  BY TypeParts
<1>2. /\ spc[c] = "replying" /\ spc' = [spc EXCEPT ![c] = "reading"]
      /\ ServerWrites(c, Say("reply", outcome[c])) /\ UNCHANGED <<toServer, handled, outcome>>
  BY Zenon DEF Reply, HandlerGoes
<1>3. /\ UNCHANGED setting /\ UNCHANGED daemon /\ UNCHANGED <<cpc, clientCrypto, answer, linked>>
      /\ (Asked(c)' <=> Asked(c)) /\ (Up' <=> Up) /\ build' = build
  BY HandlerLeaves DEF HandlerStep
<1>4. /\ Asked(c) /\ handled[c] # <<>> /\ toServer[c] = <<>>
      /\ serverCrypto[c] = Received(ServerKeyed(c))
      /\ cpc[c] = "answer" => toClient[c] = <<>>
  BY <1>2 DEF Conversation, ServerInv
<1>5. cpc[c] \notin {"idle", "connected", "welcome", "pong", "ready", "sending"}
  BY <1>4 DEF Conversation, ClientInv, Asked
<1>6. spc'[c] = "reading" /\ serverCrypto'[c] = Sent(Received(ServerKeyed(c)))
  <2>1. serverCrypto' = [serverCrypto EXCEPT ![c] = Sent(serverCrypto[c])]
    BY <1>2, Zenon DEF ServerWrites
  <2> QED BY <1>1, <1>2, <1>4, <2>1 DEF HandlerType
<1>7. ReplyFrame(c)' = ReplyFrame(c) /\ ReplyFrame(c) = Sealed(Say("reply", outcome[c]), serverCrypto[c])
  BY <1>2, <1>3, <1>4, SettingStays DEF ReplyFrame
<1>8. cpc[c] = "answer" => toClient'[c] = <<>> \/ toClient'[c] = <<ReplyFrame(c)>>
  <2>1. \/ toClient' = toClient
        \/ toClient' = [toClient EXCEPT ![c] = Append(toClient[c], ReplyFrame(c))]
    <3>1. CASE ClientHears(c)
      BY <1>2, <1>7, <3>1 DEF ServerWrites
    <3>2. CASE ~ClientHears(c)
      BY <1>2, <3>2 DEF ServerWrites
    <3> QED BY <3>1, <3>2
  <2> QED BY <1>1, <1>4, <2>1, OneFrame DEF WireType
<1>9. ClientInv(c)'
  BY <1>2, <1>3, <1>4, <1>5, <1>7, <1>8, SettingStays DEF Conversation, ClientInv
<1>10. ServerInv(c)'
  BY <1>2, <1>3, <1>4, <1>6, SettingStays DEF ServerInv
<1>11. DaemonInv(c)' /\ Truth(c)' /\ Right(c)'
  BY <1>2, <1>3, <1>6, SettingStays DEF Conversation, DaemonInv, Truth, Right, Live
<1> QED BY <1>9, <1>10, <1>11 DEF Conversation

-----------------------------------------------------------------------------
(* Faults.                                                                 *)

LEMMA BreakKeeps ==
  ASSUME RpcTypeOK, NEW c \in Commands, Conversation(c), Break(c) \/ Unacknowledged(c)
  PROVE  Conversation(c)'
<1>1. FlagsType /\ WireType
  BY TypeParts
<1>2. /\ linked[c] # "up" \/ cpc[c] \notin {"idle", "done"}
      /\ UNCHANGED setting /\ UNCHANGED daemon
      /\ UNCHANGED <<cpc, spc, clientCrypto, serverCrypto, handled, outcome, answer>>
  BY DEF Break, Unacknowledged
<1>3. toServer'[c] = <<>> /\ (toClient'[c] = <<>> \/ toClient'[c] = toClient[c])
  <2>1. CASE Break(c)
    BY <1>1, <2>1 DEF Break, WireType
  <2>2. CASE Unacknowledged(c)
    BY <2>2 DEF Unacknowledged, Conversation, ServerInv
  <2> QED BY <2>1, <2>2
<1>4. (Asked(c)' <=> Asked(c)) /\ (Live(c)' <=> Live(c)) /\ (Up' <=> Up) /\ build' = build
  BY <1>2 DEF Asked, Live, Up, daemon
<1>5. ReplyFrame(c)' = ReplyFrame(c)
  BY <1>2, SettingStays DEF ReplyFrame
<1>6. ClientInv(c)'
  BY <1>2, <1>3, <1>4, <1>5, SettingStays DEF Conversation, ClientInv
<1>7. ServerInv(c)'
  <2>1. Asked(c) => cpc[c] \notin {"connected", "pong"}
    BY DEF Asked, Conversation, ClientInv
  <2>2. Greeted(c) => Greeted(c)'
    BY <1>2, <1>3, <1>4, <2>1, SettingStays DEF Greeted
  <2> QED BY <1>2, <1>3, <1>4, <2>2, SettingStays DEF Conversation, ServerInv
<1>8. DaemonInv(c)' /\ Truth(c)' /\ Right(c)'
  BY <1>2, <1>4, SettingStays DEF Conversation, DaemonInv, Truth, Right
<1> QED BY <1>6, <1>7, <1>8 DEF Conversation

\* The daemon is not there: nobody handles the command, and its answer may be lost.
LEMMA DownKeeps ==
  ASSUME NEW c \in Commands, Conversation(c), ~Live(c)',
         UNCHANGED setting, linked' = linked,
         UNCHANGED <<cpc, clientCrypto, serverCrypto, handled, outcome, answer>>,
         (spc[c] = "none") <=> (spc'[c] = "none"),
         toServer'[c] \in {toServer[c], <<>>}, toClient'[c] \in {toClient[c], <<>>}
  PROVE  Conversation(c)'
<1>1. (Asked(c)' <=> Asked(c)) /\ ReplyFrame(c)' = ReplyFrame(c)
  BY SettingStays DEF Asked, ReplyFrame
<1>2. ClientInv(c)'
  BY <1>1, SettingStays DEF Conversation, ClientInv
<1>3. ServerInv(c)'
  BY SettingStays DEF Conversation, ServerInv, Live
<1>4. DaemonInv(c)' /\ Truth(c)' /\ Right(c)'
  BY SettingStays DEF Conversation, DaemonInv, Truth, Right
<1> QED BY <1>2, <1>3, <1>4 DEF Conversation

LEMMA CrashKeeps ==
  ASSUME RpcTypeOK, NEW c \in Commands, Conversation(c), Crash \/ Start
  PROVE  Conversation(c)'
<1>1. CASE Crash
  <2>1. PICK kept \in SUBSET Commands :
          /\ spc' = [d \in Commands |-> IF spc[d] = "none" THEN "none" ELSE "closed"]
          /\ toServer' = [d \in Commands |-> <<>>]
          /\ toClient' = [d \in Commands |-> IF d \in kept THEN toClient[d] ELSE <<>>]
          /\ UNCHANGED setting
          /\ UNCHANGED <<cpc, clientCrypto, serverCrypto, handled, outcome, answer, linked>>
    BY <1>1, Zenon DEF Crash
  <2>2. ~Live(c)' /\ ((spc[c] = "none") <=> (spc'[c] = "none"))
    BY <2>1 DEF Live
  <2>3. toServer'[c] \in {toServer[c], <<>>} /\ toClient'[c] \in {toClient[c], <<>>}
    BY <2>1
  <2> QED BY <2>1, <2>2, <2>3, DownKeeps
<1>2. CASE Start
  <2>1. /\ ~Up /\ UNCHANGED setting
        /\ UNCHANGED <<cpc, spc, toServer, toClient, clientCrypto, serverCrypto, handled, outcome,
                       answer, linked>>
    BY <1>2, Zenon DEF Start, Up
  <2>2. ~Live(c)'
    BY <2>1 DEF Live, Conversation, DaemonInv
  <2> QED BY <2>1, <2>2, DownKeeps
<1> QED BY <1>1, <1>2

-----------------------------------------------------------------------------
(* The invariant, and what follows from it.                                *)

LEMMA InitInvariant == RpcInit => ConversationInv
BY InitTypes, InitConversation DEF ConversationInv

LEMMA NextInvariant == ConversationInv /\ [RpcNext]_rpcVars => ConversationInv'
<1> SUFFICES ASSUME ConversationInv, [RpcNext]_rpcVars PROVE ConversationInv'
  OBVIOUS
<1>0. RpcTypeOK /\ RpcTypeOK'
  BY NextTypes DEF ConversationInv
<1> SUFFICES ASSUME NEW d \in Commands PROVE Conversation(d)'
  BY <1>0, Zenon DEF ConversationInv
<1>1. RpcTypeOK /\ Conversation(d)
  BY <1>0 DEF ConversationInv
<1>2. CASE UNCHANGED rpcVars
  <2>1. UNCHANGED setting /\ UNCHANGED daemon /\ Local(d)' = Local(d)
    BY <1>2 DEF rpcVars, setting, daemon, Local
  <2> QED BY <1>1, <2>1, Untouched
<1>3. ASSUME NEW c \in Commands,
             \/ Connect(c) \/ ConnectFails(c) \/ SendCommand(c) \/ Disconnect(c)
             \/ ClientStep(c) \/ HandlerStep(c) \/ Break(c) \/ Unacknowledged(c)
      PROVE  Conversation(d)'
  <2>1. CASE c = d
    BY <1>1, <1>3, <2>1, ConnectKeeps, LeavingKeeps, GreetKeeps, SendCommandKeeps, SendingFailsKeeps, WelcomedKeeps,
       ReadAnswerKeeps, HandshakeKeeps, ReadPingKeeps, ReadCommandKeeps, LeaveLoopKeeps,
       ExecuteKeeps, ReplyKeeps, BreakKeeps DEF ClientStep, HandlerStep
  <2>2. CASE c # d
    BY <1>1, <1>3, <2>2, OneCommandMoves, Untouched
  <2> QED BY <2>1, <2>2
<1>4. CASE Crash \/ Start
  BY <1>1, <1>4, CrashKeeps
<1> QED BY <1>1, <1>2, <1>3, <1>4 DEF RpcNext

LEMMA AlwaysConversation == RpcSpec => []ConversationInv
BY InitInvariant, NextInvariant, PTL DEF RpcSpec

\* Both ends keep their types, whatever breaks.
THEOREM TypeCorrect == RpcSpec => []RpcTypeOK
<1>1. ConversationInv => RpcTypeOK
  BY DEF ConversationInv
<1> QED BY <1>1, AlwaysConversation, PTL

LEMMA ConversationTrue == ConversationInv => ToldTheTruth
<1> SUFFICES ASSUME ConversationInv, NEW c \in Commands
             PROVE  /\ answer[c] = "ok" => outcome[c] = "ok"
                    /\ answer[c] = "Error: err" => outcome[c] = "err"
                    /\ answer[c] \in {"Not connected", "Send failed", "unused", "killed"} => handled[c] = <<>>
  BY DEF ToldTheTruth
<1>1. Conversation(c)
  BY DEF ConversationInv
<1>2. answer[c] \in {"Not connected", "Send failed", "unused", "killed"} => ~Asked(c)
  BY <1>1 DEF Conversation, ClientInv, Asked
<1> QED BY <1>1, <1>2 DEF Conversation, ClientInv, Truth

\* For any commands and faults a client is told what came of its command.
THEOREM ClientsAreToldTheTruth == RpcSpec => []ToldTheTruth
BY ConversationTrue, AlwaysConversation, PTL

LEMMA ConversationRight == ConversationInv => HandledOnceByRightDaemon
<1> SUFFICES ASSUME ConversationInv, NEW c \in Commands, handled[c] # <<>>
             PROVE  /\ Len(handled[c]) = 1
                    /\ who[c].via = "unix" => Head(handled[c]) = who[c].build
                    /\ who[c].via = "tcp" => KeyFits(c)
  BY Zenon DEF HandledOnceByRightDaemon, KeyFits
<1> QED BY DEF ConversationInv, Conversation, Right

\* A command is carried out once at most, by a daemon that may.
THEOREM CommandsAreHandledOnce == RpcSpec => []HandledOnceByRightDaemon
BY ConversationRight, AlwaysConversation, PTL

-----------------------------------------------------------------------------
(* Sessions.                                                               *)

Finishes ==
  \/ Refuse \/ SetScope \/ Affected \/ Calls \/ ExploreFails \/ ExploreChoice
  \/ GetUnlocated \/ Overview
  \/ QueryReturns \/ ReadReturns \/ AddReturns \/ ExploreReturns

\* Of the hits it lists explore keeps documents.
Kept == IF lister = "explore" THEN AsDocs(shown) ELSE shown

\* A session between requests, one whose tool has not connected, and one that
\* waits for its command.
Between == using = NoCommand /\ found = <<>> /\ fetched = NoHit
SessionInv ==
  /\ reply # "" => Between
  /\ reply = "" /\ using = NoCommand => \E c \in Commands : cpc[c] = "idle"
  /\ found # <<>> => asked.tool = "explore"
  /\ fetched # NoHit => fetched = Location /\ fetched \in Hit
  /\ using \in Commands => Allowed
  /\ found \in Docs
  /\ lister # "definitions" => results = Kept

-----------------------------------------------------------------------------
(* Lists of hits.                                                          *)

LEMMA HitsAreLists == Hits \subseteq Seq(Hit)
BY McpAssumption DEF Hits

\* Lists of hits that fit together make a list of hits.
LEMMA HitsJoin ==
  ASSUME NEW s \in Hits, NEW t \in Hits, Len(s) + Len(t) <= MaxHits
  PROVE  s \o t \in Hits
<1>1. MaxHits \in Nat
  BY McpAssumption
<1>2. s \in Seq(Hit) /\ t \in Seq(Hit)
  BY HitsAreLists
<1>3. s \o t \in Seq(Hit) /\ Len(s \o t) = Len(s) + Len(t)
  BY <1>2
<1>4. s \o t \in [1 .. Len(s) + Len(t) -> Hit]
  BY <1>3, LenProperties
<1>5. Len(s) + Len(t) \in 0 .. MaxHits
  BY <1>1, <1>2
<1> QED BY <1>4, <1>5 DEF Hits

LEMMA NoHits == <<>> \in Hits
<1>1. 0 \in 0 .. MaxHits /\ <<>> \in [1 .. 0 -> Hit]
  BY McpAssumption
<1> QED BY <1>1 DEF Hits

\* Documents are hits, an empty list is one of documents, and lists of documents
\* make one.
LEMMA DocsAreHits ==
  /\ Docs \subseteq Hits /\ <<>> \in Docs
  /\ \A hits \in Hits : /\ Len(AsDocs(hits)) = Len(hits) /\ AsDocs(hits) \in Hits
                        /\ AsDocs(hits) \in Seq(Hit)
<1>1. ASSUME NEW hits \in Hits
      PROVE  Len(AsDocs(hits)) = Len(hits) /\ AsDocs(hits) \in Hits /\ AsDocs(hits) \in Seq(Hit)
  <2>1. PICK n \in 0 .. MaxHits : hits \in [1 .. n -> Hit]
    BY <1>1 DEF Hits
  <2>2. n \in Nat /\ "doc" \in EntryTypes
    BY McpAssumption
  <2>3. AsDocs(hits) \in [1 .. n -> Hit]
    BY <2>1, <2>2 DEF AsDocs, AsDoc, Hit
  <2>4. AsDocs(hits) \in Hits
    BY <2>1, <2>3 DEF Hits
  <2>5. hits \in Seq(Hit) /\ AsDocs(hits) \in Seq(Hit)
    BY <1>1, <2>4, HitsAreLists
  <2> QED BY <2>1, <2>2, <2>3, <2>4, <2>5, LenProperties
<1>2. AsDocs(<<>>) = <<>>
  BY DEF AsDocs
<1> QED BY <1>1, <1>2, NoHits DEF Docs

\* A hit kept as a document keeps its place and its path.
LEMMA AsDocsHit ==
  ASSUME NEW hits \in Hits, NEW k \in DOMAIN hits
  PROVE  /\ AsDocs(hits)[k].path = hits[k].path /\ AsDocs(hits)[k].index = hits[k].index
         /\ AsDocs(hits)[k].type = "doc"
<1>1. hits[k] \in Hit
  BY DEF Hits
<1> QED BY <1>1 DEF AsDocs, AsDoc, Hit

LEMMA AsDocsJoin ==
  ASSUME NEW s \in Docs, NEW t \in Hits
  PROVE  AsDocs(s \o t) = s \o AsDocs(t)
<1>1. s \in Hits /\ AsDocs(s) = s
  BY DEF Docs
<1>2. s \in Seq(Hit) /\ t \in Seq(Hit) /\ AsDocs(t) \in Seq(Hit) /\ Len(AsDocs(t)) = Len(t)
  BY <1>1, HitsAreLists, DocsAreHits
<1>3. \A k \in 1 .. Len(s) : AsDoc(s[k]) = s[k]
  <2>1. DOMAIN s = 1 .. Len(s)
    BY <1>2
  <2> QED BY <1>1, <2>1 DEF AsDocs
<1>4. \A k \in 1 .. Len(t) : AsDocs(t)[k] = AsDoc(t[k])
  <2>1. DOMAIN t = 1 .. Len(t)
    BY <1>2
  <2> QED BY <2>1 DEF AsDocs
<1>5. Len(s) \in Nat /\ Len(t) \in Nat
  BY <1>2
<1>6. \A u \in Seq(Hit) : Len(u) = Len(t) =>
        /\ s \o u \in Seq(Hit) /\ Len(s \o u) = Len(s) + Len(t)
        /\ DOMAIN (s \o u) = 1 .. Len(s) + Len(t)
        /\ \A k \in 1 .. Len(s) + Len(t) :
             (s \o u)[k] = IF k <= Len(s) THEN s[k] ELSE u[k - Len(s)]
  <2> SUFFICES ASSUME NEW u \in Seq(Hit), Len(u) = Len(t)
               PROVE  /\ s \o u \in Seq(Hit) /\ Len(s \o u) = Len(s) + Len(t)
                      /\ DOMAIN (s \o u) = 1 .. Len(s) + Len(t)
                      /\ \A k \in 1 .. Len(s) + Len(t) :
                           (s \o u)[k] = IF k <= Len(s) THEN s[k] ELSE u[k - Len(s)]
    OBVIOUS
  <2>1. s \o u \in Seq(Hit) /\ Len(s \o u) = Len(s) + Len(t)
    BY <1>2
  <2>2. DOMAIN (s \o u) = 1 .. Len(s) + Len(t)
    BY <2>1, LenProperties
  <2>3. \A k \in 1 .. Len(s) + Len(t) :
          (s \o u)[k] = IF k <= Len(s) THEN s[k] ELSE u[k - Len(s)]
    BY <1>2
  <2> QED BY <2>1, <2>2, <2>3
<1>7. \A k \in 1 .. Len(s) + Len(t) : AsDoc((s \o t)[k]) = (s \o AsDocs(t))[k]
  <2> SUFFICES ASSUME NEW k \in 1 .. Len(s) + Len(t)
               PROVE  AsDoc((s \o t)[k]) = (s \o AsDocs(t))[k]
    OBVIOUS
  <2>1. CASE k <= Len(s)
    BY <1>2, <1>3, <1>5, <1>6, <2>1
  <2>2. CASE ~(k <= Len(s))
    <3>1. k - Len(s) \in 1 .. Len(t)
      BY <1>5, <2>2
    <3> QED BY <1>2, <1>4, <1>6, <2>2, <3>1
  <2> QED BY <2>1, <2>2
<1>8. AsDocs(s \o t) = [k \in 1 .. Len(s) + Len(t) |-> (s \o AsDocs(t))[k]]
  BY <1>2, <1>6, <1>7 DEF AsDocs
<1>9. s \o AsDocs(t) = [k \in 1 .. Len(s) + Len(t) |-> (s \o AsDocs(t))[k]]
  <2>1. s \o AsDocs(t) \in [1 .. Len(s) + Len(t) -> Hit]
    BY <1>2, <1>6, LenProperties
  <2> QED BY <2>1
<1> QED BY <1>8, <1>9

-----------------------------------------------------------------------------
(* What the session's actions do, and what they leave alone.               *)

LEMMA FinishEffects ==
  ASSUME Finishes
  PROVE  /\ reply = "" /\ reply' # "" /\ reply' \in {"ok", "error"}
         /\ Between' /\ asked' = NoRequest
         /\ scope' = scope \/ (asked.tool = "set_scope" /\ scope' = asked.index)
         /\ includeWrite' = includeWrite
         /\ UNCHANGED rpcVars \/ \E c \in Commands : Disconnect(c)
<1>1. \E result \in {"ok", "error"} : Replies(result)
  <2>1. CASE Refuse \/ GetUnlocated
    BY <2>1, Zenon DEF Refuse, GetUnlocated, Answers
  <2>2. CASE SetScope
    BY <2>2, Zenon DEF SetScope
  <2>3. CASE Affected \/ Calls \/ Overview \/ ExploreReturns
    BY <2>3, Zenon DEF Affected, Calls, Overview, ExploreReturns, Answers
  <2>4. CASE ExploreFails \/ ExploreChoice
    BY <2>4, Zenon DEF ExploreFails, ExploreChoice, Answers
  <2>5. CASE QueryReturns
    <3>1. CASE Succeeded
      BY <2>5, <3>1, Zenon DEF QueryReturns, Answers
    <3>2. CASE ~Succeeded
      BY <2>5, <3>2, Zenon DEF QueryReturns, Answers
    <3> QED BY <3>1, <3>2
  <2>6. CASE ReadReturns
    BY <2>6, Zenon DEF ReadReturns, Answers
  <2>7. CASE AddReturns
    <3>1. (IF Failed(answer[using]) THEN "error" ELSE "ok") \in {"ok", "error"}
      OBVIOUS
    <3> QED BY <2>7, <3>1, Zenon DEF AddReturns, Answers
  <2> QED BY <2>1, <2>2, <2>3, <2>4, <2>5, <2>6, <2>7 DEF Finishes
<1>2. reply = ""
  BY Zenon DEF Finishes, Refuse, SetScope, Affected, Calls, ExploreFails, ExploreChoice,
               GetUnlocated, Overview,
               QueryReturns, ReadReturns, AddReturns, ExploreReturns, Processing, Mine
<1>3. /\ scope' = scope \/ (asked.tool = "set_scope" /\ scope' = asked.index)
      /\ includeWrite' = includeWrite
  <2>1. CASE SetScope
    BY <2>1, Zenon DEF SetScope, Processing
  <2>2. CASE QueryReturns
    <3>1. CASE Succeeded
      BY <2>2, <3>1, Zenon DEF QueryReturns, Answers
    <3>2. CASE ~Succeeded
      BY <2>2, <3>2, Zenon DEF QueryReturns, Answers
    <3> QED BY <3>1, <3>2
  <2>3. CASE \/ Refuse \/ Affected \/ Calls \/ ExploreFails \/ ExploreChoice \/ GetUnlocated
             \/ Overview \/ ReadReturns \/ AddReturns \/ ExploreReturns
    BY <2>3, Zenon DEF Refuse, Affected, Calls, ExploreFails, ExploreChoice, GetUnlocated,
                       Overview, ReadReturns, AddReturns, ExploreReturns, Answers
  <2> QED BY <2>1, <2>2, <2>3 DEF Finishes
<1>4. UNCHANGED rpcVars \/ \E c \in Commands : Disconnect(c)
  <2>1. CASE GetUnlocated \/ Overview
    BY <2>1, Zenon DEF GetUnlocated, Overview, Mine
  <2>2. CASE \/ Refuse \/ SetScope \/ Affected \/ Calls \/ ExploreFails \/ ExploreChoice
             \/ QueryReturns \/ ReadReturns \/ AddReturns \/ ExploreReturns
    BY <2>2, Zenon DEF Refuse, SetScope, Affected, Calls, ExploreFails, ExploreChoice,
                       QueryReturns, ReadReturns, AddReturns, ExploreReturns
  <2> QED BY <2>1, <2>2 DEF Finishes
<1>5. reply' \in {"ok", "error"} /\ asked' = NoRequest /\ Between'
  BY <1>1, Zenon DEF Replies, Between
<1> QED BY <1>2, <1>3, <1>4, <1>5

\* What a tool lists is what the session keeps of it, a choice of definitions
\* aside.
LEMMA FinishKeeps ==
  ASSUME Finishes, SessionInv
  PROVE  lister' # "definitions" => results' = Kept'
<1>1. CASE QueryReturns
  <2>1. CASE Succeeded
    <3>1. \E hits \in Hits : results' = hits /\ lister' = "query" /\ shown' = hits
      BY <1>1, <2>1, Zenon DEF QueryReturns, Caches, Lists
    <3> QED BY <3>1 DEF Kept
  <2>2. CASE ~Succeeded
    <3>1. UNCHANGED <<results, lister, shown>>
      BY <1>1, <2>2, Zenon DEF QueryReturns, CachesNothing
    <3> QED BY <3>1 DEF Kept, SessionInv, AsDocs, AsDoc
  <2> QED BY <2>1, <2>2
<1>2. CASE Calls
  <2>1. \E hits : results' = hits /\ lister' = "calls" /\ shown' = hits
    BY <1>2, Zenon DEF Calls, Caches, Lists
  <2> QED BY <2>1 DEF Kept
<1>3. CASE ExploreChoice
  BY <1>3, Zenon DEF ExploreChoice, Lists
<1>4. CASE ExploreReturns
  <2>1. PICK related \in Hits : /\ results' = found \o AsDocs(related)
                                /\ lister' = "explore" /\ shown' = found \o related
    BY <1>4, Zenon DEF ExploreReturns, Caches, Lists
  <2>2. found \in Docs
    BY DEF SessionInv
  <2>3. AsDocs(found \o related) = found \o AsDocs(related)
    BY <2>2, AsDocsJoin
  <2>4. Kept' = AsDocs(found \o related)
    BY <2>1 DEF Kept, AsDocs, AsDoc
  <2> QED BY <2>1, <2>3, <2>4
<1>5. CASE \/ Refuse \/ SetScope \/ Affected \/ ExploreFails \/ GetUnlocated \/ Overview
           \/ ReadReturns \/ AddReturns
  <2>1. UNCHANGED <<results, lister, shown>>
    BY <1>5, Zenon DEF Refuse, SetScope, Affected, ExploreFails, GetUnlocated, Overview,
                       ReadReturns, AddReturns, CachesNothing
  <2> QED BY <2>1 DEF Kept, SessionInv, AsDocs, AsDoc
<1> QED BY <1>1, <1>2, <1>3, <1>4, <1>5 DEF Finishes

\* A request's tool connects with a command that has not run yet.
LEMMA OpenClientPicks ==
  ASSUME OpenClient, SessionInv
  PROVE  \E c \in Commands : using' = c /\ cpc[c] = "idle" /\ (Connect(c) \/ ConnectFails(c))
<1>1. using' \in Commands /\ cpc[using'] = "idle"
  <2>1. \E c \in Commands : cpc[c] = "idle"
    BY Zenon DEF OpenClient, SessionInv
  <2>2. using' = CHOOSE c \in Commands : cpc[c] = "idle"
    BY Zenon DEF OpenClient
  <2> QED BY <2>1, <2>2, Zenon
<1>2. Connect(using') \/ ConnectFails(using')
  BY Zenon DEF OpenClient
<1> QED BY <1>1, <1>2, Zenon

\* Every step of a session is one of Rpc's, or none.
LEMMA SessionSteps ==
  ASSUME SessionInv, [Next]_vars
  PROVE  [RpcNext]_rpcVars
<1>1. CASE UNCHANGED vars
  BY <1>1, Zenon DEF vars
<1>2. CASE \E r \in Requests : Ask(r)
  BY <1>2, Zenon DEF Ask
<1>3. CASE Finishes
  <2>1. UNCHANGED rpcVars \/ \E c \in Commands : Disconnect(c)
    BY <1>3, FinishEffects
  <2> QED BY <2>1, Zenon DEF RpcNext
<1>4. CASE ExploreFinds
  BY <1>4, Zenon DEF ExploreFinds
<1>5. CASE OpenClient
  <2>1. \E c \in Commands : Connect(c) \/ ConnectFails(c)
    BY <1>5, OpenClientPicks, Zenon
  <2> QED BY <2>1, Zenon DEF RpcNext
<1>6. CASE Sends
  <2>1. using \in Commands /\ SendCommand(using)
    BY <1>6, Zenon DEF Sends, Mine
  <2> QED BY <2>1, Zenon DEF RpcNext
<1>7. CASE \E c \in Commands : ConnectionStep(c)
  BY <1>7, Zenon DEF ConnectionStep, RpcNext
<1>8. CASE (Crash \/ Start \/ \E c \in Commands : Break(c) \/ Unacknowledged(c)) /\ UNCHANGED sessionVars
  BY <1>8, Zenon DEF RpcNext
<1> QED BY <1>1, <1>2, <1>3, <1>4, <1>5, <1>6, <1>7, <1>8 DEF Next, SessionStep, Finishes

\* A command nobody runs stays idle, and no connection's step, nor a fault, makes
\* a command end unused.
LEMMA ConnectionsMove ==
  ASSUME RpcTypeOK, NEW d \in Commands,
         \/ \E c \in Commands :
              ClientStep(c) \/ HandlerStep(c) \/ Break(c) \/ Unacknowledged(c)
         \/ Crash \/ Start
  PROVE  /\ cpc[d] = "idle" => cpc'[d] = "idle"
         /\ answer[d] # "unused" => answer'[d] # "unused"
<1>1. ClientType
  BY TypeParts
<1>2. CASE \/ Crash \/ Start
           \/ \E c \in Commands : HandlerStep(c) \/ Break(c) \/ Unacknowledged(c)
  BY <1>2, Zenon DEF Crash, Start, HandlerStep, Break, Unacknowledged, Handshake, ReadPing, ReadCommand,
                     LeaveLoop, Execute, Reply, HandlerStays
<1>3. ASSUME NEW c \in Commands, ClientStep(c)
      PROVE  /\ cpc[d] = "idle" => cpc'[d] = "idle"
             /\ answer[d] # "unused" => answer'[d] # "unused"
  <2>1. cpc[c] # "idle" /\ \E step : cpc' = [cpc EXCEPT ![c] = step]
    <3>1. cpc[c] \in {"connected", "welcome", "pong", "sending", "answer"}
      BY <1>3 DEF ClientStep, Greet, Welcomed, Ponged, SendingFails, ReadAnswer, ReadFails,
                  Timeout, Awaits
    <3>2. \E step : cpc' = [cpc EXCEPT ![c] = step]
      BY <1>3, Zenon DEF ClientStep, Greet, Welcomed, Ponged, SendingFails, WriteFails,
                         ReadAnswer, ReadFails, Timeout, GivesUp, Returns, ClientGoes
    <3> QED BY <3>1, <3>2
  <2>2. \/ answer' = answer
        \/ \E r \in {"Not connected", "Send failed", "Read failed", "ok", "Error: err", "killed"} :
             answer' = [answer EXCEPT ![c] = r]
    <3>1. CASE Welcomed(c)
      BY <1>3, <3>1, Zenon DEF Welcomed, Returns
    <3>2. CASE Ponged(c)
      BY <1>3, <3>2, Zenon DEF Ponged, Returns
    <3>3. CASE ReadAnswer(c)
      BY <1>3, <3>3 DEF ReadAnswer, Returns
    <3>4. CASE ReadFails(c) \/ Timeout(c)
      BY <1>3, <3>4 DEF ReadFails, Timeout, GivesUp, Returns
    <3>5. CASE Greet(c) \/ SendingFails(c)
      BY <1>3, <3>5, Zenon DEF Greet, SendingFails, WriteFails, Returns
    <3> QED BY <1>3, <3>1, <3>2, <3>3, <3>4, <3>5 DEF ClientStep
  <2> QED BY <1>1, <2>1, <2>2 DEF ClientType
<1> QED BY <1>2, <1>3

-----------------------------------------------------------------------------
(* The session's invariant.                                                *)

LEMMA InitSession == Init => SessionInv
<1> SUFFICES ASSUME Init PROVE SessionInv
  OBVIOUS
<1>1. /\ using = NoCommand /\ found = <<>> /\ fetched = NoHit /\ reply = "ok"
      /\ results = shown /\ lister = None
  BY Zenon DEF Init
<1>2. NoCommand \notin Commands /\ <<>> \in Docs /\ Kept = shown
  BY <1>1, McpAssumption, DocsAreHits DEF Kept, None
<1> QED BY <1>1, <1>2 DEF SessionInv, Between

\* Where a location comes from stays as it is while the request is processed.
LEMMA LocationStays ==
  ASSUME UNCHANGED <<scope, results, asked>>
  PROVE  Location' = Location
<1>1. Scoped' = Scoped /\ Cursor' = Cursor /\ NoHit' = NoHit
  BY DEF Scoped, Cursor, NoHit
<1>2. Argued' = Argued
  BY <1>1 DEF Argued
<1> QED BY <1>1, <1>2 DEF Location

\* So does what the session keeps, and whether that is what was listed.
LEMMA KeptStays ==
  ASSUME UNCHANGED <<results, lister, shown>>, SessionInv
  PROVE  lister' # "definitions" => results' = Kept'
BY DEF Kept, AsDocs, AsDoc, SessionInv

LEMMA NextSession ==
  ASSUME RpcTypeOK, SessionInv, [Next]_vars
  PROVE  SessionInv'
<1>0. NoCommand \notin Commands
  BY McpAssumption
<1>1. CASE Finishes
  <2>1. reply' # "" /\ Between'
    BY <1>1, FinishEffects
  <2>2. lister' # "definitions" => results' = Kept'
    BY <1>1, FinishKeeps
  <2>3. using' = NoCommand /\ found' = <<>> /\ fetched' = NoHit /\ found' \in Docs
    BY <2>1, DocsAreHits DEF Between, NoHit
  <2> QED BY <1>0, <2>1, <2>2, <2>3 DEF SessionInv, NoHit
<1>2. ASSUME UNCHANGED <<scope, results, asked, found, lister, shown>>,
             includeWrite' = includeWrite,
             reply = "", reply' = "", using' \in Commands,
             fetched' = fetched \/ (fetched' = Location /\ Location \in Hit) \/ fetched' = NoHit,
             Allowed
      PROVE  SessionInv'
  <2>1. Location' = Location /\ NoHit' = NoHit /\ Hit' = Hit
    BY <1>2, LocationStays DEF NoHit, Hit
  <2>2. Allowed'
    BY <1>2, Zenon DEF Allowed
  <2>3. fetched' # NoHit => fetched' = Location /\ fetched' \in Hit
    BY <1>2 DEF SessionInv
  <2>4. lister' # "definitions" => results' = Kept'
    BY <1>2, KeptStays
  <2> QED BY <1>0, <1>2, <2>1, <2>2, <2>3, <2>4 DEF SessionInv
<1>3. CASE OpenClient
  <2>1. /\ UNCHANGED <<scope, results, asked, found, fetched, lister, shown, reply>>
        /\ includeWrite' = includeWrite /\ reply = "" /\ Allowed
    BY <1>3, Zenon DEF OpenClient
  <2>2. using' \in Commands
    BY <1>3, OpenClientPicks, Zenon
  <2> QED BY <1>2, <2>1, <2>2
<1>4. CASE Sends
  <2>1. /\ UNCHANGED <<scope, results, asked, found, lister, shown, reply>>
        /\ includeWrite' = includeWrite /\ reply = "" /\ using \in Commands /\ using' = using
        /\ asked.tool = "get" => Located
        /\ fetched' = IF asked.tool = "get" THEN Location ELSE NoHit
    BY <1>4, Zenon DEF Sends, Mine
  <2>2. Allowed
    BY <2>1 DEF SessionInv
  <2>3. (fetched' = Location /\ Location \in Hit) \/ fetched' = NoHit
    BY <2>1 DEF Located
  <2> QED BY <1>2, <2>1, <2>2, <2>3
<1>5. ASSUME NEW r \in Requests, Ask(r) PROVE SessionInv'
  <2>1. /\ reply' = "" /\ using' = using /\ found' = found /\ fetched' = fetched
        /\ cpc' = cpc /\ UNCHANGED <<results, lister, shown>> /\ reply # ""
        /\ \E c \in Commands : cpc[c] = "idle"
    BY <1>5, Zenon DEF Ask, rpcVars
  <2>2. using' = NoCommand /\ found' = <<>> /\ fetched' = NoHit /\ NoHit' = NoHit
    BY <2>1 DEF SessionInv, Between, NoHit
  <2>3. lister' # "definitions" => results' = Kept'
    BY <2>1, KeptStays
  <2> QED BY <1>0, <2>1, <2>2, <2>3 DEF SessionInv
<1>6. CASE ExploreFinds
  <2>1. /\ UNCHANGED <<scope, results, asked, lister, shown, using, fetched, reply, cpc>>
        /\ includeWrite' = includeWrite /\ reply = "" /\ asked.tool = "explore"
        /\ found' \in Docs
    BY <1>6, Zenon DEF ExploreFinds, Processing, rpcVars
  <2>2. Location' = Location /\ NoHit' = NoHit /\ Hit' = Hit
    BY <2>1, LocationStays DEF NoHit, Hit
  <2>3. Allowed <=> Allowed'
    BY <2>1, Zenon DEF Allowed
  <2>4. lister' # "definitions" => results' = Kept'
    BY <2>1, KeptStays
  <2> QED BY <2>1, <2>2, <2>3, <2>4 DEF SessionInv
<1>7. ASSUME UNCHANGED sessionVars,
             \A c \in Commands : cpc[c] = "idle" => cpc'[c] = "idle"
      PROVE  SessionInv'
  <2>1. /\ UNCHANGED <<scope, results, asked, lister, shown, using, found, fetched, reply>>
        /\ includeWrite' = includeWrite
    BY <1>7, Zenon DEF sessionVars
  <2>2. Location' = Location /\ NoHit' = NoHit /\ Hit' = Hit /\ (Between' <=> Between)
    BY <2>1, LocationStays DEF NoHit, Hit, Between
  <2>3. Allowed <=> Allowed'
    BY <2>1, Zenon DEF Allowed
  <2>4. lister' # "definitions" => results' = Kept'
    BY <2>1, KeptStays
  <2> QED BY <1>7, <2>1, <2>2, <2>3, <2>4 DEF SessionInv
<1>8. CASE \E c \in Commands : ConnectionStep(c)
  <2>1. UNCHANGED sessionVars /\ \E c \in Commands : ClientStep(c) \/ HandlerStep(c)
    BY <1>8, Zenon DEF ConnectionStep
  <2> QED BY <1>7, <2>1, ConnectionsMove
<1>9. CASE (Crash \/ Start \/ \E c \in Commands : Break(c) \/ Unacknowledged(c)) /\ UNCHANGED sessionVars
  BY <1>7, <1>9, ConnectionsMove
<1>10. CASE UNCHANGED vars
  <2>1. UNCHANGED sessionVars /\ cpc' = cpc
    BY <1>10, Zenon DEF vars, rpcVars
  <2> QED BY <1>7, <2>1
<1> QED BY <1>1, <1>3, <1>4, <1>5, <1>6, <1>8, <1>9, <1>10 DEF Next, SessionStep, Finishes

\* Nothing in a session but its tools' own commands, each used as Rpc says.
THEOREM SessionsUseRpc == Spec => RpcSpec
<1>1. Init => RpcInit /\ SessionInv
  BY InitSession, Zenon DEF Init
<1>2. RpcInit => RpcTypeOK
  BY InitTypes
<1>3. RpcTypeOK /\ SessionInv /\ [Next]_vars => [RpcNext]_rpcVars /\ RpcTypeOK' /\ SessionInv'
  BY SessionSteps, NextSession, NextTypes
<1> QED BY <1>1, <1>2, <1>3, PTL DEF Spec, RpcSpec

LEMMA AlwaysSession == Spec => [](ConversationInv /\ SessionInv)
<1>1. Init => SessionInv
  BY InitSession
<1>2. ConversationInv /\ SessionInv /\ [Next]_vars => SessionInv'
  BY NextSession DEF ConversationInv
<1> QED BY <1>1, <1>2, AlwaysConversation, SessionsUseRpc, PTL DEF Spec

-----------------------------------------------------------------------------
(* What is proved of sessions.                                             *)

\* A session's tools are told what came of their commands.
THEOREM SessionsAreToldTheTruth == Spec => []ToldTheTruth
BY SessionsUseRpc, ClientsAreToldTheTruth, PTL

\* Its commands are carried out once at most, by a daemon that may.
THEOREM SessionsAreHandledOnce == Spec => []HandledOnceByRightDaemon
BY SessionsUseRpc, CommandsAreHandledOnce, PTL

\* A request's command never ended without having been sent, or tried to.
UsedInv == using \in Commands => answer[using] # "unused"

LEMMA NextUsed ==
  ASSUME ConversationInv, SessionInv, UsedInv, [Next]_vars
  PROVE  UsedInv'
<1>0. RpcTypeOK /\ NoCommand \notin Commands
  BY McpAssumption DEF ConversationInv
<1>1. CASE Finishes
  BY <1>0, <1>1, FinishEffects DEF UsedInv, Between
<1>2. CASE OpenClient
  <2>1. PICK c \in Commands : using' = c /\ cpc[c] = "idle" /\ (Connect(c) \/ ConnectFails(c))
    BY <1>2, OpenClientPicks
  <2>2. answer[c] = ""
    BY <2>1 DEF ConversationInv, Conversation, ClientInv
  <2>3. answer' = answer \/ answer' = [answer EXCEPT ![c] = "Not connected"]
    BY <2>1, Zenon DEF Connect, ConnectFails, Returns
  <2>4. ClientType
    BY <1>0, TypeParts
  <2> QED BY <2>1, <2>2, <2>3, <2>4 DEF UsedInv, ClientType
<1>3. CASE Sends
  <2>1. using \in Commands /\ using' = using
    BY <1>3, Zenon DEF Sends, Mine
  <2>2. \/ answer' = answer
        \/ \E r \in {"killed", "Send failed"} : answer' = [answer EXCEPT ![using] = r]
    BY <1>3, Zenon DEF Sends, SendCommand, WriteFails, Returns
  <2>3. ClientType
    BY <1>0, TypeParts
  <2> QED BY <2>1, <2>2, <2>3 DEF UsedInv, ClientType
<1>4. CASE ExploreFinds \/ UNCHANGED vars \/ \E r \in Requests : Ask(r)
  <2>1. answer' = answer /\ using' = using
    BY <1>4, Zenon DEF ExploreFinds, vars, sessionVars, Ask, rpcVars
  <2> QED BY <2>1 DEF UsedInv
<1>5. CASE \E c \in Commands : ConnectionStep(c)
  <2>1. using' = using /\ \E c \in Commands : ClientStep(c) \/ HandlerStep(c)
    BY <1>5, Zenon DEF ConnectionStep, sessionVars
  <2> QED BY <1>0, <2>1, ConnectionsMove DEF UsedInv
<1>6. CASE (Crash \/ Start \/ \E c \in Commands : Break(c) \/ Unacknowledged(c)) /\ UNCHANGED sessionVars
  <2>1. using' = using
    BY <1>6, Zenon DEF sessionVars
  <2> QED BY <1>0, <1>6, <2>1, ConnectionsMove DEF UsedInv
<1> QED BY <1>1, <1>2, <1>3, <1>4, <1>5, <1>6 DEF Next, SessionStep, Finishes

\* What handle_add_note takes for success is one.
LEMMA AcknowledgedStored ==
  ASSUME ConversationInv, SessionInv, UsedInv, AddReturns, reply' = "ok"
  PROVE  outcome[using] = "ok" /\ Len(handled[using]) = 1
<1>1. using \in Commands /\ cpc[using] = "done" /\ answer[using] # "killed"
  BY Zenon DEF AddReturns, Mine
<1>2. ~Failed(answer[using])
  <2>1. reply' = IF Failed(answer[using]) THEN "error" ELSE "ok"
    BY Zenon DEF AddReturns, Answers, Replies
  <2> QED BY <2>1
<1>3. Conversation(using) /\ ClientType
  BY <1>1, TypeParts DEF ConversationInv
<1>4. answer[using] = "ok"
  BY <1>1, <1>2, <1>3 DEF Failed, Failures, Results, ClientType, UsedInv, Conversation, ClientInv
<1> QED BY <1>3, <1>4 DEF Conversation, Truth, Right, DaemonInv

\* Only add_note's own answer can be the one to an add_note that is ok.
LEMMA OnlyAddAcknowledges ==
  ASSUME SessionInv, Next, asked.tool = "add_note", reply = "", reply' = "ok"
  PROVE  AddReturns
<1>1. found = <<>>
  BY DEF SessionInv
<1>2. ~Refuse /\ ~GetUnlocated
  BY Zenon DEF Refuse, GetUnlocated, Answers, Replies
<1>3. /\ ~SetScope /\ ~Affected /\ ~Calls /\ ~ExploreFails /\ ~ExploreChoice
      /\ ~ExploreFinds /\ ~Overview /\ ~QueryReturns /\ ~ReadReturns
  BY DEF SetScope, Affected, Calls, ExploreFails, ExploreChoice, ExploreFinds, Overview, QueryReturns,
         ReadReturns, Processing
<1>4. ~ExploreReturns
  BY <1>1, Zenon DEF ExploreReturns
<1>5. ~OpenClient /\ ~Sends /\ ~\E r \in Requests : Ask(r)
  BY Zenon DEF OpenClient, Sends, Ask
<1>6. ~(UNCHANGED sessionVars)
  BY Zenon DEF sessionVars
<1> QED BY <1>2, <1>3, <1>4, <1>5, <1>6 DEF Next, SessionStep, ConnectionStep

\* A note that is acknowledged was stored once, by a session that may write.
THEOREM AcknowledgedNotesAreStored == Spec => AckedNoteIsStored
<1> DEFINE Acked ==
      asked.tool = "add_note" /\ reply = "" /\ reply' = "ok" =>
        includeWrite /\ outcome[using] = "ok" /\ Len(handled[using]) = 1
<1>1. Init => UsedInv
  BY McpAssumption DEF Init, UsedInv
<1>2. ConversationInv /\ SessionInv /\ UsedInv /\ [Next]_vars => UsedInv'
  BY NextUsed
<1>3. ConversationInv /\ SessionInv /\ UsedInv /\ [Next]_vars => [Acked]_vars
  <2> SUFFICES ASSUME ConversationInv, SessionInv, UsedInv, Next,
                      asked.tool = "add_note", reply = "", reply' = "ok"
               PROVE  includeWrite /\ outcome[using] = "ok" /\ Len(handled[using]) = 1
    BY Zenon
  <2>1. AddReturns
    BY OnlyAddAcknowledges
  <2>2. includeWrite
    BY <2>1, Zenon DEF AddReturns, Mine, SessionInv, Allowed
  <2> QED BY <2>1, <2>2, AcknowledgedStored, Zenon
<1> QED BY <1>1, <1>2, <1>3, AlwaysSession, PTL DEF Spec, AckedNoteIsStored

-----------------------------------------------------------------------------
(* Types.                                                                  *)

SessionType ==
  /\ scope \in Indexes \cup {None}
  /\ results \in Hits /\ shown \in Hits /\ found \in Hits
  /\ lister \in {None, "query", "calls", "explore", "definitions"}
  /\ asked \in Request
  /\ using \in Commands \cup {NoCommand}
  /\ fetched \in Hit \cup {NoHit}
  /\ reply \in {"", "ok", "error"}

LEMMA FinishTypes ==
  ASSUME SessionInv, SessionType, Finishes
  PROVE  SessionType'
<1> DEFINE Listers == {None, "query", "calls", "explore", "definitions"}
<1>1. results' \in Hits /\ shown' \in Hits /\ lister' \in Listers
  <2>1. CASE Calls
    <3>1. PICK callers \in Docs, callees \in Docs :
            /\ Len(callers) + Len(callees) <= MaxHits
            /\ results' = callers \o callees /\ shown' = callers \o callees /\ lister' = "calls"
      BY <2>1, Zenon DEF Calls, Caches, Lists
    <3>2. callers \in Hits /\ callees \in Hits
      BY DocsAreHits
    <3> QED BY <3>1, <3>2, HitsJoin
  <2>2. CASE ExploreReturns
    <3>1. PICK related \in Hits :
            /\ Len(found \o related) <= MaxHits
            /\ results' = found \o AsDocs(related) /\ shown' = found \o related
            /\ lister' = "explore"
      BY <2>2, Zenon DEF ExploreReturns, Caches, Lists
    <3>2. /\ found \in Seq(Hit) /\ related \in Seq(Hit) /\ found \in Hits
          /\ AsDocs(related) \in Hits /\ Len(AsDocs(related)) = Len(related)
      BY HitsAreLists, DocsAreHits DEF SessionType
    <3>3. Len(found \o related) = Len(found) + Len(related)
      BY <3>2
    <3> QED BY <3>1, <3>2, <3>3, HitsJoin
  <2>3. CASE QueryReturns
    <3>1. (\E hits \in Hits : Caches(hits) /\ Lists("query", hits)) \/ UNCHANGED <<results, lister, shown>>
      <4>1. CASE Succeeded
        BY <2>3, <4>1, Zenon DEF QueryReturns
      <4>2. CASE ~Succeeded
        BY <2>3, <4>2, Zenon DEF QueryReturns, CachesNothing
      <4> QED BY <4>1, <4>2
    <3> QED BY <3>1 DEF Caches, Lists, SessionType
  <2>4. CASE ExploreChoice
    <3>1. results' = results /\ \E hits \in Docs : lister' = "definitions" /\ shown' = hits
      BY <2>4, Zenon DEF ExploreChoice, Lists
    <3> QED BY <3>1, DocsAreHits DEF SessionType
  <2>5. CASE \/ Refuse \/ SetScope \/ Affected \/ ExploreFails \/ GetUnlocated \/ Overview
             \/ ReadReturns \/ AddReturns
    <3>1. CachesNothing
      BY <2>5, Zenon DEF Refuse, SetScope, Affected, ExploreFails, GetUnlocated, Overview,
                         ReadReturns, AddReturns
    <3> QED BY <3>1 DEF CachesNothing, SessionType
  <2> QED BY <2>1, <2>2, <2>3, <2>4, <2>5 DEF Finishes
<1>2. NoRequest \in Request
  BY McpAssumption DEF NoRequest, Request
<1>3. scope' \in Indexes \cup {None}
  BY FinishEffects DEF SessionType, Request
<1> QED BY <1>1, <1>2, <1>3, NoHits, FinishEffects DEF SessionType, Between

LEMMA SessionTypes ==
  ASSUME SessionInv, SessionType, [Next]_vars
  PROVE  SessionType'
<1>1. CASE Finishes
  BY <1>1, FinishTypes
<1>2. CASE ExploreFinds
  <2>1. \E hits \in Hits : found' = hits
    BY <1>2, DocsAreHits, Zenon DEF ExploreFinds
  <2>2. UNCHANGED <<scope, results, asked, using, fetched, reply, lister, shown>>
    BY <1>2, Zenon DEF ExploreFinds
  <2> QED BY <2>1, <2>2 DEF SessionType
<1>3. CASE OpenClient
  <2>1. using' \in Commands
    BY <1>3, OpenClientPicks, Zenon
  <2>2. UNCHANGED <<scope, results, asked, found, fetched, reply, lister, shown>>
    BY <1>3, Zenon DEF OpenClient
  <2> QED BY <2>1, <2>2 DEF SessionType
<1>4. CASE Sends
  <2>1. /\ asked.tool = "get" => Located
        /\ fetched' = IF asked.tool = "get" THEN Location ELSE NoHit
        /\ UNCHANGED <<scope, results, asked, using, found, reply, lister, shown>>
    BY <1>4, Zenon DEF Sends
  <2> QED BY <2>1 DEF SessionType, Located
<1>5. ASSUME NEW r \in Requests, Ask(r) PROVE SessionType'
  <2>1. asked' = r /\ reply' = "" /\ UNCHANGED <<scope, results, using, found, fetched, lister, shown>>
    BY <1>5, Zenon DEF Ask
  <2>2. r \in Request
    BY McpAssumption
  <2> QED BY <2>1, <2>2 DEF SessionType
<1>6. CASE UNCHANGED sessionVars
  BY <1>6 DEF sessionVars, SessionType
<1> QED BY <1>1, <1>2, <1>3, <1>4, <1>5, <1>6 DEF Next, SessionStep, Finishes, ConnectionStep, vars

LEMMA InitSessionTypes == Init => SessionType
BY NoHits, McpAssumption DEF Init, SessionType, Request, NoRequest

MayWriteType == includeWrite \in BOOLEAN

\* The configuration does not change while the session runs.
LEMMA WriteFlagStays ==
  ASSUME [Next]_vars
  PROVE  includeWrite' = includeWrite
<1>1. CASE Finishes
  BY <1>1, FinishEffects, Zenon
<1>2. CASE ExploreFinds \/ OpenClient \/ Sends \/ UNCHANGED vars \/ \E r \in Requests : Ask(r)
  BY <1>2, Zenon DEF ExploreFinds, OpenClient, Sends, Ask, vars, sessionVars
<1>3. CASE UNCHANGED sessionVars
  BY <1>3, Zenon DEF sessionVars
<1> QED BY <1>1, <1>2, <1>3, Zenon DEF Next, SessionStep, Finishes, ConnectionStep

LEMMA AlwaysTyped == Spec => [](SessionInv /\ SessionType)
<1>1. SessionInv /\ SessionType /\ [Next]_vars => SessionType'
  BY SessionTypes
<1> QED BY <1>1, InitSessionTypes, AlwaysSession, PTL DEF Spec

\* `get {result: N}` reaches the N-th hit shown last, through any requests before
\* it, the two answers of explore aside that the property names.
THEOREM CursorsReachTheirHits == Spec => []CursorReachesItsHit
<1>1. SessionInv /\ SessionType => CursorReachesItsHit
  <2> SUFFICES ASSUME SessionInv, SessionType, fetched # NoHit PROVE CursorReachesItsHit
    BY DEF CursorReachesItsHit
  <2>1. fetched = Location /\ Location \in Hit /\ shown \in Hits /\ asked \in Request
    BY DEF SessionInv, SessionType
  <2>2. NoHit \notin Hit /\ asked.result \in Nat
    BY <2>1, McpAssumption DEF NoHit, Hit, Request
  <2>3. CASE asked.result = 0
    <3>1. fetched = Argued /\ ~(asked.result > 0)
      BY <2>1, <2>3 DEF Location
    <3> QED BY <3>1 DEF CursorReachesItsHit, Argued, Scoped
  <2>4. CASE asked.result # 0
    <3>1. Cursor # NoHit /\ asked.result > 0
      BY <2>1, <2>2, <2>4 DEF Location
    <3>2. Cursor = results[asked.result] /\ asked.result \in DOMAIN results
      BY <3>1 DEF Cursor
    <3>3. fetched = [part \in {"type", "index", "path"} |->
                       IF Argued[part] = None THEN Cursor[part] ELSE Argued[part]]
      BY <2>1, <2>4, <3>1 DEF Location
    <3>4. /\ fetched.type = IF asked.type = None THEN Cursor.type ELSE asked.type
          /\ fetched.index = IF Scoped = None THEN Cursor.index ELSE Scoped
          /\ fetched.path = IF asked.path = None THEN Cursor.path ELSE asked.path
      BY <3>3 DEF Argued
    <3>5. asked.index # None => Scoped = asked.index
      BY DEF Scoped
    <3>6. lister # "definitions" =>
            LET hit == shown[asked.result] IN
              /\ Cursor.path = hit.path /\ Cursor.index = hit.index
              /\ Cursor.type = IF lister = "explore" THEN "doc" ELSE hit.type
      <4>1. CASE lister = "explore"
        <5>1. results = AsDocs(shown)
          BY <4>1 DEF SessionInv, Kept
        <5>2. asked.result \in DOMAIN shown
          BY <3>2, <5>1 DEF AsDocs
        <5> QED BY <2>1, <3>2, <4>1, <5>1, <5>2, AsDocsHit
      <4>2. CASE lister \notin {"explore", "definitions"}
        <5>1. results = shown
          BY <4>2 DEF SessionInv, Kept
        <5> QED BY <3>2, <4>2, <5>1
      <4> QED BY <4>1, <4>2
    <3> QED BY <3>4, <3>5, <3>6 DEF CursorReachesItsHit
  <2> QED BY <2>3, <2>4
<1> QED BY <1>1, AlwaysTyped, PTL

\* The session and its commands keep their types.
THEOREM SessionTypeCorrect == Spec => []TypeOK
<1>1. Init => SessionType /\ MayWriteType
  BY InitSessionTypes, Zenon DEF Init, MayWriteType
<1>2. SessionInv /\ SessionType /\ MayWriteType /\ [Next]_vars
        => SessionType' /\ MayWriteType'
  <2> SUFFICES ASSUME SessionInv, SessionType, MayWriteType, [Next]_vars
               PROVE  SessionType' /\ MayWriteType'
    OBVIOUS
  <2>1. SessionType'
    BY SessionTypes
  <2>2. MayWriteType'
    BY WriteFlagStays, Zenon DEF MayWriteType
  <2> QED BY <2>1, <2>2
<1>3. RpcTypeOK /\ SessionType /\ MayWriteType => TypeOK
  BY Zenon DEF TypeOK, SessionType, MayWriteType
<1>4. ConversationInv => RpcTypeOK
  BY Zenon DEF ConversationInv
<1> QED BY <1>1, <1>2, <1>3, <1>4, AlwaysSession, PTL DEF Spec
=============================================================================
