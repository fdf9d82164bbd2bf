------------------------------- MODULE Dialogue -------------------------------
(***************************************************************************)
(* What client and server say to each other over TCP, byte by byte: the    *)
(* command (main()), the clock exchange (TimeSyncService::sync and         *)
(* TimeService.sync), the format, the UDP port and the end of a session    *)
(* (StreamingService and AudioStreamTcpClient).                            *)
(*                                                                         *)
(* A connection is the bytes that were written and not read.  A read gets  *)
(* any part of them, so every way in which the network may cut a message   *)
(* is a behaviour.  The three connections follow each other: a connection  *)
(* is opened when what the one before it carried was read, so toServer and *)
(* toClient stand for the one in use.  Who is connected to whom, refused   *)
(* connections and the time between two of them are SessionSetup's.        *)
(***************************************************************************)
EXTENDS TimeSync, Sequences, SequencesExt

CONSTANTS
    Formats,    \* what the capture device may deliver
    Ports       \* UDP ports the client's system may choose

\* Ports and sample rates that two bytes hold.
ASSUME DialogueAssumption ==
    /\ Formats \subseteq [nChannels : {1, 2}, wBitsPerSample : {8, 16, 32},
                          nSamplesPerSec : Nat]
    /\ \A f \in Formats : f.nSamplesPerSec <= 65535
    /\ \A p \in Ports : p \in Nat /\ 1 <= p /\ p <= 65535

\* An int64_t holds the value: behind 63 bits there is only the sign.
FitsLong(value) ==
    (((value \div 65536) \div 65536) \div 65536) \div 32768 \in {-1, 0}

\* The server's clock is read into an int64_t.
ASSUME LongAssumption ==
    \A s \in Skew : \A time \in 0 .. MaxTime : FitsLong(time + s)

VARIABLES
    place,       \* where the client is
    server,      \* where the server is
    toServer,    \* bytes on their way to the server,
    toClient,    \*   to the client
    got, read,   \* what recvAll() of the server, readFully() of the client have
    command,     \* the command main() understood, 0 before
    format,      \* _format of the session
    formatInfo,  \* what the client takes it for, or nothing
    port,        \* the client's UDP port, 0 before
    streamPort   \* where the server sends to, 0 before

bytesVars == <<toServer, toClient, got, read>>
valueVars == <<command, format, formatInfo, port, streamPort>>
dialogueVars == <<vars, place, server, bytesVars, valueVars>>

Nothing == [nChannels |-> 0, bytesPerSample |-> 0, sampleRate |-> 0]

DialogueInit ==
    /\ Init
    /\ place = "idle" /\ server = "command"
    /\ toServer = <<>> /\ toClient = <<>> /\ got = <<>> /\ read = <<>>
    /\ command = 0 /\ format \in Formats /\ formatInfo = Nothing
    /\ port = 0 /\ streamPort = 0

-----------------------------------------------------------------------------
(* Numbers as bytes.  The shifts are arithmetic: \div rounds down.         *)

LittleEndian(n, value) ==
    LET shifted[i \in 0 .. n] == IF i = 0 THEN value ELSE shifted[i - 1] \div 256
    IN  [i \in 1 .. n |-> shifted[i - 1] % 256]

\* Mutated form of writeLongToBufferLE: only one byte is written.
writeByteToBufferLE(value) ==
    [i \in 1 .. 8 |-> IF i = 1 THEN value % 256 ELSE 0]

writeLongToBufferLE(value) == LittleEndian(8, value)

\* A byte below what was shifted left by eight bits for it.
Below(byte, rest) == byte + 256 * rest

bufferLEToUint32(bytes) ==
    Below(bytes[1], Below(bytes[2], Below(bytes[3], bytes[4])))

\* ByteBuffer.getLong() in little-endian order: the highest byte has the sign.
getLongLE(bytes) ==
    LET high == IF bytes[8] < 128 THEN bytes[8] ELSE bytes[8] - 256
    IN  Below(bytes[1], Below(bytes[2], Below(bytes[3], Below(bytes[4],
          Below(bytes[5], Below(bytes[6], Below(bytes[7], high)))))))

\* Mutated form of swapEndianess16: the machine's own order is sent.
swapNothing16(bytes) == bytes

swapEndianess16(bytes) == Reverse(bytes)

\* ByteBuffer.getShort() in big-endian order, and 0xFFFF
getShortBE(bytes) == bytes[1] * 256 + bytes[2]

-----------------------------------------------------------------------------
(* Reading                                                                 *)

Reads == {"command", "request", "port", "control"}

\* One recv() of recvAll(): any part of what is there, no more than is missing.
\* All messages to the server have four bytes.
ServerReceives ==
    /\ server \in Reads
    /\ \E n \in 1 .. 4 - Len(got) :
         /\ n <= Len(toServer)
         /\ got' = got \o SubSeq(toServer, 1, n)
         /\ toServer' = SubSeq(toServer, n + 1, Len(toServer))
    /\ UNCHANGED <<vars, place, server, toClient, read, valueVars>>

\* Mutated form of Complete: sync() reads its request with one recv().
CompleteAtOnce == IF server = "request" THEN got # <<>> ELSE Len(got) = 4

\* total = size: recvAll() returns.
Complete == Len(got) = 4

Expected == IF place = "sync" THEN 16 ELSE 6

\* One read() of readFully() and readFullyTcp().
ClientReceives ==
    /\ place \in {"sync", "format"}
    /\ \E n \in 1 .. Expected - Len(read) :
         /\ n <= Len(toClient)
         /\ read' = read \o SubSeq(toClient, 1, n)
         /\ toClient' = SubSeq(toClient, n + 1, Len(toClient))
    /\ UNCHANGED <<vars, place, server, toServer, got, valueVars>>

Writes(bytes) == toServer' = toServer \o bytes

Sends(bytes) == toClient' = toClient \o bytes

\* recv() returns 0 or an error because the client has closed.  checkAction()
\* answers 0 then, which ends the session; elsewhere nobody catches the
\* exception and the process ends.
ReadFails ==
    /\ server \in Reads /\ ~Complete
    /\ place = "left" /\ toServer = <<>>
    /\ server' = IF server = "control" THEN "stopped" ELSE "dead"
    /\ UNCHANGED <<vars, place, bytesVars, valueVars>>

-----------------------------------------------------------------------------
(* Command and clock                                                       *)

SendCommand ==
    /\ place = "idle"
    /\ Writes(LittleEndian(4, 50))
    /\ place' = "sync"
    /\ UNCHANGED <<vars, server, toClient, got, read, valueVars>>

ReadCommand ==
    /\ server = "command" /\ Complete
    /\ command' = bufferLEToUint32(got)
    /\ got' = <<>> /\ server' = "request"
    /\ UNCHANGED <<vars, place, toServer, toClient, read, format, formatInfo,
                   port, streamPort>>

SYNC == <<83, 89, 78, 67>>

AskInBytes ==
    /\ place = "sync" /\ server = "request"
    /\ Ask
    /\ Writes(SYNC)
    /\ UNCHANGED <<place, server, toClient, got, read, valueVars>>

\* A request that is not SYNC makes sync() close and throw.  A client that has
\* left does not stop sync(): the exchange is over for TimeSync, not for the
\* server.
ArrivesInBytes ==
    /\ server = "request" /\ Complete
    /\ Arrives \/ (place = "left" /\ UNCHANGED vars)
    /\ server' = IF got = SYNC THEN "answer" ELSE "dead"
    /\ got' = <<>>
    /\ UNCHANGED <<place, toServer, toClient, read, valueVars>>

\* The conversation over, main() starts the thread of the command.  To a client
\* that has left, send() may throw; if it does not, the session thread is
\* started for nobody and waits in accept().
AnswersInBytes ==
    /\ server = "answer"
    /\ \/ /\ Answers
          /\ Sends(writeLongToBufferLE(t2) \o writeLongToBufferLE(t3'))
          /\ server' = IF command = 50 THEN "format" ELSE "stopped"
       \/ /\ place = "left"
          /\ server' \in {"dead", IF command = 50 THEN "waiting" ELSE "stopped"}
          /\ UNCHANGED <<vars, toClient>>
    /\ UNCHANGED <<place, toServer, got, read, valueVars>>

AdjustFromBytes ==
    /\ place = "sync" /\ Len(read) = Expected
    /\ Adjust(getLongLE(SubSeq(read, 1, 8)), getLongLE(SubSeq(read, 9, 16)))
    /\ read' = <<>> /\ place' = "format"
    /\ UNCHANGED <<server, toServer, toClient, got, valueVars>>

-----------------------------------------------------------------------------
(* Format and port                                                         *)

sendShort(value) == swapEndianess16(LittleEndian(2, value))

\* announceFormat(), when the client has connected; if it has closed, send()
\* may throw.
AnnounceFormat ==
    /\ server = "format" /\ place # "sync"
    /\ \/ /\ Sends(sendShort(format.nChannels)
                     \o sendShort(format.wBitsPerSample \div 8)
                     \o sendShort(format.nSamplesPerSec % 65536))
          /\ server' = "port"
       \/ place = "left" /\ server' = "dead" /\ UNCHANGED toClient
    /\ UNCHANGED <<vars, place, toServer, got, read, valueVars>>

\* A number of channels or a sample size that parseHeader() does not know
\* makes it throw: the attempt ends and the socket stays open.
ReadFormatInfo ==
    /\ place = "format" /\ Len(read) = Expected
    /\ formatInfo' = [nChannels      |-> getShortBE(read),
                      bytesPerSample |-> getShortBE(SubSeq(read, 3, 4)),
                      sampleRate     |-> getShortBE(SubSeq(read, 5, 6))]
    /\ place' = IF formatInfo'.nChannels \in {1, 2}
                     /\ formatInfo'.bytesPerSample \in {1, 2, 4}
                  THEN "port" ELSE "error"
    /\ read' = <<>>
    /\ UNCHANGED <<vars, server, toServer, toClient, got, command, format,
                   port, streamPort>>

SendUdpPort ==
    /\ place = "port"
    /\ port' \in Ports
    /\ Writes(LittleEndian(4, port'))
    /\ place' = "playing"
    /\ UNCHANGED <<vars, server, toClient, got, read, command, format,
                   formatInfo, streamPort>>

\* The constructor of UDPSocketClient takes a 16-bit port.
ReadUdpPort ==
    /\ server = "port" /\ Complete
    /\ streamPort' = bufferLEToUint32(got) % 65536
    /\ got' = <<>> /\ server' = "control"
    /\ UNCHANGED <<vars, place, toServer, toClient, read, command, format,
                   formatInfo, port>>

-----------------------------------------------------------------------------
(* The end                                                                 *)

\* disconnect() writes 55 and then closes.
WriteStop ==
    /\ place = "playing"
    /\ Writes(LittleEndian(4, 55))
    /\ place' = "stopping"
    /\ UNCHANGED <<vars, server, toClient, got, read, valueVars>>

\* What checkAction() read ends the session if it is 0, negative as an int or
\* STOP_STREAMING, which is 50: the 55 of disconnect() does not.
CheckAction ==
    /\ server = "control" /\ Complete
    /\ LET value == bufferLEToUint32(got) IN
         server' = IF value = 0 \/ got[4] >= 128 \/ value = 50
                     THEN "stopped" ELSE "control"
    /\ got' = <<>>
    /\ UNCHANGED <<vars, place, toServer, toClient, read, valueVars>>

\* The client closes: after its 55, because a step of the attempt failed or
\* timed out, or because it was killed.  A reset discards what was not read.  A
\* session thread for which it has not connected waits for it.
Close ==
    /\ place \notin {"idle", "left"}
    /\ place = "sync" => step # "idle"
    /\ Fails \/ (step = "idle" /\ UNCHANGED vars)
    /\ place' = "left"
    /\ server' = IF place = "sync" /\ server = "format" THEN "waiting" ELSE server
    /\ UNCHANGED toServer \/ toServer' = <<>>
    /\ UNCHANGED <<toClient, got, read, valueVars>>

\* Another attempt on the same TimeService, with new connections.
Again ==
    /\ place = "left" /\ server = "stopped" /\ syncs < MaxSyncs
    /\ place' = "idle" /\ server' = "command"
    /\ toServer' = <<>> /\ toClient' = <<>> /\ got' = <<>> /\ read' = <<>>
    /\ command' = 0 /\ formatInfo' = Nothing /\ port' = 0 /\ streamPort' = 0
    /\ UNCHANGED <<vars, format>>

Elapses == TimePasses /\ UNCHANGED <<place, server, bytesVars, valueVars>>

DialogueNext ==
    \/ Elapses \/ ServerReceives \/ ClientReceives \/ ReadFails
    \/ SendCommand \/ ReadCommand
    \/ AskInBytes \/ ArrivesInBytes \/ AnswersInBytes \/ AdjustFromBytes
    \/ AnnounceFormat \/ ReadFormatInfo \/ SendUdpPort \/ ReadUdpPort
    \/ WriteStop \/ CheckAction \/ Close \/ Again

DialogueSpec == DialogueInit /\ [][DialogueNext]_dialogueVars

-----------------------------------------------------------------------------
(* Properties                                                              *)

\* However the network cuts the messages, and though the two sides use three
\* layouts of numbers: the times the client computes with are those the server
\* read.  Every step is a step of TimeSync, whose theorems therefore hold here.
ClockRulesKept == Spec

\* What one side takes a message for is what the other meant by it.
UnderstoodAsMeant ==
    /\ command \in {0, 50}
    /\ formatInfo \in {Nothing,
                       [nChannels      |-> format.nChannels,
                        bytesPerSample |-> format.wBitsPerSample \div 8,
                        sampleRate     |-> format.nSamplesPerSec]}
    /\ streamPort \in {0, port}

\* No message is taken for the end of the session or for an error, and none is
\* taken in part: the server stops or dies only after the client has closed.
EndsOnlyWhenClosed == server \in {"stopped", "dead"} => place = "left"

=============================================================================
