------------------------------- MODULE WaveFile -------------------------------
(***************************************************************************)
(* The two services a Consumer can be given.  One is StreamingService, the *)
(* frames of PcmFraming; the other is WaveConsumerService, which records   *)
(* the chunks to a wave file and is modelled here.  A behaviour has one of *)
(* them, and consumeNewData is called by one thread.                       *)
(*                                                                         *)
(* The file is what is written after its header, as a sequence of the      *)
(* numbers of the bytes consumed, and the two sizes in the header.  Each   *)
(* write is a step of its own: what is written reaches the file in order,  *)
(* so a process that dies leaves the file of a state it went through.      *)
(***************************************************************************)
EXTENDS PcmFraming

CONSTANTS
    HeaderSize,  \* HEADER_SIZE
    LongLimit    \* smallest offset a long of fseek() does not hold: 2^31

\* Offsets stop short of 2^32, where they would become small again.
ASSUME WaveAssumption ==
    /\ HeaderSize \in Nat /\ LongLimit \in Nat
    /\ HeaderSize + MaxTotal < 2 * LongLimit

VARIABLES
    service,   \* "stream" or "file"
    phase,     \* where the recording is; "ready" between two calls
    chunk,     \* bytes of the chunk being consumed
    total,     \* totalSizeWritten
    fileSize,  \* the size at offset 4
    dataSize,  \* the size at offset 64; 0 until it is first written
    content    \* what was written from HEADER_SIZE on

fileVars == <<phase, chunk, total, fileSize, dataSize, content>>
serviceVars == <<vars, service, fileVars>>

ServiceInit ==
    /\ Init
    /\ service \in {"stream", "file"}
    /\ phase = "unopened"
    /\ chunk = 0 /\ total = 0
    /\ fileSize = 0 /\ dataSize = 0 /\ content = <<>>

\* initialize(): a file that cannot be opened makes it throw.
OpenFile ==
    /\ phase = "unopened"
    /\ \/ /\ phase' = "ready"
          /\ fileSize' = HeaderSize
          /\ UNCHANGED <<chunk, total, dataSize, content>>
       \/ phase' = "failed" /\ UNCHANGED <<chunk, total, fileSize, dataSize, content>>

\* consumeNewData(data, bytesCount): first the size of the file,
WriteFileSize ==
    /\ phase = "ready"
    /\ \E count \in 1 .. MaxChunk :
          /\ total + count <= MaxTotal
          /\ chunk' = count
          /\ fileSize' = HeaderSize + total + count
    /\ phase' = "dataSize"
    /\ UNCHANGED <<total, dataSize, content>>

\* then the size of the data, after which the file is at HEADER_SIZE,
WriteDataSize ==
    /\ phase = "dataSize"
    /\ dataSize' = total + chunk
    /\ phase' = "data"
    /\ UNCHANGED <<chunk, total, fileSize, content>>

\* What is there when the chunk is written at a position of the data.
WrittenAt(position) ==
    LET end == IF position + chunk > Len(content) THEN position + chunk ELSE Len(content)
    IN  [i \in 1 .. end |-> IF i \in position + 1 .. position + chunk
                            THEN total + i - 1 - position ELSE content[i]]

\* Mutated form of WriteData: the file is not positioned behind the data.
WriteDataInPlace ==
    /\ phase = "data"
    /\ content' = WrittenAt(0)
    /\ total' = total + chunk
    /\ chunk' = 0 /\ phase' = "ready"
    /\ UNCHANGED <<fileSize, dataSize>>

\* and then the chunk behind the data; fseek() fails when a long does not hold
\* the offset, its result is not looked at, and the file stays where it is.
WriteData ==
    /\ phase = "data"
    /\ content' = WrittenAt(IF HeaderSize + total < LongLimit THEN total ELSE 0)
    /\ total' = total + chunk
    /\ chunk' = 0 /\ phase' = "ready"
    /\ UNCHANGED <<fileSize, dataSize>>

\* destroy()
CloseFile ==
    /\ phase = "ready" /\ phase' = "closed"
    /\ UNCHANGED <<chunk, total, fileSize, dataSize, content>>

Streams == service = "stream" /\ Next /\ UNCHANGED <<service, fileVars>>

Records ==
    /\ service = "file"
    /\ OpenFile \/ WriteFileSize \/ WriteDataSize \/ WriteData \/ CloseFile
    /\ UNCHANGED <<service, vars>>

ServiceSpec == ServiceInit /\ [][Streams \/ Records]_serviceVars

-----------------------------------------------------------------------------
(* Properties                                                              *)

\* While offsets fit a long, the recording holds every byte consumed once and
\* in order, and its header says so between two calls; whenever the process
\* dies, the header is at most the chunk being written ahead of the data.
RecordingIsWhole ==
    HeaderSize + total <= LongLimit =>
        /\ content = [i \in 1 .. total |-> i - 1]
        /\ dataSize \in {total, total + chunk}
        /\ phase # "unopened" /\ phase # "failed" =>
               fileSize - HeaderSize \in {total, total + chunk}
=============================================================================
