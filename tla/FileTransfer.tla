---------------------------- MODULE FileTransfer ----------------------------
(***************************************************************************)
(* client.c and server.c of Project-3 on top of one STCP connection.  The  *)
(* client sends a line with a file name, reads the line the server answers *)
(* with and then as many bytes as that line says, and goes back to its     *)
(* prompt, where it ends at the end of its input; the server answers line  *)
(* after line until it reads the end of the stream, and closes too.        *)
(*                                                                         *)
(* Both read a line one byte at a time (get_nvt_line).  What the line says *)
(* is abstracted to its length and to the length of the file.              *)
(***************************************************************************)
EXTENDS Stcp

CONSTANTS
    MaxRequests,    \* bound: lines read from the client's standard input
    RequestLen,     \* bytes of a request, the final \r\n included
    ReplyLen,       \* bytes of the line of the answer, \r\n included
    FileLens,       \* lengths of the files of the server; 0 stands also for
                    \* the answer that there is no such file
    ReadSize        \* bytes read from the file at a time: sizeof(resp)

ASSUME FileTransferAssumption ==
    /\ MaxRequests \in Nat \ {0}
    /\ RequestLen \in Nat \ {0}
    /\ ReplyLen \in Nat \ {0}
    /\ FileLens \subseteq Nat /\ FileLens # {}
    /\ ReadSize \in Nat \ {0}

Client == Active
Server == Passive

VARIABLES
    client,     \* where loop_until_end() is
    server,     \* where do_connection() is
    requests,   \* requests the client has sent
    fileLen,    \* length of the file the latest request names
    lineLeft,   \* bytes of the current line not yet read, of either program
    length,     \* client.c: bytes of the file still to be read
    fileLeft    \* server.c: bytes of the file not yet passed to mywrite()

ftVars  == <<client, server, requests, fileLen, lineLeft, length, fileLeft>>
allVars == <<vars, ftVars>>

FTInit ==
    /\ Init
    /\ client = "prompt"
    /\ server = "line"
    /\ requests = 0
    /\ fileLen = 0
    /\ lineLeft = [e \in Ends |-> IF e = Client THEN ReplyLen ELSE RequestLen]
    /\ length = 0
    /\ fileLeft = 0

-----------------------------------------------------------------------------
(* client.c: loop_until_end() and main()                                     *)

SendRequest ==
    /\ client = "prompt"
    /\ requests < MaxRequests
    /\ MyWrite(Client, RequestLen)
    /\ requests' = requests + 1
    /\ fileLen' \in FileLens
    /\ client' = "line"
    /\ lineLeft' = [lineLeft EXCEPT ![Client] = ReplyLen]
    /\ UNCHANGED <<server, length, fileLeft>>

\* The end of the standard input, or of the loop after an error.
ClientCloses ==
    /\ client \in {"prompt", "failed"}
    /\ MyClose(Client)
    /\ client' = "end"
    /\ UNCHANGED <<server, requests, fileLen, lineLeft, length, fileLeft>>

\* One byte of the line; the last one is followed by sscanf() of the length.
ClientReadsLine ==
    /\ client = "line"
    /\ MyRead(Client, 1)
    /\ IF eof'[Client]
       THEN client' = "failed" /\ UNCHANGED <<lineLeft, length>>
       ELSE /\ lineLeft' = [lineLeft EXCEPT ![Client] = @ - 1]
            /\ IF lineLeft[Client] > 1
               THEN UNCHANGED <<client, length>>
               ELSE /\ length' = fileLen
                    /\ client' = IF fileLen = 0 THEN "prompt" ELSE "file"
    /\ UNCHANGED <<server, requests, fileLen, fileLeft>>

ClientReadsFile ==
    /\ client = "file"
    /\ MyRead(Client, Least(length, MaxRead))
    /\ length' = length - (rcvd'[Client] - rcvd[Client])
    /\ client' = IF eof'[Client] THEN "failed"
                 ELSE IF length' = 0 THEN "prompt" ELSE "file"
    /\ UNCHANGED <<server, requests, fileLen, lineLeft, fileLeft>>

-----------------------------------------------------------------------------
(* server.c: do_connection() and process_line()                              *)

\* One byte of a request; an end of file ends the line, and an empty line the
\* connection.
ServerReadsLine ==
    /\ server = "line"
    /\ MyRead(Server, 1)
    /\ IF eof'[Server]
       THEN /\ server' = IF lineLeft[Server] = RequestLen THEN "done" ELSE "reply"
            /\ lineLeft' = [lineLeft EXCEPT ![Server] = RequestLen]
       ELSE /\ lineLeft' = [lineLeft EXCEPT ![Server] =
                               IF @ > 1 THEN @ - 1 ELSE RequestLen]
            /\ server' = IF lineLeft[Server] > 1 THEN "line" ELSE "reply"
    /\ UNCHANGED <<client, requests, fileLen, length, fileLeft>>

ServerReplies ==
    /\ server = "reply"
    /\ MyWrite(Server, ReplyLen)
    /\ fileLeft' = fileLen
    /\ server' = IF fileLen = 0 THEN "line" ELSE "file"
    /\ UNCHANGED <<client, requests, fileLen, lineLeft, length>>

\* One read() of the file and the mywrite() of what it gave.
WholeBufferSent == ReadSize                                         \* mutant
Chunk == Least(ReadSize, fileLeft)

ServerSendsFile ==
    /\ server = "file"
    /\ MyWrite(Server, Chunk)
    /\ fileLeft' = fileLeft - Chunk
    /\ server' = IF fileLeft' = 0 THEN "line" ELSE "file"
    /\ UNCHANGED <<client, requests, fileLen, lineLeft, length>>

ServerCloses ==
    /\ server = "done"
    /\ MyClose(Server)
    /\ server' = "end"
    /\ UNCHANGED <<client, requests, fileLen, lineLeft, length, fileLeft>>

-----------------------------------------------------------------------------
ClientReads == ClientReadsLine \/ ClientReadsFile

ServerRuns == \/ ServerReadsLine \/ ServerReplies
              \/ ServerSendsFile \/ ServerCloses

\* The threads of the two mysockets, and myclose() returning.
Connection(e) ==
    /\ \/ Handshake(e) \/ ControlLoop(e) \/ RecvThread(e)
       \/ MyCloseReturns(e)
    /\ UNCHANGED ftVars

FTNext == \/ SendRequest \/ ClientCloses
          \/ ClientReads
          \/ ServerRuns
          \/ \E e \in Ends : Connection(e)

\* The user may leave the client at its prompt for ever; otherwise both
\* programs, like the threads of the library, go on when they can.
FTFairness ==
    /\ \A e \in Ends :
         /\ WF_allVars(Handshake(e) /\ UNCHANGED ftVars)
         /\ WF_allVars(ControlLoop(e) /\ UNCHANGED ftVars)
         /\ WF_allVars((RecvPacket(e) \/ RecvEof(e)) /\ UNCHANGED ftVars)
         /\ WF_allVars(MyCloseReturns(e) /\ UNCHANGED ftVars)
    /\ WF_allVars(ClientReads)
    /\ WF_allVars(ServerRuns)

FTSpec == FTInit /\ [][FTNext]_allVars /\ FTFairness

-----------------------------------------------------------------------------
\* At its prompt the client has read all the server has written and the server
\* has read all the requests: an answer is never left over for the next
\* request, and "read bad number of bytes" (client.c:258) never happens.
PromptInStep ==
    /\ client = "prompt" => /\ rcvd[Client] = written[Server]
                            /\ rcvd[Server] = written[Client]
    /\ client # "failed"

\* With this protocol no connection ends early: the client's FIN finds no
\* unacknowledged data in either direction, so that the three steps counted in
\* ctx->fin are the two FINs and the FIN-ACK, and no assert fails.
NoEarlyEnd ==
    \A e \in Ends :
        /\ st[e] \in {"done", "exited"} => \A f \in Ends : app[f] # "open"
        /\ st[e] # "abort"

\* Every request is answered in full.
RequestIsAnswered == client = "line" ~> client = "prompt"

\* When the client ends, myclose() returns on both sides.
BothClose == client = "end" ~> \A e \in Ends : app[e] = "closed"

=============================================================================
