------------------------------ MODULE ReadEnds ------------------------------
(***************************************************************************)
(* The two ends of a read: the client's SocketNode.c_init_send and the file*)
(* server's SocketNode.s_receive_file_send.  ReadDirect puts them at the   *)
(* two ends of one pair of queue pairs, ReadProxy and SwitchedRead put a   *)
(* proxy between.                                                          *)
(***************************************************************************)
EXTENDS Verbs

CONSTANTS MaxChunks,  \* bound: chunks in the file, of FILE_SIZE bytes or less
          Clients     \* which clients are run: with signals FALSE the client
                      \* as it is, with TRUE the one with the FILE_NEXT that is
                      \* commented out in c_init_send restored

ASSUME EndsAssumption == /\ MaxChunks \in Nat /\ Clients \subseteq BOOLEAN
                         /\ {"client", "file"} \subseteq Node
                         /\ \A n \in Node : Peer[n] # n /\ Peer[Peer[n]] = n

VARIABLES signals,   \* which client this is
          pause,     \* config.is_pause_time
          size,      \* chunks in the file
          short,     \* the last of them is of less than FILE_SIZE bytes
          canOpen,   \* the file server's open(file_name) succeeds
          pcC, immC,
          dst,       \* blocks the client has written to fd, in order
          doneC,     \* file_attr.is_done() on the client
          pcF,
          pos,       \* chunks the file server has read
          swapped    \* a poll marked "post send" has returned a receive

runVars    == <<signals, pause, size, short, canOpen>>
clientVars == <<pcC, immC, dst, doneC>>
fileVars   == <<pcF, pos>>
endsVars   == <<runVars, verbsVars, clientVars, fileVars, swapped>>

EndsTypeOK ==
  /\ VerbsTypeOK
  /\ signals \in Clients /\ pause \in BOOLEAN
  /\ size \in 0..MaxChunks /\ short \in BOOLEAN /\ canOpen \in BOOLEAN
  /\ pcC \in {"begin", "ask", "prepost", "loop", "imm", "repost", "close", "closed"}
  /\ immC \in 0..1 /\ dst \in Seq(Payload) /\ doneC \in BOOLEAN
  /\ pcF \in {"idle", "pollA", "pollB", "open", "read", "wait", "next", "return", "fail",
              "closed", "cut"}
  /\ pos \in 0..size
  /\ swapped \in BOOLEAN

\* Queue pairs in RTS; new_pull_file has posted its receive and sent SEND_FILE
\* over TCP.
EndsInit == /\ VerbsInit([n \in Node |-> IF n = "client" THEN <<"recv_mr">> ELSE <<>>])
            /\ signals \in Clients /\ pause \in BOOLEAN /\ canOpen \in BOOLEAN
            /\ size \in 0..MaxChunks /\ short \in BOOLEAN /\ (short => size > 0)
            /\ pcC = "begin" /\ immC = 0 /\ dst = <<>> /\ doneC = FALSE
            /\ pcF = "idle" /\ pos = 0 /\ swapped = FALSE

\* The i-th chunk of the file, as the file server reads and writes it, and what a
\* reader finds in its file_mr then: a short last chunk is followed there by the
\* end of the chunk before it, or by nothing if it is the only one.
Piece(i) == IF short /\ i = size THEN Short(i) ELSE Chunk(i)
Block(i) == IF short /\ i = size THEN Padded(i, i - 1) ELSE Chunk(i)

\* What a read makes of the file.
Blocks == [i \in 1..size |-> Block(i)]

\* The poll that the source marks "post send": its result is not looked at.
PollForSend(n) == \/ PollSend(n) /\ UNCHANGED swapped
                  \/ PollRecv(n) /\ swapped' = TRUE

-----------------------------------------------------------------------------
(* The client: c_init_send. *)

ClientBegin == Moves(pcC, "begin", "ask") /\ PollRecv("client")

ClientAsk == /\ IF mem["client"]["recv_mr"] = Text("begin")
                  THEN /\ Moves(pcC, "ask", "prepost")
                       /\ PostSend("client", "msg_mr", Text("request"))
                  ELSE Moves(pcC, "ask", "close") /\ NoSend
             /\ NoRecv /\ NoPoll

\* Only now the receive for the first chunk.
ClientPrepost == /\ Moves(pcC, "prepost", "loop")
                 /\ PostRecv("client", "file_mr") /\ NoSend /\ NoPoll

\* Any completion but that of a write is ignored.
ClientPoll == \/ Moves(pcC, "loop", "loop") /\ PollSend("client") /\ UNCHANGED immC
              \/ /\ PollRecv("client")
                 /\ immC' = Head(rcq["client"]).imm
                 /\ Moves(pcC, "loop",
                          IF Head(rcq["client"]).op = "RECV_IMM" THEN "imm" ELSE "loop")

\* The whole region is saved, whatever the length of the write.
SaveChunk == dst' = Append(dst, FileBlock("client"))

ClientSave == /\ immC # 0 /\ Moves(pcC, "imm", "repost")
              /\ SaveChunk /\ NoRecv /\ NoPoll
              /\ IF signals THEN PostSend("client", "msg_mr", Text("next")) ELSE NoSend
              /\ UNCHANGED doneC

\* The receive for the next chunk, after the NEXT that asks for it.
ClientRepost == /\ Moves(pcC, "repost", "loop")
                /\ PostRecv("client", "file_mr") /\ NoSend /\ NoPoll

\* imm_data 0: the block is saved all the same, and the file is done.
ClientSaveLast == /\ immC = 0 /\ Moves(pcC, "imm", "close")
                  /\ SaveChunk /\ doneC' = TRUE
                  /\ NoRecv /\ NoSend /\ NoPoll

\* node.close(), then DONE over TCP.
ClientClose == Moves(pcC, "close", "closed") /\ CloseNode("client")

-----------------------------------------------------------------------------
(* The file server: s_receive_file_send, and how its handler ends. *)

FileBegin == Moves(pcF, "idle", "pollA") /\ Welcome("file") /\ UNCHANGED <<pos, swapped>>

FilePollA == Moves(pcF, "pollA", "pollB") /\ PollForSend("file")

\* The method returns if its second poll does not return the request.
FilePollB == \/ Moves(pcF, "pollB", "return") /\ PollSend("file")
             \/ Moves(pcF, "pollB", "open") /\ PollRecv("file")

FileOpens(prepost) ==
  /\ \/ canOpen /\ Moves(pcF, "open", "read") /\ prepost /\ NoSend
     \/ /\ ~ canOpen /\ Moves(pcF, "open", "return") /\ NoRecv
        /\ PostSend("file", "msg_mr", Text("err"))
  /\ NoPoll

\* Altered form: no receive is posted for the first NEXT.
FileOpenNoRecv == FileOpens(NoRecv)

FileOpen == FileOpens(PostRecv("file", "recv_mr"))

FileWrites(more, next) == /\ more /\ pos' = pos + 1 /\ Moves(pcF, "read", next)
                          /\ PostWrite("file", "file_mr", Piece(pos + 1), 1) /\ NoRecv /\ NoPoll

\* With is_pause_time the call of time.sleep fails (the module is not
\* imported): the handler's except branch follows.
AfterWrite == IF pause THEN "fail" ELSE "wait"

\* Altered form: the end of the file is noticed one read too late.
FileWriteLate == FileWrites(pos <= size, AfterWrite)

\* Altered form: in both modes the server goes on without waiting for NEXT.
FileWriteOn == FileWrites(pos < size, "read")

FileWrite == FileWrites(pos < size, AfterWrite)

FileEnd == /\ pos = size /\ Moves(pcF, "read", "return")
           /\ PostEmptyWrite("file", "file_mr") /\ NoRecv /\ NoPoll

FileWait == AwaitRecv("file", pcF, "wait", "next")

FileNext == /\ IF mem["file"]["recv_mr"] = Text("next")
                 THEN Moves(pcF, "next", "read") /\ PostRecv("file", "recv_mr")
                 ELSE Moves(pcF, "next", "wait") /\ NoRecv
            /\ NoSend /\ NoPoll

\* node.close(), by the handler; "cut" when the last write was still queued.
FileClose == /\ pcF' = IF sq["file"] = <<>> THEN "closed" ELSE "cut"
             /\ CloseNode("file")
             /\ UNCHANGED <<pos, swapped>>

-----------------------------------------------------------------------------
ClientStep == \/ /\ ClientBegin \/ ClientAsk \/ ClientPrepost \/ ClientRepost \/ ClientClose
                 /\ UNCHANGED <<immC, dst, doneC>>
              \/ ClientPoll /\ UNCHANGED <<dst, doneC>>
              \/ (ClientSave \/ ClientSaveLast) /\ UNCHANGED immC

FileStep == \/ FilePollA /\ UNCHANGED pos
            \/ FileWrite /\ UNCHANGED swapped
            \/ /\ FilePollB \/ FileOpen \/ FileEnd \/ FileWait \/ FileNext
               /\ UNCHANGED <<pos, swapped>>

\* Nothing is lost, and none of the races the source leaves open is: a chunk
\* before its receive, a receive completion before the completion of BEGIN,
\* the file server's close before its last write has left.
InTime == lost = 0 /\ (\A n \in Node : Ready(n)) /\ ~ swapped /\ pcF # "cut"
=============================================================================
