------------------------------ MODULE Transfer ------------------------------
(***************************************************************************)
(* cfl_socket.c: one side sends all of a message, the other receives as    *)
(* much, through a stream that takes and gives any number of bytes at a    *)
(* time.  Each side keeps its bytes in plain memory (sendAll, receiveAll)  *)
(* or in a buffer (sendAllBuffer, receiveAllBuffer), and its socket may    *)
(* block or not.  Signals arrive, and a side that gives up closes.         *)
(***************************************************************************)
EXTENDS BufferData

CONSTANTS Size,        \* bytes in the message
          Room,        \* bytes the stream holds
          MaxSignals,  \* bound on the signals that interrupt a call
          Kinds, Modes \* what the sides use: {"plain", "buffer"}, {"blocking", "polling"}

VARIABLES kind,     \* for each side, what it keeps its bytes in
          mode,     \* for each side, whether its socket blocks
          mem,      \* for each side, the record of its buffer; for plain
                    \* memory the position is totalSent, or the bytes read
          at,       \* for each side, the call it is in, or how it came back
          stream,   \* bytes under way
          taken,    \* all bytes that were put in the stream
          signals   \* signals so far

vars == <<kind, mode, mem, at, stream, taken, signals>>

Sides == {"sender", "receiver"}
Message == [i \in 0 .. Size - 1 |-> i]
Back == {"true", "false"}     \* CFL_TRUE or len; CFL_FALSE, 0 or an error

Init ==
  /\ kind \in [Sides -> Kinds] /\ mode \in [Sides -> Modes]
  /\ mem = [sender |-> Buf(Message, Size, Size, 0),
            receiver |-> Buf([i \in 0 .. Size - 1 |-> Junk], Size, Size, 0)]
  /\ at = [sender |-> "call", receiver |-> IF kind["receiver"] = "buffer" THEN "wait" ELSE "call"]
  /\ stream = <<>> /\ taken = <<>> /\ signals = 0

-----------------------------------------------------------------------------
(* Steps of one side                                                       *)

Other(s) == IF s = "sender" THEN "receiver" ELSE "sender"
Goes(s, where) == at' = [at EXCEPT ![s] = where]
Least(a, b) == IF a < b THEN a ELSE b

\* A bug: the pointer does not move on.
OffsetStart(s) == 0

\* Where a call reads or writes: plain memory after what is done, a buffer at
\* its start, whatever its position.
Offset(s) == IF kind[s] = "plain" THEN mem[s].position ELSE 0

\* totalSent or buffer moves on; cfl_buffer_skip does so for a buffer.
Advance(s, n) == Moved(mem[s], mem[s].position + n, TRUE).buf

\* The loop is left when nothing remains.
AfterBytes(s, moved) == IF Remaining(moved) = 0 THEN "true" ELSE "call"

\* send takes n bytes.
Send(n) ==
  LET moved == Advance("sender", n)
      bytes == [i \in 1 .. n |-> mem["sender"].data[Offset("sender") + i - 1]]
  IN  /\ at["sender"] = "call"
      /\ n \in 1 .. Least(Remaining(mem["sender"]), Room - Len(stream))
      /\ stream' = stream \o bytes /\ taken' = taken \o bytes
      /\ mem' = [mem EXCEPT !["sender"] = moved]
      /\ Goes("sender", AfterBytes("sender", moved))
      /\ UNCHANGED <<kind, mode, signals>>

\* recv gives n bytes.
Receive(n) ==
  LET moved == Advance("receiver", n)
      from == Offset("receiver")
  IN  /\ at["receiver"] = "call"
      /\ n \in 1 .. Least(Remaining(mem["receiver"]), Len(stream))
      /\ stream' = SubSeq(stream, n + 1, Len(stream))
      /\ mem' = [mem EXCEPT !["receiver"] =
                   [moved EXCEPT !.data = [i \in 0 .. Size - 1 |->
                      IF i \in from .. from + n - 1 THEN stream[i - from + 1] ELSE @[i]]]]
      /\ Goes("receiver", AfterBytes("receiver", moved))
      /\ UNCHANGED <<kind, mode, taken, signals>>

Ready(s) == IF s = "sender" THEN Len(stream) < Room ELSE stream # <<>>
Closed(s) == at[Other(s)] \in Back      \* the peer has come back and closes
AtRest == UNCHANGED <<kind, mode, mem, stream, taken>>

\* EWOULDBLOCK on a socket that does not block: select without a time out.
WouldBlock(s) ==
  /\ at[s] = "call" /\ mode[s] = "polling" /\ ~Ready(s) /\ ~Closed(s)
  /\ Goes(s, "select") /\ UNCHANGED signals /\ AtRest

Selected(s) ==
  /\ at[s] \in {"select", "wait"}
  /\ Ready(s) \/ Closed(s)
  /\ Goes(s, "call") /\ UNCHANGED signals /\ AtRest

\* The first wait of receiveAllBuffer, the only one with a time out.
TimesOut ==
  /\ at["receiver"] = "wait" /\ ~Ready("receiver")
  /\ Goes("receiver", "false") /\ UNCHANGED signals /\ AtRest

\* A signal: send and recv are called again, a select gives up.
Interrupted(s) ==
  /\ at[s] \notin Back /\ signals < MaxSignals
  /\ signals' = signals + 1
  /\ Goes(s, IF at[s] = "call" THEN "call" ELSE "false") /\ AtRest

\* A bug: the end of the stream is taken for no bytes yet.
PeerGoneUnseen(s) ==
  /\ s = "sender" /\ at[s] = "call" /\ Closed(s)
  /\ Goes(s, "false") /\ UNCHANGED signals /\ AtRest

\* The peer is gone: an error for send, the end of the stream for recv.
PeerGone(s) ==
  /\ at[s] = "call" /\ Closed(s) /\ (s = "receiver" => ~Ready(s))
  /\ Goes(s, "false") /\ UNCHANGED signals /\ AtRest

Step(s) == \/ WouldBlock(s) \/ Selected(s) \/ PeerGone(s)
           \/ s = "sender" /\ \E n \in 1 .. Size : Send(n)
           \/ s = "receiver" /\ \E n \in 1 .. Size : Receive(n)

Finished == (\A s \in Sides : at[s] \in Back) /\ UNCHANGED vars

Next == (\E s \in Sides : Step(s) \/ Interrupted(s)) \/ TimesOut \/ Finished

Spec == Init /\ [][Next]_vars /\ \A s \in Sides : WF_vars(Step(s))

-----------------------------------------------------------------------------
(* Properties                                                              *)

\* Bytes kept in plain memory arrive in order, each once, however they are cut
\* (sendAll, receiveAll): what is read is the beginning of the message.
PlainArrives ==
  (\A s \in Sides : kind[s] = "plain") =>
    /\ taken = [i \in 1 .. mem["sender"].position |-> i - 1]
    /\ \A i \in 0 .. mem["receiver"].position - 1 : mem["receiver"].data[i] = i

\* Nothing is counted that was not transferred: the position of each side is
\* the number of bytes it sent or read, and success is answered after all.
BytesCounted ==
  /\ mem["sender"].position = Len(taken)
  /\ mem["receiver"].position = Len(taken) - Len(stream)
  /\ \A s \in Sides : at[s] = "true" => mem[s].position = Size

\* Both sides come back, however the bytes are cut and whoever gives up.
BothReturn == <>(\A s \in Sides : at[s] \in Back)

=============================================================================
