-------------------------------- MODULE Wire --------------------------------
(***************************************************************************)
(* One client (src/client/) and its session (src/server/session.cpp) over  *)
(* the frame protocol of src/proto/proto.h: a query frame, then any number *)
(* of notices and either one Ok or Error frame or a result set of a head,  *)
(* batches of rows and an end frame.                                       *)
(*                                                                         *)
(* Frames arrive whole and in order or not at all: recv_exact and          *)
(* send_exact hide how TCP cuts them. The rows of a batch are encoded byte *)
(* by byte where that matters: a cell is a tag, and a string carries its   *)
(* length in a field of limited width.                                     *)
(***************************************************************************)
EXTENDS Naturals, Sequences

CONSTANTS
  CellValues,    \* the cells a result may hold
  Cols,          \* columns of a result
  LengthMod,     \* string lengths are sent modulo this (2^16)
  BatchMax,      \* RS_BATCH_MAX_ROWS
  MaxStmts,      \* bound: statements the client sends
  MaxRows        \* bound: rows of a result

ASSUME WireConstants ==
  /\ Cols \in Nat /\ LengthMod \in Nat \ {0} /\ BatchMax \in Nat \ {0}
  /\ MaxStmts \in Nat /\ MaxRows \in Nat

VARIABLES
  toServer, toClient,    \* frames under way
  link,                  \* "waiting" for accept, "open", "closed" by the server
  spc, sstmt,            \* the session: where it is, the statement in hand
  batch, total,          \* send_result_stream's batch and total
  notices,               \* client_msg_level lets debug notices through
  cpc, cstmt, rs,        \* the client: where it is, its statement, rows so far
  verdict,               \* what the client made of its last statement
  pulled                 \* history: the rows each statement's operators gave

vars == <<toServer, toClient, link, spc, sstmt, batch, total, notices, cpc, cstmt, rs,
          verdict, pulled>>

session == <<spc, sstmt, batch, total, notices, pulled>>
client  == <<cpc, cstmt, rs, verdict>>

-----------------------------------------------------------------------------
(* Cells and batches *)

NULLTag   == 0
IntTag    == 1
StringTag == 3
DataByte  == 120     \* every text is made of x's

NullCell      == [t |-> NULLTag, v |-> 0]
IntCell(i)    == [t |-> IntTag, v |-> i]
StringCell(n) == [t |-> StringTag, v |-> n]      \* a text of n bytes

AppendCell(c) ==
  CASE c.t = NULLTag   -> <<NULLTag>>
    [] c.t = IntTag    -> <<IntTag, c.v>>
    [] c.t = StringTag -> <<StringTag, c.v % LengthMod>> \o [i \in 1..c.v |-> DataByte]

\* The cells of a batch, row by row.
CellAt(rows, i) == rows[((i - 1) \div Cols) + 1][((i - 1) % Cols) + 1]

\* encode_rs_batch: the row count, then every cell.
EncodeBatch(rows) ==
  LET enc[i \in 0..Len(rows) * Cols] ==
        IF i = 0 THEN <<>> ELSE enc[i - 1] \o AppendCell(CellAt(rows, i))
  IN  <<Len(rows)>> \o enc[Len(rows) * Cols]

BadCell == [ok |-> FALSE, off |-> 0, cell |-> NullCell]
Took(off, c) == [ok |-> TRUE, off |-> off, cell |-> c]

\* take_cell: a length that runs past the end, or an unknown tag, is refused.
TakeCell(body, off) ==
  IF off >= Len(body) THEN BadCell
  ELSE LET tag  == body[off + 1]
           next == off + 2
       IN  CASE tag = NULLTag -> Took(off + 1, NullCell)
             [] tag = IntTag /\ next <= Len(body) -> Took(next, IntCell(body[next]))
             [] tag = StringTag /\ next <= Len(body) /\ next + body[next] <= Len(body) ->
                  Took(next + body[next], StringCell(body[next]))
             [] OTHER -> BadCell

\* One more cell behind those taken so far.
TakeNext(body, p) ==
  LET c == TakeCell(body, p.off)
  IN  IF p.ok /\ c.ok THEN [ok |-> TRUE, off |-> c.off, cells |-> Append(p.cells, c.cell)]
      ELSE [ok |-> FALSE, off |-> 0, cells |-> <<>>]

\* decode_rs_batch, with col_count from the head; nothing may be left over.
DecodeBatch(body) ==
  LET n == body[1] * Cols
      dec[i \in 0..n] == IF i = 0 THEN [ok |-> TRUE, off |-> 1, cells |-> <<>>]
                         ELSE TakeNext(body, dec[i - 1])
      d  == dec[n]
      ok == d.ok /\ d.off = Len(body)
  IN  [ok   |-> ok,
       rows |-> IF ok THEN [r \in 1..body[1] |-> SubSeq(d.cells, (r - 1) * Cols + 1, r * Cols)]
                      ELSE <<>>]

-----------------------------------------------------------------------------
(* Frames. stmt is history: the statement the session was working on. *)

Frame(type, body, s) == [type |-> type, body |-> body, stmt |-> s]
Reply(type, body)    == Frame(type, body, sstmt)
Notice               == IF notices THEN <<Reply("notice", <<>>)>> ELSE <<>>

Init ==
  /\ toServer = <<>> /\ toClient = <<>> /\ link = "waiting"
  /\ spc = "accept" /\ sstmt = 0 /\ batch = <<>> /\ total = 0 /\ notices = FALSE
  /\ cpc = "idle" /\ cstmt = 0 /\ rs = <<>>
  /\ verdict = [kind |-> "none", stmt |-> 0, from |-> 0, rows |-> <<>>]
  /\ pulled = [s \in 1..MaxStmts |-> <<>>]

-----------------------------------------------------------------------------
(* The session *)

\* spawn_client below the limit.
Accept ==
  /\ spc = "accept" /\ spc' = "recv" /\ link' = "open"
  /\ UNCHANGED <<toServer, toClient, sstmt, batch, total, notices, pulled, client>>

\* spawn_client at the limit: an Error frame, and the socket is closed.
Refuse ==
  /\ spc = "accept" /\ spc' = "gone" /\ link' = "closed"
  /\ toClient' = <<Frame("error", <<>>, 0)>>
  /\ UNCHANGED <<toServer, sstmt, batch, total, notices, pulled, client>>

\* recv_query: the notice goes out before a quit is recognised.
RecvQuery ==
  /\ spc = "recv" /\ toServer # <<>>
  /\ toServer' = Tail(toServer) /\ sstmt' = Head(toServer).stmt
  /\ toClient' = toClient \o (IF notices THEN <<Frame("notice", <<>>, sstmt')>> ELSE <<>>)
  /\ IF Head(toServer).type = "query" THEN spc' = "parse" /\ link' = link
                                       ELSE spc' = "gone" /\ link' = "closed"
  /\ UNCHANGED <<batch, total, notices, pulled, client>>

\* sql::parse: a notice, or the only answer.
Parsed ==
  /\ spc = "parse" /\ spc' = "exec" /\ toClient' = toClient \o Notice
  /\ UNCHANGED <<toServer, link, sstmt, batch, total, notices, pulled, client>>

AnswerNothing ==
  /\ spc = "parse" /\ spc' = "recv" /\ toClient' = toClient
  /\ UNCHANGED <<toServer, link, sstmt, batch, total, notices, pulled, client>>

SyntaxError ==
  /\ spc = "parse" /\ spc' = "recv"
  /\ toClient' = Append(toClient, Reply("error", <<>>))
  /\ UNCHANGED <<toServer, link, sstmt, batch, total, notices, pulled, client>>

\* A refused statement, a bad SET value, an error of execution.
AnswerError ==
  /\ spc = "exec" /\ spc' = "recv"
  /\ toClient' = Append(toClient, Reply("error", <<>>))
  /\ UNCHANGED <<toServer, link, sstmt, batch, total, notices, pulled, client>>

\* The empty statement, BEGIN, COMMIT and ROLLBACK: no notice.
AnswerControl ==
  /\ spc = "exec" /\ spc' = "recv"
  /\ toClient' = Append(toClient, Reply("ok", <<>>))
  /\ UNCHANGED <<toServer, link, sstmt, batch, total, notices, pulled, client>>

\* Any other statement without a result set.
AnswerOk ==
  /\ spc = "exec" /\ spc' = "recv"
  /\ toClient' = toClient \o Append(Notice, Reply("ok", <<>>))
  /\ UNCHANGED <<toServer, link, sstmt, batch, total, notices, pulled, client>>

\* SET client_msg_level: the notice goes by the new level.
AnswerSet ==
  /\ spc = "exec" /\ spc' = "recv" /\ notices' \in BOOLEAN
  /\ toClient' = toClient \o (IF notices' THEN <<Reply("notice", <<>>)>> ELSE <<>>)
                          \o <<Reply("ok", <<>>)>>
  /\ UNCHANGED <<toServer, link, sstmt, batch, total, pulled, client>>

\* send_result_stream begins.
SendHead ==
  /\ spc = "exec" /\ spc' = "stream"
  /\ toClient' = Append(toClient, Reply("head", <<Cols>>))
  /\ batch' = <<>> /\ total' = 0
  /\ UNCHANGED <<toServer, link, sstmt, notices, pulled, client>>

\* A row; a full batch is sent.
StreamRow(row) ==
  /\ spc = "stream" /\ total < MaxRows
  /\ total' = total + 1 /\ pulled' = [pulled EXCEPT ![sstmt] = Append(@, row)]
  /\ IF Len(batch) + 1 >= BatchMax
       THEN /\ batch' = <<>>
            /\ toClient' = Append(toClient, Reply("batch", EncodeBatch(Append(batch, row))))
       ELSE batch' = Append(batch, row) /\ toClient' = toClient
  /\ UNCHANGED <<toServer, link, spc, sstmt, notices, client>>

\* No more rows: the last batch, the notice, the end.
StreamEnd ==
  /\ spc = "stream" /\ spc' = "recv" /\ batch' = <<>>
  /\ toClient' = toClient \o (IF batch = <<>> THEN <<>> ELSE <<Reply("batch", EncodeBatch(batch))>>)
                          \o Notice \o <<Reply("end", <<total>>)>>
  /\ UNCHANGED <<toServer, link, sstmt, total, notices, pulled, client>>

EndAfterError ==
  /\ spc = "stream" /\ spc' = "recv" /\ batch' = <<>>
  /\ toClient' = toClient \o <<Reply("error", <<>>), Reply("end", <<total>>)>>
  /\ UNCHANGED <<toServer, link, sstmt, total, notices, pulled, client>>

EndForError ==
  /\ spc = "stream" /\ spc' = "recv" /\ batch' = <<>>
  /\ toClient' = Append(toClient, Reply("end", <<total - Len(batch)>>))
  /\ UNCHANGED <<toServer, link, sstmt, total, notices, pulled, client>>

\* An operator raises: rows not yet sent go, handle_client sends the error.
StreamError ==
  /\ spc = "stream" /\ spc' = "recv" /\ batch' = <<>>
  /\ toClient' = Append(toClient, Reply("error", <<>>))
  /\ UNCHANGED <<toServer, link, sstmt, total, notices, pulled, client>>

\* The server shuts the socket down, dies, or the network does: any of the
\* frames under way may be lost from some point on.
Cut ==
  /\ link = "open" /\ link' = "closed" /\ spc' = "gone"
  /\ \E n \in 0..Len(toClient) : toClient' = SubSeq(toClient, 1, n)
  /\ toServer' = <<>>
  /\ UNCHANGED <<sstmt, batch, total, notices, pulled, client>>

-----------------------------------------------------------------------------
(* The client: send_to_server and recv_result_stream *)

Outcome(kind, from, rows) == [kind |-> kind, stmt |-> cstmt, from |-> from, rows |-> rows]

\* A send on a socket the server has closed may still succeed; recv fails then.
SendQuery ==
  /\ cpc = "idle" /\ cstmt < MaxStmts
  /\ cpc' = "reply" /\ cstmt' = cstmt + 1 /\ rs' = <<>>
  /\ toServer' = IF link = "closed" THEN toServer
                 ELSE Append(toServer, Frame("query", <<>>, cstmt + 1))
  /\ UNCHANGED <<toClient, link, session, verdict>>

\* "quit" or "exit": no answer is waited for.
Quit ==
  /\ cpc = "idle" /\ cpc' = "gone"
  /\ toServer' = IF link = "closed" THEN toServer ELSE Append(toServer, Frame("quit", <<>>, cstmt))
  /\ UNCHANGED <<toClient, link, session, cstmt, rs, verdict>>

\* send_frame or recv_frame fails; a reset takes frames not yet read along.
Disconnected ==
  /\ cpc \in {"reply", "stream"} /\ link = "closed"
  /\ cpc' = "idle" /\ verdict' = Outcome("lost", cstmt, <<>>) /\ rs' = <<>> /\ toClient' = <<>>
  /\ UNCHANGED <<toServer, link, session, cstmt>>

Receives(pcs, types) == cpc \in pcs /\ toClient # <<>> /\ Head(toClient).type \in types
Consume == toClient' = Tail(toClient) /\ UNCHANGED <<toServer, link, session, cstmt>>
Done(kind, rows) == cpc' = "idle" /\ verdict' = Outcome(kind, Head(toClient).stmt, rows)

RecvNotice ==
  /\ Receives({"reply", "stream"}, {"notice"}) /\ Consume
  /\ UNCHANGED <<cpc, rs, verdict>>

\* The frames that go on with the statement; any other one ends it: Ok or Error
\* before a result set, Error within one, and what should not come at all.
Continues == {"notice"} \cup (IF cpc = "reply" THEN {"head"} ELSE {"batch", "end"})
Answers   == IF cpc = "reply" THEN {"ok", "error"} ELSE {"error"}

RecvAnswer ==
  /\ cpc \in {"reply", "stream"} /\ toClient # <<>> /\ Head(toClient).type \notin Continues
  /\ Done(IF Head(toClient).type \in Answers THEN Head(toClient).type ELSE "garbled", <<>>)
  /\ rs' = <<>> /\ Consume

RecvHead ==
  /\ Receives({"reply"}, {"head"}) /\ Consume
  /\ cpc' = "stream" /\ rs' = <<>> /\ UNCHANGED verdict

RecvBatch ==
  /\ Receives({"stream"}, {"batch"}) /\ Consume
  /\ LET d == DecodeBatch(Head(toClient).body)
     IN  IF d.ok THEN rs' = rs \o d.rows /\ UNCHANGED <<cpc, verdict>>
                 ELSE Done("garbled", <<>>) /\ rs' = <<>>

\* The end frame's row count must be the number of rows received.
RecvEnd ==
  /\ Receives({"stream"}, {"end"}) /\ Consume /\ rs' = <<>>
  /\ IF Head(toClient).body = <<Len(rs)>> THEN Done("rows", rs) ELSE Done("garbled", <<>>)

-----------------------------------------------------------------------------

Rows == [1..Cols -> CellValues]

SessionStep ==
  \/ RecvQuery \/ Parsed \/ SyntaxError \/ AnswerError \/ AnswerControl
  \/ AnswerOk \/ AnswerSet \/ SendHead
  \/ (\E row \in Rows : StreamRow(row)) \/ StreamEnd \/ StreamError

ClientStep == \/ Disconnected \/ RecvNotice \/ RecvAnswer \/ RecvHead
              \/ RecvBatch \/ RecvEnd

Next == Accept \/ Refuse \/ SessionStep \/ Cut \/ SendQuery \/ Quit \/ ClientStep

Spec == Init /\ [][Next]_vars

\* accept answers, a session works off the statement in hand and a client reads
\* what has come. Nobody has to send, to quit or to cut the line.
FairSpec == Spec /\ WF_vars(Accept \/ Refuse) /\ WF_vars(SessionStep) /\ WF_vars(ClientStep)

-----------------------------------------------------------------------------

\* A result the client shows is, row by row and complete, what the operators
\* gave for that very statement, however rows fell into batches and whatever
\* notices, errors or disconnections came between (encode_rs_batch,
\* decode_rs_batch, recv_result_stream).
RowsExact == verdict.kind = "rows" => verdict.rows = pulled[verdict.stmt]

\* What the client reports is the answer to the statement it sent, not a frame
\* left over from an earlier one (0: the server's refusal of the connection).
InStep == verdict.kind # "none" => verdict.from \in {verdict.stmt, 0}

\* A statement is answered, or the client learns that the connection is gone.
Answered == (cpc \in {"reply", "stream"}) ~> (cpc = "idle")

=============================================================================
