------------------------------ MODULE WsStream ------------------------------
(***************************************************************************)
(* The WebSocket transport of a session (latticeshield-bridge/src/ws.rs):  *)
(* the origin check of the upgrade, and WsStream, which makes a byte stream*)
(* of WebSocket messages.  The session above it reads bytes and writes     *)
(* frames (EncryptedChannel::write_frame: several write_all, one flush);   *)
(* the browser below sends messages and expects one frame in each message. *)
(*                                                                         *)
(* A frame written is Parts units <<f, i>>; the units the browser sends    *)
(* are numbered.                                                           *)
(***************************************************************************)
EXTENDS Integers, Sequences

CONSTANTS
  Parts,       \* write_all calls of a frame
  WsFrames,    \* bound: frames the session writes
  SinkCap,     \* messages the sink takes before it is not ready
  WsInput,     \* bound: messages the browser sends
  Origins      \* origins: [scheme, host, port (0 for none), path]

ASSUME WsAssumption ==
  /\ Parts \in Nat \ {0} /\ WsFrames \in Nat /\ SinkCap \in Nat \ {0} /\ WsInput \in Nat

VARIABLES
  wpc,         \* "upgrade", "open", "closed"
  allowed,     \* OriginCheck::allowed_origins
  header,      \* the request's Origin header, {} for none
  frame,       \* the frame being written, and the parts of it written
  part_no,
  write_buf,   \* WsStream::write_buf
  sink,        \* messages started and not yet transmitted
  received,    \* messages the browser has received
  inbox,       \* messages from the browser, not yet polled
  asked,       \* units, and messages, the browser has sent
  messages,
  read_buf,    \* WsStream::read_buf from read_pos on
  taken        \* units the session has read

wsVars == <<wpc, allowed, header, frame, part_no, write_buf, sink, received, inbox,
            asked, messages, read_buf, taken>>

upgrade == <<allowed, header>>
writing == <<frame, part_no, write_buf, sink, received>>
reading == <<inbox, asked, messages, read_buf, taken>>

\* ---- the upgrade ----------------------------------------------------------------

\* NormalizedOrigin::parse: http or https, no path, query or fragment; the port is
\* the one given or the scheme's.
parses(o) == o.scheme \in {"https", "http"} /\ ~o.path

normalized(o) ==
  <<o.scheme, o.host, IF o.port # 0 THEN o.port ELSE IF o.scheme = "https" THEN 443 ELSE 80>>

matches_header(a, o) == parses(o) /\ normalized(o) = a

\* No list accepts everyone; with a list a missing header is refused.
on_request == allowed = {} \/ \E a \in allowed, o \in header : matches_header(a, o)

WsInit ==
  /\ wpc = "upgrade"
  /\ allowed \in SUBSET {normalized(o) : o \in {o \in Origins : parses(o)}}
  /\ header \in {{}} \cup {{o} : o \in Origins}
  /\ frame = 1 /\ part_no = 0 /\ write_buf = <<>> /\ sink = <<>> /\ received = <<>>
  /\ inbox = <<>> /\ asked = 0 /\ messages = 0 /\ read_buf = <<>> /\ taken = <<>>

\* The check is consumed by the upgrade, which may also fail for other reasons.
Upgrade ==
  /\ wpc = "upgrade"
  /\ wpc' \in {"closed"} \cup (IF on_request THEN {"open"} ELSE {})
  /\ allowed' = {} /\ header' = {}
  /\ UNCHANGED <<writing, reading>>

\* ---- the write side -------------------------------------------------------------

poll_write ==
  /\ wpc = "open" /\ frame <= WsFrames /\ part_no < Parts
  /\ part_no' = part_no + 1 /\ write_buf' = Append(write_buf, <<frame, part_no + 1>>)
  /\ UNCHANGED <<wpc, upgrade, frame, sink, received, reading>>

flushed == frame' = frame + 1 /\ part_no' = 0 /\ UNCHANGED <<write_buf, sink>>

poll_flush_again ==   \* mutant: the buffer is sent and kept, so a second poll sends it again
  /\ wpc = "open" /\ part_no = Parts
  /\ \/ /\ Len(sink) < SinkCap /\ sink' = Append(sink, write_buf)
        /\ UNCHANGED <<frame, part_no, write_buf>>
     \/ write_buf # <<>> /\ sink = <<>> /\ frame' = frame + 1 /\ part_no' = 0
        /\ write_buf' = <<>> /\ UNCHANGED sink
  /\ UNCHANGED <<wpc, upgrade, received, reading>>

\* The buffer becomes one message once the sink is ready; the flush is over when the
\* sink has been emptied, and until then it is pending and polled again.
poll_flush ==
  /\ wpc = "open" /\ part_no = Parts
  /\ \/ /\ write_buf # <<>> /\ Len(sink) < SinkCap
        /\ sink' = Append(sink, write_buf) /\ write_buf' = <<>>
        /\ UNCHANGED <<frame, part_no>>
     \/ write_buf = <<>> /\ sink = <<>> /\ flushed
  /\ UNCHANGED <<wpc, upgrade, received, reading>>

\* The socket takes a message of the sink; pongs share the sink and are left out of
\* what the browser's code receives.
Transmit ==
  /\ wpc = "open" /\ sink # <<>> /\ sink' = Tail(sink)
  /\ received' = IF Head(sink) = <<>> THEN received ELSE Append(received, Head(sink))
  /\ UNCHANGED <<wpc, upgrade, frame, part_no, write_buf, reading>>

\* ---- the read side --------------------------------------------------------------

\* The browser sends a binary or text message of n units, a ping or a close.  A
\* message is the n units that come after those of the messages before it.
payload(m) == [i \in 1..m.n |-> m.after + i]

BrowserSends ==
  /\ wpc = "open" /\ messages < WsInput
  /\ \E t \in {"data", "ping", "close"}, n \in 0..2 :
       /\ t # "data" => n = 0
       /\ inbox' = Append(inbox, [t |-> t, after |-> asked, n |-> n])
       /\ asked' = asked + n
  /\ messages' = messages + 1
  /\ UNCHANGED <<wpc, upgrade, writing, read_buf, taken>>

rest_dropped(b, n) == <<>>   \* mutant: the buffer is cleared after a partial copy

\* read_pos moves on by what was copied.
rest(b, n) == SubSeq(b, n + 1, Len(b))

\* The session does not read while it writes a frame (session.rs:222).  Bytes that
\* are buffered are handed out first, at most what the caller has room for.
poll_read_buffered ==
  /\ wpc = "open" /\ part_no = 0 /\ read_buf # <<>>
  /\ \E room \in 1..2 :
       LET n == IF Len(read_buf) < room THEN Len(read_buf) ELSE room
       IN  taken' = taken \o SubSeq(read_buf, 1, n) /\ read_buf' = rest(read_buf, n)
  /\ UNCHANGED <<wpc, upgrade, writing, inbox, asked, messages>>

\* Otherwise the next message: data fills the buffer, a ping is answered through the
\* sink and skipped, and an empty message ends the stream as a close does: the
\* caller reads zero bytes and the session is over.
poll_read_next ==
  /\ wpc = "open" /\ part_no = 0 /\ read_buf = <<>> /\ inbox # <<>>
  /\ LET m == Head(inbox) IN
       /\ inbox' = Tail(inbox) /\ read_buf' = payload(m)
       /\ wpc' = IF m.t = "close" \/ (m.t = "data" /\ m.n = 0) THEN "closed" ELSE wpc
       /\ sink' = IF m.t = "ping" /\ Len(sink) < SinkCap THEN Append(sink, <<>>) ELSE sink
  /\ UNCHANGED <<upgrade, frame, part_no, write_buf, received, asked, messages, taken>>

\* An error of the socket, or the end of the session above.
WsEnds ==
  /\ wpc = "open" /\ wpc' = "closed"
  /\ UNCHANGED <<upgrade, writing, reading>>

WsNext ==
  \/ Upgrade \/ poll_write \/ poll_flush \/ Transmit
  \/ BrowserSends \/ poll_read_buffered \/ poll_read_next \/ WsEnds

\* ---- properties -----------------------------------------------------------------

\* Every message the browser receives is one whole frame, and the messages are the
\* frames in the order they were written (ws.rs:244): the worker's decodeFrame takes
\* a message for a frame.  A flush that is pending and polled again, and pongs that
\* share the sink, change nothing of it.
FramePerMessage ==
  \A i \in 1..Len(received) : received[i] = [p \in 1..Parts |-> <<i, p>>]

\* Where the units end that were read and are buffered, and those of message k.
EndOf(k) == IF k = 0 THEN Len(taken) + Len(read_buf) ELSE inbox[k].after + inbox[k].n

\* No byte of the browser is lost, repeated or reordered by the buffer (ws.rs:166),
\* however small the reads are: what was read and what is buffered are the first
\* units in order, and the messages that wait go on from there to the last one sent.
ReadsInOrder ==
  /\ taken \o read_buf = [i \in 1..EndOf(0) |-> i]
  /\ \A k \in 1..Len(inbox) : inbox[k].after = EndOf(k - 1)
  /\ EndOf(Len(inbox)) = asked
=============================================================================
