---------------------------- MODULE TerminalWire -----------------------------
(***************************************************************************)
(* What lies between the terminal's WebSocket and the runtime: the         *)
(* connector of runtime/node-websocket-connector.ts (the handshake, the    *)
(* conversion of messages, the bounded receive queue), the frame decoder   *)
(* and the legality of frames (terminal/codec.ts), and what is demanded of *)
(* the READY frame (runtime/terminal-transport.ts).                        *)
(*                                                                         *)
(* A byte is a unit [frame, at]: a frame of size n is n units, the first   *)
(* its header.  The network cuts the stream into messages wherever it      *)
(* likes; a message is already bytes, or a Blob still to be converted.     *)
(* What a control payload says is kept only for READY.                     *)
(***************************************************************************)
EXTENDS Naturals, Sequences, SequencesExt

CONSTANTS TwFrames,   \* frames the peer sends
          TwSize,     \* units of the largest frame
          TwMessage,  \* units of the largest message
          TwSlab,     \* RECEIVE_SLAB_BYTES
          TwQueueMax, \* MAX_QUEUED_BYTES
          TwPendMax   \* MAX_PENDING_CONVERSION_MESSAGES

ASSUME WireBounds == {TwFrames, TwSize, TwMessage, TwSlab, TwQueueMax, TwPendMax} \subseteq Nat \ {0}

VARIABLES
    twPhase,   \* of connect(): connecting, open, rejected
    twSent,    \* the frames the peer sent
    twFlight,  \* their units, not yet arrived
    twPending, \* messages whose conversion owns the order of arrival
    twValues,  \* #values: the slabs
    twQueue,   \* the receive queue: open, closed, failed
    twReader,  \* the runtime's loop over receive(): ready, waiting, ended, failed
    twBuffer,  \* the decoder's bytes
    twTaken,   \* the frames the runtime took, in order
    twLink,    \* negotiating, attached, local (local actions negotiated), refused
    twSocket,  \* [closed, gone, discard, listens]: closed, the close event, discardPendingConversions
    twRead,    \* units handed to the decoder so far
    twLost     \* ghost: a message was dropped, or the reading given up, on this side

twDecoder == <<twBuffer, twTaken, twLink, twRead>>
twVars == <<twPhase, twSent, twFlight, twPending, twValues, twQueue, twReader, twDecoder, twSocket, twLost>>

(* The frames of generated/terminal-wire-v1.ts a peer may send here; an    *)
(* unknown one is skipped unless it is critical.                           *)
ReadyPayloads == [identity: {"own", "none", "part", "other"}, offers: BOOLEAN]
NoPayload == [identity |-> "none", offers |-> FALSE]
PeerFrames ==
    [type: {"ready"}, critical: {TRUE}, size: {2}, payload: ReadyPayloads]
    \cup [type: {"output"}, critical: {TRUE}, size: 1 .. TwSize, payload: {NoPayload}]
    \cup [type: {"resume", "local_action_request"}, critical: {TRUE}, size: {2}, payload: {NoPayload}]
    \cup [type: {"unknown"}, critical: BOOLEAN, size: {1}, payload: {NoPayload}]

TwInit ==
    /\ twPhase = "connecting" /\ twSent = <<>> /\ twFlight = <<>> /\ twPending = <<>>
    /\ twValues = <<>> /\ twQueue = "open" /\ twReader = "ready"
    /\ twBuffer = <<>> /\ twTaken = <<>> /\ twLink = "negotiating"
    /\ twSocket = [closed |-> FALSE, gone |-> FALSE, discard |-> FALSE, listens |-> TRUE]
    /\ twRead = 0 /\ twLost = FALSE

-----------------------------------------------------------------------------
(* The decoder *)

SizeOf(unit) == twSent[unit.frame].size

\* Cuts[i]: a frame ends after the first i bytes of the buffer.
Cuts(bytes) ==
    LET cut[i \in 0 .. Len(bytes)] ==
          i = 0 \/ \E j \in 0 .. i - 1: cut[j] /\ bytes[j + 1].at = 1 /\ SizeOf(bytes[j + 1]) = i - j
    IN {i \in 0 .. Len(bytes): cut[i]}

\* parseHeader finds no magic where a frame should begin.
BadMagic(bytes) == \E i \in Cuts(bytes): i < Len(bytes) /\ bytes[i + 1].at # 1

LastCut(bytes) == CHOOSE i \in Cuts(bytes): \A j \in Cuts(bytes): j <= i

\* decodeTerminalFrame for every complete frame, in order.
Decoded(bytes) ==
    LET heads == SelectSeq(SubSeq(bytes, 1, LastCut(bytes)), LAMBDA u: u.at = 1)
    IN [i \in 1 .. Len(heads) |-> heads[i].frame]

KnownType(f) == twSent[f].type # "unknown"
FatalUnknown(f) == ~KnownType(f) /\ twSent[f].critical

\* LEGAL_FRAMES and assertTerminalFrameLegal, for frames of the server.
FrameLegal(link, type) ==
    CASE link = "negotiating" -> type \in {"ready", "error"}
      [] link \in {"attached", "local"} ->
            \/ type \in {"output", "acknowledgement", "heartbeat", "exit", "error", "ready", "writer_epoch",
                         "control_state", "view_started", "view_ready"}
            \/ link = "local" /\ type \in {"local_action_request", "local_action_result", "local_stream_open",
                         "local_stream_data", "local_stream_close", "local_stream_window_update"}
      [] OTHER -> FALSE

\* validateReadyIdentity: all four fields or none, and no offer without them.
ReadyDecodes(p) == p.identity # "part" /\ (p.identity = "none" => ~p.offers)

\* Mutant: an identity that is present is taken without comparing it.
AnyIdentity(p) == TRUE

\* assertReadyPayloadMatches, against the session observed.
ReadyMatches(p) == p.identity \in {"own", "none"}

\* The runtime's handling of one frame, as far as the link goes.
LinkAfter(link, f) ==
    LET frame == twSent[f] IN
    CASE ~FrameLegal(link, frame.type) -> "refused"
      [] FrameLegal(link, frame.type) /\ frame.type = "ready" ->
            IF link # "negotiating" \/ ~ReadyDecodes(frame.payload) \/ ~ReadyMatches(frame.payload) THEN "refused"
            ELSE IF frame.payload.offers THEN "local" ELSE "attached"
      [] OTHER -> link

LinkThrough(frames) ==
    LET after[i \in 0 .. Len(frames)] ==
          IF i = 0 THEN twLink
          ELSE IF after[i - 1] = "refused" THEN "refused" ELSE LinkAfter(after[i - 1], frames[i])
    IN after

\* decoder.push of one chunk, then its frames one by one; the first that is
\* refused ends the reading.
Consume(chunk) ==
    LET bytes == twBuffer \o chunk
        frames == SelectSeq(Decoded(bytes), KnownType)
        through == LinkThrough(frames)
        bad == BadMagic(bytes) \/ \E i \in 1 .. Len(Decoded(bytes)): FatalUnknown(Decoded(bytes)[i])
    IN /\ twRead' = twRead + Len(chunk)
       /\ IF bad
          THEN /\ twLink' = "refused" /\ twReader' = "failed"
               /\ UNCHANGED <<twBuffer, twTaken>>
          ELSE /\ twBuffer' = SubSeq(bytes, LastCut(bytes) + 1, Len(bytes))
               /\ twTaken' = twTaken \o SubSeq(frames, 1, Cardinality({i \in 1 .. Len(frames): through[i] # "refused"}))
               /\ twLink' = through[Len(frames)]
               /\ twReader' = IF twLink' = "refused" THEN "failed" ELSE "ready"

-----------------------------------------------------------------------------
(* The receive queue *)

Queued == FoldLeft(LAMBDA n, slab: n + Len(slab), 0, twValues)

\* Fill the last slab, then new ones.
Slabs(values, bytes) ==
    LET room == IF values = <<>> THEN 0 ELSE TwSlab - Len(Last(values))
        filled == IF values = <<>> THEN values
                  ELSE [values EXCEPT ![Len(values)] = @ \o SubSeq(bytes, 1, IF room < Len(bytes) THEN room ELSE Len(bytes))]
        rest == SubSeq(bytes, room + 1, Len(bytes))
        count == (Len(rest) + TwSlab - 1) \div TwSlab
    IN filled \o [k \in 1 .. count |->
                    SubSeq(rest, (k - 1) * TwSlab + 1, IF k * TwSlab < Len(rest) THEN k * TwSlab ELSE Len(rest))]

\* BoundedByteQueue.fail: what was queued is dropped, a waiter is rejected.
FailQueue ==
    /\ twQueue' = IF twQueue = "open" THEN "failed" ELSE twQueue
    /\ twValues' = IF twQueue = "open" THEN <<>> ELSE twValues
    /\ twReader' = IF twQueue = "open" /\ twReader = "waiting" THEN "failed" ELSE twReader
    /\ UNCHANGED twDecoder

\* discardPendingConversions, queue.fail, closeSocket.
Break ==
    /\ FailQueue
    /\ twSocket' = [twSocket EXCEPT !.closed = TRUE, !.discard = TRUE]

\* BoundedByteQueue.push: a waiting reader gets the first slab's worth.
Push(bytes) ==
    IF twQueue # "open" THEN UNCHANGED <<twValues, twQueue, twReader, twDecoder, twSocket>>
    ELSE IF Queued + Len(bytes) > TwQueueMax THEN Break
    ELSE LET direct == IF twReader # "waiting" THEN 0 ELSE IF TwSlab < Len(bytes) THEN TwSlab ELSE Len(bytes)
         IN /\ twValues' = Slabs(twValues, SubSeq(bytes, direct + 1, Len(bytes)))
            /\ IF direct > 0 THEN Consume(SubSeq(bytes, 1, direct))
               ELSE UNCHANGED <<twReader, twDecoder>>
            /\ UNCHANGED <<twQueue, twSocket>>

\* next()
ReadNext ==
    /\ twPhase = "open" /\ twReader = "ready"
    /\ IF twValues # <<>> THEN Consume(Head(twValues)) /\ twValues' = Tail(twValues)
       ELSE /\ twReader' = CASE twQueue = "failed" -> "failed" [] twQueue = "closed" -> "ended" [] OTHER -> "waiting"
            /\ UNCHANGED <<twValues, twDecoder>>
    /\ UNCHANGED <<twPhase, twSent, twFlight, twPending, twQueue, twSocket, twLost>>

-----------------------------------------------------------------------------
(* The socket's events *)

PeerSends(frame) ==
    /\ twPhase = "open" /\ ~twSocket.gone /\ Len(twSent) < TwFrames
    /\ twSent' = Append(twSent, frame)
    /\ twFlight' = twFlight \o [i \in 1 .. frame.size |-> [frame |-> Len(twSent) + 1, at |-> i]]
    /\ UNCHANGED <<twPhase, twPending, twValues, twQueue, twReader, twDecoder, twSocket, twLost>>

\* Mutant: bytes are queued at once, whatever conversion is under way.
AlwaysAtOnce(form) == form = "bytes"

\* An earlier conversion owns the order of arrival.
AtOnce(form) == form = "bytes" /\ twPending = <<>>

\* onMessage
MessageArrives(n, form) ==
    /\ twPhase = "open" /\ n <= Len(twFlight) /\ twSocket.listens /\ ~twSocket.gone
    /\ LET bytes == SubSeq(twFlight, 1, n) IN
       /\ twFlight' = SubSeq(twFlight, n + 1, Len(twFlight))
       /\ CASE twSocket.closed \/ twSocket.discard ->
                 /\ twLost' = TRUE
                 /\ UNCHANGED <<twPending, twValues, twQueue, twReader, twDecoder, twSocket>>
            [] ~(twSocket.closed \/ twSocket.discard) /\ AtOnce(form) ->
                 Push(bytes) /\ UNCHANGED <<twPending, twLost>>
            [] ~(twSocket.closed \/ twSocket.discard) /\ ~AtOnce(form) ->
                 IF Len(twPending) = TwPendMax THEN Break /\ twLost' = TRUE /\ UNCHANGED twPending
                 ELSE /\ twPending' = Append(twPending, bytes)
                      /\ UNCHANGED <<twValues, twQueue, twReader, twDecoder, twSocket, twLost>>
    /\ UNCHANGED <<twPhase, twSent>>

\* A message that is not binary.
TextArrives ==
    /\ twPhase = "open" /\ twSocket.listens /\ ~twSocket.gone /\ ~twSocket.closed /\ ~twSocket.discard
    /\ Break
    /\ UNCHANGED <<twPhase, twSent, twFlight, twPending, twLost>>

\* The head of messageTail: converted, or too late or of another size.
Converts ==
    /\ twPending # <<>>
    /\ twPending' = Tail(twPending)
    /\ \/ twSocket.discard /\ twLost' = TRUE /\ UNCHANGED <<twValues, twQueue, twReader, twDecoder, twSocket>>
       \/ ~twSocket.discard /\ Push(Head(twPending)) /\ UNCHANGED twLost
       \/ ~twSocket.discard /\ Break /\ UNCHANGED twLost
    /\ UNCHANGED <<twPhase, twSent, twFlight>>

\* onClose: the queue is closed only behind the conversions before it.
SocketCloses ==
    /\ twPhase = "open" /\ twSocket.listens /\ ~twSocket.gone
    /\ twSocket' = [twSocket EXCEPT !.closed = TRUE, !.gone = TRUE]
    /\ UNCHANGED <<twPhase, twSent, twFlight, twPending, twValues, twQueue, twReader, twDecoder, twLost>>

\* Mutant: the close event closes the queue over the heads of conversions.
ClosesAtOnce == TRUE

TailDone == twPending = <<>>

CloseQueue ==
    /\ twQueue' = IF twQueue = "open" THEN "closed" ELSE twQueue
    /\ twReader' = IF twQueue = "open" /\ twReader = "waiting" THEN "ended" ELSE twReader
    /\ UNCHANGED <<twValues, twDecoder>>

QueueCloses ==
    /\ twSocket.gone /\ twQueue = "open" /\ TailDone
    /\ CloseQueue
    /\ UNCHANGED <<twPhase, twSent, twFlight, twPending, twSocket, twLost>>

\* onTransportError, onActiveAbort
TransportBreaks ==
    /\ twPhase = "open" /\ twSocket.listens /\ ~twSocket.gone
    /\ Break
    /\ UNCHANGED <<twPhase, twSent, twFlight, twPending, twLost>>

\* send() over the bounded buffer closes the socket; messages after it are ignored.
SendBackpressure ==
    /\ twPhase = "open" /\ ~twSocket.closed
    /\ twSocket' = [twSocket EXCEPT !.closed = TRUE]
    /\ UNCHANGED <<twPhase, twSent, twFlight, twPending, twValues, twQueue, twReader, twDecoder, twLost>>

\* close() of the connection: no event is heard any more.
LocalClose ==
    /\ twPhase = "open" /\ twSocket.listens
    /\ twSocket' = [twSocket EXCEPT !.closed = TRUE, !.listens = FALSE]
    /\ CloseQueue
    /\ twLost' = TRUE
    /\ UNCHANGED <<twPhase, twSent, twFlight, twPending>>

-----------------------------------------------------------------------------
(* The handshake *)

SocketOpens ==
    /\ twPhase = "connecting" /\ twPhase' = "open"
    /\ UNCHANGED <<twSent, twFlight, twPending, twValues, twQueue, twReader, twDecoder, twSocket, twLost>>

\* Another protocol, a close, an error or an abort before connect returns.
ConnectRejected ==
    /\ twPhase = "connecting" /\ twPhase' = "rejected"
    /\ twSocket' = [twSocket EXCEPT !.closed = TRUE, !.discard = TRUE]
    /\ twQueue' \in {"closed", "failed"}
    /\ UNCHANGED <<twSent, twFlight, twPending, twValues, twReader, twDecoder, twLost>>

TwNext ==
    \/ SocketOpens \/ ConnectRejected
    \/ \E frame \in PeerFrames: PeerSends(frame)
    \/ \E n \in 1 .. TwMessage, form \in {"bytes", "blob"}: MessageArrives(n, form)
    \/ TextArrives \/ Converts \/ SocketCloses \/ QueueCloses \/ TransportBreaks \/ SendBackpressure \/ LocalClose
    \/ ReadNext

TwSpec == TwInit /\ [][TwNext]_twVars

-----------------------------------------------------------------------------
KnownSent == SelectSeq([i \in 1 .. Len(twSent) |-> i], KnownType)

\* What a peer that keeps to the protocol sends.
Honest ==
    LET after[i \in 0 .. Len(KnownSent)] ==
          IF i = 0 THEN "negotiating"
          ELSE IF after[i - 1] = "refused" THEN "refused" ELSE LinkAfter(after[i - 1], KnownSent[i])
    IN after[Len(KnownSent)] # "refused" /\ \A i \in 1 .. Len(twSent): ~FatalUnknown(i)

\* However the stream was cut into messages, slabs and chunks, and whichever
\* messages had to be converted, no frame of a peer that keeps to the protocol
\* is refused (TerminalFrameDecoder, assertTerminalFrameLegal).
HonestIsTaken == Honest => twLink # "refused"

\* The connection implements OrderedStream: the runtime takes the known frames
\* in the order they were sent, and a reading that ends without an error has
\* taken every frame that arrived, those still being converted when the socket
\* closed included (BoundedByteQueue, messageTail, onClose).
Stream == INSTANCE OrderedStream WITH
    Frame   <- 1 .. TwFrames,
    sent    <- KnownSent,
    arrived <- Cardinality({i \in 1 .. Len(KnownSent):
                   twFlight = <<>> \/ KnownSent[i] < Head(twFlight).frame}),
    taken   <- twTaken,
    over    <- IF twReader \in {"ended", "failed"} THEN twReader ELSE "open",
    gaveUp  <- twLost
WireIsOrderedStream == Stream!StreamSpec

\* A request for a local action is taken only on a link whose READY carried this
\* session's own identity (validateReadyIdentity, assertReadyPayloadMatches).
LocalActionsBound ==
    \A i \in 1 .. Len(twTaken): twSent[twTaken[i]].type = "local_action_request" =>
        \E j \in 1 .. i - 1: twSent[twTaken[j]].type = "ready" /\ twSent[twTaken[j]].payload.identity = "own"
=============================================================================
