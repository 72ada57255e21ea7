---------------------------- MODULE NoiseTransport ----------------------------
(***************************************************************************)
(* The inbound side of the Noise transport: makeNoiseHandler of            *)
(* lib/Utils/noise-handler.js under the 'message' events of the WebSocket  *)
(* (lib/Socket/socket.js), with the switch to the transport keys.          *)
(*                                                                         *)
(* The server's byte stream is cut into WebSocket messages anywhere, so a  *)
(* frame is two units here, its length and its body: unit 2f-1 and 2f are  *)
(* frame f.  Frame 1 is the server hello, the others are sealed with the   *)
(* transport key and a counter.  decodeFrame appends a message to bytes    *)
(* that all loops share and queues a loop; a loop is suspended while a     *)
(* frame is decoded (an inflate runs on the thread pool), and messages     *)
(* come in meanwhile.                                                      *)
(***************************************************************************)
EXTENDS Naturals, Sequences, FiniteSets, SequencesExt

CONSTANTS
  Frames,       \* bound on the frames the server sends
  MaxMessage,   \* bound on the units of one WebSocket message
  MaxFailures   \* bound on frames that the decoder refuses

ASSUME NoiseAssumption ==
  Frames \in Nat \ {0} /\ MaxMessage \in Nat \ {0} /\ MaxFailures \in Nat

VARIABLES
  received,       \* units that have come
  inBytes,        \* the bytes at hand, with those not concatenated yet
  inBytesChunks,
  processChain,   \* the loops that run or wait, in order
  transport,      \* finishInit() has installed the transport keys
  readCounter,
  emitted,        \* history: the frames given to onFrame
  failed,         \* history: the frames that could not be decoded
  raised          \* history: a listener of the socket has thrown

buffer == <<inBytes, inBytesChunks>>
vars == <<received, buffer, processChain, transport, readCounter, emitted, failed, raised>>

Init ==
  /\ received = 0 /\ inBytes = <<>> /\ inBytesChunks = <<>>
  /\ processChain = <<>>
  /\ transport = FALSE /\ readCounter = 0
  /\ emitted = <<>> /\ failed = {} /\ raised = FALSE

Queued == [at |-> "queued", frame |-> 0]

\* decodeFrame: a message that finds nothing at hand is taken as it is.  The
\* server seals frames only after the client's last handshake message, whose
\* send has called back, so that finishInit() has run, before an answer comes.
Receive(k) ==
  LET message == [i \in 1..k |-> received + i]
  IN  /\ received + k <= IF transport THEN 2 * Frames ELSE 2
      /\ received' = received + k
      /\ IF inBytes = <<>> /\ inBytesChunks = <<>>
         THEN inBytes' = message /\ UNCHANGED inBytesChunks
         ELSE inBytesChunks' = Append(inBytesChunks, message) /\ UNCHANGED inBytes
      /\ processChain' = Append(processChain, Queued)
      /\ UNCHANGED <<transport, readCounter, emitted, failed, raised>>

\* The hello has been given to validateConnection, which goes on to finishInit.
FinishInit ==
  /\ ~transport /\ emitted # <<>>
  /\ transport' = TRUE
  /\ UNCHANGED <<received, buffer, processChain, readCounter, emitted, failed, raised>>

\* Mutant: the counter of the transport goes on from that of the hello.
OpenedCarried(b) ==
  LET f == b[2] \div 2
  IN  IF b[1] = 2 * f - 1 /\ b[2] = 2 * f /\ (transport => f = readCounter + 1) THEN f ELSE 0

\* The frame at the front; 0 if the units are not one, or it was sealed with
\* another counter than the next, so that it does not open.
Opened(b) ==
  LET f == b[2] \div 2
  IN  IF b[1] = 2 * f - 1 /\ b[2] = 2 * f /\ (transport => f = readCounter + 2) THEN f ELSE 0

\* One turn of the loop of run i over the bytes b, up to the next await.  Before
\* the transport a frame is given as it is, and nothing follows it.
Loop(i, b, out) ==
  IF Len(b) < 2
  THEN /\ processChain' = RemoveAt(processChain, i)
       /\ inBytes' = b /\ emitted' = out /\ UNCHANGED readCounter
  ELSE /\ inBytes' = SubSeq(b, 3, Len(b))
       /\ IF transport
          THEN /\ processChain' = [processChain EXCEPT ![i] = [at |-> "decode", frame |-> Opened(b)]]
               /\ readCounter' = readCounter + 1 /\ emitted' = out
          ELSE /\ processChain' = RemoveAt(processChain, i)
               /\ emitted' = Append(out, Opened(b)) /\ UNCHANGED readCounter

\* Mutant: a loop starts when its message comes.
TurnAtOnce(i) == TRUE

\* processData: a loop starts when the one before it has settled.
Turn(i) == i = 1

Start(i) ==
  /\ Turn(i) /\ processChain[i].at = "queued"
  /\ Loop(i, inBytes \o FlattenSeq(inBytesChunks), emitted)
  /\ inBytesChunks' = <<>>
  /\ UNCHANGED <<received, transport, failed, raised>>

\* The loop goes on with whatever is in inBytes now.
Decoded(i) ==
  /\ processChain[i].at = "decode" /\ processChain[i].frame # 0
  /\ Loop(i, inBytes, Append(emitted, processChain[i].frame))
  /\ UNCHANGED <<received, inBytesChunks, transport, failed, raised>>

\* decrypt or decodeBinaryNode throws: the run rejects and leaves the bytes.
DecodeFails(i) ==
  /\ processChain[i].at = "decode"
  /\ processChain[i].frame = 0 \/ Cardinality(failed) < MaxFailures
  /\ failed' = failed \cup {processChain[i].frame}
  /\ processChain' = RemoveAt(processChain, i)
  /\ UNCHANGED <<received, buffer, transport, readCounter, emitted, raised>>

\* onFrame emits to listeners, one of which throws: the run rejects as well, but
\* the frame has been given out.  (The listeners of the hello do not throw.)
ListenerThrows(i) ==
  /\ processChain[i].at = "decode" /\ processChain[i].frame # 0
  /\ emitted' = Append(emitted, processChain[i].frame) /\ raised' = TRUE
  /\ processChain' = RemoveAt(processChain, i)
  /\ UNCHANGED <<received, buffer, transport, readCounter, failed>>

Run ==
  \E i \in DOMAIN processChain : Start(i) \/ Decoded(i) \/ DecodeFails(i) \/ ListenerThrows(i)

Next ==
  \/ \E k \in 1..MaxMessage : Receive(k)
  \/ FinishInit \/ Run

\* Promises settle and the thread pool comes back.
Spec == Init /\ [][Next]_vars /\ WF_vars(Run) /\ WF_vars(FinishInit)

-----------------------------------------------------------------------------
Units == 1..(2 * Frames)

\* The type invariant.
TypeOK ==
  /\ received \in 0..(2 * Frames)
  /\ inBytes \in Seq(Units) /\ inBytesChunks \in Seq(Seq(Units))
  /\ processChain \in Seq([at : {"queued", "decode"}, frame : 0..Frames])
  /\ transport \in BOOLEAN /\ readCounter \in 0..Frames
  /\ emitted \in Seq(1..Frames) /\ failed \subseteq 1..Frames /\ raised \in BOOLEAN

Stream == INSTANCE FrameStream WITH arrived <- received \div 2, out <- emitted, bad <- failed, threw <- raised

\* However the stream is cut and however long each decode takes, frames reach
\* the socket once each and in wire order, none fails to open because another
\* was opened before it, and, while no run has rejected, everything that has
\* come is delivered (the comment on processChain in noise-handler.js).
WireOrder == Stream!Spec
=============================================================================
