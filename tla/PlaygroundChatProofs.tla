------------------------- MODULE PlaygroundChatProofs -------------------------
(***************************************************************************)
(* Every safety property of PlaygroundChat, for any number of requests,    *)
(* words, visits, edits and failures, any deltas, either style of          *)
(* streaming, and any limit on the messages that are stored.               *)
(*                                                                         *)
(* The module goes from the callbacks to the invariants.  Lemmas ...Fields *)
(* say what a callback does to each field of chat, lemmas ...List what a   *)
(* helper does to a list of messages, and lemmas ...Step what an action    *)
(* does in terms of these.  The invariants build on each other:            *)
(*   TypeInv  the refs name requests that were made;                       *)
(*   FlagInv  the flags agree with the request that runs, and what the     *)
(*            user sees is at most too busy;                               *)
(*   RestInv  only the last answer is pending, exactly while the console   *)
(*            is busy, and at rest the user sees the state;                *)
(*   KeyInv   the keys of the messages are distinct, stored ones too;      *)
(*   FullInv, TextInv  an answer shows words of its own request in order,  *)
(*            and all of them, with the buffer, if no chunk of the request *)
(*            could be mistaken for a snapshot.                            *)
(***************************************************************************)
EXTENDS PlaygroundChat, SequenceTheorems, TLAPS

(* Texts, and the records of the hooks.                                    *)
Text == Seq((0..MaxRequests) \X Nat)

Chats ==
    [messages : Seq(Message), saveTimer : BOOLEAN, pending : Text, flushTimer : BOOLEAN,
     source : Nat, isStreaming : BOOLEAN, complete : BOOLEAN, open : SUBSET Nat,
     isRequesting : BOOLEAN, requestId : Nat, abortController : Nat, aborted : SUBSET Nat]

Views == [messages : Seq(Message), generating : BOOLEAN]

----------------------------------------------------------------------------
(* Messages.                                                               *)

(* The texts that a chunk leaves are texts.                                *)
LEMMA AppendableIsText ==
  ASSUME NEW t \in Text, NEW u \in Text
  PROVE  /\ AppendableChunk(t, u) \in Text
         /\ t \o AppendableChunk(t, u) \in Text
         /\ MergePendingStreamChunk(t, u) \in Text
  <1>1. Len(t) \in Nat /\ Len(u) \in Nat /\ \A i \in 1..Len(u) : u[i] \in (0..MaxRequests) \X Nat
    BY DEF Text
  <1>2. SubSeq(u, Len(t) + 1, Len(u)) \in Text
    BY <1>1, SubSeqProperties DEF Text
  <1>3. AppendableChunk(t, u) \in Text
    BY <1>2 DEF AppendableChunk
  <1>4. t \o u \in Text /\ t \o AppendableChunk(t, u) \in Text
    BY <1>3 DEF Text
  <1> QED BY <1>3, <1>4 DEF MergePendingStreamChunk

(* A chunk applied to a message gives a message. *)
LEMMA ChunkIsMessage ==
  ASSUME NEW m \in Message, NEW u \in Text
  PROVE  ApplyStreamingChunk(m, u) \in Message
  <1>1. m.text \in Text
    BY DEF Message, Text
  <1>2. m.text \o AppendableChunk(m.text, u) \in Text
    BY <1>1, AppendableIsText
  <1> DEFINE t == m.text \o AppendableChunk(m.text, u)
  <1> HIDE DEF t
  <1>3. ApplyStreamingChunk(m, u) = IF m.status = "error" THEN m ELSE [m EXCEPT !.text = t, !.status = "streaming"]
    BY DEF ApplyStreamingChunk, t
  <1> QED BY <1>2, <1>3 DEF Message, Text, t

(* The user's own text is a text. *)
LEMMA LocalIsText == Local \in Text
  BY PlaygroundAssumption DEF Local, Text

(* Completing a message, or showing an error in it, gives a message. *)
LEMMA FinishedIsMessage ==
  ASSUME NEW m \in Message
  PROVE  Complete(m) \in Message /\ WithError(m) \in Message
  BY LocalIsText DEF Complete, WithError, Message, Text

(* ns is ms with m for its last message, if that is an answer.             *)
Revised(ms, ns, m) ==
    /\ ns \in Seq(Message) /\ Len(ns) = Len(ms)
    /\ \A i \in 1..Len(ms) :
         ns[i] = IF i = Len(ms) /\ ms[i].from = "assistant" THEN m ELSE ms[i]

(* updateLastAssistantMessage revises the last message and no other. *)
LEMMA UpdateLast ==
  ASSUME NEW ms \in Seq(Message), NEW f \in [ToSet(ms) -> Message]
  PROVE  Revised(ms, UpdateLastAssistantMessage(ms, f), f[ms[Len(ms)]])
  <1>1. CASE ms = <<>>
    BY <1>1 DEF UpdateLastAssistantMessage, Revised
  <1>2. CASE ms # <<>> /\ ms[Len(ms)].from # "assistant"
    BY <1>2 DEF UpdateLastAssistantMessage, Revised, Last
  <1>3. CASE ms # <<>> /\ ms[Len(ms)].from = "assistant"
    <2>1. Len(ms) \in 1..Len(ms)
      BY <1>3
    <2>2. ms[Len(ms)] \in ToSet(ms)
      BY <2>1 DEF ToSet
    <2>3. f[ms[Len(ms)]] \in Message
      BY <2>2
    <2>4. UpdateLastAssistantMessage(ms, f) = [ms EXCEPT ![Len(ms)] = f[ms[Len(ms)]]]
      BY <1>3 DEF UpdateLastAssistantMessage, Last
    <2> QED BY <2>1, <2>3, <2>4, <1>3, ExceptSeq DEF Revised
  <1> QED BY <1>1, <1>2, <1>3

(* The elements of a list of messages are messages. *)
LEMMA ElementIsMessage ==
  ASSUME NEW ms \in Seq(Message), NEW m \in ToSet(ms) PROVE m \in Message
  BY DEF ToSet
----------------------------------------------------------------------------
(* The callbacks.                                                          *)

(* d has the stream, or the request for a whole answer, of c.              *)
SameStream(c, d) ==
    d.source = c.source /\ d.isStreaming = c.isStreaming /\ d.complete = c.complete /\ d.open = c.open

SameRequest(c, d) ==
    d.requestId = c.requestId /\ d.abortController = c.abortController /\ d.aborted = c.aborted

(* d has the stream of c, with the one of r closed.                        *)
ClosedStream(c, d, r) ==
    /\ d.open = c.open \ {r}
    /\ d.source = IF c.source = r THEN 0 ELSE c.source
    /\ d.isStreaming = IF c.source = r THEN FALSE ELSE c.isStreaming

(* Nothing waits to be flushed, a save is due and no request is made.      *)
Rested(d) == d.pending = <<>> /\ d.flushTimer = FALSE /\ d.saveTimer = TRUE /\ d.isRequesting = FALSE

(* A flush applies the buffered text to the last message and empties the buffer. *)
LEMMA FlushFields ==
  ASSUME NEW c \in Chats
  PROVE  LET d == FlushStreamUpdates(c)
         IN  /\ d \in Chats
             /\ Revised(c.messages, d.messages,
                        IF c.pending = <<>> THEN c.messages[Len(c.messages)]
                        ELSE ApplyStreamingChunk(c.messages[Len(c.messages)], c.pending))
             /\ d.pending = <<>> /\ d.saveTimer = (c.saveTimer \/ c.pending # <<>>)
             /\ d.flushTimer = FALSE /\ d.isRequesting = c.isRequesting
             /\ SameStream(c, d) /\ SameRequest(c, d)
  <1> DEFINE f == [m \in ToSet(c.messages) |-> ApplyStreamingChunk(m, c.pending)]
  <1> DEFINE ms == c.messages
  <1>1. ms \in Seq(Message) /\ c.pending \in Text
    BY DEF Chats
  <1>2. f \in [ToSet(ms) -> Message]
    BY <1>1, ChunkIsMessage, ElementIsMessage
  <1> DEFINE ns == UpdateLastAssistantMessage(ms, f)
  <1>3. Revised(ms, ns, f[ms[Len(ms)]])
    BY <1>1, <1>2, UpdateLast
  <1>4. Revised(ms, ns, ApplyStreamingChunk(ms[Len(ms)], c.pending))
    <2>1. CASE Len(ms) = 0
      BY <2>1, <1>3 DEF Revised
    <2>2. CASE Len(ms) # 0
      BY <2>2, <1>3, <1>1 DEF ToSet
    <2> QED BY <2>1, <2>2
  <1>5. Revised(ms, ms, ms[Len(ms)])
    BY <1>1 DEF Revised
  <1>6. ns \in Seq(Message)
    BY <1>3 DEF Revised
  <1>7. FlushStreamUpdates(c) = IF c.pending = <<>> THEN [c EXCEPT !.flushTimer = FALSE]
            ELSE [c EXCEPT !.flushTimer = FALSE, !.pending = <<>>, !.messages = ns, !.saveTimer = TRUE]
    BY DEF FlushStreamUpdates, UpdateMessages, Chats
  <1> HIDE DEF ns, f
  <1>8. <<>> \in Text
    BY DEF Text
  <1>9. CASE c.pending = <<>>
    BY <1>9, <1>7, <1>5, <1>8 DEF Chats, SameStream, SameRequest
  <1>10. CASE c.pending # <<>>
    BY <1>10, <1>7, <1>4, <1>6, <1>8 DEF Chats, SameStream, SameRequest
  <1> QED BY <1>9, <1>10

(* What the last message is after a flush, and when its request ends.      *)
Chunked(m, text) == IF text = <<>> THEN m ELSE ApplyStreamingChunk(m, text)
Finish(m) == IF IsFinal(m) THEN m ELSE Complete(m)
Settle(m) == IF IsPending(m) THEN Complete(m) ELSE m

(* The callbacks keep whose a message is.                                  *)
LEMMA SameAuthor ==
  ASSUME NEW m \in Message, NEW text \in Text
  PROVE  /\ Chunked(m, text) \in Message /\ Finish(m) \in Message /\ Settle(m) \in Message
         /\ \A n \in {Chunked(m, text), Finish(m), Settle(m), WithError(m)} :
              n.from = m.from /\ n.key = m.key /\ n.req = m.req
  <1>1. Chunked(m, text) \in Message /\ Finish(m) \in Message /\ Settle(m) \in Message
    BY ChunkIsMessage, FinishedIsMessage DEF Chunked, Finish, Settle
  <1> DEFINE t == m.text \o AppendableChunk(m.text, text)
  <1> HIDE DEF t
  <1>2. Chunked(m, text) = IF text = <<>> \/ m.status = "error" THEN m
                           ELSE [m EXCEPT !.text = t, !.status = "streaming"]
    BY DEF Chunked, ApplyStreamingChunk, t
  <1>3. Chunked(m, text).from = m.from /\ Chunked(m, text).key = m.key /\ Chunked(m, text).req = m.req
    BY <1>2 DEF Message
  <1> QED BY <1>1, <1>3 DEF Finish, Settle, WithError, Complete, Message

(* Two revisions of the last message are one. *)
LEMMA RevisedTwice ==
  ASSUME NEW a \in Seq(Message), NEW b, NEW c, NEW m, NEW n,
         Revised(a, b, m), Revised(b, c, n), a # <<>> /\ a[Len(a)].from = "assistant" => m.from = "assistant"
  PROVE  Revised(a, c, n)
  BY DEF Revised

(* Every callback that ends an answer applies what waits and revises the   *)
(* answer once more.                                                       *)
LEMMA ReviseFlushed ==
  ASSUME NEW c \in Chats, NEW f \in [ToSet(FlushStreamUpdates(c).messages) -> Message]
  PROVE  LET d == FlushStreamUpdates(c)
         IN  Revised(c.messages, UpdateLastAssistantMessage(d.messages, f),
                     f[Chunked(c.messages[Len(c.messages)], c.pending)])
  <1> DEFINE d == FlushStreamUpdates(c)
             ms == c.messages
             u == UpdateLastAssistantMessage(d.messages, f)
             m == Chunked(ms[Len(ms)], c.pending)
  <1>1. d \in Chats /\ Revised(ms, d.messages, m)
    BY FlushFields DEF Chunked
  <1>2. d.messages \in Seq(Message) /\ ms \in Seq(Message) /\ c.pending \in Text
    BY <1>1 DEF Chats
  <1>3. Revised(d.messages, u, f[d.messages[Len(d.messages)]])
    BY <1>2, UpdateLast
  <1> HIDE DEF d, u
  <1>4. CASE Len(ms) = 0
    BY <1>4, <1>1, <1>2, <1>3 DEF Revised, d, u
  <1>5. CASE Len(ms) # 0 /\ ms[Len(ms)].from = "assistant"
    <2>1. Len(ms) \in 1..Len(ms) /\ ms[Len(ms)] \in Message
      BY <1>5, <1>2
    <2>2. m.from = "assistant"
      BY <2>1, <1>5, <1>2, SameAuthor
    <2>3. d.messages[Len(d.messages)] = m
      BY <2>1, <1>1, <1>5 DEF Revised
    <2> QED BY <2>2, <2>3, <1>1, <1>2, <1>3, RevisedTwice DEF d, u
  <1>6. CASE Len(ms) # 0 /\ ms[Len(ms)].from # "assistant"
    BY <1>6, <1>1, <1>2, <1>3 DEF Revised, d, u
  <1> QED BY <1>4, <1>5, <1>6, <1>2

(* The end of a stream applies the buffer, completes the answer and rests. *)
LEMMA CompleteFields ==
  ASSUME NEW c \in Chats
  PROVE  LET d == HandleStreamComplete(c)
         IN  /\ d \in Chats
             /\ Revised(c.messages, d.messages, Finish(Chunked(c.messages[Len(c.messages)], c.pending)))
             /\ Rested(d) /\ SameStream(c, d) /\ SameRequest(c, d)
  <1> DEFINE e == FlushStreamUpdates(c)
  <1> DEFINE f == [m \in ToSet(e.messages) |-> IF IsFinal(m) THEN m ELSE Complete(m)]
  <1> DEFINE ns == UpdateLastAssistantMessage(e.messages, f)
  <1> DEFINE ms == c.messages
  <1> DEFINE n == Chunked(ms[Len(ms)], c.pending)
  <1>1. /\ e \in Chats /\ Revised(ms, e.messages, n)
        /\ e.pending = <<>> /\ e.flushTimer = FALSE /\ SameStream(c, e) /\ SameRequest(c, e)
    BY FlushFields DEF Chunked
  <1>2. e.messages \in Seq(Message) /\ ms \in Seq(Message)
    BY <1>1 DEF Chats
  <1>3. f \in [ToSet(e.messages) -> Message]
    BY <1>2, FinishedIsMessage, ElementIsMessage
  <1>4. Revised(ms, ns, f[n])
    BY <1>3, ReviseFlushed
  <1>5. Revised(ms, ns, Finish(n))
    <2>1. CASE Len(ms) = 0 \/ ms[Len(ms)].from # "assistant"
      BY <2>1, <1>4 DEF Revised
    <2>2. CASE Len(ms) # 0 /\ ms[Len(ms)].from = "assistant"
      <3>1. e.messages[Len(e.messages)] = n /\ Len(e.messages) \in 1..Len(e.messages)
        BY <1>1, <1>2, <2>2 DEF Revised
      <3>2. n \in ToSet(e.messages)
        BY <3>1, <1>2 DEF ToSet
      <3> QED BY <3>2, <1>4 DEF Finish
    <2> QED BY <2>1, <2>2
  <1>6. HandleStreamComplete(c) = [e EXCEPT !.isRequesting = FALSE, !.messages = ns, !.saveTimer = TRUE]
    BY DEF HandleStreamComplete, UpdateMessages
  <1>7. ns \in Seq(Message)
    BY <1>5 DEF Revised
  <1> HIDE DEF e, ns, f, n
  <1> QED BY <1>1, <1>5, <1>6, <1>7 DEF Chats, Rested, SameStream, SameRequest, n

(* An error applies the buffer, marks the answer and rests. *)
LEMMA ErrorFields ==
  ASSUME NEW c \in Chats
  PROVE  LET d == HandleStreamError(c)
         IN  /\ d \in Chats
             /\ Revised(c.messages, d.messages, WithError(Chunked(c.messages[Len(c.messages)], c.pending)))
             /\ Rested(d) /\ SameStream(c, d) /\ SameRequest(c, d)
  <1> DEFINE e == FlushStreamUpdates(c)
  <1> DEFINE f == [m \in ToSet(e.messages) |-> WithError(m)]
  <1> DEFINE ns == UpdateLastAssistantMessage(e.messages, f)
  <1> DEFINE ms == c.messages
  <1> DEFINE n == Chunked(ms[Len(ms)], c.pending)
  <1>1. /\ e \in Chats /\ Revised(ms, e.messages, n)
        /\ e.pending = <<>> /\ e.flushTimer = FALSE /\ SameStream(c, e) /\ SameRequest(c, e)
    BY FlushFields DEF Chunked
  <1>2. e.messages \in Seq(Message) /\ ms \in Seq(Message)
    BY <1>1 DEF Chats
  <1>3. f \in [ToSet(e.messages) -> Message]
    BY <1>2, FinishedIsMessage, ElementIsMessage
  <1>4. Revised(ms, ns, f[n])
    BY <1>3, ReviseFlushed
  <1>5. Revised(ms, ns, WithError(n))
    <2>1. CASE Len(ms) = 0 \/ ms[Len(ms)].from # "assistant"
      BY <2>1, <1>4 DEF Revised
    <2>2. CASE Len(ms) # 0 /\ ms[Len(ms)].from = "assistant"
      <3>1. e.messages[Len(e.messages)] = n /\ Len(e.messages) \in 1..Len(e.messages)
        BY <1>1, <1>2, <2>2 DEF Revised
      <3>2. n \in ToSet(e.messages)
        BY <3>1, <1>2 DEF ToSet
      <3> QED BY <3>2, <1>4
    <2> QED BY <2>1, <2>2
  <1>6. HandleStreamError(c) = [e EXCEPT !.isRequesting = FALSE, !.messages = ns, !.saveTimer = TRUE]
    BY DEF HandleStreamError, UpdateMessages
  <1>7. ns \in Seq(Message)
    BY <1>5 DEF Revised
  <1> HIDE DEF e, ns, f, n
  <1> QED BY <1>1, <1>5, <1>6, <1>7 DEF Chats, Rested, SameStream, SameRequest, n

(* closeActiveStream.                                                      *)
LEMMA CloseFields ==
  ASSUME NEW c \in Chats, NEW r
  PROVE  LET d == CloseActiveStream(c, r)
         IN  /\ d \in Chats /\ ClosedStream(c, d, r) /\ SameRequest(c, d)
             /\ d.messages = c.messages /\ d.saveTimer = c.saveTimer
             /\ d.pending = c.pending /\ d.flushTimer = c.flushTimer
             /\ d.complete = c.complete /\ d.isRequesting = c.isRequesting
  BY DEF CloseActiveStream, Chats, ClosedStream, SameRequest

(* The message [DONE].                                                     *)
LEMMA DoneFields ==
  ASSUME NEW c \in Chats, NEW r
  PROVE  LET d == HandleDone(c, r)
         IN  /\ d \in Chats
             /\ Revised(c.messages, d.messages, Finish(Chunked(c.messages[Len(c.messages)], c.pending)))
             /\ Rested(d) /\ ClosedStream(c, d, r) /\ SameRequest(c, d) /\ d.complete = TRUE
  <1> DEFINE b == [c EXCEPT !.complete = TRUE]
  <1> DEFINE e == CloseActiveStream(b, r)
  <1> DEFINE d == HandleStreamComplete(e)
  <1>1. b \in Chats
    BY DEF Chats
  <1>2. /\ e \in Chats /\ ClosedStream(b, e, r) /\ SameRequest(b, e)
        /\ e.messages = b.messages /\ e.pending = b.pending /\ e.complete = b.complete
    BY <1>1, CloseFields
  <1>3. /\ e.messages = c.messages /\ e.pending = c.pending /\ e.complete = TRUE
        /\ ClosedStream(c, e, r) /\ SameRequest(c, e)
    BY <1>2 DEF Chats, ClosedStream, SameRequest
  <1> HIDE DEF e
  <1>4. /\ d \in Chats /\ Rested(d) /\ SameStream(e, d) /\ SameRequest(e, d)
        /\ Revised(e.messages, d.messages, Finish(Chunked(e.messages[Len(e.messages)], e.pending)))
    BY <1>2, CompleteFields
  <1>5. HandleDone(c, r) = d
    BY DEF HandleDone, e
  <1> HIDE DEF d
  <1> QED BY <1>3, <1>4, <1>5 DEF ClosedStream, SameRequest, SameStream

(* An error of the stream, not handled as ended.                           *)
LEMMA FailFields ==
  ASSUME NEW c \in Chats, NEW r
  PROVE  LET d == CloseActiveStream(HandleStreamError(c), r)
         IN  /\ d \in Chats
             /\ Revised(c.messages, d.messages, WithError(Chunked(c.messages[Len(c.messages)], c.pending)))
             /\ Rested(d) /\ ClosedStream(c, d, r) /\ SameRequest(c, d) /\ d.complete = c.complete
  <1> DEFINE e == HandleStreamError(c)
  <1> DEFINE d == CloseActiveStream(e, r)
  <1>1. /\ e \in Chats /\ Rested(e) /\ SameStream(c, e) /\ SameRequest(c, e)
        /\ Revised(c.messages, e.messages, WithError(Chunked(c.messages[Len(c.messages)], c.pending)))
    BY ErrorFields
  <1> HIDE DEF e
  <1>2. /\ d \in Chats /\ ClosedStream(e, d, r) /\ SameRequest(e, d)
        /\ d.messages = e.messages /\ d.saveTimer = e.saveTimer
        /\ d.pending = e.pending /\ d.flushTimer = e.flushTimer
        /\ d.complete = e.complete /\ d.isRequesting = e.isRequesting
    BY <1>1, CloseFields
  <1> HIDE DEF d
  <1> QED BY <1>1, <1>2 DEF ClosedStream, SameRequest, SameStream, Rested, d, e

(* sendChat: a stream that starts, one that does not, and a request for a  *)
(* whole answer.                                                           *)
LEMMA StartFields ==
  ASSUME NEW c \in Chats, NEW r \in Nat \ {0}, config.stream
  PROVE  LET d == SendChat(c, r, TRUE)
         IN  /\ d \in Chats /\ SameRequest(c, d)
             /\ d.messages = c.messages /\ d.saveTimer = c.saveTimer
             /\ d.pending = c.pending /\ d.flushTimer = c.flushTimer
             /\ d.open = (c.open \ {c.source}) \cup {r} /\ d.source = r
             /\ d.complete = FALSE /\ d.isStreaming = TRUE /\ d.isRequesting = TRUE
  BY DEF SendChat, SendStreamingChat, SendStreamRequest, Chats, SameRequest

(* A stream that cannot be started marks the answer and leaves no stream. *)
LEMMA NoStartFields ==
  ASSUME NEW c \in Chats, NEW r \in Nat \ {0}, config.stream
  PROVE  LET d == SendChat(c, r, FALSE)
         IN  /\ d \in Chats /\ Rested(d) /\ SameRequest(c, d)
             /\ Revised(c.messages, d.messages, WithError(Chunked(c.messages[Len(c.messages)], c.pending)))
             /\ d.open = (c.open \ {c.source}) \ {r} /\ d.source = 0
             /\ d.complete = FALSE /\ d.isStreaming = FALSE
  <1> DEFINE e == SendChat(c, r, TRUE)
  <1>1. /\ e \in Chats /\ SameRequest(c, e) /\ e.messages = c.messages /\ e.pending = c.pending
        /\ e.open = (c.open \ {c.source}) \cup {r} /\ e.source = r /\ e.complete = FALSE
    BY StartFields
  <1>2. SendChat(c, r, FALSE) = CloseActiveStream(HandleStreamError(e), r)
    BY DEF SendChat, SendStreamingChat, SendStreamRequest
  <1> HIDE DEF e
  <1> DEFINE d == CloseActiveStream(HandleStreamError(e), r)
  <1>3. /\ d \in Chats /\ Rested(d) /\ ClosedStream(e, d, r) /\ SameRequest(e, d) /\ d.complete = e.complete
        /\ Revised(e.messages, d.messages, WithError(Chunked(e.messages[Len(e.messages)], e.pending)))
    BY <1>1, FailFields
  <1> HIDE DEF d
  <1> QED BY <1>1, <1>2, <1>3 DEF SameRequest, ClosedStream, d

(* A request for a whole answer becomes the current one. *)
LEMMA SendFields ==
  ASSUME NEW c \in Chats, NEW r \in Nat \ {0}, ~config.stream
  PROVE  LET d == SendChat(c, r, TRUE)
         IN  /\ d \in Chats /\ d.messages = c.messages /\ d.saveTimer = c.saveTimer
             /\ d.pending = c.pending /\ d.flushTimer = c.flushTimer
             /\ d.source = c.source /\ d.isStreaming = c.isStreaming /\ d.complete = c.complete
             /\ d.requestId = r /\ d.abortController = r /\ d.isRequesting = TRUE
             /\ d.open = c.open \cup {r} /\ d.aborted = c.aborted
  BY DEF SendChat, SendNonStreamingChat, Chats

(* The records that the last assignments of a stop and of a response make. *)
LEMMA StoppedIsChat ==
  ASSUME NEW c \in Chats, NEW a \in SUBSET Nat, NEW ms \in Seq(Message)
  PROVE  [c EXCEPT !.aborted = a, !.abortController = 0, !.isRequesting = FALSE,
                   !.messages = ms, !.saveTimer = TRUE] \in Chats
  BY DEF Chats

(* Forgetting the current request gives a state of the chat. *)
LEMMA SettledIsChat ==
  ASSUME NEW c \in Chats
  PROVE  [c EXCEPT !.abortController = 0, !.isRequesting = FALSE] \in Chats
  BY DEF Chats

(* stopGeneration.                                                         *)
LEMMA StopFields ==
  ASSUME NEW c \in Chats
  PROVE  LET d == StopGeneration(c)
         IN  /\ d \in Chats /\ Rested(d)
             /\ Revised(c.messages, d.messages, Settle(Chunked(c.messages[Len(c.messages)], c.pending)))
             /\ d.open = c.open \ {c.source} /\ d.source = 0 /\ d.isStreaming = FALSE /\ d.complete = c.complete
             /\ d.aborted = c.aborted \cup ({c.abortController} \ {0})
             /\ d.abortController = 0 /\ d.requestId = c.requestId
  <1> DEFINE b == CloseActiveStream(c, c.source)
  <1> DEFINE e == FlushStreamUpdates(b)
  <1> DEFINE f == [m \in ToSet(e.messages) |-> IF IsPending(m) THEN Complete(m) ELSE m]
  <1> DEFINE ns == UpdateLastAssistantMessage(e.messages, f)
  <1> DEFINE ms == c.messages
  <1> DEFINE n == Chunked(ms[Len(ms)], c.pending)
  <1>0. /\ b \in Chats /\ ClosedStream(c, b, c.source) /\ SameRequest(c, b) /\ b.complete = c.complete
        /\ b.messages = ms /\ b.pending = c.pending
    BY CloseFields
  <1> HIDE DEF b
  <1>1. /\ e \in Chats /\ Revised(ms, e.messages, n)
        /\ e.pending = <<>> /\ e.flushTimer = FALSE /\ SameStream(b, e) /\ SameRequest(b, e)
    BY <1>0, FlushFields DEF Chunked
  <1>2. e.messages \in Seq(Message) /\ ms \in Seq(Message)
    BY <1>1 DEF Chats
  <1>3. f \in [ToSet(e.messages) -> Message]
    BY <1>2, FinishedIsMessage, ElementIsMessage
  <1>4. Revised(ms, ns, f[n])
    BY <1>0, <1>3, ReviseFlushed
  <1>5. Revised(ms, ns, Settle(n))
    <2>1. CASE Len(ms) = 0 \/ ms[Len(ms)].from # "assistant"
      BY <2>1, <1>4 DEF Revised
    <2>2. CASE Len(ms) # 0 /\ ms[Len(ms)].from = "assistant"
      <3>1. e.messages[Len(e.messages)] = n /\ Len(e.messages) \in 1..Len(e.messages)
        BY <1>1, <1>2, <2>2 DEF Revised
      <3>2. n \in ToSet(e.messages)
        BY <3>1, <1>2 DEF ToSet
      <3> QED BY <3>2, <1>4 DEF Settle
    <2> QED BY <2>1, <2>2
  <1>6. StopGeneration(c) =
          [e EXCEPT !.aborted = @ \cup ({e.abortController} \ {0}), !.abortController = 0,
                    !.isRequesting = FALSE, !.messages = ns, !.saveTimer = TRUE]
    BY DEF StopGeneration, UpdateMessages, b
  <1>7. ns \in Seq(Message)
    BY <1>5 DEF Revised
  <1> HIDE DEF e, ns, f, n
  <1>8. /\ e.abortController = c.abortController /\ e.aborted = c.aborted /\ e.requestId = c.requestId
        /\ e.open = c.open \ {c.source} /\ e.source = 0 /\ e.isStreaming = FALSE /\ e.complete = c.complete
    BY <1>0, <1>1 DEF SameRequest, SameStream, ClosedStream
  <1> DEFINE a == e.aborted \cup ({e.abortController} \ {0})
  <1>b. a \in SUBSET Nat
    BY <1>1 DEF Chats
  <1>9. StopGeneration(c) \in Chats
    <2> HIDE DEF a
    <2>1. StopGeneration(c) = [e EXCEPT !.aborted = a, !.abortController = 0,
                                        !.isRequesting = FALSE, !.messages = ns, !.saveTimer = TRUE]
      BY <1>6 DEF a
    <2>2. e \in Chats /\ a \in SUBSET Nat /\ ns \in Seq(Message)
      BY <1>1, <1>b, <1>7
    <2>3. [e EXCEPT !.aborted = a, !.abortController = 0, !.isRequesting = FALSE,
                    !.messages = ns, !.saveTimer = TRUE] \in Chats
      BY <2>2, StoppedIsChat
    <2> QED BY <2>1, <2>3
  <1> QED BY <1>1, <1>5, <1>6, <1>8, <1>9 DEF Chats, Rested, n

(* The response to a request for a whole answer; nothing waits to be       *)
(* flushed then.                                                           *)
Given(m, r) == [m EXCEPT !.status = "complete", !.text = << <<r, 1>> >>]

Responded(c, d, r, outcome) ==
    LET m == c.messages[Len(c.messages)]
    IN  /\ d \in Chats
        /\ d.source = c.source /\ d.isStreaming = c.isStreaming
        /\ d.open = c.open \ {r} /\ d.pending = <<>>
        /\ d.requestId = c.requestId /\ d.aborted = c.aborted
        /\ d.abortController = IF c.requestId = r THEN 0 ELSE c.abortController
        /\ d.isRequesting \in {c.isRequesting, FALSE} /\ (c.requestId = r => d.isRequesting = FALSE)
        /\ r \in c.aborted =>
             /\ d.messages = c.messages /\ d.saveTimer = c.saveTimer
             /\ c.requestId # r => d.isRequesting = c.isRequesting
        /\ r \notin c.aborted =>
             /\ Revised(c.messages, d.messages, IF outcome = "choice" THEN Given(m, r) ELSE WithError(m))
             /\ d.saveTimer = TRUE

(* What a response does, by its outcome and whether it was aborted. *)
LEMMA AnsweredFields ==
  ASSUME NEW c \in Chats, NEW r \in Requests, NEW outcome, c.pending = <<>>
  PROVE  Responded(c, Answered(c, r, outcome), r, outcome)
  <1> DEFINE f == [m \in ToSet(c.messages) |-> Given(m, r)]
             ns == UpdateLastAssistantMessage(c.messages, f)
             ms == c.messages
             e == HandleStreamError(c)
             applied == IF r \in c.aborted THEN c
                        ELSE IF outcome = "choice" THEN UpdateMessages(c, ns) ELSE e
             settled == [applied EXCEPT !.open = @ \ {r}]
  <1>1. ms \in Seq(Message)
    BY DEF Chats
  <1>2. f \in [ToSet(ms) -> Message]
    <2> SUFFICES ASSUME NEW m \in Message PROVE Given(m, r) \in Message
      BY <1>1, ElementIsMessage
    <2>1. << <<r, 1>> >> \in Seq((0..MaxRequests) \X Nat)
      BY PlaygroundAssumption DEF Requests
    <2> QED BY <2>1 DEF Given, Message
  <1>3. Revised(ms, ns, f[ms[Len(ms)]])
    BY <1>1, <1>2, UpdateLast
  <1>4. Revised(ms, ns, Given(ms[Len(ms)], r))
    <2>1. CASE Len(ms) = 0
      BY <2>1, <1>3 DEF Revised
    <2>2. CASE Len(ms) # 0
      BY <2>2, <1>3, <1>1 DEF ToSet
    <2> QED BY <2>1, <2>2
  <1>5. ns \in Seq(Message)
    BY <1>4 DEF Revised
  <1>6. /\ e \in Chats /\ Rested(e) /\ SameStream(c, e) /\ SameRequest(c, e)
        /\ Revised(ms, e.messages, WithError(ms[Len(ms)]))
    BY ErrorFields DEF Chunked
  <1>7. Answered(c, r, outcome) =
          IF c.requestId = r THEN [settled EXCEPT !.abortController = 0, !.isRequesting = FALSE] ELSE settled
    BY DEF Answered, Given
  <1> HIDE DEF f, ns, e
  <1>8. /\ applied \in Chats /\ SameStream(c, applied) /\ SameRequest(c, applied) /\ applied.pending = <<>>
        /\ applied.isRequesting \in {c.isRequesting, FALSE}
        /\ r \in c.aborted => applied = c
        /\ r \notin c.aborted /\ outcome = "choice" =>
              Revised(ms, applied.messages, Given(ms[Len(ms)], r)) /\ applied.saveTimer = TRUE
        /\ r \notin c.aborted /\ outcome # "choice" =>
              Revised(ms, applied.messages, WithError(ms[Len(ms)])) /\ applied.saveTimer = TRUE
    <2>1. CASE r \in c.aborted
      BY <2>1 DEF SameStream, SameRequest
    <2>2. CASE r \notin c.aborted /\ outcome = "choice"
      BY <2>2, <1>4, <1>5 DEF SameStream, SameRequest, UpdateMessages, Chats
    <2>3. CASE r \notin c.aborted /\ outcome # "choice"
      BY <2>3, <1>6 DEF Rested
    <2> QED BY <2>1, <2>2, <2>3
  <1> HIDE DEF applied
  <1>10. /\ settled.messages = applied.messages /\ settled.saveTimer = applied.saveTimer
         /\ settled.isRequesting = applied.isRequesting /\ settled.open = c.open \ {r}
         /\ settled.abortController = c.abortController
         /\ settled \in Chats
         /\ settled.source = c.source /\ settled.isStreaming = c.isStreaming /\ settled.complete = c.complete
         /\ settled.requestId = c.requestId /\ settled.aborted = c.aborted /\ settled.pending = <<>>
    BY <1>8 DEF Chats, SameStream, SameRequest
  <1> HIDE DEF settled
  <1>9. Answered(c, r, outcome) \in Chats
    BY <1>7, <1>10, SettledIsChat
  <1>11. CASE c.requestId = r
    BY <1>11, <1>7, <1>8, <1>9, <1>10 DEF Chats, Responded
  <1>12. CASE c.requestId # r
    BY <1>12, <1>7, <1>8, <1>9, <1>10 DEF Responded
  <1> QED BY <1>11, <1>12

----------------------------------------------------------------------------
(* Lists of messages.                                                      *)

(* A part of a list, and what it holds.                                    *)
LEMMA PartOf ==
  ASSUME NEW ms \in Seq(Message), NEW a \in 1..Len(ms) + 1, NEW b \in 0..Len(ms), a <= b + 1
  PROVE  LET p == SubSeq(ms, a, b)
         IN  /\ p \in Seq(Message) /\ Len(p) = b + 1 - a
             /\ \A i \in 1..Len(p) : p[i] = ms[a + i - 1]
  <1>1. a \in Int /\ b \in Int /\ Len(ms) \in Nat /\ \A i \in a..b : ms[i] \in Message
    OBVIOUS
  <1>2. /\ SubSeq(ms, a, b) \in Seq(Message)
        /\ Len(SubSeq(ms, a, b)) = IF a <= b THEN b - a + 1 ELSE 0
        /\ \A i \in 1..b - a + 1 : SubSeq(ms, a, b)[i] = ms[a + i - 1]
    BY <1>1, SubSeqProperties
  <1> QED BY <1>1, <1>2

(* The end of a list, without its first k messages.                        *)
EndOf(ms, p, k) ==
    /\ p \in Seq(Message) /\ Len(ms) = k + Len(p)
    /\ \A i \in 1..Len(p) : p[i] = ms[k + i]

(* Trimming keeps an end of the list, not longer than the limit. *)
LEMMA TrimIsEnd ==
  ASSUME NEW ms \in Seq(Message)
  PROVE  /\ \E k \in Nat : EndOf(ms, TrimMessages(ms), k)
         /\ Len(TrimMessages(ms)) <= MaxStored
         /\ ms # <<>> => TrimMessages(ms) # <<>>
         /\ Len(ms) <= MaxStored => TrimMessages(ms) = ms
  <1>1. CASE Len(ms) <= MaxStored
    <2>1. TrimMessages(ms) = ms /\ Len(ms) \in Nat
      BY <1>1 DEF TrimMessages
    <2>2. EndOf(ms, ms, 0)
      BY DEF EndOf
    <2> QED BY <2>1, <2>2, <1>1
  <1>2. CASE ~(Len(ms) <= MaxStored)
    <2> DEFINE a == Len(ms) - MaxStored + 1
               p == SubSeq(ms, a, Len(ms))
    <2>1. a \in 1..Len(ms) + 1 /\ Len(ms) \in 0..Len(ms) /\ a <= Len(ms) + 1
      BY <1>2, PlaygroundAssumption
    <2>2. p \in Seq(Message) /\ Len(p) = Len(ms) + 1 - a /\ \A i \in 1..Len(p) : p[i] = ms[a + i - 1]
      BY <2>1, PartOf
    <2>3. TrimMessages(ms) = p
      BY <1>2 DEF TrimMessages
    <2> HIDE DEF p
    <2>4. Len(p) = MaxStored /\ Len(ms) - MaxStored \in Nat
      BY <2>2, <1>2, PlaygroundAssumption
    <2>5. EndOf(ms, p, Len(ms) - MaxStored)
      BY <2>2, <2>4, PlaygroundAssumption DEF EndOf
    <2> QED BY <2>3, <2>4, <2>5, <1>2, PlaygroundAssumption
  <1> QED BY <1>1, <1>2

(* A conversation that ends in a new loading answer.                       *)
Submitted(before, ms, news) ==
    /\ ms \in Seq(Message) /\ Len(ms) = Len(before) + news + 1
    /\ \A i \in 1..Len(before) : ms[i] = before[i]
    /\ \A i \in Len(before) + 1..Len(before) + news : ms[i] = UserMessage(count.messages + (i - Len(before)))
    /\ ms[Len(ms)] = LoadingAssistantMessage(count.messages + news + 1, count.requests + 1)

(* The list that is sent: what comes before, the new messages, a pending answer. *)
LEMMA SubmitList ==
  ASSUME NEW before \in Seq(Message), NEW news \in Nat, count.messages \in Nat, count.requests + 1 \in Requests
  PROVE  Submitted(before, before \o [i \in 1..news |-> UserMessage(count.messages + i)]
                     \o <<LoadingAssistantMessage(count.messages + news + 1, count.requests + 1)>>, news)
  <1> DEFINE us == [i \in 1..news |-> UserMessage(count.messages + i)]
             last == LoadingAssistantMessage(count.messages + news + 1, count.requests + 1)
             one == <<last>>
             bs == before \o us
             ms == bs \o one
  <1>1. \A i \in 1..news : UserMessage(count.messages + i) \in Message
    BY LocalIsText, PlaygroundAssumption DEF UserMessage, Message, Text
  <1>2. us \in Seq(Message) /\ Len(us) = news
    BY <1>1
  <1>3. last \in Message
    BY PlaygroundAssumption DEF LoadingAssistantMessage, Message, Requests
  <1>4. \A i \in 1..news : us[i] = UserMessage(count.messages + i)
    OBVIOUS
  <1> HIDE DEF us, last
  <1>5. one \in Seq(Message) /\ Len(one) = 1 /\ one[1] = last
    BY <1>3
  <1> HIDE DEF one
  <1>6. /\ bs \in Seq(Message) /\ Len(bs) = Len(before) + news
        /\ \A i \in 1..Len(before) + news : bs[i] = IF i <= Len(before) THEN before[i] ELSE us[i - Len(before)]
    BY <1>2, ConcatProperties
  <1> HIDE DEF bs
  <1>a. bs \in Seq(Message) /\ one \in Seq(Message)
    BY <1>5, <1>6
  <1>b. /\ ms \in Seq(Message) /\ Len(ms) = Len(bs) + Len(one)
        /\ \A i \in 1..Len(bs) + Len(one) : ms[i] = IF i <= Len(bs) THEN bs[i] ELSE one[i - Len(bs)]
    BY <1>a, ConcatProperties
  <1>7. /\ ms \in Seq(Message) /\ Len(ms) = Len(bs) + 1
        /\ \A i \in 1..Len(bs) + 1 : ms[i] = IF i <= Len(bs) THEN bs[i] ELSE one[i - Len(bs)]
    BY <1>5, <1>b
  <1> HIDE DEF ms
  <1>8. Len(before) \in Nat /\ Len(bs) \in Nat /\ Len(ms) \in Nat
    BY <1>6, <1>7
  <1>9. \A i \in 1..Len(before) : ms[i] = before[i]
    BY <1>6, <1>7, <1>8
  <1>10. \A i \in Len(before) + 1..Len(before) + news : ms[i] = UserMessage(count.messages + (i - Len(before)))
    <2> SUFFICES ASSUME NEW i \in Len(before) + 1..Len(before) + news
                 PROVE  ms[i] = UserMessage(count.messages + (i - Len(before)))
      OBVIOUS
    <2>1. ms[i] = bs[i] /\ bs[i] = us[i - Len(before)] /\ i - Len(before) \in 1..news
      BY <1>6, <1>7, <1>8
    <2> QED BY <2>1, <1>4
  <1>11. ms[Len(ms)] = last
    BY <1>5, <1>7, <1>8
  <1> QED BY <1>6, <1>7, <1>9, <1>10, <1>11 DEF Submitted, ms, bs, us, one, last

(* A message with the text of an edit is a message. *)
LEMMA RewrittenIsMessage ==
  ASSUME NEW m \in Message PROVE [m EXCEPT !.text = Local] \in Message
  BY LocalIsText DEF Message, Text

(* The message that the editor has open is rewritten.                      *)
LEMMA EditedList ==
  ASSUME NEW ms \in Seq(Message), NEW key, HasKey(ms, key)
  PROVE  LET k == IndexOf(ms, key)
             es == [ms EXCEPT ![k].text = Local]
         IN  /\ k \in 1..Len(ms) /\ ms[k].key = key
             /\ es \in Seq(Message) /\ Len(es) = Len(ms)
             /\ \A i \in 1..Len(ms) : es[i] = IF i = k THEN [ms[i] EXCEPT !.text = Local] ELSE ms[i]
  <1> DEFINE k == IndexOf(ms, key)
             m == [ms[k] EXCEPT !.text = Local]
  <1>1. DOMAIN ms = 1..Len(ms)
    OBVIOUS
  <1>2. k \in 1..Len(ms) /\ ms[k].key = key
    BY <1>1 DEF HasKey, IndexOf
  <1>3. m \in Message
    BY <1>2, RewrittenIsMessage
  <1> HIDE DEF m, k
  <1>4. /\ [ms EXCEPT ![k] = m] \in Seq(Message) /\ Len([ms EXCEPT ![k] = m]) = Len(ms)
        /\ \A i \in 1..Len(ms) : [ms EXCEPT ![k] = m][i] = IF i = k THEN m ELSE ms[i]
    BY <1>2, <1>3, ExceptSeq
  <1> QED BY <1>2, <1>4 DEF m, k

(* A message is removed.                                                   *)
Removed(ms, ns, k) ==
    /\ ns \in Seq(Message) /\ Len(ns) = Len(ms) - 1
    /\ \A i \in 1..Len(ns) : ns[i] = IF i < k THEN ms[i] ELSE ms[i + 1]

(* Removing a key that occurs removes one message, otherwise none. *)
LEMMA RemovedList ==
  ASSUME NEW ms \in Seq(Message), NEW key
  PROVE  LET ns == RemoveMessageByKey(ms, key)
         IN  /\ ~HasKey(ms, key) => ns = ms
             /\ HasKey(ms, key) =>
                  \E k \in 1..Len(ms) : ms[k].key = key /\ Removed(ms, ns, k)
  <1> SUFFICES ASSUME HasKey(ms, key)
               PROVE  \E k \in 1..Len(ms) : ms[k].key = key /\ Removed(ms, RemoveMessageByKey(ms, key), k)
    BY DEF RemoveMessageByKey
  <1> DEFINE k == IndexOf(ms, key)
             p == SubSeq(ms, 1, k - 1)
             q == SubSeq(ms, k + 1, Len(ms))
             ns == p \o q
  <1>1. DOMAIN ms = 1..Len(ms)
    OBVIOUS
  <1>2. k \in 1..Len(ms) /\ ms[k].key = key
    BY <1>1 DEF HasKey, IndexOf
  <1> HIDE DEF k
  <1>3. 1 \in 1..Len(ms) + 1 /\ k - 1 \in 0..Len(ms) /\ k + 1 \in 1..Len(ms) + 1 /\ Len(ms) \in 0..Len(ms)
    BY <1>2
  <1>4. p \in Seq(Message) /\ Len(p) = k - 1 /\ \A i \in 1..Len(p) : p[i] = ms[1 + i - 1]
    BY <1>2, <1>3, PartOf
  <1>5. q \in Seq(Message) /\ Len(q) = Len(ms) - k /\ \A i \in 1..Len(q) : q[i] = ms[k + 1 + i - 1]
    BY <1>2, <1>3, PartOf
  <1> HIDE DEF p, q
  <1>6. /\ ns \in Seq(Message) /\ Len(ns) = Len(p) + Len(q)
        /\ \A i \in 1..Len(p) + Len(q) : ns[i] = IF i <= Len(p) THEN p[i] ELSE q[i - Len(p)]
    BY <1>4, <1>5, ConcatProperties
  <1>7. RemoveMessageByKey(ms, key) = ns
    BY DEF RemoveMessageByKey, RemoveAt, ns, p, q, k
  <1> HIDE DEF ns
  <1>8. Len(ns) = Len(ms) - 1
    BY <1>2, <1>4, <1>5, <1>6
  <1>9. \A i \in 1..Len(ns) : ns[i] = IF i < k THEN ms[i] ELSE ms[i + 1]
    <2> SUFFICES ASSUME NEW i \in 1..Len(ns) PROVE ns[i] = IF i < k THEN ms[i] ELSE ms[i + 1]
      OBVIOUS
    <2>1. CASE i < k
      BY <2>1, <1>2, <1>4, <1>5, <1>6, <1>8
    <2>2. CASE ~(i < k)
      <3>1. i - Len(p) \in 1..Len(q) /\ ~(i <= Len(p)) /\ k + 1 + (i - Len(p)) - 1 = i + 1
        BY <2>2, <1>2, <1>4, <1>5, <1>8
      <3>2. ns[i] = q[i - Len(p)]
        BY <3>1, <1>6, <1>4, <1>5
      <3> QED BY <3>1, <3>2, <1>5, <2>2
    <2> QED BY <2>1, <2>2
  <1> QED BY <1>2, <1>6, <1>7, <1>8, <1>9 DEF Removed

(* What is loaded is what was stored, with answers that were pending made  *)
(* final; all of them, if only the last one was.                           *)
OnlyLastPending(ms) ==
    \A i \in 1..Len(ms) : IsPending(ms[i]) => i = Len(ms) /\ ms[i].from = "assistant"

Final(m) == {m, Complete(m), WithError(m)}

(* What becomes of a completed message may become of the message. *)
LEMMA FinalTwice ==
  ASSUME NEW m \in Message, NEW n \in {m, Complete(m)}
  PROVE  Final(n) \subseteq Final(m)
  <1>1. Complete(Complete(m)) = Complete(m) /\ WithError(Complete(m)) = WithError(m)
    BY DEF Complete, WithError, Message
  <1> QED BY <1>1 DEF Final

(* A completed message and one with an error are not pending. *)
LEMMA NotPending ==
  ASSUME NEW m \in Message
  PROVE  ~IsPending(Complete(m)) /\ ~IsPending(WithError(m))
  BY DEF IsPending, Complete, WithError, Message

(* Loading completes the pending messages and keeps the others. *)
LEMMA SanitizedList ==
  ASSUME NEW ms \in Seq(Message)
  PROVE  LET ns == SanitizeMessagesOnLoad(ms)
         IN  /\ ns \in Seq(Message) /\ Len(ns) = Len(ms)
             /\ \A i \in 1..Len(ms) : ns[i] \in Final(ms[i])
             /\ OnlyLastPending(ms) => \A i \in 1..Len(ms) : ~IsPending(ns[i])
  <1> DEFINE stuck == {i \in DOMAIN ms : ms[i].from = "assistant" /\ IsPending(ms[i])}
             last == CHOOSE i \in stuck : \A j \in stuck : j <= i
             m == IF HasContent(ms[last]) THEN Complete(ms[last]) ELSE WithError(ms[last])
             ns == [ms EXCEPT ![last] = m]
  <1>1. DOMAIN ms = 1..Len(ms) /\ Len(ms) \in Nat
    OBVIOUS
  <1>2. CASE stuck = {}
    <2>1. SanitizeMessagesOnLoad(ms) = ms
      BY <1>2 DEF SanitizeMessagesOnLoad
    <2>2. OnlyLastPending(ms) => \A i \in 1..Len(ms) : ~IsPending(ms[i])
      BY <1>2, <1>1 DEF OnlyLastPending
    <2> HIDE DEF stuck
    <2> QED BY <2>1, <2>2 DEF Final
  <1>3. CASE stuck # {}
    <2>1. SanitizeMessagesOnLoad(ms) = ns
      BY <1>3 DEF SanitizeMessagesOnLoad
    <2>2. OnlyLastPending(ms) => last = Len(ms)
      <3> SUFFICES ASSUME OnlyLastPending(ms) PROVE last = Len(ms)
        OBVIOUS
      <3>1. stuck \subseteq {Len(ms)}
        BY <1>1 DEF OnlyLastPending
      <3>2. stuck = {Len(ms)}
        BY <3>1, <1>3
      <3> HIDE DEF stuck
      <3> QED BY <3>2, <1>1
    <2> HIDE DEF last, stuck
    <2>3. CASE last \in 1..Len(ms)
      <3>1. ms[last] \in Message
        BY <2>3
      <3>2. m \in Message /\ m \in Final(ms[last]) /\ ~IsPending(m)
        BY <3>1, FinishedIsMessage, NotPending DEF Final
      <3> HIDE DEF m
      <3>3. ns \in Seq(Message) /\ Len(ns) = Len(ms) /\ \A i \in 1..Len(ms) : ns[i] = IF i = last THEN m ELSE ms[i]
        BY <3>2, <2>3, ExceptSeq
      <3> HIDE DEF ns
      <3>4. \A i \in 1..Len(ms) : ns[i] \in Final(ms[i])
        BY <3>2, <3>3 DEF Final
      <3>5. OnlyLastPending(ms) => \A i \in 1..Len(ms) : ~IsPending(ns[i])
        BY <3>2, <3>3, <2>2 DEF OnlyLastPending
      <3> QED BY <2>1, <3>3, <3>4, <3>5 DEF ns
    <2>4. CASE last \notin 1..Len(ms)
      <3> HIDE DEF m
      <3>1. ns = ms
        BY <2>4, <1>1
      <3>2. ~(Len(ms) \in 1..Len(ms)) => Len(ms) = 0
        BY <1>1
      <3>3. OnlyLastPending(ms) => \A i \in 1..Len(ms) : ~IsPending(ms[i])
        BY <3>2, <2>4, <2>2, <1>1
      <3> QED BY <2>1, <3>1, <3>3 DEF Final
    <2> QED BY <2>3, <2>4
  <1> QED BY <1>2, <1>3

Loaded(ms, ns, k) ==
    /\ ns \in Seq(Message) /\ Len(ms) = k + Len(ns) /\ Len(ns) <= MaxStored
    /\ \A i \in 1..Len(ns) : ns[i] \in Final(ms[k + i])
    /\ OnlyLastPending(ms) => \A i \in 1..Len(ns) : ~IsPending(ns[i])

(* What is loaded is an end of what was stored, with its messages completed. *)
LEMMA LoadedList ==
  ASSUME NEW ms \in Seq(Message), NEW ns \in LoadMessages(ms)
  PROVE  \E k \in Nat : Loaded(ms, ns, k)
  <1> DEFINE normal == [i \in DOMAIN ms |-> NormalizeStored(ms[i])]
             trimmed == TrimMessages(normal)
  <1>1. CASE ms = <<>>
    <2>1. ns = <<>>
      BY <1>1 DEF LoadMessages
    <2>2. Loaded(ms, ns, 0)
      BY <2>1, <1>1, PlaygroundAssumption DEF Loaded
    <2> QED BY <2>2
  <1>2. CASE ms # <<>>
    <2>1. /\ \A i \in 1..Len(ms) : NormalizeStored(ms[i]) \in Message
          /\ \A i \in 1..Len(ms) : NormalizeStored(ms[i]) \in {ms[i], Complete(ms[i])}
          /\ \A i \in 1..Len(ms) : IsPending(NormalizeStored(ms[i])) => NormalizeStored(ms[i]) = ms[i]
      BY FinishedIsMessage, NotPending DEF NormalizeStored
    <2>2. /\ normal \in Seq(Message) /\ Len(normal) = Len(ms)
          /\ \A i \in 1..Len(ms) : normal[i] \in {ms[i], Complete(ms[i])} /\ (IsPending(normal[i]) => normal[i] = ms[i])
      BY <2>1
    <2>3. PICK i \in DOMAIN trimmed : ns = SanitizeMessagesOnLoad(SubSeq(trimmed, i, Len(trimmed)))
      BY <1>2 DEF LoadMessages
    <2> HIDE DEF normal
    <2>4. PICK k \in Nat : EndOf(normal, trimmed, k)
      BY <2>2, TrimIsEnd
    <2>5. Len(trimmed) <= MaxStored /\ trimmed \in Seq(Message)
      BY <2>2, <2>4, TrimIsEnd DEF EndOf
    <2> HIDE DEF trimmed
    <2> DEFINE p == SubSeq(trimmed, i, Len(trimmed))
    <2>6. i \in 1..Len(trimmed) + 1 /\ Len(trimmed) \in 0..Len(trimmed) /\ i <= Len(trimmed) + 1 /\ i \in 1..Len(trimmed)
      BY <2>5
    <2>7. p \in Seq(Message) /\ Len(p) = Len(trimmed) + 1 - i /\ \A j \in 1..Len(p) : p[j] = trimmed[i + j - 1]
      BY <2>5, <2>6, PartOf
    <2> HIDE DEF p
    <2> DEFINE h == k + i - 1
    <2>a. i \in Nat /\ 1 <= i /\ i <= Len(trimmed) /\ Len(trimmed) \in Nat /\ Len(p) \in Nat
      BY <2>5, <2>6, <2>7
    <2>b. Len(ms) = k + Len(trimmed) /\ Len(p) = Len(trimmed) + 1 - i /\ Len(trimmed) <= MaxStored
      BY <2>2, <2>4, <2>5, <2>7 DEF EndOf
    <2>8. h \in Nat /\ Len(ms) = h + Len(p) /\ Len(p) <= MaxStored /\ Len(p) \in Nat
      BY <2>a, <2>b, PlaygroundAssumption, SMTT(20)
    <2>9. \A j \in 1..Len(p) : p[j] = normal[h + j] /\ h + j \in 1..Len(ms)
      <3> SUFFICES ASSUME NEW j \in 1..Len(p) PROVE p[j] = normal[h + j] /\ h + j \in 1..Len(ms)
        OBVIOUS
      <3>1. i + j - 1 \in 1..Len(trimmed) /\ k + (i + j - 1) = h + j
        BY <2>a, <2>b
      <3>2. p[j] = trimmed[i + j - 1] /\ trimmed[i + j - 1] = normal[k + (i + j - 1)]
        BY <3>1, <2>4, <2>7 DEF EndOf
      <3> HIDE DEF h
      <3>3. h + j \in 1..Len(ms)
        BY <2>8
      <3>4. p[j] = normal[h + j]
        BY <3>1, <3>2
      <3> QED BY <3>3, <3>4
    <2>10. /\ ns \in Seq(Message) /\ Len(ns) = Len(p)
           /\ \A j \in 1..Len(p) : ns[j] \in Final(p[j])
           /\ OnlyLastPending(p) => \A j \in 1..Len(p) : ~IsPending(ns[j])
      BY <2>3, <2>7, SanitizedList DEF p
    <2>11. OnlyLastPending(ms) => OnlyLastPending(p)
      <3> SUFFICES ASSUME OnlyLastPending(ms), NEW j \in 1..Len(p), IsPending(p[j])
                   PROVE  j = Len(p) /\ p[j].from = "assistant"
        BY DEF OnlyLastPending
      <3>1. p[j] = ms[h + j] /\ h + j \in 1..Len(ms)
        BY <2>2, <2>9
      <3>2. h + j = Len(ms) /\ ms[h + j].from = "assistant"
        BY <3>1 DEF OnlyLastPending
      <3> QED BY <3>1, <3>2, <2>8
    <2>12. \A j \in 1..Len(p) : ns[j] \in Final(ms[h + j])
      <3> SUFFICES ASSUME NEW j \in 1..Len(p) PROVE ns[j] \in Final(ms[h + j])
        OBVIOUS
      <3>1. ms[h + j] \in Message /\ p[j] \in {ms[h + j], Complete(ms[h + j])}
        BY <2>2, <2>9
      <3> HIDE DEF h
      <3> QED BY <3>1, <2>10, FinalTwice
    <2> HIDE DEF h
    <2>13. Loaded(ms, ns, h)
      BY <2>8, <2>10, <2>11, <2>12 DEF Loaded
    <2> QED BY <2>8, <2>13
  <1> QED BY <1>1, <1>2

----------------------------------------------------------------------------
(* Types.                                                                  *)

Types ==
    /\ chat \in Chats /\ view \in Views
    /\ editing \in Nat /\ mounted \in BOOLEAN
    /\ config \in [stream : BOOLEAN, style : {"delta", "snapshot", "whole"}]
    /\ stored \in Seq(Message) /\ Len(stored) <= MaxStored /\ left \in Seq(Message)
    /\ count \in [requests : 0..MaxRequests, messages : Nat, mounts : Nat, edits : Nat]
    /\ full \in [Requests -> Text] /\ ended \subseteq Nat
    /\ crossed \in BOOLEAN /\ damaged \in BOOLEAN /\ faults \in Nat

(* The refs name requests that were made.                                  *)
RefsInv ==
    /\ chat.source <= count.requests /\ chat.requestId <= count.requests
    /\ chat.abortController <= count.requests
    /\ chat.open \subseteq 1..count.requests /\ chat.aborted \subseteq 1..count.requests
    /\ ended \subseteq 1..count.requests

(* Without streaming there is no stream.                                   *)
NoStreamInv ==
    ~config.stream => chat.isStreaming = FALSE /\ chat.source = 0 /\ chat.pending = <<>>

TypeInv == Types /\ RefsInv /\ NoStreamInv

----------------------------------------------------------------------------
(* What each action does, on the fields of chat.                           *)

(* d is c with other messages, which are to be saved.                      *)
Relisted(c, d, ms) ==
    /\ d \in Chats /\ d.messages = ms /\ d.saveTimer = TRUE
    /\ d.pending = c.pending /\ d.flushTimer = c.flushTimer /\ d.isRequesting = c.isRequesting
    /\ SameStream(c, d) /\ SameRequest(c, d)

(* A change of the list schedules a save and touches nothing else. *)
LEMMA UpdateFields ==
  ASSUME NEW c \in Chats, NEW ms \in Seq(Message)
  PROVE  Relisted(c, UpdateMessages(c, ms), ms)
  BY DEF UpdateMessages, Relisted, SameStream, SameRequest, Chats

(* Request r is sent with the messages ms, in one of three ways.           *)
Streams(c, d, ms, r) ==
    /\ SameRequest(c, d) /\ d.messages = ms /\ d.pending = c.pending
    /\ d.open = (c.open \ {c.source}) \cup {r} /\ d.source = r
    /\ d.complete = FALSE /\ d.isStreaming = TRUE /\ d.isRequesting = TRUE

Refused(c, d, ms, r) ==
    /\ Rested(d) /\ SameRequest(c, d)
    /\ Revised(ms, d.messages, WithError(Chunked(ms[Len(ms)], c.pending)))
    /\ d.open = (c.open \ {c.source}) \ {r} /\ d.source = 0
    /\ d.complete = FALSE /\ d.isStreaming = FALSE

Posts(c, d, ms, r) ==
    /\ d.messages = ms /\ d.pending = c.pending
    /\ d.source = c.source /\ d.isStreaming = c.isStreaming
    /\ d.requestId = r /\ d.abortController = r /\ d.isRequesting = TRUE
    /\ d.open = c.open \cup {r} /\ d.aborted = c.aborted

(* Sending streams, posts, or is refused at once. *)
LEMMA SendIsOneOf ==
  ASSUME NEW c \in Chats, NEW ms \in Seq(Message), NEW r \in Nat \ {0}
  PROVE  LET d == SendChat(UpdateMessages(c, ms), r, TRUE)
             e == SendChat(UpdateMessages(c, ms), r, FALSE)
         IN  /\ d \in Chats /\ d.saveTimer = TRUE
             /\ config.stream => Streams(c, d, ms, r)
             /\ ~config.stream => Posts(c, d, ms, r)
             /\ config.stream => e \in Chats /\ e.saveTimer = TRUE /\ Refused(c, e, ms, r)
  <1> DEFINE b == UpdateMessages(c, ms)
  <1>1. Relisted(c, b, ms)
    BY UpdateFields
  <1>2. b \in Chats /\ b.messages = ms
    BY <1>1 DEF Relisted
  <1> HIDE DEF b
  <1> DEFINE d == SendChat(b, r, TRUE)
             e == SendChat(b, r, FALSE)
  <1>3. config.stream => d \in Chats /\ d.saveTimer = TRUE /\ Streams(c, d, ms, r)
    <2> SUFFICES ASSUME config.stream PROVE d \in Chats /\ d.saveTimer = TRUE /\ Streams(c, d, ms, r)
      OBVIOUS
    <2>1. /\ d \in Chats /\ SameRequest(b, d)
          /\ d.messages = b.messages /\ d.saveTimer = b.saveTimer /\ d.pending = b.pending
          /\ d.open = (b.open \ {b.source}) \cup {r} /\ d.source = r
          /\ d.complete = FALSE /\ d.isStreaming = TRUE /\ d.isRequesting = TRUE
      BY <1>2, StartFields
    <2> HIDE DEF d
    <2> QED BY <2>1, <1>1 DEF Relisted, SameRequest, SameStream, Streams
  <1>4. config.stream => e \in Chats /\ e.saveTimer = TRUE /\ Refused(c, e, ms, r)
    <2> SUFFICES ASSUME config.stream PROVE e \in Chats /\ e.saveTimer = TRUE /\ Refused(c, e, ms, r)
      OBVIOUS
    <2>1. /\ e \in Chats /\ Rested(e) /\ SameRequest(b, e)
          /\ Revised(b.messages, e.messages, WithError(Chunked(b.messages[Len(b.messages)], b.pending)))
          /\ e.open = (b.open \ {b.source}) \ {r} /\ e.source = 0
          /\ e.complete = FALSE /\ e.isStreaming = FALSE
      BY <1>2, NoStartFields
    <2> HIDE DEF e
    <2> QED BY <2>1, <1>1 DEF Relisted, SameRequest, SameStream, Refused, Rested
  <1>5. ~config.stream => d \in Chats /\ d.saveTimer = TRUE /\ Posts(c, d, ms, r)
    <2> SUFFICES ASSUME ~config.stream PROVE d \in Chats /\ d.saveTimer = TRUE /\ Posts(c, d, ms, r)
      OBVIOUS
    <2>1. /\ d \in Chats /\ d.messages = b.messages /\ d.saveTimer = b.saveTimer /\ d.pending = b.pending
          /\ d.source = b.source /\ d.isStreaming = b.isStreaming
          /\ d.requestId = r /\ d.abortController = r /\ d.isRequesting = TRUE
          /\ d.open = b.open \cup {r} /\ d.aborted = b.aborted
      BY <1>2, SendFields
    <2> HIDE DEF d
    <2> QED BY <2>1, <1>1 DEF Relisted, SameRequest, SameStream, Posts
  <1> QED BY <1>3, <1>4, <1>5 DEF b

(* The step of the three actions that submit.                              *)
Submits(before, news, ms) ==
    LET r == count.requests + 1
    IN  /\ r \in Requests /\ Submitted(before, ms, news)
        /\ count'.requests = r /\ count'.messages = count.messages + news + 1
        /\ count' \in [requests : 0..MaxRequests, messages : Nat, mounts : Nat, edits : Nat]
        /\ chat' \in Chats /\ view' = Committed(chat') /\ chat'.saveTimer = TRUE /\ faults' \in Nat
        /\ \/ config.stream /\ Streams(chat, chat', ms, r)
           \/ config.stream /\ Refused(chat, chat', ms, r)
           \/ ~config.stream /\ Posts(chat, chat', ms, r)

(* What a submission does to the list, the refs and the counters. *)
LEMMA SubmitStep ==
  ASSUME TypeInv, NEW before \in Seq(Message), NEW news \in {0, 1}, Submit(before, news)
  PROVE  \E ms : Submits(before, news, ms)
  <1> DEFINE r == count.requests + 1
             ms == before \o [i \in 1..news |-> UserMessage(count.messages + i)]
                     \o <<LoadingAssistantMessage(count.messages + news + 1, r)>>
  <1>1. chat \in Chats /\ count.requests \in 0..MaxRequests /\ count.messages \in Nat /\ config.stream \in BOOLEAN
    BY DEF TypeInv, Types
  <1>2. /\ r \in Requests
        /\ count' = [count EXCEPT !.requests = r, !.messages = @ + news + 1]
        /\ \/ Commit(SendChat(UpdateMessages(chat, ms), r, TRUE)) /\ UNCHANGED faults
           \/ /\ config.stream /\ faults < MaxFaults /\ faults' = faults + 1
              /\ Commit(SendChat(UpdateMessages(chat, ms), r, FALSE))
    BY DEF Submit
  <1>3. Submitted(before, ms, news)
    BY <1>1, <1>2, SubmitList
  <1>4. ms \in Seq(Message)
    BY <1>3 DEF Submitted
  <1> HIDE DEF ms
  <1>5. r \in Nat \ {0} /\ r \in 0..MaxRequests
    BY <1>2, PlaygroundAssumption DEF Requests
  <1>6. /\ count'.requests = r /\ count'.messages = count.messages + news + 1
        /\ count' \in [requests : 0..MaxRequests, messages : Nat, mounts : Nat, edits : Nat]
    <2>1. count \in [requests : 0..MaxRequests, messages : Nat, mounts : Nat, edits : Nat]
      BY DEF TypeInv, Types
    <2>2. count.messages + news + 1 \in Nat
      BY <1>1
    <2> HIDE DEF r
    <2> QED BY <2>1, <2>2, <1>2, <1>5
  <1>7. faults' \in Nat
    <2>1. faults \in Nat
      BY DEF TypeInv, Types
    <2>2. faults' = faults \/ faults' = faults + 1
      BY <1>2, Zenon
    <2> QED BY <2>1, <2>2
  <1>8. /\ chat' \in Chats /\ view' = Committed(chat') /\ chat'.saveTimer = TRUE
        /\ \/ config.stream /\ Streams(chat, chat', ms, r)
           \/ config.stream /\ Refused(chat, chat', ms, r)
           \/ ~config.stream /\ Posts(chat, chat', ms, r)
    <2>1. CASE Commit(SendChat(UpdateMessages(chat, ms), r, TRUE))
      <3> DEFINE d == SendChat(UpdateMessages(chat, ms), r, TRUE)
      <3>1. /\ d \in Chats /\ d.saveTimer = TRUE
            /\ config.stream => Streams(chat, d, ms, r)
            /\ ~config.stream => Posts(chat, d, ms, r)
        BY <1>1, <1>4, <1>5, SendIsOneOf
      <3>2. chat' = d /\ view' = Committed(d)
        BY <2>1 DEF Commit
      <3> HIDE DEF d, r
      <3> QED BY <3>1, <3>2, <1>1
    <2>2. CASE config.stream /\ Commit(SendChat(UpdateMessages(chat, ms), r, FALSE))
      <3> DEFINE d == SendChat(UpdateMessages(chat, ms), r, FALSE)
      <3>1. /\ d \in Chats /\ d.saveTimer = TRUE
            /\ Refused(chat, d, ms, r)
        BY <2>2, <1>1, <1>4, <1>5, SendIsOneOf
      <3>2. chat' = d /\ view' = Committed(d)
        BY <2>2 DEF Commit
      <3> HIDE DEF d, r
      <3> QED BY <3>1, <3>2, <2>2
    <2> QED BY <1>2, <2>1, <2>2
  <1>9. Submits(before, news, ms)
    BY <1>2, <1>3, <1>6, <1>7, <1>8 DEF Submits
  <1> QED BY <1>9

(* What saving an edit does. *)
LEMMA SaveEditStep ==
  ASSUME TypeInv, SaveEdit
  PROVE  Relisted(chat, chat', Edited) /\ view' = Committed(chat')
  <1>1. view.messages \in Seq(Message) /\ HasKey(view.messages, editing) /\ chat \in Chats
    BY DEF TypeInv, Types, Views, SaveEdit, Editable
  <1>2. Edited \in Seq(Message)
    BY <1>1, EditedList DEF Edited
  <1>3. chat' = UpdateMessages(chat, Edited) /\ view' = Committed(chat')
    BY DEF SaveEdit, Commit
  <1> QED BY <1>1, <1>2, <1>3, UpdateFields

(* What deleting a message does. *)
LEMMA DeleteStep ==
  ASSUME TypeInv, HandleDeleteMessage
  PROVE  /\ view' = Committed(chat')
         /\ \E i \in 1..Len(view.messages) :
              LET ms == RemoveMessageByKey(chat.messages, view.messages[i].key)
              IN  ms \in Seq(Message) /\ Relisted(chat, chat', ms)
  <1>1. view.messages \in Seq(Message) /\ chat.messages \in Seq(Message) /\ chat \in Chats
    BY DEF TypeInv, Types, Views, Chats
  <1>2. PICK i \in DOMAIN view.messages :
            Commit(UpdateMessages(chat, RemoveMessageByKey(chat.messages, view.messages[i].key)))
    BY DEF HandleDeleteMessage
  <1> DEFINE key == view.messages[i].key
             ms == RemoveMessageByKey(chat.messages, key)
  <1> HIDE DEF key
  <1>3. ms \in Seq(Message)
    BY <1>1, RemovedList DEF Removed
  <1>4. chat' = UpdateMessages(chat, ms) /\ view' = Committed(chat')
    BY <1>2 DEF Commit, key
  <1> HIDE DEF ms
  <1>5. Relisted(chat, chat', ms)
    BY <1>1, <1>3, <1>4, UpdateFields
  <1>6. i \in 1..Len(view.messages)
    BY <1>1
  <1> QED BY <1>3, <1>4, <1>5, <1>6 DEF ms, key

(* What clearing the conversation does. *)
LEMMA ClearStep ==
  ASSUME TypeInv, HandleClearMessages
  PROVE  Relisted(chat, chat', <<>>) /\ view' = Committed(chat')
  <1>1. chat \in Chats /\ <<>> \in Seq(Message)
    BY DEF TypeInv, Types
  <1>2. chat' = UpdateMessages(chat, <<>>) /\ view' = Committed(chat')
    BY DEF HandleClearMessages, Commit
  <1> QED BY <1>1, <1>2, UpdateFields

(* The last message, with what waits in the buffer.                        *)
LastMessage == Chunked(chat.messages[Len(chat.messages)], chat.pending)

(* What stopping does: the answer is settled, the stream closed, the request aborted. *)
LEMMA StopStep ==
  ASSUME TypeInv, Stop
  PROVE  /\ chat' \in Chats /\ Rested(chat') /\ view' = Committed(chat')
         /\ Revised(chat.messages, chat'.messages, Settle(LastMessage))
         /\ chat'.open = chat.open \ {chat.source} /\ chat'.source = 0
         /\ chat'.isStreaming = FALSE /\ chat'.complete = chat.complete
         /\ chat'.aborted = chat.aborted \cup ({chat.abortController} \ {0})
         /\ chat'.abortController = 0 /\ chat'.requestId = chat.requestId
  <1>1. chat \in Chats
    BY DEF TypeInv, Types
  <1>2. chat' = StopGeneration(chat) /\ view' = Committed(chat')
    BY DEF Stop, Commit
  <1> QED BY <1>1, <1>2, StopFields DEF LastMessage

(* The words of a delta are a text, and not the empty one. *)
LEMMA DeltaIsText ==
  ASSUME NEW r \in 0..MaxRequests, NEW d \in Deltas
  PROVE  Delta(r, d) \in Text /\ Len(Delta(r, d)) # 0
  <1>1. d \in Seq(Nat) /\ d # <<>>
    BY PlaygroundAssumption
  <1>2. Len(d) \in Nat /\ Len(d) # 0 /\ \A i \in 1..Len(d) : d[i] \in Nat
    BY <1>1
  <1> DEFINE P == (0..MaxRequests) \X Nat
             n == Len(d)
  <1>3. \A i \in 1..n : <<r, d[i]>> \in P
    BY <1>2
  <1>4. Delta(r, d) \in [1..n -> P]
    BY <1>3 DEF Delta
  <1> HIDE DEF P, n
  <1>5. Delta(r, d) \in Seq(P) /\ Len(Delta(r, d)) = n
    BY <1>2, <1>4 DEF n
  <1> QED BY <1>2, <1>5 DEF Text, P, n

(* What a chunk of a stream does: it goes into the buffer. *)
LEMMA PieceStep ==
  ASSUME TypeInv, StreamUpdate
  PROVE  \E r \in chat.open, d \in Deltas :
           /\ r \in Requests /\ full' = [full EXCEPT ![r] = Grown(r, d)] /\ full' \in [Requests -> Text]
           /\ Chunk(r, d) \in Text /\ Grown(r, d) \in Text /\ Delta(r, d) \in Text /\ Len(Delta(r, d)) # 0
           /\ chat' \in Chats /\ SameStream(chat, chat') /\ SameRequest(chat, chat')
           /\ chat'.pending = MergePendingStreamChunk(chat.pending, Chunk(r, d))
           /\ chat'.messages = chat.messages /\ chat'.saveTimer = chat.saveTimer
           /\ chat'.isRequesting = chat.isRequesting
  <1>1. PICK r \in chat.open, d \in Deltas :
           full' = [full EXCEPT ![r] = Grown(r, d)] /\ chat' = HandleStreamUpdate(chat, Chunk(r, d))
    BY DEF StreamUpdate
  <1>2. chat \in Chats /\ full \in [Requests -> Text] /\ count.requests \in 0..MaxRequests
    BY DEF TypeInv, Types
  <1>3. r \in 1..count.requests
    BY DEF TypeInv, RefsInv
  <1>4. r \in Requests /\ r \in 0..MaxRequests
    BY <1>2, <1>3, PlaygroundAssumption DEF Requests
  <1>5. full[r] \in Text
    BY <1>2, <1>4
  <1>6. Delta(r, d) \in Text /\ Len(Delta(r, d)) # 0
    BY <1>4, DeltaIsText
  <1>7. Grown(r, d) \in Text
    BY <1>5, <1>6 DEF Grown, Text
  <1>8. Chunk(r, d) \in Text
    BY <1>6, <1>7 DEF Chunk
  <1>10. full' \in [Requests -> Text]
    BY <1>1, <1>2, <1>7
  <1> DEFINE u == MergePendingStreamChunk(chat.pending, Chunk(r, d))
  <1>11. u \in Text
    BY <1>2, <1>8, AppendableIsText DEF Chats
  <1> HIDE DEF u
  <1>12. chat' = [chat EXCEPT !.pending = u, !.flushTimer = TRUE]
    BY <1>1 DEF HandleStreamUpdate, u
  <1>13. /\ chat' \in Chats /\ SameStream(chat, chat') /\ SameRequest(chat, chat')
         /\ chat'.pending = u
         /\ chat'.messages = chat.messages /\ chat'.saveTimer = chat.saveTimer
         /\ chat'.isRequesting = chat.isRequesting
    BY <1>2, <1>11, <1>12 DEF Chats, SameStream, SameRequest
  <1> QED BY <1>1, <1>4, <1>6, <1>7, <1>8, <1>10, <1>13 DEF u

(* What [DONE] does. *)
LEMMA DoneStep ==
  ASSUME TypeInv, StreamDone
  PROVE  \E r \in chat.open :
           /\ chat' \in Chats /\ Rested(chat') /\ SameRequest(chat, chat') /\ ClosedStream(chat, chat', r)
           /\ Revised(chat.messages, chat'.messages, Finish(LastMessage))
           /\ ended' = ended \cup {r}
  <1>1. PICK r \in chat.open : chat' = HandleDone(chat, r) /\ ended' = ended \cup {r}
    BY DEF StreamDone
  <1>2. chat \in Chats
    BY DEF TypeInv, Types
  <1>3. /\ chat' \in Chats /\ Rested(chat') /\ SameRequest(chat, chat') /\ ClosedStream(chat, chat', r)
        /\ Revised(chat.messages, chat'.messages, Finish(LastMessage))
    BY <1>1, <1>2, DoneFields DEF LastMessage
  <1> QED BY <1>1, <1>3

(* What an error of a stream does: nothing once the stream is complete. *)
LEMMA FailStep ==
  ASSUME TypeInv, StreamFails
  PROVE  \/ UNCHANGED chat
         \/ \E r \in chat.open :
             /\ chat' \in Chats /\ Rested(chat') /\ SameRequest(chat, chat') /\ ClosedStream(chat, chat', r)
             /\ Revised(chat.messages, chat'.messages, WithError(LastMessage))
  <1>1. PICK r \in chat.open : chat' = HandleError(chat, r)
    BY DEF StreamFails
  <1>2. chat \in Chats
    BY DEF TypeInv, Types
  <1>3. CASE chat.complete
    BY <1>1, <1>3 DEF HandleError
  <1>4. CASE ~chat.complete
    <2>1. chat' = CloseActiveStream(HandleStreamError(chat), r)
      BY <1>1, <1>4 DEF HandleError
    <2>2. /\ chat' \in Chats /\ Rested(chat') /\ SameRequest(chat, chat') /\ ClosedStream(chat, chat', r)
          /\ Revised(chat.messages, chat'.messages, WithError(LastMessage))
      BY <2>1, <1>2, FailFields DEF LastMessage
    <2> QED BY <2>2
  <1> QED BY <1>3, <1>4

(* A stream that ends without a word only closes. *)
LEMMA SilentStep ==
  ASSUME TypeInv, StreamEndsSilently
  PROVE  \E r \in chat.open :
           /\ chat' \in Chats /\ SameRequest(chat, chat') /\ chat'.open = chat.open \ {r}
           /\ chat'.messages = chat.messages /\ chat'.pending = chat.pending
           /\ chat'.saveTimer = chat.saveTimer /\ chat'.source = chat.source
           /\ chat'.isStreaming = chat.isStreaming /\ chat'.isRequesting = chat.isRequesting
  <1>1. PICK r \in chat.open : chat' = [chat EXCEPT !.open = @ \ {r}]
    BY DEF StreamEndsSilently
  <1>2. chat \in Chats
    BY DEF TypeInv, Types
  <1> QED BY <1>1, <1>2 DEF Chats, SameRequest

(* What the response to a request for a whole answer does. *)
LEMMA ResponseStep ==
  ASSUME TypeInv, Response
  PROVE  \E r \in chat.open, outcome \in {"choice", "none", "failure"} :
           /\ r \in Requests /\ chat.pending = <<>>
           /\ Responded(chat, chat', r, outcome)
           /\ r \notin chat.aborted /\ outcome = "choice" =>
                full' = [full EXCEPT ![r] = << <<r, 1>> >>] /\ ended' = ended \cup {r}
           /\ ~(r \notin chat.aborted /\ outcome = "choice") => full' = full /\ ended' = ended
  <1>1. PICK r \in chat.open, outcome \in {"choice", "none", "failure"} :
        /\ chat' = Answered(chat, r, outcome)
        /\ IF outcome = "choice" /\ r \notin chat.aborted
           THEN full' = [full EXCEPT ![r] = << <<r, 1>> >>] /\ ended' = ended \cup {r}
           ELSE UNCHANGED history
    BY DEF Response
  <1>2. chat \in Chats /\ count.requests \in 0..MaxRequests /\ r \in 1..count.requests
    BY DEF TypeInv, Types, RefsInv
  <1>3. r \in Requests
    BY <1>2, PlaygroundAssumption DEF Requests
  <1>4. chat.pending = <<>>
    BY DEF TypeInv, NoStreamInv, Response
  <1>5. Responded(chat, chat', r, outcome)
    BY <1>1, <1>2, <1>3, <1>4, AnsweredFields
  <1>6. /\ r \notin chat.aborted /\ outcome = "choice" =>
             full' = [full EXCEPT ![r] = << <<r, 1>> >>] /\ ended' = ended \cup {r}
        /\ ~(r \notin chat.aborted /\ outcome = "choice") => full' = full /\ ended' = ended
    BY <1>1 DEF history
  <1> QED BY <1>3, <1>4, <1>5, <1>6

(* What the timer of the buffer does. *)
LEMMA FlushStep ==
  ASSUME TypeInv, FlushTimer
  PROVE  /\ chat' \in Chats /\ SameStream(chat, chat') /\ SameRequest(chat, chat')
         /\ Revised(chat.messages, chat'.messages, LastMessage)
         /\ chat.pending = <<>> => chat'.saveTimer = chat.saveTimer
         /\ chat.pending # <<>> => chat'.saveTimer = TRUE
         /\ chat'.pending = <<>> /\ chat'.isRequesting = chat.isRequesting
  <1>1. chat \in Chats /\ chat' = FlushStreamUpdates(chat)
    BY DEF TypeInv, Types, FlushTimer
  <1>2. chat.saveTimer \in BOOLEAN
    BY <1>1 DEF Chats
  <1> QED BY <1>1, <1>2, FlushFields DEF LastMessage, Chunked

(* What the timer of the save does. *)
LEMMA SaveStep ==
  ASSUME TypeInv, SaveTimer
  PROVE  /\ chat' \in Chats /\ SameStream(chat, chat') /\ SameRequest(chat, chat')
         /\ chat'.messages = chat.messages /\ chat'.pending = chat.pending
         /\ chat'.saveTimer = FALSE /\ chat'.isRequesting = chat.isRequesting
  BY DEF TypeInv, Types, SaveTimer, Chats, SameStream, SameRequest

(* A new page.                                                             *)
LEMMA NewFields ==
  ASSUME NEW ms \in Seq(Message)
  PROVE  LET d == NewChat(ms)
         IN  /\ d \in Chats /\ d.messages = ms /\ d.saveTimer = FALSE /\ d.pending = <<>>
             /\ d.source = 0 /\ d.isStreaming = FALSE /\ d.open = {} /\ d.isRequesting = FALSE
             /\ d.requestId = 0 /\ d.abortController = 0 /\ d.aborted = {}
  <1>1. <<>> \in Text
    BY DEF Text
  <1> QED BY <1>1 DEF NewChat, Chats

(* What is committed shows the messages and whether the console is busy. *)
LEMMA CommittedIsView ==
  ASSUME NEW c \in Chats
  PROVE  /\ Committed(c) \in Views /\ Committed(c).messages = c.messages
         /\ Committed(c).generating = IsGenerating(c)
  BY DEF Committed, Views, Chats, IsGenerating

(* What a save leaves in localStorage is a list within the limit. *)
LEMMA SavedIsStored ==
  ASSUME TypeInv, NEW ms \in Seq(Message), SaveMessages(ms)
  PROVE  /\ stored' \in Seq(Message) /\ Len(stored') <= MaxStored
         /\ damaged' \in BOOLEAN /\ faults' \in Nat
  <1>1. stored \in Seq(Message) /\ Len(stored) <= MaxStored /\ damaged \in BOOLEAN /\ faults \in Nat
    BY DEF TypeInv, Types
  <1>2. TrimMessages(ms) \in Seq(Message) /\ Len(TrimMessages(ms)) <= MaxStored
    BY TrimIsEnd DEF EndOf
  <1>3. CASE stored' = TrimMessages(ms) /\ UNCHANGED <<damaged, faults>>
    BY <1>1, <1>2, <1>3
  <1>4. CASE faults' = faults + 1 /\ damaged' = TRUE /\ UNCHANGED stored
    BY <1>1, <1>4
  <1> QED BY <1>3, <1>4 DEF SaveMessages

(* Opening the page loads what is stored and saves it, or starts empty. *)
LEMMA MountStep ==
  ASSUME TypeInv, Mount
  PROVE  \E ms \in Seq(Message) :
           /\ chat' = NewChat(ms) /\ view' = Committed(chat')
           /\ \/ ms \in LoadMessages(stored) /\ SaveMessages(ms)
              \/ ms = <<>> /\ damaged' = TRUE /\ stored' = stored /\ faults' = faults + 1
  <1>1. stored \in Seq(Message)
    BY DEF TypeInv, Types
  <1>2. CASE \E ms \in LoadMessages(stored) : Commit(NewChat(ms)) /\ SaveMessages(ms)
    <2>1. PICK ms \in LoadMessages(stored) : Commit(NewChat(ms)) /\ SaveMessages(ms)
      BY <1>2
    <2>2. ms \in Seq(Message)
      BY <1>1, LoadedList DEF Loaded
    <2> QED BY <2>1, <2>2 DEF Commit
  <1>3. CASE Commit(NewChat(<<>>)) /\ damaged' = TRUE /\ UNCHANGED stored /\ faults' = faults + 1
    <2>1. <<>> \in Seq(Message)
      OBVIOUS
    <2> QED BY <1>3, <2>1 DEF Commit
  <1> QED BY <1>2, <1>3 DEF Mount

(* TypeInv after a step that leaves the page open, or keeps a closed one,  *)
(* and makes no request.                                                   *)
LEMMA TypesKept ==
  ASSUME TypeInv, chat' \in Chats, view' \in Views, UNCHANGED <<left, config, stored, count, crossed, damaged, faults>>,
         editing' \in Nat, mounted' \in BOOLEAN, full' \in [Requests -> Text],
         chat'.source \in {0, chat.source}, chat'.requestId = chat.requestId,
         chat'.abortController \in {0, chat.abortController},
         chat'.open \subseteq chat.open, chat'.aborted \subseteq chat.aborted \cup ({chat.abortController} \ {0}),
         ended' \subseteq ended \cup chat.open,
         ~config.stream => chat'.isStreaming = FALSE /\ chat'.source = 0 /\ chat'.pending = <<>>
  PROVE  TypeInv'
  <1>1. count.requests \in Nat /\ chat.abortController \in Nat /\ ended \subseteq Nat /\ chat.open \subseteq Nat
    BY DEF TypeInv, Types, Chats
  <1>2. ended' \subseteq Nat
    BY <1>1
  <1>3. Types'
    BY <1>2 DEF TypeInv, Types
  <1>4. RefsInv'
    <2>1. {chat.abortController} \ {0} \subseteq 1..count.requests
      BY <1>1 DEF TypeInv, RefsInv
    <2>2. chat'.aborted \subseteq 1..count.requests /\ ended' \subseteq 1..count.requests
      BY <2>1 DEF TypeInv, RefsInv
    <2>3. chat'.source <= count.requests /\ chat'.abortController <= count.requests
      BY <1>1 DEF TypeInv, RefsInv
    <2> QED BY <2>2, <2>3 DEF TypeInv, RefsInv
  <1>5. NoStreamInv'
    BY DEF NoStreamInv
  <1> QED BY <1>3, <1>4, <1>5 DEF TypeInv

(* A submission keeps the types. *)
LEMMA SubmitTypes ==
  ASSUME TypeInv, NEW before, NEW news, NEW ms, Submits(before, news, ms), editing' \in Nat, crossed' \in BOOLEAN,
         UNCHANGED <<page, history>>
  PROVE  TypeInv'
  <1> DEFINE r == count.requests + 1
  <1>1. chat' \in Chats /\ view' \in Views /\ faults' \in Nat
    BY CommittedIsView DEF Submits
  <1>2. count' \in [requests : 0..MaxRequests, messages : Nat, mounts : Nat, edits : Nat]
    BY DEF Submits
  <1>3. Types'
    BY <1>1, <1>2 DEF TypeInv, Types, page, history
  <1>4. count.requests \in Nat /\ chat \in Chats /\ ended \subseteq 1..count.requests
    BY DEF TypeInv, Types, RefsInv
  <1>5. /\ chat.source <= count.requests /\ chat.requestId <= count.requests
        /\ chat.abortController <= count.requests
        /\ chat.open \subseteq 1..count.requests /\ chat.aborted \subseteq 1..count.requests
        /\ chat.source \in Nat /\ chat.requestId \in Nat /\ chat.abortController \in Nat
    BY <1>4 DEF TypeInv, RefsInv, Chats
  <1>6. /\ chat'.source \in {chat.source, r, 0} /\ chat'.requestId \in {chat.requestId, r}
        /\ chat'.abortController \in {chat.abortController, r}
        /\ chat'.open \subseteq chat.open \cup {r} /\ chat'.aborted = chat.aborted
        /\ count'.requests = r /\ ended' = ended
    BY DEF Submits, Streams, Refused, Posts, SameRequest, history
  <1>7. RefsInv'
    <2>1. \A S \in SUBSET (1..count.requests \cup {r}) : S \subseteq 1..r
      BY <1>4
    <2>2. chat'.open \subseteq 1..r /\ chat'.aborted \subseteq 1..r /\ ended' \subseteq 1..r
      BY <2>1, <1>4, <1>5, <1>6
    <2>3. chat'.source <= r /\ chat'.requestId <= r /\ chat'.abortController <= r
      BY <1>4, <1>5, <1>6
    <2> QED BY <1>6, <2>2, <2>3 DEF RefsInv
  <1>8. NoStreamInv'
    BY DEF TypeInv, NoStreamInv, Submits, Posts, page
  <1> QED BY <1>3, <1>7, <1>8 DEF TypeInv

(* The lists that the actions submit are lists of messages.                *)
LEMMA SubmittedLists ==
  ASSUME TypeInv
  PROVE  /\ view.messages \in Seq(Message) /\ chat.messages \in Seq(Message)
         /\ \A i \in DOMAIN view.messages :
              LET m == view.messages[i]
              IN  SubSeq(view.messages, 1, IF m.from = "user" THEN i ELSE i - 1) \in Seq(Message)
         /\ Editable => SubSeq(Edited, 1, IndexOf(view.messages, editing)) \in Seq(Message)
  <1> DEFINE vs == view.messages
  <1>1. vs \in Seq(Message) /\ chat.messages \in Seq(Message)
    BY DEF TypeInv, Types, Views, Chats
  <1>2. \A i \in DOMAIN vs : \A j \in {i - 1, i} : SubSeq(vs, 1, j) \in Seq(Message)
    <2> SUFFICES ASSUME NEW i \in DOMAIN vs, NEW j \in {i - 1, i} PROVE SubSeq(vs, 1, j) \in Seq(Message)
      OBVIOUS
    <2> HIDE DEF vs
    <2>1. i \in 1..Len(vs) /\ Len(vs) \in Nat
      BY <1>1
    <2>2. 1 \in 1..Len(vs) + 1 /\ j \in 0..Len(vs) /\ 1 <= j + 1
      BY <2>1
    <2> QED BY <2>2, <1>1, PartOf
  <1>3. Editable => SubSeq(Edited, 1, IndexOf(vs, editing)) \in Seq(Message)
    <2> SUFFICES ASSUME Editable PROVE SubSeq(Edited, 1, IndexOf(vs, editing)) \in Seq(Message)
      OBVIOUS
    <2> DEFINE k == IndexOf(vs, editing)
    <2>1. Edited \in Seq(Message) /\ Len(Edited) = Len(vs) /\ k \in 1..Len(vs)
      BY <1>1, EditedList DEF Edited, Editable
    <2> HIDE DEF k, vs
    <2>2. 1 \in 1..Len(Edited) + 1 /\ k \in 0..Len(Edited) /\ 1 <= k + 1
      BY <2>1
    <2> QED BY <2>1, <2>2, PartOf DEF k
  <1> QED BY <1>1, <1>2, <1>3

(* What a page that is left may still save are lists of messages. *)
LEMMA LateLists ==
  ASSUME TypeInv PROVE Late \subseteq Seq(Message)
  <1> SUFFICES ASSUME NEW r \in chat.open, NEW c \in After(r) PROVE c.messages \in Seq(Message)
    BY DEF Late
  <1>1. chat \in Chats /\ count.requests \in 0..MaxRequests /\ r \in 1..count.requests
    BY DEF TypeInv, Types, RefsInv
  <1>2. CASE config.stream
    <2>1. CASE c = FlushStreamUpdates(chat)
      BY <1>1, <2>1, FlushFields DEF Chats
    <2>2. CASE c = HandleError(chat, r) /\ chat.complete
      BY <1>1, <2>2 DEF HandleError, Chats
    <2>3. CASE c = HandleError(chat, r) /\ ~chat.complete
      <3>1. c = CloseActiveStream(HandleStreamError(chat), r)
        BY <2>3 DEF HandleError
      <3>2. c \in Chats
        BY <3>1, <1>1, FailFields
      <3> QED BY <3>2 DEF Chats
    <2> QED BY <1>2, <2>1, <2>2, <2>3 DEF After
  <1>3. CASE ~config.stream
    <2>1. PICK outcome \in {"choice", "none", "failure"} : c = Answered(chat, r, outcome)
      BY <1>3 DEF After
    <2>2. r \in Requests
      BY <1>1, PlaygroundAssumption DEF Requests
    <2>3. chat.pending = <<>>
      BY <1>3 DEF TypeInv, NoStreamInv
    <2>4. c \in Chats
      BY <2>1, <2>2, <2>3, <1>1, AnsweredFields DEF Responded
    <2> QED BY <2>4 DEF Chats
  <1> QED BY <1>2, <1>3

(* Every step keeps the types. *)
LEMMA TypeStep == TypeInv /\ [Next]_vars => TypeInv'
  <1> SUFFICES ASSUME TypeInv, [Next]_vars PROVE TypeInv'
    OBVIOUS
  <1>0. /\ chat \in Chats /\ view \in Views /\ editing \in Nat /\ mounted \in BOOLEAN /\ crossed \in BOOLEAN
        /\ full \in [Requests -> Text] /\ config.stream \in BOOLEAN
    BY DEF TypeInv, Types
  <1>a. ~config.stream => chat.isStreaming = FALSE /\ chat.source = 0 /\ chat.pending = <<>>
    BY DEF TypeInv, NoStreamInv
  <1>1. CASE HandleSendMessage
    <2>1. \E ms : Submits(view.messages, 1, ms)
      BY <1>1, SubmitStep, SubmittedLists DEF HandleSendMessage
    <2> QED BY <2>1, <1>0, <1>1, SubmitTypes DEF HandleSendMessage
  <1>2. CASE HandleRegenerateMessage
    <2>1. PICK i \in DOMAIN view.messages :
              Submit(SubSeq(view.messages, 1, IF view.messages[i].from = "user" THEN i ELSE i - 1), 0)
      BY <1>2 DEF HandleRegenerateMessage
    <2>2. \E before, ms : Submits(before, 0, ms)
      BY <2>1, SubmitStep, SubmittedLists
    <2> QED BY <2>2, <1>0, <1>2, SubmitTypes DEF HandleRegenerateMessage
  <1>3. CASE HandleEditMessage
    <2>1. editing' \in Nat
      <3>1. PICK i \in DOMAIN view.messages : editing' = view.messages[i].key
        BY <1>3 DEF HandleEditMessage
      <3>2. view.messages \in Seq(Message)
        BY <1>0 DEF Views
      <3>3. view.messages[i] \in Message
        BY <3>2
      <3> QED BY <3>1, <3>3 DEF Message
    <2>2. /\ count' \in [requests : 0..MaxRequests, messages : Nat, mounts : Nat, edits : Nat]
          /\ count'.requests = count.requests
      <3>1. count' = [count EXCEPT !.edits = @ + 1]
        BY <1>3 DEF HandleEditMessage
      <3>2. count \in [requests : 0..MaxRequests, messages : Nat, mounts : Nat, edits : Nat]
        BY DEF TypeInv, Types
      <3> QED BY <3>1, <3>2
    <2>3. UNCHANGED <<chat, view, mounted, left, config, stored, full, ended, crossed, damaged, faults>>
      BY <1>3 DEF HandleEditMessage, page, history
    <2>4. Types'
      BY <2>1, <2>2, <2>3 DEF TypeInv, Types
    <2> QED BY <2>2, <2>3, <2>4 DEF TypeInv, RefsInv, NoStreamInv
  <1>4. CASE HandleEditOpenChange
    <2>1. UNCHANGED <<chat, view, mounted, left, config, stored, count, full, ended, crossed, damaged, faults>> /\ editing' = 0
      BY <1>4 DEF HandleEditOpenChange, page, history
    <2> QED BY <2>1 DEF TypeInv, Types, RefsInv, NoStreamInv
  <1>5. CASE SaveEdit
    <2>1. Relisted(chat, chat', Edited) /\ view' = Committed(chat')
      BY <1>5, SaveEditStep
    <2>2. chat' \in Chats /\ view' \in Views /\ SameStream(chat, chat') /\ SameRequest(chat, chat') /\ chat'.pending = chat.pending
      BY <2>1, CommittedIsView DEF Relisted
    <2>3. /\ UNCHANGED <<mounted, left, config, stored, count, full, ended, damaged, faults>> /\ editing' = 0
          /\ crossed' \in BOOLEAN
      BY <1>5 DEF SaveEdit, Crosses, page, history
    <2>4. Types'
      BY <2>2, <2>3 DEF TypeInv, Types
    <2> QED BY <2>2, <2>3, <2>4 DEF TypeInv, RefsInv, NoStreamInv, SameStream, SameRequest
  <1>6. CASE SaveEditAndSubmit
    <2>1. Editable /\ Submit(SubSeq(Edited, 1, IndexOf(view.messages, editing)), 0)
      BY <1>6 DEF SaveEditAndSubmit
    <2>2. \E before, ms : Submits(before, 0, ms)
      BY <2>1, SubmitStep, SubmittedLists
    <2>3. editing' \in Nat /\ crossed' \in BOOLEAN /\ UNCHANGED <<page, history>>
      BY <1>6 DEF SaveEditAndSubmit, Crosses
    <2> QED BY <2>2, <2>3, SubmitTypes
  <1>7. CASE HandleDeleteMessage
    <2>1. chat' \in Chats /\ view' \in Views /\ SameStream(chat, chat') /\ SameRequest(chat, chat') /\ chat'.pending = chat.pending
      BY <1>7, DeleteStep, CommittedIsView DEF Relisted
    <2>2. /\ count' \in [requests : 0..MaxRequests, messages : Nat, mounts : Nat, edits : Nat]
          /\ count'.requests = count.requests
      <3>1. count' = [count EXCEPT !.edits = @ + 1]
        BY <1>7 DEF HandleDeleteMessage
      <3>2. count \in [requests : 0..MaxRequests, messages : Nat, mounts : Nat, edits : Nat]
        BY DEF TypeInv, Types
      <3> QED BY <3>1, <3>2
    <2>3. UNCHANGED <<editing, mounted, left, config, stored, full, ended, crossed, damaged, faults>>
      BY <1>7 DEF HandleDeleteMessage, page, history
    <2>4. Types'
      BY <2>1, <2>2, <2>3 DEF TypeInv, Types
    <2> QED BY <2>1, <2>2, <2>3, <2>4 DEF TypeInv, RefsInv, NoStreamInv, SameStream, SameRequest
  <1>8. CASE HandleClearMessages
    <2>1. chat' \in Chats /\ view' \in Views /\ SameStream(chat, chat') /\ SameRequest(chat, chat') /\ chat'.pending = chat.pending
      BY <1>8, ClearStep, CommittedIsView DEF Relisted
    <2>2. UNCHANGED <<mounted, left, config, stored, count, full, ended, crossed, damaged, faults>> /\ editing' = 0
      BY <1>8 DEF HandleClearMessages, page, history
    <2> QED BY <2>1, <2>2, <1>0, <1>a, TypesKept DEF SameStream, SameRequest
  <1>9. CASE Stop
    <2>1. /\ chat' \in Chats /\ view' \in Views /\ chat'.pending = <<>>
          /\ chat'.open \subseteq chat.open /\ chat'.source = 0 /\ chat'.isStreaming = FALSE
          /\ chat'.aborted = chat.aborted \cup ({chat.abortController} \ {0})
          /\ chat'.abortController = 0 /\ chat'.requestId = chat.requestId
      BY <1>9, StopStep, CommittedIsView DEF Rested
    <2>2. UNCHANGED <<editing, mounted, left, config, stored, count, full, ended, crossed, damaged, faults>>
      BY <1>9 DEF Stop, page, history
    <2> QED BY <2>1, <2>2, <1>0, TypesKept
  <1>10. CASE StreamUpdate
    <2>1. /\ chat' \in Chats /\ SameStream(chat, chat') /\ SameRequest(chat, chat') /\ full' \in [Requests -> Text]
      BY <1>10, PieceStep
    <2>2. UNCHANGED <<view, editing, mounted, left, config, stored, count, ended, crossed, damaged, faults>> /\ config.stream
      BY <1>10 DEF StreamUpdate, quietly, page
    <2> QED BY <2>1, <2>2, <1>0, TypesKept DEF SameStream, SameRequest
  <1>11. CASE StreamDone
    <2>1. /\ chat' \in Chats /\ SameRequest(chat, chat') /\ ended' \subseteq ended \cup chat.open
          /\ chat'.source \in {0, chat.source} /\ chat'.open \subseteq chat.open
      BY <1>11, DoneStep DEF ClosedStream
    <2>2. UNCHANGED <<view, editing, mounted, left, config, stored, count, full, crossed, damaged, faults>> /\ config.stream
      BY <1>11 DEF StreamDone, quietly, page
    <2> QED BY <2>1, <2>2, <1>0, TypesKept DEF SameRequest
  <1>12. CASE StreamFails
    <2>1. /\ chat' \in Chats /\ SameRequest(chat, chat')
          /\ chat'.source \in {0, chat.source} /\ chat'.open \subseteq chat.open
      BY <1>12, <1>0, FailStep DEF ClosedStream, SameRequest
    <2>2. UNCHANGED <<view, editing, mounted, left, config, stored, count, full, ended, crossed, damaged, faults>> /\ config.stream
      BY <1>12 DEF StreamFails, quietly, page, history
    <2> QED BY <2>1, <2>2, <1>0, TypesKept DEF SameRequest
  <1>13. CASE StreamEndsSilently
    <2>1. /\ chat' \in Chats /\ SameRequest(chat, chat')
          /\ chat'.source \in {0, chat.source} /\ chat'.open \subseteq chat.open
      BY <1>13, SilentStep
    <2>2. UNCHANGED <<view, editing, mounted, left, config, stored, count, full, ended, crossed, damaged, faults>> /\ config.stream
      BY <1>13 DEF StreamEndsSilently, quietly, page, history
    <2> QED BY <2>1, <2>2, <1>0, TypesKept DEF SameRequest
  <1>14. CASE Response
    <2>1. PICK r \in chat.open, outcome \in {"choice", "none", "failure"} :
           /\ r \in Requests /\ chat.pending = <<>>
           /\ Responded(chat, chat', r, outcome)
           /\ r \notin chat.aborted /\ outcome = "choice" =>
                full' = [full EXCEPT ![r] = << <<r, 1>> >>] /\ ended' = ended \cup {r}
           /\ ~(r \notin chat.aborted /\ outcome = "choice") => full' = full /\ ended' = ended
      BY <1>14, ResponseStep
    <2>2. /\ chat' \in Chats /\ chat'.pending = <<>> /\ chat'.open \subseteq chat.open
          /\ chat'.source = chat.source /\ chat'.isStreaming = chat.isStreaming
          /\ chat'.requestId = chat.requestId /\ chat'.aborted = chat.aborted
          /\ chat'.abortController \in {0, chat.abortController}
      BY <2>1 DEF Responded
    <2>3. ended' \subseteq ended \cup chat.open
      BY <2>1
    <2>4. full' \in [Requests -> Text]
      <3>1. << <<r, 1>> >> \in Text
        BY <2>1, PlaygroundAssumption DEF Text, Requests
      <3> QED BY <2>1, <3>1, <1>0
    <2>5. UNCHANGED <<view, editing, mounted, left, config, stored, count, crossed, damaged, faults>>
      BY <1>14 DEF Response, quietly, page
    <2> QED BY <2>2, <2>3, <2>4, <2>5, <1>0, <1>a, TypesKept
  <1>15. CASE FlushTimer
    <2>1. chat' \in Chats /\ SameStream(chat, chat') /\ SameRequest(chat, chat') /\ chat'.pending = <<>>
      BY <1>15, FlushStep
    <2>2. UNCHANGED <<view, editing, mounted, left, config, stored, count, full, ended, crossed, damaged, faults>>
      BY <1>15 DEF FlushTimer, quietly, page, history
    <2> QED BY <2>1, <2>2, <1>0, <1>a, TypesKept DEF SameStream, SameRequest
  <1>16. CASE SaveTimer
    <2>1. chat' \in Chats /\ SameStream(chat, chat') /\ SameRequest(chat, chat') /\ chat'.pending = chat.pending
      BY <1>16, SaveStep
    <2>2. /\ UNCHANGED <<view, editing, mounted, left, config, count, full, ended, crossed>> /\ SaveMessages(chat.messages)
      BY <1>16 DEF SaveTimer, history
    <2>3. /\ stored' \in Seq(Message) /\ Len(stored') <= MaxStored
          /\ damaged' \in BOOLEAN /\ faults' \in Nat
      BY <2>2, <1>0, SavedIsStored DEF Chats
    <2>4. Types'
      BY <2>1, <2>2, <2>3 DEF TypeInv, Types
    <2> QED BY <2>1, <2>2, <2>4 DEF TypeInv, RefsInv, NoStreamInv, SameStream, SameRequest
  <1>17. CASE Render
    <2>1. view' \in Views /\ UNCHANGED <<chat, editing, mounted, left, config, stored, count, full, ended, crossed, damaged, faults>>
      BY <1>17, <1>0, CommittedIsView DEF Render, page, history
    <2> QED BY <2>1, <1>0, <1>a, TypesKept
  <1>18. CASE Mount
    <2>1. PICK ms \in Seq(Message) :
           /\ chat' = NewChat(ms) /\ view' = Committed(chat')
           /\ \/ ms \in LoadMessages(stored) /\ SaveMessages(ms)
              \/ ms = <<>> /\ damaged' = TRUE /\ stored' = stored /\ faults' = faults + 1
      BY <1>18, MountStep
    <2>2. /\ chat' \in Chats /\ chat'.pending = <<>>
          /\ chat'.source = 0 /\ chat'.isStreaming = FALSE /\ chat'.open = {}
          /\ chat'.requestId = 0 /\ chat'.abortController = 0 /\ chat'.aborted = {}
      BY <2>1, NewFields
    <2>3. view' \in Views
      BY <2>1, <2>2, CommittedIsView
    <2>4. /\ stored' \in Seq(Message) /\ Len(stored') <= MaxStored
          /\ damaged' \in BOOLEAN /\ faults' \in Nat
      <3>1. CASE SaveMessages(ms)
        BY <3>1, <2>1, SavedIsStored
      <3>2. CASE damaged' = TRUE /\ stored' = stored /\ faults' = faults + 1
        BY <3>2 DEF TypeInv, Types
      <3> QED BY <2>1, <3>1, <3>2
    <2>5. /\ count' \in [requests : 0..MaxRequests, messages : Nat, mounts : Nat, edits : Nat]
          /\ count'.requests = count.requests
      BY <1>18, SMTT(20) DEF Mount, TypeInv, Types
    <2>6. editing' = 0 /\ mounted' = TRUE /\ UNCHANGED <<left, config, full, ended, crossed>>
      BY <1>18 DEF Mount, history
    <2>7. Types'
      BY <2>2, <2>3, <2>4, <2>5, <2>6 DEF TypeInv, Types
    <2>8. count.requests \in Nat
      BY DEF TypeInv, Types
    <2> QED BY <2>2, <2>5, <2>6, <2>7, <2>8 DEF TypeInv, RefsInv, NoStreamInv
  <1>19. CASE Unmount \/ Reload
    <2>1. chat' = NewChat(<<>>) /\ view' = Committed(chat')
      BY <1>19 DEF Unmount, Reload, Commit
    <2>2. /\ chat' \in Chats /\ chat'.pending = <<>>
          /\ chat'.source = 0 /\ chat'.isStreaming = FALSE /\ chat'.open = {}
          /\ chat'.requestId = 0 /\ chat'.abortController = 0 /\ chat'.aborted = {}
      <3>1. <<>> \in Seq(Message)
        OBVIOUS
      <3> QED BY <2>1, <3>1, NewFields
    <2>3. view' \in Views
      BY <2>1, <2>2, CommittedIsView
    <2>4. /\ stored' \in Seq(Message) /\ Len(stored') <= MaxStored
          /\ damaged' \in BOOLEAN /\ faults' \in Nat
      <3>1. CASE SaveMessages(chat.messages)
        BY <3>1, <1>0, SavedIsStored DEF Chats
      <3>2. CASE UNCHANGED <<stored, damaged, faults>>
        BY <3>2 DEF TypeInv, Types
      <3> QED BY <1>19, <3>1, <3>2 DEF Unmount, Reload
    <2>5. editing' = 0 /\ mounted' = FALSE /\ ended' = {} /\ UNCHANGED <<config, count, full, crossed>>
      BY <1>19 DEF Unmount, Reload
    <2>6. left' \in Seq(Message)
      <3>1. <<>> \in Seq(Message)
        OBVIOUS
      <3> QED BY <1>19, <3>1, LateLists DEF Unmount, Reload
    <2>7. Types'
      BY <2>2, <2>3, <2>4, <2>5, <2>6 DEF TypeInv, Types
    <2>8. count.requests \in Nat
      BY DEF TypeInv, Types
    <2> QED BY <2>2, <2>5, <2>7, <2>8 DEF TypeInv, RefsInv, NoStreamInv
  <1>20. CASE UNCHANGED vars
    BY <1>20 DEF vars, TypeInv, Types, RefsInv, NoStreamInv
  <1>21. CASE LeftSaves
    <2>1. left \in Seq(Message) /\ left' = <<>> /\ stored' = TrimMessages(left) /\ crossed' = TRUE /\ damaged' = TRUE
      BY <1>21 DEF LeftSaves, TypeInv, Types
    <2>2. UNCHANGED <<chat, view, editing, mounted, config, count, full, ended, faults>>
      BY <1>21 DEF LeftSaves, history
    <2>3. stored' \in Seq(Message) /\ Len(stored') <= MaxStored /\ left' \in Seq(Message)
      BY <2>1, TrimIsEnd DEF EndOf
    <2>4. Types'
      BY <2>1, <2>2, <2>3 DEF TypeInv, Types
    <2> QED BY <2>2, <2>4 DEF TypeInv, RefsInv, NoStreamInv
  <1> QED BY <1>1, <1>2, <1>3, <1>4, <1>5, <1>6, <1>7, <1>8, <1>9, <1>10, <1>11, <1>12, <1>13, <1>14,
             <1>15, <1>16, <1>17, <1>18, <1>19, <1>20, <1>21 DEF Next, User

(* The types hold at the start. *)
LEMMA TypeInit == Init => TypeInv
  <1> SUFFICES ASSUME Init PROVE TypeInv
    OBVIOUS
  <1>1. <<>> \in Seq(Message) /\ <<>> \in Text
    BY DEF Text
  <1>2. /\ chat \in Chats /\ chat.pending = <<>> /\ chat.source = 0 /\ chat.isStreaming = FALSE /\ chat.open = {}
        /\ chat.requestId = 0 /\ chat.abortController = 0 /\ chat.aborted = {}
    BY <1>1, NewFields DEF Init
  <1>3. view \in Views
    BY <1>1 DEF Init, Views
  <1>4. config \in [stream : BOOLEAN, style : {"delta", "snapshot", "whole"}]
    <2>1. config \in [stream : {TRUE}, style : Styles] \/ config \in [stream : {FALSE}, style : {"whole"}]
      BY DEF Init
    <2>2. CASE config \in [stream : {TRUE}, style : Styles]
      BY <2>2, PlaygroundAssumption
    <2>3. CASE config \in [stream : {FALSE}, style : {"whole"}]
      BY <2>3
    <2> QED BY <2>1, <2>2, <2>3
  <1>5. stored \in Seq(Message) /\ Len(stored) <= MaxStored
    BY <1>1, PlaygroundAssumption DEF Init
  <1>6. count \in [requests : 0..MaxRequests, messages : Nat, mounts : Nat, edits : Nat] /\ count.requests = 0
    BY PlaygroundAssumption DEF Init
  <1>7. full \in [Requests -> Text] /\ ended = {} /\ faults \in Nat
    BY <1>1 DEF Init
  <1>8. Types
    BY <1>1, <1>2, <1>3, <1>4, <1>5, <1>6, <1>7 DEF Init, Types
  <1> QED BY <1>2, <1>6, <1>7, <1>8 DEF TypeInv, RefsInv, NoStreamInv

(* The type invariant of the model.                                        *)
LEMMA TypesSuffice == TypeInv => TypeOK
  <1> SUFFICES ASSUME TypeInv PROVE TypeOK
    OBVIOUS
  <1>1. /\ chat.messages \in Seq(Message) /\ view.messages \in Seq(Message) /\ stored \in Seq(Message)
        /\ Len(stored) <= MaxStored
    BY DEF TypeInv, Types, Chats, Views
  <1>2. count.requests \in Nat /\ chat.source \in Nat /\ chat.requestId \in Nat /\ chat.abortController \in Nat
    BY DEF TypeInv, Types, Chats
  <1>3. {chat.source, chat.requestId, chat.abortController} \subseteq 0..count.requests
    BY <1>2 DEF TypeInv, RefsInv
  <1>4. \A ms \in {chat.messages, view.messages, stored} : \A i \in DOMAIN ms : ms[i] \in Message
    BY <1>1
  <1> QED BY <1>1, <1>3, <1>4 DEF TypeInv, RefsInv, TypeOK

(* The messages shown, shown last and stored are messages, the refs name   *)
(* requests that were made, and no more messages are stored than the limit.*)
THEOREM PlaygroundTypeOK == Spec => []TypeOK
  <1>1. Init => TypeInv
    BY TypeInit
  <1>2. TypeInv /\ [Next]_vars => TypeInv'
    BY TypeStep
  <1>3. TypeInv => TypeOK
    BY TypesSuffice
  <1> QED BY <1>1, <1>2, <1>3, PTL DEF Spec

----------------------------------------------------------------------------
(* The flags.                                                              *)

(* A stream is open only while it is the current one, and the console is   *)
(* busy exactly as long as there is a current one.                         *)
StreamInv ==
    config.stream => /\ chat.isStreaming <=> chat.source # 0
                     /\ chat.isRequesting => chat.isStreaming
                     /\ chat.open \subseteq {chat.source}

(* At most one request for a whole answer runs, the current one, unless    *)
(* an edit was sent meanwhile.                                             *)
WholeInv ==
    ~config.stream /\ ~crossed =>
        /\ \A r \in chat.open : r \in chat.aborted \/ r = chat.requestId
        /\ chat.isRequesting <=> chat.requestId \in chat.open /\ chat.requestId \notin chat.aborted
        /\ chat.isRequesting => chat.abortController = chat.requestId

(* What the user sees is at most too busy.                                 *)
SeenInv == IsGenerating(chat) => view.generating

FlagInv == StreamInv /\ WholeInv /\ SeenInv

(* The types of the flags and refs. *)
LEMMA FlagTypes ==
  ASSUME TypeInv
  PROVE  /\ chat.isStreaming \in BOOLEAN /\ chat.isRequesting \in BOOLEAN /\ view.generating \in BOOLEAN
         /\ chat.source \in Nat /\ chat.requestId \in Nat /\ chat.abortController \in Nat
         /\ config.stream \in BOOLEAN /\ crossed \in BOOLEAN /\ chat \in Chats
         /\ count.requests \in Nat /\ chat.open \subseteq 1..count.requests /\ chat.aborted \subseteq 1..count.requests
  BY DEF TypeInv, Types, Chats, Views, RefsInv

(* The same after a step. *)
LEMMA FlagTypesAfter ==
  ASSUME TypeInv'
  PROVE  /\ chat'.isStreaming \in BOOLEAN /\ chat'.isRequesting \in BOOLEAN /\ view'.generating \in BOOLEAN
         /\ chat'.source \in Nat /\ chat'.requestId \in Nat /\ chat'.abortController \in Nat
         /\ chat' \in Chats /\ crossed' \in BOOLEAN
  BY DEF TypeInv, Types, Chats, Views

(* A step that leaves the flags alone.                                     *)
LEMMA FlagsKept ==
  ASSUME FlagInv, UNCHANGED config, crossed => crossed', SameStream(chat, chat'), SameRequest(chat, chat'),
         chat'.isRequesting = chat.isRequesting,
         view'.generating = view.generating \/ view'.generating = IsGenerating(chat')
  PROVE  FlagInv'
  BY DEF FlagInv, StreamInv, WholeInv, SeenInv, IsGenerating, SameStream, SameRequest

(* A request is only sent while none is running, or crosses.               *)
LEMMA SubmitFlags ==
  ASSUME TypeInv, TypeInv', FlagInv, NEW before, NEW news, NEW ms, Submits(before, news, ms),
         UNCHANGED config, crossed => crossed', ~view.generating \/ crossed'
  PROVE  FlagInv'
  <1> DEFINE r == count.requests + 1
  <1>0. view'.generating = IsGenerating(chat')
    BY CommittedIsView DEF Submits
  <1>1. SeenInv'
    BY <1>0 DEF SeenInv
  <1>2. r \notin chat.aborted /\ r # 0
    BY FlagTypes
  <1>3. StreamInv'
    <2>1. CASE config.stream /\ Streams(chat, chat', ms, r)
      BY <2>1, <1>2, FlagTypes DEF FlagInv, StreamInv, Streams
    <2>2. CASE config.stream /\ Refused(chat, chat', ms, r)
      BY <2>2, FlagTypes DEF FlagInv, StreamInv, Refused, Rested
    <2>3. CASE ~config.stream
      BY <2>3 DEF StreamInv
    <2> QED BY <2>1, <2>2, <2>3 DEF Submits
  <1>4. WholeInv'
    <2> SUFFICES ASSUME ~config.stream, ~crossed', ~crossed
                 PROVE  /\ \A q \in chat'.open : q \in chat'.aborted \/ q = chat'.requestId
                        /\ chat'.isRequesting <=> chat'.requestId \in chat'.open /\ chat'.requestId \notin chat'.aborted
                        /\ chat'.isRequesting => chat'.abortController = chat'.requestId
      BY DEF WholeInv
    <2>1. Posts(chat, chat', ms, r)
      BY DEF Submits
    <2>2. ~IsGenerating(chat)
      BY DEF FlagInv, SeenInv
    <2>3. \A q \in chat.open : q \in chat.aborted
      BY <2>2, FlagTypes DEF FlagInv, WholeInv, IsGenerating
    <2> QED BY <2>1, <2>3, <1>2 DEF Posts
  <1> QED BY <1>1, <1>3, <1>4 DEF FlagInv

(* Every step keeps the flags, the current request and the open ones together. *)
LEMMA FlagStep ==
  ASSUME TypeInv, TypeInv', FlagInv, [Next]_vars
  PROVE  FlagInv'
  <1>0. /\ chat \in Chats /\ chat' \in Chats /\ config.stream \in BOOLEAN
    BY FlagTypes, FlagTypesAfter
  <1>1. CASE HandleSendMessage
    <2>1. \E ms : Submits(view.messages, 1, ms)
      BY <1>1, SubmitStep, SubmittedLists DEF HandleSendMessage
    <2> QED BY <2>1, <1>1, SubmitFlags DEF HandleSendMessage, Ready, page
  <1>2. CASE HandleRegenerateMessage
    <2>1. PICK i \in DOMAIN view.messages :
              Submit(SubSeq(view.messages, 1, IF view.messages[i].from = "user" THEN i ELSE i - 1), 0)
      BY <1>2 DEF HandleRegenerateMessage
    <2>2. \E before, ms : Submits(before, 0, ms)
      BY <2>1, SubmitStep, SubmittedLists
    <2> QED BY <2>2, <1>2, SubmitFlags DEF HandleRegenerateMessage, Ready, page
  <1>3. CASE HandleEditMessage \/ HandleEditOpenChange
    BY <1>3, FlagsKept DEF HandleEditMessage, HandleEditOpenChange, page, SameStream, SameRequest
  <1>4. CASE SaveEdit
    <2>1. Relisted(chat, chat', Edited) /\ view' = Committed(chat')
      BY <1>4, SaveEditStep
    <2>2. view'.generating = IsGenerating(chat')
      BY <2>1, <1>0, CommittedIsView
    <2>3. UNCHANGED config /\ (crossed => crossed')
      BY <1>4 DEF SaveEdit, Crosses, page
    <2> QED BY <2>1, <2>2, <2>3, FlagsKept DEF Relisted
  <1>5. CASE SaveEditAndSubmit
    <2>1. Editable /\ Submit(SubSeq(Edited, 1, IndexOf(view.messages, editing)), 0)
      BY <1>5 DEF SaveEditAndSubmit
    <2>2. \E before, ms : Submits(before, 0, ms)
      BY <2>1, SubmitStep, SubmittedLists
    <2>3. UNCHANGED config /\ (crossed => crossed') /\ (~view.generating \/ crossed')
      BY <1>5 DEF SaveEditAndSubmit, Crosses, page
    <2> QED BY <2>2, <2>3, SubmitFlags
  <1>6. CASE HandleDeleteMessage
    <2>1. /\ SameStream(chat, chat') /\ SameRequest(chat, chat') /\ chat'.isRequesting = chat.isRequesting
          /\ view' = Committed(chat')
      BY <1>6, DeleteStep DEF Relisted
    <2>2. view'.generating = IsGenerating(chat')
      BY <2>1, <1>0, CommittedIsView
    <2> QED BY <1>6, <2>1, <2>2, FlagsKept DEF HandleDeleteMessage, page
  <1>7. CASE HandleClearMessages
    <2>1. /\ SameStream(chat, chat') /\ SameRequest(chat, chat') /\ chat'.isRequesting = chat.isRequesting
          /\ view' = Committed(chat')
      BY <1>7, ClearStep DEF Relisted
    <2>2. view'.generating = IsGenerating(chat')
      BY <2>1, <1>0, CommittedIsView
    <2> QED BY <1>7, <2>1, <2>2, FlagsKept DEF HandleClearMessages, page
  <1>8. CASE Stop
    <2>1. /\ Rested(chat')
          /\ chat'.open = chat.open \ {chat.source} /\ chat'.source = 0
          /\ chat'.isStreaming = FALSE
          /\ chat'.aborted = chat.aborted \cup ({chat.abortController} \ {0})
          /\ chat'.requestId = chat.requestId
      BY <1>8, StopStep
    <2>2. UNCHANGED <<config, crossed>>
      BY <1>8 DEF Stop, page
    <2>3. ~IsGenerating(chat')
      BY <2>1 DEF IsGenerating, Rested
    <2>4. StreamInv'
      BY <2>1, <2>2 DEF FlagInv, StreamInv, Rested
    <2>5. WholeInv'
      BY <2>1, <2>2, FlagTypes DEF FlagInv, WholeInv, Rested
    <2> QED BY <2>3, <2>4, <2>5 DEF FlagInv, SeenInv
  <1>9. CASE StreamUpdate
    <2>1. /\ SameStream(chat, chat') /\ SameRequest(chat, chat') /\ chat'.isRequesting = chat.isRequesting
      BY <1>9, PieceStep
    <2> QED BY <1>9, <2>1, FlagsKept DEF StreamUpdate, quietly, page
  <1>10. CASE StreamDone
    <2>1. PICK r \in chat.open : Rested(chat') /\ ClosedStream(chat, chat', r)
      BY <1>10, DoneStep
    <2>2. UNCHANGED <<config, view>> /\ config.stream
      BY <1>10 DEF StreamDone, quietly, page
    <2>3. chat.source = r
      BY <2>2 DEF FlagInv, StreamInv
    <2>4. chat'.open = {} /\ chat'.source = 0 /\ chat'.isStreaming = FALSE /\ chat'.isRequesting = FALSE
      BY <2>1, <2>2, <2>3 DEF ClosedStream, Rested, FlagInv, StreamInv
    <2> QED BY <2>2, <2>4 DEF FlagInv, StreamInv, WholeInv, SeenInv, IsGenerating
  <1>11. CASE StreamFails
    <2>1. UNCHANGED <<config, view, crossed>> /\ config.stream
      BY <1>11 DEF StreamFails, quietly, page
    <2>2. CASE UNCHANGED chat
      BY <2>1, <2>2 DEF FlagInv, StreamInv, WholeInv, SeenInv
    <2>3. CASE \E r \in chat.open : Rested(chat') /\ ClosedStream(chat, chat', r)
      <3>1. PICK r \in chat.open : Rested(chat') /\ ClosedStream(chat, chat', r)
        BY <2>3
      <3>2. chat.source = r
        BY <2>1 DEF FlagInv, StreamInv
      <3>3. chat'.open = {} /\ chat'.source = 0 /\ chat'.isStreaming = FALSE /\ chat'.isRequesting = FALSE
        BY <2>1, <3>1, <3>2 DEF ClosedStream, Rested, FlagInv, StreamInv
      <3> QED BY <2>1, <3>3 DEF FlagInv, StreamInv, WholeInv, SeenInv, IsGenerating
    <2> QED BY <1>11, <2>2, <2>3, FailStep
  <1>12. CASE StreamEndsSilently
    <2>1. /\ chat'.open \subseteq chat.open /\ chat'.source = chat.source
          /\ chat'.isStreaming = chat.isStreaming /\ chat'.isRequesting = chat.isRequesting
      BY <1>12, SilentStep
    <2>2. UNCHANGED <<config, view>> /\ config.stream
      BY <1>12 DEF StreamEndsSilently, quietly, page
    <2> QED BY <2>1, <2>2 DEF FlagInv, StreamInv, WholeInv, SeenInv, IsGenerating
  <1>13. CASE Response
    <2>1. PICK r \in chat.open, outcome \in {"choice", "none", "failure"} : Responded(chat, chat', r, outcome)
      BY <1>13, ResponseStep
    <2>2. UNCHANGED <<config, view, crossed>> /\ ~config.stream
      BY <1>13 DEF Response, quietly, page
    <2>3. /\ chat'.source = chat.source /\ chat'.isStreaming = chat.isStreaming
          /\ chat'.open = chat.open \ {r}
          /\ chat'.requestId = chat.requestId /\ chat'.aborted = chat.aborted
          /\ chat'.abortController = (IF chat.requestId = r THEN 0 ELSE chat.abortController)
          /\ chat.requestId = r => chat'.isRequesting = FALSE
          /\ chat.requestId # r /\ r \in chat.aborted => chat'.isRequesting = chat.isRequesting
          /\ chat'.isRequesting => chat.isRequesting
      BY <2>1, FlagTypes DEF Responded
    <2>4. WholeInv'
      BY <2>2, <2>3, FlagTypes DEF FlagInv, WholeInv
    <2>5. SeenInv'
      BY <2>2, <2>3 DEF FlagInv, SeenInv, IsGenerating
    <2> QED BY <2>2, <2>4, <2>5 DEF FlagInv, StreamInv
  <1>14. CASE FlushTimer
    <2>1. /\ SameStream(chat, chat') /\ SameRequest(chat, chat') /\ chat'.isRequesting = chat.isRequesting
      BY <1>14, FlushStep
    <2> QED BY <1>14, <2>1, FlagsKept DEF FlushTimer, quietly, page
  <1>15. CASE SaveTimer
    <2>1. /\ SameStream(chat, chat') /\ SameRequest(chat, chat') /\ chat'.isRequesting = chat.isRequesting
      BY <1>15, SaveStep
    <2> QED BY <1>15, <2>1, FlagsKept DEF SaveTimer
  <1>16. CASE Render
    <2>1. view' = Committed(chat) /\ UNCHANGED <<chat, config, crossed>>
      BY <1>16 DEF Render, page
    <2>2. view'.generating = IsGenerating(chat')
      BY <2>1, <1>0, CommittedIsView
    <2> QED BY <2>1, <2>2, FlagsKept DEF SameStream, SameRequest
  <1>17. CASE Mount \/ Unmount \/ Reload
    <2>1. \E ms \in Seq(Message) : chat' = NewChat(ms)
      <3>1. CASE Mount
        BY <3>1, MountStep
      <3>2. CASE Unmount \/ Reload
        <4>1. <<>> \in Seq(Message)
          OBVIOUS
        <4> QED BY <3>2, <4>1 DEF Unmount, Reload, Commit
      <3> QED BY <1>17, <3>1, <3>2
    <2>2. /\ chat'.source = 0 /\ chat'.isStreaming = FALSE /\ chat'.open = {} /\ chat'.isRequesting = FALSE
      BY <2>1, NewFields
    <2> QED BY <2>2 DEF FlagInv, StreamInv, WholeInv, SeenInv, IsGenerating
  <1>18. CASE UNCHANGED vars
    BY <1>18 DEF vars, FlagInv, StreamInv, WholeInv, SeenInv
  <1>19. CASE LeftSaves
    BY <1>19, FlagsKept DEF LeftSaves, SameStream, SameRequest
  <1> QED BY <1>1, <1>2, <1>3, <1>4, <1>5, <1>6, <1>7, <1>8, <1>9, <1>10, <1>11, <1>12, <1>13, <1>14,
             <1>15, <1>16, <1>17, <1>18, <1>19 DEF Next, User

(* They are together at the start. *)
LEMMA FlagInit == Init => FlagInv
  <1> SUFFICES ASSUME Init PROVE FlagInv
    OBVIOUS
  <1>1. /\ chat.source = 0 /\ chat.isStreaming = FALSE /\ chat.open = {} /\ chat.isRequesting = FALSE
    BY DEF Init, NewChat
  <1> QED BY <1>1 DEF FlagInv, StreamInv, WholeInv, SeenInv, IsGenerating

(* If they are together, the console is busy exactly while it should be. *)
LEMMA FlagsShow == TypeInv /\ FlagInv => GeneratingIsShown
  <1> SUFFICES ASSUME TypeInv, FlagInv, ~crossed
               PROVE  IsGenerating(chat) <=>
                        IF config.stream THEN chat.source # 0 ELSE chat.open \ chat.aborted # {}
    BY DEF GeneratingIsShown
  <1>1. CASE config.stream
    BY <1>1, FlagTypes DEF FlagInv, StreamInv, IsGenerating
  <1>2. CASE ~config.stream
    <2>1. chat.isStreaming = FALSE
      BY <1>2 DEF TypeInv, NoStreamInv
    <2>2. /\ \A r \in chat.open : r \in chat.aborted \/ r = chat.requestId
          /\ chat.isRequesting <=> chat.requestId \in chat.open /\ chat.requestId \notin chat.aborted
      BY <1>2 DEF FlagInv, WholeInv
    <2>3. chat.isRequesting <=> chat.open \ chat.aborted # {}
      BY <2>2
    <2> QED BY <1>2, <2>1, <2>3 DEF IsGenerating
  <1> QED BY <1>1, <1>2

(* For any number of requests the console is busy exactly while a request  *)
(* may still deliver or a stream waits to be stopped, unless an edit was   *)
(* saved meanwhile: sends, stops, errors, late responses and streams that  *)
(* end without a word do not leave the flags, the current stream and the   *)
(* requests apart.                                                         *)
THEOREM PlaygroundShowsGenerating == Spec => []GeneratingIsShown
  <1>1. Init => TypeInv /\ FlagInv
    BY TypeInit, FlagInit
  <1>2. TypeInv /\ FlagInv /\ [Next]_vars => TypeInv' /\ FlagInv'
    BY TypeStep, FlagStep
  <1>3. TypeInv /\ FlagInv => GeneratingIsShown
    BY FlagsShow
  <1> QED BY <1>1, <1>2, <1>3, PTL DEF Spec

----------------------------------------------------------------------------
(* Saving.                                                                 *)

(* A revision of the last message by itself changes nothing. *)
LEMMA RevisedBySame ==
  ASSUME NEW ms \in Seq(Message), NEW ns, Revised(ms, ns, ms[Len(ms)])
  PROVE  ns = ms
  <1>1. ns \in Seq(Message) /\ Len(ns) = Len(ms) /\ \A i \in 1..Len(ns) : ns[i] = ms[i]
    BY DEF Revised
  <1> QED BY <1>1, SeqEqual

(* A step schedules a save, or leaves the messages and what is stored.     *)
LEMMA SavedKept ==
  ASSUME SavedWhenQuiet,
         \/ chat'.saveTimer = TRUE \/ mounted' = FALSE
         \/ UNCHANGED <<stored, damaged, mounted>> /\ chat'.messages = chat.messages /\ chat'.saveTimer = chat.saveTimer
  PROVE  SavedWhenQuiet'
  BY DEF SavedWhenQuiet

(* Every step that changes the messages saves them or schedules a save. *)
LEMMA SavedStep ==
  ASSUME TypeInv, SavedWhenQuiet, [Next]_vars
  PROVE  SavedWhenQuiet'
  <1>1. CASE HandleSendMessage \/ HandleRegenerateMessage \/ SaveEditAndSubmit
    <2>1. \E before, news, ms : Submits(before, news, ms)
      <3>1. CASE HandleSendMessage
        BY <3>1, SubmitStep, SubmittedLists DEF HandleSendMessage
      <3>2. CASE HandleRegenerateMessage
        <4>1. PICK i \in DOMAIN view.messages :
                  Submit(SubSeq(view.messages, 1, IF view.messages[i].from = "user" THEN i ELSE i - 1), 0)
          BY <3>2 DEF HandleRegenerateMessage
        <4> QED BY <4>1, SubmitStep, SubmittedLists
      <3>3. CASE SaveEditAndSubmit
        <4>1. Editable /\ Submit(SubSeq(Edited, 1, IndexOf(view.messages, editing)), 0)
          BY <3>3 DEF SaveEditAndSubmit
        <4> QED BY <4>1, SubmitStep, SubmittedLists
      <3> QED BY <1>1, <3>1, <3>2, <3>3
    <2> QED BY <2>1, SavedKept DEF Submits
  <1>2. CASE HandleEditMessage \/ HandleEditOpenChange \/ Render
    BY <1>2, SavedKept DEF HandleEditMessage, HandleEditOpenChange, Render, page
  <1>3. CASE SaveEdit \/ HandleDeleteMessage \/ HandleClearMessages \/ Stop \/ StreamDone
    <2>1. chat'.saveTimer = TRUE
      BY <1>3, SaveEditStep, DeleteStep, ClearStep, StopStep, DoneStep DEF Relisted, Rested
    <2> QED BY <2>1, SavedKept
  <1>4. CASE StreamUpdate \/ StreamEndsSilently
    <2>1. chat'.messages = chat.messages /\ chat'.saveTimer = chat.saveTimer
      BY <1>4, PieceStep, SilentStep
    <2> QED BY <1>4, <2>1, SavedKept DEF StreamUpdate, StreamEndsSilently, quietly, page
  <1>5. CASE StreamFails
    <2>1. UNCHANGED chat \/ chat'.saveTimer = TRUE
      BY <1>5, FailStep DEF Rested
    <2> QED BY <1>5, <2>1, SavedKept DEF StreamFails, quietly, page
  <1>6. CASE Response
    <2>1. chat'.saveTimer = TRUE \/ (chat'.messages = chat.messages /\ chat'.saveTimer = chat.saveTimer)
      BY <1>6, ResponseStep DEF Responded
    <2> QED BY <1>6, <2>1, SavedKept DEF Response, quietly, page
  <1>7. CASE FlushTimer
    <2>1. chat'.saveTimer = TRUE \/ (chat'.messages = chat.messages /\ chat'.saveTimer = chat.saveTimer)
      <3>1. CASE chat.pending # <<>>
        BY <3>1, <1>7, FlushStep
      <3>2. CASE chat.pending = <<>>
        <4>1. chat.messages \in Seq(Message)
          BY DEF TypeInv, Types, Chats
        <4>2. Revised(chat.messages, chat'.messages, chat.messages[Len(chat.messages)])
          BY <3>2, <1>7, FlushStep DEF LastMessage, Chunked
        <4> QED BY <3>2, <1>7, <4>1, <4>2, FlushStep, RevisedBySame
      <3> QED BY <3>1, <3>2
    <2> QED BY <1>7, <2>1, SavedKept DEF FlushTimer, quietly, page
  <1>8. CASE SaveTimer
    <2>1. chat'.messages = chat.messages /\ SaveMessages(chat.messages)
      BY <1>8, SaveStep DEF SaveTimer
    <2> QED BY <2>1 DEF SaveMessages, SavedWhenQuiet
  <1>9. CASE Mount
    <2>1. PICK ms \in Seq(Message) :
            /\ chat' = NewChat(ms)
            /\ \/ ms \in LoadMessages(stored) /\ SaveMessages(ms)
               \/ ms = <<>> /\ damaged' = TRUE /\ stored' = stored /\ faults' = faults + 1
      BY <1>9, MountStep
    <2>2. chat'.messages = ms
      BY <2>1, NewFields
    <2> QED BY <2>1, <2>2 DEF SaveMessages, SavedWhenQuiet
  <1>10. CASE Unmount \/ Reload
    BY <1>10, SavedKept DEF Unmount, Reload
  <1>11. CASE UNCHANGED vars
    BY <1>11 DEF vars, SavedWhenQuiet
  <1>12. CASE LeftSaves
    BY <1>12 DEF LeftSaves, SavedWhenQuiet
  <1> QED BY <1>1, <1>2, <1>3, <1>4, <1>5, <1>6, <1>7, <1>8, <1>9, <1>10, <1>11, <1>12 DEF Next, User

(* What is shown is stored, unless a save is due, localStorage failed or a *)
(* page that was left wrote to it: every callback that changes the         *)
(* messages schedules a save.                                              *)
THEOREM PlaygroundSaves == Spec => []SavedWhenQuiet
  <1>1. Init => TypeInv /\ SavedWhenQuiet
    BY TypeInit DEF Init, SavedWhenQuiet
  <1>2. TypeInv /\ SavedWhenQuiet /\ [Next]_vars => TypeInv' /\ SavedWhenQuiet'
    BY TypeStep, SavedStep
  <1> QED BY <1>1, <1>2, PTL DEF Spec

----------------------------------------------------------------------------
(* Nothing is left pending.                                                *)

NonePending(ms) == \A i \in 1..Len(ms) : ~IsPending(ms[i])

LastPending(ms) ==
    /\ Len(ms) > 0 /\ ms[Len(ms)].from = "assistant"
    /\ \A i \in 1..Len(ms) : IsPending(ms[i]) <=> i = Len(ms)

(* Exactly while the console is busy, the last message is pending, and it  *)
(* is an answer; at rest the user sees the state.                          *)
Calm ==
    /\ IsGenerating(chat) => LastPending(chat.messages)
    /\ ~IsGenerating(chat) => NonePending(chat.messages) /\ chat.pending = <<>>
    /\ ~view.generating => view.messages = chat.messages
    /\ OnlyLastPending(stored)

RestInv == ~crossed => Calm

(* Which messages are pending after a stop, an end, an error, a response or a chunk. *)
LEMMA PendingAfter ==
  ASSUME NEW m \in Message, NEW text \in Text, NEW r
  PROVE  /\ ~IsPending(Settle(m)) /\ ~IsPending(Finish(m)) /\ ~IsPending(WithError(m)) /\ ~IsPending(Given(m, r))
         /\ IsPending(m) => IsPending(Chunked(m, text))
  <1>1. ~IsPending(Settle(m)) /\ ~IsPending(Finish(m)) /\ ~IsPending(WithError(m)) /\ ~IsPending(Given(m, r))
    BY DEF Settle, Finish, WithError, Given, IsPending, IsFinal, Complete, Message
  <1> DEFINE t == m.text \o AppendableChunk(m.text, text)
  <1> HIDE DEF t
  <1>2. Chunked(m, text) = IF text = <<>> \/ m.status = "error" THEN m
                           ELSE [m EXCEPT !.text = t, !.status = "streaming"]
    BY DEF Chunked, ApplyStreamingChunk, t
  <1>3. IsPending(m) => IsPending(Chunked(m, text))
    BY <1>2 DEF IsPending, Message
  <1> QED BY <1>1, <1>3

(* A list whose last answer becomes final has nothing pending.             *)
LEMMA RevisedIsCalm ==
  ASSUME NEW ms \in Seq(Message), NonePending(ms) \/ LastPending(ms), NEW ns, NEW n, Revised(ms, ns, n),
         Len(ms) > 0 => ~IsPending(n)
  PROVE  NonePending(ns)
  BY DEF NonePending, LastPending, Revised

(* Trimming leaves at most the last message pending. *)
LEMMA TrimIsCalm ==
  ASSUME NEW ms \in Seq(Message), NonePending(ms) \/ LastPending(ms)
  PROVE  OnlyLastPending(TrimMessages(ms))
  <1>1. PICK k \in Nat : EndOf(ms, TrimMessages(ms), k)
    BY TrimIsEnd
  <1> DEFINE p == TrimMessages(ms)
  <1> HIDE DEF p
  <1>2. p \in Seq(Message) /\ Len(ms) = k + Len(p) /\ \A i \in 1..Len(p) : p[i] = ms[k + i]
    BY <1>1 DEF EndOf, p
  <1>3. \A i \in 1..Len(p) : k + i \in 1..Len(ms) /\ (k + i = Len(ms) => i = Len(p))
    BY <1>2
  <1>4. OnlyLastPending(p)
    BY <1>2, <1>3 DEF OnlyLastPending, NonePending, LastPending
  <1> QED BY <1>4 DEF p

(* The types of the lists and of the last message. *)
LEMMA LastIsMessage ==
  ASSUME TypeInv
  PROVE  /\ chat.messages \in Seq(Message) /\ view.messages \in Seq(Message) /\ stored \in Seq(Message)
         /\ chat.pending \in Text /\ Len(chat.messages) \in Nat
         /\ Len(chat.messages) > 0 => /\ chat.messages[Len(chat.messages)] \in Message
                                      /\ LastMessage \in Message
  <1>1. chat.messages \in Seq(Message) /\ view.messages \in Seq(Message) /\ stored \in Seq(Message) /\ chat.pending \in Text
    BY DEF TypeInv, Types, Chats, Views
  <1>2. Len(chat.messages) > 0 => chat.messages[Len(chat.messages)] \in Message
    BY <1>1
  <1>3. Len(chat.messages) > 0 => LastMessage \in Message
    BY <1>1, <1>2, SameAuthor DEF LastMessage
  <1>4. Len(chat.messages) \in Nat
    BY <1>1
  <1> QED BY <1>1, <1>2, <1>3, <1>4

(* A step that ends the answer.                                            *)
LEMMA EndIsCalm ==
  ASSUME TypeInv, Calm, UNCHANGED stored, NEW n, Revised(chat.messages, chat'.messages, n),
         Len(chat.messages) > 0 => ~IsPending(n), ~IsGenerating(chat'), chat'.pending = <<>>,
         ~view'.generating => view'.messages = chat'.messages
  PROVE  Calm'
  <1>1. chat.messages \in Seq(Message)
    BY LastIsMessage
  <1>2. NonePending(chat'.messages)
    BY <1>1, RevisedIsCalm DEF Calm
  <1> QED BY <1>2 DEF Calm

(* A step that keeps the messages and the flags.                           *)
LEMMA SameIsCalm ==
  ASSUME Calm, UNCHANGED stored, chat'.messages = chat.messages, IsGenerating(chat') <=> IsGenerating(chat),
         chat'.pending = chat.pending, view' = view \/ view'.messages = chat'.messages
  PROVE  Calm'
  BY DEF Calm

(* A submission at rest leaves exactly the last message pending. *)
LEMMA SubmitIsCalm ==
  ASSUME TypeInv, Calm, UNCHANGED stored, NEW before \in Seq(Message), NEW news \in {0, 1}, NEW ms,
         Submits(before, news, ms), NonePending(before), ~view.generating, FlagInv
  PROVE  Calm'
  <1> DEFINE r == count.requests + 1
  <1>1. ms \in Seq(Message) /\ Submitted(before, ms, news)
    BY DEF Submits, Submitted
  <1>2. Len(before) \in Nat /\ Len(ms) = Len(before) + news + 1 /\ Len(ms) > 0 /\ Len(ms) \in 1..Len(ms)
    BY <1>1 DEF Submitted
  <1>3. LastPending(ms)
    <2>1. ms[Len(ms)].from = "assistant" /\ IsPending(ms[Len(ms)])
      BY <1>1 DEF Submitted, LoadingAssistantMessage, IsPending
    <2>2. \A i \in 1..Len(before) : ~IsPending(ms[i])
      BY <1>1 DEF Submitted, NonePending
    <2>3. \A i \in Len(before) + 1..Len(before) + news : ~IsPending(ms[i])
      <3>1. \A key : ~IsPending(UserMessage(key))
        BY DEF UserMessage, IsPending
      <3> QED BY <1>1, <3>1 DEF Submitted
    <2>4. \A i \in 1..Len(ms) : i # Len(ms) => i \in 1..Len(before) \/ i \in Len(before) + 1..Len(before) + news
      BY <1>2
    <2> QED BY <1>2, <2>1, <2>2, <2>3, <2>4 DEF LastPending
  <1>4. view'.messages = chat'.messages
    BY CommittedIsView DEF Submits
  <1>5. ~IsGenerating(chat) /\ chat.pending = <<>>
    BY DEF FlagInv, SeenInv, Calm
  <1>6. CASE Streams(chat, chat', ms, r) \/ Posts(chat, chat', ms, r)
    <2>1. chat'.messages = ms /\ IsGenerating(chat')
      BY <1>6 DEF Streams, Posts, IsGenerating
    <2> QED BY <1>3, <1>4, <2>1 DEF Calm
  <1>7. CASE Refused(chat, chat', ms, r)
    <2>1. Revised(ms, chat'.messages, WithError(Chunked(ms[Len(ms)], chat.pending)))
      BY <1>7 DEF Refused
    <2>2. ~IsPending(WithError(ms[Len(ms)])) /\ Chunked(ms[Len(ms)], chat.pending) = ms[Len(ms)]
      BY <1>1, <1>2, <1>5, NotPending DEF Chunked
    <2>3. NonePending(chat'.messages)
      BY <1>1, <1>3, <2>1, <2>2, RevisedIsCalm
    <2>4. ~IsGenerating(chat') /\ chat'.pending = <<>>
      BY <1>7 DEF Refused, Rested, IsGenerating
    <2> QED BY <1>4, <2>3, <2>4 DEF Calm
  <1> QED BY <1>6, <1>7 DEF Submits

(* A prefix of a list without pending messages has none. *)
LEMMA PrefixIsCalm ==
  ASSUME NEW ms \in Seq(Message), NEW j \in 0..Len(ms)
  PROVE  LET p == SubSeq(ms, 1, j)
         IN  /\ p \in Seq(Message) /\ Len(p) = j /\ \A i \in 1..j : p[i] = ms[i]
             /\ NonePending(ms) => NonePending(p)
  <1> DEFINE p == SubSeq(ms, 1, j)
  <1>1. 1 \in 1..Len(ms) + 1 /\ 1 <= j + 1 /\ Len(ms) \in Nat
    OBVIOUS
  <1>2. p \in Seq(Message) /\ Len(p) = j + 1 - 1 /\ \A i \in 1..Len(p) : p[i] = ms[1 + i - 1]
    BY <1>1, PartOf
  <1> HIDE DEF p
  <1>3. Len(p) = j /\ \A i \in 1..j : p[i] = ms[i] /\ i \in 1..Len(ms)
    BY <1>1, <1>2
  <1>4. NonePending(ms) => NonePending(p)
    BY <1>3 DEF NonePending
  <1> QED BY <1>2, <1>3, <1>4 DEF p

(* An edit changes the text of one message and nothing else. *)
LEMMA EditedIsCalm ==
  ASSUME TypeInv, Editable
  PROVE  LET k == IndexOf(view.messages, editing)
         IN  /\ k \in 1..Len(view.messages) /\ view.messages[k].key = editing
             /\ Edited \in Seq(Message) /\ Len(Edited) = Len(view.messages)
             /\ \A i \in 1..Len(view.messages) :
                  /\ Edited[i].key = view.messages[i].key /\ Edited[i].from = view.messages[i].from
                  /\ Edited[i].req = view.messages[i].req /\ Edited[i].status = view.messages[i].status
                  /\ i = k => Edited[i].text = Local
                  /\ i # k => Edited[i] = view.messages[i]
             /\ NonePending(view.messages) => NonePending(Edited)
  <1> DEFINE k == IndexOf(view.messages, editing)
             vs == view.messages
  <1>1. vs \in Seq(Message)
    BY LastIsMessage
  <1>2. /\ k \in 1..Len(vs) /\ vs[k].key = editing
        /\ Edited \in Seq(Message) /\ Len(Edited) = Len(vs)
        /\ \A i \in 1..Len(vs) : Edited[i] = IF i = k THEN [vs[i] EXCEPT !.text = Local] ELSE vs[i]
    BY <1>1, EditedList DEF Edited, Editable
  <1> HIDE DEF k
  <1>3. \A m \in Message : LET n == [m EXCEPT !.text = Local]
                           IN  n.key = m.key /\ n.from = m.from /\ n.req = m.req /\ n.status = m.status /\ n.text = Local
    BY DEF Message
  <1>4. \A i \in 1..Len(vs) :
          /\ Edited[i].key = vs[i].key /\ Edited[i].from = vs[i].from
          /\ Edited[i].req = vs[i].req /\ Edited[i].status = vs[i].status
          /\ i = k => Edited[i].text = Local
          /\ i # k => Edited[i] = vs[i]
    <2> SUFFICES ASSUME NEW i \in 1..Len(vs)
                 PROVE  /\ Edited[i].key = vs[i].key /\ Edited[i].from = vs[i].from
                        /\ Edited[i].req = vs[i].req /\ Edited[i].status = vs[i].status
                        /\ i = k => Edited[i].text = Local
                        /\ i # k => Edited[i] = vs[i]
      OBVIOUS
    <2>1. vs[i] \in Message
      BY <1>1
    <2>2. CASE i = k
      BY <2>1, <2>2, <1>2, <1>3
    <2>3. CASE i # k
      BY <2>3, <1>2
    <2> QED BY <2>2, <2>3
  <1>5. NonePending(vs) => NonePending(Edited)
    BY <1>2, <1>4 DEF NonePending, IsPending
  <1> QED BY <1>2, <1>4, <1>5 DEF k

(* The user's list at rest.                                                *)
LEMMA AtRest ==
  ASSUME TypeInv, FlagInv, Calm, ~view.generating
  PROVE  /\ ~IsGenerating(chat) /\ view.messages = chat.messages /\ chat.pending = <<>>
         /\ NonePending(chat.messages) /\ NonePending(view.messages)
  BY DEF FlagInv, SeenInv, Calm

(* An edit that was saved while an answer was generated, and a late save   *)
(* of a page that was left, are not forgotten.                             *)
LEMMA CrossedStays ==
  ASSUME [Next]_vars, ~crossed'
  PROVE  ~crossed
  BY DEF Next, User, vars, HandleSendMessage, HandleRegenerateMessage, HandleEditMessage, HandleEditOpenChange,
         SaveEdit, SaveEditAndSubmit, Crosses, HandleDeleteMessage, HandleClearMessages, Stop,
         StreamUpdate, StreamDone, StreamFails, StreamEndsSilently, Response, FlushTimer, SaveTimer,
         Render, Mount, Unmount, LeftSaves, Reload, quietly

(* Every step keeps the lists calm. *)
LEMMA RestStep ==
  ASSUME TypeInv, TypeInv', FlagInv, RestInv, [Next]_vars
  PROVE  RestInv'
  <1>0. CASE crossed'
    BY <1>0 DEF RestInv
  <1> SUFFICES ASSUME ~crossed' PROVE Calm'
    BY <1>0 DEF RestInv
  <1>a. ~crossed
    BY CrossedStays
  <1>b. Calm
    BY <1>a DEF RestInv
  <1>c. /\ chat.messages \in Seq(Message) /\ view.messages \in Seq(Message)
        /\ chat \in Chats /\ chat' \in Chats /\ chat.pending \in Text
    BY LastIsMessage, FlagTypes, FlagTypesAfter
  <1>d. Len(chat.messages) > 0 =>
           ~IsPending(Settle(LastMessage)) /\ ~IsPending(Finish(LastMessage)) /\ ~IsPending(WithError(LastMessage))
    BY LastIsMessage, PendingAfter
  <1>1. CASE HandleSendMessage
    <2>1. /\ \E ms : Submits(view.messages, 1, ms)
          /\ ~view.generating /\ UNCHANGED stored
      BY <1>1, SubmitStep, SubmittedLists DEF HandleSendMessage, Ready, page
    <2> QED BY <2>1, <1>b, <1>c, AtRest, SubmitIsCalm
  <1>2. CASE HandleRegenerateMessage
    <2>1. PICK i \in DOMAIN view.messages :
              Submit(SubSeq(view.messages, 1, IF view.messages[i].from = "user" THEN i ELSE i - 1), 0)
      BY <1>2 DEF HandleRegenerateMessage
    <2> DEFINE j == IF view.messages[i].from = "user" THEN i ELSE i - 1
               before == SubSeq(view.messages, 1, j)
    <2>2. j \in 0..Len(view.messages)
      BY <1>c
    <2> HIDE DEF j
    <2>3. ~view.generating /\ UNCHANGED stored
      BY <1>2 DEF HandleRegenerateMessage, Ready, page
    <2>4. before \in Seq(Message) /\ NonePending(before)
      BY <2>2, <2>3, <1>b, <1>c, AtRest, PrefixIsCalm
    <2>5. Submit(before, 0)
      BY <2>1 DEF j
    <2> HIDE DEF before
    <2>6. \E ms : Submits(before, 0, ms)
      BY <2>4, <2>5, SubmitStep
    <2> QED BY <2>3, <2>4, <2>6, <1>b, SubmitIsCalm
  <1>3. CASE HandleEditMessage \/ HandleEditOpenChange
    BY <1>3, <1>b, SameIsCalm DEF HandleEditMessage, HandleEditOpenChange, page
  <1>4. CASE SaveEdit
    <2>1. ~view.generating /\ UNCHANGED stored /\ Editable
      BY <1>4 DEF SaveEdit, Crosses, page
    <2>2. Relisted(chat, chat', Edited) /\ view' = Committed(chat')
      BY <1>4, SaveEditStep
    <2>3. view'.messages = chat'.messages
      BY <2>2, <1>c, CommittedIsView
    <2>4. NonePending(chat'.messages)
      BY <2>1, <2>2, <1>b, AtRest, EditedIsCalm DEF Relisted
    <2>5. ~IsGenerating(chat') /\ chat'.pending = <<>>
      BY <2>1, <2>2, <1>b, AtRest DEF Relisted, SameStream, IsGenerating
    <2> QED BY <2>1, <2>3, <2>4, <2>5, <1>b DEF Calm
  <1>5. CASE SaveEditAndSubmit
    <2>1. ~view.generating /\ UNCHANGED stored /\ Editable
      BY <1>5 DEF SaveEditAndSubmit, Crosses, page
    <2> DEFINE k == IndexOf(view.messages, editing)
               before == SubSeq(Edited, 1, k)
    <2>2. Edited \in Seq(Message) /\ NonePending(Edited) /\ k \in 1..Len(Edited)
      BY <2>1, <1>b, AtRest, EditedIsCalm
    <2>3. Submit(before, 0)
      BY <1>5 DEF SaveEditAndSubmit
    <2> HIDE DEF k
    <2>4. k \in 0..Len(Edited)
      BY <2>2
    <2>5. before \in Seq(Message) /\ NonePending(before)
      BY <2>2, <2>4, PrefixIsCalm
    <2> HIDE DEF before
    <2>6. \E ms : Submits(before, 0, ms)
      BY <2>3, <2>5, SubmitStep
    <2> QED BY <2>1, <2>5, <2>6, <1>b, SubmitIsCalm
  <1>6. CASE HandleDeleteMessage
    <2>1. ~view.generating /\ UNCHANGED stored
      BY <1>6 DEF HandleDeleteMessage, Ready, page
    <2>2. PICK i \in 1..Len(view.messages) :
              Relisted(chat, chat', RemoveMessageByKey(chat.messages, view.messages[i].key)) /\ view' = Committed(chat')
      BY <1>6, DeleteStep
    <2>3. view'.messages = chat'.messages
      BY <2>2, <1>c, CommittedIsView
    <2> DEFINE key == view.messages[i].key
               ns == RemoveMessageByKey(chat.messages, key)
    <2> HIDE DEF key
    <2>4. \/ ns = chat.messages
          \/ \E k \in 1..Len(chat.messages) : Removed(chat.messages, ns, k)
      BY <1>c, RemovedList
    <2> HIDE DEF ns
    <2>5. NonePending(ns)
      <3>1. NonePending(chat.messages)
        BY <2>1, <1>b, AtRest
      <3>2. CASE \E k \in 1..Len(chat.messages) : Removed(chat.messages, ns, k)
        <4>1. PICK k \in 1..Len(chat.messages) : Removed(chat.messages, ns, k)
          BY <3>2
        <4>2. \A j \in 1..Len(ns) : j \in 1..Len(chat.messages) /\ j + 1 \in 1..Len(chat.messages)
          BY <4>1, <1>c DEF Removed
        <4> QED BY <3>1, <4>1, <4>2 DEF Removed, NonePending
      <3> QED BY <2>4, <3>1, <3>2
    <2>6. chat'.messages = ns /\ ~IsGenerating(chat') /\ chat'.pending = <<>>
      BY <2>1, <2>2, <1>b, AtRest DEF Relisted, SameStream, IsGenerating, ns, key
    <2> QED BY <2>1, <2>3, <2>5, <2>6, <1>b DEF Calm
  <1>7. CASE HandleClearMessages
    <2>1. ~view.generating /\ UNCHANGED stored
      BY <1>7 DEF HandleClearMessages, Ready, page
    <2>2. Relisted(chat, chat', <<>>) /\ view' = Committed(chat')
      BY <1>7, ClearStep
    <2>3. view'.messages = chat'.messages
      BY <2>2, <1>c, CommittedIsView
    <2>4. chat'.messages = <<>> /\ ~IsGenerating(chat') /\ chat'.pending = <<>>
      BY <2>1, <2>2, <1>b, AtRest DEF Relisted, SameStream, IsGenerating
    <2> QED BY <2>1, <2>3, <2>4, <1>b DEF Calm, NonePending
  <1>8. CASE Stop
    <2>1. /\ Rested(chat') /\ view' = Committed(chat') /\ Revised(chat.messages, chat'.messages, Settle(LastMessage))
          /\ chat'.isStreaming = FALSE
      BY <1>8, StopStep
    <2>2. ~IsGenerating(chat') /\ chat'.pending = <<>>
      BY <2>1 DEF Rested, IsGenerating
    <2>3. view'.messages = chat'.messages
      BY <2>1, <1>c, CommittedIsView
    <2>4. UNCHANGED stored
      BY <1>8 DEF Stop, page
    <2> QED BY <2>1, <2>2, <2>3, <2>4, <1>b, <1>d, EndIsCalm
  <1>9. CASE StreamUpdate
    <2>1. PICK r \in chat.open :
            /\ SameStream(chat, chat') /\ chat'.messages = chat.messages /\ chat'.isRequesting = chat.isRequesting
      BY <1>9, PieceStep
    <2>2. config.stream /\ UNCHANGED <<stored, view>>
      BY <1>9 DEF StreamUpdate, quietly, page
    <2>3. chat.isStreaming
      BY <2>2, FlagTypes DEF FlagInv, StreamInv
    <2>4. IsGenerating(chat) /\ IsGenerating(chat')
      BY <2>1, <2>3 DEF IsGenerating, SameStream
    <2> QED BY <2>1, <2>2, <2>4, <1>b DEF Calm
  <1>10. CASE StreamDone
    <2>1. PICK r \in chat.open :
            Rested(chat') /\ ClosedStream(chat, chat', r) /\ Revised(chat.messages, chat'.messages, Finish(LastMessage))
      BY <1>10, DoneStep
    <2>2. config.stream /\ UNCHANGED <<stored, view>>
      BY <1>10 DEF StreamDone, quietly, page
    <2>3. chat.source = r /\ chat.isStreaming
      BY <2>2, FlagTypes DEF FlagInv, StreamInv
    <2>4. ~IsGenerating(chat') /\ chat'.pending = <<>> /\ view'.generating
      BY <2>1, <2>2, <2>3 DEF IsGenerating, ClosedStream, Rested, FlagInv, SeenInv
    <2> QED BY <2>1, <2>2, <2>4, <1>b, <1>d, EndIsCalm
  <1>11. CASE StreamFails
    <2>1. config.stream /\ UNCHANGED <<stored, view>>
      BY <1>11 DEF StreamFails, quietly, page
    <2>2. CASE UNCHANGED chat
      BY <2>1, <2>2, <1>b, SameIsCalm
    <2>3. CASE \E r \in chat.open : Rested(chat') /\ ClosedStream(chat, chat', r)
                                    /\ Revised(chat.messages, chat'.messages, WithError(LastMessage))
      <3>1. PICK r \in chat.open : Rested(chat') /\ ClosedStream(chat, chat', r)
                                   /\ Revised(chat.messages, chat'.messages, WithError(LastMessage))
        BY <2>3
      <3>2. chat.source = r /\ chat.isStreaming
        BY <2>1, FlagTypes DEF FlagInv, StreamInv
      <3>3. ~IsGenerating(chat') /\ chat'.pending = <<>> /\ view'.generating
        BY <2>1, <3>1, <3>2 DEF IsGenerating, ClosedStream, Rested, FlagInv, SeenInv
      <3> QED BY <2>1, <3>1, <3>3, <1>b, <1>d, EndIsCalm
    <2> QED BY <1>11, <2>2, <2>3, FailStep
  <1>12. CASE StreamEndsSilently
    <2>1. /\ chat'.messages = chat.messages /\ chat'.pending = chat.pending
          /\ chat'.isStreaming = chat.isStreaming /\ chat'.isRequesting = chat.isRequesting
      BY <1>12, SilentStep
    <2> QED BY <1>12, <2>1, <1>b, SameIsCalm DEF StreamEndsSilently, quietly, page, IsGenerating
  <1>13. CASE Response
    <2>1. PICK r \in chat.open, outcome \in {"choice", "none", "failure"} :
             Responded(chat, chat', r, outcome) /\ chat.pending = <<>>
      BY <1>13, ResponseStep
    <2>2. UNCHANGED <<stored, view>> /\ ~config.stream
      BY <1>13 DEF Response, quietly, page
    <2>3. /\ r \in chat.aborted \/ r = chat.requestId
          /\ chat.isRequesting <=> chat.requestId \in chat.open /\ chat.requestId \notin chat.aborted
      BY <2>2, <1>a DEF FlagInv, WholeInv
    <2>4. chat.isStreaming = FALSE /\ chat'.isStreaming = FALSE /\ chat'.pending = <<>>
      BY <2>1, <2>2 DEF TypeInv, NoStreamInv, Responded
    <2>5. CASE r \in chat.aborted
      <3>1. chat'.messages = chat.messages /\ chat'.isRequesting = chat.isRequesting
        BY <2>1, <2>3, <2>5, FlagTypes DEF Responded
      <3> QED BY <2>1, <2>2, <2>4, <3>1, <1>b, SameIsCalm DEF IsGenerating
    <2>6. CASE r \notin chat.aborted
      <3> DEFINE m == chat.messages[Len(chat.messages)]
                 n == IF outcome = "choice" THEN Given(m, r) ELSE WithError(m)
      <3>1. Revised(chat.messages, chat'.messages, n) /\ chat'.isRequesting = FALSE
        BY <2>1, <2>3, <2>6 DEF Responded
      <3>2. Len(chat.messages) > 0 => ~IsPending(n)
        BY <1>c, LastIsMessage, PendingAfter
      <3> HIDE DEF n
      <3>3. ~IsGenerating(chat') /\ view'.generating
        BY <2>2, <2>3, <2>4, <2>6, <3>1 DEF IsGenerating, FlagInv, SeenInv
      <3> QED BY <2>2, <2>4, <3>1, <3>2, <3>3, <1>b, EndIsCalm
    <2> QED BY <2>5, <2>6
  <1>14. CASE FlushTimer
    <2>1. /\ Revised(chat.messages, chat'.messages, LastMessage) /\ SameStream(chat, chat')
          /\ chat'.pending = <<>> /\ chat'.isRequesting = chat.isRequesting
      BY <1>14, FlushStep
    <2>2. UNCHANGED <<stored, view>>
      BY <1>14 DEF FlushTimer, quietly, page
    <2>3. CASE ~IsGenerating(chat)
      <3>1. chat.pending = <<>>
        BY <2>3, <1>b DEF Calm
      <3>2. chat'.messages = chat.messages
        BY <2>1, <3>1, <1>c, RevisedBySame DEF LastMessage, Chunked
      <3> QED BY <2>1, <2>2, <3>1, <3>2, <1>b, SameIsCalm DEF IsGenerating, SameStream
    <2>4. CASE IsGenerating(chat)
      <3>1. LastPending(chat.messages) /\ view.generating
        BY <2>4, <1>b DEF Calm, FlagInv, SeenInv
      <3> DEFINE ms == chat.messages
                 m == ms[Len(ms)]
      <3>2. IsPending(m) /\ m.from = "assistant" /\ m \in Message /\ Len(ms) \in 1..Len(ms)
        BY <3>1, <1>c DEF LastPending
      <3>3. IsPending(LastMessage) /\ LastMessage.from = "assistant"
        BY <3>2, <1>c, PendingAfter, SameAuthor DEF LastMessage
      <3>4. LastPending(chat'.messages)
        BY <2>1, <3>1, <3>3 DEF Revised, LastPending
      <3>5. IsGenerating(chat')
        BY <2>1, <2>4 DEF IsGenerating, SameStream
      <3> QED BY <2>2, <3>1, <3>4, <3>5, <1>b DEF Calm
    <2> QED BY <2>3, <2>4
  <1>15. CASE SaveTimer
    <2>1. /\ SameStream(chat, chat') /\ chat'.messages = chat.messages /\ chat'.pending = chat.pending
          /\ chat'.isRequesting = chat.isRequesting
      BY <1>15, SaveStep
    <2>2. UNCHANGED view /\ (stored' = stored \/ stored' = TrimMessages(chat.messages))
      BY <1>15 DEF SaveTimer, SaveMessages
    <2>3. OnlyLastPending(stored')
      BY <2>2, <1>b, <1>c, TrimIsCalm DEF Calm
    <2> QED BY <2>1, <2>2, <2>3, <1>b DEF Calm, IsGenerating, SameStream
  <1>16. CASE Render
    <2>1. view' = Committed(chat) /\ UNCHANGED <<chat, stored>>
      BY <1>16 DEF Render, page
    <2>2. view'.messages = chat'.messages
      BY <2>1, <1>c, CommittedIsView
    <2> QED BY <2>1, <2>2, <1>b, SameIsCalm
  <1>17. CASE Mount
    <2>1. PICK ms \in Seq(Message) :
           /\ chat' = NewChat(ms) /\ view' = Committed(chat')
           /\ \/ ms \in LoadMessages(stored) /\ SaveMessages(ms)
              \/ ms = <<>> /\ damaged' = TRUE /\ stored' = stored /\ faults' = faults + 1
      BY <1>17, MountStep
    <2>2. /\ chat'.messages = ms /\ chat'.pending = <<>> /\ chat'.isStreaming = FALSE /\ chat'.isRequesting = FALSE
      BY <2>1, NewFields
    <2>3. view'.messages = chat'.messages
      BY <2>1, <1>c, CommittedIsView
    <2>4. NonePending(ms) /\ OnlyLastPending(stored')
      <3>1. CASE ms \in LoadMessages(stored) /\ SaveMessages(ms)
        <4>1. \E k \in Nat : Loaded(stored, ms, k)
          BY <3>1, LastIsMessage, LoadedList
        <4>2. NonePending(ms)
          BY <4>1, <1>b DEF Loaded, NonePending, Calm
        <4>3. stored' = stored \/ stored' = TrimMessages(ms)
          BY <3>1 DEF SaveMessages
        <4> QED BY <4>2, <4>3, <2>1, <1>b, TrimIsCalm DEF Calm
      <3>2. CASE ms = <<>> /\ stored' = stored
        BY <3>2, <1>b DEF Calm, NonePending
      <3> QED BY <2>1, <3>1, <3>2
    <2> QED BY <2>2, <2>3, <2>4 DEF Calm, IsGenerating
  <1>18. CASE Unmount \/ Reload
    <2>1. chat' = NewChat(<<>>) /\ view' = Committed(chat')
      BY <1>18 DEF Unmount, Reload, Commit
    <2>2. /\ chat'.messages = <<>> /\ chat'.pending = <<>> /\ chat'.isStreaming = FALSE /\ chat'.isRequesting = FALSE
      <3>1. <<>> \in Seq(Message)
        OBVIOUS
      <3> QED BY <2>1, <3>1, NewFields
    <2>3. view'.messages = chat'.messages
      BY <2>1, <1>c, CommittedIsView
    <2>4. stored' = stored \/ stored' = TrimMessages(chat.messages)
      BY <1>18 DEF Unmount, Reload, SaveMessages
    <2>5. OnlyLastPending(stored')
      BY <2>4, <1>b, <1>c, TrimIsCalm DEF Calm
    <2> QED BY <2>2, <2>3, <2>5 DEF Calm, IsGenerating, NonePending
  <1>19. CASE UNCHANGED vars
    BY <1>19, <1>b, SameIsCalm DEF vars
  <1>20. ~LeftSaves
    BY DEF LeftSaves
  <1> QED BY <1>1, <1>2, <1>3, <1>4, <1>5, <1>6, <1>7, <1>8, <1>9, <1>10, <1>11, <1>12, <1>13, <1>14,
             <1>15, <1>16, <1>17, <1>18, <1>19, <1>20 DEF Next, User

(* The lists are calm at the start. *)
LEMMA RestInit == Init => RestInv
  <1> SUFFICES ASSUME Init PROVE Calm
    BY DEF RestInv
  <1>1. /\ chat.messages = <<>> /\ chat.pending = <<>> /\ chat.isStreaming = FALSE /\ chat.isRequesting = FALSE
        /\ view.messages = <<>>
    BY DEF Init, NewChat
  <1>2. OnlyLastPending(stored)
    BY DEF Init, OnlyLastPending
  <1> QED BY <1>1, <1>2 DEF Calm, NonePending, IsGenerating

(* When the console offers the input again, no answer is left loading or   *)
(* streaming, for any history of sends, stops, errors, late chunks, lost   *)
(* tabs and loads, unless an edit was saved while an answer was generated. *)
(* Not inductive by itself: what is stored, what the user sees and what    *)
(* waits in the buffer have to be settled too.                             *)
THEOREM PlaygroundNothingPending == Spec => []NothingPendingAtRest
  <1>1. Init => TypeInv /\ FlagInv /\ RestInv
    BY TypeInit, FlagInit, RestInit
  <1>2. TypeInv /\ FlagInv /\ RestInv /\ [Next]_vars => (TypeInv /\ FlagInv /\ RestInv)'
    BY TypeStep, FlagStep, RestStep
  <1>3. TypeInv /\ RestInv => NothingPendingAtRest
    <2> SUFFICES ASSUME TypeInv, RestInv, ~IsGenerating(chat), ~crossed
                 PROVE  \A i \in DOMAIN chat.messages : ~IsPending(chat.messages[i])
      BY DEF NothingPendingAtRest
    <2>1. NonePending(chat.messages) /\ chat.messages \in Seq(Message)
      BY LastIsMessage DEF RestInv, Calm
    <2> QED BY <2>1 DEF NonePending
  <1> QED BY <1>1, <1>2, <1>3, PTL DEF Spec

----------------------------------------------------------------------------
(* Keys.                                                                   *)

(* No two messages have the same key, and the next ones are new.           *)
Distinct(ms, n) ==
    /\ \A i, j \in 1..Len(ms) : ms[i].key = ms[j].key => i = j
    /\ \A i \in 1..Len(ms) : ms[i].key <= n

KeyInv == ~crossed => Distinct(chat.messages, count.messages) /\ Distinct(stored, count.messages)

(* A page that is not open has no conversation.                            *)
PageInv == ~mounted => chat.messages = <<>> /\ chat.open = {}

(* A part of a list with distinct keys has distinct keys. *)
LEMMA ShiftedKeys ==
  ASSUME NEW ms \in Seq(Message), NEW ns \in Seq(Message), NEW k \in Nat, NEW n, Distinct(ms, n),
         k + Len(ns) <= Len(ms), \A i \in 1..Len(ns) : ns[i].key = ms[k + i].key
  PROVE  Distinct(ns, n)
  <1>1. Len(ms) \in Nat /\ Len(ns) \in Nat
    OBVIOUS
  <1>2. \A i \in 1..Len(ns) : k + i \in 1..Len(ms)
    BY <1>1
  <1>3. \A i, j \in 1..Len(ns) : ns[i].key = ns[j].key => i = j
    <2> SUFFICES ASSUME NEW i \in 1..Len(ns), NEW j \in 1..Len(ns), ns[i].key = ns[j].key PROVE i = j
      OBVIOUS
    <2>1. ms[k + i].key = ms[k + j].key /\ k + i \in 1..Len(ms) /\ k + j \in 1..Len(ms)
      BY <1>2
    <2>2. k + i = k + j
      BY <2>1 DEF Distinct
    <2> QED BY <2>2
  <1> QED BY <1>2, <1>3 DEF Distinct

(* Revising the last message keeps the keys distinct. *)
LEMMA RevisedKeys ==
  ASSUME NEW ms \in Seq(Message), NEW ns, NEW m, NEW n, Distinct(ms, n), Revised(ms, ns, m),
         Len(ms) > 0 => m.key = ms[Len(ms)].key
  PROVE  Distinct(ns, n)
  <1>1. ns \in Seq(Message) /\ Len(ns) = Len(ms) /\ Len(ms) \in Nat
    BY DEF Revised
  <1>2. \A i \in 1..Len(ns) : ns[i].key = ms[0 + i].key
    BY <1>1 DEF Revised
  <1>3. 0 \in Nat /\ 0 + Len(ns) <= Len(ms)
    BY <1>1
  <1> QED BY <1>1, <1>2, <1>3, ShiftedKeys

(* Trimming keeps the keys distinct. *)
LEMMA TrimmedKeys ==
  ASSUME NEW ms \in Seq(Message), NEW n, Distinct(ms, n)
  PROVE  Distinct(TrimMessages(ms), n)
  <1>1. PICK k \in Nat : EndOf(ms, TrimMessages(ms), k)
    BY TrimIsEnd
  <1> DEFINE p == TrimMessages(ms)
  <1> HIDE DEF p
  <1>2. p \in Seq(Message) /\ Len(ms) = k + Len(p) /\ \A i \in 1..Len(p) : p[i].key = ms[k + i].key
    BY <1>1 DEF EndOf, p
  <1>3. k + Len(p) <= Len(ms)
    BY <1>2
  <1>4. Distinct(p, n)
    BY <1>2, <1>3, ShiftedKeys
  <1> QED BY <1>4 DEF p

(* Completing a message keeps its key, author and request. *)
LEMMA FinalKeys ==
  ASSUME NEW m \in Message, NEW n \in Final(m)
  PROVE  n.key = m.key /\ n.from = m.from /\ n.req = m.req
  BY DEF Final, Complete, WithError, Message

(* Loading keeps the keys distinct. *)
LEMMA LoadedKeys ==
  ASSUME NEW ms \in Seq(Message), NEW ns, NEW k \in Nat, Loaded(ms, ns, k), NEW n, Distinct(ms, n)
  PROVE  Distinct(ns, n)
  <1>1. ns \in Seq(Message) /\ Len(ms) = k + Len(ns) /\ Len(ns) \in Nat
    BY DEF Loaded
  <1>2. \A i \in 1..Len(ns) : ns[i].key = ms[k + i].key
    <2> SUFFICES ASSUME NEW i \in 1..Len(ns) PROVE ns[i].key = ms[k + i].key
      OBVIOUS
    <2>1. k + i \in 1..Len(ms) /\ ns[i] \in Final(ms[k + i])
      BY <1>1 DEF Loaded
    <2>2. ms[k + i] \in Message
      BY <2>1
    <2> QED BY <2>1, <2>2, FinalKeys
  <1>3. k + Len(ns) <= Len(ms)
    BY <1>1
  <1> QED BY <1>1, <1>2, <1>3, ShiftedKeys

(* Removing a message keeps the keys distinct. *)
LEMMA RemovedKeys ==
  ASSUME NEW ms \in Seq(Message), NEW ns, NEW k \in 1..Len(ms), Removed(ms, ns, k), NEW n, Distinct(ms, n)
  PROVE  Distinct(ns, n)
  <1> DEFINE at(i) == IF i < k THEN i ELSE i + 1
  <1>1. Len(ms) \in Nat /\ Len(ns) = Len(ms) - 1 /\ Len(ns) \in Nat /\ ns \in Seq(Message)
    BY DEF Removed
  <1>2. \A i \in 1..Len(ns) : ns[i] = ms[at(i)] /\ at(i) \in 1..Len(ms)
    BY <1>1 DEF Removed
  <1>3. \A i, j \in 1..Len(ns) : at(i) = at(j) => i = j
    BY <1>1
  <1> HIDE DEF at
  <1>4. \A i, j \in 1..Len(ns) : ns[i].key = ns[j].key => i = j
    <2> SUFFICES ASSUME NEW i \in 1..Len(ns), NEW j \in 1..Len(ns), ns[i].key = ns[j].key PROVE i = j
      OBVIOUS
    <2>1. at(i) = at(j)
      BY <1>2 DEF Distinct
    <2> QED BY <2>1, <1>3
  <1>5. \A i \in 1..Len(ns) : ns[i].key <= n
    <2> SUFFICES ASSUME NEW i \in 1..Len(ns) PROVE ns[i].key <= n
      OBVIOUS
    <2>1. ns[i] = ms[at(i)] /\ at(i) \in 1..Len(ms)
      BY <1>2
    <2> QED BY <2>1 DEF Distinct
  <1> QED BY <1>4, <1>5 DEF Distinct

(* The new messages of a list that is sent have fresh keys. *)
LEMMA SubmittedKeys ==
  ASSUME TypeInv, NEW before \in Seq(Message), NEW news \in {0, 1}, NEW ms, Submitted(before, ms, news),
         Distinct(before, count.messages)
  PROVE  /\ Distinct(ms, count.messages + news + 1)
         /\ \A i \in 1..Len(ms) : i > Len(before) => ms[i].key > count.messages
  <1> DEFINE b == Len(before)
             c == count.messages
  <1>1. b \in Nat /\ c \in Nat /\ Len(ms) = b + news + 1 /\ ms \in Seq(Message)
    BY DEF TypeInv, Types, Submitted
  <1>a. \A i \in 1..b : before[i] \in Message
    OBVIOUS
  <1>2. \A i \in 1..b : ms[i] = before[i] /\ before[i].key <= c /\ before[i].key \in Nat
    BY <1>a DEF Submitted, Distinct, Message
  <1>3. \A i \in b + 1..Len(ms) : ms[i].key = c + (i - b)
    <2> SUFFICES ASSUME NEW i \in b + 1..Len(ms) PROVE ms[i].key = c + (i - b)
      OBVIOUS
    <2>1. CASE i = Len(ms)
      <3>1. ms[i].key = c + news + 1
        BY <2>1 DEF Submitted, LoadingAssistantMessage
      <3> QED BY <3>1, <2>1, <1>1
    <2>2. CASE i # Len(ms)
      <3>1. i \in b + 1..b + news
        BY <2>2, <1>1
      <3>2. ms[i] = UserMessage(c + (i - b))
        BY <3>1 DEF Submitted
      <3> QED BY <3>2 DEF UserMessage
    <2> QED BY <2>1, <2>2
  <1>4. \A i \in 1..Len(ms) : i \in 1..b \/ i \in b + 1..Len(ms)
    BY <1>1
  <1>5. \A i \in 1..Len(ms) : i > b => ms[i].key > c
    BY <1>1, <1>3, <1>4
  <1>6. \A i, j \in 1..Len(ms) : ms[i].key = ms[j].key => i = j
    <2> SUFFICES ASSUME NEW i \in 1..Len(ms), NEW j \in 1..Len(ms), ms[i].key = ms[j].key PROVE i = j
      OBVIOUS
    <2>1. CASE i \in 1..b /\ j \in 1..b
      BY <2>1, <1>2 DEF Distinct
    <2>2. CASE i \in b + 1..Len(ms) /\ j \in b + 1..Len(ms)
      BY <2>2, <1>1, <1>3
    <2>3. CASE i \in 1..b /\ j \in b + 1..Len(ms)
      BY <2>3, <1>1, <1>2, <1>3
    <2>4. CASE i \in b + 1..Len(ms) /\ j \in 1..b
      BY <2>4, <1>1, <1>2, <1>3
    <2> QED BY <2>1, <2>2, <2>3, <2>4, <1>4
  <1>7. \A i \in 1..Len(ms) : ms[i].key <= c + news + 1
    <2> SUFFICES ASSUME NEW i \in 1..Len(ms) PROVE ms[i].key <= c + news + 1
      OBVIOUS
    <2>1. CASE i \in 1..b
      BY <2>1, <1>1, <1>2
    <2>2. CASE i \in b + 1..Len(ms)
      BY <2>2, <1>1, <1>3
    <2> QED BY <2>1, <2>2, <1>4
  <1> QED BY <1>5, <1>6, <1>7 DEF Distinct

(* A final message is as it was, wherever its key is found after the step. *)
FinalStays ==
    \A i \in 1..Len(chat.messages), j \in 1..Len(chat'.messages) :
        /\ IsFinal(chat.messages[i]) /\ ~(Editable /\ editing = chat.messages[i].key)
        /\ chat'.messages[j].key = chat.messages[i].key
        => chat'.messages[j] = chat.messages[i]

KeysKept == Distinct(chat'.messages, count'.messages) /\ Distinct(stored', count'.messages)

(* A step that keeps the lists keeps the keys and the final answers. *)
LEMMA SameKeys ==
  ASSUME Distinct(chat.messages, count.messages), Distinct(stored, count.messages),
         count'.messages = count.messages, chat'.messages = chat.messages, UNCHANGED stored
  PROVE  KeysKept /\ FinalStays
  BY DEF KeysKept, FinalStays, Distinct

(* The answer that is revised was not final.                               *)
LEMMA RevisedStays ==
  ASSUME TypeInv, Distinct(chat.messages, count.messages), Distinct(stored, count.messages),
         count'.messages = count.messages, UNCHANGED stored, NEW n, Revised(chat.messages, chat'.messages, n),
         n.key = chat.messages[Len(chat.messages)].key, LastPending(chat.messages)
  PROVE  KeysKept /\ FinalStays
  <1> DEFINE ms == chat.messages
             ns == chat'.messages
  <1>1. ms \in Seq(Message) /\ Len(ms) \in Nat
    BY LastIsMessage
  <1>2. Distinct(ns, count.messages)
    BY <1>1, RevisedKeys
  <1>3. FinalStays
    <2> SUFFICES ASSUME NEW i \in 1..Len(ms), NEW j \in 1..Len(ns), IsFinal(ms[i]), ns[j].key = ms[i].key
                 PROVE  ns[j] = ms[i]
      BY DEF FinalStays
    <2>1. i # Len(ms)
      BY DEF LastPending, IsFinal, IsPending
    <2>2. Len(ns) = Len(ms) /\ ns[i] = ms[i] /\ i \in 1..Len(ns)
      BY <2>1 DEF Revised
    <2>3. i = j
      BY <2>2, <1>2 DEF Distinct
    <2> QED BY <2>2, <2>3
  <1> QED BY <1>2, <1>3 DEF KeysKept

(* What is submitted begins as the conversation, but for an edit.          *)
Begins(before) ==
    /\ Len(before) <= Len(chat.messages)
    /\ \A i \in 1..Len(before) :
         /\ before[i].key = chat.messages[i].key
         /\ before[i] = chat.messages[i] \/ (Editable /\ editing = chat.messages[i].key)

(* A submission at rest keeps the keys and the final answers. *)
LEMMA SubmitStays ==
  ASSUME TypeInv, Distinct(chat.messages, count.messages), Distinct(stored, count.messages), UNCHANGED stored,
         chat.pending = <<>>, NEW before \in Seq(Message), NEW news \in {0, 1}, NEW ms, Submits(before, news, ms), Begins(before)
  PROVE  KeysKept /\ FinalStays
  <1> DEFINE cs == chat.messages
             ns == chat'.messages
             r == count.requests + 1
  <1>1. /\ cs \in Seq(Message) /\ Len(cs) \in Nat /\ Len(before) \in Nat
        /\ ms \in Seq(Message) /\ Submitted(before, ms, news) /\ count'.messages = count.messages + news + 1
        /\ Len(ms) = Len(before) + news + 1 /\ count.messages \in Nat
    BY LastIsMessage, SMTT(20) DEF Submits, Submitted, TypeInv, Types
  <1>2. Distinct(before, count.messages)
    <2>1. \A i \in 1..Len(before) : before[i].key = cs[0 + i].key
      BY <1>1 DEF Begins
    <2>2. 0 \in Nat /\ 0 + Len(before) <= Len(cs)
      BY <1>1 DEF Begins
    <2> QED BY <1>1, <2>1, <2>2, ShiftedKeys, ZenonT(30)
  <1>3. /\ Distinct(ms, count'.messages)
        /\ \A i \in 1..Len(ms) : i > Len(before) => ms[i].key > count.messages
    BY <1>1, <1>2, SubmittedKeys
  <1>4. /\ ns \in Seq(Message) /\ Len(ns) = Len(ms)
        /\ \A i \in 1..Len(ms) : ns[i].key = ms[i].key /\ (i # Len(ms) => ns[i] = ms[i])
    <2>1. CASE ns = ms
      BY <2>1, <1>1
    <2>2. CASE Refused(chat, chat', ms, r)
      <3>1. Len(ms) \in 1..Len(ms)
        BY <1>1
      <3>2. Revised(ms, ns, WithError(ms[Len(ms)])) /\ ms[Len(ms)] \in Message
        BY <1>1, <2>2, <3>1 DEF Refused, Chunked
      <3>3. WithError(ms[Len(ms)]).key = ms[Len(ms)].key
        BY <3>2 DEF WithError, Message
      <3> QED BY <3>2, <3>3 DEF Revised
    <2> QED BY <2>1, <2>2 DEF Submits, Streams, Posts
  <1>5. Distinct(ns, count'.messages)
    BY <1>3, <1>4 DEF Distinct
  <1>6. Distinct(stored, count'.messages)
    <2>1. \A i \in 1..Len(stored) : stored[i].key \in Nat /\ stored[i].key <= count.messages
      <3>1. \A i \in 1..Len(stored) : stored[i] \in Message
        BY LastIsMessage
      <3> QED BY <3>1 DEF Distinct, Message
    <2>2. \A i \in 1..Len(stored) : stored[i].key <= count'.messages
      BY <1>1, <2>1
    <2> QED BY <2>2 DEF Distinct
  <1>7. FinalStays
    <2> SUFFICES ASSUME NEW i \in 1..Len(cs), NEW j \in 1..Len(ns), ~(Editable /\ editing = cs[i].key), ns[j].key = cs[i].key
                 PROVE  ns[j] = cs[i]
      BY DEF FinalStays
    <2>1. cs[i].key \in Nat /\ cs[i].key <= count.messages
      <3>1. cs[i] \in Message
        BY <1>1
      <3> QED BY <3>1 DEF Distinct, Message
    <2>2. ns[j].key = ms[j].key /\ j \in 1..Len(ms)
      BY <1>4
    <2>3. j <= Len(before)
      BY <2>1, <2>2, <1>1, <1>3, SMTT(20)
    <2>4. j \in 1..Len(before) /\ j # Len(ms) /\ j \in 1..Len(cs)
      BY <2>2, <2>3, <1>1 DEF Begins
    <2>5. ns[j] = before[j]
      BY <2>2, <2>4, <1>1, <1>4 DEF Submitted
    <2>6. cs[j].key = cs[i].key
      BY <2>4, <2>5 DEF Begins
    <2>7. j = i
      BY <2>4, <2>6 DEF Distinct
    <2> QED BY <2>4, <2>5, <2>7 DEF Begins
  <1> QED BY <1>5, <1>6, <1>7 DEF KeysKept

(* Every step keeps a closed page without a conversation. *)
LEMMA PageStep ==
  ASSUME TypeInv, PageInv, [Next]_vars
  PROVE  PageInv'
  <1>1. CASE User \/ FlushTimer \/ SaveTimer \/ Render
    <2>1. mounted' = TRUE
      BY <1>1 DEF TypeInv, Types, User, HandleSendMessage, HandleRegenerateMessage, HandleEditMessage,
         HandleEditOpenChange, SaveEdit, SaveEditAndSubmit, HandleDeleteMessage, HandleClearMessages, Stop,
         FlushTimer, SaveTimer, Render, Ready, Editable, quietly, page
    <2> QED BY <2>1 DEF PageInv
  <1>2. CASE StreamUpdate \/ StreamDone \/ StreamFails \/ StreamEndsSilently \/ Response
    <2>1. chat.open # {} /\ mounted' = mounted
      BY <1>2 DEF StreamUpdate, StreamDone, StreamFails, StreamEndsSilently, Response, quietly, page
    <2> QED BY <2>1 DEF PageInv
  <1>3. CASE Mount
    BY <1>3 DEF Mount, PageInv
  <1>4. CASE Unmount \/ Reload
    BY <1>4 DEF Unmount, Reload, Commit, PageInv, NewChat
  <1>5. CASE UNCHANGED vars
    BY <1>5 DEF vars, PageInv
  <1>6. CASE LeftSaves
    BY <1>6 DEF LeftSaves, PageInv
  <1> QED BY <1>1, <1>2, <1>3, <1>4, <1>5, <1>6 DEF Next

(* A beginning of the conversation that the user sees at rest.             *)
LEMMA PrefixBegins ==
  ASSUME TypeInv, view.messages = chat.messages, NEW j \in 0..Len(view.messages)
  PROVE  Begins(SubSeq(view.messages, 1, j))
  <1>1. view.messages \in Seq(Message) /\ Len(view.messages) \in Nat
    BY LastIsMessage
  <1> DEFINE p == SubSeq(view.messages, 1, j)
  <1>2. Len(p) = j /\ \A i \in 1..j : p[i] = view.messages[i]
    BY <1>1, PrefixIsCalm
  <1> HIDE DEF p
  <1>3. Begins(p)
    BY <1>1, <1>2 DEF Begins
  <1> QED BY <1>3 DEF p

(* A prefix of the edited list is one of the shown messages, but for the edit. *)
LEMMA EditedBegins ==
  ASSUME TypeInv, Editable, view.messages = chat.messages, NEW j \in 0..Len(Edited)
  PROVE  Begins(SubSeq(Edited, 1, j))
  <1> DEFINE k == IndexOf(view.messages, editing)
             p == SubSeq(Edited, 1, j)
  <1>1. /\ view.messages \in Seq(Message) /\ Len(view.messages) \in Nat
        /\ k \in 1..Len(view.messages) /\ view.messages[k].key = editing
        /\ Edited \in Seq(Message) /\ Len(Edited) = Len(view.messages)
        /\ \A i \in 1..Len(view.messages) :
             /\ Edited[i].key = view.messages[i].key
             /\ i # k => Edited[i] = view.messages[i]
    BY LastIsMessage, EditedIsCalm
  <1>2. Len(p) = j /\ \A i \in 1..j : p[i] = Edited[i]
    BY <1>1, PrefixIsCalm
  <1> HIDE DEF p, k
  <1>3. \A i \in 1..j : i \in 1..Len(view.messages)
    BY <1>1
  <1>4. Begins(p)
    BY <1>1, <1>2, <1>3 DEF Begins
  <1> QED BY <1>4 DEF p

(* The key of the last message stays when it is revised.                   *)
LEMMA LastKey ==
  ASSUME TypeInv, LastPending(chat.messages)
  PROVE  LET m == chat.messages[Len(chat.messages)]
         IN  /\ m \in Message
             /\ \A n \in {LastMessage, Settle(LastMessage), Finish(LastMessage), WithError(LastMessage), WithError(m)} :
                  n.key = m.key
             /\ \A r : Given(m, r).key = m.key
  <1> DEFINE m == chat.messages[Len(chat.messages)]
  <1>1. m \in Message /\ LastMessage \in Message /\ chat.pending \in Text
    BY LastIsMessage DEF LastPending
  <1>2. LastMessage.key = m.key
    BY <1>1, SameAuthor DEF LastMessage
  <1>3. /\ Settle(LastMessage).key = LastMessage.key /\ Finish(LastMessage).key = LastMessage.key
        /\ WithError(LastMessage).key = LastMessage.key
    BY <1>1, SameAuthor
  <1>4. WithError(m).key = m.key
    BY <1>1, SameAuthor
  <1>5. \A r : Given(m, r).key = m.key
    BY <1>1 DEF Given, Message
  <1> QED BY <1>1, <1>2, <1>3, <1>4, <1>5

(* Every step keeps the keys distinct and the final answers as they are. *)
LEMMA KeyStep ==
  ASSUME TypeInv, TypeInv', FlagInv, RestInv, KeyInv, PageInv, [Next]_vars, ~crossed'
  PROVE  KeysKept /\ (mounted' => FinalStays)
  <1>a. ~crossed
    BY CrossedStays
  <1>b. Calm /\ Distinct(chat.messages, count.messages) /\ Distinct(stored, count.messages)
    BY <1>a DEF RestInv, KeyInv
  <1>c. /\ chat.messages \in Seq(Message) /\ view.messages \in Seq(Message) /\ stored \in Seq(Message)
        /\ chat \in Chats /\ chat' \in Chats /\ chat.pending \in Text
    BY LastIsMessage, FlagTypes, FlagTypesAfter
  <1>d. IsGenerating(chat) => LastPending(chat.messages)
    BY <1>b DEF Calm
  <1>e. count \in [requests : 0..MaxRequests, messages : Nat, mounts : Nat, edits : Nat]
    BY DEF TypeInv, Types
  <1>1. CASE HandleSendMessage
    <2>1. /\ \E ms : Submits(view.messages, 1, ms)
          /\ ~view.generating /\ UNCHANGED stored
      BY <1>1, SubmitStep, SubmittedLists DEF HandleSendMessage, Ready, page
    <2>2. view.messages = chat.messages /\ chat.pending = <<>>
      BY <2>1, <1>b, AtRest
    <2>3. Begins(view.messages)
      BY <2>2, <1>c DEF Begins
    <2> QED BY <2>1, <2>2, <2>3, <1>b, <1>c, SubmitStays
  <1>2. CASE HandleRegenerateMessage
    <2>1. PICK i \in DOMAIN view.messages :
              Submit(SubSeq(view.messages, 1, IF view.messages[i].from = "user" THEN i ELSE i - 1), 0)
      BY <1>2 DEF HandleRegenerateMessage
    <2> DEFINE j == IF view.messages[i].from = "user" THEN i ELSE i - 1
               before == SubSeq(view.messages, 1, j)
    <2>2. j \in 0..Len(view.messages)
      BY <1>c
    <2> HIDE DEF j
    <2>3. ~view.generating /\ UNCHANGED stored
      BY <1>2 DEF HandleRegenerateMessage, Ready, page
    <2>4. view.messages = chat.messages /\ chat.pending = <<>>
      BY <2>3, <1>b, AtRest
    <2>5. before \in Seq(Message) /\ Begins(before)
      BY <2>2, <2>4, <1>c, PrefixIsCalm, PrefixBegins
    <2>6. Submit(before, 0)
      BY <2>1 DEF j
    <2> HIDE DEF before
    <2>7. \E ms : Submits(before, 0, ms)
      BY <2>5, <2>6, SubmitStep
    <2> QED BY <2>3, <2>4, <2>5, <2>7, <1>b, SubmitStays
  <1>3. CASE HandleEditMessage \/ HandleEditOpenChange
    <2>1. chat' = chat /\ stored' = stored
      BY <1>3 DEF HandleEditMessage, HandleEditOpenChange, page
    <2>2. count'.messages = count.messages
      BY <1>3, <1>e DEF HandleEditMessage, HandleEditOpenChange
    <2> QED BY <2>1, <2>2, <1>b, SameKeys
  <1>4. CASE SaveEdit
    <2>1. ~view.generating /\ UNCHANGED <<stored, count>> /\ Editable
      BY <1>4 DEF SaveEdit, Crosses, page
    <2>2. chat'.messages = Edited
      BY <1>4, SaveEditStep DEF Relisted
    <2>3. view.messages = chat.messages
      BY <2>1, <1>b, AtRest
    <2> DEFINE k == IndexOf(view.messages, editing)
    <2>4. /\ k \in 1..Len(chat.messages) /\ chat.messages[k].key = editing
          /\ Edited \in Seq(Message) /\ Len(Edited) = Len(chat.messages)
          /\ \A i \in 1..Len(chat.messages) :
               /\ Edited[i].key = chat.messages[i].key
               /\ i # k => Edited[i] = chat.messages[i]
      BY <2>1, <2>3, EditedIsCalm
    <2> HIDE DEF k
    <2>5. Distinct(chat'.messages, count.messages)
      BY <2>2, <2>4, <1>b DEF Distinct
    <2>6. FinalStays
      <3> SUFFICES ASSUME NEW i \in 1..Len(chat.messages), NEW j \in 1..Len(chat'.messages),
                          editing # chat.messages[i].key, chat'.messages[j].key = chat.messages[i].key
                   PROVE  chat'.messages[j] = chat.messages[i]
        BY <2>1 DEF FinalStays
      <3>1. j \in 1..Len(chat.messages) /\ chat.messages[j].key = chat.messages[i].key
        BY <2>2, <2>4
      <3>2. j = i /\ j # k
        BY <3>1, <2>4, <1>b DEF Distinct
      <3> QED BY <3>1, <3>2, <2>2, <2>4
    <2> QED BY <2>1, <2>5, <2>6, <1>b DEF KeysKept
  <1>5. CASE SaveEditAndSubmit
    <2>1. ~view.generating /\ UNCHANGED stored /\ Editable
      BY <1>5 DEF SaveEditAndSubmit, Crosses, page
    <2> DEFINE k == IndexOf(view.messages, editing)
               before == SubSeq(Edited, 1, k)
    <2>2. Edited \in Seq(Message) /\ k \in 1..Len(Edited)
      BY <2>1, EditedIsCalm
    <2>3. Submit(before, 0)
      BY <1>5 DEF SaveEditAndSubmit
    <2> HIDE DEF k
    <2>4. k \in 0..Len(Edited)
      BY <2>2
    <2>5. view.messages = chat.messages /\ chat.pending = <<>>
      BY <2>1, <1>b, AtRest
    <2>6. before \in Seq(Message) /\ Begins(before)
      BY <2>1, <2>2, <2>4, <2>5, PrefixIsCalm, EditedBegins
    <2> HIDE DEF before
    <2>7. \E ms : Submits(before, 0, ms)
      BY <2>3, <2>6, SubmitStep
    <2> QED BY <2>1, <2>5, <2>6, <2>7, <1>b, SubmitStays
  <1>6. CASE HandleDeleteMessage
    <2>1. ~view.generating /\ UNCHANGED stored
      BY <1>6 DEF HandleDeleteMessage, Ready, page
    <2>2. count'.messages = count.messages
      BY <1>6, <1>e DEF HandleDeleteMessage
    <2>3. PICK i \in 1..Len(view.messages) :
              Relisted(chat, chat', RemoveMessageByKey(chat.messages, view.messages[i].key))
      BY <1>6, DeleteStep
    <2> DEFINE key == view.messages[i].key
               ns == RemoveMessageByKey(chat.messages, key)
    <2> HIDE DEF key
    <2>4. \/ ns = chat.messages
          \/ \E k \in 1..Len(chat.messages) : Removed(chat.messages, ns, k)
      BY <1>c, RemovedList
    <2>5. chat'.messages = ns
      BY <2>3 DEF Relisted, ns, key
    <2> HIDE DEF ns
    <2>6. CASE ns = chat.messages
      BY <2>1, <2>2, <2>5, <2>6, <1>b, SameKeys
    <2>7. CASE \E k \in 1..Len(chat.messages) : Removed(chat.messages, ns, k)
      <3>1. PICK k \in 1..Len(chat.messages) : Removed(chat.messages, ns, k)
        BY <2>7
      <3>2. Distinct(ns, count.messages)
        BY <3>1, <1>b, <1>c, RemovedKeys
      <3>3. \A j \in 1..Len(ns) : j \in 1..Len(chat.messages) /\ j + 1 \in 1..Len(chat.messages)
        BY <3>1, <1>c DEF Removed
      <3>4. \A j \in 1..Len(ns) : \E h \in 1..Len(chat.messages) : ns[j] = chat.messages[h]
        BY <3>1, <3>3 DEF Removed
      <3>5. FinalStays
        BY <3>4, <2>5, <1>b DEF FinalStays, Distinct
      <3> QED BY <2>1, <2>2, <2>5, <3>2, <3>5, <1>b DEF KeysKept
    <2> QED BY <2>4, <2>6, <2>7
  <1>7. CASE HandleClearMessages
    <2>1. UNCHANGED <<stored, count>>
      BY <1>7 DEF HandleClearMessages, page
    <2>2. chat'.messages = <<>>
      BY <1>7, ClearStep DEF Relisted
    <2> QED BY <2>1, <2>2, <1>b DEF KeysKept, FinalStays, Distinct
  <1>8. CASE Stop
    <2>1. Revised(chat.messages, chat'.messages, Settle(LastMessage))
      BY <1>8, StopStep
    <2>2. UNCHANGED <<stored, count>>
      BY <1>8 DEF Stop, page
    <2>3. CASE IsGenerating(chat)
      BY <2>1, <2>2, <2>3, <1>b, <1>d, LastKey, RevisedStays
    <2>4. CASE ~IsGenerating(chat)
      <3> DEFINE m == chat.messages[Len(chat.messages)]
      <3>1. chat.pending = <<>> /\ NonePending(chat.messages)
        BY <2>4, <1>b DEF Calm
      <3>2. LastMessage = m
        BY <3>1 DEF LastMessage, Chunked
      <3>3. Revised(chat.messages, chat'.messages, m)
        <4>1. CASE Len(chat.messages) = 0
          BY <4>1, <2>1 DEF Revised
        <4>2. CASE Len(chat.messages) # 0
          <5>1. Len(chat.messages) \in 1..Len(chat.messages)
            BY <4>2, <1>c
          <5>2. ~IsPending(m)
            BY <5>1, <3>1 DEF NonePending
          <5> QED BY <5>2, <3>2, <2>1 DEF Settle
        <4> QED BY <4>1, <4>2
      <3>4. chat'.messages = chat.messages
        BY <3>3, <1>c, RevisedBySame
      <3> QED BY <2>2, <3>4, <1>b, SameKeys
    <2> QED BY <2>3, <2>4
  <1>9. CASE StreamUpdate \/ StreamEndsSilently
    <2>1. chat'.messages = chat.messages
      BY <1>9, PieceStep, SilentStep
    <2>2. UNCHANGED <<stored, count>>
      BY <1>9 DEF StreamUpdate, StreamEndsSilently, quietly, page
    <2> QED BY <2>1, <2>2, <1>b, SameKeys
  <1>10. CASE StreamDone
    <2>1. PICK r \in chat.open : Revised(chat.messages, chat'.messages, Finish(LastMessage))
      BY <1>10, DoneStep
    <2>2. config.stream /\ UNCHANGED <<stored, count>>
      BY <1>10 DEF StreamDone, quietly, page
    <2>3. LastPending(chat.messages)
      BY <2>2, <1>d, FlagTypes DEF FlagInv, StreamInv, IsGenerating
    <2> QED BY <2>1, <2>2, <2>3, <1>b, LastKey, RevisedStays
  <1>11. CASE StreamFails
    <2>1. config.stream /\ UNCHANGED <<stored, count>>
      BY <1>11 DEF StreamFails, quietly, page
    <2>2. CASE UNCHANGED chat
      BY <2>1, <2>2, <1>b, SameKeys
    <2>3. CASE \E r \in chat.open : Revised(chat.messages, chat'.messages, WithError(LastMessage))
      <3>1. LastPending(chat.messages)
        BY <2>1, <2>3, <1>d, FlagTypes DEF FlagInv, StreamInv, IsGenerating
      <3> QED BY <2>1, <2>3, <3>1, <1>b, LastKey, RevisedStays
    <2> QED BY <1>11, <2>2, <2>3, FailStep
  <1>13. CASE Response
    <2>1. PICK r \in chat.open, outcome \in {"choice", "none", "failure"} :
             Responded(chat, chat', r, outcome) /\ chat.pending = <<>>
      BY <1>13, ResponseStep
    <2>2. UNCHANGED <<stored, count>> /\ ~config.stream
      BY <1>13 DEF Response, quietly, page
    <2>3. CASE r \in chat.aborted
      <3>1. chat'.messages = chat.messages
        BY <2>1, <2>3 DEF Responded
      <3> QED BY <2>2, <3>1, <1>b, SameKeys
    <2>4. CASE r \notin chat.aborted
      <3> DEFINE m == chat.messages[Len(chat.messages)]
                 n == IF outcome = "choice" THEN Given(m, r) ELSE WithError(m)
      <3>1. Revised(chat.messages, chat'.messages, n)
        BY <2>1, <2>4 DEF Responded
      <3>2. chat.isRequesting
        BY <2>2, <2>4, <1>a DEF FlagInv, WholeInv
      <3>3. LastPending(chat.messages)
        BY <3>2, <1>d DEF IsGenerating
      <3>4. n.key = m.key
        BY <3>3, LastKey
      <3> HIDE DEF n
      <3> QED BY <2>2, <3>1, <3>3, <3>4, <1>b, RevisedStays
    <2> QED BY <2>3, <2>4
  <1>14. CASE FlushTimer
    <2>1. Revised(chat.messages, chat'.messages, LastMessage)
      BY <1>14, FlushStep
    <2>2. UNCHANGED <<stored, count>>
      BY <1>14 DEF FlushTimer, quietly, page
    <2>3. CASE ~IsGenerating(chat)
      <3>1. chat.pending = <<>>
        BY <2>3, <1>b DEF Calm
      <3>2. chat'.messages = chat.messages
        BY <2>1, <3>1, <1>c, RevisedBySame DEF LastMessage, Chunked
      <3> QED BY <2>2, <3>2, <1>b, SameKeys
    <2>4. CASE IsGenerating(chat)
      BY <2>1, <2>2, <2>4, <1>b, <1>d, LastKey, RevisedStays
    <2> QED BY <2>3, <2>4
  <1>15. CASE SaveTimer
    <2>1. chat'.messages = chat.messages
      BY <1>15, SaveStep
    <2>2. UNCHANGED count /\ (stored' = stored \/ stored' = TrimMessages(chat.messages))
      BY <1>15 DEF SaveTimer, SaveMessages
    <2>3. Distinct(stored', count.messages)
      BY <2>2, <1>b, <1>c, TrimmedKeys
    <2> QED BY <2>1, <2>2, <2>3, <1>b DEF KeysKept, FinalStays, Distinct
  <1>16. CASE Render \/ UNCHANGED vars
    BY <1>16, <1>b, SameKeys DEF Render, page, vars
  <1>17. CASE Mount
    <2>1. PICK ms \in Seq(Message) :
           /\ chat' = NewChat(ms)
           /\ \/ ms \in LoadMessages(stored) /\ SaveMessages(ms)
              \/ ms = <<>> /\ damaged' = TRUE /\ stored' = stored /\ faults' = faults + 1
      BY <1>17, MountStep
    <2>2. chat'.messages = ms
      BY <2>1, NewFields
    <2>3. count'.messages = count.messages
      BY <1>17, <1>e DEF Mount
    <2>4. chat.messages = <<>>
      BY <1>17 DEF Mount, PageInv
    <2>5. Distinct(ms, count.messages) /\ Distinct(stored', count.messages)
      <3>1. CASE ms \in LoadMessages(stored) /\ SaveMessages(ms)
        <4>1. PICK k \in Nat : Loaded(stored, ms, k)
          BY <3>1, <1>c, LoadedList
        <4>2. Distinct(ms, count.messages)
          BY <4>1, <1>b, <1>c, LoadedKeys
        <4>3. stored' = stored \/ stored' = TrimMessages(ms)
          BY <3>1 DEF SaveMessages
        <4> QED BY <4>2, <4>3, <2>1, <1>b, TrimmedKeys
      <3>2. CASE ms = <<>> /\ stored' = stored
        BY <3>2, <1>b DEF Distinct
      <3> QED BY <2>1, <3>1, <3>2
    <2> QED BY <2>2, <2>3, <2>4, <2>5 DEF KeysKept, FinalStays
  <1>18. CASE Unmount \/ Reload
    <2>1. chat' = NewChat(<<>>) /\ ~mounted' /\ UNCHANGED count
      BY <1>18 DEF Unmount, Reload, Commit
    <2>2. chat'.messages = <<>>
      BY <2>1 DEF NewChat
    <2>3. stored' = stored \/ stored' = TrimMessages(chat.messages)
      BY <1>18 DEF Unmount, Reload, SaveMessages
    <2>4. Distinct(stored', count.messages)
      BY <2>3, <1>b, <1>c, TrimmedKeys
    <2> QED BY <2>1, <2>2, <2>4 DEF KeysKept, Distinct
  <1>19. ~LeftSaves
    BY DEF LeftSaves
  <1> QED BY <1>1, <1>2, <1>3, <1>4, <1>5, <1>6, <1>7, <1>8, <1>9, <1>10, <1>11, <1>13, <1>14,
             <1>15, <1>16, <1>17, <1>18, <1>19 DEF Next, User

(* The keys are distinct at the start. *)
LEMMA KeyInit == Init => KeyInv /\ PageInv
  <1> SUFFICES ASSUME Init PROVE KeyInv /\ PageInv
    OBVIOUS
  <1>1. chat.messages = <<>> /\ chat.open = {}
    BY DEF Init, NewChat
  <1>2. stored = <<>>
    BY DEF Init
  <1> QED BY <1>1, <1>2 DEF KeyInv, PageInv, Distinct

(* An answer that is final stays as it is until the user edits or removes  *)
(* it: no late chunk, response, error or timer reopens or changes it, for  *)
(* any number of requests, stops, deletions and visits.  The keys have to  *)
(* stay distinct for this, in what is stored too, and only the last answer *)
(* may be pending, and only while the console is busy.                     *)
THEOREM PlaygroundFinalStays == Spec => FinalAnswerStays
  <1> DEFINE I == TypeInv /\ FlagInv /\ RestInv /\ KeyInv /\ PageInv
  <1>1. Init => I
    BY TypeInit, FlagInit, RestInit, KeyInit
  <1>2. I /\ [Next]_vars => I'
    <2> SUFFICES ASSUME I, [Next]_vars PROVE I'
      OBVIOUS
    <2>1. TypeInv' /\ FlagInv' /\ RestInv' /\ PageInv'
      BY TypeStep, FlagStep, RestStep, PageStep
    <2>2. KeyInv'
      BY <2>1, KeyStep DEF KeyInv, KeysKept
    <2> QED BY <2>1, <2>2
  <1>3. I /\ TypeInv' /\ [Next]_vars =>
          \A i \in DOMAIN chat.messages :
            /\ IsFinal(chat.messages[i]) /\ mounted' /\ ~crossed'
            /\ ~(Editable /\ editing = chat.messages[i].key)
            /\ HasKey(chat'.messages, chat.messages[i].key)
            => chat.messages[i] = chat'.messages[IndexOf(chat'.messages, chat.messages[i].key)]
    <2> SUFFICES ASSUME I, TypeInv', [Next]_vars, NEW i \in DOMAIN chat.messages,
                        IsFinal(chat.messages[i]), mounted', ~crossed',
                        ~(Editable /\ editing = chat.messages[i].key),
                        HasKey(chat'.messages, chat.messages[i].key)
                 PROVE  chat.messages[i] = chat'.messages[IndexOf(chat'.messages, chat.messages[i].key)]
      OBVIOUS
    <2> DEFINE key == chat.messages[i].key
               j == IndexOf(chat'.messages, key)
    <2>1. FinalStays
      BY KeyStep
    <2>2. j \in DOMAIN chat'.messages /\ chat'.messages[j].key = key
      BY DEF HasKey, IndexOf
    <2>3. chat.messages \in Seq(Message) /\ chat'.messages \in Seq(Message)
      BY LastIsMessage, FlagTypesAfter DEF Chats
    <2>4. i \in 1..Len(chat.messages) /\ j \in 1..Len(chat'.messages)
      BY <2>2, <2>3
    <2> HIDE DEF j
    <2>5. chat'.messages[j] = chat.messages[i]
      BY <2>1, <2>2, <2>4 DEF FinalStays
    <2> QED BY <2>5 DEF j
  <1>4. I /\ [Next]_vars => TypeInv'
    BY <1>2
  <1> HIDE DEF I
  <1> QED BY <1>1, <1>2, <1>3, <1>4, PTL DEF Spec, FinalAnswerStays

----------------------------------------------------------------------------
(* The texts of the answers.                                               *)

(* A text is empty exactly if its length is 0, and its words are at 1, 2,  *)
(* and so on.                                                              *)
LEMMA TextLength ==
  ASSUME NEW t \in Text
  PROVE  Len(t) \in Nat /\ (t = <<>> <=> Len(t) = 0) /\ DOMAIN t = 1..Len(t)
  BY DEF Text

(* Texts with the same words are equal. *)
LEMMA TextEqual ==
  ASSUME NEW t \in Text, NEW u \in Text, Len(t) = Len(u), \A k \in 1..Len(t) : t[k] = u[k]
  PROVE  t = u
  BY SeqEqual DEF Text

(* A text after another one. *)
LEMMA TextConcat ==
  ASSUME NEW t \in Text, NEW u \in Text
  PROVE  /\ t \o u \in Text /\ Len(t \o u) = Len(t) + Len(u)
         /\ \A i \in 1..Len(t) : i \in 1..Len(t) + Len(u) /\ (t \o u)[i] = t[i]
         /\ \A i \in 1..Len(u) : Len(t) + i \in 1..Len(t) + Len(u) /\ (t \o u)[Len(t) + i] = u[i]
  <1> DEFINE P == (0..MaxRequests) \X Nat
             c == t \o u
  <1>1. t \in Seq(P) /\ u \in Seq(P) /\ Len(t) \in Nat /\ Len(u) \in Nat
    BY DEF Text
  <1> HIDE DEF P
  <1>2. /\ c \in Seq(P) /\ Len(c) = Len(t) + Len(u)
        /\ \A i \in 1..Len(t) + Len(u) : c[i] = IF i <= Len(t) THEN t[i] ELSE u[i - Len(t)]
    BY <1>1, ConcatProperties
  <1> HIDE DEF c
  <1>3. \A i \in 1..Len(t) : i \in 1..Len(t) + Len(u) /\ i <= Len(t)
    BY <1>1
  <1>4. \A i \in 1..Len(u) : /\ Len(t) + i \in 1..Len(t) + Len(u) /\ ~(Len(t) + i <= Len(t))
                             /\ Len(t) + i - Len(t) = i
    BY <1>1
  <1>5. \A i \in 1..Len(t) : c[i] = t[i]
    BY <1>2, <1>3
  <1>6. \A i \in 1..Len(u) : c[Len(t) + i] = u[i]
    BY <1>2, <1>4
  <1> QED BY <1>2, <1>3, <1>4, <1>5, <1>6 DEF Text, P, c

(* A beginning of a text, by its words.                                    *)
LEMMA PrefixWords ==
  ASSUME NEW t \in Text, NEW u \in Text
  PROVE  IsPrefix(t, u) <=> Len(t) <= Len(u) /\ \A k \in 1..Len(t) : t[k] = u[k]
  <1>1. CASE ~(Len(t) <= Len(u))
    BY <1>1 DEF IsPrefix
  <1>2. CASE Len(t) <= Len(u)
    <2> DEFINE p == SubSeq(t, 1, Len(t))
               q == SubSeq(u, 1, Len(t))
               P == (0..MaxRequests) \X Nat
    <2>1. Len(t) \in Nat /\ Len(u) \in Nat /\ t \in Seq(P) /\ u \in Seq(P)
      BY DEF Text
    <2> HIDE DEF P
    <2>2. \A k \in 1..Len(t) : t[k] \in P /\ u[k] \in P
      BY <1>2, <2>1
    <2>3. /\ p \in Seq(P) /\ Len(p) = Len(t) /\ \A k \in 1..Len(t) : p[k] = t[k]
          /\ q \in Seq(P) /\ Len(q) = Len(t) /\ \A k \in 1..Len(t) : q[k] = u[k]
      <3>1. /\ p \in Seq(P) /\ Len(p) = (IF 1 <= Len(t) THEN Len(t) - 1 + 1 ELSE 0)
            /\ \A k \in 1..Len(t) - 1 + 1 : p[k] = t[1 + k - 1]
        BY <2>1, <2>2, SubSeqProperties
      <3>2. /\ q \in Seq(P) /\ Len(q) = (IF 1 <= Len(t) THEN Len(t) - 1 + 1 ELSE 0)
            /\ \A k \in 1..Len(t) - 1 + 1 : q[k] = u[1 + k - 1]
        BY <2>1, <2>2, SubSeqProperties
      <3> HIDE DEF p, q
      <3> QED BY <2>1, <3>1, <3>2
    <2>4. IsPrefix(t, u) <=> p = q
      BY <1>2 DEF IsPrefix
    <2> HIDE DEF p, q
    <2>5. p = q <=> \A k \in 1..Len(t) : t[k] = u[k]
      <3>1. (\A k \in 1..Len(t) : t[k] = u[k]) => p = q
        BY <2>3, SeqEqual
      <3> QED BY <2>3, <3>1
    <2> QED BY <1>2, <2>4, <2>5
  <1> QED BY <1>1, <1>2

(* Beginnings of beginnings, of a text itself, and of a longer one. *)
LEMMA PrefixOrder ==
  ASSUME NEW t \in Text, NEW u \in Text
  PROVE  /\ IsPrefix(<<>>, t) /\ IsPrefix(t, t) /\ IsPrefix(t, t \o u)
         /\ \A w \in Text : IsPrefix(t, u) /\ IsPrefix(u, w) => IsPrefix(t, w)
  <1>1. Len(t) \in Nat /\ Len(u) \in Nat /\ t \o u \in Text /\ Len(t \o u) = Len(t) + Len(u)
        /\ \A k \in 1..Len(t) : (t \o u)[k] = t[k]
    BY TextLength, TextConcat
  <1>2. <<>> \in Text
    BY DEF Text
  <1>3. IsPrefix(<<>>, t) /\ IsPrefix(t, t)
    BY <1>1, <1>2, PrefixWords
  <1>4. IsPrefix(t, t \o u)
    <2> DEFINE w == t \o u
    <2>1. w \in Text /\ Len(t) <= Len(w) /\ \A k \in 1..Len(t) : t[k] = w[k]
      BY <1>1
    <2> HIDE DEF w
    <2>2. IsPrefix(t, w)
      BY <2>1, PrefixWords
    <2> QED BY <2>2 DEF w
  <1>5. ASSUME NEW w \in Text, IsPrefix(t, u), IsPrefix(u, w) PROVE IsPrefix(t, w)
    <2>1. Len(t) <= Len(u) /\ (\A k \in 1..Len(t) : t[k] = u[k])
          /\ Len(u) <= Len(w) /\ (\A k \in 1..Len(u) : u[k] = w[k]) /\ Len(w) \in Nat
      BY <1>5, PrefixWords, TextLength
    <2>2. Len(t) <= Len(w) /\ \A k \in 1..Len(t) : k \in 1..Len(u)
      BY <1>1, <2>1
    <2>3. \A k \in 1..Len(t) : t[k] = w[k]
      BY <2>1, <2>2
    <2> QED BY <2>2, <2>3, PrefixWords
  <1> QED BY <1>3, <1>4, <1>5

(* What a snapshot adds to the text that it begins with. *)
LEMMA PrefixRest ==
  ASSUME NEW t \in Text, NEW u \in Text, IsPrefix(t, u)
  PROVE  t \o SubSeq(u, Len(t) + 1, Len(u)) = u
  <1> DEFINE P == (0..MaxRequests) \X Nat
             a == Len(t)
             n == Len(u)
             c == SubSeq(u, a + 1, n)
             w == t \o c
  <1>0. a <= n /\ \A k \in 1..a : t[k] = u[k]
    BY PrefixWords
  <1>1. /\ a \in Nat /\ n \in Nat /\ t \in Seq(P) /\ u \in Seq(P)
        /\ a <= n /\ \A k \in 1..a : t[k] = u[k]
    BY <1>0 DEF Text
  <1> HIDE DEF P
  <1>2. a + 1 \in Int /\ n \in Int /\ \A i \in a + 1..n : u[i] \in P
    BY <1>1
  <1>3. /\ c \in Seq(P) /\ Len(c) = (IF a + 1 <= n THEN n - (a + 1) + 1 ELSE 0)
        /\ \A k \in 1..n - (a + 1) + 1 : c[k] = u[a + 1 + k - 1]
    BY <1>1, <1>2, SubSeqProperties
  <1> HIDE DEF c
  <1>4. Len(c) = n - a /\ \A k \in 1..n - a : c[k] = u[a + k]
    BY <1>1, <1>3
  <1>5. c \in Text
    BY <1>3 DEF Text, P
  <1>6. /\ w \in Text /\ Len(w) = a + Len(c)
        /\ (\A i \in 1..a : w[i] = t[i]) /\ \A i \in 1..Len(c) : w[a + i] = c[i]
    BY <1>5, TextConcat
  <1> HIDE DEF w
  <1>7. \A i \in 1..n : w[i] = u[i]
    <2> SUFFICES ASSUME NEW i \in 1..n PROVE w[i] = u[i]
      OBVIOUS
    <2>1. CASE i \in 1..a
      BY <2>1, <1>1, <1>6
    <2>2. CASE i \notin 1..a
      <3>1. i - a \in 1..Len(c) /\ i - a \in 1..n - a /\ a + (i - a) = i
        BY <2>2, <1>1, <1>4
      <3>2. w[a + (i - a)] = c[i - a] /\ c[i - a] = u[a + (i - a)]
        BY <3>1, <1>4, <1>6
      <3> QED BY <3>1, <3>2
    <2> QED BY <2>1, <2>2
  <1>8. Len(w) = Len(u)
    BY <1>1, <1>4, <1>6
  <1>9. w = u
    BY <1>6, <1>7, <1>8, TextEqual
  <1> QED BY <1>9 DEF w, c

(* The words of s at places of t, in order.                                *)
Places(s, t, f) ==
    /\ f \in [1..Len(s) -> 1..Len(t)] /\ \A i \in 1..Len(s) : s[i] = t[f[i]]
    /\ \A i, j \in 1..Len(s) : i < j => f[i] < f[j]

(* A subsequence, by the places of its words. *)
LEMMA SubPlaces ==
  ASSUME NEW s \in Text, NEW t \in Text
  PROVE  IsSubsequence(s, t) <=> \E f : Places(s, t, f)
  <1>1. DOMAIN s = 1..Len(s) /\ DOMAIN t = 1..Len(t)
    BY TextLength
  <1> QED BY <1>1, Zenon DEF IsSubsequence, Places

(* A subsequence of a subsequence. *)
LEMMA SubOrder ==
  ASSUME NEW s \in Text, NEW t \in Text, NEW u \in Text, IsSubsequence(s, t), IsSubsequence(t, u)
  PROVE  IsSubsequence(s, u)
  <1>1. PICK f : Places(s, t, f)
    BY SubPlaces
  <1>2. PICK g : Places(t, u, g)
    BY SubPlaces
  <1> DEFINE h == [i \in 1..Len(s) |-> g[f[i]]]
  <1>3. \A i \in 1..Len(s) : f[i] \in 1..Len(t) /\ g[f[i]] \in 1..Len(u) /\ s[i] = u[g[f[i]]]
    BY <1>1, <1>2 DEF Places
  <1>4. \A i, j \in 1..Len(s) : i < j => g[f[i]] < g[f[j]]
    BY <1>1, <1>2, <1>3 DEF Places
  <1>5. Places(s, u, h)
    BY <1>3, <1>4 DEF Places
  <1> QED BY <1>5, SubPlaces

(* A beginning and an end of a text are subsequences of it. *)
LEMMA SubEnds ==
  ASSUME NEW s \in Text, NEW t \in Text
  PROVE  (IsPrefix(s, t) => IsSubsequence(s, t)) /\ IsSubsequence(t, s \o t)
  <1>1. Len(s) \in Nat /\ Len(t) \in Nat
    BY TextLength
  <1>2. IsPrefix(s, t) => IsSubsequence(s, t)
    <2> SUFFICES ASSUME IsPrefix(s, t) PROVE IsSubsequence(s, t)
      OBVIOUS
    <2> DEFINE f == [i \in 1..Len(s) |-> i]
    <2>1. Len(s) <= Len(t) /\ \A k \in 1..Len(s) : s[k] = t[k]
      BY PrefixWords
    <2>2. \A i \in 1..Len(s) : i \in 1..Len(t)
      BY <1>1, <2>1
    <2>3. Places(s, t, f)
      BY <2>1, <2>2 DEF Places
    <2> QED BY <2>3, SubPlaces
  <1>3. IsSubsequence(t, s \o t)
    <2> DEFINE u == s \o t
               f == [i \in 1..Len(t) |-> Len(s) + i]
    <2>1. /\ u \in Text /\ Len(u) = Len(s) + Len(t)
          /\ \A i \in 1..Len(t) : Len(s) + i \in 1..Len(s) + Len(t) /\ u[Len(s) + i] = t[i]
      BY TextConcat
    <2> HIDE DEF u
    <2>2. \A i, j \in 1..Len(t) : i < j => Len(s) + i < Len(s) + j
      BY <1>1
    <2>3. Places(t, u, f)
      BY <2>1, <2>2 DEF Places
    <2>4. IsSubsequence(t, u)
      BY <2>1, <2>3, SubPlaces
    <2> QED BY <2>4 DEF u
  <1> QED BY <1>2, <1>3

(* The same words after both. *)
LEMMA SubConcat ==
  ASSUME NEW s \in Text, NEW t \in Text, NEW d \in Text, IsSubsequence(s, t)
  PROVE  IsSubsequence(s \o d, t \o d)
  <1>1. PICK f : Places(s, t, f)
    BY SubPlaces
  <1> DEFINE a == Len(s)
             b == Len(t)
             n == Len(d)
             p == s \o d
             q == t \o d
             g == [i \in 1..a + n |-> IF i <= a THEN f[i] ELSE b + (i - a)]
  <1>2. a \in Nat /\ b \in Nat /\ n \in Nat
    BY TextLength
  <1>3. /\ p \in Text /\ Len(p) = a + n
        /\ (\A i \in 1..a : p[i] = s[i]) /\ (\A i \in 1..n : p[a + i] = d[i])
    BY TextConcat
  <1>4. /\ q \in Text /\ Len(q) = b + n
        /\ (\A i \in 1..b : q[i] = t[i]) /\ (\A i \in 1..n : q[b + i] = d[i])
    BY TextConcat
  <1> HIDE DEF p, q
  <1>5. \A i \in 1..a : f[i] \in 1..b /\ s[i] = t[f[i]]
    BY <1>1 DEF Places
  <1>6. \A i, j \in 1..a : i < j => f[i] < f[j]
    BY <1>1 DEF Places
  <1> HIDE DEF a, b, n
  <1>7. \A i \in 1..a : i \in 1..a + n /\ i <= a
    BY <1>2
  <1>8. \A i \in 1..a + n : i \in 1..a \/ (i \notin 1..a /\ ~(i <= a) /\ i - a \in 1..n /\ a + (i - a) = i)
    BY <1>2
  <1>9. \A i \in 1..a + n : g[i] \in 1..b + n /\ p[i] = q[g[i]]
    <2> SUFFICES ASSUME NEW i \in 1..a + n PROVE g[i] \in 1..b + n /\ p[i] = q[g[i]]
      OBVIOUS
    <2>1. CASE i \in 1..a
      <3>1. g[i] = f[i] /\ f[i] \in 1..b
        BY <2>1, <1>5, <1>7
      <3> HIDE DEF g
      <3>2. g[i] \in 1..b + n
        BY <3>1, <1>2
      <3> QED BY <2>1, <3>1, <3>2, <1>3, <1>4, <1>5
    <2>2. CASE i \notin 1..a
      <3>1. ~(i <= a) /\ i - a \in 1..n /\ a + (i - a) = i
        BY <2>2, <1>8
      <3>2. g[i] = b + (i - a)
        BY <3>1
      <3> HIDE DEF g
      <3>3. g[i] \in 1..b + n
        BY <3>1, <3>2, <1>2
      <3>4. p[i] = d[i - a] /\ q[g[i]] = d[i - a]
        BY <3>1, <3>2, <1>3, <1>4
      <3> QED BY <3>3, <3>4
    <2> QED BY <2>1, <2>2
  <1>10. ASSUME NEW i \in 1..a + n, NEW j \in 1..a + n, i < j PROVE g[i] < g[j]
    <2>1. CASE j \in 1..a
      <3>1. i \in 1..a
        BY <2>1, <1>2, <1>10
      <3>2. g[i] = f[i] /\ g[j] = f[j]
        BY <2>1, <3>1, <1>7
      <3> HIDE DEF g
      <3> QED BY <2>1, <3>1, <3>2, <1>6, <1>10
    <2>2. CASE j \notin 1..a
      <3>1. ~(j <= a) /\ j - a \in 1..n /\ a + (j - a) = j
        BY <2>2, <1>8
      <3>2. g[j] = b + (j - a)
        BY <3>1
      <3>3. CASE i \in 1..a
        <4>1. g[i] = f[i] /\ f[i] \in 1..b
          BY <3>3, <1>5, <1>7
        <4> HIDE DEF g
        <4> QED BY <4>1, <3>1, <3>2, <1>2
      <3>4. CASE i \notin 1..a
        <4>1. g[i] = b + (i - a)
          BY <3>4, <1>8
        <4> HIDE DEF g
        <4> QED BY <4>1, <3>2, <1>2, <1>10
      <3> QED BY <3>3, <3>4
    <2> QED BY <2>1, <2>2
  <1>11. g \in [1..a + n -> 1..b + n]
    BY <1>9
  <1> HIDE DEF g
  <1>12. Places(p, q, g)
    BY <1>3, <1>4, <1>9, <1>10, <1>11 DEF Places
  <1>13. IsSubsequence(p, q)
    BY <1>3, <1>4, <1>12, SubPlaces
  <1> QED BY <1>13 DEF p, q

(* Words that all differ, and those of a beginning. *)
LEMMA InjectiveWords ==
  ASSUME NEW t \in Text, NEW u \in Text, IsInjective(u)
  PROVE  /\ \A i, j \in 1..Len(u) : u[i] = u[j] => i = j
         /\ IsPrefix(t, u) => IsInjective(t)
  <1>1. DOMAIN t = 1..Len(t) /\ DOMAIN u = 1..Len(u) /\ Len(t) \in Nat /\ Len(u) \in Nat
    BY TextLength
  <1>2. \A i, j \in 1..Len(u) : u[i] = u[j] => i = j
    BY <1>1 DEF IsInjective
  <1>3. IsPrefix(t, u) => IsInjective(t)
    <2> SUFFICES ASSUME IsPrefix(t, u), NEW i \in 1..Len(t), NEW j \in 1..Len(t), t[i] = t[j] PROVE i = j
      BY <1>1 DEF IsInjective
    <2>1. Len(t) <= Len(u) /\ t[i] = u[i] /\ t[j] = u[j]
      BY PrefixWords
    <2>2. i \in 1..Len(u) /\ j \in 1..Len(u)
      BY <1>1, <2>1
    <2> QED BY <2>1, <2>2, <1>2
  <1> QED BY <1>2, <1>3

(* No chunk of a text w, streamed in style y, can be mistaken.             *)
Clear(y, w) == y = "snapshot" \/ IsInjective(w)

(* t is a part of w: words of it in order, and its beginning if no chunk   *)
(* could be mistaken.                                                      *)
Part(t, w, y) == IsSubsequence(t, w) /\ (Clear(y, w) => IsPrefix(t, w))

(* t shows w: as a part, and all of it if no chunk could be mistaken.      *)
Shown(t, w, y) == IsSubsequence(t, w) /\ (Clear(y, w) => t = w)

(* What the answer holds and what waits in the buffer show together what   *)
(* the request has delivered: deltas follow the text, and a snapshot is    *)
(* all of it.                                                              *)
Caught(y, text, pending, whole) ==
    IF y = "snapshot"
    THEN IsPrefix(text, whole) /\ (pending = whole \/ (pending = <<>> /\ text = whole))
    ELSE Shown(text \o pending, whole, y)

(* What shows a text is a part of it. *)
LEMMA ShownIsPart ==
  ASSUME NEW t \in Text, NEW w \in Text, NEW y, Shown(t, w, y) PROVE Part(t, w, y)
  BY PrefixOrder DEF Shown, Part

(* A part stays a part when the request delivers more. *)
LEMMA PartGrows ==
  ASSUME NEW t \in Text, NEW w \in Text, NEW v \in Text, NEW y, Part(t, w, y), IsPrefix(w, v)
  PROVE  Part(t, v, y)
  <1>1. IsSubsequence(t, v)
    BY SubEnds, SubOrder DEF Part
  <1>2. Clear(y, v) => Clear(y, w)
    BY InjectiveWords DEF Clear
  <1>3. Clear(y, v) => IsPrefix(t, v)
    BY <1>2, PrefixOrder DEF Part
  <1> QED BY <1>1, <1>3 DEF Part

(* The empty text is a part of each, and shows a request that delivered    *)
(* nothing.                                                                *)
LEMMA EmptyIsPart ==
  ASSUME NEW w \in Text, NEW y
  PROVE  <<>> \in Text /\ Part(<<>>, w, y) /\ Shown(w, w, y)
  <1>1. <<>> \in Text
    BY DEF Text
  <1>2. IsPrefix(<<>>, w) /\ IsPrefix(w, w)
    BY PrefixOrder
  <1>3. IsSubsequence(<<>>, w) /\ IsSubsequence(w, w)
    BY <1>1, <1>2, SubEnds
  <1> QED BY <1>1, <1>2, <1>3 DEF Part, Shown

(* An empty buffer: the answer shows what was delivered. *)
LEMMA CaughtAlone ==
  ASSUME NEW y, NEW text \in Text, NEW whole \in Text
  PROVE  /\ Caught(y, text, <<>>, whole) => Shown(text, whole, y)
         /\ Shown(text, whole, y) => Caught(y, text, <<>>, whole)
  <1>1. text \o <<>> = text
    BY ConcatEmptySeq DEF Text
  <1>2. CASE y = "snapshot"
    <2>1. Shown(whole, whole, y) /\ IsPrefix(whole, whole)
      BY EmptyIsPart, PrefixOrder
    <2>2. ASSUME Caught(y, text, <<>>, whole) PROVE text = whole
      <3>1. IsPrefix(text, whole) /\ (whole = <<>> \/ text = whole)
        BY <1>2, <2>2 DEF Caught
      <3>2. CASE whole = <<>>
        <4>1. Len(text) <= 0
          BY <3>1, <3>2, PrefixWords
        <4>2. Len(text) = 0
          BY <4>1, TextLength
        <4> QED BY <3>2, <4>2, TextLength
      <3> QED BY <3>1, <3>2
    <2>3. Shown(text, whole, y) => text = whole
      BY <1>2 DEF Shown, Clear
    <2>4. text = whole => Caught(y, text, <<>>, whole)
      BY <1>2, <2>1 DEF Caught
    <2> QED BY <2>1, <2>2, <2>3, <2>4
  <1>3. CASE y # "snapshot"
    BY <1>1, <1>3 DEF Caught
  <1> QED BY <1>2, <1>3

(* A flush makes the answer show what was delivered: what is lost if it    *)
(* begins like the text is lost from the middle.                           *)
LEMMA FlushedText ==
  ASSUME NEW y, NEW text \in Text, NEW pending \in Text, NEW whole \in Text, Caught(y, text, pending, whole)
  PROVE  Shown(text \o AppendableChunk(text, pending), whole, y)
  <1> DEFINE t == text \o AppendableChunk(text, pending)
             c == text \o pending
  <1>1. c \in Text /\ Len(c) = Len(text) + Len(pending) /\ Len(text) \in Nat /\ Len(pending) \in Nat
    BY TextConcat, TextLength
  <1>2. CASE text = <<>> \/ ~IsPrefix(text, pending)
    <2>1. t = c
      BY <1>2 DEF AppendableChunk
    <2>2. CASE y = "snapshot"
      <3>1. IsPrefix(text, whole) /\ (pending = whole \/ (pending = <<>> /\ text = whole))
        BY <2>2 DEF Caught
      <3>2. CASE pending = whole
        <4>1. text = <<>>
          BY <3>1, <3>2, <1>2
        <4>2. c = whole
          BY <3>2, <4>1, ConcatEmptySeq DEF Text
        <4> QED BY <2>1, <4>2, EmptyIsPart
      <3>3. CASE pending = <<>> /\ text = whole
        <4>1. c = whole
          BY <3>3, ConcatEmptySeq DEF Text
        <4> QED BY <2>1, <4>1, EmptyIsPart
      <3> QED BY <3>1, <3>2, <3>3
    <2>3. CASE y # "snapshot"
      BY <2>1, <2>3 DEF Caught
    <2> QED BY <2>2, <2>3
  <1>3. CASE text # <<>> /\ IsPrefix(text, pending)
    <2>1. t = pending
      BY <1>3, PrefixRest DEF AppendableChunk
    <2>2. Len(text) # 0 /\ Len(text) <= Len(pending) /\ \A k \in 1..Len(text) : text[k] = pending[k]
      BY <1>3, PrefixWords, TextLength
    <2>3. CASE y = "snapshot"
      <3>1. pending # <<>>
        BY <2>2, <1>1, TextLength
      <3>2. pending = whole
        BY <2>3, <3>1 DEF Caught
      <3> QED BY <2>1, <3>2, EmptyIsPart
    <2>4. CASE y # "snapshot"
      <3>1. IsSubsequence(c, whole) /\ (Clear(y, whole) => c = whole)
        BY <2>4 DEF Caught, Shown
      <3>2. IsSubsequence(pending, whole)
        BY <1>1, <3>1, SubEnds, SubOrder
      <3>3. ~Clear(y, whole)
        <4> SUFFICES ASSUME Clear(y, whole) PROVE FALSE
          OBVIOUS
        <4>1. c = whole /\ IsInjective(c)
          BY <2>4, <3>1 DEF Clear
        <4>2. 1 \in 1..Len(text) /\ 1 \in 1..Len(pending) /\ Len(text) + 1 \in 1..Len(c) /\ 1 \in 1..Len(c)
          BY <1>1, <2>2
        <4>3. c[1] = text[1] /\ c[Len(text) + 1] = pending[1] /\ text[1] = pending[1]
          BY <2>2, <4>2, TextConcat
        <4>4. 1 = Len(text) + 1
          BY <1>1, <4>1, <4>2, <4>3, InjectiveWords
        <4> QED BY <1>1, <2>2, <4>4
      <3> QED BY <2>1, <3>2, <3>3 DEF Shown
    <2> QED BY <2>3, <2>4
  <1> QED BY <1>2, <1>3

(* A chunk, merged into the buffer, keeps what text and buffer show.       *)
LEMMA MergedText ==
  ASSUME NEW y, NEW text \in Text, NEW pending \in Text, NEW whole \in Text, NEW d \in Text, Len(d) # 0,
         Caught(y, text, pending, whole)
  PROVE  LET chunk == IF y = "snapshot" THEN whole \o d ELSE d
         IN  Caught(y, text, MergePendingStreamChunk(pending, chunk), whole \o d)
  <1> DEFINE next == whole \o d
             c == text \o pending
             chunk == IF y = "snapshot" THEN next ELSE d
             merged == MergePendingStreamChunk(pending, chunk)
  <1>1. /\ next \in Text /\ Len(next) = Len(whole) + Len(d) /\ c \in Text /\ Len(c) = Len(text) + Len(pending)
        /\ Len(text) \in Nat /\ Len(pending) \in Nat /\ Len(whole) \in Nat /\ Len(d) \in Nat
    BY TextConcat, TextLength
  <1>2. IsPrefix(whole, next)
    BY PrefixOrder
  <1>3. CASE y = "snapshot"
    <2>1. IsPrefix(text, whole) /\ (pending = whole \/ pending = <<>>)
      BY <1>3 DEF Caught
    <2>2. IsPrefix(text, next)
      BY <1>1, <1>2, <2>1, PrefixOrder
    <2>3. merged = next
      <3>1. CASE pending = <<>>
        BY <1>1, <1>3, <3>1, ConcatEmptySeq DEF MergePendingStreamChunk, Text
      <3>2. CASE pending # <<>>
        BY <1>2, <1>3, <2>1, <3>2 DEF MergePendingStreamChunk
      <3> QED BY <3>1, <3>2
    <2> HIDE DEF merged, next
    <2>4. Caught(y, text, merged, next)
      BY <1>3, <2>2, <2>3 DEF Caught
    <2> QED BY <2>4 DEF merged, next
  <1>4. CASE y # "snapshot"
    <2>1. IsSubsequence(c, whole) /\ (Clear(y, whole) => c = whole) /\ chunk = d
      BY <1>4 DEF Caught, Shown
    <2>2. Clear(y, next) => Clear(y, whole)
      BY <1>1, <1>2, InjectiveWords DEF Clear
    <2>3. CASE pending = <<>> \/ ~IsPrefix(pending, d)
      <3>1. merged = pending \o d
        BY <2>1, <2>3 DEF MergePendingStreamChunk
      <3>2. text \o (pending \o d) = c \o d
        <4> DEFINE P == (0..MaxRequests) \X Nat
        <4>1. text \in Seq(P) /\ pending \in Seq(P) /\ d \in Seq(P)
          BY Zenon DEF Text
        <4> HIDE DEF P
        <4> QED BY <4>1, ConcatAssociative
      <3>3. IsSubsequence(c \o d, next)
        BY <1>1, <2>1, SubConcat
      <3>4. Clear(y, next) => c \o d = next
        BY <2>1, <2>2
      <3>5. Shown(text \o merged, next, y)
        BY <3>1, <3>2, <3>3, <3>4 DEF Shown
      <3> HIDE DEF merged, next
      <3>6. Caught(y, text, merged, next)
        BY <1>4, <3>5 DEF Caught
      <3> QED BY <3>6 DEF merged, next
    <2>4. CASE pending # <<>> /\ IsPrefix(pending, d)
      <3>1. merged = d
        BY <2>1, <2>4 DEF MergePendingStreamChunk
      <3>2. IsSubsequence(text, whole)
        <4>1. IsSubsequence(text, c)
          BY <1>1, PrefixOrder, SubEnds
        <4> QED BY <1>1, <2>1, <4>1, SubOrder
      <3>3. IsSubsequence(text \o d, next)
        BY <3>2, SubConcat
      <3>4. ~Clear(y, next)
        <4> SUFFICES ASSUME Clear(y, next) PROVE FALSE
          OBVIOUS
        <4>1. c = whole /\ IsInjective(next)
          BY <1>4, <2>1, <2>2 DEF Clear
        <4>2. Len(pending) # 0 /\ Len(pending) <= Len(d) /\ \A k \in 1..Len(pending) : pending[k] = d[k]
          BY <2>4, PrefixWords, TextLength
        <4>3. /\ 1 \in 1..Len(pending) /\ 1 \in 1..Len(d) /\ Len(text) + 1 \in 1..Len(whole)
              /\ Len(text) + 1 \in 1..Len(next) /\ Len(whole) + 1 \in 1..Len(next)
          BY <1>1, <4>1, <4>2
        <4>4. c[Len(text) + 1] = pending[1]
          BY <4>3, TextConcat
        <4>5. next[Len(text) + 1] = whole[Len(text) + 1] /\ next[Len(whole) + 1] = d[1]
          BY <4>3, TextConcat
        <4>6. next[Len(text) + 1] = next[Len(whole) + 1]
          BY <4>1, <4>2, <4>3, <4>4, <4>5
        <4>7. Len(text) + 1 = Len(whole) + 1
          BY <1>1, <4>1, <4>3, <4>6, InjectiveWords
        <4> QED BY <1>1, <4>1, <4>2, <4>7
      <3>5. Shown(text \o merged, next, y)
        BY <3>1, <3>3, <3>4 DEF Shown
      <3> HIDE DEF merged, next
      <3>6. Caught(y, text, merged, next)
        BY <1>4, <3>5 DEF Caught
      <3> QED BY <3>6 DEF merged, next
    <2> QED BY <2>3, <2>4
  <1> QED BY <1>3, <1>4

(* Message m shows what its own request delivered, of what f says the      *)
(* n requests so far did, or what the user or the console wrote.           *)
Own(m, f, n, y) ==
    m.from = "assistant" => m.req \in 1..n /\ (m.text = Local \/ Part(m.text, f[m.req], y))

(* ... and all of it, if the request is among those that have ended and    *)
(* its chunks could not be mistaken.                                       *)
Whole(m, f, e, y) ==
    m.from = "assistant" /\ m.status = "complete" /\ m.req \in e =>
        m.text = Local \/ (Clear(y, f[m.req]) => m.text = f[m.req])

OwnAll(ms, f, n, y) == \A i \in 1..Len(ms) : Own(ms[i], f, n, y)
WholeAll(ms, f, e, y) == \A i \in 1..Len(ms) : Whole(ms[i], f, e, y)

(* Only the last answer is that of request r.                              *)
Alone(ms, r) ==
    \A i \in 1..Len(ms) : ms[i].from = "assistant" => (ms[i].req = r <=> i = Len(ms))

(* A request that was not made delivered nothing, and one that is not      *)
(* streamed nothing or its answer.                                         *)
FullInv ==
    /\ \A r \in Requests : /\ r > count.requests => full[r] = <<>>
                           /\ ~config.stream => full[r] \in {<<>>, << <<r, 1>> >>}
    /\ ended \cap chat.open = {}
    /\ ~mounted => ended = {}

Current == IF config.stream THEN chat.source ELSE chat.requestId

Texts ==
    /\ OwnAll(stored, full, count.requests, config.style)
    /\ OwnAll(chat.messages, full, count.requests, config.style) /\ WholeAll(chat.messages, full, ended, config.style)
    /\ IsGenerating(chat) => Alone(chat.messages, Current)
    /\ IsGenerating(chat) /\ config.stream =>
         Caught(config.style, chat.messages[Len(chat.messages)].text, chat.pending, full[chat.source])

TextInv == ~crossed => Texts

(* No request takes back what it delivered.                                *)
Grows(f, g) == \A r \in Requests : IsPrefix(f[r], g[r])

(* A step that delivers nothing keeps what was delivered in order. *)
LEMMA FullKept ==
  ASSUME TypeInv, FullInv, UNCHANGED <<full, config>>, count'.requests \in Nat, count.requests <= count'.requests,
         ended' \subseteq ended, chat'.open \subseteq chat.open \cup {count.requests + 1},
         mounted' = TRUE \/ (mounted' = mounted) \/ ended' = {}
  PROVE  FullInv' /\ Grows(full, full')
  <1>1. count.requests \in Nat /\ ended \subseteq 1..count.requests
    BY DEF TypeInv, Types, RefsInv
  <1>2. \A r \in Requests : r \in Nat /\ IsPrefix(full[r], full[r])
    <2>1. \A r \in Requests : full[r] \in Text
      BY DEF TypeInv, Types
    <2> QED BY <2>1, PrefixOrder, PlaygroundAssumption DEF Requests
  <1>3. \A r \in Requests : r > count'.requests => full[r] = <<>>
    BY <1>1, <1>2 DEF FullInv
  <1>4. count.requests + 1 \notin ended
    BY <1>1
  <1>5. ended' \cap chat'.open = {}
    BY <1>4 DEF FullInv
  <1>6. ~mounted' => ended' = {}
    BY DEF FullInv
  <1>7. FullInv'
    BY <1>3, <1>5, <1>6 DEF FullInv
  <1> QED BY <1>2, <1>7 DEF Grows

(* Request r has delivered more.                                           *)
LEMMA FullGrows ==
  ASSUME TypeInv, FullInv, NEW r \in Requests, r <= count.requests, NEW text, full' = [full EXCEPT ![r] = text],
         text \in Text, IsPrefix(full[r], text), ~config.stream => text = << <<r, 1>> >>,
         UNCHANGED <<config, count, mounted>>, mounted, ended' \cap chat'.open = {}
  PROVE  FullInv' /\ Grows(full, full')
  <1>1. count.requests \in Nat /\ full \in [Requests -> Text]
    BY DEF TypeInv, Types
  <1>2. \A s \in Requests : s \in Nat /\ IsPrefix(full[s], full[s])
    <2>1. \A s \in Requests : full[s] \in Text
      BY <1>1
    <2> QED BY <2>1, PrefixOrder, PlaygroundAssumption DEF Requests
  <1>3. \A s \in Requests : full'[s] = IF s = r THEN text ELSE full[s]
    BY <1>1
  <1>4. \A s \in Requests : s > count.requests => s # r
    BY <1>1, <1>2
  <1>5. \A s \in Requests : /\ s > count.requests => full'[s] = <<>>
                            /\ ~config.stream => full'[s] \in {<<>>, << <<s, 1>> >>}
    <2> SUFFICES ASSUME NEW s \in Requests
                 PROVE  /\ s > count.requests => full'[s] = <<>>
                        /\ ~config.stream => full'[s] \in {<<>>, << <<s, 1>> >>}
      OBVIOUS
    <2>1. CASE s = r
      BY <2>1, <1>3, <1>4
    <2>2. CASE s # r
      BY <2>2, <1>3 DEF FullInv
    <2> QED BY <2>1, <2>2
  <1>6. FullInv'
    BY <1>5 DEF FullInv
  <1> QED BY <1>2, <1>3, <1>6 DEF Grows

(* So does a submission. *)
LEMMA SubmitFull ==
  ASSUME TypeInv, FullInv, NEW before \in Seq(Message), NEW news \in {0, 1}, Submit(before, news),
         UNCHANGED <<page, history>>
  PROVE  FullInv' /\ Grows(full, full')
  <1>1. PICK ms : Submits(before, news, ms)
    BY SubmitStep
  <1>2. count'.requests = count.requests + 1 /\ chat'.open \subseteq chat.open \cup {count.requests + 1}
    BY <1>1 DEF Submits, Streams, Refused, Posts
  <1>3. count.requests \in Nat
    BY DEF TypeInv, Types
  <1>4. count'.requests \in Nat /\ count.requests <= count'.requests
    BY <1>2, <1>3
  <1> QED BY <1>2, <1>4, FullKept DEF page, history

(* Every step keeps what was delivered in order and takes nothing back. *)
LEMMA FullStep ==
  ASSUME TypeInv, TypeInv', FullInv, PageInv, [Next]_vars
  PROVE  FullInv' /\ Grows(full, full')
  <1>a. count \in [requests : 0..MaxRequests, messages : Nat, mounts : Nat, edits : Nat] /\ count.requests \in Nat
    BY PlaygroundAssumption DEF TypeInv, Types
  <1>b. view.messages \in Seq(Message)
    BY LastIsMessage
  <1>c. count.requests <= count.requests
    BY <1>a
  <1>1. CASE HandleSendMessage \/ HandleRegenerateMessage \/ SaveEditAndSubmit
    <2>1. \E before \in Seq(Message), news \in {0, 1} : Submit(before, news)
      <3>1. CASE HandleSendMessage
        BY <3>1, <1>b DEF HandleSendMessage
      <3>2. CASE HandleRegenerateMessage
        <4>1. PICK i \in DOMAIN view.messages :
                Submit(SubSeq(view.messages, 1, IF view.messages[i].from = "user" THEN i ELSE i - 1), 0)
          BY <3>2 DEF HandleRegenerateMessage
        <4> QED BY <4>1, SubmittedLists
      <3>3. CASE SaveEditAndSubmit
        BY <3>3, SubmittedLists DEF SaveEditAndSubmit
      <3> QED BY <1>1, <3>1, <3>2, <3>3
    <2>2. UNCHANGED <<page, history>>
      BY <1>1 DEF HandleSendMessage, HandleRegenerateMessage, SaveEditAndSubmit
    <2> QED BY <2>1, <2>2, SubmitFull
  <1>2. CASE HandleEditMessage \/ HandleEditOpenChange \/ Render \/ UNCHANGED vars
    <2>1. chat' = chat /\ UNCHANGED <<full, config, ended, mounted>> /\ count'.requests = count.requests
      BY <1>2, <1>a DEF HandleEditMessage, HandleEditOpenChange, Render, page, history, vars
    <2> QED BY <2>1, <1>a, <1>c, FullKept
  <1>3. CASE SaveEdit \/ HandleDeleteMessage \/ HandleClearMessages \/ Stop
    <2>1. chat'.open \subseteq chat.open
      BY <1>3, SaveEditStep, DeleteStep, ClearStep, StopStep DEF Relisted, SameStream
    <2>2. UNCHANGED <<full, config, ended, mounted>> /\ count'.requests = count.requests
      BY <1>3, <1>a DEF SaveEdit, HandleDeleteMessage, HandleClearMessages, Stop, page, history
    <2> QED BY <2>1, <2>2, <1>a, <1>c, FullKept
  <1>4. CASE StreamUpdate
    <2>1. PICK r \in chat.open, d \in Deltas :
            /\ r \in Requests /\ Delta(r, d) \in Text /\ full' = [full EXCEPT ![r] = Grown(r, d)]
            /\ chat'.open = chat.open
      BY <1>4, PieceStep DEF SameStream
    <2>2. UNCHANGED <<config, count, mounted, ended>> /\ config.stream
      BY <1>4 DEF StreamUpdate, quietly, page
    <2>3. r \in 1..count.requests /\ full[r] \in Text /\ mounted
      BY <2>1, PlaygroundAssumption DEF TypeInv, Types, RefsInv, PageInv, Requests
    <2>4. Grown(r, d) \in Text /\ IsPrefix(full[r], Grown(r, d))
      <3> DEFINE whole == full[r]
                 delta == Delta(r, d)
      <3>1. whole \in Text /\ delta \in Text
        BY <2>1, <2>3
      <3> HIDE DEF whole, delta
      <3>2. whole \o delta \in Text /\ IsPrefix(whole, whole \o delta)
        BY <3>1, TextConcat, PrefixOrder
      <3> QED BY <3>2 DEF Grown, whole, delta
    <2>5. r <= count.requests
      BY <2>3, <1>a
    <2> QED BY <2>1, <2>2, <2>3, <2>4, <2>5, FullGrows DEF FullInv
  <1>5. CASE StreamDone
    <2>1. PICK r \in chat.open : chat'.open = chat.open \ {r} /\ ended' = ended \cup {r}
      BY <1>5, DoneStep DEF ClosedStream
    <2>2. UNCHANGED <<full, config, count, mounted>> /\ mounted
      BY <1>5 DEF StreamDone, quietly, page, PageInv
    <2>3. ended' \cap chat'.open = {}
      BY <2>1 DEF FullInv
    <2>4. FullInv'
      BY <2>2, <2>3 DEF FullInv
    <2>5. \A r0 \in Requests : IsPrefix(full[r0], full[r0])
      BY PrefixOrder DEF TypeInv, Types
    <2> QED BY <2>2, <2>4, <2>5 DEF Grows
  <1>6. CASE StreamFails \/ StreamEndsSilently \/ FlushTimer \/ SaveTimer
    <2>1. chat'.open \subseteq chat.open
      BY <1>6, FailStep, SilentStep, FlushStep, SaveStep DEF ClosedStream, SameStream
    <2>2. UNCHANGED <<full, config, ended, mounted, count>>
      BY <1>6 DEF StreamFails, StreamEndsSilently, FlushTimer, SaveTimer, page, quietly, history
    <2> QED BY <2>1, <2>2, <1>a, <1>c, FullKept
  <1>7. CASE Response
    <2>1. PICK r \in chat.open, outcome \in {"choice", "none", "failure"} :
           /\ r \in Requests /\ chat'.open = chat.open \ {r}
           /\ r \notin chat.aborted /\ outcome = "choice" =>
                full' = [full EXCEPT ![r] = << <<r, 1>> >>] /\ ended' = ended \cup {r}
           /\ ~(r \notin chat.aborted /\ outcome = "choice") => full' = full /\ ended' = ended
      BY <1>7, ResponseStep DEF Responded
    <2>2. UNCHANGED <<config, count, mounted>> /\ ~config.stream /\ mounted
      BY <1>7 DEF Response, quietly, page, PageInv
    <2>3. CASE ~(r \notin chat.aborted /\ outcome = "choice")
      BY <2>1, <2>2, <2>3, <1>a, <1>c, FullKept
    <2>4. CASE r \notin chat.aborted /\ outcome = "choice"
      <3> DEFINE piece == <<r, 1>>
                 text == <<piece>>
      <3>1. r \in 1..count.requests /\ r \in 0..MaxRequests /\ full[r] \in Text
        BY <2>1, PlaygroundAssumption, SMTT(20) DEF TypeInv, Types, RefsInv, Requests
      <3>2. piece \in (0..MaxRequests) \X Nat
        BY <3>1
      <3> HIDE DEF piece
      <3>3. text \in Text /\ Len(text) = 1 /\ text[1] = piece
        BY <3>2 DEF Text
      <3> HIDE DEF text
      <3>4. full[r] = <<>> \/ full[r] = text
        BY <2>1, <2>2 DEF FullInv, text, piece
      <3>5. IsPrefix(full[r], text) /\ r <= count.requests
        BY <3>1, <3>3, <3>4, <1>a, PrefixOrder
      <3>6. full' = [full EXCEPT ![r] = text]
        BY <2>1, <2>4 DEF text, piece
      <3>7. ended' \cap chat'.open = {}
        BY <2>1, <2>4 DEF FullInv
      <3>8. text = << <<r, 1>> >>
        BY DEF text, piece
      <3> QED BY <2>1, <2>2, <3>1, <3>3, <3>5, <3>6, <3>7, <3>8, FullGrows
    <2> QED BY <2>3, <2>4
  <1>8. CASE Mount
    <2>1. chat'.open = {}
      BY <1>8, MountStep, NewFields
    <2>2. UNCHANGED <<full, config, ended>> /\ count'.requests = count.requests /\ mounted' = TRUE
      BY <1>8, <1>a DEF Mount, history
    <2> QED BY <2>1, <2>2, <1>a, <1>c, FullKept
  <1>10. CASE LeftSaves
    <2>1. chat' = chat /\ UNCHANGED <<full, config, ended, mounted, count>>
      BY <1>10 DEF LeftSaves, history
    <2> QED BY <2>1, <1>a, <1>c, FullKept
  <1>9. CASE Unmount \/ Reload
    <2>1. chat'.open = {}
      BY <1>9 DEF Unmount, Reload, Commit, NewChat
    <2>2. UNCHANGED <<full, config, count>> /\ ended' = {}
      BY <1>9 DEF Unmount, Reload
    <2> QED BY <2>1, <2>2, <1>a, <1>c, FullKept
  <1> QED BY <1>1, <1>2, <1>3, <1>4, <1>5, <1>6, <1>7, <1>8, <1>9, <1>10 DEF Next, User

(* Answers own their text when more is delivered. *)
LEMMA OwnGrows ==
  ASSUME NEW ms \in Seq(Message), NEW f \in [Requests -> Text], NEW g \in [Requests -> Text], Grows(f, g), NEW y,
         NEW n \in 0..MaxRequests, NEW p \in 0..MaxRequests, n <= p, OwnAll(ms, f, n, y)
  PROVE  OwnAll(ms, g, p, y)
  <1> SUFFICES ASSUME NEW i \in 1..Len(ms), ms[i].from = "assistant"
               PROVE  /\ ms[i].req \in 1..p
                      /\ ms[i].text = Local \/ Part(ms[i].text, g[ms[i].req], y)
    BY DEF OwnAll, Own
  <1> DEFINE r == ms[i].req
             t == ms[i].text
             w == f[r]
             v == g[r]
  <1>1. r \in 1..n /\ (t = Local \/ Part(t, w, y))
    BY DEF OwnAll, Own
  <1>2. ms[i] \in Message
    OBVIOUS
  <1>3. t \in Text
    BY <1>2 DEF Message, Text
  <1> HIDE DEF r, t
  <1>4. r \in Requests /\ r \in 1..p
    BY <1>1, PlaygroundAssumption DEF Requests
  <1>5. w \in Text /\ v \in Text /\ IsPrefix(w, v)
    BY <1>4 DEF Grows
  <1> HIDE DEF w, v
  <1>6. Part(t, w, y) => Part(t, v, y)
    BY <1>3, <1>5, PartGrows
  <1> QED BY <1>1, <1>4, <1>6 DEF r, t, w, v

(* Messages of the conversation, some of them rewritten.                   *)
Drawn(ms) ==
    \A i \in 1..Len(ms) : \E j \in 1..Len(chat.messages) :
        \/ ms[i] = chat.messages[j]
        \/ ms[i].from = chat.messages[j].from /\ ms[i].req = chat.messages[j].req /\ ms[i].text = Local

(* Messages drawn from the conversation own their text and are whole. *)
LEMMA DrawnTexts ==
  ASSUME Texts, NEW ms, Drawn(ms)
  PROVE  OwnAll(ms, full, count.requests, config.style) /\ WholeAll(ms, full, ended, config.style)
  <1> SUFFICES ASSUME NEW i \in 1..Len(ms)
               PROVE  Own(ms[i], full, count.requests, config.style) /\ Whole(ms[i], full, ended, config.style)
    BY DEF OwnAll, WholeAll
  <1>1. PICK j \in 1..Len(chat.messages) :
        \/ ms[i] = chat.messages[j]
        \/ ms[i].from = chat.messages[j].from /\ ms[i].req = chat.messages[j].req /\ ms[i].text = Local
    BY DEF Drawn
  <1>2. Own(chat.messages[j], full, count.requests, config.style) /\ Whole(chat.messages[j], full, ended, config.style)
    BY DEF Texts, OwnAll, WholeAll
  <1>3. CASE ms[i] = chat.messages[j]
    BY <1>2, <1>3
  <1>4. CASE ms[i].from = chat.messages[j].from /\ ms[i].req = chat.messages[j].req /\ ms[i].text = Local
    BY <1>2, <1>4 DEF Own, Whole
  <1> QED BY <1>1, <1>3, <1>4

(* A prefix of drawn messages is drawn. *)
LEMMA PrefixDrawn ==
  ASSUME TypeInv, NEW ms \in Seq(Message), Drawn(ms), NEW j \in 0..Len(ms)
  PROVE  Drawn(SubSeq(ms, 1, j))
  <1> DEFINE p == SubSeq(ms, 1, j)
  <1>1. Len(p) = j /\ \A i \in 1..j : p[i] = ms[i]
    BY PrefixIsCalm
  <1> HIDE DEF p
  <1>2. \A i \in 1..j : i \in 1..Len(ms)
    OBVIOUS
  <1>3. Drawn(p)
    <2> SUFFICES ASSUME NEW i \in 1..j
                 PROVE  \E k \in 1..Len(chat.messages) :
                            \/ p[i] = chat.messages[k]
                            \/ /\ p[i].from = chat.messages[k].from
                               /\ p[i].req = chat.messages[k].req
                               /\ p[i].text = Local
      BY <1>1, Zenon DEF Drawn
    <2>1. p[i] = ms[i] /\ i \in 1..Len(ms)
      BY <1>1, <1>2, Zenon
    <2> QED BY <2>1, Zenon DEF Drawn
  <1> QED BY <1>3 DEF p

(* The edited list is drawn from the conversation. *)
LEMMA EditedDrawn ==
  ASSUME TypeInv, Editable, view.messages = chat.messages
  PROVE  Drawn(Edited)
  <1> DEFINE k == IndexOf(view.messages, editing)
  <1>1. /\ Edited \in Seq(Message) /\ Len(Edited) = Len(view.messages)
        /\ \A i \in 1..Len(view.messages) :
             /\ Edited[i].from = view.messages[i].from /\ Edited[i].req = view.messages[i].req
             /\ i = k => Edited[i].text = Local
             /\ i # k => Edited[i] = view.messages[i]
    BY EditedIsCalm
  <1> HIDE DEF k
  <1> QED BY <1>1 DEF Drawn

(* The conversation is drawn from itself. *)
LEMMA SelfDrawn ==
  ASSUME NEW ms, ms = chat.messages PROVE Drawn(ms)
  BY DEF Drawn

(* The end of a list of own answers, as it is saved.                       *)
LEMMA TrimIsOwn ==
  ASSUME NEW ms \in Seq(Message), NEW f, NEW n, NEW y, OwnAll(ms, f, n, y)
  PROVE  OwnAll(TrimMessages(ms), f, n, y)
  <1>1. PICK k \in Nat : EndOf(ms, TrimMessages(ms), k)
    BY TrimIsEnd
  <1> DEFINE p == TrimMessages(ms)
  <1> HIDE DEF p
  <1>2. p \in Seq(Message) /\ Len(ms) = k + Len(p) /\ \A i \in 1..Len(p) : p[i] = ms[k + i]
    BY <1>1 DEF EndOf, p
  <1>3. \A i \in 1..Len(p) : k + i \in 1..Len(ms)
    BY <1>2
  <1>4. OwnAll(p, f, n, y)
    BY <1>2, <1>3 DEF OwnAll
  <1> QED BY <1>4 DEF p

(* Loaded answers own their text if the stored ones do. *)
LEMMA LoadedIsOwn ==
  ASSUME NEW ms \in Seq(Message), NEW ns, NEW k \in Nat, Loaded(ms, ns, k), NEW f, NEW n, NEW y,
         OwnAll(ms, f, n, y)
  PROVE  OwnAll(ns, f, n, y)
  <1>1. Len(ms) = k + Len(ns) /\ ns \in Seq(Message) /\ Len(ns) \in Nat
    BY DEF Loaded
  <1> SUFFICES ASSUME NEW i \in 1..Len(ns) PROVE Own(ns[i], f, n, y)
    BY DEF OwnAll
  <1>2. k + i \in 1..Len(ms) /\ ns[i] \in Final(ms[k + i])
    BY <1>1 DEF Loaded
  <1> DEFINE m == ms[k + i]
  <1>3. m \in Message /\ Own(m, f, n, y)
    BY <1>2 DEF OwnAll
  <1> HIDE DEF m
  <1>4. Own(Complete(m), f, n, y) /\ Own(WithError(m), f, n, y)
    BY <1>3 DEF Own, Complete, WithError, Message
  <1> QED BY <1>2, <1>3, <1>4 DEF Final, m

(* The types of what was delivered. *)
LEMMA FullTypes ==
  ASSUME TypeInv
  PROVE  /\ full \in [Requests -> Text] /\ count.requests \in 0..MaxRequests /\ count.requests \in Nat
         /\ 1..count.requests \subseteq Requests
         /\ \A r \in Requests : full[r] \in Text /\ Len(full[r]) \in Nat /\ r \in 0..MaxRequests /\ r \in Nat
  <1>1. full \in [Requests -> Text] /\ count.requests \in 0..MaxRequests
    BY DEF TypeInv, Types
  <1>2. \A r \in Requests : full[r] \in Text /\ Len(full[r]) \in Nat
    BY <1>1, TextLength
  <1> QED BY <1>1, <1>2, PlaygroundAssumption DEF Requests

(* The same after a step. *)
LEMMA FullTypesAfter ==
  ASSUME TypeInv'
  PROVE  full' \in [Requests -> Text] /\ count'.requests \in 0..MaxRequests
  BY DEF TypeInv, Types

(* The request that was just made.                                         *)
LEMMA SubmitTexts ==
  ASSUME TypeInv, TypeInv', FullInv, Texts, NEW before \in Seq(Message), NEW news \in {0, 1}, NEW ms,
         Submits(before, news, ms), Drawn(before), chat.pending = <<>>, UNCHANGED <<stored, config, full, ended>>
  PROVE  Texts'
  <1> DEFINE r == count.requests + 1
             ns == chat'.messages
             m == ms[Len(ms)]
  <1>1. /\ ms \in Seq(Message) /\ Submitted(before, ms, news) /\ r \in Requests /\ count'.requests = r
        /\ Len(before) \in Nat /\ Len(ms) = Len(before) + news + 1
    BY DEF Submits, Submitted
  <1>2. /\ count.requests \in 0..MaxRequests /\ r \in 0..MaxRequests /\ count.requests <= r /\ r \in Nat
        /\ full \in [Requests -> Text] /\ Grows(full, full) /\ full[r] = <<>>
    <2>1. full \in [Requests -> Text] /\ count.requests \in 0..MaxRequests /\ count.requests \in Nat /\ r \in 0..MaxRequests
      BY <1>1, FullTypes
    <2>2. Grows(full, full)
      BY FullTypes, PrefixOrder DEF Grows
    <2>3. full[r] = <<>>
      BY <1>1, <2>1 DEF FullInv
    <2> QED BY <2>1, <2>2, <2>3
  <1>3. OwnAll(stored, full, r, config.style)
    <2>1. stored \in Seq(Message) /\ OwnAll(stored, full, count.requests, config.style)
      BY LastIsMessage DEF Texts
    <2> HIDE DEF r
    <2> QED BY <2>1, <1>2, OwnGrows
  <1>4. OwnAll(before, full, count.requests, config.style) /\ WholeAll(before, full, ended, config.style)
    BY DrawnTexts
  <1>5. OwnAll(before, full, r, config.style)
    <2> HIDE DEF r
    <2> QED BY <1>2, <1>4, OwnGrows
  <1>6. m.from = "assistant" /\ m.req = r /\ m.text = <<>> /\ m.status = "loading" /\ m \in Message
    <2>1. Len(ms) \in 1..Len(ms)
      BY <1>1
    <2>2. m \in Message
      BY <1>1, <2>1
    <2> QED BY <1>1, <2>2 DEF Submitted, LoadingAssistantMessage
  <1>7. \A i \in 1..Len(ms) : i = Len(ms) \/ ms[i].from # "assistant" \/ (i \in 1..Len(before) /\ ms[i] = before[i])
    <2> SUFFICES ASSUME NEW i \in 1..Len(ms), i # Len(ms)
                 PROVE  ms[i].from # "assistant" \/ (i \in 1..Len(before) /\ ms[i] = before[i])
      OBVIOUS
    <2>1. i \in 1..Len(before) \/ i \in Len(before) + 1..Len(before) + news
      BY <1>1
    <2>2. CASE i \in 1..Len(before)
      BY <2>2, <1>1 DEF Submitted
    <2>3. CASE i \in Len(before) + 1..Len(before) + news
      <3>1. ms[i] = UserMessage(count.messages + (i - Len(before)))
        BY <2>3, <1>1 DEF Submitted
      <3> QED BY <3>1 DEF UserMessage
    <2> QED BY <2>1, <2>2, <2>3
  <1>8. Own(m, full, r, config.style)
    <2>1. r \in 1..r /\ full[r] \in Text
      BY <1>1, <1>2, PlaygroundAssumption DEF Requests
    <2>2. Part(<<>>, full[r], config.style)
      BY <2>1, EmptyIsPart
    <2> HIDE DEF r, m
    <2> QED BY <2>1, <2>2, <1>6 DEF Own
  <1>9. OwnAll(ms, full, r, config.style) /\ WholeAll(ms, full, ended, config.style)
    <2> SUFFICES ASSUME NEW i \in 1..Len(ms) PROVE Own(ms[i], full, r, config.style) /\ Whole(ms[i], full, ended, config.style)
      BY DEF OwnAll, WholeAll
    <2>1. CASE i = Len(ms)
      BY <2>1, <1>6, <1>8 DEF Whole
    <2>2. CASE ms[i].from # "assistant"
      BY <2>2 DEF Own, Whole
    <2>3. CASE i \in 1..Len(before) /\ ms[i] = before[i]
      BY <2>3, <1>4, <1>5 DEF OwnAll, WholeAll
    <2> QED BY <1>7, <2>1, <2>2, <2>3
  <1>10. Alone(ms, r)
    <2> SUFFICES ASSUME NEW i \in 1..Len(ms), ms[i].from = "assistant", i # Len(ms) PROVE ms[i].req # r
      BY <1>6 DEF Alone
    <2>1. Own(ms[i], full, count.requests, config.style)
      BY <1>4, <1>7 DEF OwnAll
    <2>2. ms[i].req \in 1..count.requests
      BY <2>1 DEF Own
    <2> QED BY <2>2, <1>2
  <1>11. CASE Streams(chat, chat', ms, r) \/ Posts(chat, chat', ms, r)
    <2>1. ns = ms /\ chat'.pending = <<>>
      BY <1>11 DEF Streams, Posts
    <2>2. (config.stream /\ chat'.source = r) \/ (~config.stream /\ chat'.requestId = r)
      <3> HIDE DEF r
      <3>1. \/ config.stream /\ Streams(chat, chat', ms, r)
            \/ config.stream /\ Refused(chat, chat', ms, r)
            \/ ~config.stream /\ Posts(chat, chat', ms, r)
        BY DEF Submits, r
      <3>2. ~Refused(chat, chat', ms, r)
        BY <1>11 DEF Streams, Posts, Refused, Rested
      <3> QED BY <3>1, <3>2 DEF Streams, Posts
    <2>3. Current' = r /\ (config.stream => chat'.source = r)
      BY <2>2 DEF Current
    <2>4. Caught(config.style, m.text, <<>>, full[r])
      <3>1. <<>> \in Text
        BY DEF Text
      <3>2. Shown(<<>>, <<>>, config.style)
        BY <3>1, EmptyIsPart
      <3>3. Caught(config.style, <<>>, <<>>, <<>>)
        BY <3>1, <3>2, CaughtAlone
      <3> QED BY <3>3, <1>2, <1>6
    <2> HIDE DEF r
    <2> QED BY <2>1, <2>2, <2>3, <2>4, <1>1, <1>3, <1>9, <1>10 DEF Texts
  <1>12. CASE Refused(chat, chat', ms, r)
    <2>1. Revised(ms, ns, WithError(m))
      BY <1>12 DEF Refused, Chunked
    <2>2. ~IsGenerating(chat')
      BY <1>12 DEF Refused, Rested, IsGenerating
    <2>3. WithError(m).from = "assistant" /\ WithError(m).req = r /\ WithError(m).text = Local
      BY <1>6 DEF WithError, Message
    <2>4. r \in 1..r
      BY <1>1, PlaygroundAssumption DEF Requests
    <2> HIDE DEF m, r
    <2>5. Own(WithError(m), full, r, config.style) /\ Whole(WithError(m), full, ended, config.style)
      BY <2>3, <2>4 DEF Own, Whole
    <2>6. OwnAll(ns, full, r, config.style) /\ WholeAll(ns, full, ended, config.style)
      BY <2>1, <2>5, <1>9 DEF Revised, OwnAll, WholeAll
    <2> QED BY <2>2, <2>6, <1>1, <1>3 DEF Texts
  <1> QED BY <1>11, <1>12 DEF Submits

(* A step that leaves the texts alone.                                     *)
LEMMA SameTexts ==
  ASSUME Texts, UNCHANGED <<full, config>>, count'.requests = count.requests, chat'.messages = chat.messages,
         ended' \subseteq ended, OwnAll(stored', full, count.requests, config.style),
         IsGenerating(chat') => /\ IsGenerating(chat) /\ chat'.pending = chat.pending
                                /\ chat'.source = chat.source /\ chat'.requestId = chat.requestId
  PROVE  Texts'
  <1>1. WholeAll(chat.messages, full, ended', config.style)
    BY DEF Texts, WholeAll, Whole
  <1> QED BY <1>1 DEF Texts, Current

(* A step at rest that removes or rewrites messages.                       *)
LEMMA DrawnStep ==
  ASSUME Texts, UNCHANGED <<full, config, ended, stored>>, count'.requests = count.requests,
         Drawn(chat'.messages), ~IsGenerating(chat')
  PROVE  Texts'
  <1>1. OwnAll(chat'.messages, full, count.requests, config.style) /\ WholeAll(chat'.messages, full, ended, config.style)
    BY DrawnTexts
  <1> QED BY <1>1 DEF Texts

(* The answer that is generated, with what waits in the buffer, is all     *)
(* that its stream delivered.                                              *)
LEMMA ShownText ==
  ASSUME TypeInv, FullInv, Texts, IsGenerating(chat), LastPending(chat.messages), config.stream
  PROVE  LET m == chat.messages[Len(chat.messages)]
         IN  /\ chat.source \in 1..count.requests /\ chat.source \in Requests
             /\ m \in Message /\ LastMessage \in Message
             /\ LastMessage.from = "assistant" /\ LastMessage.req = chat.source /\ m.req = chat.source
             /\ Shown(LastMessage.text, full[chat.source], config.style)
  <1> DEFINE ms == chat.messages
             m == ms[Len(ms)]
             r == chat.source
             pending == chat.pending
  <1>1. /\ m \in Message /\ LastMessage \in Message /\ pending \in Text /\ Len(ms) \in 1..Len(ms)
        /\ m.from = "assistant" /\ IsPending(m)
    BY LastIsMessage DEF LastPending
  <1>2. m.req = r
    BY <1>1 DEF Texts, Alone, Current
  <1>3. r \in 1..count.requests
    BY <1>1, <1>2 DEF Texts, OwnAll, Own
  <1>4. r \in Requests /\ full[r] \in Text
    BY <1>3, FullTypes
  <1>5. Caught(config.style, m.text, pending, full[r])
    BY DEF Texts
  <1>6. LastMessage.from = "assistant" /\ LastMessage.req = r
    BY <1>1, <1>2, SameAuthor DEF LastMessage
  <1>7. m.text \in Text
    BY <1>1 DEF Message, Text
  <1> DEFINE t == m.text \o AppendableChunk(m.text, pending)
             whole == full[r]
             style == config.style
             text == m.text
  <1>8. (pending = <<>> => Shown(m.text, full[r], config.style)) /\ Shown(t, full[r], config.style)
    <2>1. text \in Text /\ pending \in Text /\ whole \in Text /\ Caught(style, text, pending, whole)
      BY <1>1, <1>4, <1>5, <1>7
    <2> HIDE DEF whole, style, text, pending, r, m
    <2>2. pending = <<>> => Shown(text, whole, style)
      BY <2>1, CaughtAlone
    <2>3. Shown(text \o AppendableChunk(text, pending), whole, style)
      BY <2>1, FlushedText
    <2> QED BY <2>2, <2>3 DEF whole, text, style
  <1> HIDE DEF t
  <1>9. LastMessage = IF pending = <<>> \/ m.status = "error" THEN m
                      ELSE [m EXCEPT !.text = t, !.status = "streaming"]
    BY DEF LastMessage, Chunked, ApplyStreamingChunk, t
  <1>10. m.status # "error"
    BY <1>1 DEF IsPending
  <1> HIDE DEF m, r, pending
  <1>11. Shown(LastMessage.text, full[r], config.style)
    BY <1>1, <1>8, <1>9, <1>10 DEF Message
  <1> QED BY <1>1, <1>2, <1>3, <1>4, <1>6, <1>11 DEF m, r

(* An answer that shows what its request delivered, or an error message.   *)
LEMMA ShownIsOwn ==
  ASSUME NEW m \in Message, NEW f \in [Requests -> Text], NEW r \in Requests, NEW n, r \in 1..n, NEW e, NEW y,
         m.from = "assistant", m.req = r, Shown(m.text, f[r], y) \/ m.text = Local
  PROVE  Own(m, f, n, y) /\ Whole(m, f, e, y)
  <1>1. m.text \in Text /\ f[r] \in Text
    BY DEF Message, Text
  <1>2. m.text = Local \/ (Part(m.text, f[r], y) /\ (Clear(y, f[r]) => m.text = f[r]))
    BY <1>1, ShownIsPart DEF Shown
  <1> QED BY <1>2 DEF Own, Whole

(* The answer that was generated is revised, for the last time.            *)
LEMMA EndTexts ==
  ASSUME TypeInv, TypeInv', Texts, IsGenerating(chat), LastPending(chat.messages),
         NEW n, Revised(chat.messages, chat'.messages, n),
         Own(n, full', count.requests, config.style), Whole(n, full', ended', config.style), Grows(full, full'),
         \A s \in Requests : s # Current => full'[s] = full[s], ended' \subseteq ended \cup {Current},
         UNCHANGED <<stored, config>>, count'.requests = count.requests, ~IsGenerating(chat')
  PROVE  Texts'
  <1> DEFINE ms == chat.messages
             ns == chat'.messages
             q == count.requests
  <1>1. /\ ms \in Seq(Message) /\ stored \in Seq(Message) /\ full \in [Requests -> Text] /\ full' \in [Requests -> Text]
        /\ q \in 0..MaxRequests /\ q <= q
    BY LastIsMessage, FullTypes, FullTypesAfter
  <1>2. OwnAll(ms, full', q, config.style) /\ OwnAll(stored, full', q, config.style)
    <2>1. OwnAll(ms, full, q, config.style) /\ OwnAll(stored, full, q, config.style)
      BY DEF Texts
    <2> QED BY <1>1, <2>1, OwnGrows
  <1>3. OwnAll(ns, full', q, config.style)
    BY <1>2 DEF OwnAll, Revised
  <1>4. WholeAll(ns, full', ended', config.style)
    <2> SUFFICES ASSUME NEW i \in 1..Len(ms) PROVE Whole(ns[i], full', ended', config.style)
      BY DEF WholeAll, Revised
    <2>1. CASE i = Len(ms) /\ ms[i].from = "assistant"
      BY <2>1 DEF Revised
    <2>2. CASE i # Len(ms) \/ ms[i].from # "assistant"
      <3>1. ns[i] = ms[i]
        BY <2>2 DEF Revised
      <3>2. CASE ms[i].from # "assistant"
        BY <3>1, <3>2 DEF Whole
      <3>3. CASE ms[i].from = "assistant" /\ i # Len(ms)
        <4>1. ms[i].req # Current
          BY <3>3 DEF Texts, Alone
        <4>2. ms[i].req \in 1..q
          BY <3>3 DEF Texts, OwnAll, Own
        <4>3. ms[i].req \in Requests
          BY <4>2, FullTypes
        <4>4. full'[ms[i].req] = full[ms[i].req] /\ (ms[i].req \in ended' => ms[i].req \in ended)
          BY <4>1, <4>3
        <4>5. Whole(ms[i], full, ended, config.style)
          BY DEF Texts, WholeAll
        <4> QED BY <3>1, <4>4, <4>5 DEF Whole
      <3> QED BY <2>2, <3>2, <3>3
    <2> QED BY <2>1, <2>2
  <1> QED BY <1>2, <1>3, <1>4 DEF Texts

(* The three ways in which a stream ends an answer.                        *)
LEMMA StreamTexts ==
  ASSUME TypeInv, TypeInv', FullInv, Texts, IsGenerating(chat), LastPending(chat.messages), config.stream,
         NEW n \in {Settle(LastMessage), Finish(LastMessage), WithError(LastMessage)},
         Revised(chat.messages, chat'.messages, n), UNCHANGED <<stored, config, full>>,
         ended' \subseteq ended \cup {chat.source}, count'.requests = count.requests, ~IsGenerating(chat')
  PROVE  Texts'
  <1> DEFINE r == chat.source
  <1>1. /\ r \in 1..count.requests /\ r \in Requests /\ LastMessage \in Message
        /\ LastMessage.from = "assistant" /\ LastMessage.req = r
        /\ Shown(LastMessage.text, full[r], config.style)
    BY ShownText
  <1>2. n \in Message /\ n.from = "assistant" /\ n.req = r /\ (n.text = LastMessage.text \/ n.text = Local)
    <2>1. Settle(LastMessage) \in Message /\ Finish(LastMessage) \in Message /\ WithError(LastMessage) \in Message
      BY <1>1, FinishedIsMessage DEF Settle, Finish
    <2> QED BY <1>1, <2>1 DEF Settle, Finish, WithError, Complete, Message
  <1>3. full \in [Requests -> Text]
    BY FullTypes
  <1> HIDE DEF r
  <1>4. Own(n, full, count.requests, config.style) /\ Whole(n, full, ended', config.style)
    BY <1>1, <1>2, <1>3, ShownIsOwn
  <1>5. Grows(full, full') /\ ended' \subseteq ended \cup {Current}
    BY <1>3, PrefixOrder DEF Grows, Current
  <1> QED BY <1>4, <1>5, EndTexts

(* Every step keeps each answer with the text of its own request. *)
LEMMA TextStep ==
  ASSUME TypeInv, TypeInv', FlagInv, RestInv, FullInv, PageInv, TextInv, [Next]_vars
  PROVE  TextInv'
  <1> SUFFICES ASSUME ~crossed' PROVE Texts'
    BY DEF TextInv
  <1>a. ~crossed /\ ~LeftSaves
    BY CrossedStays DEF LeftSaves
  <1>b. Calm /\ Texts
    BY <1>a DEF RestInv, TextInv
  <1>c. /\ chat.messages \in Seq(Message) /\ view.messages \in Seq(Message) /\ stored \in Seq(Message)
        /\ chat \in Chats /\ chat' \in Chats /\ chat.pending \in Text
    BY LastIsMessage, FlagTypes, FlagTypesAfter
  <1>d. IsGenerating(chat) => LastPending(chat.messages)
    BY <1>b DEF Calm
  <1>e. count \in [requests : 0..MaxRequests, messages : Nat, mounts : Nat, edits : Nat]
    BY DEF TypeInv, Types
  <1>f. OwnAll(stored, full, count.requests, config.style)
    BY <1>b DEF Texts
  <1>g. Grows(full, full')
    BY FullStep
  <1>1. CASE HandleSendMessage
    <2>1. /\ \E ms : Submits(view.messages, 1, ms)
          /\ ~view.generating /\ UNCHANGED <<stored, config, full, ended>>
      BY <1>1, SubmitStep, SubmittedLists DEF HandleSendMessage, Ready, page, history
    <2>2. view.messages = chat.messages /\ chat.pending = <<>>
      BY <2>1, <1>b, AtRest
    <2>3. Drawn(view.messages)
      BY <2>2, SelfDrawn
    <2> QED BY <2>1, <2>2, <2>3, <1>b, <1>c, SubmitTexts
  <1>2. CASE HandleRegenerateMessage
    <2>1. PICK i \in DOMAIN view.messages :
              Submit(SubSeq(view.messages, 1, IF view.messages[i].from = "user" THEN i ELSE i - 1), 0)
      BY <1>2 DEF HandleRegenerateMessage
    <2> DEFINE j == IF view.messages[i].from = "user" THEN i ELSE i - 1
               before == SubSeq(view.messages, 1, j)
    <2>2. j \in 0..Len(view.messages)
      BY <1>c
    <2> HIDE DEF j
    <2>3. ~view.generating /\ UNCHANGED <<stored, config, full, ended>>
      BY <1>2 DEF HandleRegenerateMessage, Ready, page, history
    <2>4. view.messages = chat.messages /\ chat.pending = <<>>
      BY <2>3, <1>b, AtRest
    <2>5. before \in Seq(Message) /\ Drawn(before)
      BY <2>2, <2>4, <1>c, PrefixIsCalm, SelfDrawn, PrefixDrawn
    <2>6. Submit(before, 0)
      BY <2>1 DEF j
    <2> HIDE DEF before
    <2>7. \E ms : Submits(before, 0, ms)
      BY <2>5, <2>6, SubmitStep
    <2> QED BY <2>3, <2>4, <2>5, <2>7, <1>b, SubmitTexts
  <1>3. CASE HandleEditMessage \/ HandleEditOpenChange \/ Render \/ UNCHANGED vars
    <2>1. chat' = chat /\ UNCHANGED <<stored, config, full, ended>> /\ count'.requests = count.requests
      BY <1>3, <1>e DEF HandleEditMessage, HandleEditOpenChange, Render, page, history, vars
    <2> QED BY <2>1, <1>b, <1>f, SameTexts
  <1>4. CASE SaveEdit
    <2>1. ~view.generating /\ UNCHANGED <<stored, count, config, full, ended>> /\ Editable
      BY <1>4 DEF SaveEdit, Crosses, page, history
    <2>2. Relisted(chat, chat', Edited)
      BY <1>4, SaveEditStep
    <2>3. view.messages = chat.messages /\ ~IsGenerating(chat)
      BY <2>1, <1>b, AtRest
    <2>4. Drawn(chat'.messages)
      BY <2>1, <2>2, <2>3, EditedDrawn DEF Relisted
    <2>5. ~IsGenerating(chat')
      BY <2>2, <2>3 DEF Relisted, SameStream, IsGenerating
    <2> QED BY <2>1, <2>4, <2>5, <1>b, DrawnStep
  <1>5. CASE SaveEditAndSubmit
    <2>1. ~view.generating /\ UNCHANGED <<stored, config, full, ended>> /\ Editable
      BY <1>5 DEF SaveEditAndSubmit, Crosses, page, history
    <2> DEFINE k == IndexOf(view.messages, editing)
               before == SubSeq(Edited, 1, k)
    <2>2. Edited \in Seq(Message) /\ k \in 1..Len(Edited)
      BY <2>1, EditedIsCalm
    <2>3. Submit(before, 0)
      BY <1>5 DEF SaveEditAndSubmit
    <2> HIDE DEF k
    <2>4. k \in 0..Len(Edited)
      BY <2>2
    <2>5. view.messages = chat.messages /\ chat.pending = <<>>
      BY <2>1, <1>b, AtRest
    <2>6. before \in Seq(Message) /\ Drawn(before)
      BY <2>1, <2>2, <2>4, <2>5, PrefixIsCalm, EditedDrawn, PrefixDrawn
    <2> HIDE DEF before
    <2>7. \E ms : Submits(before, 0, ms)
      BY <2>3, <2>6, SubmitStep
    <2> QED BY <2>1, <2>5, <2>6, <2>7, <1>b, SubmitTexts
  <1>6. CASE HandleDeleteMessage
    <2>1. ~view.generating /\ UNCHANGED <<stored, config, full, ended>>
      BY <1>6 DEF HandleDeleteMessage, Ready, page, history
    <2>2. count'.requests = count.requests
      BY <1>6, <1>e DEF HandleDeleteMessage
    <2>3. PICK i \in 1..Len(view.messages) :
              Relisted(chat, chat', RemoveMessageByKey(chat.messages, view.messages[i].key))
      BY <1>6, DeleteStep
    <2> DEFINE key == view.messages[i].key
               ns == RemoveMessageByKey(chat.messages, key)
    <2> HIDE DEF key
    <2>4. \/ ns = chat.messages
          \/ \E k \in 1..Len(chat.messages) : Removed(chat.messages, ns, k)
      BY <1>c, RemovedList
    <2>5. chat'.messages = ns
      BY <2>3 DEF Relisted, ns, key
    <2> HIDE DEF ns
    <2>6. ~IsGenerating(chat')
      BY <2>1, <2>3, <1>b, AtRest DEF Relisted, SameStream, IsGenerating
    <2>7. Drawn(ns)
      <3>1. CASE ns = chat.messages
        BY <3>1, SelfDrawn
      <3>2. CASE \E k \in 1..Len(chat.messages) : Removed(chat.messages, ns, k)
        <4>1. PICK k \in 1..Len(chat.messages) : Removed(chat.messages, ns, k)
          BY <3>2
        <4>2. \A j \in 1..Len(ns) : j \in 1..Len(chat.messages) /\ j + 1 \in 1..Len(chat.messages)
          BY <4>1, <1>c DEF Removed
        <4>3. \A j \in 1..Len(ns) : \E h \in 1..Len(chat.messages) : ns[j] = chat.messages[h]
          BY <4>1, <4>2 DEF Removed
        <4> QED BY <4>3 DEF Drawn
      <3> QED BY <2>4, <3>1, <3>2
    <2> QED BY <2>1, <2>2, <2>5, <2>6, <2>7, <1>b, DrawnStep
  <1>7. CASE HandleClearMessages
    <2>1. UNCHANGED <<stored, count, config, full, ended>> /\ ~view.generating
      BY <1>7 DEF HandleClearMessages, Ready, page, history
    <2>2. Relisted(chat, chat', <<>>)
      BY <1>7, ClearStep
    <2>3. ~IsGenerating(chat') /\ Drawn(chat'.messages)
      BY <2>1, <2>2, <1>b, AtRest DEF Relisted, SameStream, IsGenerating, Drawn
    <2> QED BY <2>1, <2>3, <1>b, DrawnStep
  <1>8. CASE Stop
    <2>1. /\ Revised(chat.messages, chat'.messages, Settle(LastMessage)) /\ Rested(chat')
          /\ chat'.isStreaming = FALSE
      BY <1>8, StopStep
    <2>2. UNCHANGED <<stored, count, config, full, ended>>
      BY <1>8 DEF Stop, page, history
    <2>3. ~IsGenerating(chat')
      BY <2>1 DEF Rested, IsGenerating
    <2>4. CASE IsGenerating(chat) /\ config.stream
      BY <2>1, <2>2, <2>3, <2>4, <1>b, <1>d, StreamTexts
    <2>5. CASE IsGenerating(chat) /\ ~config.stream
      <3> DEFINE m == chat.messages[Len(chat.messages)]
      <3>1. LastMessage = m /\ chat.isRequesting
        BY <2>5 DEF TypeInv, NoStreamInv, LastMessage, Chunked, IsGenerating
      <3>2. chat.requestId \in chat.open
        BY <2>5, <3>1, <1>a DEF FlagInv, WholeInv
      <3>3. m \in Message /\ m.from = "assistant" /\ m.req = chat.requestId /\ Own(m, full, count.requests, config.style)
        <4>1. Len(chat.messages) \in 1..Len(chat.messages) /\ m.from = "assistant"
          BY <2>5, <1>c, <1>d DEF LastPending
        <4> QED BY <4>1, <2>5, <1>b, <1>c DEF Texts, Alone, Current, OwnAll
      <3>4. m.req \notin ended
        BY <3>2, <3>3 DEF FullInv
      <3> HIDE DEF m
      <3>5. Own(Settle(m), full, count.requests, config.style) /\ Whole(Settle(m), full, ended, config.style)
        BY <3>3, <3>4 DEF Own, Whole, Settle, Complete, Message
      <3> QED BY <2>1, <2>2, <2>3, <2>5, <3>1, <3>5, <1>b, <1>d, <1>g, EndTexts
    <2>6. CASE ~IsGenerating(chat)
      <3> DEFINE m == chat.messages[Len(chat.messages)]
      <3>1. chat.pending = <<>> /\ NonePending(chat.messages)
        BY <2>6, <1>b DEF Calm
      <3>2. LastMessage = m
        BY <3>1 DEF LastMessage, Chunked
      <3>3. Revised(chat.messages, chat'.messages, m)
        <4>1. CASE Len(chat.messages) = 0
          BY <4>1, <2>1 DEF Revised
        <4>2. CASE Len(chat.messages) # 0
          <5>1. Len(chat.messages) \in 1..Len(chat.messages)
            BY <4>2, <1>c
          <5>2. ~IsPending(m)
            BY <5>1, <3>1 DEF NonePending
          <5> QED BY <5>2, <3>2, <2>1 DEF Settle
        <4> QED BY <4>1, <4>2
      <3>4. chat'.messages = chat.messages
        BY <3>3, <1>c, RevisedBySame
      <3> QED BY <2>2, <2>3, <3>4, <1>b, <1>f, SameTexts
    <2> QED BY <2>4, <2>5, <2>6
  <1>9. CASE StreamUpdate
    <2>1. PICK r \in chat.open, d \in Deltas :
           /\ r \in Requests /\ full' = [full EXCEPT ![r] = Grown(r, d)]
           /\ Delta(r, d) \in Text /\ Len(Delta(r, d)) # 0
           /\ SameStream(chat, chat') /\ chat'.messages = chat.messages /\ chat'.isRequesting = chat.isRequesting
           /\ chat'.pending = MergePendingStreamChunk(chat.pending, Chunk(r, d))
      BY <1>9, PieceStep
    <2>2. UNCHANGED <<stored, count, config, ended>> /\ config.stream
      BY <1>9 DEF StreamUpdate, quietly, page
    <2>3. r = chat.source /\ IsGenerating(chat) /\ IsGenerating(chat')
      BY <2>1, <2>2, FlagTypes DEF FlagInv, StreamInv, IsGenerating, SameStream
    <2> DEFINE ms == chat.messages
               m == ms[Len(ms)]
               q == count.requests
    <2>4. \A s \in Requests : s # r => full'[s] = full[s]
      BY <2>1, FullTypes
    <2>5. OwnAll(ms, full', q, config.style) /\ OwnAll(stored, full', q, config.style)
      <3>1. OwnAll(ms, full, q, config.style) /\ OwnAll(stored, full, q, config.style)
        BY <1>b DEF Texts
      <3>2. full \in [Requests -> Text] /\ full' \in [Requests -> Text] /\ q \in 0..MaxRequests /\ q <= q
        BY FullTypes, FullTypesAfter
      <3> QED BY <3>1, <3>2, <1>c, <1>g, OwnGrows
    <2>6. WholeAll(ms, full', ended, config.style)
      <3> SUFFICES ASSUME NEW i \in 1..Len(ms), ms[i].from = "assistant", ms[i].req \in ended
                   PROVE  Whole(ms[i], full', ended, config.style)
        BY DEF WholeAll, Whole
      <3>1. ms[i].req # r
        BY <2>1 DEF FullInv
      <3>2. ms[i].req \in Requests
        BY <1>b, FullTypes DEF Texts, OwnAll, Own
      <3>3. full'[ms[i].req] = full[ms[i].req] /\ Whole(ms[i], full, ended, config.style)
        BY <3>1, <3>2, <2>4, <1>b DEF Texts, WholeAll
      <3> QED BY <3>3 DEF Whole
    <2>7. Caught(config.style, m.text, chat'.pending, full'[r])
      <3> DEFINE style == config.style
                 text == m.text
                 whole == full[r]
                 pending == chat.pending
                 delta == Delta(r, d)
      <3>1. /\ text \in Text /\ pending \in Text /\ whole \in Text /\ delta \in Text /\ Len(delta) # 0
            /\ Caught(style, text, pending, whole)
        <4>1. Len(ms) \in 1..Len(ms)
          BY <2>3, <1>c, <1>d DEF LastPending
        <4>2. m \in Message
          BY <4>1, <1>c
        <4>3. text \in Text
          BY <4>2 DEF Message, Text
        <4>4. whole \in Text
          BY <2>1, FullTypes
        <4> QED BY <4>3, <4>4, <2>1, <2>2, <2>3, <1>b, <1>c DEF Texts
      <3> HIDE DEF style, text, whole, pending, delta
      <3> DEFINE next == whole \o delta
                 chunk == IF style = "snapshot" THEN next ELSE delta
      <3>2. Caught(style, text, MergePendingStreamChunk(pending, chunk), next)
        BY <3>1, MergedText
      <3>3. Grown(r, d) = next /\ Chunk(r, d) = chunk
        BY DEF Grown, Chunk, whole, style, delta
      <3>4. full'[r] = next
        BY <3>3, <2>1, FullTypes
      <3>5. chat'.pending = MergePendingStreamChunk(pending, chunk)
        BY <3>3, <2>1 DEF pending
      <3> HIDE DEF next, chunk
      <3> QED BY <3>2, <3>4, <3>5 DEF style, text
    <2>8. Alone(ms, r) /\ chat'.source = r
      BY <2>1, <2>2, <2>3, <1>b DEF Texts, Current, SameStream
    <2> HIDE DEF m
    <2> QED BY <2>1, <2>2, <2>3, <2>5, <2>6, <2>7, <2>8 DEF Texts, Current, m
  <1>10. CASE StreamDone
    <2>1. PICK r \in chat.open :
            /\ Rested(chat') /\ ClosedStream(chat, chat', r) /\ Revised(chat.messages, chat'.messages, Finish(LastMessage))
            /\ ended' = ended \cup {r}
      BY <1>10, DoneStep
    <2>2. config.stream /\ UNCHANGED <<stored, count, config, full>>
      BY <1>10 DEF StreamDone, quietly, page
    <2>3. chat.source = r /\ chat.isStreaming
      BY <2>2, FlagTypes DEF FlagInv, StreamInv
    <2>4. IsGenerating(chat) /\ ~IsGenerating(chat')
      BY <2>1, <2>3 DEF IsGenerating, ClosedStream, Rested
    <2> QED BY <2>1, <2>2, <2>3, <2>4, <1>b, <1>d, StreamTexts
  <1>11. CASE StreamFails
    <2>1. config.stream /\ UNCHANGED <<stored, count, config, full, ended>>
      BY <1>11 DEF StreamFails, quietly, page, history
    <2>2. CASE UNCHANGED chat
      BY <2>1, <2>2, <1>b, <1>f, SameTexts
    <2>3. CASE \E r \in chat.open : Rested(chat') /\ ClosedStream(chat, chat', r)
                                    /\ Revised(chat.messages, chat'.messages, WithError(LastMessage))
      <3>1. PICK r \in chat.open : Rested(chat') /\ ClosedStream(chat, chat', r)
                                   /\ Revised(chat.messages, chat'.messages, WithError(LastMessage))
        BY <2>3
      <3>2. chat.source = r /\ chat.isStreaming
        BY <2>1, FlagTypes DEF FlagInv, StreamInv
      <3>3. IsGenerating(chat) /\ ~IsGenerating(chat')
        BY <3>1, <3>2 DEF IsGenerating, ClosedStream, Rested
      <3> QED BY <2>1, <3>1, <3>3, <1>b, <1>d, StreamTexts
    <2> QED BY <1>11, <2>2, <2>3, FailStep
  <1>12. CASE StreamEndsSilently
    <2>1. /\ chat'.messages = chat.messages /\ chat'.pending = chat.pending /\ chat'.source = chat.source
          /\ chat'.requestId = chat.requestId
          /\ chat'.isStreaming = chat.isStreaming /\ chat'.isRequesting = chat.isRequesting
      BY <1>12, SilentStep DEF SameRequest
    <2>2. UNCHANGED <<stored, count, config, full, ended>>
      BY <1>12 DEF StreamEndsSilently, quietly, page, history
    <2> QED BY <2>1, <2>2, <1>b, <1>f, SameTexts DEF IsGenerating
  <1>13. CASE Response
    <2>1. PICK r \in chat.open, outcome \in {"choice", "none", "failure"} :
           /\ r \in Requests /\ Responded(chat, chat', r, outcome)
           /\ r \notin chat.aborted /\ outcome = "choice" =>
                full' = [full EXCEPT ![r] = << <<r, 1>> >>] /\ ended' = ended \cup {r}
           /\ ~(r \notin chat.aborted /\ outcome = "choice") => full' = full /\ ended' = ended
      BY <1>13, ResponseStep
    <2>2. UNCHANGED <<stored, count, config>> /\ ~config.stream
      BY <1>13 DEF Response, quietly, page
    <2>3. /\ r \in chat.aborted \/ r = chat.requestId
          /\ chat.isRequesting <=> chat.requestId \in chat.open /\ chat.requestId \notin chat.aborted
      BY <2>2, <1>a DEF FlagInv, WholeInv
    <2>4. chat.isStreaming = FALSE /\ chat'.isStreaming = FALSE /\ chat.pending = <<>> /\ chat'.pending = <<>>
      BY <2>1, <2>2 DEF TypeInv, NoStreamInv, Responded
    <2>5. CASE r \in chat.aborted
      <3>1. /\ chat'.messages = chat.messages /\ chat'.isRequesting = chat.isRequesting
            /\ chat'.source = chat.source /\ chat'.requestId = chat.requestId
        BY <2>1, <2>3, <2>5, FlagTypes DEF Responded
      <3> QED BY <2>1, <2>2, <2>4, <2>5, <3>1, <1>b, <1>f, SameTexts DEF IsGenerating
    <2>6. CASE r \notin chat.aborted
      <3> DEFINE m == chat.messages[Len(chat.messages)]
                 n == IF outcome = "choice" THEN Given(m, r) ELSE WithError(m)
      <3>1. Revised(chat.messages, chat'.messages, n) /\ chat'.isRequesting = FALSE
        BY <2>1, <2>3, <2>6 DEF Responded
      <3>2. IsGenerating(chat) /\ ~IsGenerating(chat') /\ Current = r
        BY <2>2, <2>3, <2>4, <2>6, <3>1 DEF IsGenerating, Current
      <3>3. m \in Message /\ m.from = "assistant" /\ m.req = r /\ r \in 1..count.requests
        <4>1. Len(chat.messages) \in 1..Len(chat.messages) /\ m.from = "assistant"
          BY <3>2, <1>c, <1>d DEF LastPending
        <4> QED BY <4>1, <3>2, <1>b, <1>c DEF Texts, Alone, OwnAll, Own
      <3>4. \A s \in Requests : s # r => full'[s] = full[s]
        BY <2>1, FullTypes
      <3>5. Own(n, full', count.requests, config.style) /\ Whole(n, full', ended', config.style)
        <4>1. CASE outcome = "choice"
          <5> DEFINE text == << <<r, 1>> >>
          <5>1. n.from = "assistant" /\ n.req = r /\ n.text = text
            BY <4>1, <3>3 DEF Given, Message
          <5>2. full'[r] = text
            BY <4>1, <2>1, <2>6, FullTypes
          <5>3. full' \in [Requests -> Text] /\ r \in Requests
            BY <2>1, FullTypesAfter
          <5>4. Shown(n.text, full'[r], config.style)
            BY <5>1, <5>2, <5>3, EmptyIsPart
          <5>5. n \in Message
            <6>1. n = [m EXCEPT !.status = "complete", !.text = full'[r]] /\ full'[r] \in Text
              BY <4>1, <5>2, <5>3 DEF Given
            <6> HIDE DEF n
            <6> QED BY <3>3, <6>1 DEF Message, Text
          <5> HIDE DEF n, text
          <5> QED BY <5>1, <5>3, <5>4, <5>5, <3>3, ShownIsOwn
        <4>2. CASE outcome # "choice"
          <5>1. n.from = "assistant" /\ n.req = r /\ n.text = Local
            BY <4>2, <3>3 DEF WithError, Message
          <5> HIDE DEF n
          <5> QED BY <5>1, <3>3 DEF Own, Whole
        <4> QED BY <4>1, <4>2
      <3>6. ended' \subseteq ended \cup {Current}
        BY <2>1, <3>2
      <3> HIDE DEF n
      <3> QED BY <2>2, <3>1, <3>2, <3>4, <3>5, <3>6, <1>b, <1>d, <1>g, EndTexts
    <2> QED BY <2>5, <2>6
  <1>14. CASE FlushTimer
    <2>1. /\ Revised(chat.messages, chat'.messages, LastMessage) /\ SameStream(chat, chat') /\ SameRequest(chat, chat')
          /\ chat'.pending = <<>> /\ chat'.isRequesting = chat.isRequesting
      BY <1>14, FlushStep
    <2>2. UNCHANGED <<stored, count, config, full, ended>>
      BY <1>14 DEF FlushTimer, quietly, page, history
    <2>3. CASE chat.pending = <<>>
      <3>1. chat'.messages = chat.messages
        BY <2>1, <2>3, <1>c, RevisedBySame DEF LastMessage, Chunked
      <3> QED BY <2>1, <2>2, <2>3, <3>1, <1>b, <1>f, SameTexts DEF IsGenerating, SameStream, SameRequest
    <2>4. CASE chat.pending # <<>>
      <3> DEFINE ms == chat.messages
                 ns == chat'.messages
                 r == chat.source
                 q == count.requests
      <3>1. IsGenerating(chat) /\ config.stream
        BY <2>4, <1>b DEF Calm, TypeInv, NoStreamInv
      <3>2. /\ r \in 1..q /\ r \in Requests /\ LastMessage.from = "assistant" /\ LastMessage.req = r
            /\ LastMessage \in Message /\ Shown(LastMessage.text, full[r], config.style)
        BY <3>1, <1>b, <1>d, ShownText
      <3>3. full \in [Requests -> Text] /\ full[r] \in Text /\ LastMessage.text \in Text
        BY <3>2, FullTypes DEF Message, Text
      <3>4. Own(LastMessage, full, q, config.style) /\ Whole(LastMessage, full, ended, config.style)
        BY <3>2, <3>3, ShownIsOwn
      <3>5. OwnAll(ns, full, q, config.style) /\ WholeAll(ns, full, ended, config.style)
        BY <2>1, <3>4, <1>b DEF Texts, OwnAll, WholeAll, Revised
      <3>6. Len(ns) = Len(ms) /\ Len(ms) \in 1..Len(ms) /\ ns[Len(ns)] = LastMessage
        BY <2>1, <3>1, <1>c, <1>d DEF Revised, LastPending
      <3>7. Alone(ns, r)
        BY <2>1, <3>1, <3>2, <3>6, <1>b DEF Texts, Alone, Current, Revised
      <3>8. Caught(config.style, LastMessage.text, <<>>, full[r])
        BY <3>2, <3>3, CaughtAlone
      <3>9. chat'.source = r
        BY <2>1 DEF SameStream
      <3> QED BY <2>1, <2>2, <3>1, <3>2, <3>5, <3>6, <3>7, <3>8, <3>9, <1>f DEF Texts, Current
    <2> QED BY <2>3, <2>4
  <1>15. CASE SaveTimer
    <2>1. /\ chat'.messages = chat.messages /\ chat'.pending = chat.pending
          /\ SameStream(chat, chat') /\ SameRequest(chat, chat') /\ chat'.isRequesting = chat.isRequesting
      BY <1>15, SaveStep
    <2>2. UNCHANGED <<count, config, full, ended>> /\ (stored' = stored \/ stored' = TrimMessages(chat.messages))
      BY <1>15 DEF SaveTimer, SaveMessages, history
    <2>3. OwnAll(chat.messages, full, count.requests, config.style)
      BY <1>b DEF Texts
    <2>4. OwnAll(stored', full, count.requests, config.style)
      BY <2>2, <2>3, <1>c, <1>f, TrimIsOwn
    <2> QED BY <2>1, <2>2, <2>4, <1>b, SameTexts DEF IsGenerating, SameStream, SameRequest
  <1>16. CASE Mount
    <2>1. PICK ms \in Seq(Message) :
           /\ chat' = NewChat(ms)
           /\ \/ ms \in LoadMessages(stored) /\ SaveMessages(ms)
              \/ ms = <<>> /\ damaged' = TRUE /\ stored' = stored /\ faults' = faults + 1
      BY <1>16, MountStep
    <2>2. chat'.messages = ms /\ chat'.isStreaming = FALSE /\ chat'.isRequesting = FALSE
      BY <2>1, NewFields
    <2>3. UNCHANGED <<config, full>> /\ count'.requests = count.requests /\ ended' = {}
      BY <1>16, <1>e DEF Mount, history, FullInv
    <2>4. OwnAll(ms, full, count.requests, config.style) /\ OwnAll(stored', full, count.requests, config.style)
      <3>1. CASE ms \in LoadMessages(stored) /\ SaveMessages(ms)
        <4>1. PICK k \in Nat : Loaded(stored, ms, k)
          BY <3>1, <1>c, LoadedList
        <4>2. OwnAll(ms, full, count.requests, config.style)
          BY <4>1, <1>c, <1>f, LoadedIsOwn
        <4>3. stored' = stored \/ stored' = TrimMessages(ms)
          BY <3>1 DEF SaveMessages
        <4> QED BY <4>2, <4>3, <2>1, <1>f, TrimIsOwn
      <3>2. CASE ms = <<>> /\ stored' = stored
        BY <3>2, <1>f DEF OwnAll
      <3> QED BY <2>1, <3>1, <3>2
    <2>5. WholeAll(ms, full, {}, config.style)
      BY DEF WholeAll, Whole
    <2> QED BY <2>2, <2>3, <2>4, <2>5 DEF Texts, IsGenerating
  <1>17. CASE Unmount \/ Reload
    <2>1. chat' = NewChat(<<>>) /\ UNCHANGED <<count, config, full>>
      BY <1>17 DEF Unmount, Reload, Commit
    <2>2. chat'.messages = <<>> /\ chat'.isStreaming = FALSE /\ chat'.isRequesting = FALSE
      BY <2>1 DEF NewChat
    <2>3. stored' = stored \/ stored' = TrimMessages(chat.messages)
      BY <1>17 DEF Unmount, Reload, SaveMessages
    <2>4. OwnAll(chat.messages, full, count.requests, config.style)
      BY <1>b DEF Texts
    <2>5. OwnAll(stored', full, count.requests, config.style)
      BY <2>3, <2>4, <1>c, <1>f, TrimIsOwn
    <2>6. OwnAll(<<>>, full, count.requests, config.style) /\ WholeAll(<<>>, full, ended', config.style)
      BY DEF OwnAll, WholeAll
    <2> QED BY <2>1, <2>2, <2>5, <2>6 DEF Texts, IsGenerating
  <1> QED BY <1>1, <1>2, <1>3, <1>4, <1>5, <1>6, <1>7, <1>8, <1>9, <1>10, <1>11, <1>12, <1>13, <1>14,
             <1>15, <1>16, <1>17, <1>a DEF Next, User

(* Nothing is answered at the start. *)
LEMMA TextInit == Init => FullInv /\ TextInv
  <1> SUFFICES ASSUME Init PROVE FullInv /\ Texts
    BY DEF TextInv
  <1>1. chat.messages = <<>> /\ chat.isStreaming = FALSE /\ chat.isRequesting = FALSE /\ chat.open = {} /\ ended = {}
    BY DEF Init, NewChat
  <1>2. \A r \in Requests : full[r] = <<>>
    BY DEF Init
  <1>3. FullInv
    BY <1>1, <1>2 DEF FullInv
  <1>4. stored = <<>>
    BY DEF Init
  <1> QED BY <1>1, <1>3, <1>4 DEF Texts, OwnAll, WholeAll, Own, IsGenerating

(* What the texts of the answers are, from the start on. *)
LEMMA TextAlways == Spec => [](TypeInv /\ TextInv)
  <1> DEFINE I == TypeInv /\ FlagInv /\ RestInv /\ PageInv /\ FullInv /\ TextInv
  <1>1. Init => I
    BY TypeInit, FlagInit, RestInit, KeyInit, TextInit
  <1>2. I /\ [Next]_vars => I'
    <2> SUFFICES ASSUME I, [Next]_vars PROVE I'
      OBVIOUS
    <2>1. TypeInv' /\ FlagInv' /\ RestInv' /\ PageInv'
      BY TypeStep, FlagStep, RestStep, PageStep
    <2>2. FullInv' /\ TextInv'
      BY <2>1, FullStep, TextStep
    <2> QED BY <2>1, <2>2
  <1>3. I => TypeInv /\ TextInv
    OBVIOUS
  <1> HIDE DEF I
  <1> QED BY <1>1, <1>2, <1>3, PTL DEF Spec

(* What they are of one answer. *)
LEMMA AnswerText ==
  ASSUME TypeInv, TextInv, ~crossed, NEW m \in Answers
  PROVE  /\ Part(m.text, full[m.req], config.style)
         /\ Clear(config.style, full[m.req]) /\ m.status = "complete" /\ m.req \in ended => m.text = full[m.req]
  <1>1. Texts /\ chat.messages \in Seq(Message)
    BY LastIsMessage DEF TextInv
  <1>2. PICK i \in 1..Len(chat.messages) : m = chat.messages[i]
    BY <1>1 DEF Answers, ToSet
  <1>3. m.from = "assistant" /\ m.text # Local
    BY DEF Answers
  <1>4. Own(m, full, count.requests, config.style) /\ Whole(m, full, ended, config.style)
    BY <1>1, <1>2 DEF Texts, OwnAll, WholeAll
  <1> QED BY <1>3, <1>4 DEF Own, Whole

(* An answer shows words of its own request only, each at most as often    *)
(* and in the order in which they were delivered: for any deltas, also     *)
(* such as repeat what is in the buffer or on the screen and are taken for *)
(* snapshots, none repeats, reorders or mixes text.  Not inductive by      *)
(* itself: it needs what the answer and the buffer hold together (Caught), *)
(* and that no other message belongs to the request that runs (Alone).     *)
THEOREM PlaygroundAnswerIsOwn == Spec => []AnswerIsOwn
  <1>1. TypeInv /\ TextInv => AnswerIsOwn
    BY AnswerText DEF AnswerIsOwn, Part
  <1> QED BY <1>1, TextAlways, PTL

(* If no chunk can be mistaken, because the provider sends snapshots or    *)
(* the words of the request all differ, an answer has no gaps, and shows   *)
(* all of its request once that has ended: no flush, stop or end of a      *)
(* stream loses what was in the buffer.                                    *)
THEOREM PlaygroundAnswerIsWhole == Spec => []AnswerIsWhole
  <1>1. TypeInv /\ TextInv => AnswerIsWhole
    <2> SUFFICES ASSUME TypeInv, TextInv, ~crossed, NEW m \in Answers, Unmistakable(full[m.req])
                 PROVE  /\ IsPrefix(m.text, full[m.req])
                        /\ m.status = "complete" /\ m.req \in ended => m.text = full[m.req]
      BY DEF AnswerIsWhole
    <2>1. Clear(config.style, full[m.req])
      BY DEF Clear, Unmistakable
    <2> QED BY <2>1, AnswerText DEF Part
  <1> QED BY <1>1, TextAlways, PTL
=============================================================================
