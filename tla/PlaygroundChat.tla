---------------------------- MODULE PlaygroundChat ----------------------------
(***************************************************************************)
(* The playground of the web console: one conversation with a model, in    *)
(* web/default/src/features/playground.                                    *)
(*                                                                         *)
(* The hooks keep their state in one React component.  The record chat     *)
(* holds the state and the refs of useStreamRequest, useChatHandler and    *)
(* usePlaygroundState; a callback is an operator from one record to the    *)
(* next, as the callbacks call each other.  The actions are the events:    *)
(* the user's, those of the transport (sse.js or the HTTP client, both     *)
(* external), the timers, React's commit, and leaving the page.            *)
(*                                                                         *)
(* The user sees, and the handlers of the user's events close over, what   *)
(* was last committed (view).  Events of the transport and timers change   *)
(* the state at once and are committed later; an event of the user is      *)
(* committed before the next one.                                          *)
(*                                                                         *)
(* A text is a sequence of pairs <<r, w>>: the word w that request r       *)
(* delivered; words with r = 0 are written locally (by the user, or an     *)
(* error message).  The same words may be delivered again and again, so a  *)
(* delta may begin like the text before it.  Reasoning and content are     *)
(* kept apart by the code and handled alike; here they are one text.       *)
(***************************************************************************)
EXTENDS Naturals, Sequences, SequencesExt

CONSTANTS
    Styles,       \* how the provider streams: "delta" or "snapshot"
    Deltas,       \* what an event of the stream may add: sequences of words
    MaxStored,    \* MAX_STORED_MESSAGES
    MaxRequests,  \* bound: requests
    MaxWords,     \* bound: words that are streamed
    MaxMounts,    \* bound: how often the page is opened
    MaxEdits,     \* bound: how often a message is opened in the editor or deleted
    MaxFaults     \* bound: failures of localStorage and of stream()

ASSUME PlaygroundAssumption ==
    /\ Styles \subseteq {"delta", "snapshot"} /\ Deltas \subseteq Seq(Nat) \ {<<>>}
    /\ MaxStored \in Nat \ {0} /\ MaxRequests \in Nat /\ MaxWords \in Nat
    /\ MaxMounts \in Nat /\ MaxEdits \in Nat /\ MaxFaults \in Nat

VARIABLES
    chat,     \* state and refs of the hooks
    view,     \* what React committed last: messages and isGenerating
    editing,  \* editingMessageKey, 0 if none
    mounted,  \* the page is open and has loaded its messages
    left,     \* what a page that was left may still save, or <<>>
    config,   \* stream (config.stream) and style (of the provider)
    stored,   \* the messages in localStorage
    count,    \* requests, messages, mounts, edits and deletions so far
    full,     \* history: the text each request has delivered
    ended,    \* history: requests of this page that delivered their whole answer
    crossed,  \* history: an edit was saved while an answer was generated,
              \* or a page that was left has written to localStorage
    damaged,  \* history: localStorage has failed, or was written so
    faults    \* failures so far

vars == <<chat, view, editing, mounted, left, config, stored, count, full, ended,
          crossed, damaged, faults>>

Requests == 1..MaxRequests
Local == << <<0, 0>> >>

----------------------------------------------------------------------------
(* Messages.                                                               *)

UserMessage(key) == [key |-> key, from |-> "user", req |-> 0, status |-> "none", text |-> Local]

LoadingAssistantMessage(key, r) ==
    [key |-> key, from |-> "assistant", req |-> r, status |-> "loading", text |-> <<>>]

HasContent(m) == m.text # <<>>
IsFinal(m) == m.status \in {"complete", "error"}
IsPending(m) == m.status \in {"loading", "streaming"}

Complete(m) == [m EXCEPT !.status = "complete"]
WithError(m) == [m EXCEPT !.status = "error", !.text = Local]

(* Faulty variant: a snapshot is appended to the one before it *)
MergeByAppending(current, next) == current \o next

(* mergePendingStreamChunk and getAppendableChunk: a chunk that starts     *)
(* with the text before it is taken for a snapshot of the whole text.      *)
MergePendingStreamChunk(current, next) ==
    IF current = <<>> \/ ~IsPrefix(current, next) THEN current \o next ELSE next

AppendableChunk(current, chunk) ==
    IF current = <<>> \/ ~IsPrefix(current, chunk) THEN chunk
    ELSE SubSeq(chunk, Len(current) + 1, Len(chunk))

ApplyStreamingChunk(m, chunk) ==
    IF m.status = "error" THEN m
    ELSE [m EXCEPT !.text = @ \o AppendableChunk(@, chunk), !.status = "streaming"]

(* The updater is a function on the messages.                              *)
UpdateLastAssistantMessage(ms, updater) ==
    IF ms # <<>> /\ Last(ms).from = "assistant"
    THEN [ms EXCEPT ![Len(ms)] = updater[@]] ELSE ms

IndexOf(ms, key) == CHOOSE i \in DOMAIN ms : ms[i].key = key
HasKey(ms, key) == \E i \in DOMAIN ms : ms[i].key = key

(* The filter on the keys; no two messages have the same.                  *)
RemoveMessageByKey(ms, key) == IF HasKey(ms, key) THEN RemoveAt(ms, IndexOf(ms, key)) ELSE ms

----------------------------------------------------------------------------
(* Storage: loadMessages and saveMessages.                                 *)

(* Faulty variant: one message more than the limit *)
TrimMessagesLate(ms) ==
    IF Len(ms) <= MaxStored + 1 THEN ms ELSE SubSeq(ms, Len(ms) - MaxStored, Len(ms))

TrimMessages(ms) ==
    IF Len(ms) <= MaxStored THEN ms ELSE SubSeq(ms, Len(ms) - MaxStored + 1, Len(ms))

NormalizeStored(m) == IF IsPending(m) /\ HasContent(m) THEN Complete(m) ELSE m

(* Faulty variant: only an answer with text is settled *)
SanitizeMessagesWithText(ms) ==
    [i \in DOMAIN ms |-> IF IsPending(ms[i]) /\ HasContent(ms[i]) THEN Complete(ms[i]) ELSE ms[i]]

SanitizeMessagesOnLoad(ms) ==
    LET stuck == {i \in DOMAIN ms : ms[i].from = "assistant" /\ IsPending(ms[i])}
        last == CHOOSE i \in stuck : \A j \in stuck : j <= i
    IN  IF stuck = {} THEN ms
        ELSE [ms EXCEPT ![last] = IF HasContent(@) THEN Complete(@) ELSE WithError(@)]

(* What loadMessages may return: trimMessagesByContentSize keeps at least  *)
(* the last message.                                                       *)
LoadMessages(ms) ==
    LET trimmed == TrimMessages([i \in DOMAIN ms |-> NormalizeStored(ms[i])])
    IN  IF ms = <<>> THEN {<<>>}
        ELSE {SanitizeMessagesOnLoad(SubSeq(trimmed, i, Len(trimmed))) : i \in DOMAIN trimmed}

----------------------------------------------------------------------------
(* The callbacks of the hooks, on the record chat.                         *)

NewChat(ms) ==
    [messages |-> ms, saveTimer |-> FALSE,
     pending |-> <<>>, flushTimer |-> FALSE,
     source |-> 0, isStreaming |-> FALSE, complete |-> FALSE, open |-> {},
     isRequesting |-> FALSE, requestId |-> 0, abortController |-> 0, aborted |-> {}]

IsGenerating(c) == c.isStreaming \/ c.isRequesting

(* updateMessages with persistMessages.                                    *)
UpdateMessages(c, ms) == [c EXCEPT !.messages = ms, !.saveTimer = TRUE]

(* closeActiveStream(source).                                              *)
CloseActiveStream(c, r) ==
    LET closed == [c EXCEPT !.open = @ \ {r}]
    IN  IF c.source = r
        THEN [closed EXCEPT !.source = 0, !.isStreaming = FALSE] ELSE closed

(* Faulty variant: the flush does not schedule a save *)
FlushStreamUpdatesUnsaved(c) ==
    LET apply[m \in ToSet(c.messages)] == ApplyStreamingChunk(m, c.pending)
    IN  [c EXCEPT !.flushTimer = FALSE, !.pending = <<>>,
                  !.messages = IF c.pending = <<>> THEN @ ELSE UpdateLastAssistantMessage(@, apply)]

FlushStreamUpdates(c) ==
    LET quiet == [c EXCEPT !.flushTimer = FALSE]
        apply[m \in ToSet(c.messages)] == ApplyStreamingChunk(m, c.pending)
    IN  IF c.pending = <<>> THEN quiet
        ELSE UpdateMessages([quiet EXCEPT !.pending = <<>>],
                            UpdateLastAssistantMessage(c.messages, apply))

HandleStreamUpdate(c, chunk) ==
    [c EXCEPT !.pending = MergePendingStreamChunk(@, chunk), !.flushTimer = TRUE]

(* Faulty variant: isRequesting is not reset *)
HandleStreamCompleteBusy(c) ==
    LET f == FlushStreamUpdates(c)
        finish[m \in ToSet(f.messages)] == IF IsFinal(m) THEN m ELSE Complete(m)
    IN  UpdateMessages(f, UpdateLastAssistantMessage(f.messages, finish))

(* Faulty variant: what waits in the buffer is not flushed *)
HandleStreamCompleteUnflushed(c) ==
    LET finish[m \in ToSet(c.messages)] == IF IsFinal(m) THEN m ELSE Complete(m)
    IN  UpdateMessages([c EXCEPT !.isRequesting = FALSE, !.pending = <<>>, !.flushTimer = FALSE],
                       UpdateLastAssistantMessage(c.messages, finish))

HandleStreamComplete(c) ==
    LET f == FlushStreamUpdates(c)
        finish[m \in ToSet(f.messages)] == IF IsFinal(m) THEN m ELSE Complete(m)
    IN  UpdateMessages([f EXCEPT !.isRequesting = FALSE],
                       UpdateLastAssistantMessage(f.messages, finish))

HandleStreamError(c) ==
    LET f == FlushStreamUpdates(c)
        fail[m \in ToSet(f.messages)] == WithError(m)
    IN  UpdateMessages([f EXCEPT !.isRequesting = FALSE],
                       UpdateLastAssistantMessage(f.messages, fail))

(* handleError of sendStreamRequest.                                       *)
HandleError(c, r) ==
    IF c.complete THEN c ELSE CloseActiveStream(HandleStreamError(c), r)

(* The message [DONE].                                                     *)
HandleDone(c, r) ==
    HandleStreamComplete(CloseActiveStream([c EXCEPT !.complete = TRUE], r))

SendStreamRequest(c, r, starts) ==
    LET sent == [c EXCEPT !.open = (@ \ {c.source}) \cup {r}, !.source = r,
                          !.complete = FALSE, !.isStreaming = TRUE]
    IN  IF starts THEN sent ELSE CloseActiveStream(HandleStreamError(sent), r)

SendStreamingChat(c, r, starts) ==
    SendStreamRequest([c EXCEPT !.isRequesting = TRUE], r, starts)

(* sendNonStreamingChat up to its await.                                   *)
SendNonStreamingChat(c, r) ==
    [c EXCEPT !.requestId = r, !.abortController = r, !.isRequesting = TRUE, !.open = @ \cup {r}]

SendChat(c, r, starts) ==
    IF config.stream THEN SendStreamingChat(c, r, starts) ELSE SendNonStreamingChat(c, r)

(* Faulty variant: a response that comes after the stop is applied *)
AnsweredLate(c, r, outcome) ==
    LET respond[m \in ToSet(c.messages)] == [m EXCEPT !.status = "complete", !.text = << <<r, 1>> >>]
        applied == IF outcome = "choice"
                   THEN UpdateMessages(c, UpdateLastAssistantMessage(c.messages, respond))
                   ELSE HandleStreamError(c)
        settled == [applied EXCEPT !.open = @ \ {r}]
    IN  IF c.requestId = r
        THEN [settled EXCEPT !.abortController = 0, !.isRequesting = FALSE] ELSE settled

(* sendNonStreamingChat after its await.                                   *)
Answered(c, r, outcome) ==
    LET respond[m \in ToSet(c.messages)] == [m EXCEPT !.status = "complete", !.text = << <<r, 1>> >>]
        applied == CASE r \in c.aborted -> c
                     [] r \notin c.aborted /\ outcome = "choice" ->
                            UpdateMessages(c, UpdateLastAssistantMessage(c.messages, respond))
                     [] OTHER -> HandleStreamError(c)
        settled == [applied EXCEPT !.open = @ \ {r}]
    IN  IF c.requestId = r
        THEN [settled EXCEPT !.abortController = 0, !.isRequesting = FALSE] ELSE settled

StopGeneration(c) ==
    LET s == FlushStreamUpdates(CloseActiveStream(c, c.source))
        settle[m \in ToSet(s.messages)] == IF IsPending(m) THEN Complete(m) ELSE m
    IN  UpdateMessages([s EXCEPT !.aborted = @ \cup ({s.abortController} \ {0}),
                                 !.abortController = 0, !.isRequesting = FALSE],
                       UpdateLastAssistantMessage(s.messages, settle))

----------------------------------------------------------------------------
Init ==
    /\ chat = NewChat(<<>>)
    /\ view = [messages |-> <<>>, generating |-> FALSE]
    /\ editing = 0 /\ mounted = FALSE /\ left = <<>>
    /\ config \in [stream : {TRUE}, style : Styles] \cup [stream : {FALSE}, style : {"whole"}]
    /\ stored = <<>>
    /\ count = [requests |-> 0, messages |-> 0, mounts |-> 0, edits |-> 0]
    /\ full = [r \in Requests |-> <<>>] /\ ended = {}
    /\ crossed = FALSE /\ damaged = FALSE /\ faults = 0

history == <<full, ended>>
page == <<mounted, left, config, stored, damaged>>

Committed(c) == [messages |-> c.messages, generating |-> IsGenerating(c)]

(* An event of the user is committed at once.                              *)
Commit(c) == chat' = c /\ view' = Committed(c)

Ready == mounted /\ ~view.generating

----------------------------------------------------------------------------
(* Events of the user.                                                     *)

(* updateMessages and sendChat of a conversation that ends in a new        *)
(* loading answer.                                                         *)
Submit(before, news) ==
    LET r == count.requests + 1
        ms == before \o [i \in 1..news |-> UserMessage(count.messages + i)]
                     \o <<LoadingAssistantMessage(count.messages + news + 1, r)>>
    IN  /\ r \in Requests
        /\ count' = [count EXCEPT !.requests = r, !.messages = @ + news + 1]
        /\ \/ Commit(SendChat(UpdateMessages(chat, ms), r, TRUE)) /\ UNCHANGED faults
           \/ /\ config.stream /\ faults < MaxFaults /\ faults' = faults + 1
              /\ Commit(SendChat(UpdateMessages(chat, ms), r, FALSE))

HandleSendMessage ==
    /\ Ready /\ Submit(view.messages, 1)
    /\ UNCHANGED <<editing, page, history, crossed>>

(* The message's own button, or Retry of an error message.                 *)
HandleRegenerateMessage ==
    /\ Ready
    /\ \E i \in DOMAIN view.messages :
        LET m == view.messages[i]
        IN  /\ m.status = "error" \/ (HasContent(m) /\ ~IsPending(m))
            /\ Submit(SubSeq(view.messages, 1, IF m.from = "user" THEN i ELSE i - 1), 0)
    /\ UNCHANGED <<editing, page, history, crossed>>

HandleEditMessage ==
    /\ Ready /\ count.edits < MaxEdits
    /\ count' = [count EXCEPT !.edits = @ + 1]
    /\ \E i \in DOMAIN view.messages :
        /\ HasContent(view.messages[i])
        /\ editing' = view.messages[i].key
    /\ UNCHANGED <<chat, view, page, history, crossed, faults>>

HandleEditOpenChange ==
    /\ mounted /\ editing # 0 /\ editing' = 0
    /\ UNCHANGED <<chat, view, count, page, history, crossed, faults>>

(* The editor is not disabled while an answer is generated.                *)
Editable == mounted /\ editing # 0 /\ HasKey(view.messages, editing)

Edited == [view.messages EXCEPT ![IndexOf(view.messages, editing)].text = Local]

Crosses == crossed' = (crossed \/ view.generating \/ view # Committed(chat))

SaveEdit ==
    /\ Editable
    /\ Commit(UpdateMessages(chat, Edited))
    /\ editing' = 0 /\ Crosses
    /\ UNCHANGED <<count, page, history, faults>>

SaveEditAndSubmit ==
    /\ Editable /\ view.messages[IndexOf(view.messages, editing)].from = "user"
    /\ Submit(SubSeq(Edited, 1, IndexOf(view.messages, editing)), 0)
    /\ editing' = 0 /\ Crosses
    /\ UNCHANGED <<page, history>>

HandleDeleteMessage ==
    /\ Ready /\ count.edits < MaxEdits
    /\ count' = [count EXCEPT !.edits = @ + 1]
    /\ \E i \in DOMAIN view.messages :
        Commit(UpdateMessages(chat, RemoveMessageByKey(chat.messages, view.messages[i].key)))
    /\ UNCHANGED <<editing, page, history, crossed, faults>>

HandleClearMessages ==
    /\ Ready /\ view.messages # <<>>
    /\ Commit(UpdateMessages(chat, <<>>))
    /\ editing' = 0
    /\ UNCHANGED <<count, page, history, crossed, faults>>

Stop ==
    /\ mounted /\ view.generating
    /\ Commit(StopGeneration(chat))
    /\ UNCHANGED <<editing, count, page, history, crossed, faults>>

User ==
    \/ HandleSendMessage \/ HandleRegenerateMessage
    \/ HandleEditMessage \/ HandleEditOpenChange \/ SaveEdit \/ SaveEditAndSubmit
    \/ HandleDeleteMessage \/ HandleClearMessages \/ Stop

----------------------------------------------------------------------------
(* Events of the transport; only an open stream has any.                   *)

quietly == <<view, editing, count, page, crossed, faults>>

(* The words that request r adds, the text with them, and the chunk that   *)
(* carries them: the words alone, or the text so far with them.            *)
Delta(r, d) == [i \in 1..Len(d) |-> <<r, d[i]>>]

Grown(r, d) == full[r] \o Delta(r, d)

Chunk(r, d) == IF config.style = "snapshot" THEN Grown(r, d) ELSE Delta(r, d)

StreamUpdate ==
    /\ config.stream
    /\ \E r \in chat.open, d \in Deltas :
        /\ Len(FlattenSeq(full)) + Len(d) <= MaxWords
        /\ full' = [full EXCEPT ![r] = Grown(r, d)]
        /\ chat' = HandleStreamUpdate(chat, Chunk(r, d))
    /\ UNCHANGED <<ended, quietly>>

StreamDone ==
    /\ config.stream
    /\ \E r \in chat.open :
        /\ chat' = HandleDone(chat, r) /\ ended' = ended \cup {r}
    /\ UNCHANGED <<full, quietly>>

(* An error event, a message that does not parse, a status other than 200. *)
StreamFails ==
    /\ config.stream
    /\ \E r \in chat.open : chat' = HandleError(chat, r)
    /\ UNCHANGED <<history, quietly>>

(* A response of status 200 that ends without [DONE]: no listener reacts.  *)
StreamEndsSilently ==
    /\ config.stream
    /\ \E r \in chat.open : chat' = [chat EXCEPT !.open = @ \ {r}]
    /\ UNCHANGED <<history, quietly>>

Response ==
    /\ ~config.stream
    /\ \E r \in chat.open, outcome \in {"choice", "none", "failure"} :
        /\ chat' = Answered(chat, r, outcome)
        /\ IF outcome = "choice" /\ r \notin chat.aborted
           THEN full' = [full EXCEPT ![r] = << <<r, 1>> >>] /\ ended' = ended \cup {r}
           ELSE UNCHANGED history
    /\ UNCHANGED quietly

----------------------------------------------------------------------------
(* Timers and the commit of their changes.                                 *)

FlushTimer ==
    /\ mounted /\ chat.flushTimer
    /\ chat' = FlushStreamUpdates(chat)
    /\ UNCHANGED <<history, quietly>>

(* saveMessages: localStorage may refuse the value.                        *)
SaveMessages(ms) ==
    \/ stored' = TrimMessages(ms) /\ UNCHANGED <<damaged, faults>>
    \/ /\ faults < MaxFaults /\ faults' = faults + 1
       /\ damaged' = TRUE /\ UNCHANGED stored

SaveTimer ==
    /\ mounted /\ chat.saveTimer
    /\ chat' = [chat EXCEPT !.saveTimer = FALSE]
    /\ SaveMessages(chat.messages)
    /\ UNCHANGED <<view, editing, mounted, left, config, count, history, crossed>>

Render ==
    /\ mounted /\ view # Committed(chat)
    /\ view' = Committed(chat)
    /\ UNCHANGED <<chat, editing, count, page, history, crossed, faults>>

----------------------------------------------------------------------------
(* Opening and leaving the page.                                           *)

(* The load timer of usePlaygroundState, before the first event of the     *)
(* user.  Stored messages that are too large or do not parse count as      *)
(* none; loadMessages writes back what it returns.                         *)
Mount ==
    /\ ~mounted /\ count.mounts < MaxMounts
    /\ count' = [count EXCEPT !.mounts = @ + 1]
    /\ mounted' = TRUE
    /\ \/ \E ms \in LoadMessages(stored) :
            /\ Commit(NewChat(ms))
            /\ SaveMessages(ms)
       \/ /\ faults < MaxFaults /\ faults' = faults + 1
          /\ Commit(NewChat(<<>>)) /\ damaged' = TRUE /\ UNCHANGED stored
    /\ editing' = 0
    /\ UNCHANGED <<left, config, history, crossed>>

(* What request r, which goes on when the page is left, may make of the    *)
(* state: it delivers text, fails or is answered.  Words that come only    *)
(* then are left out.                                                      *)
After(r) ==
    IF config.stream THEN {FlushStreamUpdates(chat), HandleError(chat, r)}
    ELSE {Answered(chat, r, outcome) : outcome \in {"choice", "none", "failure"}}

Late == {c.messages : c \in UNION {After(r) : r \in chat.open}} \ {chat.messages}

(* The component is unmounted: a pending save is made and the timer that   *)
(* flushes is cleared; its requests are not closed.  React may still run   *)
(* the first updater of messages that follows, and not the later ones.     *)
Unmount ==
    /\ mounted /\ mounted' = FALSE
    /\ Commit(NewChat(<<>>)) /\ left' \in {<<>>} \cup Late
    /\ IF chat.saveTimer THEN SaveMessages(chat.messages)
       ELSE UNCHANGED <<stored, damaged, faults>>
    /\ editing' = 0 /\ ended' = {}
    /\ UNCHANGED <<config, count, full, crossed>>

(* The timer that persistMessages set when that updater called it.         *)
LeftSaves ==
    /\ left # <<>> /\ left' = <<>>
    /\ stored' = TrimMessages(left) /\ crossed' = TRUE /\ damaged' = TRUE
    /\ UNCHANGED <<chat, view, editing, mounted, config, count, history, faults>>

(* The tab is closed or reloaded: no effect is cleaned up.                 *)
Reload ==
    /\ mounted /\ mounted' = FALSE
    /\ Commit(NewChat(<<>>)) /\ left' = <<>>
    /\ editing' = 0 /\ ended' = {}
    /\ UNCHANGED <<config, stored, damaged, count, full, crossed, faults>>

Next ==
    \/ User
    \/ StreamUpdate \/ StreamDone \/ StreamFails \/ StreamEndsSilently \/ Response
    \/ FlushTimer \/ SaveTimer \/ Render
    \/ Mount \/ Unmount \/ LeftSaves \/ Reload

Spec == Init /\ [][Next]_vars

----------------------------------------------------------------------------
(* Properties.                                                             *)

Message ==
    [key : Nat, from : {"user", "assistant"}, req : 0..MaxRequests,
     status : {"none", "loading", "streaming", "complete", "error"},
     text : Seq((0..MaxRequests) \X Nat)]

(* The messages shown, shown last and stored are messages, and the refs    *)
(* name requests that were made.                                           *)
TypeOK ==
    /\ \A ms \in {chat.messages, view.messages, stored} : \A i \in DOMAIN ms : ms[i] \in Message
    /\ {chat.source, chat.requestId, chat.abortController} \subseteq 0..count.requests
    /\ chat.open \cup chat.aborted \subseteq 1..count.requests
    /\ Len(stored) <= MaxStored

(* When the console offers the input again, no answer is left loading or   *)
(* streaming, after a stop, an error, a lost tab and a load alike; an edit *)
(* saved while an answer was generated and a late save of a page that was  *)
(* left are excepted, here and below.                                      *)
NothingPendingAtRest ==
    ~IsGenerating(chat) /\ ~crossed => \A i \in DOMAIN chat.messages : ~IsPending(chat.messages[i])

(* The words of s are among those of t, in the same order.                 *)
IsSubsequence(s, t) ==
    \E f \in [DOMAIN s -> DOMAIN t] :
        /\ \A i \in DOMAIN s : s[i] = t[f[i]]
        /\ \A i, j \in DOMAIN s : i < j => f[i] < f[j]

(* The messages whose text a request has delivered.                        *)
Answers == {m \in ToSet(chat.messages) : m.from = "assistant" /\ m.text # Local}

(* An answer shows words that its own request delivered, each at most as   *)
(* often and in the order it did: whatever the deltas look like, the       *)
(* merging of chunks into the buffer, the flushes between them and the     *)
(* stops of earlier requests neither repeat, reorder nor mix text.  They   *)
(* do lose text: a delta that begins with all that waits in the buffer, or *)
(* a flush that begins with all that is shown, is taken for a snapshot.    *)
AnswerIsOwn == ~crossed => \A m \in Answers : IsSubsequence(m.text, full[m.req])

(* No chunk of the request can be mistaken: it sends snapshots, or its     *)
(* words all differ.                                                       *)
Unmistakable(t) == config.style = "snapshot" \/ IsInjective(t)

(* Of a request whose chunks cannot be mistaken an answer shows the text   *)
(* so far without gaps, and all of it once the request has ended: then no  *)
(* flush, stop or end of a stream loses what was in the buffer.            *)
AnswerIsWhole ==
    ~crossed => \A m \in Answers :
        Unmistakable(full[m.req]) =>
            /\ IsPrefix(m.text, full[m.req])
            /\ m.status = "complete" /\ m.req \in ended => m.text = full[m.req]

(* What is shown is what is stored, unless a save is due, localStorage has *)
(* failed or a page that was left has written to it.                       *)
SavedWhenQuiet == mounted /\ ~chat.saveTimer /\ ~damaged => stored = TrimMessages(chat.messages)

(* An answer that is final stays as it is until the user edits or removes  *)
(* it: no late chunk, response, error or timer reopens or changes it.      *)
FinalAnswerStays ==
    [][\A i \in DOMAIN chat.messages :
        /\ IsFinal(chat.messages[i]) /\ mounted' /\ ~crossed'
        /\ ~(Editable /\ editing = chat.messages[i].key)
        /\ HasKey(chat'.messages, chat.messages[i].key)
        => chat.messages[i] = chat'.messages[IndexOf(chat'.messages, chat.messages[i].key)]]_vars

(* The console shows that it is generating exactly while a request may     *)
(* still deliver or a stream waits to be stopped: no error, late response  *)
(* or stop leaves it busy for ever, and none hides a request that runs.    *)
GeneratingIsShown ==
    ~crossed => (IsGenerating(chat) <=>
        IF config.stream THEN chat.source # 0 ELSE chat.open \ chat.aborted # {})
=============================================================================
