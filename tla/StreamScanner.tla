---------------------------- MODULE StreamScanner ----------------------------
(***************************************************************************)
(* StreamScannerHandler (relay/helper/stream_scanner.go), through which    *)
(* every streamed answer of a provider passes: a scanner goroutine reads   *)
(* lines into a channel, a handler goroutine hands them to the adaptor,    *)
(* which writes to the client, a ping goroutine keeps the connection       *)
(* alive, and the caller waits for the end, the idle timeout or the        *)
(* client's departure and then joins the three.                            *)
(*                                                                         *)
(* What the adaptor does with a piece is its outcome; panics are possible  *)
(* wherever the code recovers from them.  ctx is cancelled just before     *)
(* stopChan is closed and is listened to beside it: the two are one here.  *)
(* The channel is a FIFO, so that it is given by what went in and out.     *)
(***************************************************************************)
EXTENDS Naturals

CONSTANTS
    Capacity,  \* capacity of dataChan, 10 in the code
    MaxLines   \* bound: lines that the provider sends

ASSUME StreamAssumption == Capacity \in Nat \ {0} /\ MaxLines \in Nat

VARIABLES
    main,      \* position of the caller
    scanner,   \* position of the scanner goroutine, or the line it has read
    handler,   \* position of the data handler goroutine
    ping,      \* position of the ping goroutine
    stopChan,  \* "open" or "closed"
    dataChan,  \* "open" or "closed"
    body,      \* the provider's response: "open" or "closed"
    ticker,    \* the idle timeout: "armed" or "fired"
    client,    \* "here" or "gone"
    mutex,     \* holder of writeMutex
    reason,    \* StreamStatus.EndReason, "none" for the empty one
    lines,     \* lines read
    received,  \* ReceivedResponseCount
    sent,      \* pieces put into dataChan
    taken,     \* pieces taken out of it
    handled,   \* pieces the adaptor has dealt with
    quit,      \* "yes" if the adaptor ended the stream or panicked
    late       \* history: pieces put into dataChan after stopChan was closed

vars == <<main, scanner, handler, ping, stopChan, dataChan, body, ticker, client, mutex, reason,
          lines, received, sent, taken, handled, quit, late>>
counts == <<lines, received, sent, taken, handled, quit, late>>
world == <<body, ticker, client>>

(* With PingIntervalEnabled, or without.                                   *)
Init ==
    /\ main = "select" /\ scanner = "scan" /\ handler = "receive" /\ ping \in {"select", "exited"}
    /\ stopChan = "open" /\ dataChan = "open" /\ body = "open" /\ ticker = "armed"
    /\ client = "here" /\ mutex = "free" /\ reason = "none"
    /\ lines = 0 /\ received = 0 /\ sent = 0 /\ taken = 0 /\ handled = 0
    /\ quit = "no" /\ late = 0

(* SetEndReason: the first one stays.                                      *)
SetEndReason(r) == reason' = IF reason = "none" THEN r ELSE reason

Stop == stopChan' = "closed"

----------------------------------------------------------------------------
(* The caller.                                                             *)

Select ==
    /\ main = "select" /\ main' = "stop"
    /\ \/ ticker = "fired" /\ SetEndReason("timeout")
       \/ stopChan = "closed" /\ UNCHANGED reason
       \/ client = "gone" /\ SetEndReason("client_gone")
    /\ UNCHANGED <<scanner, handler, ping, stopChan, dataChan, world, mutex, counts>>

CleanupStop ==
    /\ main = "stop" /\ main' = "close" /\ Stop
    /\ UNCHANGED <<scanner, handler, ping, dataChan, world, mutex, reason, counts>>

(* Faulty variant: the goroutines are waited for before the body is closed *)
CleanupCloseLate ==
    /\ main = "close" /\ main' = "untick" /\ scanner = "exited" /\ body' = "closed"
    /\ UNCHANGED <<scanner, handler, ping, stopChan, dataChan, ticker, client, mutex, reason, counts>>

(* The body is closed...                                                   *)
CleanupClose ==
    /\ main = "close" /\ main' = "untick" /\ body' = "closed"
    /\ UNCHANGED <<scanner, handler, ping, stopChan, dataChan, ticker, client, mutex, reason, counts>>

(* ... and the tickers are stopped, after which they send nothing.         *)
CleanupTickers ==
    /\ main = "untick" /\ main' = "wait"
    /\ UNCHANGED <<scanner, handler, ping, stopChan, dataChan, world, mutex, reason, counts>>

(* Faulty variant: the ping goroutine is not in the wait group *)
ReturnUnjoined ==
    /\ main = "wait" /\ main' = "returned"
    /\ scanner = "exited" /\ handler = "exited"
    /\ UNCHANGED <<scanner, handler, ping, stopChan, dataChan, world, mutex, reason, counts>>

(* wg.Wait, and the return.                                                *)
Return ==
    /\ main = "wait" /\ main' = "returned"
    /\ scanner = "exited" /\ handler = "exited" /\ ping = "exited"
    /\ UNCHANGED <<scanner, handler, ping, stopChan, dataChan, world, mutex, reason, counts>>

----------------------------------------------------------------------------
(* The scanner goroutine.                                                  *)

LineKinds == {"skip", "piece", "done"}

(* The provider sends a line; one that is buffered is read even from a     *)
(* body that has been closed.                                              *)
ScanLine ==
    /\ scanner = "scan" /\ lines < MaxLines /\ lines' = lines + 1
    /\ scanner' \in LineKinds
    /\ UNCHANGED <<main, handler, ping, stopChan, dataChan, world, mutex, reason,
                   received, sent, taken, handled, quit, late>>

(* The input ends, with an error or without, or reading panics.            *)
ScanEnds ==
    /\ scanner = "scan"
    /\ \/ scanner' = "close" /\ (SetEndReason("scanner_error") \/ SetEndReason("eof"))
       \/ scanner' = "panic" /\ UNCHANGED reason
    /\ UNCHANGED <<main, handler, ping, stopChan, dataChan, world, mutex, counts>>

(* A line has been read: after a stop it is dropped, else the idle timeout *)
(* starts anew and the line is dealt with.                                 *)
Check ==
    /\ scanner \in LineKinds
    /\ \/ stopChan = "closed" /\ scanner' = "close" /\ UNCHANGED <<ticker, reason, received>>
       \/ /\ stopChan = "open" /\ ticker' = "armed"
          /\ \/ scanner = "skip" /\ scanner' = "scan" /\ UNCHANGED <<reason, received>>
             \/ scanner = "piece" /\ scanner' = "send" /\ received' = received + 1 /\ UNCHANGED reason
             \/ scanner = "done" /\ scanner' = "close" /\ SetEndReason("done") /\ UNCHANGED received
    /\ UNCHANGED <<main, handler, ping, stopChan, dataChan, body, client, mutex,
                   lines, sent, taken, handled, quit, late>>

(* select takes either if dataChan has room and stopChan is closed.        *)
Send ==
    /\ scanner = "send"
    /\ \/ /\ sent - taken < Capacity /\ scanner' = "scan" /\ sent' = sent + 1
          /\ late' = IF stopChan = "closed" THEN late + 1 ELSE late
       \/ stopChan = "closed" /\ scanner' = "close" /\ UNCHANGED <<sent, late>>
    /\ UNCHANGED <<main, handler, ping, stopChan, dataChan, world, mutex, reason,
                   lines, received, taken, handled, quit>>

(* The deferred function closes dataChan before it looks at a panic.       *)
ScannerClose ==
    /\ \/ scanner = "close" /\ scanner' = "exit"
       \/ scanner = "panic" /\ scanner' = "recover"
    /\ dataChan' = "closed"
    /\ UNCHANGED <<main, handler, ping, stopChan, world, mutex, reason, counts>>

ScannerExit ==
    /\ \/ scanner = "exit" /\ UNCHANGED reason
       \/ scanner = "recover" /\ SetEndReason("panic")
    /\ scanner' = "exited" /\ Stop
    /\ UNCHANGED <<main, handler, ping, dataChan, world, mutex, counts>>

----------------------------------------------------------------------------
(* The data handler goroutine.                                             *)

(* Faulty variant: a stop ends the loop although pieces are left *)
ReceiveUntilStop ==
    /\ handler = "receive"
    /\ \/ taken < sent /\ handler' = "lock" /\ taken' = taken + 1
       \/ taken = sent /\ dataChan = "closed" /\ handler' = "exit" /\ UNCHANGED taken
       \/ stopChan = "closed" /\ handler' = "exit" /\ UNCHANGED taken
    /\ UNCHANGED <<main, scanner, ping, stopChan, dataChan, world, mutex, reason,
                   lines, received, sent, handled, quit, late>>

(* for data := range dataChan                                              *)
Receive ==
    /\ handler = "receive"
    /\ \/ taken < sent /\ handler' = "lock" /\ taken' = taken + 1
       \/ taken = sent /\ dataChan = "closed" /\ handler' = "exit" /\ UNCHANGED taken
    /\ UNCHANGED <<main, scanner, ping, stopChan, dataChan, world, mutex, reason,
                   lines, received, sent, handled, quit, late>>

HandlerLock ==
    /\ handler = "lock" /\ handler' = "handle" /\ mutex = "free" /\ mutex' = "handler"
    /\ UNCHANGED <<main, scanner, ping, stopChan, dataChan, world, reason, counts>>

(* dataHandler writes, which takes no longer than streamWriteTimeout, and  *)
(* may call Stop or Done of its StreamResult, or panic.                    *)
Handle ==
    /\ handler = "handle" /\ mutex' = "free" /\ handled' = handled + 1
    /\ \/ handler' = "receive" /\ UNCHANGED <<reason, quit>>
       \/ /\ handler' = "exit" /\ quit' = "yes"
          /\ \E r \in {"handler_stop", "done", "panic"} : SetEndReason(r)
    /\ UNCHANGED <<main, scanner, ping, stopChan, dataChan, world, lines, received, sent, taken, late>>

HandlerExit ==
    /\ handler = "exit" /\ handler' = "exited" /\ Stop
    /\ UNCHANGED <<main, scanner, ping, dataChan, world, mutex, reason, counts>>

----------------------------------------------------------------------------
(* The ping goroutine.                                                     *)

PingTick ==
    /\ ping = "select" /\ main \notin {"wait", "returned"} /\ ping' = "lock"
    /\ UNCHANGED <<main, scanner, handler, stopChan, dataChan, world, mutex, reason, counts>>

PingLock ==
    /\ ping = "lock" /\ ping' = "write" /\ mutex = "free" /\ mutex' = "ping"
    /\ UNCHANGED <<main, scanner, handler, stopChan, dataChan, world, reason, counts>>

(* A ping that fails ends this goroutine and not the stream, a panic both. *)
PingWrite ==
    /\ ping = "write" /\ mutex' = "free"
    /\ \/ ping' = "select" /\ UNCHANGED <<reason, stopChan>>
       \/ ping' = "exited" /\ SetEndReason("ping_fail") /\ UNCHANGED stopChan
       \/ ping' = "exited" /\ SetEndReason("panic") /\ Stop
    /\ UNCHANGED <<main, scanner, handler, dataChan, world, counts>>

PingQuit ==
    /\ ping = "select" /\ ping' = "exited" /\ (stopChan = "closed" \/ client = "gone")
    /\ UNCHANGED <<main, scanner, handler, stopChan, dataChan, world, mutex, reason, counts>>

(* maxPingDuration has passed.                                             *)
PingLimit ==
    /\ ping = "select" /\ ping' = "exited"
    /\ UNCHANGED <<main, scanner, handler, stopChan, dataChan, world, mutex, reason, counts>>

----------------------------------------------------------------------------
TickerFires ==
    /\ main = "select" /\ ticker = "armed" /\ ticker' = "fired"
    /\ UNCHANGED <<main, scanner, handler, ping, stopChan, dataChan, body, client, mutex, reason, counts>>

ClientLeaves ==
    /\ main # "returned" /\ client = "here" /\ client' = "gone"
    /\ UNCHANGED <<main, scanner, handler, ping, stopChan, dataChan, body, ticker, mutex, reason, counts>>

Main == Select \/ CleanupStop \/ CleanupClose \/ CleanupTickers \/ Return
Scanner == Check \/ Send \/ ScannerClose \/ ScannerExit
Handler == Receive \/ HandlerLock \/ Handle \/ HandlerExit
Ping == PingLock \/ PingWrite \/ PingQuit

Next == Main \/ Scanner \/ ScanLine \/ ScanEnds \/ Handler \/ Ping \/ PingTick \/ PingLimit
        \/ TickerFires \/ ClientLeaves

(* Goroutines run; a read of a closed body returns.                        *)
Fairness ==
    /\ WF_vars(Main) /\ WF_vars(Scanner) /\ WF_vars(Handler) /\ WF_vars(Ping)
    /\ WF_vars(body = "closed" /\ ScanEnds)

Spec == Init /\ [][Next]_vars /\ Fairness

----------------------------------------------------------------------------
(* Properties.                                                             *)

Reasons == {"none", "done", "timeout", "client_gone", "scanner_error", "handler_stop", "eof", "panic",
            "ping_fail"}

(* Positions, channels and counters are well formed; dataChan never holds  *)
(* more than its capacity.                                                 *)
TypeOK ==
    /\ main \in {"select", "stop", "close", "untick", "wait", "returned"}
    /\ scanner \in {"scan", "send", "close", "panic", "exit", "recover", "exited"} \cup LineKinds
    /\ handler \in {"receive", "lock", "handle", "exit", "exited"}
    /\ ping \in {"select", "lock", "write", "exited"}
    /\ stopChan \in {"open", "closed"} /\ dataChan \in {"open", "closed"} /\ body \in {"open", "closed"}
    /\ ticker \in {"armed", "fired"} /\ client \in {"here", "gone"}
    /\ mutex \in {"free", "handler", "ping"} /\ reason \in Reasons /\ quit \in {"yes", "no"}
    /\ lines \in Nat /\ received \in Nat /\ sent \in Nat /\ taken \in Nat /\ handled \in Nat /\ late \in Nat
    /\ taken <= sent /\ sent <= taken + Capacity

(* The gin context is not used once the handler has returned: no goroutine *)
(* is left, whoever ended the stream and whatever panicked.                *)
NothingAfterReturn ==
    main = "returned" => scanner = "exited" /\ handler = "exited" /\ ping = "exited"

(* Pings and pieces are never written at the same time.                    *)
WritesExclusive == ~(handler = "handle" /\ ping = "write")

(* A stream that ended with [DONE] or with the end of the input has been   *)
(* handed to the adaptor to the last piece, even if the idle timeout ran   *)
(* out, a ping panicked or the client left meanwhile, unless the adaptor   *)
(* itself ended it.                                                        *)
NormalEndDeliversAll ==
    main = "returned" /\ reason \in {"done", "eof"} /\ quit = "no" => handled = received

(* When the handler returns the end has a reason: whoever closes stopChan  *)
(* has told it before, or tells it before it is joined.                    *)
EndReasonKnown == main = "returned" => reason # "none"

(* After a stop at most the piece at hand enters the channel.              *)
OnePieceAfterStop == late <= 1

(* The handler returns, joined and with a reason.                          *)
ReturnIsClean == NothingAfterReturn /\ EndReasonKnown

(* Once the stream was stopped or the client has left, the handler         *)
(* returns, although the provider may be silent and the channel full; and  *)
(* every stream ends if the idle timeout runs.                             *)
HandlerReturns ==
    /\ (stopChan = "closed" \/ client = "gone") ~> main = "returned"
    /\ WF_vars(TickerFires) => <>(main = "returned")
=============================================================================
