------------------------- MODULE StreamScannerProofs -------------------------
(***************************************************************************)
(* The safety properties of StreamScanner, for every capacity of the       *)
(* channel and any number of lines.  None of them is inductive: Inv adds   *)
(* who holds the mutex, where a piece is between the scanner and the       *)
(* adaptor, and who has told or is about to tell the reason of the end.    *)
(***************************************************************************)
EXTENDS StreamScanner, TLAPS

(* The mutex is held by the goroutine that writes.                         *)
MutexInv ==
    /\ handler = "handle" <=> mutex = "handler"
    /\ ping = "write" <=> mutex = "ping"

(* dataChan is closed by the scanner on its way out.                       *)
ChanInv == dataChan = "closed" <=> scanner \in {"exit", "recover", "exited"}

(* A piece is in the hands of the scanner, in the channel, in the hands of *)
(* the handler or handled; it is dropped only when the stream is stopped   *)
(* from outside or by the adaptor.                                         *)
PieceInv ==
    /\ scanner \in {"scan"} \cup LineKinds => received = sent
    /\ scanner = "send" => received = sent + 1
    /\ handler \in {"lock", "handle"} => taken = handled + 1
    /\ handler \notin {"lock", "handle"} => taken = handled
    /\ quit = "no" /\ handler \in {"exit", "exited"} => taken = sent /\ dataChan = "closed"
    /\ quit = "no" /\ reason \in {"done", "eof"} =>
          scanner \in {"close", "exit", "exited"} /\ received = sent

(* The reason is known, or the scanner is about to report its panic.       *)
Known == reason # "none" \/ scanner \in {"panic", "recover"}
ReasonInv ==
    /\ stopChan = "closed" => Known
    /\ main # "select" => Known
    /\ scanner \in {"close", "exit", "exited"} => reason # "none"
    /\ handler \in {"exit", "exited"} => Known

(* Nothing goes into the channel late but a piece that was at hand.        *)
LateInv ==
    /\ stopChan = "open" => late = 0
    /\ scanner = "send" => late = 0
    /\ late <= 1

Inv == TypeOK /\ MutexInv /\ ChanInv /\ PieceInv /\ ReasonInv /\ LateInv /\ NothingAfterReturn

(* Initially the invariant holds.                                          *)
LEMMA InitInv == Init => Inv
  BY StreamAssumption DEF Init, Inv, TypeOK, MutexInv, ChanInv, PieceInv, ReasonInv, Known, LateInv,
     NothingAfterReturn, LineKinds, Reasons

(* A step of the caller keeps it.                                          *)
LEMMA MainInv == Inv /\ Main => Inv'
  <1>1. Inv /\ Select => Inv'
    BY StreamAssumption DEF Select, SetEndReason, world, counts, Inv, TypeOK, MutexInv, ChanInv, PieceInv, ReasonInv,
       Known, LateInv, NothingAfterReturn, LineKinds, Reasons
  <1>2. Inv /\ (CleanupStop \/ CleanupClose \/ CleanupTickers \/ Return) => Inv'
    BY StreamAssumption DEF CleanupStop, CleanupClose, CleanupTickers, Return, Stop, world, counts, Inv, TypeOK, MutexInv,
       ChanInv, PieceInv, ReasonInv, Known, LateInv, NothingAfterReturn, LineKinds, Reasons
  <1> QED BY <1>1, <1>2 DEF Main

(* So does one of the scanner.                                             *)
LEMMA ScannerInv == Inv /\ (Scanner \/ ScanLine \/ ScanEnds) => Inv'
  <1>1. Inv /\ (ScanLine \/ ScanEnds) => Inv'
    BY StreamAssumption DEF ScanLine, ScanEnds, SetEndReason, world, counts, Inv, TypeOK, MutexInv, ChanInv, PieceInv,
       ReasonInv, Known, LateInv, NothingAfterReturn, LineKinds, Reasons
  <1>2. Inv /\ Check => Inv'
    BY StreamAssumption DEF Check, SetEndReason, Inv, TypeOK, MutexInv, ChanInv, PieceInv,
       ReasonInv, Known, LateInv, NothingAfterReturn, LineKinds, Reasons
  <1>3. Inv /\ Send => Inv'
    BY StreamAssumption DEF Send, world, Inv, TypeOK, MutexInv, ChanInv, PieceInv,
       ReasonInv, Known, LateInv, NothingAfterReturn, LineKinds, Reasons
  <1>4. Inv /\ (ScannerClose \/ ScannerExit) => Inv'
    BY StreamAssumption DEF ScannerClose, ScannerExit, SetEndReason, Stop, world, counts, Inv, TypeOK, MutexInv, ChanInv,
       PieceInv, ReasonInv, Known, LateInv, NothingAfterReturn, LineKinds, Reasons
  <1> QED BY <1>1, <1>2, <1>3, <1>4 DEF Scanner

(* So does one of the data handler.                                        *)
LEMMA HandlerInv == Inv /\ Handler => Inv'
  <1>1. Inv /\ Receive => Inv'
    BY StreamAssumption DEF Receive, world, Inv, TypeOK, MutexInv, ChanInv, PieceInv,
       ReasonInv, Known, LateInv, NothingAfterReturn, LineKinds, Reasons
  <1>2. Inv /\ Handle => Inv'
    BY StreamAssumption DEF Handle, SetEndReason, world, Inv, TypeOK, MutexInv, ChanInv, PieceInv,
       ReasonInv, Known, LateInv, NothingAfterReturn, LineKinds, Reasons
  <1>3. Inv /\ (HandlerLock \/ HandlerExit) => Inv'
    BY StreamAssumption DEF HandlerLock, HandlerExit, Stop, world, counts, Inv, TypeOK, MutexInv, ChanInv,
       PieceInv, ReasonInv, Known, LateInv, NothingAfterReturn, LineKinds, Reasons
  <1> QED BY <1>1, <1>2, <1>3 DEF Handler

(* So does one of the ping goroutine, of the clock and of the client.      *)
LEMMA PingInv == Inv /\ (Ping \/ PingTick \/ PingLimit \/ TickerFires \/ ClientLeaves) => Inv'
  <1>1. Inv /\ PingWrite => Inv'
    BY StreamAssumption DEF PingWrite, SetEndReason, Stop, world, counts, Inv, TypeOK, MutexInv, ChanInv, PieceInv,
       ReasonInv, Known, LateInv, NothingAfterReturn, LineKinds, Reasons
  <1>2. Inv /\ (PingLock \/ PingQuit \/ PingTick \/ PingLimit) => Inv'
    BY StreamAssumption DEF PingLock, PingQuit, PingTick, PingLimit, world, counts, Inv, TypeOK, MutexInv, ChanInv,
       PieceInv, ReasonInv, Known, LateInv, NothingAfterReturn, LineKinds, Reasons
  <1>3. Inv /\ (TickerFires \/ ClientLeaves) => Inv'
    BY StreamAssumption DEF TickerFires, ClientLeaves, counts, Inv, TypeOK, MutexInv, ChanInv,
       PieceInv, ReasonInv, Known, LateInv, NothingAfterReturn, LineKinds, Reasons
  <1> QED BY <1>1, <1>2, <1>3 DEF Ping

(* The invariant is inductive.                                             *)
THEOREM StreamInvariant == Spec => []Inv
  <1>1. Inv /\ [Next]_vars => Inv'
    <2>1. Inv /\ Next => Inv'
      BY MainInv, ScannerInv, HandlerInv, PingInv DEF Next
    <2>2. Inv /\ UNCHANGED vars => Inv'
      BY DEF vars, Inv, TypeOK, MutexInv, ChanInv, PieceInv, ReasonInv, Known, LateInv, NothingAfterReturn
    <2> QED BY <2>1, <2>2
  <1> QED BY InitInv, <1>1, PTL DEF Spec

(* The channel never holds more than its capacity, and everything is well  *)
(* formed.                                                                 *)
THEOREM StreamTypeOK == Spec => []TypeOK
  <1>1. Inv => TypeOK
    BY DEF Inv
  <1> QED BY StreamInvariant, <1>1, PTL

(* The client's connection is written to by one goroutine at a time.       *)
THEOREM StreamWritesExclusive == Spec => []WritesExclusive
  <1>1. Inv => WritesExclusive
    BY DEF Inv, MutexInv, WritesExclusive
  <1> QED BY StreamInvariant, <1>1, PTL

(* A stream that ended normally was delivered to the last piece.           *)
THEOREM StreamDeliversAll == Spec => []NormalEndDeliversAll
  <1>1. Inv => NormalEndDeliversAll
    BY DEF Inv, TypeOK, PieceInv, NothingAfterReturn, NormalEndDeliversAll
  <1> QED BY StreamInvariant, <1>1, PTL

(* StreamScannerHandler leaves no goroutine behind, and the end of the     *)
(* stream has a reason.                                                    *)
THEOREM StreamReturnsClean == Spec => []ReturnIsClean
  <1>1. Inv => ReturnIsClean
    BY DEF Inv, ReasonInv, NothingAfterReturn, EndReasonKnown, ReturnIsClean
  <1> QED BY StreamInvariant, <1>1, PTL

(* A stop keeps all but the piece at hand out of the channel.              *)
THEOREM StreamStops == Spec => []OnePieceAfterStop
  <1>1. Inv => OnePieceAfterStop
    BY DEF Inv, LateInv, OnePieceAfterStop
  <1> QED BY StreamInvariant, <1>1, PTL
=============================================================================
